-------------------------- MODULE MCWorkflowEngine --------------------------
EXTENDS WorkflowEngine
CONSTANTS n1, n2, n3, n4, n0, p1, p2

(* Definitions n1 -> n2 -> n3 with one deviation each.                     *)
Chain(t1, t2, t3) ==
  [nodes |-> {n1, n2, n3}, start |-> n1,
   type |-> [n \in Node |-> IF n = n1 THEN t1 ELSE IF n = n2 THEN t2 ELSE t3],
   next |-> [n \in Node |-> IF n = n1 THEN n2 ELSE IF n = n2 THEN n3 ELSE NoNode],
   alt |-> [n \in Node |-> NoNode]]

Approved == Chain("ai_generation", "human_approval", "email")
TwoApprovals == Chain("human_approval", "human_approval", "email")
Unapproved == Chain("ai_generation", "transform", "email")
Rewritten == Chain("human_approval", "transform", "email")
Skipping == [Chain("condition", "human_approval", "email") EXCEPT !.alt[n1] = n3]
Branching == [Chain("condition", "human_approval", "email") EXCEPT !.alt[n1] = NoNode]
Looping == [Chain("human_approval", "email", "condition") EXCEPT !.next[n3] = n2]
Circling == [Chain("trigger", "notification", "transform") EXCEPT !.next[n3] = n1]
Dangling == [Chain("human_approval", "email", "trigger")
               EXCEPT !.nodes = {n1, n2}]
LongDangling == [Chain("trigger", "notification", "transform") EXCEPT !.next[n3] = n4]
Database == Chain("human_approval", "database", "email")
Headless == [Approved EXCEPT !.start = NoNode]


(* n0 is the node with the empty id: the checks see no link to it.         *)
Through(t1, t0, t3) ==
  [Chain(t1, "trigger", t3) EXCEPT !.nodes = {n1, n0, n3}, !.type[n0] = t0,
                                   !.next[n1] = n0, !.next[n0] = n3, !.next[n2] = NoNode]
Unseen == Through("trigger", "transform", "email")
UnseenAct == Through("ai_generation", "email", "trigger")
UnseenApproval == Through("trigger", "human_approval", "email")
UnseenAfter == Through("human_approval", "email", "database")
UnseenCircle == [Through("trigger", "notification", "email") EXCEPT !.next[n0] = n1]
UnseenBranch == [Through("condition", "email", "trigger")
                   EXCEPT !.next[n1] = n3, !.alt[n1] = n0]
UnseenEnd == [Through("human_approval", "email", "trigger") EXCEPT !.nodes = {n1, n3}]
UnseenStart == [Through("trigger", "notification", "trigger") EXCEPT !.start = n0]
EmptyIds == {Unseen, UnseenAct, UnseenApproval, UnseenAfter, UnseenCircle, UnseenBranch,
             UnseenEnd, UnseenStart}

SomeWorkflows == EmptyIds \cup
                 {Approved, TwoApprovals, Unapproved, Rewritten, Skipping,
                  Branching, Looping, Circling, Dangling, LongDangling, Database, Headless}

(* Every definition over three nodes of three kinds whose last node has no *)
(* second link, and the peculiar ones above; the latter are also what an   *)
(* edit may leave behind while an execution waits.                         *)
Three == {n1, n2, n3}
Over(f, other) == [n \in Node |-> IF n \in Three THEN f[n] ELSE other]
Links == [Three -> Three \cup {NoNode}]

AllWorkflows ==
  SomeWorkflows \cup
  {[nodes |-> Three, start |-> n1, type |-> Over(type, "trigger"),
    next |-> Over(next, NoNode), alt |-> Over(alt, NoNode)] :
     type \in [Three -> {"condition", "human_approval", "email"}],
     next \in {f \in Links : f[n1] # NoNode}, alt \in {f \in Links : f[n3] = NoNode}}

Rewrites == {Looping, Database, Unapproved, Skipping, UnseenAct}

RunnableTypes == {"trigger", "condition", "transform", "ai_classification",
                  "ai_extraction", "ai_summarization", "ai_generation",
                  "notification", "email"}
=============================================================================
