------------------------- MODULE MCWorkflowBuilder --------------------------
EXTENDS WorkflowBuilder
CONSTANTS n1, n2, n3, n0, p1, p2, e1, r1, r2

Chain(t1, t2, t3) ==
  [nodes |-> {n1, n2, n3}, start |-> n1,
   type |-> [n \in Node |-> IF n = n1 THEN t1 ELSE IF n = n2 THEN t2 ELSE t3],
   next |-> [n \in Node |-> IF n = n1 THEN n2 ELSE IF n = n2 THEN n3 ELSE NoNode],
   alt |-> [n \in Node |-> NoNode]]

Approved == Chain("ai_generation", "human_approval", "email")
Direct == Chain("human_approval", "email", "condition")
Rewritten == Chain("human_approval", "transform", "email")
Looping == [Direct EXCEPT !.next[n3] = n2]
Cut == [Approved EXCEPT !.nodes = {n1, n2}, !.type[n3] = "trigger"]
Database == Chain("human_approval", "database", "trigger")


(* n0 has the empty id: an email the checks do not see.                    *)
Unseen == [Chain("trigger", "email", "email")
             EXCEPT !.nodes = {n1, n0}, !.type[n0] = "email", !.next[n1] = n0, !.next[n0] = NoNode]

SomeWorkflows == {Approved, Direct, Rewritten, Looping, Cut, Database, Unseen}
SafeWorkflows == {Approved, Rewritten}

RunnableTypes == {"trigger", "condition", "transform", "ai_classification",
                  "ai_extraction", "ai_summarization", "ai_generation",
                  "notification", "email"}
=============================================================================
