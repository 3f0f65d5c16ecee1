----------------------------- MODULE Executions -----------------------------
(***************************************************************************)
(* Workflow executions (services/workflow-engine, types.py) and the pieces *)
(* the engine's methods are made of (engine.py), with the handlers the     *)
(* workflow builder registers (handlers.py): operators over a definition w *)
(* and an execution x.                                                     *)
(*                                                                         *)
(* The record x is the WorkflowExecution together with the two local       *)
(* variables of _walk: the node it is about to run (`cursor`) and the      *)
(* number of loop iterations it has counted (`steps`).                     *)
(*                                                                         *)
(* The context is abstracted to the two entries the send handler reads,    *)
(* "approved" and "approved_by"; the output of a handler to what the       *)
(* engine reads of it and what a send records.                             *)
(***************************************************************************)
EXTENDS WorkflowDefs, Integers, Sequences, FiniteSets

CONSTANTS Person,
          Blank,       \* an absent or whitespace approver
          Handled,     \* node types with a registered handler
          MaxSteps,    \* MAX_STEPS of the engine
          Edited,      \* what an edit may leave behind between run and resume
          MaxResumes   \* bound of the model: decisions per execution

ASSUME EngineAssumption ==
  /\ Blank \notin Person
  /\ Handled \subseteq NodeType \ {"human_approval"}
  /\ MaxSteps \in Nat \ {0}
  /\ Edited \subseteq Workflows
  /\ MaxResumes \in Nat

Approver == Person \cup {Blank}

Context == [approved : BOOLEAN, by : Approver]

(* A NodeRun.  `decision` and `by` are the output a decision or a send     *)
(* leaves in it; `costed` says that estimated_cost_usd is filled in.       *)
NodeRun == [node : Node, type : NodeType, decision : {"none", "yes", "no"},
            status : {"succeeded", "failed", "skipped", "awaiting_approval"},
            by : Approver, costed : BOOLEAN]

Execution == [status : {"new", "running", "awaiting_approval", "succeeded", "failed"},
              cursor : Link, steps : 0..MaxSteps, awaiting : Link,
              error : {"none", "limit", "missing", "unhandled", "raised"},
              ctx : Context, log : Seq(NodeRun), resumes : 0..MaxResumes]

NewExecution == [status |-> "new", cursor |-> NoNode, steps |-> 0,
                 awaiting |-> NoNode, error |-> "none",
                 ctx |-> [approved |-> FALSE, by |-> Blank], log |-> << >>, resumes |-> 0]

-----------------------------------------------------------------------------
Logged(x, run) == [x EXCEPT !.log = Append(@, run)]

Failed(x, why) == [x EXCEPT !.status = "failed", !.error = why, !.cursor = NoNode]

AITypes == {"ai_classification", "ai_extraction", "ai_summarization", "ai_generation"}

(* The bookkeeping keys of a handler's output.                             *)
OutputKeys(type) == IF type \in AITypes THEN {"_ai_model", "_ai_cost"} ELSE {}

Ran(w, n, status, by) ==
  [node |-> n, type |-> w.type[n], decision |-> "none", status |-> status, by |-> by,
   costed |-> status = "succeeded" /\ "_estimated_cost_usd" \in OutputKeys(w.type[n])]

(* Mutant: run trusts that the definition was checked when it was saved.   *)
MayRunUnchecked(w) == w.start \in Start(w) \cap w.nodes

MayRun(w) == w.start \in Start(w) \cap w.nodes /\ Unguarded(w) = {}

Started(w, ctx) ==
  [NewExecution EXCEPT !.status = "running", !.cursor = w.start, !.ctx = ctx]

(* The loop of _walk, in the order of its tests: it goes on until the link *)
(* taken is None, so to a node whose id is empty too.                      *)
Walking(x) == x.status = "running" /\ x.cursor # NoNode

(* Mutant: the loop stops one iteration early.                             *)
AtLimitEarly(x) == Walking(x) /\ x.steps >= MaxSteps - 1

AtLimit(x) == Walking(x) /\ x.steps = MaxSteps

Counting(x) == Walking(x) /\ x.steps < MaxSteps

Counted(x) == [x EXCEPT !.steps = @ + 1]

AtMissing(w, x) == Counting(x) /\ x.cursor \notin w.nodes

AtNode(w, x, kinds) ==
  Counting(x) /\ x.cursor \in w.nodes /\ w.type[x.cursor] \in kinds

Paused(w, x) ==
  [Logged(Counted(x), Ran(w, x.cursor, "awaiting_approval", Blank))
    EXCEPT !.status = "awaiting_approval", !.awaiting = x.cursor, !.cursor = NoNode]

(* The send handler raises unless the context names an approver.           *)
MaySend(ctx) == ctx.approved /\ ctx.by # Blank

MayRaise == Handled \ {"trigger", "notification"}

Raised(w, x) ==
  Failed(Logged(Counted(x), Ran(w, x.cursor, "failed", Blank)), "raised")

(* What a handler may leave in the context: a transform maps any field to  *)
(* any other and an extraction writes the fields its node names, so both   *)
(* may write the approval entries; no other handler does.                  *)
ContextAfter(type, ctx) ==
  IF type \in {"transform", "ai_extraction"} THEN Context ELSE {ctx}

(* The node's handler returned; a condition's result picks the branch.     *)
Returned(w, x, ctx, result) ==
  LET n == x.cursor
      isCondition == w.type[n] = "condition"
  IN [Logged(Counted(x),
             Ran(w, n, "succeeded", IF w.type[n] = "email" THEN x.ctx.by ELSE Blank))
        EXCEPT !.ctx = ctx,
               !.cursor = IF isCondition /\ ~result THEN w.alt[n] ELSE w.next[n]]

(* Mutant: the end of the walk leaves the status alone.                    *)
FinishedSilently(x) == x

Finished(x) == [x EXCEPT !.status = "succeeded"]

MayResume(w, x, who) ==
  /\ x.status = "awaiting_approval"
  /\ who # Blank
  /\ x.awaiting \in w.nodes

(* Mutants: a refusal walks on; the approval node is walked to again; the  *)
(* execution goes on naming the node it waited at.                         *)
DecidedAlwaysOn(w, x, who, yes) ==
  [Logged(x, [node |-> x.awaiting, type |-> w.type[x.awaiting], by |-> who,
              costed |-> FALSE, decision |-> IF yes THEN "yes" ELSE "no",
              status |-> "succeeded"])
    EXCEPT !.ctx = [approved |-> yes, by |-> who], !.awaiting = NoNode,
           !.resumes = @ + 1, !.steps = 0, !.status = "running",
           !.cursor = w.next[x.awaiting]]

DecidedInPlace(w, x, who, yes) ==
  [Logged(x, [node |-> x.awaiting, type |-> w.type[x.awaiting], by |-> who,
              costed |-> FALSE, decision |-> "yes", status |-> "succeeded"])
    EXCEPT !.ctx = [approved |-> yes, by |-> who], !.awaiting = NoNode,
           !.resumes = @ + 1, !.steps = 0, !.status = "running",
           !.cursor = x.awaiting]

DecidedStillAwaiting(w, x, who, yes) ==
  [Logged(x, [node |-> x.awaiting, type |-> w.type[x.awaiting], by |-> who,
              costed |-> FALSE, decision |-> IF yes THEN "yes" ELSE "no",
              status |-> "succeeded"])
    EXCEPT !.ctx = [approved |-> yes, by |-> who],
           !.resumes = @ + 1, !.steps = 0,
           !.status = IF yes THEN "running" ELSE "succeeded",
           !.cursor = IF yes THEN w.next[x.awaiting] ELSE NoNode]

Decided(w, x, who, yes) ==
  [Logged(x, [node |-> x.awaiting, type |-> w.type[x.awaiting], by |-> who,
              costed |-> FALSE, decision |-> IF yes THEN "yes" ELSE "no",
              status |-> IF yes THEN "succeeded" ELSE "skipped"])
    EXCEPT !.ctx = [approved |-> yes, by |-> who], !.awaiting = NoNode,
           !.resumes = @ + 1, !.steps = 0,
           !.status = IF yes THEN "running" ELSE "succeeded",
           !.cursor = IF yes THEN w.next[x.awaiting] ELSE NoNode]

(* What a log tells: the decisions in it and the attempts to reach the     *)
(* outside world.                                                          *)
DecisionIn(log, d) == \E i \in DOMAIN log : log[i].decision = d

Acts(log) == {i \in DOMAIN log : log[i].type \in HighRisk /\ log[i].decision = "none"}

(* Those of a walk that has not come to a node with the empty id: no check *)
(* sees a link to one, nor what lies behind it.                            *)
CheckedActs(log) == {i \in Acts(log) : \A j \in 1..i : log[j].node # EmptyId}
=============================================================================
