--------------------------- MODULE WorkflowEngine ---------------------------
(***************************************************************************)
(* One execution in the hands of the workflow engine (engine.py).  One     *)
(* iteration of the loop of _walk is one step.  run and resume both take   *)
(* the definition as an argument and nothing ties the two calls together:  *)
(* resume may be given a definition other than the one run checked.        *)
(***************************************************************************)
EXTENDS Executions

VARIABLES definition,  \* the definition the current call walks
          exec

vars == <<definition, exec>>

-----------------------------------------------------------------------------
TypeOK == definition \in Workflows /\ exec \in Execution

Init == definition \in Workflows /\ exec = NewExecution

(* The caller's context comes with the request, approval entries included. *)
Run(ctx) ==
  /\ exec.status = "new"
  /\ MayRun(definition)
  /\ exec' = Started(definition, ctx)
  /\ UNCHANGED definition

StopAtLimit ==
  /\ AtLimit(exec)
  /\ exec' = Failed(exec, "limit")
  /\ UNCHANGED definition

StopAtMissing ==
  /\ AtMissing(definition, exec)
  /\ exec' = Failed(Counted(exec), "missing")
  /\ UNCHANGED definition

Pause ==
  /\ AtNode(definition, exec, {"human_approval"})
  /\ exec' = Paused(definition, exec)
  /\ UNCHANGED definition

StopUnhandled ==
  /\ AtNode(definition, exec, NodeType \ (Handled \cup {"human_approval"}))
  /\ exec' = Failed(Counted(exec), "unhandled")
  /\ UNCHANGED definition

HandlerRaises ==
  /\ AtNode(definition, exec, MayRaise)
  /\ exec' = Raised(definition, exec)
  /\ UNCHANGED definition

HandlerReturns ==
  /\ AtNode(definition, exec, Handled)
  /\ definition.type[exec.cursor] = "email" => MaySend(exec.ctx)
  /\ \E ctx \in ContextAfter(definition.type[exec.cursor], exec.ctx), result \in BOOLEAN :
       exec' = Returned(definition, exec, ctx, result)
  /\ UNCHANGED definition

Finish ==
  /\ exec.status = "running" /\ exec.cursor = NoNode
  /\ exec' = Finished(exec)
  /\ UNCHANGED definition

Walk == \/ StopAtLimit \/ StopAtMissing \/ Pause \/ StopUnhandled
        \/ HandlerRaises \/ HandlerReturns \/ Finish

Resume(w, who, yes) ==
  /\ exec.resumes < MaxResumes
  /\ MayResume(w, exec, who)
  /\ exec' = Decided(w, exec, who, yes)
  /\ definition' = w

Offered == {definition} \cup Edited

Next ==
  \/ \E ctx \in Context : Run(ctx)
  \/ Walk
  \/ \E w \in Offered, who \in Approver, yes \in BOOLEAN : Resume(w, who, yes)

(* A walk is a loop in one thread: it goes on until it returns.  Nothing   *)
(* makes a caller start a run or decide on one.                            *)
Spec == Init /\ [][Next]_vars /\ WF_vars(Walk)

-----------------------------------------------------------------------------
(* No email, webhook or database node is even attempted before a person    *)
(* approved this execution, whatever context the caller supplies, whatever *)
(* branch a condition takes and whatever definition a resume is given      *)
(* ("Nothing downstream of it can execute until resume() is called with an *)
(* approver", engine.py), unless the walk came to a node with the empty    *)
(* id: the engine follows a link there that the checks drop.               *)
ActsFollowApproval ==
  \A i \in CheckedActs(exec.log) :
    \E j \in 1..(i - 1) : exec.log[j].decision = "yes" /\ exec.log[j].by \in Person

(* The same of every act, the empty id or not: what is promised ("run()    *)
(* additionally refuses a definition in which a high-risk node can be      *)
(* reached without passing an approval first", engine.py).                 *)
EveryActFollowsApproval ==
  \A i \in Acts(exec.log) :
    \E j \in 1..(i - 1) : exec.log[j].decision = "yes" /\ exec.log[j].by \in Person

(* The engine as an approval gate: Acts appear only once a person has      *)
(* said yes and never after one said no, which ends the run.  A walk that  *)
(* came to a node with the empty id has left the gate's care.              *)
Gate == INSTANCE ApprovalGate
          WITH performed <- CheckedActs(exec.log),
               phase <- IF DecisionIn(exec.log, "no") THEN "refused"
                        ELSE IF DecisionIn(exec.log, "yes") THEN "granted"
                        ELSE "open"
ImplementsGate == Gate!GateSpec

(* What a walk may come to, and what it may come to after a node.  Links   *)
(* to the empty id count here, so this is more than has_loop looks at.     *)
WalkedFrom(w) == Closure(Start(w), [n \in Node |-> Follow(w, n)])

WalkedAfter(w, n) == Closure(Follow(w, n), [m \in Node |-> Follow(w, m)])

Circles(w) == \E n \in WalkedFrom(w) : n \in WalkedAfter(w, n)

(* On a definition without a circle every node runs, or pauses, at most    *)
(* once: the promise behind expected_ai_requests ("a run can cost less,    *)
(* never more").                                                           *)
Visits(log) == {i \in DOMAIN log : log[i].decision = "none"}

EachNodeOnce ==
  definition \notin Edited =>
    \/ \A i, j \in Visits(exec.log) : exec.log[i].node = exec.log[j].node => i = j
    \/ Circles(definition)

(* The step limit stops no definition but one with a circle or with more   *)
(* nodes to walk to than the limit, one its last link only names included  *)
(* ("it probably contains a loop").                                        *)
Dangles(w) == \E n \in w.nodes : ~ Follow(w, n) \subseteq w.nodes

LimitMeansLoop ==
  definition \notin Edited /\ exec.error = "limit" =>
    \/ Circles(definition)
    \/ Cardinality(definition.nodes) > MaxSteps
    \/ Cardinality(definition.nodes) = MaxSteps /\ Dangles(definition)

(* A paused execution, and only a paused one, names the node it waits at,  *)
(* and its last record is that pause: resume() relies on it with a bare    *)
(* assert.                                                                 *)
PauseIsRecorded ==
  /\ exec.awaiting # NoNode <=> exec.status = "awaiting_approval"
  /\ exec.status = "awaiting_approval" =>
       LET last == exec.log[Len(exec.log)]
       IN last.status = "awaiting_approval" /\ last.node = exec.awaiting

(* Every walk ends, also on a definition whose links form a cycle.         *)
WalkEnds == exec.status = "running" ~> exec.status # "running"
=============================================================================
