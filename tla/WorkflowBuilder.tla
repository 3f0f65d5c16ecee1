-------------------------- MODULE WorkflowBuilder ---------------------------
(***************************************************************************)
(* One stored workflow of the builder and its executions                   *)
(* (projects/ai-workflow-builder, service.py), under concurrent requests.  *)
(*                                                                         *)
(* Every request is one transaction in a thread of its own.  It reads the  *)
(* rows it needs, walks the workflow in memory for as long as the handlers *)
(* take (AI calls among them), and writes and commits at the end; nothing  *)
(* locks a row in between.  A message handed to the email provider is a    *)
(* side effect no rollback takes back.  Rows of other workflows share no   *)
(* state with this one.                                                    *)
(***************************************************************************)
EXTENDS Executions

CONSTANTS Exe,        \* ids of the execution rows
          Request,    \* concurrent requests
          NoRow,      \* a row that is not there
          MaxCalls,   \* bound of the model: run and resume requests
          MaxDeaths   \* bound of the model: requests that die before their commit

ASSUME BuilderAssumption ==
  /\ NoRow \notin Workflow /\ NoRow \notin Execution
  /\ MaxCalls \in Nat /\ MaxDeaths \in Nat

VARIABLES row,        \* the committed definition, or NoRow once deleted
          readOnly,   \* is_read_only of the row
          stored,     \* the committed executions
          call,       \* what each request holds in memory
          outbox,     \* per execution, the approver named on each message sent
          contested,  \* history: executions two requests held at once or one died with
          calls, deaths

builderVars == <<row, readOnly, stored, call, outbox, contested, calls, deaths>>

Idle == [kind |-> "idle"]

Call == [kind : {"run", "resume"}, exe : Exe, def : Workflows, x : Execution]

BuilderTypeOK ==
  /\ row \in Workflows \cup {NoRow}
  /\ readOnly \in BOOLEAN
  /\ stored \in [Exe -> Execution \cup {NoRow}]
  /\ call \in [Request -> Call \cup {Idle}]
  /\ outbox \in [Exe -> Seq(Approver)]
  /\ contested \subseteq Exe
  /\ calls \in 0..MaxCalls /\ deaths \in 0..MaxDeaths

BuilderInit ==
  /\ row \in Workflows
  /\ readOnly \in BOOLEAN
  /\ stored = [e \in Exe |-> NoRow]
  /\ call = [r \in Request |-> Idle]
  /\ outbox = [e \in Exe |-> << >>]
  /\ contested = {}
  /\ calls = 0 /\ deaths = 0

Held(r) == call[r].kind # "idle"

(* Mutant: saving replaces the row, and the cascade takes its executions.  *)
SaveReplaces(w) ==
  /\ row # NoRow /\ ~readOnly
  /\ row' = w
  /\ stored' = [e \in Exe |-> NoRow]
  /\ UNCHANGED <<readOnly, call, outbox, contested, calls, deaths>>

(* save_workflow and delete_workflow; deleting takes the executions along. *)
Save(w) ==
  /\ row # NoRow /\ ~readOnly
  /\ row' = w
  /\ UNCHANGED <<readOnly, stored, call, outbox, contested, calls, deaths>>

Delete ==
  /\ row # NoRow /\ ~readOnly
  /\ row' = NoRow
  /\ stored' = [e \in Exe |-> NoRow]
  /\ UNCHANGED <<readOnly, call, outbox, contested, calls, deaths>>

Begin(r, c) ==
  /\ ~Held(r) /\ calls < MaxCalls
  /\ call' = [call EXCEPT ![r] = c]
  /\ calls' = calls + 1
  /\ contested' = contested \cup {c.exe : q \in {q \in Request : Held(q) /\ call[q].exe = c.exe}}
  /\ UNCHANGED <<row, readOnly, stored, outbox, deaths>>

Unused(e) == stored[e] = NoRow /\ outbox[e] = << >> /\ \A r \in Request : Held(r) => call[r].exe # e

(* run_workflow up to the walk: every blocking issue refuses the run.      *)
BeginRun(r, e) ==
  /\ row # NoRow /\ Unused(e)
  /\ BlockingIssues(row) = {} /\ MayRun(row)
  /\ \E ctx \in Context :
       Begin(r, [kind |-> "run", exe |-> e, def |-> row, x |-> Started(row, ctx)])

(* resume_execution up to the walk: the definition is the stored one of    *)
(* now, whatever the run was checked against.                              *)
BeginResume(r, e, who, yes) ==
  /\ row # NoRow /\ stored[e] # NoRow
  /\ stored[e].resumes < MaxResumes
  /\ MayResume(row, stored[e], who)
  /\ Begin(r, [kind |-> "resume", exe |-> e, def |-> row,
               x |-> Decided(row, stored[e], who, yes)])

(* One iteration of the walk inside a request.                             *)
Advance(r, y) ==
  /\ call' = [call EXCEPT ![r].x = y]
  /\ UNCHANGED <<row, readOnly, stored, contested, calls, deaths>>

WalkOn(r) ==
  /\ Held(r)
  /\ LET w == call[r].def
         x == call[r].x
     IN \/ /\ \/ AtLimit(x) /\ Advance(r, Failed(x, "limit"))
              \/ AtMissing(w, x) /\ Advance(r, Failed(Counted(x), "missing"))
              \/ AtNode(w, x, {"human_approval"}) /\ Advance(r, Paused(w, x))
              \/ AtNode(w, x, NodeType \ (Handled \cup {"human_approval"}))
                   /\ Advance(r, Failed(Counted(x), "unhandled"))
              \/ AtNode(w, x, MayRaise) /\ Advance(r, Raised(w, x))
              \/ /\ AtNode(w, x, Handled \ {"email"})
                 /\ \E ctx \in ContextAfter(w.type[x.cursor], x.ctx), result \in BOOLEAN :
                      Advance(r, Returned(w, x, ctx, result))
              \/ /\ x.status = "running" /\ x.cursor = NoNode
                 /\ Advance(r, Finished(x))
           /\ UNCHANGED outbox
        \/ /\ AtNode(w, x, {"email"} \cap Handled) /\ MaySend(x.ctx)
           /\ outbox' = [outbox EXCEPT ![call[r].exe] = Append(@, x.ctx.by)]
           /\ Advance(r, Returned(w, x, x.ctx, TRUE))

(* Mutant: the appended records are not noticed as a change of the stored  *)
(* log.                                                                    *)
CommitOldLog(r) ==
  /\ Held(r) /\ call[r].x.status # "running"
  /\ LET e == call[r].exe
     IN stored' = IF stored[e] # NoRow
                  THEN [stored EXCEPT ![e] = [call[r].x EXCEPT !.log = stored[e].log]]
                  ELSE IF row # NoRow THEN [stored EXCEPT ![e] = call[r].x] ELSE stored
  /\ call' = [call EXCEPT ![r] = Idle]
  /\ UNCHANGED <<row, readOnly, outbox, contested, calls, deaths>>

(* The flush and commit.  An insert for a deleted workflow breaks the      *)
(* foreign key and an update of a deleted execution matches no row: the    *)
(* request fails and leaves nothing.                                       *)
Commit(r) ==
  /\ Held(r) /\ call[r].x.status # "running"
  /\ LET e == call[r].exe
         lands == IF call[r].kind = "run" THEN row # NoRow ELSE stored[e] # NoRow
     IN stored' = IF lands THEN [stored EXCEPT ![e] = call[r].x] ELSE stored
  /\ call' = [call EXCEPT ![r] = Idle]
  /\ UNCHANGED <<row, readOnly, outbox, contested, calls, deaths>>

(* The process or its connection dies before the commit.                   *)
Die(r) ==
  /\ Held(r) /\ deaths < MaxDeaths
  /\ call' = [call EXCEPT ![r] = Idle]
  /\ deaths' = deaths + 1
  /\ contested' = contested \cup {call[r].exe}
  /\ UNCHANGED <<row, readOnly, stored, outbox, calls>>

BuilderNext ==
  \/ \E w \in Edited : Save(w)
  \/ Delete
  \/ \E r \in Request :
       \/ \E e \in Exe : BeginRun(r, e)
       \/ \E e \in Exe, who \in Approver, yes \in BOOLEAN : BeginResume(r, e, who, yes)
       \/ WalkOn(r)
       \/ Commit(r)
       \/ Die(r)

(* Nothing is owed: a request may be left where it stands for ever.        *)
BuilderSpec == BuilderInit /\ [][BuilderNext]_builderVars

-----------------------------------------------------------------------------
Kept == {stored[e] : e \in {e \in Exe : stored[e] # NoRow}}
          \cup {call[r].x : r \in {r \in Request : Held(r)}}

ActsApproved(log) == \A i \in CheckedActs(log) : DecisionIn(SubSeq(log, 1, i - 1), "yes")

(* Across concurrent requests, edits between pause and resume and requests *)
(* that die, every execution the builder keeps tried an outside action     *)
(* only after a person approved that same execution, unless its walk came  *)
(* to a node with the empty id, which a saved definition may have.         *)
KeptActsApproved == \A x \in Kept : ActsApproved(x.log)

Over(x) == x.status \in {"succeeded", "failed"}

FinalIn(exes) ==
  \A e \in exes : stored[e] # NoRow /\ Over(stored[e]) =>
    stored'[e] = stored[e] \/ row' = NoRow

(* "Executions are [...] never modified after a run finishes, so the log   *)
(* is an audit record" (models.py): so it is with executions that no two   *)
(* requests decided on at once.  Of two that do, the later commit wins.    *)
UncontestedIsFinal == [][FinalIn(Exe \ contested)]_stored

Sends(log) ==
  {i \in DOMAIN log : log[i].type = "email" /\ log[i].decision = "none" /\ log[i].status = "succeeded"}

(* What left is what the sends of the log name, one after the other.       *)
Records(log, sent) ==
  /\ Cardinality(Sends(log)) = Len(sent)
  /\ \A i \in Sends(log) : log[i].by = sent[Cardinality({j \in Sends(log) : j <= i})]

(* Every message that left for an uncontested execution is in its stored   *)
(* log under the approver it left with, once no request holds it.          *)
SendsAreLogged ==
  \A e \in Exe \ contested :
    row # NoRow /\ outbox[e] # << >> /\ (\A r \in Request : Held(r) => call[r].exe # e) =>
      stored[e] # NoRow /\ Records(stored[e].log, outbox[e])
=============================================================================
