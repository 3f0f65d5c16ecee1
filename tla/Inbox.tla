------------------------------- MODULE Inbox --------------------------------
(***************************************************************************)
(* The record kept for one email thread of the operations inbox            *)
(* (projects/ai-operations-inbox, service.py): the reading of the model,   *)
(* the drafted reply and the decision on it, under concurrent requests.    *)
(*                                                                         *)
(* A request keeps the row it has loaded, however often it selects it      *)
(* again, and its flush writes only the columns whose value differs from   *)
(* the one it loaded.  A request that found no row inserts one, and fails  *)
(* if another has inserted it meanwhile.  A blank approver is refused      *)
(* before anything is read, and is left out.                               *)
(***************************************************************************)
EXTENDS Integers, Sequences, Sessions

CONSTANTS Request, Person,
          Text,        \* bodies of drafted replies
          Answer,      \* what the model may answer to a triage
          Category, CategoryOf,
          Seed,        \* the category the demo data was generated with
          NoRow, None,
          MaxCalls,    \* bound of the model: requests
          MaxDeaths    \* bound of the model: requests that die

ASSUME InboxAssumption ==
  /\ CategoryOf \in [Answer -> Category] /\ Seed \in Category
  /\ None \notin Person \cup Text \cup Answer \cup Category \cup BOOLEAN
  /\ MaxCalls \in Nat /\ MaxDeaths \in Nat

VARIABLES row,      \* the committed InboxTriage row
          call,     \* what each request holds
          outbox,   \* <<body, approver>> of each reply handed to the provider
          inTurn,   \* no two requests for the reply have overlapped so far
          apart,    \* no two triages have been between load and commit at once
          calls, deaths

vars == <<row, call, outbox, inTurn, apart, calls, deaths>>

Columns ==
  [why : Answer \cup {None}, category : Category \cup {None}, agreed : BOOLEAN \cup {None},
   status : {"none", "draft", "approved", "rejected"}, body : Text \cup {None},
   by : Person \cup {None}, note : BOOLEAN, recorded : BOOLEAN]

ASSUME NoRowAssumption == NoRow \notin Columns

Fresh == [why |-> None, category |-> None, agreed |-> None, status |-> "none",
          body |-> None, by |-> None, note |-> FALSE, recorded |-> FALSE]

Idle == [kind |-> "idle"]

Calls == [kind : {"triage", "draft", "decide"}, stage : {"asked", "loaded"},
          old : Columns \cup {NoRow}, new : Columns]

TypeOK ==
  /\ row \in Columns \cup {NoRow}
  /\ call \in [Request -> Calls \cup {Idle}]
  /\ outbox \in Seq(Text \X Person)
  /\ inTurn \in BOOLEAN /\ apart \in BOOLEAN
  /\ calls \in 0..MaxCalls /\ deaths \in 0..MaxDeaths

Init ==
  /\ row = NoRow
  /\ call = [r \in Request |-> Idle]
  /\ outbox = << >>
  /\ inTurn = TRUE /\ apart = TRUE
  /\ calls = 0 /\ deaths = 0

Held(r) == call[r].kind # "idle"
Reply(r) == call[r].kind \in {"draft", "decide"}
At(r, kind, stage) == call[r].kind = kind /\ call[r].stage = stage

(* _record_for: the row as loaded, or a fresh one to insert.               *)
RecordFor(old) == IF old = NoRow THEN Fresh ELSE old

Holding(kind, stage, old, new) == [kind |-> kind, stage |-> stage, old |-> old, new |-> new]

Begin(r, c) ==
  /\ ~Held(r) /\ calls < MaxCalls
  /\ calls' = calls + 1
  /\ call' = [call EXCEPT ![r] = c]
  /\ inTurn' = (inTurn /\ (c.kind \in {"draft", "decide"} => \A q \in Request : ~Reply(q)))
  /\ UNCHANGED <<row, apart, deaths>>

Drop(r) ==
  /\ call' = [call EXCEPT ![r] = Idle]
  /\ UNCHANGED <<row, outbox, inTurn, apart, calls>>

-----------------------------------------------------------------------------
(* triage_thread: nothing is loaded before the AI request.                 *)
BeginTriage(r) == Begin(r, Holding("triage", "asked", NoRow, Fresh)) /\ UNCHANGED outbox

(* Mutant: whether the model agreed is noted the first time only.          *)
TriageAgreesOnce(r, a) ==
  /\ At(r, "triage", "asked")
  /\ call' = [call EXCEPT ![r] = Holding("triage", "loaded", row,
                [RecordFor(row) EXCEPT !.why = a, !.category = CategoryOf[a],
                   !.agreed = IF @ = None THEN CategoryOf[a] = Seed ELSE @])]
  /\ apart' = (apart /\ \A q \in Request : ~At(q, "triage", "loaded"))
  /\ UNCHANGED <<row, outbox, inTurn, calls, deaths>>

Triage(r, a) ==
  /\ At(r, "triage", "asked")
  /\ call' = [call EXCEPT ![r] = Holding("triage", "loaded", row,
                [RecordFor(row) EXCEPT !.why = a, !.category = CategoryOf[a],
                                       !.agreed = (CategoryOf[a] = Seed)])]
  /\ apart' = (apart /\ \A q \in Request : ~At(q, "triage", "loaded"))
  /\ UNCHANGED <<row, outbox, inTurn, calls, deaths>>

(* Mutant: a reply may be drafted over an approved one.                    *)
BeginAnyDraft(r) == Begin(r, Holding("draft", "asked", row, Fresh)) /\ UNCHANGED outbox

(* draft_reply up to the AI request.                                       *)
BeginDraft(r) ==
  /\ row # NoRow => row.status # "approved"
  /\ Begin(r, Holding("draft", "asked", row, Fresh))
  /\ UNCHANGED outbox

(* Mutant: the note of an earlier rejection is kept.                       *)
DraftKeepsNote(r, text) ==
  /\ At(r, "draft", "asked")
  /\ LET old == IF call[r].old = NoRow THEN row ELSE call[r].old
     IN call' = [call EXCEPT ![r] = Holding("draft", "loaded", old,
                   [RecordFor(old) EXCEPT !.body = text, !.status = "draft",
                                          !.by = None, !.recorded = FALSE])]
  /\ UNCHANGED <<row, outbox, inTurn, apart, calls, deaths>>

(* A row loaded before the AI request is kept; without one the row is      *)
(* selected again.                                                         *)
Draft(r, text) ==
  /\ At(r, "draft", "asked")
  /\ LET old == IF call[r].old = NoRow THEN row ELSE call[r].old
     IN call' = [call EXCEPT ![r] = Holding("draft", "loaded", old,
                   [RecordFor(old) EXCEPT !.body = text, !.status = "draft",
                                          !.by = None, !.note = FALSE, !.recorded = FALSE])]
  /\ UNCHANGED <<row, outbox, inTurn, apart, calls, deaths>>

(* The AI request fails: the transaction is rolled back.                   *)
AIFails(r) ==
  /\ call[r].kind \in {"triage", "draft"} /\ call[r].stage = "asked"
  /\ Drop(r) /\ UNCHANGED deaths

(* decide: the row is loaded and checked, and an approved reply is handed  *)
(* to the provider before anything is written.                             *)
Rejecting(old, note) ==
  [old EXCEPT !.status = "rejected", !.note = note, !.by = None]
Approving(old, who) ==
  [old EXCEPT !.status = "approved", !.by = who, !.note = FALSE, !.recorded = TRUE]

BeginReject(r, note) ==
  /\ row # NoRow /\ row.status = "draft"
  /\ Begin(r, Holding("decide", "loaded", row, Rejecting(row, note)))
  /\ UNCHANGED outbox

BeginApprove(r, who) ==
  /\ row # NoRow /\ row.status = "draft"
  /\ Begin(r, Holding("decide", "loaded", row, Approving(row, who)))
  /\ outbox' = Append(outbox, <<row.body, who>>)

-----------------------------------------------------------------------------
(* The flush and the commit.                                               *)
Commit(r) ==
  /\ Held(r) /\ call[r].stage = "loaded"
  /\ \/ call[r].old = NoRow /\ row = NoRow /\ row' = call[r].new
     \/ call[r].old # NoRow /\ row' = Written(call[r].old, call[r].new, row)
  /\ call' = [call EXCEPT ![r] = Idle]
  /\ UNCHANGED <<outbox, inTurn, apart, calls, deaths>>

(* The row to insert has been inserted meanwhile: the unique email_id.     *)
InsertFails(r) ==
  /\ Held(r) /\ call[r].stage = "loaded" /\ call[r].old = NoRow /\ row # NoRow
  /\ Drop(r) /\ UNCHANGED deaths

(* The process of a request stops before its commit.                       *)
Die(r) ==
  /\ Held(r) /\ deaths < MaxDeaths
  /\ deaths' = deaths + 1
  /\ Drop(r)

Step(r) ==
  \/ \E a \in Answer : Triage(r, a)
  \/ \E text \in Text : Draft(r, text)
  \/ AIFails(r) \/ Commit(r) \/ InsertFails(r)

Next ==
  \E r \in Request :
    \/ BeginTriage(r) \/ BeginDraft(r)
    \/ \E note \in BOOLEAN : BeginReject(r, note)
    \/ \E who \in Person : BeginApprove(r, who)
    \/ Step(r) \/ Die(r)

Spec == Init /\ [][Next]_vars

-----------------------------------------------------------------------------
(* An approved reply reads as it was sent, and names who approved it; a    *)
(* draft shows no trace of an earlier decision ("an approval recorded      *)
(* against text that has since been replaced would be a lie about what was *)
(* approved", service.py).  Overlapping requests break it: an approval     *)
(* that commits after a rejection leaves the note of the rejection on an   *)
(* approved row, and a draft that commits after an approval puts its text  *)
(* under it, as the columns either found as it writes them stay unwritten. *)
DecisionIsOfItsText ==
  row # NoRow =>
    /\ row.status = "approved" =>
         /\ row.recorded /\ ~row.note
         /\ outbox # << >> /\ outbox[Len(outbox)] = <<row.body, row.by>>
    /\ row.status = "draft" => row.by = None /\ ~row.note /\ ~row.recorded

(* It holds while requests about the reply come one at a time, whatever    *)
(* triages run meanwhile and whichever requests die.                       *)
DecisionIsOfItsTextInTurn == inTurn => DecisionIsOfItsText

(* Then an approved reply is also final: nothing drafts over it.           *)
ApprovedIsFinal ==
  [][inTurn /\ row # NoRow /\ row.status = "approved" =>
       \A k \in {"status", "body", "by", "note", "recorded"} : row'[k] = row[k]]_row

(* And one reply leaves, or one more for each request that died after      *)
(* handing it over.                                                        *)
SentOnce == inTurn => Len(outbox) <= 1 + deaths

(* The category shown is the one its reasoning argues for, and agreement   *)
(* with the generated one is counted for that category ("written together  *)
(* with its reasoning", models.py), unless two triages write at once.      *)
ReadingIsWhole ==
  apart /\ row # NoRow /\ row.why # None =>
    row.category = CategoryOf[row.why] /\ row.agreed = (row.category = Seed)
=============================================================================
