----------------------------- MODULE TravelOps ------------------------------
(***************************************************************************)
(* One travel incident and the messages drafted about it                   *)
(* (projects/ai-travel-operations, service.py), under concurrent requests. *)
(*                                                                         *)
(* A request is a transaction of several statements at READ COMMITTED: it  *)
(* keeps the rows it has loaded, a row it has updated stays locked until   *)
(* its commit, and its last flush writes only the columns whose value      *)
(* differs from the one it loaded.  The workflow of an incident is the     *)
(* fixed chain trigger, lookup, assess, draft, approval, record, so its    *)
(* execution is reduced to whether it waits, and to the decision that      *)
(* ended it.  A message handed to the email provider is not taken back.    *)
(*                                                                         *)
(* Every booking is taken to belong to an agency of its own, and drafts    *)
(* name the agency by that booking.  The assessment text is left out.      *)
(***************************************************************************)
EXTENDS Integers, Sequences, FiniteSets

CONSTANTS Booking, Comm, Person, Request,
          Blank,        \* an approver that is empty once stripped
          NoRow,
          MaxCalls,     \* bound of the model: requests
          MaxDeaths,    \* bound of the model: requests that die
          MaxRedeploys  \* bound of the model: regenerations of the booking data

ASSUME TravelAssumption ==
  /\ Blank \notin Person
  /\ NoRow \notin [agent : Booking, status : {"draft", "approved", "rejected"},
                   by : Person \cup {Blank}, recorded : BOOLEAN]
  /\ MaxCalls \in Nat /\ MaxDeaths \in Nat /\ MaxRedeploys \in Nat

VARIABLES data,      \* the booking data: what matches the incident, what is not cancelled
          incident,  \* the committed TravelIncident
          comms,     \* the committed TravelCommunication rows
          used,      \* ids of communications given out
          call,      \* what each request holds
          said,      \* <<communication, person>>: who asked for an approval of what
          outbox,    \* per communication, the approver named on each message sent
          alone,     \* no two requests have overlapped so far
          apart,     \* no assessment has overlapped a decision so far
          calls, deaths, redeploys

vars == <<data, incident, comms, used, call, said, outbox,
          alone, apart, calls, deaths, redeploys>>
counters == <<alone, apart, calls, deaths, redeploys>>

Approver == Person \cup {Blank}

Row == [agent : Booking, status : {"draft", "approved", "rejected"},
        by : Approver, recorded : BOOLEAN]

Run == [status : {"none", "awaiting", "done"}, by : Approver, yes : BOOLEAN]

Incident == [status : {"open", "awaiting_approval", "resolved"},
             affected : SUBSET Booking, run : Run]

Idle == [kind |-> "idle"]

Assessing == [kind : {"assess"}, stage : {"asked", "drafted"}, inc : Incident,
              found : SUBSET Booking, old : SUBSET Comm, new : SUBSET (Comm \X Booking)]

Deciding == [kind : {"decide"}, stage : {"read", "flushed", "looked"}, inc : Incident,
             comm : Comm, who : Approver, yes : BOOLEAN,
             after : Incident, records : SUBSET Comm]

TypeOK ==
  /\ data \in [match : SUBSET Booking, live : SUBSET Booking]
  /\ incident \in Incident
  /\ comms \in [Comm -> Row \cup {NoRow}]
  /\ used \subseteq Comm
  /\ call \in [Request -> Assessing \cup Deciding \cup {Idle}]
  /\ said \subseteq Comm \X Approver
  /\ outbox \in [Comm -> Seq(Approver)]
  /\ alone \in BOOLEAN /\ apart \in BOOLEAN
  /\ calls \in 0..MaxCalls /\ deaths \in 0..MaxDeaths /\ redeploys \in 0..MaxRedeploys

NoRun == [status |-> "none", by |-> Blank, yes |-> FALSE]
AwaitingRun == [NoRun EXCEPT !.status = "awaiting"]

Datasets == {d \in [match : SUBSET Booking, live : SUBSET Booking] : d.match \subseteq d.live}

-----------------------------------------------------------------------------
(* find_affected: what matches now or, when nothing does, the recorded     *)
(* bookings that are not cancelled.                                        *)
Affected(recorded) ==
  IF data.match # {} \/ recorded = {} THEN data.match ELSE recorded \cap data.live

(* report_incident.                                                        *)
Init ==
  /\ data \in Datasets
  /\ incident = [status |-> "open", affected |-> Affected({}), run |-> NoRun]
  /\ comms = [c \in Comm |-> NoRow]
  /\ used = {}
  /\ call = [r \in Request |-> Idle]
  /\ said = {}
  /\ outbox = [c \in Comm |-> << >>]
  /\ alone = TRUE /\ apart = TRUE /\ calls = 0 /\ deaths = 0 /\ redeploys = 0

Rows == {c \in Comm : comms[c] # NoRow}
Held(r) == call[r].kind # "idle"
At(r, kind, stage) == call[r].kind = kind /\ call[r].stage = stage
Locked(c) == {r \in Request : /\ At(r, "decide", "flushed") \/ At(r, "decide", "looked")
                             /\ call[r].comm = c}

Begin(r, c) ==
  /\ ~Held(r) /\ calls < MaxCalls
  /\ call' = [call EXCEPT ![r] = c]
  /\ calls' = calls + 1
  /\ alone' = (alone /\ \A other \in Request : ~Held(other))
  /\ apart' = (apart /\ \A other \in Request : Held(other) => call[other].kind = c.kind)
  /\ UNCHANGED <<data, incident, comms, used, outbox, deaths, redeploys>>

Drop(r) ==
  /\ call' = [call EXCEPT ![r] = Idle]
  /\ UNCHANGED <<data, incident, comms, used, said, outbox, alone, apart, calls, redeploys>>

-----------------------------------------------------------------------------
(* assess_and_draft up to the first AI request.  Any status will do.       *)
BeginAssess(r) ==
  /\ incident.affected # {}
  /\ Begin(r, [kind |-> "assess", stage |-> "asked", inc |-> incident,
               found |-> Affected(incident.affected), old |-> {}, new |-> {}])
  /\ UNCHANGED said

(* The handler _draft after its AI request: the communications are loaded  *)
(* and cleared, and one is written per answer that names an agency of the  *)
(* bookings recorded before the lookup.                                    *)
Draft(r) ==
  /\ At(r, "assess", "asked")
  /\ \E ids \in (SUBSET (Comm \ used)) \ {{}} :
       \E agent \in [ids -> call[r].inc.affected] :
         call' = [call EXCEPT ![r].stage = "drafted", ![r].old = Rows,
                              ![r].new = {<<c, agent[c]>> : c \in ids}]
       /\ used' = used \cup ids
  /\ UNCHANGED <<data, incident, comms, said, outbox, counters>>

(* An AI request fails or no answer is usable: the run ends FAILED and the *)
(* transaction is rolled back.                                             *)
AssessFails(r) ==
  /\ At(r, "assess", "asked")
  /\ Drop(r) /\ UNCHANGED deaths

Drafted(new, c) ==
  [agent |-> CHOOSE a \in Booking : <<c, a>> \in new, status |-> "draft",
   by |-> Blank, recorded |-> FALSE]

(* Mutant: the status of the incident is left to the close-out.            *)
CommitAssessKeepsStatus(r) ==
  /\ At(r, "assess", "drafted")
  /\ LET a == call[r]
     IN /\ \A c \in a.old : Locked(c) = {}
        /\ comms' = [c \in Comm |-> IF \E b \in Booking : <<c, b>> \in a.new THEN Drafted(a.new, c)
                                    ELSE IF c \in a.old THEN NoRow ELSE comms[c]]
        /\ incident' = [incident EXCEPT !.affected = a.found, !.run = AwaitingRun]
  /\ call' = [call EXCEPT ![r] = Idle]
  /\ UNCHANGED <<data, used, said, outbox, counters>>

CommitAssess(r) ==
  /\ At(r, "assess", "drafted")
  /\ LET a == call[r]
     IN /\ \A c \in a.old : Locked(c) = {}
        /\ comms' = [c \in Comm |-> IF \E b \in Booking : <<c, b>> \in a.new THEN Drafted(a.new, c)
                                    ELSE IF c \in a.old THEN NoRow ELSE comms[c]]
        /\ incident' =
             [status |-> IF a.inc.status # "awaiting_approval"
                         THEN "awaiting_approval" ELSE incident.status,
              affected |-> IF a.found # a.inc.affected THEN a.found ELSE incident.affected,
              run |-> AwaitingRun]
  /\ call' = [call EXCEPT ![r] = Idle]
  /\ UNCHANGED <<data, used, said, outbox, counters>>

-----------------------------------------------------------------------------
(* decide_communication: the rows are read and the status is checked.      *)
BeginDecide(r, c, who, yes) ==
  /\ comms[c] # NoRow /\ comms[c].status = "draft"
  /\ Begin(r, [kind |-> "decide", stage |-> "read", inc |-> incident, comm |-> c,
               who |-> who, yes |-> yes, after |-> incident, records |-> {}])
  /\ said' = IF yes THEN said \cup {<<c, who>>} ELSE said

(* The first flush: an UPDATE, which waits for whoever holds the row.      *)
Flush(r) ==
  /\ At(r, "decide", "read")
  /\ comms[call[r].comm] # NoRow
  /\ Locked(call[r].comm) = {}
  /\ call' = [call EXCEPT ![r].stage = "flushed"]
  /\ UNCHANGED <<data, incident, comms, used, said, outbox, counters>>

(* The communications as the request sees them: the rows committed by now  *)
(* and its own decision.                                                   *)
Own(r) == [comms[call[r].comm] EXCEPT !.status = IF call[r].yes THEN "approved" ELSE "rejected",
                                      !.by = call[r].who, !.recorded = FALSE]
Seen(r, c) == IF c = call[r].comm THEN Own(r) ELSE comms[c]
SeenIn(r, status) == {c \in Rows : Seen(r, c).status = status}

(* Mutants: the recording step looks only at the message just decided, or  *)
(* at no status.                                                           *)
ToRecordOwn(r) == {call[r].comm} \cap SeenIn(r, "approved")
ToRecordAll(r) == {c \in Rows : ~Seen(r, c).recorded}

ToRecord(r) == {c \in SeenIn(r, "approved") : ~Seen(r, c).recorded}

(* The rows are loaded; with no draft left the incident is closed out, and *)
(* the approved messages are sent under the name of this last decision.    *)
LeavesOpen(r) ==
  /\ SeenIn(r, "draft") # {}
  /\ call' = [call EXCEPT ![r].stage = "looked"]
  /\ UNCHANGED outbox

ClosesWithoutRun(r) ==
  /\ SeenIn(r, "draft") = {} /\ call[r].inc.run.status # "awaiting"
  /\ call' = [call EXCEPT ![r].stage = "looked", ![r].after.status = "resolved"]
  /\ UNCHANGED outbox

ClosesOut(r) ==
  /\ SeenIn(r, "draft") = {} /\ call[r].inc.run.status = "awaiting"
  /\ call[r].who # Blank
  /\ LET yes == SeenIn(r, "approved") # {}
         records == IF yes THEN ToRecord(r) ELSE {}
     IN /\ call' = [call EXCEPT ![r].stage = "looked", ![r].records = records,
                      ![r].after = [@ EXCEPT !.status = "resolved",
                                      !.run = [status |-> "done", by |-> call[r].who, yes |-> yes]]]
        /\ outbox' = [c \in Comm |-> IF c \in records THEN Append(outbox[c], call[r].who)
                                     ELSE outbox[c]]

Look(r) ==
  /\ At(r, "decide", "flushed")
  /\ LeavesOpen(r) \/ ClosesWithoutRun(r) \/ ClosesOut(r)
  /\ UNCHANGED <<data, incident, comms, used, said, counters>>

(* The last flush and the commit.                                          *)
CommitDecide(r) ==
  /\ At(r, "decide", "looked")
  /\ LET d == call[r]
     IN /\ \A c \in d.records : comms[c] # NoRow /\ Locked(c) \subseteq {r}
        /\ comms' = [c \in Comm |-> IF c = d.comm
                                    THEN [comms[c] EXCEPT
                                            !.status = IF d.yes THEN "approved" ELSE "rejected",
                                            !.by = d.who, !.recorded = @ \/ c \in d.records]
                                    ELSE IF c \in d.records THEN [comms[c] EXCEPT !.recorded = TRUE]
                                    ELSE comms[c]]
        /\ incident' = [incident EXCEPT
                          !.status = IF d.after.status # d.inc.status THEN d.after.status ELSE @,
                          !.run = IF d.after.run # d.inc.run THEN d.after.run ELSE @]
  /\ call' = [call EXCEPT ![r] = Idle]
  /\ UNCHANGED <<data, used, said, outbox, counters>>

(* A row to update is gone, or the resume refuses a blank approver.        *)
DecideFails(r) ==
  /\ \/ At(r, "decide", "read") /\ comms[call[r].comm] = NoRow
     \/ /\ At(r, "decide", "flushed") /\ call[r].who = Blank
        /\ SeenIn(r, "draft") = {} /\ call[r].inc.run.status = "awaiting"
     \/ At(r, "decide", "looked") /\ \E c \in call[r].records : comms[c] = NoRow
  /\ Drop(r) /\ UNCHANGED deaths

-----------------------------------------------------------------------------
(* A request dies before its commit: its process stops, or the database    *)
(* breaks a deadlock of row locks by ending it.                            *)
Die(r) ==
  /\ Held(r) /\ deaths < MaxDeaths
  /\ deaths' = deaths + 1
  /\ Drop(r)

(* A deployment regenerates the booking data: ids survive, dates and       *)
(* statuses do not.                                                        *)
Redeploy ==
  /\ redeploys < MaxRedeploys
  /\ \A r \in Request : ~Held(r)
  /\ data' \in Datasets
  /\ redeploys' = redeploys + 1
  /\ UNCHANGED <<incident, comms, used, call, said, outbox, alone, apart, calls, deaths>>

Step(r) ==
  \/ Draft(r) \/ AssessFails(r) \/ CommitAssess(r)
  \/ Flush(r) \/ Look(r) \/ CommitDecide(r) \/ DecideFails(r)

Next ==
  \/ \E r \in Request :
       \/ BeginAssess(r)
       \/ \E c \in Comm, who \in Approver, yes \in BOOLEAN : BeginDecide(r, c, who, yes)
       \/ Step(r)
       \/ Die(r)
  \/ Redeploy

Spec == Init /\ [][Next]_vars

-----------------------------------------------------------------------------
Decided(c) == comms[c] # NoRow /\ comms[c].status # "draft"
Quiet == \A r \in Request : ~Held(r)

(* Whatever requests overlap, die or fail, a message leaves only for a     *)
(* communication somebody approved, and under the name of a person ("The   *)
(* send node therefore cannot execute unapproved", workflow.py).           *)
SendsWereApproved ==
  \A c \in Comm : \A i \in DOMAIN outbox[c] :
    outbox[c][i] \in Person /\ \E who \in Approver : <<c, who>> \in said

(* Once every draft is decided the incident is resolved and each approved  *)
(* message is recorded ("that happens once every draft on the incident has *)
(* been decided", service.py).  It fails when two requests decide the last *)
(* two drafts together, and holds while requests come one at a time.       *)
ClosedOnceDecided ==
  Quiet /\ Rows # {} /\ (\A c \in Rows : Decided(c)) =>
    /\ incident.status = "resolved" /\ incident.run.status = "done"
    /\ \A c \in Rows : comms[c].status = "approved" => comms[c].recorded

ClosedInTurn == alone => ClosedOnceDecided

(* As long as no assessment has overlapped a decision, no resolved         *)
(* incident has, in any state, a draft that still waits, whatever          *)
(* decisions overlap decisions, assessments overlap assessments, fail or   *)
(* die: a close-out has seen every other draft decided, and an assessment  *)
(* that drafts opens the incident again.  Where the two overlap it is      *)
(* false: a close-out has not seen the drafts of an assessment that        *)
(* commits before it, and an assessment that has loaded the status         *)
(* "awaiting_approval" does not write it, so a "resolved" committed before *)
(* it stays over its drafts (service.py, 459-464 and 512-529).             *)
ResolvedIsDecided ==
  apart /\ incident.status = "resolved" => \A c \in Rows : Decided(c)
=============================================================================
