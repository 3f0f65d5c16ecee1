---------------------------- MODULE CommandCenter ----------------------------
(***************************************************************************)
(* The page of the ops command center and the daily brief (signals.gather, *)
(* service.py): the five sources are read one after the other while their  *)
(* owners go on working, and one of them failing should cost only itself.  *)
(*                                                                         *)
(* A request reads in one transaction, each statement what is committed by *)
(* then.  A statement that fails leaves the transaction aborted: every     *)
(* later statement is refused, and its commit silently stores nothing.     *)
(*                                                                         *)
(* The second gather of a brief reads every source afresh.  In the code a  *)
(* row the session still holds keeps the columns loaded the first time, so *)
(* a source that changed in between may be reported there as a mixture of  *)
(* both; of one that did not change, both readings are the same.           *)
(***************************************************************************)
EXTENDS Signals

CONSTANTS Request,
          Rows,         \* what each source may hold
          Claim,        \* signal ids the model may name, Nothing among them
          Nothing,
          MaxCalls,     \* bound of the model: requests
          MaxEvents     \* bound of the model: sources that change or fail

ASSUME CommandCenterAssumption ==
  /\ DOMAIN Rows = Source
  /\ MaxCalls \in Nat /\ MaxEvents \in Nat

VARIABLES rows,      \* what each source holds
          briefs,    \* the committed OpsBrief rows
          call,      \* what each request holds
          calls,     \* requests begun, which is also the time
          events

vars == <<rows, briefs, call, calls, events>>

Idle == [stage |-> "idle"]

(* What a gather has collected so far: the signals, how many each source   *)
(* gave, the sources unavailable (and those that failed by themselves),    *)
(* and the part of the inbox already read, the replies and the urgent.     *)
Empty == [signals |-> {}, count |-> << >>, unavailable |-> {}, failed |-> {},
          part |-> Nothing, urgent |-> Nothing]

Init ==
  /\ rows \in [tracker : Rows.tracker, workflows : Rows.workflows, inbox : Rows.inbox,
               travel_ops : Rows.travel_ops, dashboard : Rows.dashboard]
  /\ briefs = {}
  /\ call = [r \in Request |-> Idle]
  /\ calls = 0 /\ events = 0

At(r, stage) == call[r].stage = stage
Got(r) == call[r].got
Reading(r, s) ==
  /\ call[r].stage \in {"gather", "again"}
  /\ \E i \in 1..Len(Order) : s = Order[i] /\ DOMAIN Got(r).count = {Order[j] : j \in 1..(i - 1)}
Gathered(r, stage) == At(r, stage) /\ DOMAIN Got(r).count = Source
Counted(count, s, n) == [x \in DOMAIN count \cup {s} |-> IF x = s THEN n ELSE count[x]]

(* The owner of a source goes on working.                                  *)
Change(s) ==
  /\ events < MaxEvents /\ events' = events + 1
  /\ \E new \in Rows[s] \ {rows[s]} : rows' = [rows EXCEPT ![s] = new]
  /\ call' = [r \in Request |-> IF At(r, "idle") THEN Idle
                                ELSE [call[r] EXCEPT !.steady = @ \ {s}]]
  /\ UNCHANGED <<briefs, calls>>

-----------------------------------------------------------------------------
(* overview and generate_brief both begin with a gather, and the           *)
(* transaction with its first statement.                                   *)
Begin(r, kind) ==
  /\ call[r].stage \in {"idle", "shown", "answered", "refused", "failed"} /\ calls < MaxCalls
  /\ call' = [call EXCEPT ![r] =
       [kind |-> kind, stage |-> "gather", began |-> calls, got |-> Empty, aborted |-> FALSE,
        steady |-> Source, asked |-> Empty, brief |-> Nothing, page |-> Nothing]]
  /\ calls' = calls + 1
  /\ UNCHANGED <<rows, briefs, events>>

Answers(r, s, signals) ==
  /\ call' = [call EXCEPT ![r].got =
       [Got(r) EXCEPT !.signals = @ \cup signals, !.count = Counted(@, s, Cardinality(signals)),
                      !.part = Nothing, !.urgent = Nothing]]
  /\ UNCHANGED <<rows, briefs, calls, events>>

Collect(r) ==
  \E s \in Source \ {"inbox"} :
    /\ Reading(r, s) /\ (s = "dashboard" \/ ~call[r].aborted)
    /\ Answers(r, s, CASE s = "tracker" -> CollectTracker(rows[s])
                       [] s = "workflows" -> CollectWorkflows(rows[s])
                       [] s = "travel_ops" -> CollectTravelOps(rows[s])
                       [] s = "dashboard" -> CollectDashboard(rows[s]))

(* collect_inbox: a read of the replies, one of the urgent emails, and the *)
(* count of the unanswered by list_inbox.                                  *)
ReadReplies(r) ==
  /\ Reading(r, "inbox") /\ ~call[r].aborted /\ Got(r).part = Nothing
  /\ call' = [call EXCEPT ![r].got.part = WaitingReplies(rows["inbox"])]
  /\ UNCHANGED <<rows, briefs, calls, events>>

ReadUrgent(r) ==
  /\ Reading(r, "inbox") /\ ~call[r].aborted /\ Got(r).part # Nothing /\ Got(r).urgent = Nothing
  /\ \E urgent \in UrgentEmails(rows["inbox"]) :
       call' = [call EXCEPT ![r].got.urgent = urgent]
  /\ UNCHANGED <<rows, briefs, calls, events>>

(* Mutant: the replies read before are forgotten.                          *)
CountUnansweredOnly(r) ==
  /\ Reading(r, "inbox") /\ ~call[r].aborted /\ Got(r).part # Nothing /\ Got(r).urgent # Nothing
  /\ Answers(r, "inbox", Got(r).urgent \cup Unanswered(rows["inbox"]))

CountUnanswered(r) ==
  /\ Reading(r, "inbox") /\ ~call[r].aborted /\ Got(r).part # Nothing /\ Got(r).urgent # Nothing
  /\ Answers(r, "inbox", Got(r).part \cup Got(r).urgent \cup Unanswered(rows["inbox"]))

(* Mutant: what the collector had read when it failed is kept.             *)
UnavailableInPart(r, s) ==
  [Got(r) EXCEPT !.count = Counted(@, s, 0), !.unavailable = @ \cup {s},
                 !.part = Nothing, !.urgent = Nothing,
                 !.signals = @ \cup (IF Got(r).part = Nothing THEN {} ELSE Got(r).part)]

(* gather: whatever a collector raises marks its source unavailable, and   *)
(* what the collector had read is dropped.                                 *)
Unavailable(r, s) ==
  [Got(r) EXCEPT !.count = Counted(@, s, 0), !.unavailable = @ \cup {s},
                 !.part = Nothing, !.urgent = Nothing]

Fails(r, s, aborts) ==
  /\ events < MaxEvents /\ events' = events + 1
  /\ call' = [call EXCEPT ![r] =
       [@ EXCEPT !.got = [Unavailable(r, s) EXCEPT !.failed = @ \cup {s}],
                 !.aborted = aborts]]
  /\ UNCHANGED <<rows, briefs, calls>>

Raises(r) == \E s \in Source : Reading(r, s) /\ Fails(r, s, call[r].aborted)

StatementFails(r) ==
  \E s \in Source \ {"dashboard"} :
    Reading(r, s) /\ ~call[r].aborted /\ Fails(r, s, TRUE)

(* After a failed statement: the collector's first statement is refused.   *)
IsRefused(r) ==
  \E s \in Source \ {"dashboard"} :
    /\ Reading(r, s) /\ call[r].aborted
    /\ call' = [call EXCEPT ![r].got = Unavailable(r, s)]
    /\ UNCHANGED <<rows, briefs, calls, events>>

-----------------------------------------------------------------------------
(* latest_brief, _brief_view, overview.                                    *)
Latest == {b \in briefs : \A c \in briefs : c.created <= b.created}

View(rank, b, got) ==
  [rank |-> rank, brief |-> b,
   changed |-> IF b = Nothing THEN 0 ELSE ChangedSince(b.counts, got.count)]

Ends(r, stage, page) ==
  call' = [call EXCEPT ![r] = [@ EXCEPT !.stage = stage, !.page = page]]

Show(r) ==
  /\ Gathered(r, "gather") /\ call[r].kind = "page" /\ ~call[r].aborted
  /\ \E b \in IF briefs = {} THEN {Nothing} ELSE Latest :
       Ends(r, "shown", View(Rank(Got(r).signals), b, Got(r)))
  /\ UNCHANGED <<rows, briefs, calls, events>>

(* The statement of latest_brief is refused: an error instead of the page. *)
ShowFails(r) ==
  /\ Gathered(r, "gather") /\ call[r].kind = "page" /\ call[r].aborted
  /\ Ends(r, "failed", Nothing)
  /\ UNCHANGED <<rows, briefs, calls, events>>

(* generate_brief: the model answers, each action it recommends claiming a *)
(* signal or none, and the brief is inserted; created_at is the time the   *)
(* transaction began.  Then the sources are read again.                    *)
Brief(r, claim, created) ==
  [began |-> call[r].began, created |-> created,
   link |-> IF claim \in {s.id : s \in Got(r).signals} THEN claim ELSE Nothing,
   counts |-> Got(r).count, unavailable |-> Got(r).unavailable]

(* Mutant: created_at is the time of the insert.                           *)
WriteNow(r, claim) ==
  /\ Gathered(r, "gather") /\ call[r].kind = "brief" /\ ~call[r].aborted
  /\ call' = [call EXCEPT ![r] = [@ EXCEPT !.stage = "again", !.asked = Got(r), !.got = Empty,
                                           !.brief = Brief(r, claim, calls)]]
  /\ UNCHANGED <<rows, briefs, calls, events>>

Write(r, claim) ==
  /\ Gathered(r, "gather") /\ call[r].kind = "brief" /\ ~call[r].aborted
  /\ call' = [call EXCEPT ![r] = [@ EXCEPT !.stage = "again", !.asked = Got(r), !.got = Empty,
                                           !.brief = Brief(r, claim, call[r].began)]]
  /\ UNCHANGED <<rows, briefs, calls, events>>

(* The AI request fails, and the transaction is rolled back.               *)
AIFails(r) ==
  /\ Gathered(r, "gather") /\ call[r].kind = "brief"
  /\ Ends(r, "refused", Nothing)
  /\ UNCHANGED <<rows, briefs, calls, events>>

(* The model has answered, and the insert is refused.                      *)
WriteFails(r) ==
  /\ Gathered(r, "gather") /\ call[r].kind = "brief" /\ call[r].aborted
  /\ Ends(r, "failed", Nothing)
  /\ UNCHANGED <<rows, briefs, calls, events>>

(* Mutant: the brief is stored with the counts of the second gather.       *)
AnswerRecounts(r) ==
  /\ Gathered(r, "again")
  /\ LET b == [call[r].brief EXCEPT !.counts = Got(r).count]
     IN /\ Ends(r, "answered", View(Nothing, b, Got(r)))
        /\ briefs' = IF call[r].aborted THEN briefs ELSE briefs \cup {b}
  /\ UNCHANGED <<rows, calls, events>>

(* brief_response, and the commit, which after a failed statement stores   *)
(* nothing and raises nothing.                                             *)
Answer(r) ==
  /\ Gathered(r, "again")
  /\ Ends(r, "answered", View(Nothing, call[r].brief, Got(r)))
  /\ briefs' = IF call[r].aborted THEN briefs ELSE briefs \cup {call[r].brief}
  /\ UNCHANGED <<rows, calls, events>>

Next ==
  \/ \E s \in Source : Change(s)
  \/ \E r \in Request :
       \/ \E kind \in {"page", "brief"} : Begin(r, kind)
       \/ Collect(r) \/ ReadReplies(r) \/ ReadUrgent(r) \/ CountUnanswered(r)
       \/ Raises(r) \/ StatementFails(r) \/ IsRefused(r)
       \/ Show(r) \/ ShowFails(r)
       \/ \E claim \in Claim : Write(r, claim)
       \/ WriteFails(r) \/ AIFails(r) \/ Answer(r)

Spec == Init /\ [][Next]_vars

-----------------------------------------------------------------------------
Of(s, signals) == {x \in signals : SourceOf(x) = s}

(* Every source is accounted for, with as many signals as it gave and none *)
(* of a read that failed half-way; only those are unavailable that failed, *)
(* unless a statement has failed ("the others still produce their          *)
(* signals", signals.py).                                                  *)
FailureStaysApart ==
  \A r \in Request : call[r].stage \notin {"idle", "failed"} =>
    /\ \A s \in DOMAIN Got(r).count : Got(r).count[s] = Cardinality(Of(s, Got(r).signals))
    /\ Got(r).failed \subseteq Got(r).unavailable
    /\ ~call[r].aborted => Got(r).unavailable = Got(r).failed
    /\ "dashboard" \in Got(r).unavailable => "dashboard" \in Got(r).failed

(* What is reported of a source that has not changed since the request     *)
(* began is all its collector makes of its rows, although the inbox is     *)
(* read in parts between other requests' steps.                            *)
SteadySourceIsReported ==
  \A r \in Request : ~At(r, "idle") =>
    \A s \in (DOMAIN Got(r).count \cap call[r].steady) \ Got(r).unavailable :
      LET signals == Of(s, Got(r).signals)
      IN CASE s = "tracker" -> signals = CollectTracker(rows[s])
           [] s = "workflows" -> signals = CollectWorkflows(rows[s])
           [] s = "travel_ops" -> signals = CollectTravelOps(rows[s])
           [] s = "dashboard" -> signals = CollectDashboard(rows[s])
           [] s = "inbox" -> \E urgent \in UrgentEmails(rows[s]) :
                signals = WaitingReplies(rows[s]) \cup urgent \cup Unanswered(rows[s])

(* The counts, the gaps and the link of a brief are those of the gather    *)
(* the model was shown, whatever the second gather of its request found    *)
(* ("so it cannot later look more complete than it was", service.py).      *)
BriefIsOfOneGather ==
  \A r \in Request : At(r, "answered") =>
    LET b == call[r].page.brief
        asked == call[r].asked
    IN /\ \A s \in Source : b.counts[s] = Cardinality(Of(s, asked.signals))
       /\ b.unavailable = {s \in Source : s \in asked.unavailable}
       /\ b.link = Nothing \/ \E x \in asked.signals : x.id = b.link

(* The page shows the brief written from the latest gather, although a     *)
(* slower request may store an older one after it.                         *)
NewestShown ==
  [][\A r \in Request : ~At(r, "shown") /\ call'[r].stage = "shown" /\ briefs # {} =>
       \A b \in briefs : b.began <= call'[r].page.brief.began]_vars

(* No warning is listed above a critical signal ("most urgent first"), as  *)
(* long as no count reaches 60, nor a trend 600 percent.                   *)
CriticalFirst ==
  \A r \in Request : At(r, "shown") =>
    LET rank == call[r].page.rank
    IN \A a, b \in DOMAIN rank :
         a.severity = "critical" /\ b.severity # "critical" => rank[a] < rank[b]

(* "One source may never take the brief down" (signals.py), and the worst  *)
(* case is "an empty brief that explains itself, not a 500"                *)
(* (test_ops_command_center.py): no request fails for a source, and a      *)
(* brief that was answered is stored.                                      *)
NeverTakenDown ==
  \A r \in Request :
    /\ ~At(r, "failed")
    /\ At(r, "answered") => call[r].brief \in briefs
=============================================================================
