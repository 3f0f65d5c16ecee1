------------------------ MODULE CommandCenterProofs -------------------------
(***************************************************************************)
(* The gathers of the command center, for any rows of the sources and any  *)
(* number of requests, of failures and of changes while they read.         *)
(*                                                                         *)
(* What a request has gathered is judged by the sources it has counted:    *)
(* the signals it holds are theirs only, so that those of the source read  *)
(* next are told apart from the others'.  Besides, the part of the inbox   *)
(* that is read already must be what the inbox still holds, and a brief    *)
(* must carry the time its request began.                                  *)
(***************************************************************************)
EXTENDS CommandCenter, FiniteSetTheorems, TLAPS

CallFields == {"kind", "stage", "began", "got", "aborted", "steady", "asked", "brief", "page"}
GotFields == {"signals", "count", "unavailable", "failed", "part", "urgent"}

IsOf(s, signals) == \A x \in signals : SourceOf(x) = s

(* A gather under way or done, and the outcome of each source read.        *)
GatherInv(g) ==
  /\ DOMAIN g = GotFields /\ DOMAIN g.count \subseteq Source
  /\ \A x \in g.signals : SourceOf(x) \in DOMAIN g.count
  /\ g.part # Nothing => IsOf("inbox", g.part)
  /\ g.urgent # Nothing => IsOf("inbox", g.urgent)
  /\ \A s \in DOMAIN g.count : g.count[s] = Cardinality(Of(s, g.signals))
  /\ g.failed \subseteq g.unavailable /\ g.unavailable \subseteq DOMAIN g.count
  /\ "dashboard" \in g.unavailable => "dashboard" \in g.failed

(* The signals reported are those of the rows the source holds.            *)
IsReport(s, row, signals) ==
  CASE s = "tracker" -> signals = CollectTracker(row)
    [] s = "workflows" -> signals = CollectWorkflows(row)
    [] s = "travel_ops" -> signals = CollectTravelOps(row)
    [] s = "dashboard" -> signals = CollectDashboard(row)
    [] s = "inbox" -> \E urgent \in UrgentEmails(row) :
         signals = WaitingReplies(row) \cup urgent \cup Unanswered(row)

SteadyInv(c, now) ==
  /\ \A s \in (DOMAIN c.got.count \cap c.steady) \ c.got.unavailable :
       IsReport(s, now[s], Of(s, c.got.signals))
  /\ c.got.part # Nothing /\ "inbox" \in c.steady => c.got.part = WaitingReplies(now["inbox"])
  /\ c.got.urgent # Nothing /\ "inbox" \in c.steady => c.got.urgent \in UrgentEmails(now["inbox"])

(* A brief of what the request was shown.                                  *)
BriefInv(c) ==
  /\ GatherInv(c.asked) /\ DOMAIN c.asked.count = Source
  /\ c.brief.counts = c.asked.count /\ c.brief.unavailable = c.asked.unavailable
  /\ c.brief.link = Nothing \/ \E x \in c.asked.signals : x.id = c.brief.link
  /\ c.brief.created = c.brief.began

CallInv(c, now) ==
  /\ DOMAIN c = CallFields /\ GatherInv(c.got) /\ SteadyInv(c, now)
  /\ ~c.aborted => c.got.unavailable = c.got.failed
  /\ c.stage \in {"again", "answered"} => BriefInv(c)
  /\ c.stage = "answered" => c.page.brief = c.brief

Inv ==
  /\ DOMAIN rows = Source /\ DOMAIN call = Request
  /\ \A r \in Request : call[r] = Idle \/ CallInv(call[r], rows)
  /\ \A b \in briefs : b.created = b.began

-----------------------------------------------------------------------------
LEMMA Sources == Source = {"tracker", "workflows", "travel_ops", "inbox", "dashboard"}
  BY DEF Source, Order, Range

(* Each collector makes signals of its own source.                         *)
LEMMA CollectorsStayApart ==
  ASSUME NEW row
  PROVE  /\ IsOf("tracker", CollectTracker(row)) /\ IsOf("workflows", CollectWorkflows(row))
         /\ IsOf("travel_ops", CollectTravelOps(row)) /\ IsOf("dashboard", CollectDashboard(row))
         /\ IsOf("inbox", WaitingReplies(row)) /\ IsOf("inbox", Unanswered(row))
         /\ \A urgent \in UrgentEmails(row) : IsOf("inbox", urgent)
  <1>1. ASSUME NEW s, NEW item, NEW kind, NEW severity, NEW bump
        PROVE  SourceOf(Signal(s, item, kind, severity, bump)) = s
    BY DEF SourceOf, Signal
  <1>2. ASSUME NEW s, NEW item, NEW kind, NEW severity, NEW bump, NEW holds
        PROVE  IsOf(s, When(holds, Signal(s, item, kind, severity, bump)))
    BY <1>1 DEF IsOf, When
  <1>3. IsOf("tracker", CollectTracker(row))
    BY <1>2 DEF CollectTracker, IsOf
  <1>4. IsOf("workflows", CollectWorkflows(row))
    BY <1>1 DEF CollectWorkflows, IsOf
  <1>5. IsOf("travel_ops", CollectTravelOps(row))
    BY <1>2 DEF CollectTravelOps, IsOf
  <1>6. IsOf("dashboard", CollectDashboard(row))
    BY <1>1 DEF CollectDashboard, IsOf
  <1>7. IsOf("inbox", WaitingReplies(row))
    <2> DEFINE waiting == FirstOf(SelectSeq(row, LAMBDA e : e.draft = "draft"), WaitingLimit)
    <2>1. WaitingReplies(row) = {Signal("inbox", e.id, "approval", "critical", 8) : e \in waiting}
      BY DEF WaitingReplies
    <2> HIDE DEF waiting
    <2> QED
      BY <1>1, <2>1 DEF IsOf
  <1>8. IsOf("inbox", Unanswered(row))
    BY <1>2 DEF Unanswered
  <1>9. ASSUME NEW urgent \in UrgentEmails(row) PROVE IsOf("inbox", urgent)
    <2> DEFINE Sev(e) == IF e.urgency = "critical" THEN "critical" ELSE "warning"
               all == {e \in Range(row) : /\ e.urgency \in {"high", "critical"}
                                         /\ e.draft \in {"none", "rejected"}}
               few == {u \in SUBSET all : Cardinality(u) = Least(Cardinality(all), UrgentLimit)}
    <2>1. UrgentEmails(row) = {{Signal("inbox", e.id, "urgent", Sev(e), 6) : e \in some} : some \in few}
      BY DEF UrgentEmails
    <2> HIDE DEF all, few
    <2>2. PICK some \in few : urgent = {Signal("inbox", e.id, "urgent", Sev(e), 6) : e \in some}
      BY <2>1
    <2> HIDE DEF Sev
    <2> QED
      BY <1>1, <2>2 DEF IsOf
  <1> QED
    BY <1>3, <1>4, <1>5, <1>6, <1>7, <1>8, <1>9

LEMMA NextSource ==
  ASSUME NEW r \in Request, NEW s, Reading(r, s)
  PROVE  s \in Source \ DOMAIN Got(r).count /\ call[r].stage \in {"gather", "again"}
  <1>1. PICK i \in 1..5 : s = Order[i] /\ DOMAIN Got(r).count = {Order[j] : j \in 1..(i - 1)}
    BY DEF Reading, Order
  <1>2. \A j \in 1..(i - 1) : Order[j] # Order[i]
    BY DEF Order
  <1>3. Order[i] \in Source
    BY Sources DEF Order
  <1> QED
    BY <1>1, <1>2, <1>3 DEF Reading

LEMMA NotIdle == Idle.stage = "idle"
  BY DEF Idle

(* A gather that has read one source more.                                 *)
More(new, g, s, signals) ==
  /\ DOMAIN new = GotFields /\ new.signals = g.signals \cup signals
  /\ new.count = Counted(g.count, s, Cardinality(signals)) /\ new.part = Nothing /\ new.urgent = Nothing
  /\ new.unavailable = g.unavailable /\ new.failed = g.failed

LEMMA OneSourceMore ==
  ASSUME NEW g, GatherInv(g), NEW s \in Source \ DOMAIN g.count, NEW signals, IsOf(s, signals),
         NEW new, More(new, g, s, signals)
  PROVE  /\ GatherInv(new) /\ DOMAIN new.count = DOMAIN g.count \cup {s}
         /\ Of(s, new.signals) = signals
         /\ \A q \in DOMAIN g.count : Of(q, new.signals) = Of(q, g.signals)
  <1>1. /\ DOMAIN new.count = DOMAIN g.count \cup {s} /\ new.count[s] = Cardinality(signals)
        /\ \A q \in DOMAIN g.count : new.count[q] = g.count[q]
    BY DEF Counted, More
  <1>2. Of(s, new.signals) = signals /\ \A q \in DOMAIN g.count : Of(q, new.signals) = Of(q, g.signals)
    BY DEF Of, IsOf, GatherInv, More
  <1>3. \A q \in DOMAIN new.count : new.count[q] = Cardinality(Of(q, new.signals))
    BY <1>1, <1>2 DEF GatherInv
  <1>4. GatherInv(new)
    BY <1>1, <1>3 DEF GatherInv, IsOf, More
  <1> QED
    BY <1>1, <1>2, <1>4

(* A gather that has found one source more unavailable.                    *)
Less(new, g, s, failed) ==
  /\ DOMAIN new = GotFields /\ new.signals = g.signals
  /\ new.count = Counted(g.count, s, 0) /\ new.part = Nothing /\ new.urgent = Nothing
  /\ new.unavailable = g.unavailable \cup {s} /\ new.failed = g.failed \cup failed

LEMMA OneSourceLess ==
  ASSUME NEW g, GatherInv(g), NEW s \in Source \ DOMAIN g.count,
         NEW failed, failed = {s} \/ (failed = {} /\ s # "dashboard"),
         NEW new, Less(new, g, s, failed)
  PROVE  GatherInv(new) /\ DOMAIN new.count = DOMAIN g.count \cup {s}
  <1>1. /\ DOMAIN new.count = DOMAIN g.count \cup {s} /\ new.count[s] = 0
        /\ \A q \in DOMAIN g.count : new.count[q] = g.count[q]
    BY DEF Counted, Less
  <1>2. Of(s, new.signals) = {}
    BY DEF Of, GatherInv, Less
  <1>3. \A q \in DOMAIN new.count : new.count[q] = Cardinality(Of(q, new.signals))
    BY <1>1, <1>2, FS_EmptySet DEF GatherInv, Less
  <1> QED
    BY <1>1, <1>3 DEF GatherInv, Less

-----------------------------------------------------------------------------
(* A step of one request that leaves the rows alone.                       *)
LEMMA OneCall ==
  ASSUME Inv, NEW r \in Request, NEW c, call' = [call EXCEPT ![r] = c], UNCHANGED rows,
         CallInv(c, rows), \A b \in briefs' : b.created = b.began
  PROVE  Inv'
  <1>1. DOMAIN call' = Request /\ \A q \in Request : call'[q] = IF q = r THEN c ELSE call[q]
    BY DEF Inv
  <1>2. \A q \in Request : call'[q] = Idle \/ CallInv(call'[q], rows)
    BY <1>1 DEF Inv
  <1> QED
    BY <1>1, <1>2 DEF Inv

LEMMA EmptyGather ==
  /\ GatherInv(Empty) /\ Empty.unavailable = {} /\ Empty.failed = {}
  /\ DOMAIN Empty.count = {} /\ Empty.part = Nothing /\ Empty.urgent = Nothing
  <1>1. DOMAIN << >> = {}
    OBVIOUS
  <1> QED
    BY <1>1 DEF GatherInv, Empty, GotFields

LEMMA Begins == Init => Inv
  BY Sources DEF Init, Inv, Idle

LEMMA ChangeKeeps ==
  ASSUME Inv, NEW s \in Source, Change(s)
  PROVE  Inv'
  <1>1. /\ DOMAIN rows' = Source /\ \A q \in Source \ {s} : rows'[q] = rows[q]
        /\ call' = [r \in Request |-> IF At(r, "idle") THEN Idle
                                      ELSE [call[r] EXCEPT !.steady = @ \ {s}]]
        /\ UNCHANGED briefs
    BY DEF Change, Inv
  <1>2. ASSUME NEW r \in Request, ~At(r, "idle") PROVE CallInv(call'[r], rows')
    <2> DEFINE c == call[r]
               new == [c EXCEPT !.steady = @ \ {s}]
    <2>1. CallInv(c, rows)
      BY <1>2, NotIdle DEF Inv, At
    <2>2. /\ DOMAIN new = CallFields /\ new.stage = c.stage /\ new.got = c.got
          /\ new.aborted = c.aborted /\ new.asked = c.asked /\ new.brief = c.brief
          /\ new.page = c.page /\ new.steady = c.steady \ {s}
      BY <2>1 DEF CallInv, CallFields
    <2>3. call'[r] = new
      BY <1>1, <1>2
    <2> HIDE DEF c, new
    <2>4. SteadyInv(new, rows')
      BY <1>1, <2>1, <2>2, Sources DEF CallInv, SteadyInv, GatherInv
    <2> QED
      BY <2>1, <2>2, <2>3, <2>4 DEF CallInv, BriefInv
  <1>3. \A r \in Request : call'[r] = Idle \/ CallInv(call'[r], rows')
    BY <1>1, <1>2
  <1> QED
    BY <1>1, <1>3 DEF Inv

LEMMA BeginKeeps ==
  ASSUME Inv, NEW r \in Request, NEW kind, Begin(r, kind)
  PROVE  Inv'
  <1> DEFINE c == [kind |-> kind, stage |-> "gather", began |-> calls, got |-> Empty,
                   aborted |-> FALSE, steady |-> Source, asked |-> Empty, brief |-> Nothing,
                   page |-> Nothing]
  <1>1. call' = [call EXCEPT ![r] = c] /\ UNCHANGED <<rows, briefs>>
    BY DEF Begin
  <1>2. /\ DOMAIN c = CallFields /\ c.stage = "gather" /\ c.got = Empty
    BY DEF CallFields
  <1>3. CallInv(c, rows)
    <2> HIDE DEF c
    <2> QED
      BY <1>2, EmptyGather DEF CallInv, SteadyInv
  <1> HIDE DEF c
  <1> QED
    BY <1>1, <1>3, OneCall DEF Inv

(* What a request reports after reading its next source.                   *)
SameButGot(new, c) ==
  /\ DOMAIN new = CallFields /\ new.stage = c.stage /\ new.steady = c.steady
  /\ new.asked = c.asked /\ new.brief = c.brief /\ new.page = c.page

LEMMA ReadKeeps ==
  ASSUME Inv, NEW r \in Request, NEW s, Reading(r, s),
         NEW new, call' = [call EXCEPT ![r] = new], UNCHANGED <<rows, briefs>>,
         SameButGot(new, call[r]), NEW g, new.got = g,
         GatherInv(g), DOMAIN g.count = DOMAIN Got(r).count \cup {s}, g.part = Nothing, g.urgent = Nothing,
         \A q \in DOMAIN Got(r).count : Of(q, g.signals) = Of(q, Got(r).signals),
         Got(r).unavailable \subseteq g.unavailable,
         s \in g.unavailable \/ (s \in call[r].steady => IsReport(s, rows[s], Of(s, g.signals))),
         ~new.aborted => g.unavailable = g.failed
  PROVE  Inv'
  <1> DEFINE c == call[r]
  <1>1. /\ CallInv(c, rows) /\ c.stage \in {"gather", "again"} /\ s \in Source /\ Got(r) = c.got
    BY NextSource, NotIdle DEF Inv, Got
  <1>2. SameButGot(new, c)
    OBVIOUS
  <1> HIDE DEF c
  <1>3. SteadyInv(new, rows)
    BY <1>1, <1>2 DEF CallInv, SteadyInv, c, SameButGot
  <1>4. CallInv(new, rows)
    BY <1>1, <1>2, <1>3 DEF CallInv, BriefInv, SameButGot
  <1> QED
    BY <1>4, OneCall DEF Inv

LEMMA AnswerKeeps ==
  ASSUME Inv, NEW r \in Request, NEW s, Reading(r, s), NEW signals, Answers(r, s, signals),
         IsOf(s, signals), s \in call[r].steady => IsReport(s, rows[s], signals)
  PROVE  Inv'
  <1> DEFINE c == call[r]
             old == Got(r)
             g == [old EXCEPT !.signals = @ \cup signals,
                              !.count = Counted(@, s, Cardinality(signals)), !.part = Nothing,
                              !.urgent = Nothing]
             new == [c EXCEPT !.got = g]
  <1>1. CallInv(c, rows) /\ s \in Source \ DOMAIN old.count /\ GatherInv(old) /\ c.got = old
    BY NextSource, NotIdle DEF Inv, Got, CallInv
  <1>2. call' = [call EXCEPT ![r] = new] /\ UNCHANGED <<rows, briefs>>
    BY DEF Answers
  <1>3. More(g, old, s, signals)
    BY <1>1 DEF GatherInv, GotFields, More
  <1> HIDE DEF g
  <1>4. /\ SameButGot(new, c) /\ new.got = g /\ new.aborted = c.aborted
    BY <1>1 DEF CallInv, CallFields, SameButGot
  <1> HIDE DEF new, old
  <1>5. /\ GatherInv(g) /\ DOMAIN g.count = DOMAIN old.count \cup {s}
        /\ Of(s, g.signals) = signals
        /\ \A q \in DOMAIN old.count : Of(q, g.signals) = Of(q, old.signals)
    BY <1>1, <1>3, OneSourceMore
  <1>6. ~new.aborted => g.unavailable = g.failed
    BY <1>1, <1>3, <1>4 DEF CallInv, More
  <1> QED
    BY <1>1, <1>2, <1>3, <1>4, <1>5, <1>6, ReadKeeps DEF old, More

LEMMA CollectKeeps ==
  ASSUME Inv, NEW r \in Request, Collect(r)
  PROVE  Inv'
  <1>1. PICK s \in Source \ {"inbox"} :
          /\ Reading(r, s)
          /\ Answers(r, s, CASE s = "tracker" -> CollectTracker(rows[s])
                             [] s = "workflows" -> CollectWorkflows(rows[s])
                             [] s = "travel_ops" -> CollectTravelOps(rows[s])
                             [] s = "dashboard" -> CollectDashboard(rows[s]))
    BY DEF Collect
  <1>2. PICK signals : Answers(r, s, signals) /\ IsOf(s, signals) /\ IsReport(s, rows[s], signals)
    BY <1>1, Sources, CollectorsStayApart DEF IsReport
  <1> QED
    BY <1>1, <1>2, AnswerKeeps

LEMMA ReadRepliesKeeps ==
  ASSUME Inv, NEW r \in Request, ReadReplies(r)
  PROVE  Inv'
  <1> DEFINE c == call[r]
             replies == WaitingReplies(rows["inbox"])
             g == [c.got EXCEPT !.part = replies]
             new == [c EXCEPT !.got = g]
  <1>1. /\ Reading(r, "inbox") /\ UNCHANGED <<rows, briefs>>
        /\ call' = [call EXCEPT ![r].got.part = replies]
    BY DEF ReadReplies
  <1>2. CallInv(c, rows) /\ IsOf("inbox", replies)
    BY <1>1, NextSource, NotIdle, CollectorsStayApart DEF Inv
  <1>3. call' = [call EXCEPT ![r] = new]
    BY <1>1
  <1> HIDE DEF replies
  <1>4. /\ DOMAIN g = GotFields /\ g.part = replies /\ g.signals = c.got.signals
        /\ g.urgent = c.got.urgent /\ g.count = c.got.count /\ g.unavailable = c.got.unavailable /\ g.failed = c.got.failed
    BY <1>2 DEF CallInv, GatherInv, GotFields
  <1> HIDE DEF g
  <1>5. /\ DOMAIN new = CallFields /\ new.stage = c.stage /\ new.got = g
        /\ new.aborted = c.aborted /\ new.asked = c.asked /\ new.brief = c.brief
        /\ new.page = c.page /\ new.steady = c.steady
    BY <1>2 DEF CallInv, CallFields
  <1> HIDE DEF c, new
  <1>6. GatherInv(g)
    BY <1>2, <1>4 DEF CallInv, GatherInv
  <1>7. SteadyInv(new, rows)
    BY <1>2, <1>4, <1>5 DEF CallInv, SteadyInv, replies
  <1>8. CallInv(new, rows)
    BY <1>2, <1>4, <1>5, <1>6, <1>7 DEF CallInv, BriefInv
  <1> QED
    BY <1>1, <1>3, <1>8, OneCall DEF Inv

LEMMA ReadUrgentKeeps ==
  ASSUME Inv, NEW r \in Request, ReadUrgent(r)
  PROVE  Inv'
  <1> DEFINE c == call[r]
  <1>1. PICK urgent \in UrgentEmails(rows["inbox"]) : call' = [call EXCEPT ![r].got.urgent = urgent]
    BY DEF ReadUrgent
  <1> DEFINE g == [c.got EXCEPT !.urgent = urgent]
             new == [c EXCEPT !.got = g]
  <1>2. Reading(r, "inbox") /\ UNCHANGED <<rows, briefs>>
    BY DEF ReadUrgent
  <1>3. CallInv(c, rows) /\ IsOf("inbox", urgent)
    BY <1>2, NextSource, NotIdle, CollectorsStayApart DEF Inv
  <1>4. call' = [call EXCEPT ![r] = new]
    BY <1>1
  <1>5. /\ DOMAIN g = GotFields /\ g.urgent = urgent /\ g.signals = c.got.signals
        /\ g.part = c.got.part /\ g.count = c.got.count
        /\ g.unavailable = c.got.unavailable /\ g.failed = c.got.failed
    BY <1>3 DEF CallInv, GatherInv, GotFields
  <1> HIDE DEF g
  <1>6. /\ DOMAIN new = CallFields /\ new.stage = c.stage /\ new.got = g
        /\ new.aborted = c.aborted /\ new.asked = c.asked /\ new.brief = c.brief
        /\ new.page = c.page /\ new.steady = c.steady
    BY <1>3 DEF CallInv, CallFields
  <1> HIDE DEF c, new
  <1>7. GatherInv(g)
    BY <1>3, <1>5 DEF CallInv, GatherInv
  <1>8. SteadyInv(new, rows)
    BY <1>3, <1>5, <1>6 DEF CallInv, SteadyInv
  <1>9. CallInv(new, rows)
    BY <1>3, <1>5, <1>6, <1>7, <1>8 DEF CallInv, BriefInv
  <1> QED
    BY <1>2, <1>4, <1>9, OneCall DEF Inv

LEMMA CountUnansweredKeeps ==
  ASSUME Inv, NEW r \in Request, CountUnanswered(r)
  PROVE  Inv'
  <1> DEFINE now == rows["inbox"]
             signals == Got(r).part \cup Got(r).urgent \cup Unanswered(now)
  <1>1. Answers(r, "inbox", signals)
    BY DEF CountUnanswered
  <1>2. Reading(r, "inbox") /\ Got(r).part # Nothing /\ Got(r).urgent # Nothing
    BY DEF CountUnanswered
  <1>3. /\ CallInv(call[r], rows) /\ IsOf("inbox", Got(r).part) /\ IsOf("inbox", Got(r).urgent)
    BY <1>2, NextSource, NotIdle DEF Inv, CallInv, GatherInv, Got
  <1>4. IsOf("inbox", signals)
    BY <1>3, CollectorsStayApart DEF IsOf
  <1>5. "inbox" \in call[r].steady => IsReport("inbox", now, signals)
    BY <1>1, <1>2, <1>3 DEF CallInv, SteadyInv, IsReport, Got
  <1> HIDE DEF signals
  <1> QED
    BY <1>1, <1>2, <1>4, <1>5, AnswerKeeps DEF signals

(* A source becomes unavailable, because it failed or because a statement  *)
(* has failed before.                                                      *)
LEMMA FailKeeps ==
  ASSUME Inv, NEW r \in Request, NEW s, Reading(r, s), NEW failed,
         NEW new, call' = [call EXCEPT ![r] = new], UNCHANGED <<rows, briefs>>,
         SameButGot(new, call[r]), NEW g, new.got = g, Less(g, Got(r), s, failed),
         failed = {s} \/ (failed = {} /\ s # "dashboard" /\ new.aborted),
         new.aborted \/ new.aborted = call[r].aborted
  PROVE  Inv'
  <1>1. CallInv(call[r], rows) /\ s \in Source \ DOMAIN Got(r).count /\ GatherInv(Got(r)) /\ Got(r) = call[r].got
    BY NextSource, NotIdle DEF Inv, Got, CallInv
  <1>2. GatherInv(g) /\ DOMAIN g.count = DOMAIN Got(r).count \cup {s}
    <2> DEFINE old == Got(r)
    <2>1. /\ GatherInv(old) /\ s \in Source \ DOMAIN old.count /\ Less(g, old, s, failed)
          /\ failed = {s} \/ (failed = {} /\ s # "dashboard")
      BY <1>1
    <2> HIDE DEF old
    <2>2. GatherInv(g) /\ DOMAIN g.count = DOMAIN old.count \cup {s}
      BY ONLY <2>1, OneSourceLess
    <2> QED
      BY <2>2 DEF old
  <1>3. ~new.aborted => g.unavailable = g.failed
    BY <1>1 DEF CallInv, Less
  <1> QED
    BY <1>2, <1>3, ReadKeeps DEF Less

LEMMA FailsKeeps ==
  ASSUME Inv, NEW r \in Request, NEW s, Reading(r, s), NEW aborts, Fails(r, s, aborts),
         aborts \/ aborts = call[r].aborted
  PROVE  Inv'
  <1> DEFINE c == call[r]
             g == [Unavailable(r, s) EXCEPT !.failed = @ \cup {s}]
             new == [c EXCEPT !.got = g, !.aborted = aborts]
  <1>1. CallInv(c, rows) /\ GatherInv(Got(r))
    BY NextSource, NotIdle DEF Inv, Got, CallInv
  <1>2. call' = [call EXCEPT ![r] = new] /\ UNCHANGED <<rows, briefs>>
    BY DEF Fails
  <1>3. Less(g, Got(r), s, {s})
    BY <1>1 DEF GatherInv, GotFields, Unavailable, Less
  <1> HIDE DEF g
  <1>4. SameButGot(new, c) /\ new.got = g /\ new.aborted = aborts
    BY <1>1 DEF CallInv, CallFields, SameButGot
  <1> HIDE DEF new
  <1> QED
    BY <1>2, <1>3, <1>4, FailKeeps

LEMMA FailuresKeep ==
  ASSUME Inv, NEW r \in Request, Raises(r) \/ StatementFails(r) \/ IsRefused(r)
  PROVE  Inv'
  <1>1. CASE Raises(r)
    BY <1>1, FailsKeeps DEF Raises
  <1>2. CASE StatementFails(r)
    BY <1>2, FailsKeeps DEF StatementFails
  <1>3. CASE IsRefused(r)
    <2> DEFINE c == call[r]
    <2>1. PICK s \in Source \ {"dashboard"} :
            /\ Reading(r, s) /\ c.aborted /\ UNCHANGED <<rows, briefs>>
            /\ call' = [call EXCEPT ![r].got = Unavailable(r, s)]
      BY <1>3 DEF IsRefused
    <2>2. CallInv(c, rows) /\ GatherInv(Got(r)) /\ Got(r) = c.got
      BY <2>1, NextSource, NotIdle DEF Inv, Got, CallInv
    <2> DEFINE g == Unavailable(r, s)
               new == [c EXCEPT !.got = g]
    <2>3. Less(g, Got(r), s, {})
      BY <2>2 DEF GatherInv, GotFields, Unavailable, Less
    <2>4. call' = [call EXCEPT ![r] = new]
      BY <2>1
    <2> HIDE DEF g
    <2>5. SameButGot(new, c) /\ new.got = g /\ new.aborted = c.aborted
      BY <2>2 DEF CallInv, CallFields, SameButGot
    <2> HIDE DEF new
    <2> QED
      BY <2>1, <2>3, <2>4, <2>5, FailKeeps
  <1> QED
    BY <1>1, <1>2, <1>3

-----------------------------------------------------------------------------
(* A step that ends a request, or a page it is shown.                      *)
LEMMA EndKeeps ==
  ASSUME Inv, NEW r \in Request, call[r].stage # "idle", NEW stage, NEW page, Ends(r, stage, page),
         UNCHANGED <<rows, briefs>>, stage \notin {"again", "answered"}
  PROVE  Inv'
  <1> DEFINE c == call[r]
             new == [c EXCEPT !.stage = stage, !.page = page]
  <1>1. CallInv(c, rows)
    BY NotIdle DEF Inv
  <1>2. call' = [call EXCEPT ![r] = new]
    BY DEF Ends
  <1>3. /\ DOMAIN new = CallFields /\ new.stage = stage /\ new.got = c.got
        /\ new.aborted = c.aborted /\ new.steady = c.steady
    BY <1>1 DEF CallInv, CallFields
  <1> HIDE DEF new
  <1>4. CallInv(new, rows)
    BY <1>1, <1>3 DEF CallInv, SteadyInv
  <1> QED
    BY <1>2, <1>4, OneCall DEF Inv

LEMMA ShowKeeps ==
  ASSUME Inv, NEW r \in Request, Show(r) \/ ShowFails(r) \/ AIFails(r) \/ WriteFails(r)
  PROVE  Inv'
  <1>1. call[r].stage = "gather" /\ UNCHANGED <<rows, briefs>>
    BY DEF Show, ShowFails, AIFails, WriteFails, Gathered, At
  <1>2. \E stage \in {"shown", "failed", "refused"} : \E page : Ends(r, stage, page)
    BY DEF Show, ShowFails, AIFails, WriteFails
  <1> QED
    BY <1>1, <1>2, EndKeeps

LEMMA WriteKeeps ==
  ASSUME Inv, NEW r \in Request, NEW claim, Write(r, claim)
  PROVE  Inv'
  <1> DEFINE c == call[r]
             b == Brief(r, claim, c.began)
             new == [c EXCEPT !.stage = "again", !.asked = Got(r), !.got = Empty, !.brief = b]
  <1>1. /\ call' = [call EXCEPT ![r] = new] /\ UNCHANGED <<rows, briefs>>
        /\ c.stage = "gather" /\ DOMAIN Got(r).count = Source /\ ~c.aborted
    BY DEF Write, Gathered, At
  <1>2. CallInv(c, rows) /\ GatherInv(Got(r))
    BY <1>1, NotIdle DEF Inv, CallInv, Got
  <1>3. /\ b.created = b.began /\ b.counts = Got(r).count /\ b.unavailable = Got(r).unavailable
        /\ b.link = Nothing \/ \E x \in Got(r).signals : x.id = b.link
    BY DEF Brief
  <1> HIDE DEF b
  <1>4. /\ DOMAIN new = CallFields /\ new.stage = "again" /\ new.got = Empty
        /\ new.asked = Got(r) /\ new.brief = b /\ new.aborted = c.aborted
    BY <1>2 DEF CallInv, CallFields
  <1> HIDE DEF new
  <1>5. BriefInv(new)
    BY <1>1, <1>2, <1>3, <1>4 DEF BriefInv
  <1>6. CallInv(new, rows)
    BY <1>4, <1>5, EmptyGather DEF CallInv, SteadyInv
  <1> QED
    BY <1>1, <1>6, OneCall DEF Inv

LEMMA BriefAnswerKeeps ==
  ASSUME Inv, NEW r \in Request, Answer(r)
  PROVE  Inv'
  <1> DEFINE c == call[r]
             page == View(Nothing, c.brief, Got(r))
             new == [c EXCEPT !.stage = "answered", !.page = page]
  <1>1. /\ call' = [call EXCEPT ![r] = new] /\ UNCHANGED rows /\ c.stage = "again"
        /\ briefs' \subseteq briefs \cup {c.brief}
    BY DEF Answer, Gathered, At, Ends
  <1>2. CallInv(c, rows)
    BY <1>1, NotIdle DEF Inv
  <1>3. page.brief = c.brief
    BY DEF View
  <1> HIDE DEF page
  <1>4. /\ DOMAIN new = CallFields /\ new.stage = "answered" /\ new.got = c.got
        /\ new.aborted = c.aborted /\ new.steady = c.steady /\ new.page = page
        /\ new.asked = c.asked /\ new.brief = c.brief
    BY <1>2 DEF CallInv, CallFields
  <1> HIDE DEF new
  <1>5. CallInv(new, rows)
    BY <1>1, <1>2, <1>3, <1>4 DEF CallInv, SteadyInv, BriefInv
  <1>6. \A b \in briefs' : b.created = b.began
    BY <1>1, <1>2 DEF Inv, CallInv, BriefInv
  <1> QED
    BY <1>1, <1>5, <1>6, OneCall

LEMMA Step == Inv /\ [Next]_vars => Inv'
  <1> SUFFICES ASSUME Inv, [Next]_vars PROVE Inv'
    OBVIOUS
  <1>1. CASE UNCHANGED vars
    BY <1>1 DEF vars, Inv
  <1>2. CASE \E s \in Source : Change(s)
    BY <1>2, ChangeKeeps
  <1>3. ASSUME NEW r \in Request, NEW kind \in {"page", "brief"}, Begin(r, kind) PROVE Inv'
    BY <1>3, BeginKeeps
  <1>4. ASSUME NEW r \in Request,
               Collect(r) \/ ReadReplies(r) \/ ReadUrgent(r) \/ CountUnanswered(r)
        PROVE  Inv'
    BY <1>4, CollectKeeps, ReadRepliesKeeps, ReadUrgentKeeps, CountUnansweredKeeps
  <1>5. ASSUME NEW r \in Request, Raises(r) \/ StatementFails(r) \/ IsRefused(r) PROVE Inv'
    BY <1>5, FailuresKeep
  <1>6. ASSUME NEW r \in Request, Show(r) \/ ShowFails(r) \/ AIFails(r) \/ WriteFails(r) PROVE Inv'
    BY <1>6, ShowKeeps
  <1>7. ASSUME NEW r \in Request, NEW claim \in Claim, Write(r, claim) PROVE Inv'
    BY <1>7, WriteKeeps
  <1>8. ASSUME NEW r \in Request, Answer(r) PROVE Inv'
    BY <1>8, BriefAnswerKeeps
  <1> QED
    BY <1>1, <1>2, <1>3, <1>4, <1>5, <1>6, <1>7, <1>8 DEF Next

LEMMA Invariant == Spec => []Inv
  BY Begins, Step, PTL DEF Spec

(* The code behaviour: whichever collectors raise, each other source keeps *)
(* its signals and its count, for any rows and any number of requests.     *)
THEOREM FailureCostsOneSource == Spec => []FailureStaysApart
  <1>1. Inv => FailureStaysApart
    BY NotIdle DEF Inv, FailureStaysApart, CallInv, GatherInv, Got
  <1> QED
    BY <1>1, Invariant, PTL

(* The code behaviour: the report of a source that stays as it is does not *)
(* depend on what happens to the other sources while it is read.           *)
THEOREM SteadySourceStaysReported == Spec => []SteadySourceIsReported
  <1>1. ASSUME Inv, NEW r \in Request, ~At(r, "idle"),
               NEW s \in (DOMAIN Got(r).count \cap call[r].steady) \ Got(r).unavailable
        PROVE  IsReport(s, rows[s], Of(s, Got(r).signals))
    BY <1>1, NotIdle DEF Inv, CallInv, SteadyInv, At, Got
  <1>2. Inv => SteadySourceIsReported
    BY <1>1 DEF SteadySourceIsReported, IsReport
  <1> QED
    BY <1>2, Invariant, PTL

(* The code behaviour: a brief keeps the counts, the gaps and the link of  *)
(* the gather its request showed the model, whatever is read after it.     *)
THEOREM BriefStaysOfOneGather == Spec => []BriefIsOfOneGather
  <1>1. ASSUME Inv, NEW r \in Request, At(r, "answered")
        PROVE  LET b == call[r].page.brief
                   asked == call[r].asked
               IN /\ \A s \in Source : b.counts[s] = Cardinality(Of(s, asked.signals))
                  /\ b.unavailable = {s \in Source : s \in asked.unavailable}
                  /\ b.link = Nothing \/ \E x \in asked.signals : x.id = b.link
    <2> DEFINE c == call[r]
    <2>1. c.page.brief = c.brief /\ BriefInv(c)
      BY <1>1, NotIdle DEF Inv, CallInv, At
    <2> HIDE DEF c
    <2>2. \A s \in Source : c.brief.counts[s] = Cardinality(Of(s, c.asked.signals))
      BY <2>1 DEF BriefInv, GatherInv
    <2>3. c.brief.unavailable = {s \in Source : s \in c.asked.unavailable}
      BY <2>1 DEF BriefInv, GatherInv
    <2> QED
      BY <2>1, <2>2, <2>3 DEF BriefInv, c
  <1>2. Inv => BriefIsOfOneGather
    BY <1>1 DEF BriefIsOfOneGather
  <1> QED
    BY <1>2, Invariant, PTL

LEMMA OnlyShowShows ==
  ASSUME Inv, Next, NEW r \in Request, ~At(r, "shown"), call'[r].stage = "shown"
  PROVE  Show(r)
  <1>1. /\ DOMAIN call = Request /\ call[r].stage # "shown" /\ Idle.stage # "shown"
        /\ \A q \in Request : call[q].stage # "idle" => DOMAIN call[q] = CallFields
    BY NotIdle DEF Inv, CallInv, At
  <1>2. ASSUME NEW q \in Request, NEW c, call' = [call EXCEPT ![q] = c], c.stage # "shown"
        PROVE  FALSE
    BY <1>1, <1>2
  <1>3. ASSUME NEW q \in Request, NEW new, call[q].stage # "idle",
               call' = [call EXCEPT ![q].got = new]
        PROVE  FALSE
    <2> DEFINE c == [call[q] EXCEPT !.got = new]
    <2>1. c.stage = call[q].stage /\ call' = [call EXCEPT ![q] = c]
      BY <1>1, <1>3 DEF CallFields
    <2> HIDE DEF c
    <2> QED
      BY <1>1, <2>1
  <1>4. ASSUME NEW s \in Source, Change(s) PROVE FALSE
    <2>1. call'[r] = IF At(r, "idle") THEN Idle ELSE [call[r] EXCEPT !.steady = @ \ {s}]
      BY <1>4 DEF Change
    <2> QED
      BY <1>1, <2>1 DEF At, CallFields
  <1>5. ASSUME NEW q \in Request, NEW kind, Begin(q, kind) PROVE FALSE
    <2> DEFINE c == [kind |-> kind, stage |-> "gather", began |-> calls, got |-> Empty,
                     aborted |-> FALSE, steady |-> Source, asked |-> Empty, brief |-> Nothing,
                     page |-> Nothing]
    <2>1. call' = [call EXCEPT ![q] = c] /\ c.stage # "shown"
      BY <1>5 DEF Begin
    <2> HIDE DEF c
    <2> QED
      BY <1>2, <2>1
  <1>6. ASSUME NEW q \in Request,
               \/ Collect(q) \/ ReadReplies(q) \/ ReadUrgent(q) \/ CountUnanswered(q)
               \/ IsRefused(q)
        PROVE  FALSE
    <2>1. call[q].stage # "idle"
      BY <1>6, NextSource DEF Collect, ReadReplies, ReadUrgent, CountUnanswered, IsRefused
    <2>2. \E new : call' = [call EXCEPT ![q].got = new]
      <3>1. CASE ReadReplies(q)
        <4>1. call' = [call EXCEPT ![q].got = [call[q].got EXCEPT !.part = WaitingReplies(rows["inbox"])]]
          BY <3>1 DEF ReadReplies
        <4> QED
          BY <4>1
      <3>2. CASE Collect(q) \/ CountUnanswered(q)
        <4>1. \E s, signals : Answers(q, s, signals)
          BY <3>2 DEF Collect, CountUnanswered
        <4> QED
          BY <4>1 DEF Answers
      <3>4. CASE ReadUrgent(q)
        <4>1. PICK urgent :
                call' = [call EXCEPT ![q].got = [call[q].got EXCEPT !.urgent = urgent]]
          BY <3>4 DEF ReadUrgent
        <4> QED
          BY <4>1
      <3>3. CASE IsRefused(q)
        BY <3>3 DEF IsRefused
      <3> QED
        BY <1>6, <3>1, <3>2, <3>3, <3>4
    <2> QED
      BY <1>3, <2>1, <2>2
  <1>7. ASSUME NEW q \in Request, Raises(q) \/ StatementFails(q) PROVE FALSE
    <2>1. PICK s, aborts : s \in Source /\ Reading(q, s) /\ Fails(q, s, aborts)
      BY <1>7 DEF Raises, StatementFails
    <2>2. PICK g : call' = [call EXCEPT ![q] = [@ EXCEPT !.got = g, !.aborted = aborts]]
      BY <2>1 DEF Fails
    <2> DEFINE c == [call[q] EXCEPT !.got = g, !.aborted = aborts]
    <2>3. c.stage = call[q].stage /\ call[q].stage \in {"gather", "again"}
      BY <1>1, <2>1, NextSource DEF CallFields
    <2> QED
      BY <1>2, <2>2, <2>3
  <1>8. ASSUME NEW q \in Request, NEW stage \in {"failed", "refused", "answered"}, NEW page,
               call[q].stage # "idle", Ends(q, stage, page)
        PROVE  FALSE
    <2> DEFINE c == [call[q] EXCEPT !.stage = stage, !.page = page]
    <2>1. c.stage = stage /\ call' = [call EXCEPT ![q] = c]
      BY <1>1, <1>8 DEF CallFields, Ends
    <2> QED
      BY <1>2, <2>1
  <1>9. ASSUME NEW q \in Request, ShowFails(q) \/ AIFails(q) \/ WriteFails(q) \/ Answer(q) PROVE FALSE
    BY <1>8, <1>9 DEF ShowFails, AIFails, WriteFails, Answer, Gathered, At
  <1>10. ASSUME NEW q \in Request, NEW claim, Write(q, claim) PROVE FALSE
    <2>1. PICK b : call' = [call EXCEPT ![q] = [@ EXCEPT !.stage = "again", !.asked = Got(q), !.got = Empty,
                                                         !.brief = b]]
                   /\ call[q].stage = "gather"
      BY <1>10 DEF Write, Gathered, At
    <2> DEFINE c == [call[q] EXCEPT !.stage = "again", !.asked = Got(q), !.got = Empty, !.brief = b]
    <2>2. c.stage = "again"
      BY <1>1, <2>1 DEF CallFields
    <2> QED
      BY <1>2, <2>1, <2>2
  <1>11. ASSUME NEW q \in Request, Show(q) PROVE Show(r)
    <2>1. q = r
      <3> SUFFICES ASSUME q # r PROVE FALSE
        OBVIOUS
      <3>1. call'[r] = call[r]
        BY <1>1, <1>11 DEF Show, Ends
      <3> QED
        BY <1>1, <3>1
    <2> QED
      BY <1>11, <2>1
  <1> QED
    BY <1>4, <1>5, <1>6, <1>7, <1>9, <1>10, <1>11 DEF Next

(* The code behaviour: a page shows the brief of the latest gather of      *)
(* those stored by then, in whatever order they were stored.               *)
THEOREM NewestStaysShown == Spec => NewestShown
  <1> DEFINE Newest == \A r \in Request : ~At(r, "shown") /\ call'[r].stage = "shown" /\ briefs # {} =>
                         \A b \in briefs : b.began <= call'[r].page.brief.began
  <1>1. Inv /\ [Next]_vars => [Newest]_vars
    <2> SUFFICES ASSUME Inv, Next, NEW r \in Request, ~At(r, "shown"), call'[r].stage = "shown",
                        briefs # {}, NEW b \in briefs
                 PROVE  b.began <= call'[r].page.brief.began
      OBVIOUS
    <2>1. Show(r)
      BY OnlyShowShows
    <2>2. PICK newest \in Latest : call' = [call EXCEPT ![r] = [@ EXCEPT !.stage = "shown", !.page = View(Rank(Got(r).signals), newest, Got(r))]]
      BY <2>1 DEF Show, Ends
    <2>3. call'[r].page.brief = newest
      <3> DEFINE page == View(Rank(Got(r).signals), newest, Got(r))
                 c == call[r]
      <3>1. DOMAIN c = CallFields /\ DOMAIN call = Request
        BY <2>1, NotIdle DEF Inv, CallInv, Show, Gathered, At
      <3>2. page.brief = newest
        BY DEF View
      <3> HIDE DEF page
      <3> QED
        BY <2>2, <3>1, <3>2 DEF page, CallFields
    <2>4. newest \in briefs /\ b.created <= newest.created
      BY DEF Latest
    <2> QED
      BY <2>3, <2>4 DEF Inv
  <1> QED
    BY <1>1, Invariant, PTL DEF Spec, NewestShown

-----------------------------------------------------------------------------
(***************************************************************************)
(* The order of the page, for rows whose counts stay below the distance of *)
(* the weights: then whatever is critical weighs 100 at least and the rest *)
(* less.  A z-score is in tenths and a trend in percent.                   *)
(***************************************************************************)
CountsBelow60 ==
  /\ \A row \in Rows["tracker"] :
       /\ IsFiniteSet(row.projects)
       /\ \A p \in row.projects : /\ IsFiniteSet(DOMAIN p.tasks)
                                  /\ ListItem(p, row.today).blocked < 60
  /\ \A row \in Rows["workflows"] :
       /\ IsFiniteSet(row.workflows)
       /\ \A w \in row.workflows : IsFiniteSet(Blocking(w)) /\ Cardinality(Blocking(w)) < 60
  /\ \A row \in Rows["travel_ops"] :
       /\ IsFiniteSet(row)
       /\ \A i \in row : /\ IsFiniteSet(DOMAIN i.drafts)
                         /\ i.affected \in Nat
                         /\ i.severity = "unassessed" => i.affected < 60
  /\ \A row \in Rows["inbox"] : IsFiniteSet(Range(row))
  /\ \A row \in Rows["dashboard"] :
       /\ IsFiniteSet(row.trends)
       /\ \A t \in row.trends : t.pct \in -599..599
       /\ \A i \in DOMAIN row.anomalies : row.anomalies[i].z \in -599..599

Fits(x) ==
  /\ x.score \in Int
  /\ x.severity = "critical" => x.score >= 100
  /\ x.severity # "critical" => x.score < 100

InBounds(signals) == IsFiniteSet(signals) /\ \A x \in signals : Fits(x)

LEMMA SignalFits ==
  ASSUME NEW s, NEW item, NEW kind, NEW bump \in Nat
  PROVE  /\ Fits(Signal(s, item, kind, "critical", bump))
         /\ bump < 60 => Fits(Signal(s, item, kind, "warning", bump))
         /\ bump < 60 => Fits(Signal(s, item, kind, "info", bump))
  BY DEF Fits, Signal, Weight

LEMMA FiniteImage ==
  ASSUME NEW S, IsFiniteSet(S), NEW f
  PROVE  IsFiniteSet({f[x] : x \in S})
  <1> DEFINE T == {f[x] : x \in S}
             g == [x \in S |-> f[x]]
  <1>1. g \in Surjection(S, T)
    BY DEF Surjection
  <1> HIDE DEF g, T
  <1> QED
    BY <1>1, FS_Surjection DEF T

LEMMA WhenInBounds ==
  ASSUME NEW holds, NEW x, holds => Fits(x)
  PROVE  InBounds(When(holds, x))
  BY FS_EmptySet, FS_Singleton DEF InBounds, When

LEMMA UnionInBounds ==
  ASSUME NEW A, InBounds(A), NEW B, InBounds(B)
  PROVE  InBounds(A \cup B)
  BY FS_Union DEF InBounds

LEMMA AllInBounds ==
  ASSUME NEW S, IsFiniteSet(S), NEW f, \A x \in S : InBounds(f[x])
  PROVE  InBounds(UNION {f[x] : x \in S})
  <1>1. IsFiniteSet({f[x] : x \in S})
    BY FiniteImage
  <1> QED
    BY <1>1, FS_UNION DEF InBounds

LEMMA EachInBounds ==
  ASSUME NEW S, IsFiniteSet(S), NEW f, \A x \in S : Fits(f[x])
  PROVE  InBounds({f[x] : x \in S})
  BY FiniteImage DEF InBounds

LEMMA FirstIsFinite ==
  ASSUME NEW row, NEW limit \in Nat
  PROVE  IsFiniteSet(FirstOf(row, limit))
  <1> DEFINE all == 1..limit
             some == all \cap DOMAIN row
  <1>1. IsFiniteSet(all)
    BY FS_Interval
  <1>2. some \in SUBSET all
    OBVIOUS
  <1> HIDE DEF all
  <1>3. IsFiniteSet(some)
    BY <1>1, <1>2, FS_Subset
  <1>4. FirstOf(row, limit) = {row[i] : i \in some}
    BY DEF FirstOf, all
  <1> HIDE DEF some
  <1> QED
    BY <1>3, <1>4, FiniteImage

LEMMA TrackerInBounds ==
  ASSUME CountsBelow60, NEW row \in Rows["tracker"]
  PROVE  InBounds(CollectTracker(row))
  <1> DEFINE open == {q \in row.projects : q.state # "done"}
             items == {ListItem(q, row.today) : q \in open}
             Made(p) ==    When(p.overdue > 0, Signal("tracker", p.id, "overdue",
                             IF p.overdue >= 3 THEN "critical" ELSE "warning", p.overdue))
                      \cup When(p.blocked > 0, Signal("tracker", p.id, "blocked", "warning", p.blocked))
                      \cup When(p.health = "red", Signal("tracker", p.id, "health", "critical", 5))
             f == [p \in items |-> Made(p)]
             g == [q \in open |-> ListItem(q, row.today)]
  <1>1. IsFiniteSet(items)
    <2>1. IsFiniteSet(open)
      BY FS_Subset DEF CountsBelow60
    <2>2. items = {g[q] : q \in open}
      OBVIOUS
    <2> HIDE DEF open, items, g
    <2> QED
      BY <2>1, <2>2, FiniteImage
  <1>2. ASSUME NEW p \in items PROVE p.overdue \in Nat /\ p.blocked \in Nat /\ p.blocked < 60
    <2>1. PICK q \in open : p = ListItem(q, row.today)
      OBVIOUS
    <2>2. IsFiniteSet(DOMAIN q.tasks)
      BY DEF CountsBelow60
    <2>6. p.blocked < 60
      BY <2>1 DEF CountsBelow60
    <2>3. /\ p.overdue = Cardinality({i \in DOMAIN q.tasks : IsOverdue(q.tasks[i], row.today)})
          /\ p.blocked = Cardinality({i \in DOMAIN q.tasks : q.tasks[i].status = "blocked"})
      BY <2>1 DEF ListItem
    <2> DEFINE late == {i \in DOMAIN q.tasks : IsOverdue(q.tasks[i], row.today)}
               held == {i \in DOMAIN q.tasks : q.tasks[i].status = "blocked"}
    <2>4. late \in SUBSET DOMAIN q.tasks /\ held \in SUBSET DOMAIN q.tasks
      OBVIOUS
    <2> HIDE DEF late, held
    <2>5. Cardinality(late) \in Nat /\ Cardinality(held) \in Nat
      BY <2>2, <2>4, FS_Subset, FS_CardinalityType
    <2> QED
      BY <2>3, <2>5, <2>6 DEF late, held
  <1> HIDE DEF items
  <1>3. ASSUME NEW p \in items PROVE InBounds(Made(p))
    <2>1. p.overdue \in Nat /\ p.blocked \in Nat /\ p.blocked < 60
      BY <1>2
    <2>2. Fits(Signal("tracker", p.id, "overdue", IF p.overdue >= 3 THEN "critical" ELSE "warning", p.overdue))
      BY <2>1, SignalFits
    <2> QED
      BY <2>1, <2>2, SignalFits, WhenInBounds, UnionInBounds
  <1>4. CollectTracker(row) = UNION {Made(p) : p \in items}
    BY DEF CollectTracker, items
  <1> HIDE DEF Made
  <1>5. InBounds(UNION {f[p] : p \in items})
    <2>1. \A p \in items : InBounds(f[p])
      BY <1>3
    <2> HIDE DEF f
    <2> QED
      BY <1>1, <2>1, AllInBounds
  <1>6. {f[p] : p \in items} = {Made(p) : p \in items}
    OBVIOUS
  <1> QED
    BY <1>4, <1>5, <1>6

LEMMA WorkflowsInBounds ==
  ASSUME CountsBelow60, NEW row \in Rows["workflows"]
  PROVE  InBounds(CollectWorkflows(row))
  <1> DEFINE first == FirstOf(row.waiting, WaitingLimit)
             bad == {v \in row.workflows : Blocking(v) # {}}
             f == [run \in first |-> Signal("workflows", run, "approval", "critical", 10)]
             g == [w \in bad |-> Signal("workflows", w.id, "blocked", "warning", Cardinality(Blocking(w)))]
  <1>1. IsFiniteSet(first) /\ IsFiniteSet(bad)
    BY FirstIsFinite, SignalsAssumption, FS_Subset DEF CountsBelow60
  <1>2. \A run \in first : Fits(f[run])
    BY SignalFits
  <1>3. \A w \in bad : Fits(g[w])
    <2>1. ASSUME NEW w \in bad
          PROVE  Cardinality(Blocking(w)) \in Nat /\ Cardinality(Blocking(w)) < 60
      <3>1. IsFiniteSet(Blocking(w)) /\ Cardinality(Blocking(w)) < 60
        BY DEF CountsBelow60
      <3> QED
        BY <3>1, FS_CardinalityType
    <2> QED
      BY <2>1, SignalFits
  <1>4. CollectWorkflows(row) = {f[run] : run \in first} \cup {g[w] : w \in bad}
    BY DEF CollectWorkflows
  <1> HIDE DEF first, bad, f, g
  <1>5. InBounds({f[run] : run \in first})
    BY <1>1, <1>2, EachInBounds
  <1>6. InBounds({g[w] : w \in bad})
    BY <1>1, <1>3, EachInBounds
  <1> QED
    BY <1>4, <1>5, <1>6, UnionInBounds

LEMMA TravelOpsInBounds ==
  ASSUME CountsBelow60, NEW row \in Rows["travel_ops"]
  PROVE  InBounds(CollectTravelOps(row))
  <1> DEFINE open == {j \in row : j.status # "resolved"}
             Made(i) ==    When(Awaiting(i) > 0, Signal("travel_ops", i.id, "approval", "critical", Awaiting(i)))
                      \cup When(i.severity \in {"high", "critical"},
                                Signal("travel_ops", i.id, "severity", "critical", i.affected))
                      \cup When(i.severity = "unassessed" /\ i.affected > 0,
                                Signal("travel_ops", i.id, "unassessed", "warning", i.affected))
             f == [i \in open |-> Made(i)]
  <1>1. IsFiniteSet(open)
    BY FS_Subset DEF CountsBelow60
  <1>2. ASSUME NEW i \in open PROVE InBounds(Made(i))
    <2>1. i.affected \in Nat /\ (i.severity = "unassessed" => i.affected < 60)
      BY DEF CountsBelow60
    <2>2. Awaiting(i) \in Nat
      BY FS_Subset, FS_CardinalityType DEF CountsBelow60, Awaiting
    <2> QED
      BY <2>1, <2>2, SignalFits, WhenInBounds, UnionInBounds
  <1>3. CollectTravelOps(row) = UNION {Made(i) : i \in open}
    BY DEF CollectTravelOps
  <1> HIDE DEF Made, open
  <1>4. InBounds(UNION {f[i] : i \in open})
    <2>1. \A i \in open : InBounds(f[i])
      BY <1>2
    <2> HIDE DEF f
    <2> QED
      BY <1>1, <2>1, AllInBounds
  <1>5. {f[i] : i \in open} = {Made(i) : i \in open}
    OBVIOUS
  <1> QED
    BY <1>3, <1>4, <1>5

LEMMA InboxInBounds ==
  ASSUME CountsBelow60, NEW row \in Rows["inbox"]
  PROVE  /\ InBounds(WaitingReplies(row)) /\ InBounds(Unanswered(row))
         /\ \A urgent \in UrgentEmails(row) : InBounds(urgent)
  <1>1. InBounds(WaitingReplies(row))
    <2> DEFINE waiting == FirstOf(SelectSeq(row, LAMBDA e : e.draft = "draft"), WaitingLimit)
               f == [e \in waiting |-> Signal("inbox", e.id, "approval", "critical", 8)]
    <2>1. IsFiniteSet(waiting)
      BY FirstIsFinite, SignalsAssumption
    <2>2. WaitingReplies(row) = {Signal("inbox", e.id, "approval", "critical", 8) : e \in waiting}
      BY DEF WaitingReplies
    <2> HIDE DEF waiting
    <2>3. WaitingReplies(row) = {f[e] : e \in waiting} /\ \A e \in waiting : Fits(f[e])
      BY <2>2, SignalFits
    <2> HIDE DEF f
    <2> QED
      BY <2>1, <2>3, EachInBounds
  <1>2. InBounds(Unanswered(row))
    <2> DEFINE old == {e \in Range(row) : IsUnanswered(e)}
    <2>1. Cardinality(old) \in Nat
      BY FS_Subset, FS_CardinalityType DEF CountsBelow60
    <2>2. Least(Cardinality(old), 20) \in Nat /\ Least(Cardinality(old), 20) < 60
      BY <2>1 DEF Least
    <2>3. Unanswered(row) = When(Cardinality(old) > 0, Signal("inbox", "all", "unanswered", "warning",
                                                             Least(Cardinality(old), 20)))
      BY DEF Unanswered
    <2> HIDE DEF old
    <2> QED
      BY <2>2, <2>3, SignalFits, WhenInBounds
  <1>3. ASSUME NEW urgent \in UrgentEmails(row) PROVE InBounds(urgent)
    <2> DEFINE Sev(e) == IF e.urgency = "critical" THEN "critical" ELSE "warning"
               all == {e \in Range(row) : /\ e.urgency \in {"high", "critical"}
                                         /\ e.draft \in {"none", "rejected"}}
               few == {u \in SUBSET all : Cardinality(u) = Least(Cardinality(all), UrgentLimit)}
    <2>1. UrgentEmails(row) = {{Signal("inbox", e.id, "urgent", Sev(e), 6) : e \in some} : some \in few}
      BY DEF UrgentEmails
    <2>2. \A some \in few : IsFiniteSet(some)
      BY FS_Subset DEF CountsBelow60
    <2> HIDE DEF all, few
    <2>3. PICK some \in few : urgent = {Signal("inbox", e.id, "urgent", Sev(e), 6) : e \in some}
      BY <2>1
    <2> DEFINE f == [e \in some |-> Signal("inbox", e.id, "urgent", Sev(e), 6)]
    <2>4. urgent = {f[e] : e \in some} /\ \A e \in some : Fits(f[e])
      BY <2>3, SignalFits
    <2> HIDE DEF f
    <2> QED
      BY <2>2, <2>4, EachInBounds
  <1> QED
    BY <1>1, <1>2, <1>3

LEMMA DashboardInBounds ==
  ASSUME CountsBelow60, NEW row \in Rows["dashboard"]
  PROVE  InBounds(CollectDashboard(row))
  <1> DEFINE first == FirstOf(row.anomalies, 5)
             moved == {u \in row.trends : Abs(u.pct) >= 15 /\ u.direction # "flat"}
             f == [a \in first |-> Signal("dashboard", a.column, a.at,
                     IF Abs(a.z) >= 30 THEN "warning" ELSE "info", Abs(a.z) \div 10)]
             g == [t \in moved |-> Signal("dashboard", t.column, "trend",
                     IF Abs(t.pct) >= 30 THEN "warning" ELSE "info", Abs(t.pct) \div 10)]
  <1>1. IsFiniteSet(first) /\ IsFiniteSet(moved)
    BY FirstIsFinite, FS_Subset DEF CountsBelow60
  <1>2. ASSUME NEW n \in -599..599 PROVE Abs(n) \div 10 \in Nat /\ Abs(n) \div 10 < 60
    BY DEF Abs
  <1>3. (\A a \in first : a.z \in -599..599) /\ \A t \in moved : t.pct \in -599..599
    <2>1. /\ \A t \in row.trends : t.pct \in -599..599
          /\ \A i \in DOMAIN row.anomalies : row.anomalies[i].z \in -599..599
      BY DEF CountsBelow60
    <2>2. \A a \in first : \E i \in DOMAIN row.anomalies : a = row.anomalies[i]
      BY DEF FirstOf
    <2> HIDE DEF first
    <2> QED
      BY <2>1, <2>2
  <1>4. CollectDashboard(row) = {f[a] : a \in first} \cup {g[t] : t \in moved}
    BY DEF CollectDashboard
  <1> HIDE DEF first, moved
  <1>5. \A a \in first : Fits(f[a])
    BY <1>2, <1>3, SignalFits
  <1>6. \A t \in moved : Fits(g[t])
    BY <1>2, <1>3, SignalFits
  <1> HIDE DEF f, g
  <1>7. InBounds({f[a] : a \in first})
    BY <1>1, <1>5, EachInBounds
  <1>8. InBounds({g[t] : t \in moved})
    BY <1>1, <1>6, EachInBounds
  <1> QED
    BY <1>4, <1>7, <1>8, UnionInBounds

(* A request holds signals within bounds, and shows the rank of its own.   *)
PageInv(c) ==
  /\ InBounds(c.got.signals) /\ (c.got.part # Nothing => InBounds(c.got.part))
  /\ c.got.urgent # Nothing => InBounds(c.got.urgent)
  /\ c.stage = "shown" => c.page.rank = Rank(c.got.signals)

RankInv ==
  /\ \A s \in Source : rows[s] \in Rows[s]
  /\ \A r \in Request : call[r].stage # "idle" => PageInv(call[r])

LEMMA OnePage ==
  ASSUME Inv, RankInv, NEW r \in Request, NEW c, call' = [call EXCEPT ![r] = c], UNCHANGED rows,
         PageInv(c)
  PROVE  RankInv'
  <1>1. \A q \in Request : call'[q] = IF q = r THEN c ELSE call[q]
    BY DEF Inv
  <1> QED
    BY <1>1 DEF RankInv

LEMMA EmptyPage == InBounds(Empty.signals) /\ Empty.part = Nothing /\ Empty.urgent = Nothing
  BY FS_EmptySet DEF Empty, InBounds

LEMMA RankBegins == Init => RankInv
  <1> SUFFICES ASSUME Init PROVE RankInv
    OBVIOUS
  <1>1. \A s \in Source : rows[s] \in Rows[s]
    BY Sources DEF Init
  <1> QED
    BY <1>1, NotIdle DEF Init, RankInv

LEMMA ChangeKeepsRank ==
  ASSUME Inv, RankInv, NEW s \in Source, Change(s)
  PROVE  RankInv'
  <1>1. \A q \in Source : rows'[q] \in Rows[q]
    BY DEF Change, Inv, RankInv
  <1>2. ASSUME NEW r \in Request, call'[r].stage # "idle" PROVE PageInv(call'[r])
    <2> DEFINE c == call[r]
               new == [c EXCEPT !.steady = @ \ {s}]
    <2>1. call[r].stage # "idle" /\ call'[r] = new
      BY <1>2, NotIdle DEF Change, At
    <2>2. DOMAIN c = CallFields /\ PageInv(c)
      BY <2>1, NotIdle DEF Inv, CallInv, RankInv
    <2>3. new.got = c.got /\ new.stage = c.stage /\ new.page = c.page
      BY <2>2 DEF CallFields
    <2> HIDE DEF c, new
    <2> QED
      BY <2>1, <2>2, <2>3 DEF PageInv
  <1> QED
    BY <1>1, <1>2 DEF RankInv

(* A step that reads, of any kind.                                         *)
LEMMA GotKeepsRank ==
  ASSUME Inv, RankInv, NEW r \in Request, call[r].stage \notin {"idle", "shown"}, NEW g,
         NEW aborted,
         \/ call' = [call EXCEPT ![r].got = g]
         \/ call' = [call EXCEPT ![r] = [@ EXCEPT !.got = g, !.aborted = aborted]],
         UNCHANGED rows, InBounds(g.signals), g.part # Nothing => InBounds(g.part),
         g.urgent # Nothing => InBounds(g.urgent)
  PROVE  RankInv'
  <1> DEFINE c == call[r]
             new == [c EXCEPT !.got = g]
             ended == [c EXCEPT !.got = g, !.aborted = aborted]
  <1>1. DOMAIN c = CallFields
    BY NotIdle DEF Inv, CallInv
  <1>2. /\ new.got = g /\ new.stage = c.stage /\ ended.got = g /\ ended.stage = c.stage
    BY <1>1 DEF CallFields
  <1>3. call' = [call EXCEPT ![r] = new] \/ call' = [call EXCEPT ![r] = ended]
    OBVIOUS
  <1> HIDE DEF new, ended
  <1>4. PageInv(new) /\ PageInv(ended)
    BY <1>2 DEF PageInv
  <1> QED
    BY <1>3, <1>4, OnePage

LEMMA AnswersKeepRank ==
  ASSUME Inv, RankInv, NEW r \in Request, call[r].stage \notin {"idle", "shown"}, NEW s,
         NEW signals, InBounds(signals), Answers(r, s, signals)
  PROVE  RankInv'
  <1> DEFINE old == Got(r)
             g == [old EXCEPT !.signals = @ \cup signals,
                              !.count = Counted(@, s, Cardinality(signals)), !.part = Nothing,
                              !.urgent = Nothing]
  <1>1. DOMAIN old = GotFields /\ InBounds(old.signals)
    BY NotIdle DEF Inv, CallInv, GatherInv, Got, RankInv, PageInv
  <1>2. g.signals = old.signals \cup signals /\ g.part = Nothing /\ g.urgent = Nothing
    BY <1>1 DEF GotFields
  <1>3. call' = [call EXCEPT ![r].got = g] /\ UNCHANGED rows
    BY DEF Answers
  <1> HIDE DEF g, old
  <1>4. InBounds(g.signals)
    BY <1>1, <1>2, UnionInBounds
  <1> QED
    BY <1>2, <1>3, <1>4, GotKeepsRank

LEMMA ReadsKeepRank ==
  ASSUME CountsBelow60, Inv, RankInv, NEW r \in Request,
         Collect(r) \/ ReadReplies(r) \/ ReadUrgent(r) \/ CountUnanswered(r)
  PROVE  RankInv'
  <1>1. CASE Collect(r)
    <2>1. PICK s \in Source \ {"inbox"} :
            /\ Reading(r, s)
            /\ Answers(r, s, CASE s = "tracker" -> CollectTracker(rows[s])
                               [] s = "workflows" -> CollectWorkflows(rows[s])
                               [] s = "travel_ops" -> CollectTravelOps(rows[s])
                               [] s = "dashboard" -> CollectDashboard(rows[s]))
      BY <1>1 DEF Collect
    <2>2. rows[s] \in Rows[s] /\ call[r].stage \notin {"idle", "shown"}
      BY <2>1, NextSource DEF RankInv
    <2>3. PICK signals : InBounds(signals) /\ Answers(r, s, signals)
      BY <2>1, <2>2, Sources, TrackerInBounds, WorkflowsInBounds, TravelOpsInBounds, DashboardInBounds
    <2> QED
      BY <2>2, <2>3, AnswersKeepRank
  <1>2. CASE ReadReplies(r)
    <2> DEFINE replies == WaitingReplies(rows["inbox"])
               c == call[r]
               g == [c.got EXCEPT !.part = replies]
    <2>1. /\ call[r].stage \notin {"idle", "shown"} /\ UNCHANGED rows
          /\ call' = [call EXCEPT ![r].got.part = replies]
      BY <1>2, NextSource DEF ReadReplies
    <2>2. InBounds(replies)
      BY InboxInBounds, Sources DEF RankInv
    <2>3. /\ DOMAIN c.got = GotFields /\ InBounds(c.got.signals)
          /\ c.got.urgent # Nothing => InBounds(c.got.urgent)
      BY <2>1, NotIdle DEF Inv, CallInv, GatherInv, RankInv, PageInv
    <2>4. call' = [call EXCEPT ![r].got = g]
      BY <2>1
    <2> HIDE DEF replies
    <2>5. g.signals = c.got.signals /\ g.part = replies /\ g.urgent = c.got.urgent
      BY <2>3 DEF GotFields
    <2> HIDE DEF g, c
    <2>6. InBounds(g.signals) /\ InBounds(g.part) /\ (g.urgent # Nothing => InBounds(g.urgent))
      BY <2>2, <2>3, <2>5
    <2> QED
      BY <2>1, <2>4, <2>6, GotKeepsRank
  <1>3. CASE ReadUrgent(r)
    <2> DEFINE c == call[r]
    <2>1. PICK urgent \in UrgentEmails(rows["inbox"]) : call' = [call EXCEPT ![r].got.urgent = urgent]
      BY <1>3 DEF ReadUrgent
    <2> DEFINE g == [c.got EXCEPT !.urgent = urgent]
    <2>2. call[r].stage \notin {"idle", "shown"} /\ UNCHANGED rows
      BY <1>3, NextSource DEF ReadUrgent
    <2>3. InBounds(urgent)
      BY InboxInBounds, Sources DEF RankInv
    <2>4. /\ DOMAIN c.got = GotFields /\ InBounds(c.got.signals)
          /\ c.got.part # Nothing => InBounds(c.got.part)
      BY <2>2, NotIdle DEF Inv, CallInv, GatherInv, RankInv, PageInv
    <2>5. call' = [call EXCEPT ![r].got = g]
      BY <2>1
    <2>6. g.signals = c.got.signals /\ g.part = c.got.part /\ g.urgent = urgent
      BY <2>4 DEF GotFields
    <2> HIDE DEF g
    <2> QED
      BY <2>2, <2>3, <2>4, <2>5, <2>6, GotKeepsRank
  <1>4. CASE CountUnanswered(r)
    <2> DEFINE now == rows["inbox"]
               signals == Got(r).part \cup Got(r).urgent \cup Unanswered(now)
    <2>1. Answers(r, "inbox", signals) /\ call[r].stage \notin {"idle", "shown"}
      BY <1>4, NextSource DEF CountUnanswered
    <2>2. InBounds(Got(r).part) /\ InBounds(Got(r).urgent) /\ now \in Rows["inbox"]
      BY <1>4, <2>1, Sources DEF CountUnanswered, RankInv, PageInv, Got
    <2>3. InBounds(signals)
      BY <2>2, InboxInBounds, UnionInBounds
    <2> HIDE DEF signals
    <2> QED
      BY <2>1, <2>3, AnswersKeepRank
  <1> QED
    BY <1>1, <1>2, <1>3, <1>4

LEMMA FailuresKeepRank ==
  ASSUME Inv, RankInv, NEW r \in Request, Raises(r) \/ StatementFails(r) \/ IsRefused(r)
  PROVE  RankInv'
  <1>1. PICK s : /\ Reading(r, s) /\ UNCHANGED rows
                 /\ \/ call' = [call EXCEPT ![r].got = Unavailable(r, s)]
                    \/ \E aborted : Fails(r, s, aborted)
    BY DEF Raises, StatementFails, IsRefused, Fails
  <1>2. call[r].stage \notin {"idle", "shown"}
    BY <1>1, NextSource
  <1> DEFINE g == Unavailable(r, s)
             h == [g EXCEPT !.failed = @ \cup {s}]
  <1>3. DOMAIN Got(r) = GotFields /\ InBounds(Got(r).signals)
    BY <1>2, NotIdle DEF Inv, CallInv, GatherInv, Got, RankInv, PageInv
  <1>4. /\ g.signals = Got(r).signals /\ g.part = Nothing /\ g.urgent = Nothing
        /\ h.signals = Got(r).signals /\ h.part = Nothing /\ h.urgent = Nothing
    BY <1>3 DEF GotFields, Unavailable
  <1>5. \/ call' = [call EXCEPT ![r].got = g]
        \/ \E aborted : call' = [call EXCEPT ![r] = [@ EXCEPT !.got = h, !.aborted = aborted]]
    BY <1>1 DEF Fails
  <1> HIDE DEF g, h
  <1> QED
    BY <1>1, <1>2, <1>3, <1>4, <1>5, GotKeepsRank

LEMMA EndsKeepRank ==
  ASSUME Inv, RankInv, NEW r \in Request, call[r].stage # "idle", UNCHANGED rows,
         NEW stage, NEW page, Ends(r, stage, page),
         stage = "shown" => page.rank = Rank(call[r].got.signals)
  PROVE  RankInv'
  <1> DEFINE c == call[r]
             new == [c EXCEPT !.stage = stage, !.page = page]
  <1>1. DOMAIN c = CallFields /\ PageInv(c) /\ call' = [call EXCEPT ![r] = new]
    BY NotIdle DEF Inv, CallInv, RankInv, Ends
  <1>2. new.got = c.got /\ new.stage = stage /\ new.page = page
    BY <1>1 DEF CallFields
  <1> HIDE DEF new
  <1>3. PageInv(new)
    BY <1>1, <1>2 DEF PageInv
  <1> QED
    BY <1>1, <1>3, OnePage

LEMMA RankStep == CountsBelow60 /\ Inv /\ RankInv /\ [Next]_vars => RankInv'
  <1> SUFFICES ASSUME CountsBelow60, Inv, RankInv, [Next]_vars PROVE RankInv'
    OBVIOUS
  <1>1. CASE UNCHANGED vars
    BY <1>1 DEF vars, RankInv
  <1>2. CASE \E s \in Source : Change(s)
    BY <1>2, ChangeKeepsRank
  <1>3. ASSUME NEW r \in Request, NEW kind, Begin(r, kind) PROVE RankInv'
    <2> DEFINE c == [kind |-> kind, stage |-> "gather", began |-> calls, got |-> Empty,
                     aborted |-> FALSE, steady |-> Source, asked |-> Empty, brief |-> Nothing,
                     page |-> Nothing]
    <2>1. call' = [call EXCEPT ![r] = c] /\ c.stage # "shown" /\ c.got = Empty /\ UNCHANGED rows
      BY <1>3 DEF Begin
    <2> HIDE DEF c
    <2> QED
      BY <2>1, EmptyPage, OnePage DEF PageInv
  <1>4. ASSUME NEW r \in Request,
               Collect(r) \/ ReadReplies(r) \/ ReadUrgent(r) \/ CountUnanswered(r)
        PROVE  RankInv'
    BY <1>4, ReadsKeepRank
  <1>5. ASSUME NEW r \in Request, Raises(r) \/ StatementFails(r) \/ IsRefused(r) PROVE RankInv'
    BY <1>5, FailuresKeepRank
  <1>6. ASSUME NEW r \in Request, ShowFails(r) \/ AIFails(r) \/ WriteFails(r) \/ Answer(r) PROVE RankInv'
    <2>1. call[r].stage # "idle" /\ UNCHANGED rows
          /\ \E stage \in {"failed", "refused", "answered"} : \E page : Ends(r, stage, page)
      BY <1>6 DEF ShowFails, AIFails, WriteFails, Answer, Gathered, At
    <2> QED
      BY <2>1, EndsKeepRank
  <1>7. ASSUME NEW r \in Request, Show(r) PROVE RankInv'
    <2>1. PICK b : Ends(r, "shown", View(Rank(Got(r).signals), b, Got(r)))
      BY <1>7 DEF Show
    <2>2. View(Rank(Got(r).signals), b, Got(r)).rank = Rank(call[r].got.signals)
      BY DEF View, Got
    <2>3. call[r].stage # "idle" /\ UNCHANGED rows
      BY <1>7 DEF Show, Gathered, At
    <2> HIDE DEF View
    <2> QED
      BY <2>1, <2>2, <2>3, EndsKeepRank
  <1>8. ASSUME NEW r \in Request, NEW claim, Write(r, claim) PROVE RankInv'
    <2> DEFINE b == Brief(r, claim, call[r].began)
               new == [call[r] EXCEPT !.stage = "again", !.asked = Got(r), !.got = Empty, !.brief = b]
    <2>1. call' = [call EXCEPT ![r] = new] /\ UNCHANGED rows /\ call[r].stage = "gather"
      BY <1>8 DEF Write, Gathered, At
    <2>2. DOMAIN call[r] = CallFields
      BY <2>1, NotIdle DEF Inv, CallInv
    <2> HIDE DEF b
    <2>3. new.stage = "again" /\ new.got = Empty
      BY <2>2 DEF CallFields
    <2> HIDE DEF new
    <2> QED
      BY <2>1, <2>3, EmptyPage, OnePage DEF PageInv
  <1> QED
    BY <1>1, <1>2, <1>3, <1>4, <1>5, <1>6, <1>7, <1>8 DEF Next

(* A signal that weighs more is listed before.                             *)
LEMMA RankFollowsScore ==
  ASSUME NEW signals, IsFiniteSet(signals), \A x \in signals : x.score \in Int,
         NEW a \in signals, NEW b \in signals, b.score < a.score
  PROVE  Rank(signals)[a] < Rank(signals)[b]
  <1> DEFINE A == {t \in signals : t.score > a.score}
             B == {t \in signals : t.score > b.score}
  <1>1. A \in SUBSET B /\ A # B /\ IsFiniteSet(B)
    <2>1. a \in B /\ a \notin A /\ A \in SUBSET B /\ B \in SUBSET signals
      OBVIOUS
    <2> HIDE DEF A, B
    <2> QED
      BY <2>1, FS_Subset
  <1>2. Rank(signals)[a] = Cardinality(A) /\ Rank(signals)[b] = Cardinality(B)
    BY DEF Rank
  <1> HIDE DEF A, B
  <1>3. Cardinality(A) <= Cardinality(B) /\ Cardinality(A) # Cardinality(B)
    BY <1>1, FS_Subset
  <1>4. Cardinality(A) \in Nat /\ Cardinality(B) \in Nat
    BY <1>1, FS_Subset, FS_CardinalityType
  <1> QED
    BY <1>2, <1>3, <1>4

(* The code behaviour: whatever is critical is listed above all that is    *)
(* not, however the sources change while they are read, for any rows whose *)
(* counts do not outweigh a severity.                                      *)
THEOREM CriticalStaysFirst ==
  ASSUME CountsBelow60
  PROVE  Spec => []CriticalFirst
  <1>1. RankInv => CriticalFirst
    <2> SUFFICES ASSUME RankInv, NEW r \in Request, At(r, "shown"),
                        NEW a \in DOMAIN call[r].page.rank, NEW b \in DOMAIN call[r].page.rank,
                        a.severity = "critical", b.severity # "critical"
                 PROVE  call[r].page.rank[a] < call[r].page.rank[b]
      BY DEF CriticalFirst
    <2> DEFINE signals == call[r].got.signals
    <2>1. InBounds(signals) /\ call[r].page.rank = Rank(signals)
      BY DEF RankInv, PageInv, At
    <2> HIDE DEF signals
    <2>2. a \in signals /\ b \in signals
      BY <2>1 DEF Rank
    <2>3. IsFiniteSet(signals) /\ (\A x \in signals : x.score \in Int) /\ b.score < a.score
      BY <2>1, <2>2 DEF InBounds, Fits
    <2> QED
      BY <2>1, <2>2, <2>3, RankFollowsScore
  <1>2. Inv /\ RankInv /\ [Next]_vars => RankInv'
    BY RankStep
  <1> QED
    BY <1>1, <1>2, RankBegins, Invariant, PTL DEF Spec
=============================================================================
