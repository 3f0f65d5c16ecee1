---------------------------- MODULE InboxProofs -----------------------------
(***************************************************************************)
(* What the inbox keeps of a reply and of a reading is whole, for every    *)
(* number of requests, people, texts and answers.                          *)
(*                                                                         *)
(* A flush writes the columns that differ from the row as loaded, so a     *)
(* commit is only right if the columns it leaves alone are still those it  *)
(* has loaded.  For the columns of the reply that is so while requests on  *)
(* the reply come in turn, whatever triages write meanwhile (ReplyInTurn), *)
(* and for those of the reading while triages are apart, whatever is       *)
(* decided meanwhile (ReadingApart).                                       *)
(***************************************************************************)
EXTENDS Inbox, SequenceTheorems, TLAPS

OfReply == {"status", "body", "by", "note", "recorded"}
OfReading == {"why", "category", "agreed"}

(* What a triage, a draft and a decision make of the row they loaded.      *)
IsReading(x) ==
  x.why \in Answer /\ x.category = CategoryOf[x.why] /\ x.agreed = (x.category = Seed)
IsDraft(x) == x.status = "draft" /\ x.by = None /\ x.note = FALSE /\ x.recorded = FALSE
IsApproval(x) == x.status = "approved" /\ x.note = FALSE /\ x.recorded = TRUE
Agree(x, y, names) == \A k \in names : x[k] = y[k]

Computed(c) ==
  /\ c.kind = "triage" /\ c.stage = "loaded" =>
       IsReading(c.new) /\ Agree(c.new, RecordFor(c.old), OfReply)
  /\ c.kind = "draft" /\ c.stage = "loaded" =>
       IsDraft(c.new) /\ c.new.body \in Text /\ Agree(c.new, RecordFor(c.old), OfReading)
  /\ c.kind = "decide" =>
       /\ c.stage = "loaded" /\ c.old # NoRow /\ c.old.status = "draft"
       /\ Agree(c.new, c.old, OfReading \cup {"body"})
       /\ c.new.status = "rejected" \/ IsApproval(c.new)
  /\ c.stage = "asked" /\ c.kind = "triage" => c.old = NoRow

(* A row stays once it is there, and so does the text of a reply.          *)
TextStays(old) ==
  old # NoRow => /\ row # NoRow
                 /\ old.status # "none" => old.body \in Text
                 /\ old.body \in Text => row.body \in Text

Stays ==
  /\ row # NoRow /\ row.status # "none" => row.body \in Text
  /\ \A r \in Request : Held(r) => TextStays(call[r].old)

Base == TypeOK /\ (\A r \in Request : Held(r) => Computed(call[r])) /\ Stays

-----------------------------------------------------------------------------
LEMMA HoldingFields ==
  ASSUME NEW kind, NEW stage, NEW old, NEW new, NEW c, c = Holding(kind, stage, old, new)
  PROVE  c.kind = kind /\ c.stage = stage /\ c.old = old /\ c.new = new
  BY DEF Holding

LEMMA CallFields ==
  ASSUME TypeOK, NEW r \in Request
  PROVE  /\ Held(r) => /\ call[r] \in Calls
                       /\ call[r].new \in Columns
                       /\ call[r].old = NoRow \/ call[r].old \in Columns
                       /\ call[r].stage \in {"asked", "loaded"}
                       /\ call[r].kind \in {"triage", "draft", "decide"}
         /\ ~Held(r) => call[r] = Idle
  BY DEF TypeOK, Calls, Held, Idle

LEMMA HoldingType ==
  ASSUME NEW kind \in {"triage", "draft", "decide"}, NEW stage \in {"asked", "loaded"},
         NEW old \in Columns \cup {NoRow}, NEW new \in Columns
  PROVE  Holding(kind, stage, old, new) \in Calls
  BY DEF Holding, Calls

(* The columns of a row.                                                   *)
LEMMA ColumnTypes ==
  ASSUME NEW x \in Columns
  PROVE  /\ x.why \in Answer \cup {None} /\ x.category \in Category \cup {None}
         /\ x.agreed \in BOOLEAN \cup {None}
         /\ x.status \in {"none", "draft", "approved", "rejected"}
         /\ x.body \in Text \cup {None} /\ x.by \in Person \cup {None}
         /\ x.note \in BOOLEAN /\ x.recorded \in BOOLEAN
         /\ DOMAIN x = OfReply \cup OfReading
  BY DEF Columns, OfReply, OfReading

LEMMA FreshType == Fresh \in Columns /\ Fresh # NoRow
<1>1. Fresh \in Columns
  BY Z3 DEF Fresh, Columns
<1> QED
  BY <1>1, NoRowAssumption

LEMMA RecordForType ==
  ASSUME NEW old \in Columns \cup {NoRow}
  PROVE  RecordFor(old) \in Columns /\ RecordFor(NoRow) = Fresh /\ (old # NoRow => RecordFor(old) = old)
  BY FreshType DEF RecordFor

LEMMA WrittenColumns ==
  ASSUME NEW old \in Columns, NEW new \in Columns, NEW now \in Columns
  PROVE  /\ Written(old, new, now) \in Columns
         /\ \A k \in OfReply \cup OfReading :
              Written(old, new, now)[k] = IF new[k] # old[k] THEN new[k] ELSE now[k]
  BY DEF Written, Columns, OfReply, OfReading

(* The rows the handlers compute.                                          *)
LEMMA TriageRow ==
  ASSUME NEW old \in Columns, NEW a \in Answer, NEW new,
         new = [old EXCEPT !.why = a, !.category = CategoryOf[a],
                           !.agreed = (CategoryOf[a] = Seed)]
  PROVE  new \in Columns /\ IsReading(new) /\ Agree(new, old, OfReply)
<1>1. CategoryOf[a] \in Category
  BY InboxAssumption
<1>2. new \in Columns
  BY <1>1 DEF Columns
<1>3. IsReading(new)
  BY <1>1 DEF Columns, IsReading
<1>4. Agree(new, old, OfReply)
  BY DEF Columns, Agree, OfReply
<1> QED
  BY <1>2, <1>3, <1>4

LEMMA DraftRow ==
  ASSUME NEW old \in Columns, NEW text \in Text, NEW new,
         new = [old EXCEPT !.body = text, !.status = "draft",
                           !.by = None, !.note = FALSE, !.recorded = FALSE]
  PROVE  new \in Columns /\ IsDraft(new) /\ new.body = text /\ Agree(new, old, OfReading)
<1>1. new \in Columns
  BY DEF Columns
<1>2. IsDraft(new) /\ new.body = text
  BY DEF Columns, IsDraft
<1>3. Agree(new, old, OfReading)
  BY DEF Columns, Agree, OfReading
<1> QED
  BY <1>1, <1>2, <1>3

LEMMA DecidedRow ==
  ASSUME NEW old \in Columns
  PROVE  /\ \A note \in BOOLEAN :
              LET new == Rejecting(old, note)
              IN /\ new \in Columns /\ new.status = "rejected"
                 /\ Agree(new, old, OfReading \cup {"body"})
         /\ \A who \in Person :
              LET new == Approving(old, who)
              IN /\ new \in Columns /\ IsApproval(new) /\ new.by = who
                 /\ Agree(new, old, OfReading \cup {"body"})
<1>1. ASSUME NEW note \in BOOLEAN, NEW new, new = Rejecting(old, note)
      PROVE  /\ new \in Columns /\ new.status = "rejected"
             /\ Agree(new, old, OfReading \cup {"body"})
  <2>1. new \in Columns
    BY <1>1 DEF Columns, Rejecting
  <2>2. new.status = "rejected" /\ Agree(new, old, OfReading \cup {"body"})
    BY <1>1 DEF Columns, Rejecting, Agree, OfReading
  <2> QED
    BY <2>1, <2>2
<1>2. ASSUME NEW who \in Person, NEW new, new = Approving(old, who)
      PROVE  /\ new \in Columns /\ IsApproval(new) /\ new.by = who
             /\ Agree(new, old, OfReading \cup {"body"})
  <2>1. new \in Columns
    BY <1>2 DEF Columns, Approving
  <2>2. IsApproval(new) /\ new.by = who
    BY <1>2 DEF Columns, Approving, IsApproval
  <2>3. Agree(new, old, OfReading \cup {"body"})
    BY <1>2 DEF Columns, Approving, Agree, OfReading
  <2> QED
    BY <2>1, <2>2, <2>3
<1> QED
  BY <1>1, <1>2
-----------------------------------------------------------------------------
(* A request takes a computed call, and the row stays as it is.            *)
Takes(r, c) ==
  /\ c \in Calls /\ Computed(c) /\ TextStays(c.old)
  /\ call' = [call EXCEPT ![r] = c]
  /\ UNCHANGED row

LEMMA RowFacts ==
  ASSUME Base
  PROVE  /\ row = NoRow \/ row \in Columns
         /\ RecordFor(row) \in Columns /\ RecordFor(NoRow) = Fresh
         /\ row # NoRow => RecordFor(row) = row
         /\ TextStays(row) /\ TextStays(NoRow)
  BY RecordForType DEF Base, TypeOK, Stays, TextStays

LEMMA AskTakes ==
  ASSUME Base, NEW r \in Request, NEW kind \in {"triage", "draft"}, NEW old \in {NoRow, row},
         kind = "triage" => old = NoRow,
         NEW c, c = Holding(kind, "asked", old, Fresh),
         call' = [call EXCEPT ![r] = c], UNCHANGED row
  PROVE  Takes(r, c)
<1>1. c \in Calls
  BY RowFacts, FreshType, HoldingType
<1>2. c.kind = kind /\ c.stage = "asked" /\ c.old = old
  BY HoldingFields
<1>3. Computed(c)
  BY <1>2 DEF Computed
<1>4. TextStays(c.old)
  BY <1>2, RowFacts
<1> QED
  BY <1>1, <1>3, <1>4 DEF Takes

LEMMA TriageTakes ==
  ASSUME Base, NEW r \in Request, NEW a \in Answer, Triage(r, a)
  PROVE  \E c : /\ Takes(r, c) /\ c.kind = "triage" /\ c.stage = "loaded" /\ c.old = row
                /\ apart' = (apart /\ \A q \in Request : ~At(q, "triage", "loaded"))
                /\ UNCHANGED <<outbox, inTurn, calls, deaths>>
<1> DEFINE new == [RecordFor(row) EXCEPT !.why = a, !.category = CategoryOf[a],
                                         !.agreed = (CategoryOf[a] = Seed)]
           c == Holding("triage", "loaded", row, new)
<1>1. new \in Columns /\ IsReading(new) /\ Agree(new, RecordFor(row), OfReply)
  BY RowFacts, TriageRow
<1>2. /\ call' = [call EXCEPT ![r] = c] /\ UNCHANGED row
      /\ apart' = (apart /\ \A q \in Request : ~At(q, "triage", "loaded"))
      /\ UNCHANGED <<outbox, inTurn, calls, deaths>>
  BY DEF Triage
<1> HIDE DEF new
<1>3. c \in Calls
  BY <1>1, RowFacts, HoldingType
<1>4. c.kind = "triage" /\ c.stage = "loaded" /\ c.old = row /\ c.new = new
  BY HoldingFields
<1> HIDE DEF c
<1>5. Computed(c)
  BY <1>1, <1>4 DEF Computed
<1>6. TextStays(c.old)
  BY <1>4, RowFacts
<1> QED
  BY <1>2, <1>3, <1>4, <1>5, <1>6 DEF Takes

LEMMA DraftTakes ==
  ASSUME Base, NEW r \in Request, NEW text \in Text, Draft(r, text)
  PROVE  \E c : /\ Takes(r, c) /\ c.kind = "draft" /\ c.stage = "loaded"
                /\ At(r, "draft", "asked")
                /\ c.old = IF call[r].old = NoRow THEN row ELSE call[r].old
                /\ UNCHANGED <<outbox, inTurn, apart, calls, deaths>>
<1> DEFINE old == IF call[r].old = NoRow THEN row ELSE call[r].old
           new == [RecordFor(old) EXCEPT !.body = text, !.status = "draft",
                                         !.by = None, !.note = FALSE, !.recorded = FALSE]
           c == Holding("draft", "loaded", old, new)
<1>0. At(r, "draft", "asked") /\ Held(r)
  BY DEF Draft, At, Held
<1>1. old \in Columns \cup {NoRow} /\ TextStays(old)
  BY <1>0, RowFacts, CallFields DEF Base, Stays
<1>2. /\ call' = [call EXCEPT ![r] = c] /\ UNCHANGED row
      /\ UNCHANGED <<outbox, inTurn, apart, calls, deaths>>
  BY DEF Draft
<1> HIDE DEF old
<1>3. new \in Columns /\ IsDraft(new) /\ new.body = text /\ Agree(new, RecordFor(old), OfReading)
  BY <1>1, RecordForType, DraftRow
<1> HIDE DEF new
<1>4. c \in Calls
  BY <1>1, <1>3, HoldingType
<1>5. c.kind = "draft" /\ c.stage = "loaded" /\ c.old = old /\ c.new = new
  BY HoldingFields
<1> HIDE DEF c
<1>6. Computed(c)
  BY <1>3, <1>5 DEF Computed
<1> QED
  BY <1>0, <1>1, <1>2, <1>4, <1>5, <1>6 DEF Takes, old

(* Both decisions.                                                         *)
Decides(r, c) ==
  /\ row # NoRow /\ row.status = "draft"
  /\ ~Held(r) /\ calls < MaxCalls /\ calls' = calls + 1
  /\ Takes(r, c) /\ c.kind = "decide" /\ c.stage = "loaded" /\ c.old = row
  /\ inTurn' = (inTurn /\ \A q \in Request : ~Reply(q))
  /\ UNCHANGED <<apart, deaths>>

LEMMA RejectDecides ==
  ASSUME Base, NEW r \in Request, NEW note \in BOOLEAN, BeginReject(r, note)
  PROVE  \E c : Decides(r, c) /\ c.new.status = "rejected" /\ UNCHANGED outbox
<1> DEFINE new == Rejecting(row, note)
           c == Holding("decide", "loaded", row, new)
<1>1. row # NoRow /\ row.status = "draft" /\ row \in Columns
  BY RowFacts DEF BeginReject
<1>2. new \in Columns /\ new.status = "rejected" /\ Agree(new, row, OfReading \cup {"body"})
  BY <1>1, DecidedRow
<1> HIDE DEF new
<1>3. c \in Calls /\ c.kind = "decide" /\ c.stage = "loaded" /\ c.old = row /\ c.new = new
  BY <1>1, <1>2, HoldingType, HoldingFields
<1>4. Begin(r, c) /\ UNCHANGED outbox
  BY DEF BeginReject, new
<1> HIDE DEF c
<1>5. Computed(c)
  BY <1>1, <1>2, <1>3 DEF Computed
<1>6. Takes(r, c)
  BY <1>3, <1>4, <1>5, RowFacts DEF Takes, Begin
<1>7. Decides(r, c)
  BY <1>1, <1>3, <1>4, <1>6 DEF Decides, Begin
<1> QED
  BY <1>2, <1>3, <1>4, <1>7

LEMMA ApproveDecides ==
  ASSUME Base, NEW r \in Request, NEW who \in Person, BeginApprove(r, who)
  PROVE  \E c : /\ Decides(r, c) /\ IsApproval(c.new) /\ c.new.by = who
                /\ outbox' = Append(outbox, <<row.body, who>>)
<1> DEFINE new == Approving(row, who)
           c == Holding("decide", "loaded", row, new)
<1>1. row # NoRow /\ row.status = "draft" /\ row \in Columns
  BY RowFacts DEF BeginApprove
<1>2. new \in Columns /\ IsApproval(new) /\ new.by = who /\ Agree(new, row, OfReading \cup {"body"})
  BY <1>1, DecidedRow
<1> HIDE DEF new
<1>3. c \in Calls /\ c.kind = "decide" /\ c.stage = "loaded" /\ c.old = row /\ c.new = new
  BY <1>1, <1>2, HoldingType, HoldingFields
<1>4. Begin(r, c) /\ outbox' = Append(outbox, <<row.body, who>>)
  BY DEF BeginApprove, new
<1> HIDE DEF c
<1>5. Computed(c)
  BY <1>1, <1>2, <1>3 DEF Computed
<1>6. Takes(r, c)
  BY <1>3, <1>4, <1>5, RowFacts DEF Takes, Begin
<1>7. Decides(r, c)
  BY <1>1, <1>3, <1>4, <1>6 DEF Decides, Begin
<1> QED
  BY <1>2, <1>3, <1>4, <1>7
-----------------------------------------------------------------------------
(* A commit writes, column by column, what differs from the row as loaded. *)
Writes(r) ==
  LET c == call[r]
  IN /\ Held(r) /\ c.stage = "loaded" /\ c.new \in Columns
     /\ c.old = NoRow <=> row = NoRow
     /\ row' \in Columns /\ row' # NoRow
     /\ \A k \in OfReply \cup OfReading :
          row'[k] = IF c.old # NoRow /\ c.new[k] = c.old[k] THEN row[k] ELSE c.new[k]
     /\ call' = [call EXCEPT ![r] = Idle]

LEMMA CommitWrites ==
  ASSUME Base, NEW r \in Request, Commit(r)
  PROVE  Writes(r)
<1> DEFINE c == call[r]
<1>1. Held(r) /\ c.stage = "loaded" /\ call' = [call EXCEPT ![r] = Idle]
  BY DEF Commit
<1>2. c.new \in Columns /\ (c.old = NoRow \/ c.old \in Columns)
  BY <1>1, CallFields DEF Base
<1>3. c.old # NoRow => row # NoRow
  BY <1>1 DEF Base, Stays, TextStays
<1>4. CASE c.old = NoRow
  <2>1. row = NoRow /\ row' = c.new
    BY <1>4 DEF Commit
  <2> QED
    BY <1>1, <1>2, <1>4, <2>1, NoRowAssumption DEF Writes
<1>5. CASE c.old # NoRow
  <2>1. row' = Written(c.old, c.new, row) /\ row \in Columns
    BY <1>3, <1>5, RowFacts DEF Commit
  <2>2. row' \in Columns /\ \A k \in OfReply \cup OfReading :
          row'[k] = IF c.new[k] # c.old[k] THEN c.new[k] ELSE row[k]
    BY <1>2, <1>5, <2>1, WrittenColumns
  <2> QED
    BY <1>1, <1>2, <1>3, <1>5, <2>2, NoRowAssumption DEF Writes
<1> QED
  BY <1>4, <1>5

-----------------------------------------------------------------------------
(* The three kinds of steps keep the records well-formed.                  *)
Counters ==
  /\ outbox' \in Seq(Text \X Person) /\ inTurn' \in BOOLEAN /\ apart' \in BOOLEAN
  /\ calls' \in 0..MaxCalls /\ deaths' \in 0..MaxDeaths

LEMMA TakeKeepsBase ==
  ASSUME Base, NEW r \in Request, NEW c, Takes(r, c), Counters
  PROVE  Base'
<1>1. TypeOK'
  BY DEF Base, TypeOK, Takes, Counters
<1>2. \A q \in Request : call'[q] = IF q = r THEN c ELSE call[q]
  BY DEF Base, TypeOK, Takes
<1>3. \A q \in Request : Held(q)' => Computed(call'[q])
  BY <1>2 DEF Base, Takes, Held
<1>4. \A q \in Request : Held(q)' => TextStays(call'[q].old)
  BY <1>2 DEF Base, Stays, Takes, Held
<1>5. Stays'
  BY <1>4 DEF Base, Stays, Takes, TextStays
<1> QED
  BY <1>1, <1>3, <1>5 DEF Base

LEMMA DropKeepsBase ==
  ASSUME Base, NEW r \in Request, call' = [call EXCEPT ![r] = Idle], UNCHANGED row, Counters
  PROVE  Base'
<1>1. TypeOK'
  BY DEF Base, TypeOK, Counters
<1>2. \A q \in Request : call'[q] = IF q = r THEN Idle ELSE call[q]
  BY DEF Base, TypeOK
<1>3. \A q \in Request : Held(q)' => Held(q) /\ call'[q] = call[q]
  BY <1>2 DEF Held, Idle
<1>4. Stays'
  BY <1>3 DEF Base, Stays, TextStays
<1> QED
  BY <1>1, <1>3, <1>4 DEF Base

LEMMA CommitKeepsBase ==
  ASSUME Base, NEW r \in Request, Writes(r), Counters
  PROVE  Base'
<1> DEFINE c == call[r]
<1>1. TypeOK'
  BY DEF Base, TypeOK, Writes, Counters
<1>2. \A q \in Request : call'[q] = IF q = r THEN Idle ELSE call[q]
  BY DEF Base, TypeOK, Writes
<1>3. \A q \in Request : Held(q)' => Held(q) /\ call'[q] = call[q]
  BY <1>2 DEF Held, Idle
<1>4. /\ Computed(c) /\ TextStays(c.old) /\ Held(r)
      /\ c.stage = "loaded" /\ c.kind \in {"triage", "draft", "decide"}
  BY CallFields DEF Base, Stays, Writes
<1>5. /\ row'.status = IF c.old # NoRow /\ c.new.status = c.old.status THEN row.status ELSE c.new.status
      /\ row'.body = IF c.old # NoRow /\ c.new.body = c.old.body THEN row.body ELSE c.new.body
  BY DEF Writes, OfReply
<1>6. row = NoRow \/ (row.status # "none" => row.body \in Text)
  BY DEF Base, Stays
<1>7. c.new.body \in Text \/ (c.new.body = RecordFor(c.old).body /\ c.new.status = RecordFor(c.old).status)
        \/ (c.kind = "decide" /\ c.old # NoRow /\ c.old.status = "draft" /\ c.new.body = c.old.body)
  BY <1>4 DEF Computed, Agree, OfReply
<1>8. c.old # NoRow => RecordFor(c.old) = c.old
  BY DEF RecordFor
<1>9. c.old = NoRow => RecordFor(c.old).status = "none" /\ RecordFor(c.old).body = None
  BY DEF RecordFor, Fresh
<1>10. row'.status # "none" => row'.body \in Text
  BY <1>4, <1>5, <1>6, <1>7, <1>8, <1>9 DEF TextStays, Writes
<1>11. row # NoRow /\ row.body \in Text => row'.body \in Text
  <2>1. CASE c.old = NoRow
    BY <2>1 DEF Writes
  <2>2. CASE c.old # NoRow
    BY <1>5, <1>7, <1>8, <2>2
  <2> QED
    BY <2>1, <2>2
<1>12. row' # NoRow
  BY DEF Writes
<1>13. Stays'
  BY <1>3, <1>10, <1>11, <1>12 DEF Base, Stays, TextStays
<1> QED
  BY <1>1, <1>3, <1>13 DEF Base
-----------------------------------------------------------------------------
(* The kinds of steps there are, by what they do to a request.             *)
Asks(r, c) ==
  /\ ~Held(r) /\ Takes(r, c) /\ c.stage = "asked" /\ c.kind \in {"triage", "draft"}
  /\ c.kind = "draft" => c.old = row /\ (row # NoRow => row.status # "approved")
  /\ inTurn' = (inTurn /\ (c.kind = "draft" => \A q \in Request : ~Reply(q)))
  /\ UNCHANGED <<outbox, apart, deaths>>

Reads(r, c) ==
  /\ At(r, "triage", "asked")
  /\ Takes(r, c) /\ c.kind = "triage" /\ c.stage = "loaded" /\ c.old = row
  /\ apart' = (apart /\ \A q \in Request : ~At(q, "triage", "loaded"))
  /\ UNCHANGED <<outbox, inTurn, deaths>>

Drafts(r, c) ==
  /\ At(r, "draft", "asked")
  /\ Takes(r, c) /\ c.kind = "draft" /\ c.stage = "loaded"
  /\ c.old = IF call[r].old = NoRow THEN row ELSE call[r].old
  /\ UNCHANGED <<outbox, inTurn, apart, deaths>>

Rejects(r, c) == Decides(r, c) /\ c.new.status = "rejected" /\ UNCHANGED outbox
Approves(r, c) ==
  /\ Decides(r, c) /\ IsApproval(c.new)
  /\ outbox' = Append(outbox, <<c.new.body, c.new.by>>)

Lands(r) == Writes(r) /\ UNCHANGED <<outbox, inTurn, apart, deaths>>

Leaves(r) ==
  /\ Held(r) /\ call' = [call EXCEPT ![r] = Idle]
  /\ deaths' = deaths + 1 \/ (call[r].kind # "decide" /\ deaths' = deaths)
  /\ UNCHANGED <<row, outbox, inTurn, apart>>

Kinds ==
  \/ UNCHANGED vars
  \/ \E r \in Request :
       \/ \E c : Asks(r, c) \/ Reads(r, c) \/ Drafts(r, c) \/ Rejects(r, c) \/ Approves(r, c)
       \/ Lands(r) \/ Leaves(r)

LEMMA StepKinds ==
  ASSUME Base, [Next]_vars
  PROVE  Counters /\ Kinds
<1>0. /\ outbox \in Seq(Text \X Person) /\ inTurn \in BOOLEAN /\ apart \in BOOLEAN
      /\ calls \in 0..MaxCalls /\ deaths \in 0..MaxDeaths /\ MaxCalls \in Nat /\ MaxDeaths \in Nat
  BY InboxAssumption DEF Base, TypeOK
<1>1. CASE UNCHANGED vars
  BY <1>0, <1>1 DEF vars, Counters, Kinds
<1>2. ASSUME NEW r \in Request, BeginTriage(r)
      PROVE  Counters /\ Kinds
  <2> DEFINE c == Holding("triage", "asked", NoRow, Fresh)
  <2>1. Begin(r, c) /\ UNCHANGED outbox
    BY <1>2 DEF BeginTriage
  <2>2. Takes(r, c)
    BY <2>1, AskTakes DEF Begin
  <2>3. c.kind = "triage" /\ c.stage = "asked"
    BY DEF Holding
  <2> HIDE DEF c
  <2>4. Asks(r, c)
    BY <2>1, <2>2, <2>3, <1>0 DEF Asks, Begin
  <2> QED
    BY <1>0, <2>1, <2>4 DEF Counters, Kinds, Begin
<1>3. ASSUME NEW r \in Request, BeginDraft(r)
      PROVE  Counters /\ Kinds
  <2> DEFINE c == Holding("draft", "asked", row, Fresh)
  <2>1. Begin(r, c) /\ UNCHANGED outbox /\ (row # NoRow => row.status # "approved")
    BY <1>3 DEF BeginDraft
  <2>2. Takes(r, c)
    BY <2>1, AskTakes DEF Begin
  <2>3. c.kind = "draft" /\ c.stage = "asked" /\ c.old = row
    BY DEF Holding
  <2> HIDE DEF c
  <2>4. Asks(r, c)
    BY <2>1, <2>2, <2>3, <1>0 DEF Asks, Begin
  <2> QED
    BY <1>0, <2>1, <2>4 DEF Counters, Kinds, Begin
<1>4. ASSUME NEW r \in Request, NEW note \in BOOLEAN, BeginReject(r, note)
      PROVE  Counters /\ Kinds
  <2>1. PICK c : Rejects(r, c)
    BY <1>4, RejectDecides DEF Rejects
  <2> QED
    BY <1>0, <2>1 DEF Counters, Kinds, Rejects, Decides
<1>5. ASSUME NEW r \in Request, NEW who \in Person, BeginApprove(r, who)
      PROVE  Counters /\ Kinds
  <2>1. PICK c : /\ Decides(r, c) /\ IsApproval(c.new) /\ c.new.by = who
                 /\ outbox' = Append(outbox, <<row.body, who>>)
    BY <1>5, ApproveDecides
  <2>2. c.new.body = row.body
    BY <2>1 DEF Decides, Takes, Computed, Agree
  <2>3. row.body \in Text
    BY <2>1 DEF Base, Stays, Decides
  <2>4. Approves(r, c)
    BY <2>1, <2>2 DEF Approves
  <2>5. outbox' \in Seq(Text \X Person)
    BY <1>0, <2>1, <2>3
  <2> QED
    BY <1>0, <2>1, <2>4, <2>5 DEF Counters, Kinds, Decides
<1>6. ASSUME NEW r \in Request, NEW a \in Answer, Triage(r, a)
      PROVE  Counters /\ Kinds
  <2>1. PICK c : /\ Takes(r, c) /\ c.kind = "triage" /\ c.stage = "loaded" /\ c.old = row
                 /\ apart' = (apart /\ \A q \in Request : ~At(q, "triage", "loaded"))
                 /\ UNCHANGED <<outbox, inTurn, calls, deaths>>
    BY <1>6, TriageTakes
  <2>2. Reads(r, c)
    BY <1>6, <2>1 DEF Reads, Triage
  <2> QED
    BY <1>0, <2>1, <2>2 DEF Counters, Kinds
<1>7. ASSUME NEW r \in Request, NEW text \in Text, Draft(r, text)
      PROVE  Counters /\ Kinds
  <2>1. PICK c : /\ Takes(r, c) /\ c.kind = "draft" /\ c.stage = "loaded"
                 /\ At(r, "draft", "asked")
                 /\ c.old = IF call[r].old = NoRow THEN row ELSE call[r].old
                 /\ UNCHANGED <<outbox, inTurn, apart, calls, deaths>>
    BY <1>7, DraftTakes
  <2>2. Drafts(r, c)
    BY <2>1 DEF Drafts
  <2> QED
    BY <1>0, <2>1, <2>2 DEF Counters, Kinds
<1>8. ASSUME NEW r \in Request, Commit(r)
      PROVE  Counters /\ Kinds
  <2>1. Lands(r)
    BY <1>8, CommitWrites DEF Lands, Commit
  <2> QED
    BY <1>0, <1>8, <2>1 DEF Counters, Kinds, Commit
<1>9. ASSUME NEW r \in Request, AIFails(r)
      PROVE  Counters /\ Kinds
  <2>1. Leaves(r)
    BY <1>9 DEF Leaves, AIFails, Drop, Held
  <2> QED
    BY <1>0, <1>9, <2>1 DEF Counters, Kinds, AIFails, Drop
<1>10. ASSUME NEW r \in Request, InsertFails(r)
       PROVE  Counters /\ Kinds
  <2>1. call[r].kind # "decide"
    BY <1>10 DEF InsertFails, Base, Computed
  <2>2. Leaves(r)
    BY <1>10, <2>1 DEF Leaves, InsertFails, Drop
  <2> QED
    BY <1>0, <1>10, <2>2 DEF Counters, Kinds, InsertFails, Drop
<1>11. ASSUME NEW r \in Request, Die(r)
       PROVE  Counters /\ Kinds
  <2>1. Leaves(r)
    BY <1>11 DEF Leaves, Die, Drop
  <2> QED
    BY <1>0, <1>11, <2>1 DEF Counters, Kinds, Die, Drop
<1> QED
  BY <1>1, <1>2, <1>3, <1>4, <1>5, <1>6, <1>7, <1>8, <1>9, <1>10, <1>11 DEF Next, Step

LEMMA BaseHolds ==
  ASSUME Base, [Next]_vars
  PROVE  Base'
<1>1. Counters /\ Kinds
  BY StepKinds
<1>2. CASE UNCHANGED vars
  <2>1. UNCHANGED <<row, call>>
    BY <1>2 DEF vars
  <2>2. TypeOK'
    BY <1>1, <2>1 DEF Base, TypeOK, Counters
  <2> QED
    BY <2>1, <2>2 DEF Base, Stays, TextStays, Held
<1>3. ASSUME NEW r \in Request, NEW c,
             Asks(r, c) \/ Reads(r, c) \/ Drafts(r, c) \/ Rejects(r, c) \/ Approves(r, c)
      PROVE  Base'
  <2>1. Takes(r, c)
    BY <1>3 DEF Asks, Reads, Drafts, Rejects, Approves, Decides
  <2> QED
    BY <1>1, <2>1, TakeKeepsBase
<1>4. ASSUME NEW r \in Request, Lands(r)
      PROVE  Base'
  BY <1>1, <1>4, CommitKeepsBase DEF Lands
<1>5. ASSUME NEW r \in Request, Leaves(r)
      PROVE  Base'
  BY <1>1, <1>5, DropKeepsBase DEF Leaves
<1> QED
  BY <1>1, <1>2, <1>3, <1>4, <1>5 DEF Kinds
-----------------------------------------------------------------------------
(* What makes the reply true while requests on it come in turn: there is   *)
(* at most one, and the row still reads as it loaded it; a draft has not   *)
(* loaded an approved reply, and an approval about to be written is the    *)
(* last that was sent.                                                     *)
LoadedReply(c) ==
  /\ c.old # NoRow => Agree(row, c.old, OfReply)
  /\ c.kind = "draft" => /\ c.old # NoRow => c.old.status # "approved"
                         /\ c.old = NoRow /\ row # NoRow => row.status = "none"
  /\ c.kind = "decide" /\ c.new.status = "approved" =>
       outbox # << >> /\ outbox[Len(outbox)] = <<c.new.body, c.new.by>>

ApprovalPends ==
  \/ row # NoRow /\ row.status = "approved"
  \/ \E r \in Request : call[r].kind = "decide" /\ call[r].new.status = "approved"

ReplyInTurn ==
  inTurn => /\ \A q, r \in Request : Reply(q) /\ Reply(r) => q = r
            /\ \A r \in Request : Reply(r) => LoadedReply(call[r])
            /\ DecisionIsOfItsText
            /\ Len(outbox) <= deaths + (IF ApprovalPends THEN 1 ELSE 0)

(* What makes the reading whole while triages are apart: at most one has   *)
(* loaded the row, and the row still holds the reading it loaded.          *)
LoadedReading(c) == c.old # NoRow => Agree(row, c.old, OfReading)

ReadingApart ==
  apart => /\ \A q, r \in Request :
                At(q, "triage", "loaded") /\ At(r, "triage", "loaded") => q = r
           /\ \A r \in Request : At(r, "triage", "loaded") => LoadedReading(call[r])
           /\ row # NoRow /\ row.why # None => IsReading(row)

InboxInv == Base /\ ReplyInTurn /\ ReadingApart
LEMMA CallAfter ==
  ASSUME Base, NEW r \in Request, NEW c, call' = [call EXCEPT ![r] = c]
  PROVE  /\ call'[r] = c
         /\ \A q \in Request : q # r => call'[q] = call[q]
         /\ \A q \in Request : q # r => (Reply(q)' <=> Reply(q))
         /\ \A q \in Request : \A kind, stage : q # r => (At(q, kind, stage)' <=> At(q, kind, stage))
  BY DEF Base, TypeOK, Reply, At

(* The decision is on its text as long as the row and the outbox stay.     *)
LEMMA DecisionStays ==
  ASSUME DecisionIsOfItsText, UNCHANGED <<row, outbox>>
  PROVE  DecisionIsOfItsText'
  BY DEF DecisionIsOfItsText

(* A request on the reply begins: it is the only one.                      *)
LEMMA BeginKeepsReply ==
  ASSUME Base, ReplyInTurn, NEW r \in Request, NEW c,
         Asks(r, c) \/ Rejects(r, c) \/ Approves(r, c), c.kind # "triage"
  PROVE  ReplyInTurn'
<1> SUFFICES ASSUME inTurn' PROVE ReplyInTurn'
  BY DEF ReplyInTurn
<1>1. /\ Takes(r, c) /\ ~Held(r) /\ c.old = row
      /\ inTurn /\ \A q \in Request : ~Reply(q)
      /\ UNCHANGED deaths /\ c.kind \in {"draft", "decide"}
  BY DEF Asks, Rejects, Approves, Decides
<1>2. /\ call'[r] = c /\ \A q \in Request : q # r => call'[q] = call[q] /\ ~Reply(q)'
      /\ UNCHANGED row
  BY <1>1, CallAfter DEF Takes
<1>3. \A q, p \in Request : (Reply(q) /\ Reply(p))' => q = p
  BY <1>2
<1>4. /\ DecisionIsOfItsText
      /\ Len(outbox) <= deaths + (IF ApprovalPends THEN 1 ELSE 0)
  BY <1>1 DEF ReplyInTurn
<1>5. outbox \in Seq(Text \X Person) /\ Len(outbox) \in Nat /\ deaths \in Nat
  BY InboxAssumption DEF Base, TypeOK
<1>6. \A q \in Request : call[q].kind # "decide"
  BY <1>1 DEF Reply
<1>7. CASE UNCHANGED outbox /\ (c.kind = "decide" => c.new.status = "rejected")
          /\ (c.kind = "draft" => (row # NoRow => row.status # "approved"))
  <2>1. DecisionIsOfItsText'
    BY <1>2, <1>4, <1>7, DecisionStays
  <2>2. ApprovalPends => ApprovalPends'
    BY <1>2, <1>6 DEF ApprovalPends
  <2>3. (Len(outbox) <= deaths + (IF ApprovalPends THEN 1 ELSE 0))'
    BY <1>1, <1>4, <1>5, <1>7, <2>2
  <2>4. LoadedReply(c)'
    BY <1>1, <1>2, <1>7 DEF LoadedReply, Agree
  <2> QED
    BY <1>2, <1>3, <2>1, <2>3, <2>4 DEF ReplyInTurn
<1>8. CASE Approves(r, c)
  <2>0. row # NoRow /\ row.status = "draft" /\ c.kind = "decide" /\ c.new.status = "approved"
        /\ outbox' = Append(outbox, <<c.new.body, c.new.by>>)
    BY <1>8 DEF Approves, Decides, IsApproval
  <2>1. DecisionIsOfItsText'
    BY <1>2, <1>4, <2>0 DEF DecisionIsOfItsText
  <2>2. ~ApprovalPends
    BY <1>6, <2>0 DEF ApprovalPends
  <2>3. ApprovalPends'
    BY <1>2, <2>0 DEF ApprovalPends
  <2>4. Len(outbox') = Len(outbox) + 1 /\ outbox'[Len(outbox')] = <<c.new.body, c.new.by>>
    BY <1>5, <2>0
  <2>5. (Len(outbox) <= deaths + (IF ApprovalPends THEN 1 ELSE 0))'
    BY <1>1, <1>4, <1>5, <2>2, <2>3, <2>4
  <2>6. outbox' # << >>
    BY <1>5, <2>4
  <2>7. LoadedReply(c)'
    BY <1>1, <1>2, <2>0, <2>4, <2>6 DEF LoadedReply, Agree
  <2> QED
    BY <1>2, <1>3, <2>1, <2>5, <2>7 DEF ReplyInTurn
<1> QED
  BY <1>7, <1>8 DEF Asks, Rejects, Approves, Decides

(* A triage begins or reads, or a draft is written: nothing is committed   *)
(* and nothing is sent.                                                    *)
LEMMA StepKeepsReply ==
  ASSUME Base, ReplyInTurn, NEW r \in Request, NEW c,
         Takes(r, c), UNCHANGED <<outbox, inTurn, deaths>>,
         \/ c.kind = "triage" /\ ~Reply(r)
         \/ Drafts(r, c)
  PROVE  ReplyInTurn'
<1> SUFFICES ASSUME inTurn PROVE ReplyInTurn'
  BY DEF ReplyInTurn
<1>1. /\ call'[r] = c /\ \A q \in Request : q # r => call'[q] = call[q] /\ (Reply(q)' <=> Reply(q))
      /\ UNCHANGED row
  BY CallAfter DEF Takes
<1>2. /\ \A q, p \in Request : Reply(q) /\ Reply(p) => q = p
      /\ \A q \in Request : Reply(q) => LoadedReply(call[q])
      /\ DecisionIsOfItsText
      /\ Len(outbox) <= deaths + (IF ApprovalPends THEN 1 ELSE 0)
  BY DEF ReplyInTurn
<1>3. Reply(r)' => Reply(r) /\ c.kind = "draft"
  BY <1>1 DEF Reply, Drafts, At
<1>4. \A q, p \in Request : (Reply(q) /\ Reply(p))' => q = p
  BY <1>1, <1>2, <1>3
<1>5. DecisionIsOfItsText'
  BY <1>1, <1>2, DecisionStays
<1>6. call[r].kind # "decide"
  BY DEF Drafts, At, Reply
<1>7. ApprovalPends => ApprovalPends'
  BY <1>1, <1>6 DEF ApprovalPends
<1>8. (Len(outbox) <= deaths + (IF ApprovalPends THEN 1 ELSE 0))'
  BY <1>2, <1>7, InboxAssumption DEF Base, TypeOK
<1>9. ASSUME NEW q \in Request, Reply(q)'
      PROVE  LoadedReply(call[q])'
  <2>1. CASE q # r
    BY <1>1, <1>2, <1>9, <2>1 DEF LoadedReply, Agree
  <2>2. CASE q = r
    <3>1. LoadedReply(call[r]) /\ Drafts(r, c) /\ c.kind = "draft"
      BY <1>2, <1>3, <1>9, <2>2 DEF Reply
    <3>2. call[r].kind = "draft" /\ c.old = IF call[r].old = NoRow THEN row ELSE call[r].old
      BY <3>1 DEF Drafts, At
    <3>3. LoadedReply(c)'
      BY <1>1, <3>1, <3>2 DEF LoadedReply, Agree
    <3> QED
      BY <1>1, <2>2, <3>3
  <2> QED
    BY <2>1, <2>2
<1> QED
  BY <1>4, <1>5, <1>8, <1>9 DEF ReplyInTurn

LEMMA LeaveKeepsReply ==
  ASSUME Base, ReplyInTurn, NEW r \in Request, Leaves(r)
  PROVE  ReplyInTurn'
<1> SUFFICES ASSUME inTurn PROVE ReplyInTurn'
  BY DEF ReplyInTurn, Leaves
<1>1. /\ call'[r] = Idle /\ \A q \in Request : q # r => call'[q] = call[q] /\ (Reply(q)' <=> Reply(q))
      /\ UNCHANGED <<row, outbox>>
  BY CallAfter DEF Leaves
<1>2. /\ \A q, p \in Request : Reply(q) /\ Reply(p) => q = p
      /\ \A q \in Request : Reply(q) => LoadedReply(call[q])
      /\ DecisionIsOfItsText
      /\ Len(outbox) <= deaths + (IF ApprovalPends THEN 1 ELSE 0)
  BY DEF ReplyInTurn
<1>3. \A q \in Request : Reply(q)' => q # r /\ Reply(q) /\ call'[q] = call[q]
  BY <1>1 DEF Reply, Idle
<1>4. DecisionIsOfItsText'
  BY <1>1, <1>2, DecisionStays
<1>5. call[r].kind # "decide" => (ApprovalPends => ApprovalPends')
  BY <1>1 DEF ApprovalPends
<1>6. (Len(outbox) <= deaths + (IF ApprovalPends THEN 1 ELSE 0))'
  <2>1. Len(outbox) \in Nat /\ deaths \in Nat
    BY InboxAssumption DEF Base, TypeOK
  <2> QED
    BY <1>1, <1>2, <1>5, <2>1 DEF Leaves
<1>7. \A q \in Request : Reply(q)' => LoadedReply(call[q])'
  BY <1>1, <1>2, <1>3 DEF LoadedReply, Agree
<1> QED
  BY <1>2, <1>3, <1>4, <1>6, <1>7 DEF ReplyInTurn
(* A triage leaves the columns of the reply alone.                         *)
LEMMA TriageLandsBesideReply ==
  ASSUME Base, ReplyInTurn, NEW r \in Request, Lands(r), call[r].kind = "triage"
  PROVE  ReplyInTurn'
<1> SUFFICES ASSUME inTurn PROVE ReplyInTurn'
  BY DEF ReplyInTurn, Lands
<1> DEFINE c == call[r]
<1>1. /\ call'[r] = Idle /\ \A q \in Request : q # r => call'[q] = call[q] /\ (Reply(q)' <=> Reply(q))
      /\ UNCHANGED <<outbox, deaths>>
  BY CallAfter DEF Lands, Writes
<1>2. /\ \A q, p \in Request : Reply(q) /\ Reply(p) => q = p
      /\ \A q \in Request : Reply(q) => LoadedReply(call[q])
      /\ DecisionIsOfItsText
      /\ Len(outbox) <= deaths + (IF ApprovalPends THEN 1 ELSE 0)
  BY DEF ReplyInTurn
<1>3. \A q \in Request : Reply(q)' => q # r /\ Reply(q) /\ Held(q) /\ call'[q] = call[q]
  BY <1>1 DEF Reply, Idle, Held
<1>4. /\ Agree(c.new, RecordFor(c.old), OfReply) /\ (c.old = NoRow <=> row = NoRow)
      /\ \A k \in OfReply :
           row'[k] = IF c.old # NoRow /\ c.new[k] = c.old[k] THEN row[k] ELSE c.new[k]
  BY DEF Lands, Writes, Base, Computed
<1>5. row' # NoRow
  BY DEF Lands, Writes
<1>6. CASE row = NoRow
  <2>1. Agree(row', Fresh, OfReply)
    BY <1>4, <1>6 DEF Agree, RecordFor
  <2>2. row'.status = "none"
    BY <2>1 DEF Agree, OfReply, Fresh
  <2>3. DecisionIsOfItsText'
    BY <2>2 DEF DecisionIsOfItsText
  <2>4. ApprovalPends => ApprovalPends'
    BY <1>1, <1>6 DEF ApprovalPends
  <2>5. (Len(outbox) <= deaths + (IF ApprovalPends THEN 1 ELSE 0))'
    BY <1>1, <1>2, <2>4, InboxAssumption DEF Base, TypeOK
  <2>6. ASSUME NEW q \in Request, Reply(q)'
        PROVE  LoadedReply(call[q])'
    <3>1. LoadedReply(call[q]) /\ call'[q] = call[q] /\ call[q].old = NoRow
      BY <1>2, <1>3, <1>6, <2>6 DEF Base, Stays, TextStays
    <3>2. call[q].kind # "decide"
      BY <1>3, <2>6, <3>1 DEF Base, Computed
    <3> QED
      BY <2>2, <3>1, <3>2 DEF LoadedReply
  <2> QED
    BY <1>2, <1>3, <2>3, <2>5, <2>6 DEF ReplyInTurn
<1>7. CASE row # NoRow
  <2>1. Agree(row', row, OfReply)
    BY <1>4, <1>7 DEF Agree, RecordFor
  <2>2. /\ row'.status = row.status /\ row'.body = row.body /\ row'.by = row.by
        /\ row'.note = row.note /\ row'.recorded = row.recorded
    BY <2>1 DEF Agree, OfReply
  <2>3. DecisionIsOfItsText'
    BY <1>1, <1>2, <1>7, <2>2 DEF DecisionIsOfItsText
  <2>4. ApprovalPends => ApprovalPends'
    BY <1>1, <1>5, <2>2 DEF ApprovalPends
  <2>5. (Len(outbox) <= deaths + (IF ApprovalPends THEN 1 ELSE 0))'
    BY <1>1, <1>2, <2>4, InboxAssumption DEF Base, TypeOK
  <2>6. \A q \in Request : Reply(q)' => LoadedReply(call[q])'
    BY <1>1, <1>2, <1>3, <1>7, <2>1, <2>2 DEF LoadedReply, Agree
  <2> QED
    BY <1>2, <1>3, <2>3, <2>5, <2>6 DEF ReplyInTurn
<1> QED
  BY <1>6, <1>7

(* A request on the reply writes the columns of the reply as it has        *)
(* computed them, since they are as it loaded them.                        *)
LEMMA ReplyLandsWhole ==
  ASSUME Base, ReplyInTurn, inTurn, NEW r \in Request, Lands(r), Reply(r)
  PROVE  /\ Agree(row', call[r].new, OfReply)
         /\ row # NoRow => Agree(row, call[r].old, OfReply) /\ call[r].old # NoRow
<1>1. LoadedReply(call[r]) /\ (call[r].old = NoRow <=> row = NoRow)
  BY DEF ReplyInTurn, Lands, Writes
<1> QED
  BY <1>1 DEF LoadedReply, Agree, Lands, Writes

LEMMA ReplyLands ==
  ASSUME Base, ReplyInTurn, NEW r \in Request, Lands(r), Reply(r)
  PROVE  ReplyInTurn'
<1> SUFFICES ASSUME inTurn PROVE ReplyInTurn'
  BY DEF ReplyInTurn, Lands
<1> DEFINE c == call[r]
<1>1. /\ call'[r] = Idle /\ \A q \in Request : q # r => call'[q] = call[q] /\ (Reply(q)' <=> Reply(q))
      /\ UNCHANGED <<outbox, deaths>> /\ c.stage = "loaded" /\ row' # NoRow /\ Computed(c)
  BY CallAfter DEF Lands, Writes, Base
<1>2. /\ \A q, p \in Request : Reply(q) /\ Reply(p) => q = p
      /\ LoadedReply(c)
      /\ Len(outbox) <= deaths + (IF ApprovalPends THEN 1 ELSE 0)
  BY DEF ReplyInTurn
<1>3. \A q \in Request : ~Reply(q)'
  BY <1>1, <1>2 DEF Reply, Idle
<1>4. /\ row'.status = c.new.status /\ row'.body = c.new.body /\ row'.by = c.new.by
      /\ row'.note = c.new.note /\ row'.recorded = c.new.recorded
  BY ReplyLandsWhole DEF Agree, OfReply
<1>5. row # NoRow => row.status = c.old.status /\ c.old # NoRow
  BY ReplyLandsWhole DEF Agree, OfReply
<1>6. Len(outbox) \in Nat /\ deaths \in Nat
  BY InboxAssumption DEF Base, TypeOK
<1>7. row = NoRow \/ row.status # "approved"
  BY <1>1, <1>2, <1>5 DEF LoadedReply, Computed, Reply
<1>8. \A q \in Request : call[q].kind = "decide" => q = r
  BY <1>2 DEF Reply
<1>9. CASE c.kind = "draft"
  <2>1. IsDraft(c.new)
    BY <1>1, <1>9 DEF Computed
  <2>2. DecisionIsOfItsText'
    BY <1>4, <2>1 DEF DecisionIsOfItsText, IsDraft
  <2>3. ~ApprovalPends
    BY <1>7, <1>8, <1>9 DEF ApprovalPends
  <2> QED
    BY <1>1, <1>2, <1>3, <1>6, <2>2, <2>3 DEF ReplyInTurn
<1>10. CASE c.kind = "decide" /\ c.new.status = "rejected"
  <2>1. DecisionIsOfItsText'
    BY <1>4, <1>10 DEF DecisionIsOfItsText
  <2>2. ~ApprovalPends
    BY <1>7, <1>8, <1>10 DEF ApprovalPends
  <2> QED
    BY <1>1, <1>2, <1>3, <1>6, <2>1, <2>2 DEF ReplyInTurn
<1>11. CASE c.kind = "decide" /\ IsApproval(c.new)
  <2>1. outbox # << >> /\ outbox[Len(outbox)] = <<c.new.body, c.new.by>>
    BY <1>2, <1>11 DEF LoadedReply, IsApproval
  <2>2. row'.status = "approved" /\ row'.note = FALSE /\ row'.recorded = TRUE
    BY <1>4, <1>11 DEF IsApproval
  <2>3. DecisionIsOfItsText'
    BY <1>1, <1>4, <2>1, <2>2 DEF DecisionIsOfItsText
  <2>4. ApprovalPends'
    BY <1>1, <2>2 DEF ApprovalPends
  <2> QED
    BY <1>1, <1>2, <1>3, <1>6, <2>3, <2>4 DEF ReplyInTurn
<1> QED
  BY <1>1, <1>9, <1>10, <1>11 DEF Computed, Reply
LEMMA ReplyInTurnHolds ==
  ASSUME Base, ReplyInTurn, [Next]_vars
  PROVE  ReplyInTurn'
<1>1. CASE UNCHANGED vars
  BY <1>1 DEF vars, ReplyInTurn, Reply, LoadedReply, Agree, ApprovalPends, DecisionIsOfItsText
<1>2. ASSUME NEW r \in Request, NEW c, Asks(r, c) \/ Reads(r, c), c.kind = "triage"
      PROVE  ReplyInTurn'
  <2>1. Takes(r, c) /\ ~Reply(r) /\ UNCHANGED <<outbox, deaths>>
    BY <1>2 DEF Asks, Reads, At, Reply, Held
  <2>2. inTurn' = inTurn
    BY <1>2 DEF Asks, Reads, Base, TypeOK
  <2> QED
    BY <1>2, <2>1, <2>2, StepKeepsReply
<1>3. ASSUME NEW r \in Request, NEW c, Drafts(r, c)
      PROVE  ReplyInTurn'
  BY <1>3, StepKeepsReply DEF Drafts
<1>4. ASSUME NEW r \in Request, NEW c, Asks(r, c) \/ Rejects(r, c) \/ Approves(r, c),
             c.kind # "triage"
      PROVE  ReplyInTurn'
  BY <1>4, BeginKeepsReply
<1>5. ASSUME NEW r \in Request, Lands(r)
      PROVE  ReplyInTurn'
  <2>1. Reply(r) \/ call[r].kind = "triage"
    BY <1>5, CallFields DEF Lands, Writes, Base, Reply
  <2> QED
    BY <1>5, <2>1, ReplyLands, TriageLandsBesideReply
<1>6. ASSUME NEW r \in Request, Leaves(r)
      PROVE  ReplyInTurn'
  BY <1>6, LeaveKeepsReply
<1> QED
  BY <1>1, <1>2, <1>3, <1>4, <1>5, <1>6, StepKinds DEF Kinds, Rejects, Approves, Decides, Reads

-----------------------------------------------------------------------------
(* A step that leaves the row alone and has no triage load it.             *)
LEMMA ReadingStays ==
  ASSUME Base, ReadingApart, NEW r \in Request, NEW c,
         call' = [call EXCEPT ![r] = c], c.kind = "triage" => c.stage # "loaded",
         UNCHANGED <<row, apart>>
  PROVE  ReadingApart'
<1>1. /\ call'[r] = c /\ ~At(r, "triage", "loaded")'
      /\ \A q \in Request : q # r => call'[q] = call[q]
           /\ (At(q, "triage", "loaded")' <=> At(q, "triage", "loaded"))
  BY CallAfter DEF At
<1>2. \A q \in Request : At(q, "triage", "loaded")' => At(q, "triage", "loaded") /\ call'[q] = call[q]
  BY <1>1
<1> QED
  BY <1>2 DEF ReadingApart, LoadedReading, Agree

LEMMA ReadKeepsReading ==
  ASSUME Base, ReadingApart, NEW r \in Request, NEW c, Reads(r, c)
  PROVE  ReadingApart'
<1> SUFFICES ASSUME apart' PROVE ReadingApart'
  BY DEF ReadingApart
<1>1. /\ apart /\ \A q \in Request : ~At(q, "triage", "loaded")
      /\ UNCHANGED row /\ c.old = row
  BY DEF Reads, Takes
<1>2. /\ call'[r] = c
      /\ \A q \in Request : q # r => ~At(q, "triage", "loaded")'
  BY <1>1, CallAfter DEF Reads, Takes
<1>3. LoadedReading(c)'
  BY <1>1 DEF LoadedReading, Agree
<1> QED
  BY <1>1, <1>2, <1>3 DEF ReadingApart

(* A triage writes the reading as it has computed it, since the row holds  *)
(* the one it loaded.                                                      *)
LEMMA TriageLandsWhole ==
  ASSUME Base, ReadingApart, apart, NEW r \in Request, Lands(r), call[r].kind = "triage"
  PROVE  IsReading(row')
<1> DEFINE c == call[r]
<1>1. At(r, "triage", "loaded") /\ IsReading(c.new) /\ (c.old = NoRow <=> row = NoRow)
  BY DEF At, Lands, Writes, Base, Computed
<1>2. c.old # NoRow => Agree(row, c.old, OfReading)
  BY <1>1 DEF ReadingApart, LoadedReading
<1>3. Agree(row', c.new, OfReading)
  BY <1>2 DEF Agree, Lands, Writes
<1>4. row'.why = c.new.why /\ row'.category = c.new.category /\ row'.agreed = c.new.agreed
  BY <1>3 DEF Agree, OfReading
<1> QED
  BY <1>1, <1>4 DEF IsReading

(* Requests on the reply leave the columns of the reading alone.           *)
LEMMA ReplyLandsBesideReading ==
  ASSUME Base, NEW r \in Request, Lands(r), call[r].kind # "triage"
  PROVE  /\ row # NoRow => Agree(row', row, OfReading)
         /\ row = NoRow => row'.why = None
<1> DEFINE c == call[r]
<1>1. /\ Computed(c) /\ c.kind \in {"draft", "decide"} /\ c.stage = "loaded"
      /\ (c.old = NoRow <=> row = NoRow)
  BY CallFields DEF Lands, Writes, Base
<1>2. Agree(c.new, RecordFor(c.old), OfReading) /\ (c.old # NoRow => RecordFor(c.old) = c.old)
      /\ (c.old = NoRow => RecordFor(c.old) = Fresh)
  BY <1>1 DEF Computed, Agree, RecordFor
<1>3. row # NoRow => Agree(row', row, OfReading)
  BY <1>1, <1>2 DEF Agree, Lands, Writes
<1>4. row = NoRow => row'.why = c.new.why /\ c.new.why = Fresh.why
  BY <1>1, <1>2 DEF Agree, Lands, Writes, OfReading
<1> QED
  BY <1>3, <1>4 DEF Fresh

LEMMA LandKeepsReading ==
  ASSUME Base, ReadingApart, NEW r \in Request, Lands(r)
  PROVE  ReadingApart'
<1> SUFFICES ASSUME apart PROVE ReadingApart'
  BY DEF ReadingApart, Lands
<1> DEFINE c == call[r]
<1>1. /\ call'[r] = Idle
      /\ \A q \in Request : q # r => call'[q] = call[q]
           /\ (At(q, "triage", "loaded")' <=> At(q, "triage", "loaded"))
  BY CallAfter DEF Lands, Writes
<1>2. \A q \in Request : At(q, "triage", "loaded")' =>
        q # r /\ At(q, "triage", "loaded") /\ call'[q] = call[q] /\ Held(q)
  BY <1>1 DEF At, Idle, Held
<1>3. /\ \A q, p \in Request : At(q, "triage", "loaded") /\ At(p, "triage", "loaded") => q = p
      /\ \A q \in Request : At(q, "triage", "loaded") => LoadedReading(call[q])
      /\ row # NoRow /\ row.why # None => IsReading(row)
  BY DEF ReadingApart
<1>4. CASE c.kind = "triage"
  <2>1. At(r, "triage", "loaded")
    BY <1>4 DEF At, Lands, Writes
  <2>2. \A q \in Request : ~At(q, "triage", "loaded")'
    BY <1>2, <1>3, <2>1
  <2>3. IsReading(row')
    BY <1>4, TriageLandsWhole
  <2> QED
    BY <2>2, <2>3 DEF ReadingApart, IsReading
<1>5. CASE c.kind # "triage" /\ row = NoRow
  <2>1. row'.why = None
    BY <1>5, ReplyLandsBesideReading
  <2>2. \A q \in Request : At(q, "triage", "loaded")' => call'[q].old = NoRow
    BY <1>2, <1>5 DEF Base, Stays, TextStays
  <2> QED
    BY <1>2, <1>3, <2>1, <2>2 DEF ReadingApart, LoadedReading
<1>6. CASE c.kind # "triage" /\ row # NoRow
  <2>1. Agree(row', row, OfReading)
    BY <1>6, ReplyLandsBesideReading
  <2>2. \A q \in Request : At(q, "triage", "loaded")' => LoadedReading(call[q])'
    BY <1>2, <1>3, <2>1 DEF LoadedReading, Agree
  <2>3. row'.why = row.why /\ row'.category = row.category /\ row'.agreed = row.agreed
    BY <2>1 DEF Agree, OfReading
  <2>4. (row # NoRow /\ row.why # None => IsReading(row))'
    BY <1>3, <1>6, <2>3 DEF IsReading
  <2> QED
    BY <1>2, <1>3, <2>2, <2>4 DEF ReadingApart
<1> QED
  BY <1>4, <1>5, <1>6

LEMMA ReadingApartHolds ==
  ASSUME Base, ReadingApart, [Next]_vars
  PROVE  ReadingApart'
<1>1. CASE UNCHANGED vars
  BY <1>1 DEF vars, ReadingApart, At, LoadedReading, Agree
<1>2. ASSUME NEW r \in Request, NEW c, Asks(r, c) \/ Drafts(r, c) \/ Rejects(r, c) \/ Approves(r, c)
      PROVE  ReadingApart'
  <2>1. Takes(r, c) /\ UNCHANGED apart /\ (c.kind = "triage" => c.stage # "loaded")
    BY <1>2 DEF Asks, Drafts, Rejects, Approves, Decides
  <2> QED
    BY <2>1, ReadingStays DEF Takes
<1>3. ASSUME NEW r \in Request, NEW c, Reads(r, c)
      PROVE  ReadingApart'
  BY <1>3, ReadKeepsReading
<1>4. ASSUME NEW r \in Request, Lands(r)
      PROVE  ReadingApart'
  BY <1>4, LandKeepsReading
<1>5. ASSUME NEW r \in Request, Leaves(r)
      PROVE  ReadingApart'
  <2>1. Idle.kind # "triage"
    BY DEF Idle
  <2> QED
    BY <1>5, <2>1, ReadingStays DEF Leaves
<1> QED
  BY <1>1, <1>2, <1>3, <1>4, <1>5, StepKinds DEF Kinds

-----------------------------------------------------------------------------
LEMMA InitInbox == Init => InboxInv
<1> SUFFICES ASSUME Init PROVE InboxInv
  OBVIOUS
<1>1. \A r \in Request : call[r] = Idle
  BY DEF Init
<1>2. \A r \in Request : ~Held(r) /\ ~Reply(r) /\ ~At(r, "triage", "loaded")
  BY <1>1 DEF Held, Reply, At, Idle
<1>3. TypeOK
  BY InboxAssumption DEF Init, TypeOK
<1>4. Base
  BY <1>2, <1>3 DEF Base, Stays, Init
<1>5. outbox = << >> /\ Len(outbox) = 0 /\ row = NoRow /\ deaths = 0
  BY DEF Init
<1>6. Len(outbox) <= deaths + (IF ApprovalPends THEN 1 ELSE 0)
  BY <1>5
<1>7. ReplyInTurn
  BY <1>2, <1>5, <1>6 DEF ReplyInTurn, DecisionIsOfItsText
<1>8. ReadingApart
  BY <1>2, <1>5 DEF ReadingApart
<1> QED
  BY <1>4, <1>7, <1>8 DEF InboxInv

LEMMA InboxInvHolds == InboxInv /\ [Next]_vars => InboxInv'
  BY BaseHolds, ReplyInTurnHolds, ReadingApartHolds DEF InboxInv

THEOREM InboxInvariant == Spec => []InboxInv
  BY InitInbox, InboxInvHolds, PTL DEF Spec

(* The record keeps its type: nothing is written that a column cannot      *)
(* hold, and a reply that was decided has a text.                          *)
THEOREM InboxTypeCorrect == Spec => []TypeOK
<1>1. InboxInv => TypeOK
  BY DEF InboxInv, Base
<1> QED
  BY <1>1, InboxInvariant, PTL

(* An approved reply reads as it was sent and names who approved it, while *)
(* requests on it come in turn.                                            *)
THEOREM DecisionIsOfItsTextHolds == Spec => []DecisionIsOfItsTextInTurn
<1>1. InboxInv => DecisionIsOfItsTextInTurn
  BY DEF InboxInv, ReplyInTurn, DecisionIsOfItsTextInTurn
<1> QED
  BY <1>1, InboxInvariant, PTL

(* One reply leaves, or one more for each request that died.               *)
THEOREM SentOnceHolds == Spec => []SentOnce
<1>1. InboxInv => SentOnce
  BY InboxAssumption DEF InboxInv, ReplyInTurn, SentOnce, Base, TypeOK
<1> QED
  BY <1>1, InboxInvariant, PTL

(* The category shown is the one its reasoning argues for.                 *)
THEOREM ReadingIsWholeHolds == Spec => []ReadingIsWhole
<1>1. InboxInv => ReadingIsWhole
  BY DEF InboxInv, ReadingApart, ReadingIsWhole, IsReading
<1> QED
  BY <1>1, InboxInvariant, PTL

(* Nothing drafts over an approved reply: no column of it changes.         *)
THEOREM ApprovedIsFinalHolds == Spec => ApprovedIsFinal
<1>1. ASSUME InboxInv, [Next]_vars, inTurn, row # NoRow, row.status = "approved"
      PROVE  Agree(row', row, OfReply)
  <2>1. CASE UNCHANGED row
    BY <2>1 DEF Agree
  <2>2. ASSUME NEW r \in Request, Lands(r)
        PROVE  Agree(row', row, OfReply)
    <3>1. CASE Reply(r)
      <4>1. Agree(row, call[r].old, OfReply) /\ call[r].old # NoRow
        BY <1>1, <2>2, <3>1, ReplyLandsWhole DEF InboxInv
      <4>2. call[r].old.status = "approved"
        BY <1>1, <4>1 DEF Agree, OfReply
      <4>3. LoadedReply(call[r]) /\ Computed(call[r])
        BY <1>1, <2>2, <3>1 DEF InboxInv, ReplyInTurn, Base, Lands, Writes
      <4> QED
        BY <3>1, <4>1, <4>2, <4>3 DEF LoadedReply, Computed, Reply
    <3>2. CASE ~Reply(r)
      <4>1. call[r].kind = "triage" /\ Computed(call[r]) /\ call[r].stage = "loaded"
            /\ call[r].old # NoRow
        BY <1>1, <2>2, <3>2, CallFields DEF InboxInv, Base, Lands, Writes, Reply
      <4>2. Agree(call[r].new, call[r].old, OfReply)
        BY <4>1 DEF Computed, RecordFor
      <4> QED
        BY <2>2, <4>1, <4>2 DEF Agree, Lands, Writes
    <3> QED
      BY <3>1, <3>2
  <2> QED
    BY <1>1, <2>1, <2>2, StepKinds
    DEF InboxInv, Kinds, Asks, Reads, Drafts, Rejects, Approves, Decides, Takes, Leaves, vars
<1>2. InboxInv /\ [Next]_vars =>
        [inTurn /\ row # NoRow /\ row.status = "approved" =>
           \A k \in {"status", "body", "by", "note", "recorded"} : row'[k] = row[k]]_row
  BY <1>1 DEF Agree, OfReply
<1> QED
  BY <1>2, InboxInvariant, PTL DEF Spec, ApprovedIsFinal
=============================================================================
