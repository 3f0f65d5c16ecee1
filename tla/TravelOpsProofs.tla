-------------------------- MODULE TravelOpsProofs ---------------------------
(***************************************************************************)
(* No message about an incident leaves unapproved, for any number of       *)
(* requests, people, bookings and communications, whatever requests        *)
(* overlap, fail or die.                                                   *)
(*                                                                         *)
(* SendsWereApproved does not say why the rows a closing request looks at  *)
(* may be sent.  TravelInv adds that: a row is approved only after         *)
(* somebody asked for its approval, and so is the row a request has on its *)
(* way to the commit.                                                      *)
(*                                                                         *)
(* That an incident closes with its last decision, while requests come one *)
(* at a time, needs TurnInv: at most one request is under way (OneHeld),   *)
(* between requests the incident is closed exactly if every draft is       *)
(* decided (Settled), and what the one request has read or done still fits *)
(* what is stored (Fits).                                                  *)
(*                                                                         *)
(* That no draft waits behind a resolved incident needs less: only that    *)
(* no assessment overlaps a decision.  ApartInv says that requests under   *)
(* way are then of one kind (OneKind); that the status an assessment has   *)
(* loaded is the stored one or another assessment has opened the incident  *)
(* since; and that a request about to close the incident has seen every    *)
(* draft but its own decided, which only another assessment could undo.    *)
(***************************************************************************)
EXTENDS TravelOps, TLAPS

DecideFields == {"kind", "stage", "inc", "comm", "who", "yes", "after", "records"}
AssessFields == {"kind", "stage", "inc", "found", "old", "new"}

IsDecide(c) ==
  /\ c.kind = "decide" /\ DOMAIN c = DecideFields
  /\ c.stage \in {"read", "flushed", "looked"} /\ c.comm \in Comm /\ c.who \in Approver
IsAssess(c) == c.kind = "assess" /\ DOMAIN c = AssessFields
IsCall(c) == IsDecide(c) \/ IsAssess(c) \/ c = Idle

(* A request that approves has been asked to.                              *)
Backed(c, asked) == c.kind = "decide" /\ c.yes => <<c.comm, c.who>> \in asked

DeciderSaid == \A r \in Request : Backed(call[r], said)

(* A row that is locked is not deleted.                                    *)
LockedExists == \A r \in Request :
  call[r].kind = "decide" /\ call[r].stage # "read" => comms[call[r].comm] # NoRow

ApprovedWasSaid == \A c \in Comm :
  comms[c] # NoRow /\ comms[c].status = "approved" => \E who \in Approver : <<c, who>> \in said

StoreType ==
  /\ comms \in [Comm -> Row \cup {NoRow}]
  /\ outbox \in [Comm -> Seq(Approver)]
  /\ DOMAIN call = Request
  /\ \A r \in Request : IsCall(call[r])

TravelInv == StoreType /\ DeciderSaid /\ LockedExists /\ ApprovedWasSaid /\ SendsWereApproved

-----------------------------------------------------------------------------
LEMMA RowIsNotNoRow == NoRow \notin Row
  BY TravelAssumption DEF Row, Approver

LEMMA RowFields ==
  ASSUME NEW row \in Row
  PROVE  /\ DOMAIN row = {"agent", "status", "by", "recorded"}
         /\ row.recorded \in BOOLEAN /\ row.agent \in Booking /\ row.by \in Approver
         /\ row.status \in {"draft", "approved", "rejected"}
  BY DEF Row

(* The two updates of a row.                                               *)
LEMMA DecidedRow ==
  ASSUME NEW row \in Row, NEW st \in {"approved", "rejected"}, NEW by \in Approver,
         NEW rec \in BOOLEAN, NEW new,
         new = [row EXCEPT !.status = st, !.by = by, !.recorded = rec]
  PROVE  new \in Row /\ new.status = st
  BY DEF Row

LEMMA RecordedRow ==
  ASSUME NEW row \in Row
  PROVE  LET new == [row EXCEPT !.recorded = TRUE]
         IN new \in Row /\ new.status = row.status
  BY DEF Row

LEMMA IdleIsCall == IsCall(Idle) /\ Idle.kind # "decide" /\ \A asked : Backed(Idle, asked)
  BY DEF IsCall, Idle, Backed

LEMMA InitTravel == Init => TravelInv
  <1> SUFFICES ASSUME Init PROVE TravelInv
    OBVIOUS
  <1>1. /\ comms = [c \in Comm |-> NoRow] /\ call = [r \in Request |-> Idle]
        /\ outbox = [c \in Comm |-> << >>]
    BY DEF Init
  <1>2. StoreType
    BY <1>1 DEF StoreType, IsCall
  <1>3. DeciderSaid /\ LockedExists
    BY <1>1, IdleIsCall DEF DeciderSaid, LockedExists
  <1>4. ApprovedWasSaid /\ SendsWereApproved
    BY <1>1 DEF ApprovedWasSaid, SendsWereApproved
  <1>5. QED
    BY <1>2, <1>3, <1>4 DEF TravelInv

(* A step that leaves rows and outbox alone and puts a good call in one    *)
(* place.                                                                  *)
LEMMA CallChanges ==
  ASSUME TravelInv, NEW r \in Request, NEW c,
         call' = [call EXCEPT ![r] = c], IsCall(c),
         comms' = comms, outbox' = outbox, said \subseteq said',
         Backed(c, said'),
         c.kind = "decide" /\ c.stage # "read" => comms[c.comm] # NoRow
  PROVE  TravelInv'
  <1>1. /\ call'[r] = c /\ DOMAIN call' = Request
        /\ \A q \in Request \ {r} : call'[q] = call[q]
    BY DEF TravelInv, StoreType
  <1>2. StoreType'
    BY <1>1 DEF TravelInv, StoreType, IsCall, IsDecide, IsAssess
  <1>3. DeciderSaid'
    <2>1. \A q \in Request \ {r} : Backed(call[q], said')
      BY DEF TravelInv, DeciderSaid, Backed
    <2>2. QED
      BY <1>1, <2>1 DEF DeciderSaid
  <1>4. LockedExists'
    BY <1>1 DEF TravelInv, LockedExists
  <1>5. ApprovedWasSaid' /\ SendsWereApproved'
    BY DEF TravelInv, ApprovedWasSaid, SendsWereApproved
  <1>6. QED
    BY <1>2, <1>3, <1>4, <1>5 DEF TravelInv

LEMMA DropPreserves ==
  ASSUME TravelInv, NEW r \in Request, Drop(r)
  PROVE  TravelInv'
  BY IdleIsCall, CallChanges DEF Drop

LEMMA BeginAssessPreserves ==
  ASSUME TravelInv, NEW r \in Request, BeginAssess(r)
  PROVE  TravelInv'
  <1> DEFINE c == [kind |-> "assess", stage |-> "asked", inc |-> incident,
                   found |-> Affected(incident.affected), old |-> {}, new |-> {}]
  <1>1. /\ call' = [call EXCEPT ![r] = c] /\ comms' = comms /\ outbox' = outbox /\ said' = said
    BY DEF BeginAssess, Begin
  <1>2. IsCall(c) /\ c.kind # "decide"
    BY DEF IsCall, IsAssess, AssessFields
  <1> HIDE DEF c
  <1>4. Backed(c, said')
    BY <1>2 DEF Backed
  <1>5. QED
    BY <1>1, <1>2, <1>4, CallChanges

LEMMA BeginDecidePreserves ==
  ASSUME TravelInv, NEW r \in Request, NEW m \in Comm, NEW who \in Approver, NEW yes \in BOOLEAN,
         BeginDecide(r, m, who, yes)
  PROVE  TravelInv'
  <1> DEFINE c == [kind |-> "decide", stage |-> "read", inc |-> incident, comm |-> m,
                   who |-> who, yes |-> yes, after |-> incident, records |-> {}]
  <1>1. /\ call' = [call EXCEPT ![r] = c] /\ comms' = comms /\ outbox' = outbox
        /\ said \subseteq said'
        /\ yes = TRUE => <<m, who>> \in said'
    BY DEF BeginDecide, Begin
  <1>2. IsCall(c) /\ c.comm = m /\ c.who = who /\ c.stage = "read"
    BY DEF IsCall, IsDecide, DecideFields
  <1>3. c.yes => <<c.comm, c.who>> \in said'
    <2>1. CASE yes = TRUE
      <3>1. <<m, who>> \in said'
        BY <1>1, <2>1, Zenon
      <3>2. <<c.comm, c.who>> = <<m, who>>
        OBVIOUS
      <3> HIDE DEF c
      <3>3. QED
        BY <3>1, <3>2
    <2>2. CASE yes = FALSE
      BY <2>2
    <2>3. QED
      BY <2>1, <2>2
  <1> HIDE DEF c
  <1>4. Backed(c, said') /\ c.stage = "read"
    BY <1>2, <1>3 DEF Backed
  <1>5. call' = [call EXCEPT ![r] = c] /\ IsCall(c)
    BY <1>1, <1>2
  <1>6. comms' = comms /\ outbox' = outbox /\ said \subseteq said'
    BY <1>1
  <1>7. QED
    BY <1>4, <1>5, <1>6, CallChanges

(* What a request holds at a stage of its handler.                         *)
LEMMA HeldCall ==
  ASSUME TravelInv, NEW r \in Request
  PROVE  /\ call[r].kind = "decide" => IsDecide(call[r])
         /\ call[r].kind = "assess" => IsAssess(call[r])
  BY DEF TravelInv, StoreType, IsCall, IsDecide, IsAssess, Idle

LEMMA StaysBacked ==
  ASSUME TravelInv, NEW r \in Request, call[r].kind = "decide", NEW c,
         c.comm = call[r].comm, c.who = call[r].who, c.yes = call[r].yes
  PROVE  Backed(c, said)
  BY DEF TravelInv, DeciderSaid, Backed

LEMMA DraftPreserves ==
  ASSUME TravelInv, NEW r \in Request, Draft(r)
  PROVE  TravelInv'
  <1>1. PICK new : /\ call' = [call EXCEPT ![r].stage = "drafted", ![r].old = Rows, ![r].new = new]
                   /\ comms' = comms /\ outbox' = outbox /\ said' = said
    BY DEF Draft
  <1> DEFINE c == [call[r] EXCEPT !.stage = "drafted", !.old = Rows, !.new = new]
  <1>2. IsAssess(call[r]) /\ DOMAIN call = Request
    BY HeldCall DEF Draft, At, TravelInv, StoreType
  <1>3. call' = [call EXCEPT ![r] = c]
    BY <1>1, <1>2
  <1>4. IsAssess(c)
    BY <1>2 DEF IsAssess, AssessFields
  <1>5. c.kind # "decide" /\ IsCall(c)
    BY <1>4 DEF IsAssess, IsCall
  <1> HIDE DEF c
  <1>6. Backed(c, said')
    BY <1>5 DEF Backed
  <1>7. QED
    BY <1>1, <1>3, <1>5, <1>6, CallChanges

LEMMA FlushPreserves ==
  ASSUME TravelInv, NEW r \in Request, Flush(r)
  PROVE  TravelInv'
  <1> DEFINE c == [call[r] EXCEPT !.stage = "flushed"]
  <1>1. /\ call' = [call EXCEPT ![r].stage = "flushed"]
        /\ comms' = comms /\ outbox' = outbox /\ said' = said /\ comms[call[r].comm] # NoRow
    BY DEF Flush
  <1>2. IsDecide(call[r]) /\ DOMAIN call = Request
    BY HeldCall DEF Flush, At, TravelInv, StoreType
  <1>3. call' = [call EXCEPT ![r] = c]
    BY <1>1, <1>2
  <1>4. /\ IsDecide(c) /\ c.comm = call[r].comm /\ c.who = call[r].who /\ c.yes = call[r].yes
    BY <1>2 DEF IsDecide, DecideFields
  <1> HIDE DEF c
  <1>5. Backed(c, said') /\ IsCall(c)
    BY <1>1, <1>2, <1>4, StaysBacked DEF IsDecide, IsCall
  <1>6. QED
    BY <1>1, <1>3, <1>4, <1>5, CallChanges

(* The new rows are drafts, and no locked row is removed.                  *)
LEMMA CommitAssessPreserves ==
  ASSUME TravelInv, NEW r \in Request, CommitAssess(r)
  PROVE  TravelInv'
  <1> DEFINE new == call[r].new
             old == call[r].old
             Fresh(c) == \E b \in Booking : <<c, b>> \in new
  <1>1. /\ \A c \in old : Locked(c) = {}
        /\ comms' = [c \in Comm |-> IF Fresh(c) THEN Drafted(new, c)
                                    ELSE IF c \in old THEN NoRow ELSE comms[c]]
        /\ call' = [call EXCEPT ![r] = Idle] /\ outbox' = outbox /\ said' = said
    BY DEF CommitAssess
  <1>2. ASSUME NEW c \in Comm, Fresh(c)
        PROVE  Drafted(new, c) \in Row /\ Drafted(new, c).status = "draft"
    <2>1. (CHOOSE a \in Booking : <<c, a>> \in new) \in Booking
      BY <1>2
    <2>2. QED
      BY <2>1 DEF Drafted, Row, Approver
  <1> HIDE DEF new, old, Fresh
  <1>3. \A c \in Comm : \/ comms'[c] \in Row /\ comms'[c].status = "draft"
                        \/ c \in old /\ comms'[c] = NoRow
                        \/ comms'[c] = comms[c]
    BY <1>1, <1>2
  <1>4. /\ call'[r] = Idle /\ DOMAIN call' = Request
        /\ \A q \in Request \ {r} : call'[q] = call[q]
    BY <1>1 DEF TravelInv, StoreType
  <1>5. StoreType'
    <2>1. DOMAIN comms' = Comm /\ comms' = [c \in Comm |-> comms'[c]]
      BY <1>1
    <2>2. \A c \in Comm : comms'[c] \in Row \cup {NoRow}
      BY <1>3 DEF TravelInv, StoreType
    <2>3. QED
      BY <1>1, <1>4, <2>1, <2>2 DEF TravelInv, StoreType, IsCall, IsDecide, IsAssess
  <1>6. DeciderSaid'
    BY <1>1, <1>4, IdleIsCall DEF TravelInv, DeciderSaid
  <1>7. LockedExists'
    <2> SUFFICES ASSUME NEW q \in Request \ {r}, call[q].kind = "decide", call[q].stage # "read"
                 PROVE  comms'[call[q].comm] # NoRow
      BY <1>4, IdleIsCall DEF LockedExists
    <2>1. call[q].comm \in Comm /\ comms[call[q].comm] # NoRow
      BY HeldCall DEF TravelInv, LockedExists, IsDecide
    <2>2. call[q].comm \notin old
      BY <1>1, HeldCall DEF Locked, At, IsDecide
    <2>3. QED
      BY <1>3, <2>1, <2>2, RowIsNotNoRow
  <1>8. ApprovedWasSaid'
    BY <1>1, <1>3 DEF TravelInv, ApprovedWasSaid
  <1>9. SendsWereApproved'
    BY <1>1 DEF TravelInv, SendsWereApproved
  <1>10. QED
    BY <1>5, <1>6, <1>7, <1>8, <1>9 DEF TravelInv

(* A row that the request sees as approved has had its approval asked for. *)
LEMMA SeenWasSaid ==
  ASSUME TravelInv, NEW r \in Request, At(r, "decide", "flushed"), NEW c \in SeenIn(r, "approved")
  PROVE  c \in Comm /\ \E who \in Approver : <<c, who>> \in said
  <1>1. c \in Comm /\ comms[c] # NoRow /\ Seen(r, c).status = "approved"
    BY DEF SeenIn, Rows
  <1>2. CASE c # call[r].comm
    BY <1>1, <1>2 DEF Seen, TravelInv, ApprovedWasSaid
  <1>3. CASE c = call[r].comm
    <2>1. comms[c] \in Row
      BY <1>1 DEF TravelInv, StoreType
    <2>2. DOMAIN comms[c] = {"agent", "status", "by", "recorded"}
      BY <2>1, RowFields
    <2>3. Own(r).status = IF call[r].yes THEN "approved" ELSE "rejected"
      BY <1>3, <2>2 DEF Own
    <2>4. call[r].yes
      BY <1>1, <1>3, <2>3 DEF Seen
    <2>5. Backed(call[r], said) /\ IsDecide(call[r])
      BY HeldCall DEF At, TravelInv, DeciderSaid
    <2>6. QED
      BY <1>1, <1>3, <2>4, <2>5 DEF Backed, IsDecide
  <1>4. QED
    BY <1>2, <1>3

LEMMA LookPreserves ==
  ASSUME TravelInv, NEW r \in Request, Look(r)
  PROVE  TravelInv'
  <1>1. /\ At(r, "decide", "flushed") /\ IsDecide(call[r]) /\ DOMAIN call = Request
        /\ comms' = comms /\ said' = said
    BY HeldCall DEF Look, At, TravelInv, StoreType
  <1>2. comms[call[r].comm] # NoRow
    BY <1>1 DEF TravelInv, LockedExists, At
  <1>3. CASE LeavesOpen(r)
    <2> DEFINE c == [call[r] EXCEPT !.stage = "looked"]
    <2>1. call' = [call EXCEPT ![r] = c] /\ outbox' = outbox
      BY <1>1, <1>3 DEF LeavesOpen
    <2>2. IsDecide(c) /\ c.comm = call[r].comm /\ c.who = call[r].who /\ c.yes = call[r].yes
      BY <1>1 DEF IsDecide, DecideFields
    <2> HIDE DEF c
    <2>3. Backed(c, said') /\ IsCall(c)
      BY <1>1, <2>2, StaysBacked DEF IsDecide, IsCall
    <2>4. QED
      BY <1>1, <1>2, <2>1, <2>2, <2>3, CallChanges
  <1>4. CASE ClosesWithoutRun(r)
    <2> DEFINE c == [call[r] EXCEPT !.stage = "looked", !.after.status = "resolved"]
    <2>1. call' = [call EXCEPT ![r] = c] /\ outbox' = outbox
      BY <1>1, <1>4 DEF ClosesWithoutRun
    <2>2. IsDecide(c) /\ c.comm = call[r].comm /\ c.who = call[r].who /\ c.yes = call[r].yes
      BY <1>1 DEF IsDecide, DecideFields
    <2> HIDE DEF c
    <2>3. Backed(c, said') /\ IsCall(c)
      BY <1>1, <2>2, StaysBacked DEF IsDecide, IsCall
    <2>4. QED
      BY <1>1, <1>2, <2>1, <2>2, <2>3, CallChanges
  <1>5. CASE ClosesOut(r)
    <2> DEFINE yes == SeenIn(r, "approved") # {}
               records == IF yes THEN ToRecord(r) ELSE {}
               after == [call[r].after EXCEPT !.status = "resolved",
                           !.run = [status |-> "done", by |-> call[r].who, yes |-> yes]]
               c == [call[r] EXCEPT !.stage = "looked", !.records = records, !.after = after]
    <2>1. /\ call' = [call EXCEPT ![r] = c] /\ call[r].who # Blank
          /\ outbox' = [m \in Comm |-> IF m \in records THEN Append(outbox[m], call[r].who)
                                       ELSE outbox[m]]
      BY <1>1, <1>5 DEF ClosesOut, IsDecide, DecideFields
    <2>2. records \subseteq SeenIn(r, "approved")
      BY DEF ToRecord
    <2> HIDE DEF records, after
    <2>3. IsDecide(c) /\ c.comm = call[r].comm /\ c.who = call[r].who /\ c.yes = call[r].yes
      BY <1>1 DEF IsDecide, DecideFields
    <2> HIDE DEF c, yes
    <2>4. call[r].who \in Person
      BY <1>1, <2>1 DEF IsDecide, Approver
    <2>5. \A m \in records : \E who \in Approver : <<m, who>> \in said
      BY <1>1, <2>2, SeenWasSaid
    <2>6. /\ call'[r] = c /\ DOMAIN call' = Request
          /\ \A q \in Request \ {r} : call'[q] = call[q]
      BY <1>1, <2>1
    <2>7. outbox \in [Comm -> Seq(Approver)] /\ Person \subseteq Approver
      BY DEF TravelInv, StoreType, Approver
    <2>8. StoreType'
      <3>1. outbox' \in [Comm -> Seq(Approver)]
        BY <2>1, <2>4, <2>7
      <3>2. \A q \in Request : IsCall(call'[q])
        BY <2>3, <2>6 DEF IsCall, TravelInv, StoreType
      <3>3. QED
        BY <1>1, <2>6, <3>1, <3>2 DEF TravelInv, StoreType, IsCall, IsDecide, IsAssess
    <2>9. DeciderSaid' /\ LockedExists'
      <3>1. Backed(c, said)
        BY <1>1, <2>3, StaysBacked DEF IsDecide
      <3>2. DeciderSaid'
        BY <1>1, <2>6, <3>1 DEF TravelInv, DeciderSaid
      <3>3. LockedExists'
        BY <1>1, <1>2, <2>3, <2>6 DEF TravelInv, LockedExists
      <3>4. QED
        BY <3>2, <3>3
    <2>10. ApprovedWasSaid'
      BY <1>1 DEF TravelInv, ApprovedWasSaid
    <2>11. SendsWereApproved'
      <3> SUFFICES ASSUME NEW m \in Comm, NEW i \in DOMAIN outbox'[m]
                   PROVE  outbox'[m][i] \in Person /\ \E who \in Approver : <<m, who>> \in said
        BY <1>1 DEF SendsWereApproved
      <3>1. CASE m \notin records
        BY <2>1, <3>1 DEF TravelInv, SendsWereApproved
      <3>2. CASE m \in records
        <4>1. outbox[m] \in Seq(Approver) /\ outbox'[m] = Append(outbox[m], call[r].who)
          BY <2>1, <2>7, <3>2
        <4>2. \/ i \in DOMAIN outbox[m] /\ outbox'[m][i] = outbox[m][i]
              \/ outbox'[m][i] = call[r].who
          BY <2>4, <2>7, <4>1
        <4>3. QED
          BY <2>4, <2>5, <3>2, <4>2 DEF TravelInv, SendsWereApproved
      <3>3. QED
        BY <3>1, <3>2
    <2>12. QED
      BY <2>8, <2>9, <2>10, <2>11 DEF TravelInv
  <1>6. QED
    BY <1>3, <1>4, <1>5 DEF Look

LEMMA CommitDecidePreserves ==
  ASSUME TravelInv, NEW r \in Request, CommitDecide(r)
  PROVE  TravelInv'
  <1> DEFINE m == call[r].comm
             records == call[r].records
             st == IF call[r].yes THEN "approved" ELSE "rejected"
             mine == [comms[m] EXCEPT !.status = st, !.by = call[r].who,
                                      !.recorded = @ \/ m \in records]
  <1>1. /\ \A c \in records : comms[c] # NoRow
        /\ comms' = [c \in Comm |-> IF c = m THEN mine
                                    ELSE IF c \in records THEN [comms[c] EXCEPT !.recorded = TRUE]
                                    ELSE comms[c]]
        /\ call' = [call EXCEPT ![r] = Idle] /\ outbox' = outbox /\ said' = said
    BY DEF CommitDecide
  <1>2. /\ IsDecide(call[r]) /\ m \in Comm /\ comms[m] # NoRow /\ comms[m] \in Row
        /\ call[r].who \in Approver
        /\ Backed(call[r], said)
    BY HeldCall DEF CommitDecide, At, TravelInv, StoreType, LockedExists, DeciderSaid, IsDecide
  <1>3. mine \in Row /\ mine.status = st
    <2>1. (comms[m].recorded \/ m \in records) \in BOOLEAN
      OBVIOUS
    <2>2. mine = [comms[m] EXCEPT !.status = st, !.by = call[r].who,
                                  !.recorded = comms[m].recorded \/ m \in records]
      OBVIOUS
    <2>3. st \in {"approved", "rejected"}
      OBVIOUS
    <2> DEFINE row == comms[m]
               rec == row.recorded \/ m \in records
    <2>4. row \in Row /\ rec \in BOOLEAN /\ call[r].who \in Approver
      BY <1>2, <2>1
    <2>5. mine = [row EXCEPT !.status = st, !.by = call[r].who, !.recorded = rec]
      BY <2>2
    <2> HIDE DEF m, records, st, row, rec, mine
    <2> DEFINE by == call[r].who
    <2>6. by \in Approver
      BY <2>4
    <2>7. mine = [row EXCEPT !.status = st, !.by = by, !.recorded = rec]
      BY <2>5
    <2> HIDE DEF by
    <2>8. QED
      BY <2>3, <2>4, <2>6, <2>7, DecidedRow
  <1> HIDE DEF mine, records
  <1>4. \A c \in Comm : \/ c = m /\ comms'[c] = mine
                        \/ /\ comms[c] \in Row /\ comms'[c] \in Row
                           /\ comms'[c].status = comms[c].status
                        \/ comms'[c] = comms[c]
    <2> SUFFICES ASSUME NEW c \in Comm, c # m, c \in records
                 PROVE  comms[c] \in Row /\ comms'[c] \in Row /\ comms'[c].status = comms[c].status
      BY <1>1
    <2>1. comms[c] \in Row
      BY <1>1 DEF TravelInv, StoreType
    <2>2. comms'[c] = [comms[c] EXCEPT !.recorded = TRUE]
      BY <1>1
    <2>3. QED
      BY <2>1, <2>2, RecordedRow
  <1>5. /\ call'[r] = Idle /\ DOMAIN call' = Request
        /\ \A q \in Request \ {r} : call'[q] = call[q]
    BY <1>1 DEF TravelInv, StoreType
  <1>6. StoreType'
    <2>1. DOMAIN comms' = Comm /\ comms' = [c \in Comm |-> comms'[c]]
      BY <1>1
    <2>2. \A c \in Comm : comms'[c] \in Row \cup {NoRow}
      BY <1>3, <1>4 DEF TravelInv, StoreType
    <2>3. QED
      BY <1>1, <1>5, <2>1, <2>2 DEF TravelInv, StoreType, IsCall, IsDecide, IsAssess
  <1>7. DeciderSaid'
    BY <1>1, <1>5, IdleIsCall DEF TravelInv, DeciderSaid
  <1>8. LockedExists'
    <2> SUFFICES ASSUME NEW q \in Request \ {r}, call[q].kind = "decide", call[q].stage # "read"
                 PROVE  comms'[call[q].comm] # NoRow
      BY <1>5, IdleIsCall DEF LockedExists
    <2>1. call[q].comm \in Comm /\ comms[call[q].comm] # NoRow
      BY HeldCall DEF TravelInv, LockedExists, IsDecide
    <2>2. QED
      BY <1>3, <1>4, <2>1, RowIsNotNoRow
  <1>9. ApprovedWasSaid'
    <2> SUFFICES ASSUME NEW c \in Comm, comms'[c] # NoRow, comms'[c].status = "approved"
                 PROVE  \E who \in Approver : <<c, who>> \in said
      BY <1>1 DEF ApprovedWasSaid
    <2>1. CASE c = m /\ comms'[c] = mine
      <3>1. call[r].yes
        BY <1>3, <2>1
      <3>2. QED
        BY <1>2, <2>1, <3>1 DEF Backed, IsDecide
    <2>2. CASE comms[c] \in Row /\ comms'[c].status = comms[c].status
      BY <2>2, RowIsNotNoRow DEF TravelInv, ApprovedWasSaid
    <2>3. CASE comms'[c] = comms[c]
      BY <2>3 DEF TravelInv, ApprovedWasSaid
    <2>4. QED
      BY <1>4, <2>1, <2>2, <2>3
  <1>10. SendsWereApproved'
    BY <1>1 DEF TravelInv, SendsWereApproved
  <1>11. QED
    BY <1>6, <1>7, <1>8, <1>9, <1>10 DEF TravelInv

LEMMA TravelStep == TravelInv /\ [Next]_vars => TravelInv'
  <1> SUFFICES ASSUME TravelInv, [Next]_vars PROVE TravelInv'
    OBVIOUS
  <1>1. CASE UNCHANGED vars
    <2>1. comms' = comms /\ outbox' = outbox /\ said' = said /\ call' = call
      BY <1>1 DEF vars
    <2>2. QED
      BY <2>1 DEF TravelInv, StoreType, DeciderSaid, LockedExists, ApprovedWasSaid,
                  SendsWereApproved, IsCall, IsDecide, IsAssess
  <1>2. CASE Redeploy
    <2>1. comms' = comms /\ outbox' = outbox /\ said' = said /\ call' = call
      BY <1>2 DEF Redeploy
    <2>2. QED
      BY <2>1 DEF TravelInv, StoreType, DeciderSaid, LockedExists, ApprovedWasSaid,
                  SendsWereApproved, IsCall, IsDecide, IsAssess
  <1>3. ASSUME NEW r \in Request, BeginAssess(r) PROVE TravelInv'
    BY <1>3, BeginAssessPreserves
  <1>4. ASSUME NEW r \in Request, NEW c \in Comm, NEW who \in Approver, NEW yes \in BOOLEAN,
               BeginDecide(r, c, who, yes)
        PROVE  TravelInv'
    BY <1>4, BeginDecidePreserves
  <1>5. ASSUME NEW r \in Request, Step(r) PROVE TravelInv'
    <2>1. CASE AssessFails(r) \/ DecideFails(r)
      BY <2>1, DropPreserves DEF AssessFails, DecideFails
    <2>2. QED
      BY <1>5, <2>1, DraftPreserves, CommitAssessPreserves, FlushPreserves, LookPreserves,
         CommitDecidePreserves DEF Step
  <1>6. ASSUME NEW r \in Request, Die(r) PROVE TravelInv'
    BY <1>6, DropPreserves DEF Die
  <1>7. QED
    BY <1>1, <1>2, <1>3, <1>4, <1>5, <1>6 DEF Next

(* The code behaviour: the record node of the travel workflow sends only   *)
(* what somebody approved, and under the name of a person.                 *)
THEOREM NothingLeavesUnapproved == Spec => []SendsWereApproved
  <1>1. TravelInv => SendsWereApproved
    BY DEF TravelInv
  <1>2. QED
    BY <1>1, InitTravel, TravelStep, PTL DEF Spec

-----------------------------------------------------------------------------
(***************************************************************************)
(* While no two requests overlap, an incident whose drafts are decided is  *)
(* closed out, and a closed one has no draft left.                         *)
(*                                                                         *)
(* Neither says why a decision on the last draft finds a run to resume.    *)
(* TurnInv adds it: a draft is there only while the run waits, and what    *)
(* the one request under way has loaded is what is stored.                 *)
(***************************************************************************)
DraftsWait ==
  \A m \in Rows : comms[m].status = "draft" =>
    incident.status # "resolved" /\ incident.run.status = "awaiting"

ClosedWhenDecided ==
  Rows # {} /\ (\A m \in Rows : Decided(m)) =>
    /\ incident.status = "resolved" /\ incident.run.status = "done"
    /\ \A m \in Rows : comms[m].status = "approved" => comms[m].recorded

OtherDrafts(c) == {m \in Rows \ {c.comm} : comms[m].status = "draft"}

(* What a request that has looked is about to write.                       *)
Closes(c) ==
  IF OtherDrafts(c) = {}
  THEN /\ c.after.status = "resolved" /\ c.after.run \in Run /\ c.after.run.status = "done"
       /\ c.yes => c.comm \in c.records
       /\ \A m \in Rows \ {c.comm} :
            comms[m].status = "approved" /\ ~comms[m].recorded => m \in c.records
  ELSE c.after = incident /\ c.records = {}

AssessFits(c) ==
  /\ c.inc = incident /\ c.found \subseteq Booking
  /\ c.stage = "drafted" => \E m \in Comm, b \in Booking : <<m, b>> \in c.new

DecideFits(c) ==
  /\ c.inc = incident /\ c.comm \in Rows /\ comms[c.comm].status = "draft"
  /\ c.stage # "looked" => c.after = incident /\ c.records = {}
  /\ c.stage = "looked" => Closes(c)

Fits(c) == (c.kind = "assess" => AssessFits(c)) /\ (c.kind = "decide" => DecideFits(c))

OneHeld == \A r, q \in Request : Held(r) /\ Held(q) => r = q

Settled ==
  /\ data \in Datasets /\ incident \in Incident
  /\ DraftsWait /\ ClosedWhenDecided

TurnInv == alone => OneHeld /\ Settled /\ \A r \in Request : Fits(call[r])

LEMMA IncidentFields ==
  ASSUME NEW i \in Incident
  PROVE  /\ i.status \in {"open", "awaiting_approval", "resolved"} /\ i.affected \subseteq Booking
         /\ i.run \in Run /\ i.run.status \in {"none", "awaiting", "done"}
  BY DEF Incident, Run

LEMMA AffectedIsBooking ==
  ASSUME data \in Datasets, NEW recorded \in SUBSET Booking
  PROVE  Affected(recorded) \subseteq Booking
  BY DEF Affected, Datasets

LEMMA IdleFits == Fits(Idle) /\ Idle.kind = "idle"
  BY DEF Fits, Idle

LEMMA TurnBegins == Init => TurnInv
  <1> SUFFICES ASSUME Init PROVE TurnInv
    OBVIOUS
  <1>1. /\ data \in Datasets /\ comms = [c \in Comm |-> NoRow]
        /\ incident = [status |-> "open", affected |-> Affected({}), run |-> NoRun]
        /\ \A r \in Request : call[r] = Idle
    BY DEF Init
  <1>2. incident \in Incident
    <2>1. NoRun \in Run
      BY DEF NoRun, Run, Approver
    <2> QED
      BY <1>1, <2>1, AffectedIsBooking DEF Incident
  <1>3. Rows = {}
    BY <1>1 DEF Rows
  <1> QED
    BY <1>1, <1>2, <1>3, IdleFits DEF TurnInv, OneHeld, Held, Settled, DraftsWait, ClosedWhenDecided

(* A step that changes what one request holds, and nothing that is stored. *)
LEMMA TurnCall ==
  ASSUME TravelInv, TurnInv, NEW r \in Request, NEW c,
         call' = [call EXCEPT ![r] = c], UNCHANGED <<data, incident, comms>>,
         alone' => alone /\ \A q \in Request \ {r} : ~Held(q),
         alone => Fits(c)
  PROVE  TurnInv'
  <1> SUFFICES ASSUME alone' PROVE OneHeld' /\ Settled' /\ \A q \in Request : Fits(call[q])'
    BY DEF TurnInv
  <1>1. \A q \in Request : call'[q] = IF q = r THEN c ELSE call[q]
    BY DEF TravelInv, StoreType
  <1>2. OneHeld'
    BY <1>1 DEF OneHeld, Held
  <1>3. Settled'
    BY DEF TurnInv, Settled, DraftsWait, ClosedWhenDecided, Rows, Decided
  <1>4. ASSUME NEW q \in Request PROVE Fits(call[q])'
    <2>1. Fits(call'[q])
      BY <1>1 DEF TurnInv
    <2> QED
      BY <2>1 DEF Fits, AssessFits, DecideFits, Closes, OtherDrafts, Rows
  <1> QED
    BY <1>2, <1>3, <1>4

(* A request that ends: nobody is left to hold anything.                   *)
LEMMA TurnEnds ==
  ASSUME TravelInv, TurnInv, NEW r \in Request, Held(r), call' = [call EXCEPT ![r] = Idle],
         alone' => alone, alone => Settled'
  PROVE  TurnInv'
  <1> SUFFICES ASSUME alone' PROVE OneHeld' /\ Settled' /\ \A q \in Request : Fits(call[q])'
    BY DEF TurnInv
  <1>1. \A q \in Request : call'[q] = IF q = r THEN Idle ELSE call[q]
    BY DEF TravelInv, StoreType
  <1>2. \A q \in Request : q # r => ~Held(q)
    BY DEF TurnInv, OneHeld
  <1>3. \A q \in Request : call'[q].kind = "idle"
    BY <1>1, <1>2, IdleFits DEF Held
  <1>4. OneHeld' /\ \A q \in Request : Fits(call[q])'
    BY <1>3 DEF OneHeld, Held, Fits
  <1> QED
    BY <1>4

LEMMA TurnDrop ==
  ASSUME TravelInv, TurnInv, NEW r \in Request, Drop(r)
  PROVE  TurnInv'
  <1>1. \A q \in Request \ {r} : alone /\ Held(r) => ~Held(q)
    BY DEF TurnInv, OneHeld
  <1>2. alone => Settled'
    BY DEF Drop, TurnInv, Settled, DraftsWait, ClosedWhenDecided, Rows, Decided
  <1>3. CASE Held(r)
    BY <1>2, <1>3, TurnEnds DEF Drop
  <1>4. CASE ~Held(r)
    <2>1. /\ \A q \in Request : call'[q] = call[q] \/ call'[q] = Idle
          /\ UNCHANGED <<data, incident, comms, alone>>
      BY DEF Drop, TravelInv, StoreType
    <2>2. \A q \in Request : Held(q)' => Held(q) /\ call'[q] = call[q]
      BY <2>1, IdleFits DEF Held
    <2>3. alone => OneHeld'
      BY <2>2 DEF TurnInv, OneHeld
    <2>4. ASSUME alone, NEW q \in Request PROVE Fits(call[q])'
      <3>1. Fits(call[q]) /\ Fits(Idle)
        BY <2>4, IdleFits DEF TurnInv
      <3>2. Fits(call'[q])
        BY <2>1, <3>1
      <3> QED
        BY <2>1, <3>2 DEF Fits, AssessFits, DecideFits, Closes, OtherDrafts, Rows
    <2> QED
      BY <1>2, <2>1, <2>3, <2>4 DEF TurnInv
  <1> QED
    BY <1>3, <1>4

LEMMA TurnBeginAssess ==
  ASSUME TravelInv, TurnInv, NEW r \in Request, BeginAssess(r)
  PROVE  TurnInv'
  <1> DEFINE c == [kind |-> "assess", stage |-> "asked", inc |-> incident,
                   found |-> Affected(incident.affected), old |-> {}, new |-> {}]
  <1>1. /\ call' = [call EXCEPT ![r] = c] /\ UNCHANGED <<data, incident, comms>>
        /\ alone' = (alone /\ \A q \in Request : ~Held(q))
    BY DEF BeginAssess, Begin
  <1>2. ASSUME alone PROVE Fits(c)
    <2>1. incident \in Incident /\ data \in Datasets
      BY <1>2 DEF TurnInv, Settled
    <2>2. c.found \subseteq Booking
      BY <2>1, IncidentFields, AffectedIsBooking
    <2>3. c.kind = "assess" /\ c.inc = incident /\ c.stage = "asked"
      OBVIOUS
    <2> HIDE DEF c
    <2> QED
      BY <2>2, <2>3 DEF Fits, AssessFits
  <1> HIDE DEF c
  <1> QED
    BY <1>1, <1>2, TurnCall

LEMMA TurnBeginDecide ==
  ASSUME TravelInv, TurnInv, NEW r \in Request, NEW m \in Comm, NEW who \in Approver,
         NEW yes \in BOOLEAN, BeginDecide(r, m, who, yes)
  PROVE  TurnInv'
  <1> DEFINE c == [kind |-> "decide", stage |-> "read", inc |-> incident, comm |-> m,
                   who |-> who, yes |-> yes, after |-> incident, records |-> {}]
  <1>1. /\ call' = [call EXCEPT ![r] = c] /\ UNCHANGED <<data, incident, comms>>
        /\ alone' = (alone /\ \A q \in Request : ~Held(q))
        /\ m \in Rows /\ comms[m].status = "draft"
    BY DEF BeginDecide, Begin, Rows
  <1>2. /\ c.kind = "decide" /\ c.stage = "read" /\ c.inc = incident /\ c.after = incident
        /\ c.comm = m /\ c.records = {}
    OBVIOUS
  <1> HIDE DEF c
  <1>3. Fits(c)
    BY <1>1, <1>2 DEF Fits, DecideFits
  <1> QED
    BY <1>1, <1>3, TurnCall

(* A later step of the request under way.                                  *)
LEMMA TurnStays ==
  ASSUME TurnInv, NEW r \in Request, Held(r), alone
  PROVE  /\ \A q \in Request \ {r} : ~Held(q)
         /\ Settled /\ Fits(call[r])
  BY DEF TurnInv, OneHeld

LEMMA TurnDraft ==
  ASSUME TravelInv, TurnInv, NEW r \in Request, Draft(r)
  PROVE  TurnInv'
  <1>1. PICK ids \in (SUBSET (Comm \ used)) \ {{}} :
          \E agent \in [ids -> call[r].inc.affected] :
            call' = [call EXCEPT ![r].stage = "drafted", ![r].old = Rows,
                                 ![r].new = {<<m, agent[m]>> : m \in ids}]
    BY DEF Draft
  <1>2. PICK agent \in [ids -> call[r].inc.affected] :
          call' = [call EXCEPT ![r].stage = "drafted", ![r].old = Rows,
                               ![r].new = {<<m, agent[m]>> : m \in ids}]
    BY <1>1
  <1> DEFINE new == {<<m, agent[m]>> : m \in ids}
             c == [call[r] EXCEPT !.stage = "drafted", !.old = Rows, !.new = new]
  <1>3. /\ IsAssess(call[r]) /\ DOMAIN call = Request /\ Held(r)
        /\ UNCHANGED <<data, incident, comms, alone>>
    BY HeldCall DEF Draft, At, Held, TravelInv, StoreType, counters
  <1>4. call' = [call EXCEPT ![r] = c]
    BY <1>2, <1>3
  <1>5. /\ c.kind = "assess" /\ c.inc = call[r].inc /\ c.found = call[r].found
        /\ c.stage = "drafted" /\ c.new = new
    BY <1>3 DEF IsAssess, AssessFields
  <1>6. ASSUME alone PROVE \E m \in Comm, b \in Booking : <<m, b>> \in new
    <2>1. call[r].inc \in Incident
      BY <1>3, <1>6, TurnStays DEF Fits, AssessFits, IsAssess, Settled
    <2>2. call[r].inc.affected \subseteq Booking
      BY <2>1, IncidentFields
    <2>3. PICK m \in ids : TRUE
      OBVIOUS
    <2>4. m \in Comm /\ agent[m] \in Booking /\ <<m, agent[m]>> \in new
      BY <2>2, <2>3
    <2> QED
      BY <2>4
  <1> HIDE DEF c, new
  <1>7. ASSUME alone PROVE Fits(c)
    BY <1>3, <1>5, <1>6, <1>7, TurnStays DEF Fits, AssessFits, IsAssess
  <1> QED
    BY <1>3, <1>4, <1>7, TurnCall, TurnStays

LEMMA TurnFlush ==
  ASSUME TravelInv, TurnInv, NEW r \in Request, Flush(r)
  PROVE  TurnInv'
  <1> DEFINE c == [call[r] EXCEPT !.stage = "flushed"]
  <1>1. /\ IsDecide(call[r]) /\ DOMAIN call = Request /\ Held(r) /\ call[r].stage = "read"
        /\ UNCHANGED <<data, incident, comms, alone>>
    BY HeldCall DEF Flush, At, Held, TravelInv, StoreType, counters
  <1>2. call' = [call EXCEPT ![r] = c]
    BY <1>1 DEF Flush
  <1>3. /\ c.kind = "decide" /\ c.stage = "flushed" /\ c.inc = call[r].inc
        /\ c.comm = call[r].comm /\ c.after = call[r].after /\ c.records = call[r].records
    BY <1>1 DEF IsDecide, DecideFields
  <1> HIDE DEF c
  <1>4. ASSUME alone PROVE Fits(c)
    BY <1>1, <1>3, <1>4, TurnStays DEF Fits, DecideFits, IsDecide
  <1> QED
    BY <1>1, <1>2, <1>4, TurnCall, TurnStays

(* What a request sees of the drafts and the approvals while it is alone.  *)
LEMMA SeenFacts ==
  ASSUME TravelInv, NEW r \in Request, call[r].kind = "decide", call[r].comm \in Rows
  PROVE  /\ SeenIn(r, "draft") = OtherDrafts(call[r])
         /\ call[r].yes => call[r].comm \in ToRecord(r)
         /\ \A m \in Rows \ {call[r].comm} :
              comms[m].status = "approved" /\ ~comms[m].recorded => m \in ToRecord(r)
  <1> DEFINE m0 == call[r].comm
  <1>1. comms[m0] \in Row /\ DOMAIN comms[m0] = {"agent", "status", "by", "recorded"}
    BY RowFields DEF Rows, TravelInv, StoreType
  <1>2. /\ Own(r).status = IF call[r].yes THEN "approved" ELSE "rejected"
        /\ Own(r).recorded = FALSE
    BY <1>1 DEF Own
  <1>3. /\ Seen(r, m0) = Own(r)
        /\ \A m \in Comm : m # m0 => Seen(r, m) = comms[m]
    BY DEF Seen
  <1> HIDE DEF m0
  <1>4. SeenIn(r, "draft") = {m \in Rows \ {m0} : comms[m].status = "draft"}
    BY <1>2, <1>3 DEF SeenIn, Rows
  <1>5. call[r].yes => m0 \in ToRecord(r)
    BY <1>2, <1>3 DEF ToRecord, SeenIn, m0
  <1>6. \A m \in Rows \ {m0} : comms[m].status = "approved" /\ ~comms[m].recorded => m \in ToRecord(r)
    BY <1>3 DEF ToRecord, SeenIn, Rows
  <1> QED
    BY <1>4, <1>5, <1>6 DEF OtherDrafts, m0

LEMMA TurnLook ==
  ASSUME TravelInv, TurnInv, NEW r \in Request, Look(r)
  PROVE  TurnInv'
  <1> DEFINE m0 == call[r].comm
  <1>1. /\ IsDecide(call[r]) /\ call[r].kind = "decide" /\ DOMAIN call = Request /\ Held(r)
        /\ call[r].stage = "flushed"
        /\ UNCHANGED <<data, incident, comms, alone>>
    BY HeldCall DEF Look, At, Held, TravelInv, StoreType, counters
  <1>2. ASSUME alone
        PROVE  /\ call[r].inc = incident /\ call[r].after = incident
               /\ m0 \in Rows /\ comms[m0].status = "draft"
               /\ incident \in Incident /\ incident.run.status = "awaiting"
               /\ SeenIn(r, "draft") = OtherDrafts(call[r])
    <2>1. Settled /\ DecideFits(call[r])
      BY <1>1, <1>2, TurnStays DEF Fits
    <2>2. m0 \in Rows /\ comms[m0].status = "draft"
      BY <2>1 DEF DecideFits
    <2>3. incident.run.status = "awaiting" /\ incident \in Incident
      BY <2>1, <2>2 DEF Settled, DraftsWait
    <2> QED
      BY <1>1, <2>1, <2>2, <2>3, SeenFacts DEF DecideFits
  <1>3. CASE LeavesOpen(r)
    <2> DEFINE c == [call[r] EXCEPT !.stage = "looked"]
    <2>1. call' = [call EXCEPT ![r] = c] /\ SeenIn(r, "draft") # {}
      BY <1>1, <1>3 DEF LeavesOpen
    <2>2. /\ c.kind = "decide" /\ c.stage = "looked" /\ c.inc = call[r].inc /\ c.comm = m0
          /\ c.after = call[r].after /\ c.records = call[r].records
      BY <1>1 DEF IsDecide, DecideFields
    <2> HIDE DEF c, m0
    <2>3. ASSUME alone PROVE Fits(c)
      <3>1. call[r].records = {}
        BY <1>1, <2>3, TurnStays DEF Fits, DecideFits
      <3>2. OtherDrafts(c) # {}
        BY <1>2, <2>1, <2>2, <2>3 DEF OtherDrafts, m0
      <3> QED
        BY <1>2, <2>2, <2>3, <3>1, <3>2 DEF Fits, DecideFits, Closes, m0
    <2> QED
      BY <1>1, <2>1, <2>3, TurnCall, TurnStays
  <1>4. CASE ClosesWithoutRun(r)
    <2> DEFINE c == [call[r] EXCEPT !.stage = "looked", !.after.status = "resolved"]
    <2>1. call' = [call EXCEPT ![r] = c] /\ call[r].inc.run.status # "awaiting"
      BY <1>1, <1>4 DEF ClosesWithoutRun
    <2> HIDE DEF c
    <2>2. ~alone
      BY <1>2, <2>1
    <2> QED
      BY <1>1, <2>2 DEF TurnInv
  <1>5. CASE ClosesOut(r)
    <2> DEFINE yes == SeenIn(r, "approved") # {}
               records == IF yes THEN ToRecord(r) ELSE {}
               run == [status |-> "done", by |-> call[r].who, yes |-> yes]
               after == [call[r].after EXCEPT !.status = "resolved", !.run = run]
               c == [call[r] EXCEPT !.stage = "looked", !.records = records, !.after = after]
    <2>1. call' = [call EXCEPT ![r] = c] /\ SeenIn(r, "draft") = {}
      BY <1>1, <1>5 DEF ClosesOut, IsDecide, DecideFields
    <2>2. \A m \in ToRecord(r) : m \in records
      BY DEF ToRecord
    <2>3. run \in Run /\ run.status = "done"
      <3>1. yes \in BOOLEAN /\ call[r].who \in Approver
        BY <1>1 DEF IsDecide
      <3> HIDE DEF yes
      <3> QED
        BY <3>1 DEF Run
    <2>4. /\ c.kind = "decide" /\ c.stage = "looked" /\ c.inc = call[r].inc /\ c.comm = m0
          /\ c.after = after /\ c.records = records /\ c.yes = call[r].yes
      BY <1>1 DEF IsDecide, DecideFields
    <2> HIDE DEF run
    <2>5. alone => after.status = "resolved" /\ after.run = run
      BY <1>2 DEF Incident
    <2> HIDE DEF c, after, records, yes
    <2>6. ASSUME alone PROVE Closes(c)
      <3>1. OtherDrafts(c) = {}
        BY <1>2, <2>1, <2>4, <2>6 DEF OtherDrafts
      <3>2. /\ call[r].yes => m0 \in ToRecord(r)
            /\ \A m \in Rows \ {m0} :
                 comms[m].status = "approved" /\ ~comms[m].recorded => m \in ToRecord(r)
        BY <1>1, <1>2, <2>6, SeenFacts
      <3> QED
        BY <2>2, <2>3, <2>4, <2>5, <2>6, <3>1, <3>2 DEF Closes
    <2> HIDE DEF m0
    <2>7. ASSUME alone PROVE Fits(c)
      BY <1>2, <2>4, <2>6, <2>7 DEF Fits, DecideFits, m0
    <2> QED
      BY <1>1, <2>1, <2>7, TurnCall, TurnStays
  <1> QED
    BY <1>3, <1>4, <1>5 DEF Look

(* After an assessment a draft waits, and so does the run.                 *)
LEMMA TurnCommitAssess ==
  ASSUME TravelInv, TurnInv, NEW r \in Request, CommitAssess(r)
  PROVE  TurnInv'
  <1> DEFINE a == call[r]
             Fresh(m) == \E b \in Booking : <<m, b>> \in a.new
             status == IF a.inc.status # "awaiting_approval" THEN "awaiting_approval" ELSE incident.status
             affected == IF a.found # a.inc.affected THEN a.found ELSE incident.affected
  <1>1. /\ IsAssess(a) /\ a.kind = "assess" /\ Held(r) /\ a.stage = "drafted"
        /\ comms' = [m \in Comm |-> IF Fresh(m) THEN Drafted(a.new, m)
                                    ELSE IF m \in a.old THEN NoRow ELSE comms[m]]
        /\ incident' = [status |-> status, affected |-> affected, run |-> AwaitingRun]
        /\ call' = [call EXCEPT ![r] = Idle]
        /\ UNCHANGED <<data, alone>>
    BY HeldCall DEF CommitAssess, At, Held, counters
  <1>2. ASSUME alone PROVE Settled'
    <2>1. Settled /\ AssessFits(a)
      BY <1>1, <1>2, TurnStays DEF Fits
    <2>2. status = "awaiting_approval" /\ affected \subseteq Booking
      BY <2>1, IncidentFields DEF AssessFits, Settled
    <2>3. AwaitingRun \in Run /\ AwaitingRun.status = "awaiting"
      BY DEF AwaitingRun, NoRun, Run, Approver
    <2> HIDE DEF status, affected
    <2>4. /\ incident' \in Incident /\ incident'.status = "awaiting_approval"
          /\ incident'.run.status = "awaiting"
      BY <1>1, <2>2, <2>3 DEF Incident
    <2>5. PICK m \in Comm, b \in Booking : <<m, b>> \in a.new
      BY <1>1, <2>1 DEF AssessFits
    <2>6. Drafted(a.new, m) \in Row /\ Drafted(a.new, m).status = "draft"
      <3>1. (CHOOSE x \in Booking : <<m, x>> \in a.new) \in Booking
        BY <2>5
      <3> QED
        BY <3>1 DEF Drafted, Row, Approver
    <2>7. comms'[m] = Drafted(a.new, m)
      BY <1>1, <2>5
    <2>8. m \in Rows' /\ ~Decided(m)'
      BY <2>5, <2>6, <2>7, RowIsNotNoRow DEF Rows, Decided
    <2>9. DraftsWait' /\ ClosedWhenDecided'
      BY <2>4, <2>8 DEF DraftsWait, ClosedWhenDecided
    <2> QED
      BY <1>1, <2>1, <2>4, <2>9 DEF Settled
  <1> QED
    BY <1>1, <1>2, TurnEnds

(* The rows after a decision is committed.                                 *)
LEMMA CommittedRows ==
  ASSUME TravelInv, NEW r \in Request, CommitDecide(r), call[r].comm \in Rows
  PROVE  LET m0 == call[r].comm
             rs == call[r].records
         IN /\ Rows' = Rows
            /\ comms'[m0].status = IF call[r].yes THEN "approved" ELSE "rejected"
            /\ m0 \in rs => comms'[m0].recorded
            /\ \A m \in Rows \ {m0} : /\ comms'[m].status = comms[m].status
                                      /\ comms[m].recorded \/ m \in rs => comms'[m].recorded
  <1> DEFINE m0 == call[r].comm
             rs == call[r].records
             st == IF call[r].yes THEN "approved" ELSE "rejected"
             mine == [comms[m0] EXCEPT !.status = st, !.by = call[r].who,
                                       !.recorded = @ \/ m0 \in rs]
  <1>1. /\ \A m \in rs : comms[m] # NoRow
        /\ comms' = [m \in Comm |-> IF m = m0 THEN mine
                                    ELSE IF m \in rs THEN [comms[m] EXCEPT !.recorded = TRUE]
                                    ELSE comms[m]]
    BY DEF CommitDecide
  <1>2. m0 \in Comm /\ comms[m0] # NoRow /\ comms[m0] \in Row
    BY DEF Rows, TravelInv, StoreType
  <1>3. IsDecide(call[r]) /\ call[r].who \in Approver
    BY HeldCall DEF CommitDecide, At, IsDecide
  <1>4. mine \in Row /\ mine.status = st /\ (m0 \in rs => mine.recorded)
    <2> DEFINE row == comms[m0]
               in == m0 \in rs
               rec == row.recorded \/ in
               by == call[r].who
    <2>1. rec \in BOOLEAN /\ in \in BOOLEAN /\ (in => rec) /\ by \in Approver /\ row \in Row
          /\ st \in {"approved", "rejected"}
      BY <1>2, <1>3
    <2>2. mine = [row EXCEPT !.status = st, !.by = by, !.recorded = rec]
      OBVIOUS
    <2> HIDE DEF row, rec, by, mine, st
    <2>3. mine \in Row /\ mine.status = st
      BY <2>1, <2>2, DecidedRow
    <2>4. mine.recorded = rec
      BY <2>1, <2>2 DEF Row
    <2>5. m0 \in rs => mine.recorded
      BY <2>1, <2>4
    <2> QED
      BY <2>3, <2>5
  <1>5. comms'[m0] = mine
    BY <1>1, <1>2
  <1> HIDE DEF mine, m0, rs, st
  <1>6. ASSUME NEW m \in Rows, m # m0
        PROVE  /\ comms'[m] \in Row /\ comms'[m].status = comms[m].status
               /\ comms[m].recorded \/ m \in rs => comms'[m].recorded
    <2>1. m \in Comm /\ comms[m] \in Row
      BY DEF Rows, TravelInv, StoreType
    <2>2. CASE m \in rs
      <3>1. comms'[m] = [comms[m] EXCEPT !.recorded = TRUE]
        BY <1>1, <1>6, <2>1, <2>2
      <3>2. comms'[m] \in Row /\ comms'[m].status = comms[m].status /\ comms'[m].recorded
        BY <2>1, <3>1, RecordedRow DEF Row
      <3> QED
        BY <3>2
    <2>3. CASE m \notin rs
      BY <1>1, <1>6, <2>1, <2>3
    <2> QED
      BY <2>2, <2>3
  <1>7. ASSUME NEW m \in Comm, m \notin Rows PROVE comms'[m] = NoRow
    BY <1>1, <1>2, <1>7 DEF Rows
  <1>8. Rows' = Rows
    BY <1>2, <1>4, <1>5, <1>6, <1>7, RowIsNotNoRow DEF Rows
  <1> QED
    BY <1>4, <1>5, <1>6, <1>8 DEF m0, rs, st

LEMMA TurnCommitDecide ==
  ASSUME TravelInv, TurnInv, NEW r \in Request, CommitDecide(r)
  PROVE  TurnInv'
  <1> DEFINE d == call[r]
             m0 == call[r].comm
             status == IF d.after.status # d.inc.status THEN d.after.status ELSE incident.status
             run == IF d.after.run # d.inc.run THEN d.after.run ELSE incident.run
  <1>1. /\ IsDecide(d) /\ d.kind = "decide" /\ Held(r) /\ d.stage = "looked"
        /\ incident' = [incident EXCEPT !.status = status, !.run = run]
        /\ call' = [call EXCEPT ![r] = Idle]
        /\ UNCHANGED <<data, alone>>
    BY HeldCall DEF CommitDecide, At, Held, counters
  <1>2. ASSUME alone PROVE Settled'
    <2>1. /\ Settled /\ DecideFits(d) /\ incident \in Incident
          /\ d.inc = incident /\ m0 \in Rows /\ comms[m0].status = "draft" /\ Closes(d)
      BY <1>1, <1>2, TurnStays DEF Fits, DecideFits, Settled
    <2>2. incident.status # "resolved" /\ incident.run.status = "awaiting"
      BY <2>1 DEF Settled, DraftsWait
    <2>3. /\ Rows' = Rows
          /\ comms'[m0].status \in {"approved", "rejected"}
          /\ comms'[m0].status = "approved" => d.yes
          /\ m0 \in d.records => comms'[m0].recorded
          /\ \A m \in Rows \ {m0} : /\ comms'[m].status = comms[m].status
                                    /\ comms[m].recorded \/ m \in d.records => comms'[m].recorded
      BY <2>1, CommittedRows
    <2>4. CASE OtherDrafts(d) # {}
      <3>1. status = incident.status /\ run = incident.run
        BY <2>1, <2>4 DEF Closes
      <3> HIDE DEF status, run
      <3>2. incident' = incident
        BY <1>1, <2>1, <3>1 DEF Incident
      <3>3. PICK m \in Rows \ {m0} : comms[m].status = "draft"
        BY <2>4 DEF OtherDrafts
      <3>4. m \in Rows' /\ ~Decided(m)'
        BY <2>3, <3>3 DEF Decided
      <3>5. DraftsWait'
        BY <2>2, <3>2 DEF DraftsWait
      <3>6. ClosedWhenDecided'
        BY <3>4 DEF ClosedWhenDecided
      <3> QED
        BY <1>1, <2>1, <3>2, <3>5, <3>6 DEF Settled
    <2>5. CASE OtherDrafts(d) = {}
      <3>1. /\ d.after.status = "resolved" /\ d.after.run.status = "done"
            /\ d.after.run \in Run
            /\ d.yes => m0 \in d.records
            /\ \A m \in Rows \ {m0} :
                 comms[m].status = "approved" /\ ~comms[m].recorded => m \in d.records
        BY <2>1, <2>5 DEF Closes
      <3>2. status = "resolved" /\ run = d.after.run
        BY <2>1, <2>2, <3>1
      <3> HIDE DEF status, run
      <3>4. incident' \in Incident /\ incident'.status = "resolved" /\ incident'.run.status = "done"
        BY <1>1, <2>1, <3>1, <3>2 DEF Incident
      <3>5. ASSUME NEW m \in Rows'
            PROVE  comms'[m].status # "draft" /\ (comms'[m].status = "approved" => comms'[m].recorded)
        <4>1. CASE m = m0
          BY <2>3, <3>1, <4>1
        <4>2. CASE m # m0
          <5>1. m \in Rows \ {m0} /\ comms[m].status # "draft"
            BY <2>3, <2>5, <4>2 DEF OtherDrafts
          <5> QED
            BY <2>3, <3>1, <5>1
        <4> QED
          BY <4>1, <4>2
      <3>6. DraftsWait' /\ ClosedWhenDecided'
        BY <3>4, <3>5 DEF DraftsWait, ClosedWhenDecided
      <3> QED
        BY <1>1, <2>1, <3>4, <3>6 DEF Settled
    <2> QED
      BY <2>4, <2>5
  <1> QED
    BY <1>1, <1>2, TurnEnds

LEMMA TurnStep == TravelInv /\ TurnInv /\ [Next]_vars => TurnInv'
  <1> SUFFICES ASSUME TravelInv, TurnInv, [Next]_vars PROVE TurnInv'
    OBVIOUS
  <1>1. CASE UNCHANGED vars
    <2>1. UNCHANGED <<data, incident, comms, call, alone>>
      BY <1>1 DEF vars
    <2> QED
      BY <2>1 DEF TurnInv, OneHeld, Held, Settled, DraftsWait, ClosedWhenDecided, Decided,
                  Fits, AssessFits, DecideFits, Closes, OtherDrafts, Rows
  <1>2. CASE Redeploy
    <2>1. data' \in Datasets /\ UNCHANGED <<incident, comms, call, alone>>
      BY <1>2 DEF Redeploy
    <2> QED
      BY <2>1 DEF TurnInv, OneHeld, Held, Settled, DraftsWait, ClosedWhenDecided, Decided,
                  Fits, AssessFits, DecideFits, Closes, OtherDrafts, Rows
  <1>3. ASSUME NEW r \in Request, BeginAssess(r) PROVE TurnInv'
    BY <1>3, TurnBeginAssess
  <1>4. ASSUME NEW r \in Request, NEW m \in Comm, NEW who \in Approver, NEW yes \in BOOLEAN,
               BeginDecide(r, m, who, yes)
        PROVE  TurnInv'
    BY <1>4, TurnBeginDecide
  <1>5. ASSUME NEW r \in Request, Step(r) PROVE TurnInv'
    <2>1. CASE AssessFails(r) \/ DecideFails(r)
      BY <2>1, TurnDrop DEF AssessFails, DecideFails
    <2> QED
      BY <1>5, <2>1, TurnDraft, TurnCommitAssess, TurnFlush, TurnLook, TurnCommitDecide DEF Step
  <1>6. ASSUME NEW r \in Request, Die(r) PROVE TurnInv'
    BY <1>6, TurnDrop DEF Die
  <1> QED
    BY <1>1, <1>2, <1>3, <1>4, <1>5, <1>6 DEF Next

LEMMA TurnInvariant == Spec => [](TravelInv /\ TurnInv)
  BY InitTravel, TravelStep, TurnBegins, TurnStep, PTL DEF Spec

(* The code behaviour: while requests come one at a time, however they     *)
(* fail or die, the decision on the last draft closes the incident out and *)
(* records every message that was approved.                                *)
THEOREM ClosesInTurn == Spec => []ClosedInTurn
  <1>1. TurnInv => ClosedInTurn
    BY DEF TurnInv, Settled, ClosedInTurn, ClosedOnceDecided, ClosedWhenDecided
  <1> QED
    BY <1>1, TurnInvariant, PTL

-----------------------------------------------------------------------------
NoDraftBehind == incident.status = "resolved" => \A m \in Rows : Decided(m)

Stored == data \in Datasets /\ incident \in Incident /\ NoDraftBehind

AssessAgrees(c) ==
  /\ c.inc \in Incident /\ c.found \subseteq Booking
  /\ incident.status \in {c.inc.status, "awaiting_approval"}

DecideAgrees(c) ==
  /\ c.inc \in Incident /\ c.after \in Incident
  /\ c.after.status # c.inc.status =>
       c.stage = "looked" /\ c.after.status = "resolved" /\ OtherDrafts(c) = {}

Agrees(c) == (c.kind = "assess" => AssessAgrees(c)) /\ (c.kind = "decide" => DecideAgrees(c))

OneKind == \A r, q \in Request : Held(r) /\ Held(q) => call[r].kind = call[q].kind

ApartInv == apart => Stored /\ OneKind /\ \A r \in Request : Agrees(call[r])

LEMMA IdleAgrees == Agrees(Idle) /\ Idle.kind = "idle"
  BY DEF Agrees, Idle

LEMMA ApartBegins == Init => ApartInv
  <1> SUFFICES ASSUME Init PROVE ApartInv
    OBVIOUS
  <1>1. /\ data \in Datasets
        /\ incident = [status |-> "open", affected |-> Affected({}), run |-> NoRun]
        /\ \A r \in Request : call[r] = Idle
    BY DEF Init
  <1>2. incident \in Incident /\ incident.status # "resolved"
    <2>1. NoRun \in Run
      BY DEF NoRun, Run, Approver
    <2> QED
      BY <1>1, <2>1, AffectedIsBooking DEF Incident
  <1> QED
    BY <1>1, <1>2, IdleAgrees DEF ApartInv, Stored, NoDraftBehind, OneKind, Held

(* A step that changes what one request holds, and nothing that is stored. *)
LEMMA ApartCall ==
  ASSUME TravelInv, ApartInv, NEW r \in Request, NEW c,
         call' = [call EXCEPT ![r] = c], UNCHANGED <<data, incident, comms>>,
         apart' => /\ apart /\ Agrees(c)
                   /\ \A q \in Request \ {r} : Held(q) /\ c.kind # "idle" => call[q].kind = c.kind
  PROVE  ApartInv'
  <1> SUFFICES ASSUME apart' PROVE Stored' /\ OneKind' /\ \A q \in Request : Agrees(call[q])'
    BY DEF ApartInv
  <1>1. \A q \in Request : call'[q] = IF q = r THEN c ELSE call[q]
    BY DEF TravelInv, StoreType
  <1>2. OneKind'
    BY <1>1 DEF ApartInv, OneKind, Held
  <1>3. Stored'
    BY DEF ApartInv, Stored, NoDraftBehind, Rows, Decided
  <1>4. ASSUME NEW q \in Request PROVE Agrees(call[q])'
    <2>1. Agrees(call'[q])
      BY <1>1 DEF ApartInv
    <2> QED
      BY <2>1 DEF Agrees, AssessAgrees, DecideAgrees, OtherDrafts, Rows
  <1> QED
    BY <1>2, <1>3, <1>4

(* A later step of a request leaves the kinds under way as they are.       *)
LEMMA SameKind ==
  ASSUME ApartInv, NEW r \in Request, Held(r), apart, NEW kind, kind = call[r].kind
  PROVE  /\ \A q \in Request \ {r} : Held(q) => call[q].kind = kind
         /\ Stored /\ Agrees(call[r])
  BY DEF ApartInv, OneKind

LEMMA ApartDrop ==
  ASSUME TravelInv, ApartInv, NEW r \in Request, Drop(r)
  PROVE  ApartInv'
  BY ApartCall, IdleAgrees DEF Drop

LEMMA ApartBeginAssess ==
  ASSUME TravelInv, ApartInv, NEW r \in Request, BeginAssess(r)
  PROVE  ApartInv'
  <1> DEFINE c == [kind |-> "assess", stage |-> "asked", inc |-> incident,
                   found |-> Affected(incident.affected), old |-> {}, new |-> {}]
  <1>1. /\ call' = [call EXCEPT ![r] = c] /\ UNCHANGED <<data, incident, comms>>
        /\ apart' = (apart /\ \A q \in Request : Held(q) => call[q].kind = c.kind)
    BY DEF BeginAssess, Begin
  <1>2. ASSUME apart PROVE Agrees(c)
    <2>1. incident \in Incident /\ data \in Datasets
      BY <1>2 DEF ApartInv, Stored
    <2>2. c.found \subseteq Booking
      BY <2>1, IncidentFields, AffectedIsBooking
    <2>3. c.kind = "assess" /\ c.inc = incident
      OBVIOUS
    <2> HIDE DEF c
    <2> QED
      BY <2>1, <2>2, <2>3 DEF Agrees, AssessAgrees
  <1> HIDE DEF c
  <1> QED
    BY <1>1, <1>2, ApartCall

LEMMA ApartBeginDecide ==
  ASSUME TravelInv, ApartInv, NEW r \in Request, NEW m \in Comm, NEW who \in Approver,
         NEW yes \in BOOLEAN, BeginDecide(r, m, who, yes)
  PROVE  ApartInv'
  <1> DEFINE c == [kind |-> "decide", stage |-> "read", inc |-> incident, comm |-> m,
                   who |-> who, yes |-> yes, after |-> incident, records |-> {}]
  <1>1. /\ call' = [call EXCEPT ![r] = c] /\ UNCHANGED <<data, incident, comms>>
        /\ apart' = (apart /\ \A q \in Request : Held(q) => call[q].kind = c.kind)
    BY DEF BeginDecide, Begin
  <1>2. c.kind = "decide" /\ c.inc = incident /\ c.after = incident
    OBVIOUS
  <1> HIDE DEF c
  <1>3. ASSUME apart PROVE Agrees(c)
    BY <1>2, <1>3 DEF ApartInv, Stored, Agrees, DecideAgrees
  <1> QED
    BY <1>1, <1>3, ApartCall

LEMMA ApartDraft ==
  ASSUME TravelInv, ApartInv, NEW r \in Request, Draft(r)
  PROVE  ApartInv'
  <1>1. PICK new : call' = [call EXCEPT ![r].stage = "drafted", ![r].old = Rows, ![r].new = new]
    BY DEF Draft
  <1> DEFINE c == [call[r] EXCEPT !.stage = "drafted", !.old = Rows, !.new = new]
  <1>2. /\ IsAssess(call[r]) /\ call[r].kind = "assess" /\ DOMAIN call = Request /\ Held(r)
        /\ UNCHANGED <<data, incident, comms, apart>>
    BY HeldCall DEF Draft, At, Held, TravelInv, StoreType, counters
  <1>3. call' = [call EXCEPT ![r] = c]
    BY <1>1, <1>2
  <1>4. c.kind = "assess" /\ c.inc = call[r].inc /\ c.found = call[r].found
    BY <1>2 DEF IsAssess, AssessFields
  <1> HIDE DEF c
  <1>5. ASSUME apart
        PROVE  Agrees(c) /\ \A q \in Request \ {r} : Held(q) => call[q].kind = c.kind
    BY <1>2, <1>4, <1>5, SameKind DEF Agrees, AssessAgrees
  <1> QED
    BY <1>2, <1>3, <1>5, ApartCall

LEMMA ApartFlush ==
  ASSUME TravelInv, ApartInv, NEW r \in Request, Flush(r)
  PROVE  ApartInv'
  <1> DEFINE c == [call[r] EXCEPT !.stage = "flushed"]
  <1>1. /\ IsDecide(call[r]) /\ call[r].kind = "decide" /\ DOMAIN call = Request /\ Held(r)
        /\ call[r].stage = "read" /\ UNCHANGED <<data, incident, comms, apart>>
    BY HeldCall DEF Flush, At, Held, TravelInv, StoreType, counters
  <1>2. call' = [call EXCEPT ![r] = c]
    BY <1>1 DEF Flush
  <1>3. c.kind = "decide" /\ c.inc = call[r].inc /\ c.after = call[r].after
    BY <1>1 DEF IsDecide, DecideFields
  <1> HIDE DEF c
  <1>4. ASSUME apart
        PROVE  Agrees(c) /\ \A q \in Request \ {r} : Held(q) => call[q].kind = c.kind
    BY <1>1, <1>3, <1>4, SameKind DEF Agrees, DecideAgrees
  <1> QED
    BY <1>1, <1>2, <1>4, ApartCall

(* Whichever way it ends, what Look plans agrees with what it has seen.    *)
LEMMA ApartLook ==
  ASSUME TravelInv, ApartInv, NEW r \in Request, Look(r)
  PROVE  ApartInv'
  <1>1. /\ IsDecide(call[r]) /\ call[r].kind = "decide" /\ DOMAIN call = Request /\ Held(r)
        /\ call[r].stage = "flushed" /\ call[r].comm \in Rows
        /\ UNCHANGED <<data, incident, comms, apart>>
    BY HeldCall DEF Look, At, Held, TravelInv, StoreType, LockedExists, IsDecide, Rows, counters
  <1>2. SeenIn(r, "draft") = OtherDrafts(call[r])
    BY <1>1, SeenFacts
  <1>3. ASSUME apart
        PROVE  /\ DecideAgrees(call[r])
               /\ \A q \in Request \ {r} : Held(q) => call[q].kind = "decide"
    BY <1>1, <1>3, SameKind DEF Agrees
  <1>4. CASE LeavesOpen(r)
    <2> DEFINE c == [call[r] EXCEPT !.stage = "looked"]
    <2>1. call' = [call EXCEPT ![r] = c]
      BY <1>1, <1>4 DEF LeavesOpen
    <2>2. c.kind = "decide" /\ c.inc = call[r].inc /\ c.after = call[r].after
      BY <1>1 DEF IsDecide, DecideFields
    <2> HIDE DEF c
    <2>3. ASSUME apart PROVE Agrees(c)
      BY <1>1, <1>3, <2>2, <2>3 DEF Agrees, DecideAgrees
    <2> QED
      BY <1>1, <1>3, <2>1, <2>2, <2>3, ApartCall
  <1>5. ASSUME NEW rs, NEW after, SeenIn(r, "draft") = {},
               apart => after \in Incident /\ after.status = "resolved",
               call' = [call EXCEPT ![r] = [call[r] EXCEPT !.stage = "looked", !.records = rs,
                                                           !.after = after]]
        PROVE  ApartInv'
    <2> DEFINE c == [call[r] EXCEPT !.stage = "looked", !.records = rs, !.after = after]
    <2>1. /\ c.kind = "decide" /\ c.inc = call[r].inc /\ c.after = after /\ c.stage = "looked"
          /\ c.comm = call[r].comm
      BY <1>1 DEF IsDecide, DecideFields
    <2>2. call' = [call EXCEPT ![r] = c]
      BY <1>5
    <2> HIDE DEF c
    <2>3. ASSUME apart PROVE Agrees(c)
      BY <1>2, <1>3, <1>5, <2>1, <2>3 DEF Agrees, DecideAgrees, OtherDrafts
    <2> QED
      BY <1>1, <1>3, <2>1, <2>2, <2>3, ApartCall
  <1>6. CASE ClosesWithoutRun(r)
    <2> DEFINE after == [call[r].after EXCEPT !.status = "resolved"]
    <2>1. call' = [call EXCEPT ![r] = [call[r] EXCEPT !.stage = "looked",
                                         !.records = call[r].records, !.after = after]]
      BY <1>1, <1>6 DEF ClosesWithoutRun, IsDecide, DecideFields
    <2>2. apart => after \in Incident /\ after.status = "resolved"
      BY <1>3 DEF DecideAgrees, Incident
    <2> HIDE DEF after
    <2> QED
      BY <1>5, <1>6, <2>1, <2>2 DEF ClosesWithoutRun
  <1>7. CASE ClosesOut(r)
    <2> DEFINE yes == SeenIn(r, "approved") # {}
               records == IF yes THEN ToRecord(r) ELSE {}
               run == [status |-> "done", by |-> call[r].who, yes |-> yes]
               after == [call[r].after EXCEPT !.status = "resolved", !.run = run]
    <2>1. call' = [call EXCEPT ![r] = [call[r] EXCEPT !.stage = "looked", !.records = records,
                                                      !.after = after]]
      BY <1>1, <1>7 DEF ClosesOut, IsDecide, DecideFields
    <2>2. run \in Run
      <3>1. yes \in BOOLEAN /\ call[r].who \in Approver
        BY <1>1 DEF IsDecide
      <3> HIDE DEF yes
      <3> QED
        BY <3>1 DEF Run
    <2> HIDE DEF run, records
    <2>3. apart => after \in Incident /\ after.status = "resolved"
      BY <1>3, <2>2 DEF DecideAgrees, Incident
    <2> HIDE DEF after
    <2> QED
      BY <1>5, <1>7, <2>1, <2>3 DEF ClosesOut
  <1> QED
    BY <1>4, <1>6, <1>7 DEF Look

(* An assessment that drafts leaves the incident waiting, whatever other   *)
(* assessments have committed since it began.                              *)
LEMMA ApartCommitAssess ==
  ASSUME TravelInv, ApartInv, NEW r \in Request, CommitAssess(r)
  PROVE  ApartInv'
  <1> DEFINE a == call[r]
             status == IF a.inc.status # "awaiting_approval" THEN "awaiting_approval" ELSE incident.status
             affected == IF a.found # a.inc.affected THEN a.found ELSE incident.affected
  <1>1. /\ a.kind = "assess" /\ Held(r)
        /\ incident' = [status |-> status, affected |-> affected, run |-> AwaitingRun]
        /\ call' = [call EXCEPT ![r] = Idle] /\ DOMAIN call = Request
        /\ UNCHANGED <<data, apart>>
    BY DEF CommitAssess, At, Held, counters, TravelInv, StoreType
  <1> SUFFICES ASSUME apart PROVE Stored' /\ OneKind' /\ \A q \in Request : Agrees(call[q])'
    BY <1>1 DEF ApartInv
  <1>2. Stored /\ AssessAgrees(a) /\ \A q \in Request \ {r} : Held(q) => call[q].kind = "assess"
    BY <1>1, SameKind DEF Agrees
  <1>3. status = "awaiting_approval" /\ affected \subseteq Booking
    BY <1>2, IncidentFields DEF AssessAgrees, Stored
  <1>4. AwaitingRun \in Run
    BY DEF AwaitingRun, NoRun, Run, Approver
  <1> HIDE DEF status, affected
  <1>5. incident' \in Incident /\ incident'.status = "awaiting_approval"
    BY <1>1, <1>3, <1>4 DEF Incident
  <1>6. \A q \in Request : call'[q] = IF q = r THEN Idle ELSE call[q]
    BY <1>1
  <1>7. OneKind'
    BY <1>6, IdleAgrees DEF ApartInv, OneKind, Held
  <1>8. ASSUME NEW q \in Request PROVE Agrees(call[q])'
    <2>1. CASE call'[q].kind = "assess"
      <3>1. AssessAgrees(call[q]) /\ call'[q] = call[q]
        BY <1>6, <2>1, IdleAgrees DEF ApartInv, Agrees
      <3> QED
        BY <1>5, <2>1, <3>1 DEF Agrees, AssessAgrees
    <2>2. CASE call'[q].kind # "assess"
      <3>1. call'[q].kind # "decide"
        BY <1>2, <1>6, IdleAgrees DEF Held
      <3> QED
        BY <2>2, <3>1 DEF Agrees
    <2> QED
      BY <2>1, <2>2
  <1> QED
    BY <1>1, <1>2, <1>5, <1>7, <1>8 DEF Stored, NoDraftBehind

(* A decision makes no draft, and resolves the incident only if it has     *)
(* seen all others decided, which they still are.                          *)
LEMMA ApartCommitDecide ==
  ASSUME TravelInv, ApartInv, NEW r \in Request, CommitDecide(r)
  PROVE  ApartInv'
  <1> DEFINE d == call[r]
             m0 == call[r].comm
             status == IF d.after.status # d.inc.status THEN d.after.status ELSE incident.status
             run == IF d.after.run # d.inc.run THEN d.after.run ELSE incident.run
  <1>1. /\ IsDecide(d) /\ d.kind = "decide" /\ Held(r) /\ d.stage = "looked" /\ m0 \in Rows
        /\ incident' = [incident EXCEPT !.status = status, !.run = run]
        /\ call' = [call EXCEPT ![r] = Idle] /\ DOMAIN call = Request
        /\ UNCHANGED <<data, apart>>
    BY HeldCall DEF CommitDecide, At, Held, counters, TravelInv, StoreType, LockedExists, IsDecide, Rows
  <1> SUFFICES ASSUME apart PROVE Stored' /\ OneKind' /\ \A q \in Request : Agrees(call[q])'
    BY <1>1 DEF ApartInv
  <1>2. Stored /\ DecideAgrees(d) /\ \A q \in Request \ {r} : Held(q) => call[q].kind = "decide"
    BY <1>1, SameKind DEF Agrees
  <1>3. /\ Rows' = Rows
        /\ comms'[m0].status \in {"approved", "rejected"}
        /\ \A m \in Rows \ {m0} : comms'[m].status = comms[m].status
    BY <1>1, CommittedRows
  <1>4. \A m \in Rows : comms'[m].status = "draft" => m # m0 /\ comms[m].status = "draft"
    BY <1>3
  <1>5. incident' \in Incident /\ incident'.status = status
    <2>1. status \in {"open", "awaiting_approval", "resolved"} /\ run \in Run
      BY <1>2, IncidentFields DEF DecideAgrees, Stored
    <2> HIDE DEF status, run
    <2> QED
      BY <1>1, <1>2, <2>1 DEF Stored, Incident
  <1>6. NoDraftBehind'
    <2> SUFFICES ASSUME incident'.status = "resolved", NEW m \in Rows' PROVE Decided(m)'
      BY DEF NoDraftBehind
    <2>1. m \in Rows /\ m \in Comm /\ comms'[m] # NoRow
      BY <1>3 DEF Rows
    <2>2. CASE incident.status = "resolved"
      BY <1>2, <1>4, <2>1, <2>2 DEF Stored, NoDraftBehind, Decided
    <2>3. CASE incident.status # "resolved"
      <3>1. OtherDrafts(d) = {}
        BY <1>2, <1>5, <2>3 DEF DecideAgrees
      <3> QED
        BY <1>4, <2>1, <3>1 DEF OtherDrafts, Decided
    <2> QED
      BY <2>2, <2>3
  <1>7. \A q \in Request : call'[q] = IF q = r THEN Idle ELSE call[q]
    BY <1>1
  <1>8. OneKind'
    BY <1>7, IdleAgrees DEF ApartInv, OneKind, Held
  <1>9. ASSUME NEW q \in Request PROVE Agrees(call[q])'
    <2>1. CASE call'[q].kind = "decide"
      <3>1. DecideAgrees(call[q]) /\ call'[q] = call[q]
        BY <1>7, <2>1, IdleAgrees DEF ApartInv, Agrees
      <3>2. OtherDrafts(call[q]) = {} => OtherDrafts(call[q])' = {}
        BY <1>3, <1>4, <3>1 DEF OtherDrafts
      <3> QED
        BY <2>1, <3>1, <3>2 DEF Agrees, DecideAgrees
    <2>2. CASE call'[q].kind # "decide"
      <3>1. call'[q].kind # "assess"
        BY <1>2, <1>7, IdleAgrees DEF Held
      <3> QED
        BY <2>2, <3>1 DEF Agrees
    <2> QED
      BY <2>1, <2>2
  <1> QED
    BY <1>1, <1>2, <1>5, <1>6, <1>8, <1>9 DEF Stored

LEMMA ApartStep == TravelInv /\ ApartInv /\ [Next]_vars => ApartInv'
  <1> SUFFICES ASSUME TravelInv, ApartInv, [Next]_vars PROVE ApartInv'
    OBVIOUS
  <1> USE DEF ApartInv, Stored, NoDraftBehind, OneKind, Held, Decided, Agrees, AssessAgrees,
              DecideAgrees, OtherDrafts, Rows
  <1>1. CASE UNCHANGED vars
    BY <1>1 DEF vars
  <1>2. CASE Redeploy
    BY <1>2 DEF Redeploy
  <1> HIDE DEF ApartInv
  <1>3. ASSUME NEW r \in Request, BeginAssess(r) PROVE ApartInv'
    BY <1>3, ApartBeginAssess
  <1>4. ASSUME NEW r \in Request, NEW m \in Comm, NEW who \in Approver, NEW yes \in BOOLEAN,
               BeginDecide(r, m, who, yes)
        PROVE  ApartInv'
    BY <1>4, ApartBeginDecide
  <1>5. ASSUME NEW r \in Request, Step(r) PROVE ApartInv'
    <2>1. CASE AssessFails(r) \/ DecideFails(r)
      BY <2>1, ApartDrop DEF AssessFails, DecideFails
    <2> QED
      BY <1>5, <2>1, ApartDraft, ApartCommitAssess, ApartFlush, ApartLook, ApartCommitDecide DEF Step
  <1>6. ASSUME NEW r \in Request, Die(r) PROVE ApartInv'
    BY <1>6, ApartDrop DEF Die
  <1> QED
    BY <1>1, <1>2, <1>3, <1>4, <1>5, <1>6 DEF Next

LEMMA ApartInvariant == Spec => [](TravelInv /\ ApartInv)
  BY InitTravel, TravelStep, ApartBegins, ApartStep, PTL DEF Spec

(* The code behaviour: an incident that is resolved is opened again by an  *)
(* assessment that drafts, and a decision closes it only behind the last   *)
(* draft, so no draft is left waiting behind a closed one unless an        *)
(* assessment and a decision overlap.                                      *)
THEOREM ResolvedStaysDecided == Spec => []ResolvedIsDecided
  <1>1. ApartInv => ResolvedIsDecided
    BY DEF ApartInv, Stored, NoDraftBehind, ResolvedIsDecided
  <1> QED
    BY <1>1, ApartInvariant, PTL
=============================================================================
