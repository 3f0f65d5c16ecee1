----------------------------- MODULE SopProofs ------------------------------
(***************************************************************************)
(* The history of a procedure is true and its readers are current, for     *)
(* every number of requests, procedures, forms and versions.               *)
(*                                                                         *)
(* The unique number is what makes a save atomic although it reads the     *)
(* procedure long before it writes: a save whose number is free has read   *)
(* the row as it still is (LoadedIsPast), so it appends one version to it. *)
(***************************************************************************)
EXTENDS Sop, FiniteSetTheorems, TLAPS

(* What a request has loaded is the row or an earlier state of it.         *)
LoadedIsPast ==
  \A r \in Request :
    LET c == call[r]
    IN /\ c.kind \in {"edit", "read"} => c.old.current <= Current(c.sop)
       /\ c.kind = "edit" => c.old.current < MaxVersion
       /\ c.kind = "edit" /\ c.old.current = Current(c.sop) => c.old = sop[c.sop]
       /\ c.kind = "ask" => \A s \in Sop : c.known[s] <= Current(s)

SopInv == TypeOK /\ HistoryIsTrue /\ LoadedIsPast /\ ReadersAreCurrent

(* A version with the next number is added to a procedure, and the row of  *)
(* the procedure follows it.                                               *)
Appended(s, c, e) ==
  /\ Current(s) < MaxVersion
  /\ sop[s] = NoRow => TitleOf[c] # Blank
  /\ sop' = [sop EXCEPT ![s] = [title |-> IF TitleOf[c] = Blank THEN sop[s].title ELSE TitleOf[c],
                                current |-> Current(s) + 1]]
  /\ versions' = versions \cup {[sop |-> s, number |-> Current(s) + 1,
                                 content |-> c, embedded |-> e]}

-----------------------------------------------------------------------------
LEMMA RowType ==
  ASSUME TypeOK, NEW s \in Sop
  PROVE  /\ Current(s) \in 0..MaxVersion
         /\ sop[s] # NoRow => sop[s] \in Row /\ Current(s) = sop[s].current /\ Current(s) > 0
         /\ sop[s] = NoRow => Current(s) = 0
  BY SopAssumption DEF TypeOK, Current, Row

(* Whoever writes the row it has loaded writes all of it.                  *)
LEMMA WrittenWhole ==
  ASSUME NEW old \in Row, NEW t \in Title, NEW n \in Nat
  PROVE  Written(old, [title |-> t, current |-> n], old) = [title |-> t, current |-> n]
  BY DEF Written, Row

(* The records of calls of each kind.                                      *)
LEMMA CallKinds ==
  ASSUME NEW c \in Calls
  PROVE  /\ c.kind = "edit" => /\ c.sop \in Sop /\ c.content \in Content /\ c.old \in Row
                               /\ c = [kind |-> "edit", sop |-> c.sop, content |-> c.content,
                                       old |-> c.old]
         /\ c.kind = "read" => c.sop \in Sop /\ c.want \in 0..MaxVersion /\ c.old \in Row
         /\ c.kind = "ask" => c.ai \in BOOLEAN /\ c.known \in Known
         /\ c.kind \in {"cite", "answered"} => c.known \in Known /\ c.cited \subseteq Version
         /\ c.kind = "found" => c.shown \in Version /\ c.want \in 1..MaxVersion
         /\ c.kind = "missing" => c.want \in 0..MaxVersion /\ c.old \in Row
         /\ c.kind \in {"idle", "edit", "read", "found", "missing", "ask", "cite", "answered"}
  BY DEF Calls

-----------------------------------------------------------------------------
(* A free number means that nothing was saved since the row was loaded.    *)
LEMMA EditAppends ==
  ASSUME SopInv, NEW r \in Request, NEW e \in BOOLEAN, CommitEdit(r, e)
  PROVE  /\ call[r].sop \in Sop /\ call[r].content \in Content
         /\ Appended(call[r].sop, call[r].content, e)
<1> DEFINE c == call[r]
           s == c.sop
<1>1. c \in Calls /\ c.kind = "edit"
  BY DEF SopInv, TypeOK, CommitEdit
<1>2. s \in Sop /\ c.content \in Content /\ c.old \in Row
  BY <1>1, CallKinds
<1>3. c.old.current <= Current(s) /\ c.old.current < MaxVersion
      /\ (c.old.current = Current(s) => c.old = sop[s])
  BY <1>1 DEF SopInv, LoadedIsPast
<1>4. Numbers(s) = 1..Current(s) /\ Current(s) \in 0..MaxVersion
  BY <1>2, RowType DEF SopInv, HistoryIsTrue
<1>5. c.old.current \in 1..MaxVersion /\ c.old.title \in Title
  BY <1>2 DEF Row
<1>6. c.old.current + 1 \notin Numbers(s)
  BY DEF CommitEdit, Taken, Renamed
<1>7. c.old.current = Current(s) /\ c.old = sop[s]
  BY <1>3, <1>4, <1>5, <1>6, SopAssumption
<1>8. sop[s] # NoRow
  BY <1>2, <1>7, SopAssumption DEF Row
<1> DEFINE t == IF TitleOf[c.content] = Blank THEN c.old.title ELSE TitleOf[c.content]
<1>9. t \in Title
  BY <1>2, <1>5, SopAssumption
<1>10. Renamed(c.old, c.content) = [title |-> t, current |-> c.old.current + 1]
  BY DEF Renamed
<1>11. Written(c.old, Renamed(c.old, c.content), sop[s]) = [title |-> t, current |-> c.old.current + 1]
  BY <1>2, <1>5, <1>7, <1>9, <1>10, WrittenWhole, SopAssumption
<1>12. sop' = [sop EXCEPT ![s] = [title |-> t, current |-> c.old.current + 1]]
  BY <1>11, <1>2 DEF CommitEdit, SopInv, TypeOK
<1>13. versions' = versions \cup {[sop |-> s, number |-> c.old.current + 1,
                                   content |-> c.content, embedded |-> e]}
  BY <1>10 DEF CommitEdit
<1> QED
  BY <1>2, <1>3, <1>7, <1>8, <1>12, <1>13 DEF Appended

LEMMA CreateAppends ==
  ASSUME SopInv, NEW r \in Request, NEW s \in Sop, NEW c \in Content, NEW e \in BOOLEAN,
         CreateSop(r, s, c, e)
  PROVE  Appended(s, c, e)
<1>1. Current(s) = 0
  BY RowType DEF CreateSop, SopInv
<1>2. 0 < MaxVersion
  BY SopAssumption
<1>3. (IF TitleOf[c] = Blank THEN sop[s].title ELSE TitleOf[c]) = TitleOf[c]
  BY DEF CreateSop
<1>4. 0 + 1 = 1
  OBVIOUS
<1> QED
  BY <1>1, <1>2, <1>3, <1>4 DEF CreateSop, Appended


(* The row written.                                                        *)
LEMMA AppendedRow ==
  ASSUME SopInv, NEW s \in Sop, NEW c \in Content, NEW e \in BOOLEAN, Appended(s, c, e)
  PROVE  /\ sop'[s] \in Row /\ sop'[s] # NoRow
         /\ Current(s)' = Current(s) + 1
         /\ TitleOf[c] # Blank => sop'[s].title = TitleOf[c]
         /\ TitleOf[c] = Blank => sop[s] # NoRow /\ sop'[s].title = sop[s].title
         /\ \A p \in Sop : p # s => sop'[p] = sop[p] /\ Current(p)' = Current(p)
<1> DEFINE t == IF TitleOf[c] = Blank THEN sop[s].title ELSE TitleOf[c]
<1>1. Current(s) \in 0..MaxVersion /\ Current(s) < MaxVersion
  BY RowType DEF SopInv, Appended
<1>2. t \in Title
  <2>1. TitleOf[c] = Blank => sop[s] \in Row
    BY RowType DEF SopInv, Appended
  <2> QED
    BY <2>1, SopAssumption DEF Row
<1>3. sop'[s] = [title |-> t, current |-> Current(s) + 1]
  BY DEF Appended, SopInv, TypeOK
<1>4. sop'[s] \in Row /\ sop'[s] # NoRow
  BY <1>1, <1>2, <1>3, SopAssumption DEF Row
<1>5. Current(s)' = Current(s) + 1
  BY <1>3, <1>4 DEF Current
<1>6. \A p \in Sop : p # s => sop'[p] = sop[p]
  BY DEF Appended, SopInv, TypeOK
<1> HIDE DEF t
<1>7. sop'[s].title = t
  BY <1>3
<1>8. TitleOf[c] = Blank => sop[s] # NoRow
  BY DEF Appended
<1> QED
  BY <1>4, <1>5, <1>6, <1>7, <1>8 DEF Current, t

-----------------------------------------------------------------------------
(* Only the two steps that save change the tables.                         *)
LEMMA TablesOnlyGrow ==
  ASSUME SopInv, [Next]_vars
  PROVE  \/ UNCHANGED <<sop, versions>>
         \/ \E s \in Sop, c \in Content, e \in BOOLEAN : Appended(s, c, e)
<1>1. CASE UNCHANGED vars
  BY <1>1 DEF vars
<1>2. CASE \E r \in Request, s \in Sop, c \in Content, e \in BOOLEAN : CreateSop(r, s, c, e)
  BY <1>2, CreateAppends
<1>3. CASE \E r \in Request, e \in BOOLEAN : CommitEdit(r, e)
  BY <1>3, EditAppends
<1>4. CASE \E r \in Request :
             \/ \E s \in Sop, c \in Content : BeginEdit(r, s, c)
             \/ \E s \in Sop, want \in 0..MaxVersion : BeginRead(r, s, want)
             \/ \E yes \in BOOLEAN : BeginAsk(r, yes) \/ Answer(r, yes)
             \/ FinishRead(r) \/ Retrieve(r) \/ Fail(r)
  BY <1>4 DEF BeginEdit, BeginRead, BeginAsk, Answer, FinishRead, Retrieve, Fail
<1> QED
  BY <1>1, <1>2, <1>3, <1>4 DEF Next

(* What is saved stays, and a procedure with as many versions as before    *)
(* is as before.                                                           *)
LEMMA SavedStays ==
  ASSUME SopInv, \/ UNCHANGED <<sop, versions>>
                 \/ \E s \in Sop, c \in Content, e \in BOOLEAN : Appended(s, c, e)
  PROVE  /\ versions \subseteq versions'
         /\ \A s \in Sop : /\ Current(s) <= Current(s)'
                           /\ Current(s)' = Current(s) => sop'[s] = sop[s]
<1>1. CASE UNCHANGED <<sop, versions>>
  BY <1>1, RowType DEF Current, SopInv
<1>2. ASSUME NEW p \in Sop, NEW c \in Content, NEW e \in BOOLEAN, Appended(p, c, e)
      PROVE  /\ versions \subseteq versions'
             /\ \A s \in Sop : /\ Current(s) <= Current(s)'
                               /\ Current(s)' = Current(s) => sop'[s] = sop[s]
  <2>1. versions \subseteq versions'
    BY <1>2 DEF Appended
  <2>2. ASSUME NEW s \in Sop
        PROVE  Current(s) <= Current(s)' /\ (Current(s)' = Current(s) => sop'[s] = sop[s])
    <3>1. Current(s) \in 0..MaxVersion
      BY RowType DEF SopInv
    <3>2. CASE s = p
      <4>1. Current(s)' = Current(s) + 1
        BY <1>2, <3>2, AppendedRow
      <4> QED
        BY <3>1, <4>1
    <3>3. CASE s # p
      <4>1. sop'[s] = sop[s] /\ Current(s)' = Current(s)
        BY <1>2, <3>3, AppendedRow
      <4> QED
        BY <4>1, <3>1
    <3> QED
      BY <3>2, <3>3
  <2> QED
    BY <2>1, <2>2
<1> QED
  BY <1>1, <1>2

-----------------------------------------------------------------------------
LEMMA HistoryKept ==
  ASSUME SopInv, NEW s \in Sop, NEW c \in Content, NEW e \in BOOLEAN, Appended(s, c, e)
  PROVE  HistoryIsTrue'
<1> DEFINE n == Current(s) + 1
           new == [sop |-> s, number |-> n, content |-> c, embedded |-> e]
<1>1. Current(s) \in 0..MaxVersion
  BY RowType DEF SopInv
<1>2. versions' = versions \cup {new} /\ versions \subseteq Version
  BY DEF Appended, SopInv, TypeOK
<1>3. \A v \in versions : v.sop \in Sop /\ v.number \in Nat /\ v.number \in Numbers(v.sop)
  BY <1>2 DEF Version, Numbers
<1>4. \A v \in versions : v.sop = s => v.number < n
  BY <1>1, <1>3 DEF SopInv, HistoryIsTrue
<1>5. new.sop = s /\ new.number = n /\ new.content = c
  OBVIOUS
<1> HIDE DEF new
<1>6. ASSUME NEW p \in Sop
      PROVE  Numbers(p)' = 1..Current(p)'
  <2>1. CASE p = s
    <3>1. Numbers(s)' = Numbers(s) \cup {n}
      BY <1>2, <1>5 DEF Numbers
    <3>2. Numbers(s) = 1..Current(s)
      BY DEF SopInv, HistoryIsTrue
    <3>3. Current(s)' = n
      BY AppendedRow
    <3> QED
      BY <1>1, <2>1, <3>1, <3>2, <3>3
  <2>2. CASE p # s
    <3>1. Numbers(p)' = Numbers(p)
      BY <1>2, <1>5, <2>2 DEF Numbers
    <3> QED
      BY <2>2, <3>1, AppendedRow DEF SopInv, HistoryIsTrue
  <2> QED
    BY <2>1, <2>2
<1>7. ASSUME NEW v \in versions', NEW w \in versions', v.sop = w.sop, v.number = w.number
      PROVE  v = w
  <2>1. v.sop \in Sop
    BY <1>2, <1>3, <1>5
  <2>2. v \in versions /\ w \in versions => v = w
    BY <1>7, <2>1 DEF SopInv, HistoryIsTrue
  <2>3. v \in versions /\ w = new => FALSE
    BY <1>1, <1>3, <1>4, <1>5, <1>7
  <2>4. w \in versions /\ v = new => FALSE
    BY <1>1, <1>3, <1>4, <1>5, <1>7
  <2> QED
    BY <1>2, <2>2, <2>3, <2>4
<1>8. ASSUME NEW v \in versions', TitleOf[v.content] # Blank,
             \A w \in versions' : w.sop = v.sop /\ w.number > v.number => TitleOf[w.content] = Blank
      PROVE  sop'[v.sop].title = TitleOf[v.content]
  <2>1. CASE v = new
    BY <1>5, <1>8, <2>1, AppendedRow
  <2>2. CASE v \in versions /\ v.sop = s
    <3>1. TitleOf[c] = Blank
      BY <1>1, <1>2, <1>3, <1>4, <1>5, <1>8, <2>2
    <3>2. sop[s].title = TitleOf[v.content]
      BY <1>2, <1>8, <2>2 DEF SopInv, HistoryIsTrue
    <3> QED
      BY <2>2, <3>1, <3>2, AppendedRow
  <2>3. CASE v \in versions /\ v.sop # s
    <3>1. v.sop \in Sop
      BY <1>3, <2>3
    <3>2. sop[v.sop].title = TitleOf[v.content]
      BY <1>2, <1>8, <2>3, <3>1 DEF SopInv, HistoryIsTrue
    <3> QED
      BY <2>3, <3>1, <3>2, AppendedRow
  <2> QED
    BY <1>2, <2>1, <2>2, <2>3
<1> QED
  BY <1>6, <1>7, <1>8 DEF HistoryIsTrue

-----------------------------------------------------------------------------
(* What a step of a request leaves in its call, and that it is of its type *)
(* and true of what is saved by then.                                      *)
Fits(c) ==
  /\ c.kind \in {"edit", "read"} => c.old.current <= Current(c.sop)
  /\ c.kind = "edit" => c.old.current < MaxVersion
  /\ c.kind = "edit" /\ c.old.current = Current(c.sop) => c.old = sop[c.sop]
  /\ c.kind = "ask" => \A s \in Sop : c.known[s] <= Current(s)
  /\ c.kind = "found" => c.shown \in versions /\ c.shown.number = c.want
  /\ c.kind = "missing" => c.want > c.old.current
  /\ c.kind \in {"cite", "answered"} =>
       /\ c.cited \subseteq versions
       /\ \A v \in c.cited : v.number >= c.known[v.sop]
       /\ \A v, w \in c.cited : v.sop = w.sop => v = w

Leaves(r, c) == /\ call' = [call EXCEPT ![r] = c]
                /\ calls' \in 0..MaxCalls
                /\ c \in Calls

LEMMA FitsIsInv ==
  (\A r \in Request : Fits(call[r])) <=> LoadedIsPast /\ ReadersAreCurrent
BY DEF Fits, LoadedIsPast, ReadersAreCurrent

(* Nothing that fits is made unfit by what others save.                    *)
LEMMA FitsStays ==
  ASSUME SopInv, NEW c \in Calls, Fits(c),
         \/ UNCHANGED <<sop, versions>>
         \/ \E s \in Sop, d \in Content, e \in BOOLEAN : Appended(s, d, e)
  PROVE  Fits(c)'
<1>1. versions \subseteq versions'
  BY SavedStays
<1>2. \A s \in Sop : Current(s) <= Current(s)' /\ (Current(s)' = Current(s) => sop'[s] = sop[s])
  BY SavedStays
<1>3. \A s \in Sop : Current(s) \in Nat /\ Current(s)' \in Nat
  <2>1. \A s \in Sop : Current(s) \in Nat
    BY RowType DEF SopInv
  <2>2. CASE UNCHANGED <<sop, versions>>
    BY <2>1, <2>2 DEF Current
  <2>3. ASSUME NEW p \in Sop, NEW d \in Content, NEW e \in BOOLEAN, Appended(p, d, e)
        PROVE  \A s \in Sop : Current(s)' \in Nat
    <3>1. \A s \in Sop : s # p => Current(s)' = Current(s)
      BY <2>3, AppendedRow
    <3>2. Current(p)' = Current(p) + 1
      BY <2>3, AppendedRow
    <3> QED
      BY <2>1, <3>1, <3>2
  <2> QED
    BY <2>1, <2>2, <2>3
<1>4. CASE c.kind \in {"edit", "read"}
  <2>1. c.sop \in Sop /\ c.old.current \in Nat
    BY <1>4, CallKinds DEF Row
  <2> QED
    BY <1>2, <1>3, <1>4, <2>1 DEF Fits
<1>5. CASE c.kind = "ask"
  <2>1. c.known \in Known
    BY <1>5, CallKinds
  <2>2. \A s \in Sop : c.known[s] \in Nat
    BY <2>1 DEF Known
  <2> QED
    BY <1>2, <1>3, <1>5, <2>2 DEF Fits
<1>6. CASE c.kind \in {"idle", "found", "missing", "cite", "answered"}
  BY <1>1, <1>6 DEF Fits
<1> QED
  BY <1>4, <1>5, <1>6, CallKinds

-----------------------------------------------------------------------------
(* Each step of a request leaves a call that fits.                         *)
LEMMA BeginLeaves ==
  ASSUME SopInv, NEW r \in Request, NEW c \in Calls, Begin(r, c)
  PROVE  Leaves(r, c)
BY SopAssumption DEF SopInv, TypeOK, Begin, Leaves

LEMMA BecomesLeaves ==
  ASSUME SopInv, NEW r \in Request, NEW c \in Calls, Becomes(r, c)
  PROVE  Leaves(r, c)
BY DEF SopInv, TypeOK, Becomes, Leaves

LEMMA IdleFits ==
  [kind |-> "idle"] \in Calls /\ Fits([kind |-> "idle"])'
BY DEF Calls, Fits

LEMMA SaveLeaves ==
  ASSUME SopInv, NEW r \in Request,
         \/ Begin(r, [kind |-> "idle"])
         \/ Becomes(r, [kind |-> "idle"])
  PROVE  \E c : Leaves(r, c) /\ Fits(c)'
BY IdleFits, BeginLeaves, BecomesLeaves

LEMMA EditLeaves ==
  ASSUME SopInv, NEW r \in Request, NEW s \in Sop, NEW d \in Content, BeginEdit(r, s, d)
  PROVE  \E c : Leaves(r, c) /\ Fits(c)'
<1> DEFINE c == [kind |-> "edit", sop |-> s, content |-> d, old |-> sop[s]]
<1>1. sop[s] \in Row /\ Current(s) = sop[s].current /\ sop[s].current < MaxVersion
  BY RowType DEF SopInv, BeginEdit, Saved
<1>2. c \in Calls
  BY <1>1 DEF Calls
<1>3. Leaves(r, c)
  BY <1>2, BeginLeaves DEF BeginEdit
<1>4. sop' = sop /\ Current(s)' = Current(s) /\ Current(s) \in Nat
  BY RowType DEF BeginEdit, Current, SopInv
<1>5. PICK k : k = c
  OBVIOUS
<1>6. Fits(k)'
  BY <1>1, <1>4, <1>5 DEF Fits
<1> QED
  BY <1>3, <1>5, <1>6

LEMMA ReadLeaves ==
  ASSUME SopInv, NEW r \in Request, NEW s \in Sop, NEW want \in 0..MaxVersion, BeginRead(r, s, want)
  PROVE  \E c : Leaves(r, c) /\ Fits(c)'
<1> DEFINE c == [kind |-> "read", sop |-> s, want |-> want, old |-> sop[s]]
<1>1. sop[s] \in Row /\ Current(s) = sop[s].current
  BY RowType DEF SopInv, BeginRead, Saved
<1>2. c \in Calls
  BY <1>1 DEF Calls
<1>3. Leaves(r, c)
  BY <1>2, BeginLeaves DEF BeginRead
<1>4. sop' = sop /\ Current(s)' = Current(s) /\ Current(s) \in Nat
  BY RowType DEF BeginRead, Current, SopInv
<1>5. PICK k : k = c
  OBVIOUS
<1>6. Fits(k)'
  BY <1>1, <1>4, <1>5 DEF Fits
<1> QED
  BY <1>3, <1>5, <1>6

LEMMA AskLeaves ==
  ASSUME SopInv, NEW r \in Request, NEW ai \in BOOLEAN, BeginAsk(r, ai)
  PROVE  \E c : Leaves(r, c) /\ Fits(c)'
<1> DEFINE known == [s \in Sop |-> Current(s)]
           c == [kind |-> "ask", ai |-> ai, known |-> known]
<1>1. known \in Known
  BY RowType DEF SopInv, Known
<1>2. c \in Calls
  BY <1>1 DEF Calls
<1>3. Leaves(r, c)
  BY <1>2, BeginLeaves DEF BeginAsk
<1>4. \A s \in Sop : Current(s)' = known[s] /\ known[s] \in Nat
  BY RowType DEF BeginAsk, Current, SopInv
<1> HIDE DEF known
<1>5. PICK k : k = c
  OBVIOUS
<1>6. k.kind = "ask" /\ k.known = known
  BY <1>5
<1>7. Fits(k)'
  BY <1>4, <1>6 DEF Fits
<1> QED
  BY <1>3, <1>5, <1>7

LEMMA FinishLeaves ==
  ASSUME SopInv, NEW r \in Request, FinishRead(r)
  PROVE  \E c : Leaves(r, c) /\ Fits(c)'
<1> PICK old : old = call[r]
  OBVIOUS
<1>1. old \in Calls /\ old.kind = "read"
  BY DEF FinishRead, SopInv, TypeOK
<1>2. old.sop \in Sop /\ old.want \in 0..MaxVersion /\ old.old \in Row
  BY <1>1, CallKinds
<1>3. old.old.current \in 1..MaxVersion /\ old.old.current <= Current(old.sop)
  BY <1>1, <1>2 DEF Row, SopInv, LoadedIsPast
<1>4. Wanted(old) \in 1..MaxVersion
  BY <1>2, <1>3 DEF Wanted
<1>5. CASE \E v \in versions : /\ v.sop = old.sop /\ v.number = Wanted(old)
                               /\ Becomes(r, [kind |-> "found", want |-> Wanted(old), shown |-> v])
  <2>1. PICK v \in versions :
             /\ v.sop = old.sop /\ v.number = Wanted(old)
             /\ Becomes(r, [kind |-> "found", want |-> Wanted(old), shown |-> v])
    BY <1>5
  <2> DEFINE c == [kind |-> "found", want |-> Wanted(old), shown |-> v]
  <2>2. c \in Calls
    BY <1>4 DEF Calls, SopInv, TypeOK
  <2>3. Leaves(r, c)
    BY <2>1, <2>2, BecomesLeaves
  <2>4. Fits(c)'
    BY <2>1 DEF Fits, FinishRead
  <2> QED
    BY <2>3, <2>4
<1>6. CASE /\ \A v \in versions : ~(v.sop = old.sop /\ v.number = Wanted(old))
           /\ Becomes(r, [kind |-> "missing", want |-> old.want, old |-> old.old])
  <2> DEFINE c == [kind |-> "missing", want |-> old.want, old |-> old.old]
  <2>1. c \in Calls
    BY <1>2 DEF Calls
  <2>2. Leaves(r, c)
    BY <1>6, <2>1, BecomesLeaves
  <2>3. Wanted(old) \notin 1..Current(old.sop)
    BY <1>2, <1>6 DEF Numbers, SopInv, HistoryIsTrue
  <2>4. Current(old.sop) \in 0..MaxVersion
    BY <1>2, RowType DEF SopInv
  <2>5. old.want > old.old.current
    BY <1>2, <1>3, <1>4, <2>3, <2>4 DEF Wanted
  <2>6. Fits(c)'
    BY <2>5 DEF Fits
  <2> QED
    BY <2>2, <2>6
<1> QED
  BY <1>5, <1>6 DEF FinishRead

LEMMA AnswerLeaves ==
  ASSUME SopInv, NEW r \in Request, NEW yes \in BOOLEAN, Answer(r, yes)
  PROVE  \E c : Leaves(r, c) /\ Fits(c)'
<1> PICK old : old = call[r]
  OBVIOUS
<1>1. old \in Calls /\ old.kind = "cite"
  BY DEF Answer, SopInv, TypeOK
<1>2. old.known \in Known /\ old.cited \subseteq Version
  BY <1>1, CallKinds
<1>3. /\ old.cited \subseteq versions
      /\ \A v \in old.cited : v.number >= old.known[v.sop]
      /\ \A v, w \in old.cited : v.sop = w.sop => v = w
  BY <1>1 DEF SopInv, ReadersAreCurrent
<1> PICK cited : cited = IF yes THEN old.cited ELSE {}
  OBVIOUS
<1> DEFINE c == [kind |-> "answered", known |-> old.known, cited |-> cited]
<1>4. c \in Calls
  BY <1>2 DEF Calls
<1>5. Leaves(r, c)
  BY <1>4, BecomesLeaves DEF Answer
<1>6. Fits(c)'
  BY <1>3 DEF Fits, Answer
<1> QED
  BY <1>5, <1>6

LEMMA RetrieveLeaves ==
  ASSUME SopInv, NEW r \in Request, Retrieve(r)
  PROVE  \E c : Leaves(r, c) /\ Fits(c)'
<1> PICK old : old = call[r]
  OBVIOUS
<1>1. old \in Calls /\ old.kind = "ask"
  BY DEF Retrieve, SopInv, TypeOK
<1>2. old.known \in Known
  BY <1>1, CallKinds
<1>3. PICK kind \in {"cite", "answered"}, cited \in SUBSET Searchable :
        Becomes(r, [kind |-> kind, known |-> old.known, cited |-> cited])
  BY DEF Retrieve, Retrieved
<1> DEFINE c == [kind |-> kind, known |-> old.known, cited |-> cited]
<1>4. cited \subseteq versions /\ versions \subseteq Version
  BY DEF Searchable, SopInv, TypeOK
<1>5. c \in Calls
  BY <1>2, <1>4 DEF Calls
<1>6. Leaves(r, c)
  BY <1>3, <1>5, BecomesLeaves
<1>7. \A v \in cited : v.number = Current(v.sop) /\ v.sop \in Sop
  BY <1>4 DEF Searchable, Version
<1>8. \A s \in Sop : old.known[s] <= Current(s) /\ old.known[s] \in Nat /\ Current(s) \in Nat
  BY <1>1, <1>2, RowType DEF SopInv, LoadedIsPast, Known
<1>9. \A v \in cited : v.number >= old.known[v.sop]
  BY <1>7, <1>8
<1>10. \A v, w \in cited : v.sop = w.sop => v = w
  BY <1>4, <1>7 DEF SopInv, HistoryIsTrue
<1>11. Fits(c)'
  BY <1>4, <1>9, <1>10 DEF Fits, Retrieve
<1> QED
  BY <1>6, <1>11

-----------------------------------------------------------------------------
(* One step of one request.                                                *)
LEMMA StepLeaves ==
  ASSUME SopInv, Next
  PROVE  \E r \in Request : \E c : Leaves(r, c) /\ Fits(c)'
<1>1. ASSUME NEW r \in Request, NEW s \in Sop, NEW d \in Content, NEW e \in BOOLEAN,
             CreateSop(r, s, d, e)
      PROVE  \E c : Leaves(r, c) /\ Fits(c)'
  BY <1>1, SaveLeaves DEF CreateSop
<1>2. ASSUME NEW r \in Request, NEW e \in BOOLEAN, CommitEdit(r, e)
      PROVE  \E c : Leaves(r, c) /\ Fits(c)'
  BY <1>2, SaveLeaves DEF CommitEdit
<1>3. ASSUME NEW r \in Request, Fail(r)
      PROVE  \E c : Leaves(r, c) /\ Fits(c)'
  BY <1>3, SaveLeaves DEF Fail
<1> QED
  BY <1>1, <1>2, <1>3, EditLeaves, ReadLeaves, AskLeaves, FinishLeaves, RetrieveLeaves,
     AnswerLeaves DEF Next

LEMMA TablesTyped ==
  ASSUME SopInv, [Next]_vars
  PROVE  /\ sop' \in [Sop -> Row \cup {NoRow}]
         /\ versions' \subseteq Version
         /\ HistoryIsTrue'
<1>1. CASE UNCHANGED <<sop, versions>>
  BY <1>1 DEF SopInv, TypeOK, HistoryIsTrue, Numbers, Current
<1>2. ASSUME NEW s \in Sop, NEW c \in Content, NEW e \in BOOLEAN, Appended(s, c, e)
      PROVE  /\ sop' \in [Sop -> Row \cup {NoRow}]
             /\ versions' \subseteq Version
             /\ HistoryIsTrue'
  <2>1. sop'[s] \in Row
    BY <1>2, AppendedRow
  <2>2. sop' = [sop EXCEPT ![s] = sop'[s]]
    BY <1>2 DEF Appended, SopInv, TypeOK
  <2>3. sop' \in [Sop -> Row \cup {NoRow}]
    BY <2>1, <2>2 DEF SopInv, TypeOK
  <2>4. Current(s) + 1 \in 1..MaxVersion
    BY <1>2, RowType, SopAssumption DEF Appended, SopInv
  <2>5. [sop |-> s, number |-> Current(s) + 1, content |-> c, embedded |-> e] \in Version
    BY <2>4 DEF Version
  <2>6. versions' \subseteq Version
    BY <1>2, <2>5 DEF Appended, SopInv, TypeOK
  <2> QED
    BY <1>2, <2>3, <2>6, HistoryKept
<1> QED
  BY <1>1, <1>2, TablesOnlyGrow

LEMMA SopInvKept ==
  ASSUME SopInv, [Next]_vars
  PROVE  SopInv'
<1>1. \A c \in Calls : Fits(c) => Fits(c)'
  BY FitsStays, TablesOnlyGrow
<1>2. \A r \in Request : call[r] \in Calls /\ Fits(call[r])
  BY FitsIsInv DEF SopInv, TypeOK
<1>3. /\ call' \in [Request -> Calls]
      /\ calls' \in 0..MaxCalls
      /\ \A r \in Request : Fits(call[r])'
  <2>1. CASE UNCHANGED vars
    <3>1. ASSUME NEW r \in Request
          PROVE  Fits(call[r])'
      <4>1. PICK c : c = call[r]
        OBVIOUS
      <4>2. Fits(c)'
        BY <1>1, <1>2, <4>1
      <4>3. c = call'[r]
        BY <2>1, <4>1 DEF vars
      <4> QED
        BY <4>2, <4>3 DEF Fits
    <3> QED
      BY <2>1, <3>1 DEF vars, SopInv, TypeOK
  <2>2. CASE Next
    <3>0. PICK r \in Request : \E c : Leaves(r, c) /\ Fits(c)'
      BY <2>2, StepLeaves
    <3>1. PICK c : Leaves(r, c) /\ Fits(c)'
      BY <3>0
    <3>2. /\ call' \in [Request -> Calls]
          /\ calls' \in 0..MaxCalls
          /\ call'[r] = c
          /\ \A q \in Request : q # r => call'[q] = call[q]
      BY <3>1 DEF Leaves, SopInv, TypeOK
    <3>3. ASSUME NEW q \in Request
          PROVE  Fits(call[q])'
      <4>1. PICK d : d = call[q]
        OBVIOUS
      <4>2. Fits(d)'
        BY <1>1, <1>2, <4>1
      <4>3. CASE q = r
        BY <3>1, <3>2, <4>3 DEF Fits
      <4>4. CASE q # r
        <5>1. d = call'[q]
          BY <3>2, <4>1, <4>4
        <5> QED
          BY <4>2, <5>1 DEF Fits
      <4> QED
        BY <4>3, <4>4
    <3> QED
      BY <3>2, <3>3
  <2> QED
    BY <2>1, <2>2
<1>4. (\A r \in Request : Fits(call[r])') => LoadedIsPast' /\ ReadersAreCurrent'
  BY DEF Fits, LoadedIsPast, ReadersAreCurrent
<1> QED
  BY <1>3, <1>4, TablesTyped DEF SopInv, TypeOK

LEMMA SopInvInit == Init => SopInv
<1> SUFFICES ASSUME Init PROVE SopInv
  OBVIOUS
<1>1. TypeOK
  BY SopAssumption DEF Init, TypeOK, Calls
<1>2. \A s \in Sop : Current(s) = 0 /\ Numbers(s) = {}
  BY DEF Init, Current, Numbers
<1>3. versions = {} /\ 1..0 = {}
  BY DEF Init
<1>4. HistoryIsTrue
  BY <1>2, <1>3 DEF HistoryIsTrue
<1>5. LoadedIsPast /\ ReadersAreCurrent
  BY DEF Init, LoadedIsPast, ReadersAreCurrent
<1> QED
  BY <1>1, <1>4, <1>5 DEF SopInv

(* The inductive invariant: the tables are as HistoryIsTrue says and what  *)
(* each request of service.py and search.py holds is of their past.        *)
THEOREM SopInvariant == Spec => []SopInv
BY SopInvInit, SopInvKept, PTL DEF Spec

(* Every table and every call is of its type (create_sop refuses a blank   *)
(* title, add_version keeps the old one).                                  *)
THEOREM TypeCorrect == Spec => []TypeOK
BY SopInvariant, PTL DEF SopInv

(* However many requests save versions of a procedure at once, its history *)
(* has no gap and no double (add_version, uq_sop_versions_sop_id_version). *)
THEOREM HistoryStaysTrue == Spec => []HistoryIsTrue
BY SopInvariant, PTL DEF SopInv

(* Reading a procedure and its versions in two statements never misses a   *)
(* version, and an answer cites nothing superseded before its question     *)
(* (read, export, _retrieve).                                              *)
THEOREM ReadersStayCurrent == Spec => []ReadersAreCurrent
BY SopInvariant, PTL DEF SopInv

(* A saved version is never changed or removed ("an immutable snapshot",   *)
(* models.py).                                                             *)
THEOREM VersionsStay == Spec => [][versions \subseteq versions']_vars
<1>1. SopInv /\ [Next]_vars => [versions \subseteq versions']_vars
  BY TablesOnlyGrow, SavedStays
<1> QED
  BY <1>1, SopInvariant, PTL DEF Spec

-----------------------------------------------------------------------------
(* The operator of the instance is the one of FiniteSets.                  *)
LEMMA SameSizes == \A S : Serial!Cardinality(S) = Cardinality(S)
BY DEF Serial!Cardinality, Cardinality

(* There are as many versions of a procedure as its number says.           *)
LEMMA CurrentCounts ==
  ASSUME SopInv, NEW s \in Sop
  PROVE  Serial!Saved(s) = Current(s)
<1> DEFINE V == {v \in versions : v.sop = s}
           f == [n \in 1..Current(s) |-> CHOOSE v \in V : v.number = n]
<1>1. Current(s) \in Nat
  BY RowType DEF SopInv
<1>2. f \in Bijection(1..Current(s), V)
  <2>1. Numbers(s) = 1..Current(s) /\ \A v, w \in V : v.number = w.number => v = w
    BY DEF SopInv, HistoryIsTrue
  <2>2. \A n \in 1..Current(s) : \E v \in V : v.number = n
    BY <2>1 DEF Numbers
  <2>3. \A v \in V : v.number \in 1..Current(s)
    BY <2>1 DEF Numbers
  <2>4. \A n \in 1..Current(s) : f[n] \in V /\ f[n].number = n
    BY <2>2
  <2>5. f \in [1..Current(s) -> V]
    BY <2>4
  <2> HIDE DEF f, V
  <2>6. \A m, n \in 1..Current(s) : f[m] = f[n] => m = n
    BY <2>4
  <2>7. \A v \in V : \E n \in 1..Current(s) : f[n] = v
    BY <2>1, <2>3, <2>4
  <2> QED
    BY <2>5, <2>6, <2>7 DEF Bijection, Injection, Surjection, IsInjective
<1>3. IsFiniteSet(1..Current(s)) /\ Cardinality(1..Current(s)) = Current(s)
  BY <1>1, FS_Interval
<1> HIDE DEF f, V
<1>4. Cardinality(V) = Current(s)
  BY <1>2, <1>3, FS_Bijection DEF ExistsBijection
<1> QED
  BY <1>4, SameSizes DEF Serial!Saved, V

(* The library implements one whose saves take effect at once: each step   *)
(* leaves the tables alone or is one such save (add_version, create_sop).  *)
THEOREM LibraryImplementsSerial == Spec => ImplementsSerial
<1>1. Init => Serial!Init
  BY DEF Init, Serial!Init
<1>2. SopInv /\ [Next]_vars => [Serial!Next]_<<sop, versions>>
  <2> SUFFICES ASSUME SopInv, [Next]_vars, ~UNCHANGED <<sop, versions>>
               PROVE  Serial!Next
    OBVIOUS
  <2>1. PICK s \in Sop, c \in Content, e \in BOOLEAN : Appended(s, c, e)
    BY TablesOnlyGrow
  <2>2. Serial!Save(s, c, e)
    BY <2>1, CurrentCounts DEF Appended, Serial!Save
  <2> QED
    BY <2>2 DEF Serial!Next
<1> QED
  BY <1>1, <1>2, SopInvariant, PTL DEF Spec, ImplementsSerial, Serial!Spec
=============================================================================
