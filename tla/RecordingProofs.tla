-------------------------- MODULE RecordingProofs ---------------------------
(***************************************************************************)
(* For every chain of models, number of retries and allowance: a request   *)
(* leaves a model behind only when its allowance is spent and costs a      *)
(* bounded part of the allowances; and the script loses no recording.      *)
(*                                                                         *)
(* The bound on what a request costs is not inductive: Costs says how much *)
(* of it is used up at each position of the chain and each attempt, and    *)
(* SleepsBeforeLast why a request that waits has an attempt left.          *)
(***************************************************************************)
EXTENDS Recording, SequenceTheorems, TLAPS

Spent(p, a) == (p - 1) * MaxRetries + a

Costs ==
  \A r \in Request :
    /\ req[r].at = "calling" => req[r].drawn <= Spent(req[r].pos, req[r].attempt - 1)
    /\ req[r].at = "sleeping" => req[r].drawn <= Spent(req[r].pos, req[r].attempt)
    /\ req[r].drawn <= Len(req[r].chain) * MaxRetries + 1

SleepsBeforeLast ==
  \A r \in Request : req[r].at = "sleeping" => req[r].attempt <= MaxRetries

GeminiInv == GeminiTypeOK /\ FallsBackOnlyWhenSpent /\ Costs /\ SleepsBeforeLast

-----------------------------------------------------------------------------
LEMMA Multiples ==
  ASSUME NEW p \in Nat \ {0}, NEW a \in Nat
  PROVE  /\ Spent(p, a) \in Nat
         /\ Spent(p, a + 1) = Spent(p, a) + 1
         /\ Spent(p + 1, 0) = Spent(p, MaxRetries)
         /\ a <= MaxRetries => Spent(p, a) <= Spent(p, MaxRetries)
<1> DEFINE R == MaxRetries
<1>0. R \in Nat
  BY GeminiAssumption
<1> HIDE DEF R
<1>1. (p - 1) * R \in Nat /\ (p + 1 - 1) * R = (p - 1) * R + R
  BY <1>0
<1>2. QED
  BY <1>0, <1>1 DEF Spent, R

LEMMA Total ==
  ASSUME NEW n \in Nat, NEW p \in Nat \ {0}, p <= n
  PROVE  n * MaxRetries \in Nat /\ Spent(p, MaxRetries) <= n * MaxRetries
<1> DEFINE R == MaxRetries
<1>0. R \in Nat
  BY GeminiAssumption
<1> HIDE DEF R
<1>1. n * R \in Nat /\ p * R <= n * R /\ (p - 1) * R + R = p * R
  BY <1>0
<1>2. QED
  BY <1>0, <1>1 DEF Spent, R

LEMMA ChainShape ==
  ASSUME NEW c \in Chains
  PROVE  c \in Seq(Model) /\ Len(c) \in Nat /\ 1 <= Len(c)
<1>1. OtherModels \in Seq(Model) /\ Default \in Model /\ Embedding \in Model
  BY OthersAssumption, GeminiAssumption
<1>2. CASE c = <<Embedding>>
  BY <1>1, <1>2
<1>3. CASE c = ModelChain
  <2> DEFINE s == OtherModels
  <2> HIDE DEF s
  <2>1. s \in Seq(Model)
    BY <1>1 DEF s
  <2>2. <<Default>> \o s \in Seq(Model) /\ Len(<<Default>> \o s) = 1 + Len(s)
    BY <1>1, <2>1
  <2>3. QED
    BY <1>3, <2>1, <2>2 DEF ModelChain, s
<1>4. QED
  BY <1>2, <1>3 DEF Chains

-----------------------------------------------------------------------------
LEMMA InitialGemini == GeminiInit => GeminiInv
<1> SUFFICES ASSUME GeminiInit PROVE GeminiInv
  OBVIOUS
<1>1. /\ NotAsked \in Requests /\ Len(NotAsked.chain) = 1
      /\ NotAsked.pos = 1 /\ NotAsked.attempt = 1 /\ NotAsked.drawn = 0 /\ NotAsked.at = "idle"
  BY DEF NotAsked, Requests, Chains
<1>2. MaxRetries \in Nat /\ Allowance \in Nat
  BY GeminiAssumption
<1>3. \A r \in Request : req[r] = NotAsked
  BY DEF GeminiInit
<1>4. 0 <= 1 * MaxRetries + 1
  BY <1>2
<1>5. GeminiTypeOK
  <2>1. left \in [Model -> 0..Allowance]
    BY <1>2 DEF GeminiInit
  <2>2. req \in [Request -> Requests] /\ fresh \subseteq Request
    BY <1>1 DEF GeminiInit
  <2>3. \A r \in Request : req[r].pos <= Len(req[r].chain) /\ req[r].attempt <= MaxRetries + 1
    <3>1. 1 <= MaxRetries + 1
      BY <1>2
    <3>2. NotAsked.pos <= Len(NotAsked.chain) /\ NotAsked.attempt <= MaxRetries + 1
      BY <1>1, <3>1
    <3>3. QED
      BY <1>3, <3>2, Zenon
  <2>4. QED
    BY <2>1, <2>2, <2>3 DEF GeminiTypeOK
<1>6. FallsBackOnlyWhenSpent /\ SleepsBeforeLast
  BY <1>1, <1>3 DEF GeminiInit, FallsBackOnlyWhenSpent, SleepsBeforeLast
<1>7. Costs
  BY <1>1, <1>3, <1>4 DEF Costs
<1>8. QED
  BY <1>5, <1>6, <1>7 DEF GeminiInv

(* What a step on one request must keep of that request.                   *)
Fine(x, spent) ==
  /\ x \in Requests
  /\ x.pos <= Len(x.chain) /\ x.attempt <= MaxRetries + 1
  /\ x.at = "sleeping" => x.attempt <= MaxRetries
  /\ x.at = "calling" => x.drawn <= Spent(x.pos, x.attempt - 1)
  /\ x.at = "sleeping" => x.drawn <= Spent(x.pos, x.attempt)
  /\ x.drawn <= Len(x.chain) * MaxRetries + 1
  /\ spent => \A i \in 1..Len(x.chain) : i < x.pos \/ x.at = "quota" => left[x.chain[i]] = 0

LEMMA OneRequest ==
  ASSUME GeminiInv, NEW r \in Request, NEW x, Fine(x, r \in fresh'),
         req' = [req EXCEPT ![r] = x],
         fresh' \subseteq fresh \cup {r},
         left' \in [Model -> 0..Allowance],
         \A m \in Model : left[m] = 0 => left'[m] = 0
  PROVE  GeminiInv'
<1>1. \A q \in Request : req'[q] = IF q = r THEN x ELSE req[q]
  BY DEF GeminiInv, GeminiTypeOK
<1>2. \A q \in Request : Fine(req[q], q \in fresh)
  BY DEF GeminiInv, GeminiTypeOK, FallsBackOnlyWhenSpent, Costs, SleepsBeforeLast, Fine
<1>3. \A q \in Request : Fine(req'[q], q \in fresh')
  <2> SUFFICES ASSUME NEW q \in Request PROVE Fine(req'[q], q \in fresh')
    OBVIOUS
  <2>1. CASE q = r
    BY <1>1, <2>1
  <2>2. CASE q # r
    <3>1. req'[q] = req[q] /\ (q \in fresh' => q \in fresh)
      BY <1>1, <2>2
    <3>2. QED
      BY <1>2, <3>1 DEF Fine
  <2>3. QED
    BY <2>1, <2>2
<1>4. GeminiTypeOK'
  <2>1. req' \in [Request -> Requests]
    BY <1>1, <1>3 DEF Fine, GeminiInv, GeminiTypeOK
  <2>2. fresh' \subseteq Request
    BY DEF GeminiInv, GeminiTypeOK
  <2>3. QED
    BY <1>3, <2>1, <2>2 DEF Fine, GeminiTypeOK
<1>5. FallsBackOnlyWhenSpent'
  <2> SUFFICES ASSUME NEW q \in fresh', NEW i \in 1..Len(req'[q].chain),
                      i < req'[q].pos \/ req'[q].at = "quota"
               PROVE  left'[req'[q].chain[i]] = 0
    BY DEF FallsBackOnlyWhenSpent
  <2>1. q \in Request
    BY <1>4 DEF GeminiTypeOK
  <2>2. left[req'[q].chain[i]] = 0
    BY <1>3, <2>1 DEF Fine
  <2>3. req'[q].chain \in Chains
    BY <1>4, <2>1 DEF GeminiTypeOK, Requests
  <2>4. req'[q].chain[i] \in Model
    BY <2>3, ChainShape
  <2>5. QED
    BY <2>2, <2>4
<1>6. Costs' /\ SleepsBeforeLast'
  BY <1>3 DEF Fine, Costs, SleepsBeforeLast
<1>7. QED
  BY <1>4, <1>5, <1>6 DEF GeminiInv

LEMMA BeginStep ==
  ASSUME GeminiInv, NEW r \in Request, NEW c \in Chains, Begin(r, c)
  PROVE  GeminiInv'
<1> DEFINE x == [at |-> "calling", chain |-> c, pos |-> 1, attempt |-> 1, drawn |-> 0]
<1>1. MaxRetries \in Nat /\ Len(c) \in Nat /\ 1 <= Len(c)
  BY GeminiAssumption, ChainShape
<1>2. Spent(1, 0) \in Nat /\ Len(c) * MaxRetries \in Nat
  BY <1>1, Multiples, Total
<1>3. x \in Requests
  BY DEF Requests, Running
<1>4. Fine(x, r \in fresh')
  BY <1>1, <1>2, <1>3 DEF Fine
<1>5. req' = [req EXCEPT ![r] = x] /\ fresh' \subseteq fresh \cup {r} /\ left' = left
  BY DEF Begin
<1>6. QED
  BY <1>4, <1>5, OneRequest DEF GeminiInv, GeminiTypeOK

LEMMA ForgetStep ==
  ASSUME GeminiInv, NEW r \in Request, Forget(r), left' = left
  PROVE  GeminiInv'
<1>1. MaxRetries \in Nat /\ 0 <= 1 * MaxRetries + 1 /\ 1 <= MaxRetries + 1
  BY GeminiAssumption
<1>2. /\ NotAsked \in Requests /\ Len(NotAsked.chain) = 1
      /\ NotAsked.pos = 1 /\ NotAsked.attempt = 1 /\ NotAsked.drawn = 0 /\ NotAsked.at = "idle"
  BY DEF NotAsked, Requests, Chains
<1>3. Fine(NotAsked, r \in fresh')
  BY <1>1, <1>2 DEF Fine
<1>4. req' = [req EXCEPT ![r] = NotAsked] /\ fresh' \subseteq fresh \cup {r}
  BY DEF Forget
<1>5. QED
  BY <1>3, <1>4, OneRequest DEF GeminiInv, GeminiTypeOK

LEMMA WindowStep ==
  ASSUME GeminiInv, NewWindow
  PROVE  GeminiInv'
<1>1. GeminiTypeOK'
  BY GeminiAssumption DEF GeminiInv, GeminiTypeOK, NewWindow
<1>2. FallsBackOnlyWhenSpent' /\ Costs' /\ SleepsBeforeLast'
  BY DEF GeminiInv, NewWindow, FallsBackOnlyWhenSpent, Costs, SleepsBeforeLast
<1>3. QED
  BY <1>1, <1>2 DEF GeminiInv

(* What a step that works on a request starts from.                        *)
LEMMA Calling ==
  ASSUME GeminiInv, NEW r \in Request
  PROVE  /\ req[r] \in Requests /\ req[r].chain \in Chains
         /\ req[r].pos \in Nat \ {0} /\ req[r].attempt \in Nat \ {0} /\ req[r].drawn \in Nat
         /\ Len(req[r].chain) \in Nat /\ MaxRetries \in Nat
         /\ Candidate(r) \in Model
         /\ Fine(req[r], r \in fresh)
<1>1. req[r] \in Requests /\ MaxRetries \in Nat
  BY GeminiAssumption DEF GeminiInv, GeminiTypeOK
<1>2. /\ req[r].chain \in Chains /\ req[r].pos \in Nat \ {0}
      /\ req[r].attempt \in Nat \ {0} /\ req[r].drawn \in Nat
  BY <1>1 DEF Requests
<1>3. Fine(req[r], r \in fresh)
  BY <1>1 DEF GeminiInv, GeminiTypeOK, FallsBackOnlyWhenSpent, Costs, SleepsBeforeLast, Fine
<1>4. req[r].chain \in Seq(Model) /\ Len(req[r].chain) \in Nat
  BY <1>2, ChainShape
<1>5. req[r].pos \in 1..Len(req[r].chain)
  BY <1>2, <1>3, <1>4 DEF Fine
<1>6. Candidate(r) \in Model
  BY <1>4, <1>5 DEF Candidate
<1>7. QED
  BY <1>1, <1>2, <1>3, <1>4, <1>6

Became(r, a, n) == [req[r] EXCEPT !.at = a, !.drawn = @ + n]

LEMMA ToRecord ==
  ASSUME GeminiInv, NEW r \in Request, NEW a \in Running \cup Outcome, NEW n \in {0, 1},
         To(r, a, n)
  PROVE  /\ Became(r, a, n) \in Requests
         /\ req' = [req EXCEPT ![r] = Became(r, a, n)]
         /\ Became(r, a, n).at = a
         /\ Became(r, a, n).chain = req[r].chain
         /\ Became(r, a, n).pos = req[r].pos
         /\ Became(r, a, n).attempt = req[r].attempt
         /\ Became(r, a, n).drawn = req[r].drawn + n
<1>1. req[r] \in Requests /\ req[r].drawn \in Nat
  BY Calling
<1>2. req[r].drawn + n \in Nat
  BY <1>1
<1>3. Became(r, a, n) \in Requests
  BY <1>1, <1>2 DEF Became, Requests
<1>4. /\ Became(r, a, n).at = a
      /\ Became(r, a, n).chain = req[r].chain
      /\ Became(r, a, n).pos = req[r].pos
      /\ Became(r, a, n).attempt = req[r].attempt
      /\ Became(r, a, n).drawn = req[r].drawn + n
  BY <1>1 DEF Became, Requests
<1>5. req' = [req EXCEPT ![r] = Became(r, a, n)]
  BY <1>1 DEF Became, To, GeminiInv, GeminiTypeOK, Requests
<1>6. QED
  BY <1>3, <1>4, <1>5

LEMMA AdvanceStep ==
  ASSUME GeminiInv, NEW r \in Request, Refused(r)
  PROVE  GeminiInv'
<1> DEFINE old == req[r]
           n == Len(old.chain)
<1>1. /\ old \in Requests /\ old.chain \in Chains /\ Candidate(r) \in Model
      /\ old.pos \in Nat \ {0} /\ old.attempt \in Nat \ {0} /\ old.drawn \in Nat
      /\ n \in Nat /\ MaxRetries \in Nat
      /\ Fine(old, r \in fresh)
  BY Calling
<1>2. old.at = "calling" /\ left[old.chain[old.pos]] = 0 /\ left' = left /\ fresh' = fresh
  BY DEF Refused, Candidate
<1>3. old.pos <= n /\ old.attempt <= MaxRetries + 1 /\ old.drawn <= Spent(old.pos, old.attempt - 1)
  BY <1>1, <1>2 DEF Fine
<1>4. r \in fresh => \A i \in 1..n : i <= old.pos => left[old.chain[i]] = 0
  <2> SUFFICES ASSUME r \in fresh, NEW i \in 1..n, i <= old.pos PROVE left[old.chain[i]] = 0
    OBVIOUS
  <2>1. CASE i = old.pos
    BY <1>2, <2>1
  <2>2. CASE i < old.pos
    BY <1>1, <2>2 DEF Fine
  <2>3. QED
    BY <1>1, <2>1, <2>2
<1>5. CASE ~Last(r) /\ req' = [req EXCEPT ![r].pos = @ + 1, ![r].attempt = 1]
  <2> DEFINE x == [old EXCEPT !.pos = @ + 1, !.attempt = 1]
  <2>1. /\ x \in Requests
        /\ x.at = "calling" /\ x.chain = old.chain /\ x.pos = old.pos + 1
        /\ x.attempt = 1 /\ x.drawn = old.drawn
    <3>1. old.pos + 1 \in Nat \ {0} /\ 1 \in Nat \ {0}
      BY <1>1
    <3>2. x \in Requests
      BY <1>1, <3>1 DEF Requests
    <3>3. QED
      BY <1>1, <1>2, <3>2 DEF Requests
  <2>2. req' = [req EXCEPT ![r] = x]
    BY <1>5 DEF GeminiInv, GeminiTypeOK
  <2>3. old.drawn <= Spent(old.pos + 1, 0) /\ old.drawn <= n * MaxRetries + 1
    <3>1. old.attempt - 1 \in Nat /\ old.attempt - 1 <= MaxRetries
      BY <1>1, <1>3
    <3>2. Spent(old.pos, old.attempt - 1) <= Spent(old.pos, MaxRetries)
      BY <1>1, <3>1, Multiples
    <3>3. /\ Spent(old.pos, MaxRetries) \in Nat /\ Spent(old.pos, old.attempt - 1) \in Nat
          /\ Spent(old.pos + 1, 0) = Spent(old.pos, MaxRetries)
      BY <1>1, <3>1, Multiples
    <3>4. QED
      BY <1>1, <1>3, <3>2, <3>3 DEF Fine
  <2>4. old.pos + 1 <= n
    BY <1>1, <1>3, <1>5 DEF Last
  <2>5. r \in fresh' => \A i \in 1..n : i < old.pos + 1 => left[old.chain[i]] = 0
    BY <1>1, <1>2, <1>4
  <2> HIDE DEF x
  <2>6. Fine(x, r \in fresh')
    <3>1. x.pos <= Len(x.chain) /\ x.attempt <= MaxRetries + 1 /\ x.at # "sleeping" /\ x.at # "quota"
      BY <1>1, <2>1, <2>4
    <3>2. x.drawn <= Spent(x.pos, x.attempt - 1)
      <4>1. x.attempt - 1 = 0
        BY <2>1
      <4>2. QED
        BY <2>1, <2>3, <4>1
    <3>3. x.drawn <= Len(x.chain) * MaxRetries + 1
      BY <2>1, <2>3
    <3>4. r \in fresh' => \A i \in 1..Len(x.chain) : i < x.pos => left[x.chain[i]] = 0
      BY <2>1, <2>5
    <3>5. QED
      BY <2>1, <3>1, <3>2, <3>3, <3>4 DEF Fine
  <2>7. QED
    BY <1>2, <2>2, <2>6, OneRequest DEF GeminiInv, GeminiTypeOK
<1>6. CASE Last(r) /\ To(r, "quota", 0)
  <2> DEFINE x == Became(r, "quota", 0)
  <2>1. /\ x \in Requests /\ req' = [req EXCEPT ![r] = x]
        /\ x.at = "quota" /\ x.chain = old.chain /\ x.pos = old.pos
        /\ x.attempt = old.attempt /\ x.drawn = old.drawn + 0
    BY <1>6, ToRecord DEF Outcome
  <2>3. r \in fresh' => \A i \in 1..n : left[old.chain[i]] = 0
    BY <1>1, <1>2, <1>4, <1>6 DEF Last
  <2> HIDE DEF x
  <2>4. Fine(x, r \in fresh')
    BY <1>1, <1>3, <2>1, <2>3 DEF Fine
  <2>5. QED
    BY <1>2, <2>1, <2>4, OneRequest DEF GeminiInv, GeminiTypeOK
<1>7. QED
  BY <1>5, <1>6 DEF Refused, Advance

LEMMA DrawnLeft ==
  ASSUME GeminiInv, NEW r \in Request, NEW n \in {0, 1}, Draws(r, n)
  PROVE  /\ left' \in [Model -> 0..Allowance]
         /\ \A m \in Model : left[m] = 0 => left'[m] = 0
<1>1. left \in [Model -> 0..Allowance] /\ Allowance \in Nat /\ Candidate(r) \in Model
  BY Calling, GeminiAssumption DEF GeminiInv, GeminiTypeOK
<1>2. n <= left[Candidate(r)] /\ left' = [left EXCEPT ![Candidate(r)] = @ - n]
  BY DEF Draws
<1>3. QED
  BY <1>1, <1>2

(* A call that ends, or waits to be tried again, in the model it is at.    *)
LEMMA ToStep ==
  ASSUME GeminiInv, NEW r \in Request, req[r].at = "calling",
         NEW a \in {"sleeping", "error", "answer"}, NEW n \in {0, 1},
         a = "sleeping" => req[r].attempt # MaxRetries + 1,
         To(r, a, n), fresh' = fresh,
         left' \in [Model -> 0..Allowance],
         \A m \in Model : left[m] = 0 => left'[m] = 0
  PROVE  GeminiInv'
<1> DEFINE old == req[r]
           x == Became(r, a, n)
           top == Len(old.chain) * MaxRetries
<1>1. /\ old.chain \in Chains
      /\ old.pos \in Nat \ {0} /\ old.attempt \in Nat \ {0} /\ old.drawn \in Nat
      /\ Len(old.chain) \in Nat /\ MaxRetries \in Nat
      /\ Fine(old, r \in fresh)
  BY Calling
<1>2. /\ x \in Requests /\ req' = [req EXCEPT ![r] = x]
      /\ x.at = a /\ x.chain = old.chain /\ x.pos = old.pos
      /\ x.attempt = old.attempt /\ x.drawn = old.drawn + n
  <2>1. a \in Running \cup Outcome
    BY DEF Running, Outcome
  <2>2. QED
    BY <2>1, ToRecord
<1>3. old.pos <= Len(old.chain) /\ old.attempt <= MaxRetries + 1
      /\ old.drawn <= Spent(old.pos, old.attempt - 1)
  BY <1>1 DEF Fine
<1>4. old.attempt - 1 \in Nat /\ old.attempt - 1 <= MaxRetries
  BY <1>1, <1>3
<1>5. /\ Spent(old.pos, old.attempt) = Spent(old.pos, old.attempt - 1) + 1
      /\ Spent(old.pos, old.attempt - 1) \in Nat /\ Spent(old.pos, MaxRetries) \in Nat
      /\ Spent(old.pos, old.attempt - 1) <= Spent(old.pos, MaxRetries)
      /\ Spent(old.pos, MaxRetries) <= top /\ top \in Nat
  <2> DEFINE k == old.attempt - 1
  <2>1. k \in Nat /\ k + 1 = old.attempt
    BY <1>1, <1>4
  <2> HIDE DEF k
  <2>2. /\ Spent(old.pos, k + 1) = Spent(old.pos, k) + 1
        /\ Spent(old.pos, k) \in Nat
        /\ k <= MaxRetries => Spent(old.pos, k) <= Spent(old.pos, MaxRetries)
    BY <1>1, <2>1, Multiples
  <2>3. /\ Spent(old.pos, MaxRetries) \in Nat
        /\ Spent(old.pos, MaxRetries) <= top /\ top \in Nat
    <3> DEFINE len == Len(old.chain)
    <3>1. len \in Nat /\ old.pos <= len
      BY <1>1, <1>3
    <3> HIDE DEF len
    <3>2. /\ Spent(old.pos, MaxRetries) \in Nat
          /\ Spent(old.pos, MaxRetries) <= len * MaxRetries /\ len * MaxRetries \in Nat
      BY <1>1, <3>1, Multiples, Total
    <3>3. QED
      BY <3>2 DEF len
  <2>4. QED
    BY <1>4, <2>1, <2>2, <2>3 DEF k
<1> HIDE DEF x, top
<1>6. x.drawn <= top + 1 /\ x.drawn <= Spent(old.pos, old.attempt)
  BY <1>1, <1>2, <1>3, <1>5
<1>7. Fine(x, r \in fresh')
  <2>1. a = "sleeping" => old.attempt <= MaxRetries
    BY <1>1, <1>3
  <2>2. r \in fresh => \A i \in 1..Len(old.chain) : i < old.pos => left[old.chain[i]] = 0
    BY <1>1 DEF Fine
  <2>3. QED
    BY <1>2, <1>3, <1>6, <2>1, <2>2 DEF Fine, top
<1>8. QED
  BY <1>2, <1>7, OneRequest

LEMMA WakeStep ==
  ASSUME GeminiInv, NEW r \in Request, Wake(r)
  PROVE  GeminiInv'
<1> DEFINE old == req[r]
           x == [old EXCEPT !.at = "calling", !.attempt = @ + 1]
<1>1. /\ old \in Requests /\ old.attempt \in Nat \ {0} /\ old.drawn \in Nat
      /\ MaxRetries \in Nat
      /\ Fine(old, r \in fresh)
  BY Calling
<1>2. old.at = "sleeping" /\ left' = left /\ fresh' = fresh
  BY DEF Wake
<1>3. /\ x.at = "calling" /\ x.chain = old.chain /\ x.pos = old.pos
      /\ x.attempt = old.attempt + 1 /\ x.drawn = old.drawn
  BY <1>1 DEF Requests
<1>4. x \in Requests
  <2>1. old.attempt + 1 \in Nat \ {0}
    BY <1>1
  <2>2. QED
    BY <1>1, <2>1 DEF Requests, Running
<1>5. req' = [req EXCEPT ![r] = x]
  BY <1>1 DEF Wake, GeminiInv, GeminiTypeOK, Requests
<1> HIDE DEF x
<1>6. Fine(x, r \in fresh')
  <2>1. /\ old.pos <= Len(old.chain) /\ old.attempt <= MaxRetries
        /\ old.drawn <= Spent(old.pos, old.attempt)
        /\ old.drawn <= Len(old.chain) * MaxRetries + 1
        /\ r \in fresh => \A i \in 1..Len(old.chain) : i < old.pos => left[old.chain[i]] = 0
    BY <1>1, <1>2 DEF Fine
  <2>2. x.attempt - 1 = old.attempt /\ x.attempt <= MaxRetries + 1
    BY <1>1, <1>3, <2>1
  <2>3. QED
    BY <1>2, <1>3, <1>4, <2>1, <2>2 DEF Fine
<1>7. QED
  BY <1>2, <1>5, <1>6, OneRequest DEF GeminiInv, GeminiTypeOK

LEMMA WorkStep ==
  ASSUME GeminiInv, NEW r \in Request, Work(r)
  PROVE  GeminiInv'
<1>0. left \in [Model -> 0..Allowance]
  BY DEF GeminiInv, GeminiTypeOK
<1>1. CASE Refused(r)
  BY <1>1, AdvanceStep
<1>2. CASE Dropped(r)
  <2>1. PICK n \in {0, 1} :
          Draws(r, n) /\ To(r, IF LastAttempt(r) THEN "error" ELSE "sleeping", n)
    BY <1>2 DEF Dropped
  <2>2. req[r].at = "calling" /\ fresh' = fresh
    BY <1>2 DEF Dropped
  <2>3. CASE LastAttempt(r)
    BY <2>1, <2>2, <2>3, DrawnLeft, ToStep
  <2>4. CASE ~LastAttempt(r)
    BY <2>1, <2>2, <2>4, DrawnLeft, ToStep DEF LastAttempt
  <2>5. QED
    BY <2>3, <2>4
<1>3. CASE Wake(r)
  BY <1>3, WakeStep
<1>4. CASE FailsForGood(r)
  BY <1>0, <1>4, ToStep DEF FailsForGood
<1>5. CASE Replies(r)
  <2>1. req[r].at = "calling" /\ fresh' = fresh /\ Draws(r, 1)
    BY <1>5 DEF Replies
  <2>2. PICK a \in {"answer", "error"} : To(r, a, 1)
    BY <1>5 DEF Replies
  <2>3. QED
    BY <2>1, <2>2, DrawnLeft, ToStep
<1>6. QED
  BY <1>1, <1>2, <1>3, <1>4, <1>5 DEF Work

-----------------------------------------------------------------------------
(* The script asks for what is not on disk, and writes what it has emptied.*)
AsksForMissing ==
  /\ at \in 0..Len(Items) /\ step \in {"look", "ask", "write"}
  /\ file \in [Item -> {"none", "torn", "whole"}]
  /\ at # 0 /\ step = "ask" => file[Items[at]] = "none"

RecordingInv == GeminiInv /\ AsksForMissing

LEMMA Places ==
  /\ Len(Items) \in Nat
  /\ \A i \in 1..Len(Items) : Items[i] \in Item /\ Items[i] \in Request
<1>1. Items \in Seq(Request)
  BY RecordingAssumption
<1>2. Len(Items) \in Nat /\ DOMAIN Items = 1..Len(Items)
  BY <1>1
<1>3. QED
  BY <1>1, <1>2 DEF Item

LEMMA RecordingInit == Init => RecordingInv
<1> SUFFICES ASSUME Init PROVE RecordingInv
  OBVIOUS
<1>1. GeminiInv
  BY InitialGemini DEF Init
<1>2. AsksForMissing
  BY Places DEF Init, AsksForMissing
<1>3. QED
  BY <1>1, <1>2 DEF RecordingInv

LEMMA NextGemini ==
  ASSUME RecordingInv, [Next]_vars
  PROVE  GeminiInv'
<1>1. GeminiInv /\ (at # 0 => Items[at] \in Request)
  BY Places DEF RecordingInv, AsksForMissing
<1>2. ASSUME UNCHANGED gvars PROVE GeminiInv'
  BY <1>1, <1>2 DEF gvars, GeminiInv, GeminiTypeOK, FallsBackOnlyWhenSpent, Costs, SleepsBeforeLast
<1>3. CASE UNCHANGED vars
  BY <1>2, <1>3 DEF vars, gvars
<1>4. ASSUME NEW r \in Request, Visit(r) PROVE GeminiInv'
  BY <1>1, <1>4, BeginStep DEF Visit
<1>5. ASSUME NEW r \in Request, Generate(r) PROVE GeminiInv'
  BY <1>1, <1>5, WorkStep DEF Generate
<1>6. CASE StartScript \/ Reuse \/ ReadsTorn \/ Write
  BY <1>2, <1>6 DEF StartScript, Reuse, ReadsTorn, Write, gvars
<1>7. CASE Ask
  BY <1>1, <1>7, BeginStep DEF Ask, AtStep
<1>8. CASE Skip \/ Open \/ Kill
  BY <1>1, <1>8, ForgetStep DEF Skip, Open, Kill, AtStep
<1>9. CASE NewWindow /\ Quiet
  BY <1>1, <1>9, WindowStep
<1>10. QED
  BY <1>3, <1>4, <1>5, <1>6, <1>7, <1>8, <1>9 DEF Next, Script

LEMMA NextFiles ==
  ASSUME RecordingInv, [Next]_vars
  PROVE  AsksForMissing'
<1>1. AsksForMissing
  BY DEF RecordingInv
<1>2. ASSUME UNCHANGED <<file, at, step>> PROVE AsksForMissing'
  BY <1>1, <1>2 DEF AsksForMissing
<1>3. CASE UNCHANGED vars
  BY <1>2, <1>3 DEF vars
<1>4. ASSUME NEW r \in Request, Visit(r) \/ Generate(r) PROVE AsksForMissing'
  BY <1>2, <1>4 DEF Visit, Generate, Quiet
<1>5. CASE StartScript \/ ReadsTorn \/ Kill
  <2>1. at' \in 0..Len(Items) /\ (at' = 0 \/ step' = "look")
        /\ file' = file /\ step' \in {"look", "ask", "write"}
    <3>1. CASE StartScript
      BY <1>1, <3>1, RecordingAssumption, Places DEF StartScript, AsksForMissing
    <3>2. CASE ReadsTorn
      BY <1>1, <3>2, Places DEF ReadsTorn, AsksForMissing
    <3>3. CASE Kill
      BY <1>1, <3>3, Places DEF Kill, AsksForMissing
    <3>4. QED
      BY <1>5, <3>1, <3>2, <3>3
  <2>2. QED
    BY <1>1, <2>1 DEF AsksForMissing
<1>6. CASE Reuse \/ Skip \/ Write
  <2>1. at # 0 /\ at \in 0..Len(Items) /\ NextItem
    BY <1>1, <1>6 DEF Reuse, Skip, Write, AtStep, AsksForMissing
  <2>2. at' \in 0..Len(Items) /\ step' = "look"
    BY <2>1, Places DEF NextItem
  <2>3. file' \in [Item -> {"none", "torn", "whole"}]
    BY <1>1, <1>6 DEF Reuse, Skip, Write, AsksForMissing
  <2>4. QED
    BY <2>2, <2>3 DEF AsksForMissing
<1>7. CASE Ask
  BY <1>1, <1>7 DEF Ask, AtStep, AsksForMissing
<1>8. CASE Open
  BY <1>1, <1>8 DEF Open, AtStep, AsksForMissing
<1>9. CASE NewWindow /\ Quiet
  BY <1>2, <1>9 DEF Quiet
<1>10. QED
  BY <1>3, <1>4, <1>5, <1>6, <1>7, <1>8, <1>9 DEF Next, Script

THEOREM RecordingInvariant == Spec => []RecordingInv
<1>1. RecordingInv /\ [Next]_vars => RecordingInv'
  BY NextGemini, NextFiles DEF RecordingInv
<1>2. QED
  BY <1>1, RecordingInit, PTL DEF Spec

(* Whatever requests run beside each other and however the API fails, a    *)
(* request leaves a model behind only when its allowance is spent.         *)
THEOREM LeavesOnlySpent == Spec => []FallsBackOnlyWhenSpent
<1>1. RecordingInv => FallsBackOnlyWhenSpent
  BY DEF RecordingInv, GeminiInv
<1>2. QED
  BY <1>1, RecordingInvariant, PTL

(* One request costs the allowances at most its retries on every model of  *)
(* its chain, and one call more.                                           *)
THEOREM CostIsBounded == Spec => []DrawsAreBounded
<1>1. RecordingInv => DrawsAreBounded
  BY DEF RecordingInv, GeminiInv, Costs, DrawsAreBounded
<1>2. QED
  BY <1>1, RecordingInvariant, PTL

(* However often the script is run and wherever it dies, a recording once  *)
(* whole stays: only what is missing is asked for, and only what was asked *)
(* for is opened.                                                          *)
THEOREM RecordingsStay == Spec => NothingRecordedIsLost
<1> DEFINE Stay == \A i \in Item : file[i] = "whole" => file'[i] = "whole"
<1>1. RecordingInv /\ [Next]_vars => [Stay]_file
  <2> SUFFICES ASSUME RecordingInv, Next, file' # file
               PROVE  Stay
    BY DEF vars
  <2>1. AsksForMissing
    BY DEF RecordingInv
  <2>2. Open \/ Write
    BY DEF Next, Script, Visit, Generate, StartScript, Reuse, ReadsTorn, Ask, Skip, Kill, Quiet
  <2>3. CASE Open
    BY <2>1, <2>3 DEF Open, AtStep, AsksForMissing
  <2>4. CASE Write
    BY <2>1, <2>4 DEF Write, AsksForMissing
  <2>5. QED
    BY <2>2, <2>3, <2>4
<1>2. QED
  BY <1>1, RecordingInvariant, PTL DEF Spec, NothingRecordedIsLost
=============================================================================
