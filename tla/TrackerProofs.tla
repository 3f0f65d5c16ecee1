--------------------------- MODULE TrackerProofs ---------------------------
(***************************************************************************)
(* What holds of Tracker for every number of tasks and of requests.  The   *)
(* invariant of the dependencies is stated with closed sets of tasks       *)
(* (above each task there is one that it is not in), which a write of one  *)
(* link keeps and which the walks of the code, recursive functions here,   *)
(* are shown to find.                                                      *)
(***************************************************************************)
EXTENDS Tracker, FiniteSetTheorems, WellFoundedInduction, TLAPS

(***************************************************************************)
(* Induction over numbers, from the least counterexample.                  *)
(***************************************************************************)
LEMMA LeastNatural ==
  ASSUME NEW T \in SUBSET Nat, T # {}
  PROVE  \E n \in T : \A m \in T : n <= m
  <1> DEFINE R == {x \in Nat \X Nat : x[1] < x[2]}
  <1>1. OpToRel(<, Nat) = R
    BY DEF OpToRel
  <1>2. IsWellFoundedOn(R, Nat)
    BY <1>1, NatLessThanWellFounded
  <1> HIDE DEF R
  <1>3. PICK n \in T : \A m \in T : ~(<<m, n>> \in R)
    BY <1>2, WFMin
  <1>4. \A m \in T : ~(m < n)
    BY <1>3 DEF R
  <1> QED
    BY <1>4

LEMMA Induction ==
  ASSUME NEW S \in SUBSET Nat, 0 \in S, \A n \in S : n + 1 \in S
  PROVE  S = Nat
  <1> SUFFICES ASSUME Nat \ S # {} PROVE FALSE
    OBVIOUS
  <1>1. PICK n \in Nat \ S : \A m \in Nat \ S : n <= m
    BY LeastNatural
  <1>2. n # 0 /\ n - 1 \in Nat
    BY <1>1
  <1>3. n - 1 \in S
    BY <1>1, <1>2
  <1> QED
    BY <1>1, <1>3

(* A function defined by its value at 0 and its step.                      *)
Iterates(X, F, x, n, f) ==
  f \in [0..n -> X] /\ \A k \in 0..n : f[k] = IF k = 0 THEN x ELSE F[f[k - 1]]

LEMMA IterationExists ==
  ASSUME NEW X, NEW F \in [X -> X], NEW x \in X, NEW n \in Nat
  PROVE  \E f : Iterates(X, F, x, n, f)
  <1> DEFINE Is(f, m) == \A k \in 0..m : f[k] = IF k = 0 THEN x ELSE F[f[k - 1]]
             S == {m \in Nat : \E f \in [0..m -> X] : Is(f, m)}
  <1>1. 0 \in S
    <2>1. Is([k \in 0..0 |-> x], 0)
      OBVIOUS
    <2> QED
      BY <2>1
  <1>2. ASSUME NEW m \in S PROVE m + 1 \in S
    <2>1. PICK f \in [0..m -> X] : Is(f, m)
      OBVIOUS
    <2> DEFINE g == [k \in 0..(m + 1) |-> IF k = m + 1 THEN F[f[m]] ELSE f[k]]
    <2>2. g \in [0..(m + 1) -> X]
      OBVIOUS
    <2>3. ASSUME NEW k \in 0..(m + 1) PROVE g[k] = IF k = 0 THEN x ELSE F[g[k - 1]]
      <3>1. CASE k = m + 1
        BY <3>1
      <3>2. CASE k # m + 1
        <4>1. k \in 0..m /\ g[k] = f[k] /\ (k # 0 => k - 1 \in 0..m /\ g[k - 1] = f[k - 1])
          BY <3>2
        <4>2. f[k] = IF k = 0 THEN x ELSE F[f[k - 1]]
          BY <2>1, <4>1
        <4> QED
          BY <4>1, <4>2
      <3> QED
        BY <3>1, <3>2
    <2> HIDE DEF g
    <2>4. Is(g, m + 1)
      BY <2>2, <2>3
    <2> QED
      BY <2>2, <2>4
  <1> HIDE DEF S
  <1>3. S = Nat
    <2>1. S \in SUBSET Nat
      BY DEF S
    <2> QED
      BY <1>1, <1>2, <2>1, Induction
  <1> QED
    BY <1>3 DEF S, Iterates

(* The tasks each task of the project waits for.                           *)
Links == [t \in Tasks |-> Parent(t)]

Closed(links, S) == S \subseteq DOMAIN links /\ \A t \in S : links[t] \subseteq S

(* The recursion of Above is a function.                                   *)
LEMMA AboveSteps ==
  ASSUME NEW t \in Tasks, NEW n \in Nat, Links \in [Tasks -> SUBSET Tasks]
  PROVE  \E f \in [0..n -> SUBSET Tasks] :
           /\ Above(t, n) = f[n] /\ f[0] = {t}
           /\ \A k \in 0..n : k # 0 => f[k] = f[k - 1] \cup UNION {Links[u] : u \in f[k - 1]}
  <1> DEFINE F == [S \in SUBSET Tasks |-> S \cup UNION {Links[u] : u \in S}]
             H(f) == [k \in 0..n |-> IF k = 0 THEN {t}
                                     ELSE f[k - 1] \cup UNION {Parent(u) : u \in f[k - 1]}]
             met == CHOOSE f : f = H(f)
  <1>1. Above(t, n) = met[n]
    BY DEF Above
  <1>2. F \in [SUBSET Tasks -> SUBSET Tasks] /\ {t} \in SUBSET Tasks
    OBVIOUS
  <1>3. PICK f \in [0..n -> SUBSET Tasks] :
          \A k \in 0..n : f[k] = IF k = 0 THEN {t} ELSE F[f[k - 1]]
    <2> HIDE DEF F
    <2>1. \E f : Iterates(SUBSET Tasks, F, {t}, n, f)
      BY <1>2, IterationExists
    <2> QED
      BY <2>1 DEF Iterates
  <1>4. ASSUME NEW S \in SUBSET Tasks PROVE F[S] = S \cup UNION {Parent(u) : u \in S}
    BY <1>4 DEF Links
  <1> HIDE DEF F
  <1>5. ASSUME NEW k \in 0..n
        PROVE  f[k] = IF k = 0 THEN {t} ELSE f[k - 1] \cup UNION {Parent(u) : u \in f[k - 1]}
    <2>1. f[k] = IF k = 0 THEN {t} ELSE F[f[k - 1]]
      BY <1>3
    <2>2. k # 0 => k - 1 \in 0..n
      OBVIOUS
    <2>3. k # 0 => f[k - 1] \in SUBSET Tasks
      BY <2>2
    <2> QED
      BY <1>4, <2>1, <2>3
  <1>6. f = H(f)
    BY <1>5
  <1>7. met = H(met)
    <2> HIDE DEF H
    <2> QED
      BY <1>6
  <1>8. ASSUME NEW k \in 0..n
        PROVE  met[k] = IF k = 0 THEN {t} ELSE met[k - 1] \cup UNION {Parent(u) : u \in met[k - 1]}
    BY <1>7
  <1> HIDE DEF met, H
  <1>9. \A k \in 0..n : met[k] = f[k]
    <2> DEFINE T == {k \in 0..n : met[k] # f[k]}
    <2> SUFFICES ASSUME T # {} PROVE FALSE
      OBVIOUS
    <2>1. PICK k \in T : \A m \in T : k <= m
      <3>1. T \in SUBSET Nat
        OBVIOUS
      <3> HIDE DEF T
      <3> QED
        BY <3>1, LeastNatural
    <2>2. CASE k = 0
      BY <1>5, <1>8, <2>2
    <2>3. CASE k # 0
      <3>1. k - 1 \in 0..n /\ met[k - 1] = f[k - 1]
        BY <2>1, <2>3
      <3> QED
        BY <1>5, <1>8, <2>3, <3>1
    <2> QED
      BY <2>2, <2>3
  <1>10. /\ Above(t, n) = f[n] /\ f[0] = {t}
    BY <1>1, <1>5, <1>9
  <1>11. ASSUME NEW k \in 0..n, k # 0 PROVE f[k] = f[k - 1] \cup UNION {Links[u] : u \in f[k - 1]}
    <2>1. k - 1 \in 0..n /\ f[k - 1] \in SUBSET Tasks
      BY <1>11
    <2>2. \A u \in f[k - 1] : Links[u] = Parent(u)
      BY <2>1 DEF Links
    <2> QED
      BY <1>5, <1>11, <2>2
  <1> QED
    BY <1>10, <1>11

(* What Above(t, |Task|) holds is what t waits for, however far up: the    *)
(* sets met grow by a task at least until they are closed.                 *)
LEMMA AboveIsClosure ==
  ASSUME NEW t \in Tasks, Links \in [Tasks -> SUBSET Tasks]
  PROVE  /\ t \in Above(t, Cardinality(Task)) /\ Closed(Links, Above(t, Cardinality(Task)))
         /\ \A S : Closed(Links, S) /\ t \in S => Above(t, Cardinality(Task)) \subseteq S
  <1> DEFINE n == Cardinality(Task)
             Next1(S) == S \cup UNION {Links[u] : u \in S}
  <1>1. IsFiniteSet(Task) /\ n \in Nat /\ Tasks \subseteq Task
    BY TrackerAssumption, FS_CardinalityType DEF Tasks
  <1>2. PICK f \in [0..n -> SUBSET Tasks] :
           /\ Above(t, n) = f[n] /\ f[0] = {t}
           /\ \A k \in 0..n : k # 0 => f[k] = Next1(f[k - 1])
    BY <1>1, AboveSteps
  <1> HIDE DEF n
  <1>s. ASSUME NEW k \in Nat, k + 1 \in 0..n
        PROVE  k \in 0..n /\ f[k + 1] = Next1(f[k])
    <2> HIDE DEF Next1
    <2> DEFINE j == k + 1
    <2>1. k \in 0..n /\ j \in 0..n /\ j # 0 /\ j - 1 = k
      BY <1>1, <1>s
    <2>2. f[j] = Next1(f[j - 1])
      BY <1>2, <2>1
    <2> QED
      BY <2>1, <2>2
  <1>3. ASSUME NEW S, Closed(Links, S), t \in S
        PROVE  f[n] \subseteq S
    <2> DEFINE T == {k \in Nat : k \in 0..n => f[k] \subseteq S}
    <2>1. 0 \in T
      BY <1>2, <1>3
    <2>2. ASSUME NEW k \in T PROVE k + 1 \in T
      <3> SUFFICES ASSUME k + 1 \in 0..n PROVE f[k + 1] \subseteq S
        BY <2>2
      <3>1. k \in 0..n /\ f[k] \subseteq S /\ f[k + 1] = Next1(f[k])
        BY <1>s, <2>2
      <3> QED
        BY <1>3, <3>1 DEF Closed
    <2>3. T = Nat
      <3>1. T \in SUBSET Nat
        OBVIOUS
      <3> HIDE DEF T
      <3> QED
        BY <2>1, <2>2, <3>1, Induction
    <2> QED
      BY <1>1, <2>3
  <1>4. ASSUME NEW k \in 0..n PROVE IsFiniteSet(f[k]) /\ Cardinality(f[k]) \in Nat /\ Cardinality(f[k]) <= n
    <2>1. f[k] \subseteq Task
      BY <1>1, <1>2
    <2> QED
      BY <1>1, <2>1, FS_Subset, FS_CardinalityType DEF n
  <1>5. \A k \in 0..n : Next1(f[k]) = f[k] \/ k + 1 <= Cardinality(f[k])
    <2> DEFINE T == {k \in Nat : k \in 0..n => Next1(f[k]) = f[k] \/ k + 1 <= Cardinality(f[k])}
    <2>1. 0 \in T
      <3>1. Cardinality({t}) = 1 /\ f[0] = {t}
        BY <1>2, FS_Singleton
      <3>2. 0 + 1 <= Cardinality(f[0])
        BY <3>1
      <3> QED
        BY <3>2
    <2>2. ASSUME NEW k \in T PROVE k + 1 \in T
      <3> HIDE DEF Next1
      <3> SUFFICES ASSUME k + 1 \in 0..n, Next1(f[k + 1]) # f[k + 1]
                   PROVE  (k + 1) + 1 <= Cardinality(f[k + 1])
        BY <2>2
      <3>1. k \in 0..n /\ k \in Nat /\ f[k + 1] = Next1(f[k])
        BY <1>s, <2>2
      <3>2. Next1(f[k]) # f[k]
        BY <3>1
      <3>3. k + 1 <= Cardinality(f[k])
        BY <2>2, <3>1, <3>2
      <3>4. f[k] \subseteq f[k + 1] /\ f[k] # f[k + 1]
        BY <3>1, <3>2 DEF Next1
      <3> DEFINE A == f[k]
                 B == f[k + 1]
      <3>5. IsFiniteSet(B) /\ Cardinality(A) \in Nat /\ Cardinality(B) \in Nat /\ A \subseteq B /\ A # B
            /\ k + 1 <= Cardinality(A)
        BY <1>4, <2>2, <3>1, <3>3, <3>4
      <3> HIDE DEF A, B
      <3>6. Cardinality(A) <= Cardinality(B) /\ Cardinality(A) # Cardinality(B)
        BY <3>5, FS_Subset
      <3>7. (k + 1) + 1 <= Cardinality(B)
        BY <3>1, <3>5, <3>6
      <3> QED
        BY <3>7 DEF B
    <2>3. T = Nat
      <3>1. T \in SUBSET Nat
        OBVIOUS
      <3> HIDE DEF T
      <3> QED
        BY <2>1, <2>2, <3>1, Induction
    <2> QED
      BY <1>1, <2>3
  <1>6. Next1(f[n]) = f[n]
    <2>1. n \in 0..n
      BY <1>1
    <2> QED
      BY <1>1, <1>4, <1>5, <2>1
  <1>7. Closed(Links, f[n])
    <2>1. f[n] \in SUBSET Tasks
      BY <1>1, <1>2
    <2> QED
      BY <1>6, <2>1 DEF Closed
  <1>8. t \in f[n]
    <2> DEFINE T == {k \in Nat : k \in 0..n => t \in f[k]}
    <2>1. 0 \in T
      BY <1>2
    <2>2. ASSUME NEW k \in T PROVE k + 1 \in T
      <3> SUFFICES ASSUME k + 1 \in 0..n PROVE t \in f[k + 1]
        BY <2>2
      <3>1. k \in 0..n /\ t \in f[k] /\ f[k + 1] = Next1(f[k])
        BY <1>s, <2>2
      <3> QED
        BY <3>1
    <2>3. T = Nat
      <3>1. T \in SUBSET Nat
        OBVIOUS
      <3> HIDE DEF T
      <3> QED
        BY <2>1, <2>2, <3>1, Induction
    <2> QED
      BY <1>1, <2>3
  <1> QED
    BY <1>2, <1>3, <1>7, <1>8 DEF n

-----------------------------------------------------------------------------
(***************************************************************************)
(* Links without a cycle: above each task there is a closed set of tasks   *)
(* that it is not in.                                                      *)
(***************************************************************************)
Acyclic(links) ==
  \A t \in DOMAIN links : \E S \in SUBSET DOMAIN links : Closed(links, S) /\ links[t] \subseteq S /\ t \notin S

(* Fewer tasks and fewer links keep it so.                                 *)
LEMMA FewerLinks ==
  ASSUME NEW links, Acyclic(links), NEW fewer, DOMAIN fewer \subseteq DOMAIN links,
         \A t \in DOMAIN fewer : fewer[t] \subseteq links[t] \cap DOMAIN fewer
  PROVE  Acyclic(fewer)
  <1> SUFFICES ASSUME NEW t \in DOMAIN fewer
               PROVE  \E S \in SUBSET DOMAIN fewer : Closed(fewer, S) /\ fewer[t] \subseteq S /\ t \notin S
    BY DEF Acyclic
  <1>1. PICK S : Closed(links, S) /\ links[t] \subseteq S /\ t \notin S
    BY DEF Acyclic
  <1>2. Closed(fewer, S \cap DOMAIN fewer)
    BY <1>1 DEF Closed
  <1>3. fewer[t] \subseteq S \cap DOMAIN fewer /\ t \notin S \cap DOMAIN fewer
    BY <1>1
  <1> QED
    BY <1>2, <1>3

(* So does a task that nothing waits for yet.                              *)
LEMMA NewTask ==
  ASSUME NEW links, Acyclic(links), NEW t, t \notin DOMAIN links,
         \A u \in DOMAIN links : links[u] \subseteq DOMAIN links,
         NEW more, DOMAIN more = DOMAIN links \cup {t}, more[t] \subseteq DOMAIN links,
         \A u \in DOMAIN links : more[u] = links[u]
  PROVE  Acyclic(more)
  <1> SUFFICES ASSUME NEW u \in DOMAIN more
               PROVE  \E S \in SUBSET DOMAIN more : Closed(more, S) /\ more[u] \subseteq S /\ u \notin S
    BY DEF Acyclic
  <1>1. CASE u = t
    <2>1. Closed(more, DOMAIN links)
      BY DEF Closed
    <2> QED
      BY <1>1, <2>1
  <1>2. CASE u # t
    <2>1. PICK S : Closed(links, S) /\ links[u] \subseteq S /\ u \notin S
      BY <1>2 DEF Acyclic
    <2>2. Closed(more, S)
      BY <2>1 DEF Closed
    <2> QED
      BY <1>2, <2>1, <2>2 DEF Closed
  <1> QED
    BY <1>1, <1>2

(* And a task that waits for another one instead, if that one does not     *)
(* wait for it.                                                            *)
LEMMA Relink ==
  ASSUME NEW links, Acyclic(links), NEW t \in DOMAIN links,
         NEW A, Closed(links, A), t \notin A,
         NEW other, DOMAIN other = DOMAIN links, other[t] \subseteq A,
         \A u \in DOMAIN links : u # t => other[u] = links[u]
  PROVE  Acyclic(other)
  <1> SUFFICES ASSUME NEW u \in DOMAIN links
               PROVE  \E S \in SUBSET DOMAIN other : Closed(other, S) /\ other[u] \subseteq S /\ u \notin S
    BY DEF Acyclic
  <1>0. Closed(other, A)
    BY DEF Closed
  <1>1. CASE u = t
    BY <1>0, <1>1 DEF Closed
  <1>2. CASE u # t
    <2>1. PICK S : Closed(links, S) /\ links[u] \subseteq S /\ u \notin S
      BY <1>2 DEF Acyclic
    <2>2. CASE u \in A
      <3>1. Closed(other, S \cap A)
        BY <2>1 DEF Closed
      <3>2. other[u] \subseteq S \cap A /\ u \notin S \cap A
        BY <1>2, <2>1, <2>2 DEF Closed
      <3> QED
        BY <3>1, <3>2 DEF Closed
    <2>3. CASE u \notin A
      <3>1. Closed(other, S \cup A)
        BY <2>1 DEF Closed
      <3>2. other[u] \subseteq S \cup A /\ u \notin S \cup A
        BY <1>2, <2>1, <2>3
      <3> QED
        BY <3>1, <3>2 DEF Closed
    <2> QED
      BY <2>2, <2>3
  <1> QED
    BY <1>1, <1>2

-----------------------------------------------------------------------------
TaskFacts ==
  /\ \A t \in Tasks : task[t] \in Row /\ task[t].on \in Task \cup {None}
  /\ \A t \in Tasks : task[t].on # None => task[t].on \in Tasks
  /\ \A t \in Tasks : Parent(t) = IF task[t].on = None THEN {} ELSE {task[t].on}
  /\ Links \in [Tasks -> SUBSET Tasks] /\ DOMAIN Links = Tasks
  /\ \A t \in Tasks : Links[t] = Parent(t)

LEMMA TrackerTypes == TypeOK => TaskFacts
  <1> SUFFICES ASSUME TypeOK PROVE TaskFacts
    OBVIOUS
  <1>1. \A t \in Tasks : task[t] \in Row /\ task[t].on \in Task \cup {None}
    BY DEF TypeOK, Tasks, Row
  <1>2. \A t \in Tasks : task[t].on # None => task[t].on \in Tasks /\ task[task[t].on] # NoRow
    BY <1>1 DEF TypeOK, Tasks
  <1>3. \A t \in Tasks : Parent(t) = IF task[t].on = None THEN {} ELSE {task[t].on}
    BY <1>2 DEF Parent
  <1>4. \A t \in Tasks : Parent(t) \subseteq Tasks
    BY <1>2, <1>3
  <1> QED
    BY <1>1, <1>2, <1>3, <1>4 DEF Links, TaskFacts

LEMMA TrackerTypesNext == TypeOK' => TaskFacts'
  BY TrackerTypes, PTL

(* The invariant and the check of the code, by closed sets.                *)
LEMMA AcyclicMeansNoCycle ==
  ASSUME TypeOK, Acyclic(Links), NEW t \in Tasks
  PROVE  t \notin AboveAll(t)
  <1>1. Links \in [Tasks -> SUBSET Tasks] /\ DOMAIN Links = Tasks /\ Links[t] = Parent(t)
    BY TrackerTypes DEF TaskFacts
  <1>2. PICK S : Closed(Links, S) /\ Links[t] \subseteq S /\ t \notin S
    BY <1>1 DEF Acyclic
  <1>3. \A u \in Parent(t) : Above(u, Cardinality(Task)) \subseteq S
    BY <1>1, <1>2, AboveIsClosure DEF Closed
  <1> QED
    BY <1>2, <1>3 DEF AboveAll

LEMMA ValidMeansClosed ==
  ASSUME TypeOK, NEW t, NEW on, ValidDependency(t, on)
  PROVE  \E S \in SUBSET Tasks : Closed(Links, S) /\ on \in S /\ t \notin S
  BY TrackerTypes, AboveIsClosure DEF ValidDependency, TaskFacts, Closed

-----------------------------------------------------------------------------
(* What a request holds.                                                   *)
LEMMA CallFacts ==
  ASSUME TypeOK, NEW r \in Request
  PROVE  LET c == call[r] IN
         /\ c.kind = "update" => c.task \in Task /\ c.old \in Row /\ c.new \in Row
         /\ c.kind = "create" => c.task \in Task /\ c.new \in Row
         /\ c.kind = "delete" => c.task \in Task
         /\ c.kind = "assess" => c.old \in Project
  <1>1. call[r] \in Calls \cup {Idle}
    BY DEF TypeOK
  <1> QED
    BY <1>1 DEF Calls, TaskCalls, Idle

(* Columns of a row come from the row as it is or from the new one.        *)
LEMMA WrittenRow ==
  ASSUME NEW old \in Row, NEW new \in Row, NEW now \in Row
  PROVE  /\ Written(old, new, now) \in Row
         /\ Written(old, new, now).on = IF new.on # old.on THEN new.on ELSE now.on
  <1> DEFINE w == Written(old, new, now)
             Col(k) == IF new[k] # old[k] THEN new[k] ELSE now[k]
  <1>1. w = [k \in {"status", "note", "on"} |-> Col(k)]
    BY DEF Written, Row
  <1>2. Col("status") \in Status /\ Col("note") \in BOOLEAN /\ Col("on") \in Task \cup {None}
    BY DEF Row
  <1>3. w = [status |-> Col("status"), note |-> Col("note"), on |-> Col("on")]
    BY <1>1
  <1> QED
    BY <1>2, <1>3 DEF Row

LEMMA WrittenProject ==
  ASSUME NEW old \in Project, NEW new \in Project, NEW now \in Project
  PROVE  /\ Written(old, new, now) \in Project
         /\ old = now => Written(old, new, now) = new
  <1> DEFINE w == Written(old, new, now)
             Col(k) == IF new[k] # old[k] THEN new[k] ELSE now[k]
  <1>1. w = [k \in {"health", "why"} |-> Col(k)]
    BY DEF Written, Project
  <1>2. Col("health") \in Health \cup {None} /\ Col("why") \in Answer \cup {None}
    BY DEF Project
  <1>3. w = [health |-> Col("health"), why |-> Col("why")]
    BY <1>1
  <1>4. old = now => Col("health") = new.health /\ Col("why") = new.why
    OBVIOUS
  <1>5. new = [health |-> new.health, why |-> new.why]
    BY DEF Project
  <1> QED
    BY <1>2, <1>3, <1>4, <1>5 DEF Project

LEMMA BeginTypes ==
  ASSUME TypeOK, NEW r \in Request, NEW c \in Calls, Begin(r, c)
  PROVE  TypeOK'
  BY TrackerAssumption DEF TypeOK, Begin

(* A step that ends r with rows that are well typed.                       *)
LEMMA EndTypes ==
  ASSUME TypeOK, NEW r \in Request, End(r),
         project' \in Project \cup {NoRow}, task' \in [Task -> Row \cup {NoRow}],
         \A t \in Task :
           task'[t] # NoRow =>
             project' # NoRow /\ (task'[t].on # None => task'[task'[t].on] # NoRow)
  PROVE  TypeOK'
  BY DEF TypeOK, End

LEMMA MovedRow ==
  ASSUME NEW row \in Row, NEW status \in Status, NEW note \in BOOLEAN, NEW on \in Task \cup {None}
  PROVE  /\ [Moved(row, status, note) EXCEPT !.on = on] \in Row
         /\ [Moved(row, status, note) EXCEPT !.on = on].on = on
  <1> DEFINE blocked == status = "blocked" /\ (row.note \/ note)
             m == Moved(row, status, note)
  <1>1. blocked \in BOOLEAN
    OBVIOUS
  <1>2. m = [row EXCEPT !.status = status, !.note = blocked]
    BY DEF Moved
  <1> HIDE DEF blocked, m
  <1>3. m \in Row
    BY <1>1, <1>2 DEF Row
  <1> QED
    BY <1>3 DEF Row, m

LEMMA BeginUpdateCall ==
  ASSUME TypeOK, NEW r \in Request, NEW t \in Task, NEW status \in Status, NEW note \in BOOLEAN,
         NEW on \in Task \cup {None}, BeginUpdate(r, t, status, note, on)
  PROVE  \E c \in Calls :
           /\ Begin(r, c) /\ c.kind = "update" /\ c.task = t /\ t \in Tasks /\ c.old = task[t]
           /\ c.new.on = on /\ (on \notin {None, task[t].on} => ValidDependency(t, on))
  <1> DEFINE new == [Moved(task[t], status, note) EXCEPT !.on = on]
             c == [kind |-> "update", task |-> t, old |-> task[t], new |-> new]
  <1>1. /\ t \in Tasks /\ Begin(r, c)
        /\ on \notin {None, task[t].on} => ValidDependency(t, on)
    BY DEF BeginUpdate
  <1>2. task[t] \in Row
    BY <1>1, TrackerTypes DEF TaskFacts
  <1>3. new \in Row /\ new.on = on
    BY <1>2, MovedRow
  <1> HIDE DEF new
  <1>4. c \in Calls
    BY <1>2, <1>3 DEF Calls, TaskCalls
  <1> QED
    BY <1>1, <1>3, <1>4

LEMMA BeginCreateCall ==
  ASSUME TypeOK, NEW r \in Request, NEW t \in Task, NEW status \in Status, NEW note \in BOOLEAN,
         NEW on \in Task \cup {None}, BeginCreate(r, t, status, note, on)
  PROVE  \E c \in Calls : Begin(r, c) /\ c.kind = "create"
  <1> DEFINE blocked == note /\ status = "blocked"
             c == [kind |-> "create", task |-> t, new |-> [status |-> status, note |-> blocked, on |-> on]]
  <1>1. Begin(r, c)
    BY DEF BeginCreate
  <1>2. blocked \in BOOLEAN
    OBVIOUS
  <1> HIDE DEF blocked
  <1>3. c \in Calls
    BY <1>2 DEF Calls, TaskCalls, Row
  <1> QED
    BY <1>1, <1>3

LEMMA OtherCalls ==
  ASSUME TypeOK, NEW r \in Request
  PROVE  /\ \A t \in Task : BeginDelete(r, t) =>
              \E c \in Calls : Begin(r, c) /\ c.kind = "delete" /\ c.task = t
         /\ BeginDrop(r) => \E c \in Calls : Begin(r, c) /\ c.kind = "drop"
         /\ BeginAssess(r) => project # NoRow /\ \E c \in Calls : Begin(r, c) /\ c.kind = "assess" /\ c.old = project
  <1>1. project # NoRow => [kind |-> "assess", old |-> project] \in Calls
    BY DEF TypeOK, Calls
  <1>2. [kind |-> "drop"] \in Calls /\ \A t \in Task : [kind |-> "delete", task |-> t] \in Calls
    BY DEF Calls, TaskCalls
  <1> QED
    BY <1>1, <1>2 DEF BeginDelete, BeginDrop, BeginAssess

-----------------------------------------------------------------------------
(* What each commit does to the rows and their links.                      *)
LEMMA UpdateEffect ==
  ASSUME TypeOK, NEW r \in Request, CommitUpdate(r)
  PROVE  LET c == call[r] IN
         /\ TypeOK' /\ Tasks' = Tasks /\ c.task \in Tasks
         /\ \A t \in Task : t # c.task => task'[t] = task[t]
         /\ task'[c.task].on = IF c.new.on # c.old.on THEN c.new.on ELSE task[c.task].on
  <1> DEFINE c == call[r]
             w == Written(c.old, c.new, task[c.task])
  <1>1. /\ c.kind = "update" /\ c.task \in Tasks /\ MayDepend(c.old.on, c.new.on)
        /\ task' = [task EXCEPT ![c.task] = w] /\ End(r) /\ UNCHANGED project
    BY DEF CommitUpdate
  <1>2. c.task \in Task /\ c.old \in Row /\ c.new \in Row /\ task[c.task] \in Row
    BY <1>1, CallFacts, TrackerTypes DEF TaskFacts
  <1>3. w \in Row /\ w.on = IF c.new.on # c.old.on THEN c.new.on ELSE task[c.task].on
    BY <1>2, WrittenRow
  <1> HIDE DEF w
  <1>4. \A t \in Task : task'[t] = IF t = c.task THEN w ELSE task[t]
    BY <1>1 DEF TypeOK
  <1>5. w # NoRow /\ task' \in [Task -> Row \cup {NoRow}]
    BY <1>1, <1>3, NoRowAssumption DEF TypeOK
  <1>6. Tasks' = Tasks
    BY <1>1, <1>4, <1>5 DEF Tasks
  <1>7. ASSUME NEW t \in Task, task'[t] # NoRow
        PROVE  project' # NoRow /\ (task'[t].on # None => task'[task'[t].on] # NoRow)
    <2>1. t \in Tasks /\ project # NoRow
      BY <1>6, <1>7 DEF Tasks, TypeOK
    <2>2. task'[t].on # None => task'[t].on \in Tasks
      <3>1. CASE t # c.task
        BY <1>4, <2>1, <3>1, TrackerTypes DEF TaskFacts
      <3>2. CASE t = c.task /\ c.new.on # c.old.on
        BY <1>1, <1>2, <1>3, <1>4, <3>2 DEF MayDepend, Tasks, Row
      <3>3. CASE t = c.task /\ c.new.on = c.old.on
        BY <1>3, <1>4, <2>1, <3>3, TrackerTypes DEF TaskFacts
      <3> QED
        BY <3>1, <3>2, <3>3
    <2> QED
      BY <1>1, <1>6, <2>1, <2>2 DEF Tasks
  <1>8. TypeOK'
    <2>1. project' \in Project \cup {NoRow}
      BY <1>1 DEF TypeOK
    <2> QED
      BY <1>1, <1>5, <1>7, <2>1, EndTypes
  <1> QED
    BY <1>1, <1>2, <1>3, <1>4, <1>6, <1>8

LEMMA CreateEffect ==
  ASSUME TypeOK, NEW r \in Request, CommitCreate(r)
  PROVE  LET t == call[r].task IN
         /\ TypeOK' /\ Tasks' = Tasks \cup {t} /\ t \notin Tasks
         /\ \A u \in Tasks : task'[u] = task[u]
         /\ task'[t].on # None => task'[t].on \in Tasks
  <1> DEFINE t == call[r].task
             new == call[r].new
  <1>1. /\ call[r].kind = "create" /\ project # NoRow /\ t \notin Tasks /\ MayDepend(None, new.on)
        /\ task' = [task EXCEPT ![t] = new] /\ End(r) /\ UNCHANGED project
    BY DEF CommitCreate
  <1>2. t \in Task /\ new \in Row
    BY <1>1, CallFacts
  <1> HIDE DEF t, new
  <1>3. \A u \in Task : task'[u] = IF u = t THEN new ELSE task[u]
    BY <1>1 DEF TypeOK
  <1>4. new # NoRow /\ task' \in [Task -> Row \cup {NoRow}]
    BY <1>1, <1>2, NoRowAssumption DEF TypeOK
  <1>5. Tasks' = Tasks \cup {t}
    BY <1>2, <1>3, <1>4 DEF Tasks
  <1>6. new.on # None => new.on \in Tasks
    BY <1>1, <1>2 DEF MayDepend, Tasks, Row
  <1>7. ASSUME NEW u \in Task, task'[u] # NoRow
        PROVE  project' # NoRow /\ (task'[u].on # None => task'[task'[u].on] # NoRow)
    <2>1. task'[u].on # None => task'[u].on \in Tasks
      BY <1>3, <1>6, <1>7, TrackerTypes DEF TaskFacts, Tasks
    <2> QED
      BY <1>1, <1>5, <2>1 DEF Tasks
  <1>8. project' \in Project \cup {NoRow}
    BY <1>1 DEF TypeOK
  <1>9. TypeOK'
    BY <1>1, <1>4, <1>7, <1>8, EndTypes
  <1>10. task'[t].on # None => task'[t].on \in Tasks
    BY <1>2, <1>3, <1>6
  <1>11. \A u \in Tasks : task'[u] = task[u]
    BY <1>1, <1>3 DEF Tasks
  <1> QED
    BY <1>1, <1>5, <1>9, <1>10, <1>11 DEF t

LEMMA DeleteEffect ==
  ASSUME TypeOK, NEW r \in Request, CommitDelete(r)
  PROVE  LET t == call[r].task IN
         /\ TypeOK' /\ Tasks' = Tasks \ {t}
         /\ \A u \in Tasks' : task'[u].on \in {None, task[u].on} \ {t}
  <1> DEFINE t == call[r].task
             Freed(u) == [task[u] EXCEPT !.on = None]
  <1>1. /\ call[r].kind = "delete" /\ End(r) /\ UNCHANGED project
        /\ task' = [u \in Task |-> IF u = t THEN NoRow
                                   ELSE IF task[u] # NoRow /\ task[u].on = t THEN Freed(u)
                                   ELSE task[u]]
    BY DEF CommitDelete
  <1>2. t \in Task
    BY <1>1, CallFacts
  <1>3. ASSUME NEW u \in Tasks PROVE Freed(u) \in Row /\ Freed(u).on = None
    <2>1. task[u] \in Row
      BY TrackerTypes DEF TaskFacts
    <2> QED
      BY <2>1 DEF Row
  <1> HIDE DEF t, Freed
  <1>4. /\ task'[t] = NoRow
        /\ \A u \in Task : u # t /\ u \notin Tasks => task'[u] = NoRow
        /\ \A u \in Tasks : u # t =>
             task'[u] \in Row /\ task'[u].on = IF task[u].on = t THEN None ELSE task[u].on
    BY <1>1, <1>2, <1>3, TrackerTypes DEF Tasks, TaskFacts
  <1>5. Tasks' = Tasks \ {t}
    BY <1>4, NoRowAssumption DEF Tasks
  <1>6. task' \in [Task -> Row \cup {NoRow}]
    <2>1. \A u \in Task : task'[u] \in Row \cup {NoRow}
      BY <1>4
    <2>2. task' = [u \in Task |-> task'[u]]
      BY <1>1
    <2> QED
      BY <2>1, <2>2
  <1>7. None # t
    BY <1>2, TrackerAssumption
  <1>8. \A u \in Tasks' : task'[u].on \in {None, task[u].on} \ {t}
    BY <1>4, <1>5, <1>7
  <1>9. ASSUME NEW u \in Task, task'[u] # NoRow
        PROVE  project' # NoRow /\ (task'[u].on # None => task'[task'[u].on] # NoRow)
    <2>1. u \in Tasks' /\ u \in Tasks
      BY <1>5, <1>9 DEF Tasks
    <2>2. project # NoRow
      BY <2>1 DEF TypeOK, Tasks
    <2>3. task'[u].on # None => task'[u].on \in Tasks \ {t}
      BY <1>8, <2>1, TrackerTypes DEF TaskFacts
    <2>4. task'[u].on # None => task'[u].on \in Tasks'
      BY <1>5, <2>3
    <2> QED
      BY <1>1, <2>2, <2>4 DEF Tasks
  <1>10. project' \in Project \cup {NoRow}
    BY <1>1 DEF TypeOK
  <1>11. TypeOK'
    BY <1>1, <1>6, <1>9, <1>10, EndTypes
  <1> QED
    BY <1>5, <1>8, <1>11 DEF t

LEMMA DropEffect ==
  ASSUME TypeOK, NEW r \in Request, CommitDrop(r)
  PROVE  TypeOK' /\ Tasks' = {} /\ project' = NoRow
  <1>1. /\ End(r) /\ project' = NoRow /\ \A t \in Task : task'[t] = NoRow
        /\ task' \in [Task -> Row \cup {NoRow}]
    BY DEF CommitDrop
  <1> QED
    BY <1>1, EndTypes DEF Tasks

LEMMA AssessEffect ==
  ASSUME TypeOK, NEW r \in Request, NEW a \in Answer, CommitAssess(r, a)
  PROVE  /\ TypeOK' /\ UNCHANGED task /\ End(r) /\ call[r].kind = "assess"
         /\ project # NoRow /\ project' # NoRow
         /\ call[r].old = project => project' = [health |-> HealthOf[a], why |-> a]
  <1> DEFINE new == [health |-> HealthOf[a], why |-> a]
  <1>1. /\ call[r].kind = "assess" /\ project # NoRow /\ End(r) /\ UNCHANGED task
        /\ project' = Written(call[r].old, new, project)
    BY DEF CommitAssess
  <1>2. new \in Project
    BY TrackerAssumption DEF Project
  <1>3. call[r].old \in Project /\ project \in Project
    BY <1>1, CallFacts DEF TypeOK
  <1> HIDE DEF new
  <1>4. project' \in Project /\ (call[r].old = project => project' = new)
    BY <1>1, <1>2, <1>3, WrittenProject
  <1>5. project' # NoRow
    BY <1>4, NoRowAssumption
  <1>6. TypeOK'
    BY <1>1, <1>4, <1>5, EndTypes DEF TypeOK
  <1> QED
    BY <1>1, <1>4, <1>5, <1>6 DEF new

LEMMA FailsEffect ==
  ASSUME TypeOK, NEW r \in Request, Fails(r)
  PROVE  TypeOK' /\ UNCHANGED <<project, task>> /\ End(r)
  BY EndTypes DEF Fails, TypeOK

-----------------------------------------------------------------------------
(***************************************************************************)
(* While no two requests on tasks overlap, the links have no cycle, and an *)
(* update still knows what it has checked: the row it loaded is the row    *)
(* there is, and what it is about to depend on does not wait for it.       *)
(***************************************************************************)
UpdateFits(c) ==
  /\ c.task \in Tasks /\ c.old = task[c.task]
  /\ c.new.on \notin {None, c.old.on} =>
       \E S \in SUBSET Tasks : Closed(Links, S) /\ c.new.on \in S /\ c.task \notin S

OneOnTasks ==
  \A r, q \in Request : call[r].kind \in OnTasks /\ call[q].kind \in OnTasks => r = q

TaskInv ==
  inTurn => /\ OneOnTasks /\ Acyclic(Links)
            /\ \A r \in Request : call[r].kind = "update" => UpdateFits(call[r])

LEMMA TaskBegins == Init => TypeOK /\ TaskInv
  <1> SUFFICES ASSUME Init PROVE TypeOK /\ TaskInv
    OBVIOUS
  <1> DEFINE row == [status |-> "todo", note |-> FALSE, on |-> None]
  <1>1. /\ project = [health |-> None, why |-> None] /\ task \in [Task -> {NoRow, row}]
        /\ call = [r \in Request |-> Idle] /\ inTurn = TRUE /\ apart = TRUE /\ calls = 0
    BY DEF Init
  <1>2. row \in Row /\ project \in Project /\ row.on = None
    BY <1>1 DEF Row, Status, Project
  <1> HIDE DEF row
  <1>3. task \in [Task -> Row \cup {NoRow}] /\ project # NoRow
    BY <1>1, <1>2, NoRowAssumption
  <1>4. \A t \in Task : task[t] # NoRow => task[t].on = None
    BY <1>1, <1>2
  <1>5. TypeOK
    BY <1>1, <1>2, <1>3, <1>4, TrackerAssumption DEF TypeOK
  <1>6. \A r \in Request : call[r].kind = "idle"
    BY <1>1 DEF Idle
  <1>7. Acyclic(Links)
    <2>1. DOMAIN Links = Tasks /\ \A t \in Tasks : Links[t] = {}
      BY <1>4, <1>5, TrackerTypes DEF TaskFacts, Tasks
    <2> QED
      BY <2>1 DEF Acyclic, Closed
  <1>8. TaskInv
    BY <1>6, <1>7 DEF TaskInv, OneOnTasks, OnTasks
  <1> QED
    BY <1>5, <1>8

LEMMA BeginKeepsTasks ==
  ASSUME TypeOK, TaskInv, NEW r \in Request, NEW c \in Calls, Begin(r, c),
         inTurn /\ c.kind = "update" => UpdateFits(c)
  PROVE  TypeOK' /\ TaskInv'
  <1>1. /\ \A q \in Request : call'[q] = IF q = r THEN c ELSE call[q]
        /\ inTurn' = (inTurn /\ (c.kind \in OnTasks => ~Begun(OnTasks)))
        /\ UNCHANGED <<project, task>>
    BY DEF Begin, TypeOK
  <1>2. Tasks' = Tasks /\ Links' = Links
    BY <1>1 DEF Tasks, Links, Parent
  <1>3. ASSUME inTurn' PROVE OneOnTasks'
    BY <1>1, <1>3 DEF TaskInv, OneOnTasks, Begun
  <1>4. ASSUME inTurn', NEW q \in Request, call'[q].kind = "update" PROVE UpdateFits(call[q])'
    <2>1. UpdateFits(call'[q])
      BY <1>1, <1>4 DEF TaskInv
    <2> QED
      BY <1>1, <1>2, <2>1 DEF UpdateFits
  <1> QED
    BY <1>1, <1>2, <1>3, <1>4, BeginTypes DEF TaskInv

(* A commit on the tasks leaves nobody with anything to commit on them.    *)
LEMMA EndKeepsTasks ==
  ASSUME TaskInv, TypeOK, NEW r \in Request, End(r), call[r].kind \in OnTasks,
         inTurn => Acyclic(Links')
  PROVE  TaskInv'
  <1>1. /\ \A q \in Request : call'[q] = IF q = r THEN Idle ELSE call[q]
        /\ UNCHANGED inTurn
    BY DEF End, TypeOK
  <1>2. ASSUME inTurn, NEW q \in Request PROVE call'[q].kind \notin OnTasks
    BY <1>1, <1>2 DEF TaskInv, OneOnTasks, Idle, OnTasks
  <1> QED
    BY <1>1, <1>2 DEF TaskInv, OneOnTasks, OnTasks

LEMMA SameKeepsTasks ==
  ASSUME TaskInv, TypeOK, NEW r \in Request, End(r), UNCHANGED task
  PROVE  TaskInv'
  <1>1. /\ \A q \in Request : call'[q] = IF q = r THEN Idle ELSE call[q]
        /\ UNCHANGED inTurn /\ Idle.kind \notin OnTasks
    BY DEF End, TypeOK, Idle, OnTasks
  <1>2. Tasks' = Tasks /\ Links' = Links
    BY DEF Tasks, Links, Parent
  <1>3. inTurn => OneOnTasks'
    BY <1>1 DEF TaskInv, OneOnTasks
  <1>4. ASSUME inTurn, NEW q \in Request, call'[q].kind = "update" PROVE UpdateFits(call[q])'
    <2>1. UpdateFits(call'[q])
      BY <1>1, <1>4 DEF TaskInv, OnTasks
    <2> QED
      BY <1>2, <2>1 DEF UpdateFits
  <1> QED
    BY <1>1, <1>2, <1>3, <1>4 DEF TaskInv

(* The links after each commit have no cycle.                              *)
LEMMA UpdateStaysAcyclic ==
  ASSUME TypeOK, TaskInv, inTurn, NEW r \in Request, CommitUpdate(r)
  PROVE  Acyclic(Links')
  <1> DEFINE c == call[r]
             t == call[r].task
  <1>1. /\ TypeOK' /\ Tasks' = Tasks /\ t \in Tasks
        /\ \A u \in Task : u # t => task'[u] = task[u]
        /\ task'[t].on = IF c.new.on # c.old.on THEN c.new.on ELSE task[t].on
    BY UpdateEffect
  <1>2. UpdateFits(c) /\ Acyclic(Links)
    BY DEF TaskInv, CommitUpdate
  <1>3. TaskFacts /\ TaskFacts'
    BY <1>1, TrackerTypes, TrackerTypesNext
  <1>4. ASSUME NEW u \in Tasks, u # t PROVE Links'[u] = Links[u]
    <2>1. task'[u] = task[u] /\ u \in Tasks'
      BY <1>1, <1>4 DEF Tasks
    <2>2. Links'[u] = IF task'[u].on = None THEN {} ELSE {task'[u].on}
      BY <1>3, <2>1 DEF TaskFacts
    <2>3. Links[u] = IF task[u].on = None THEN {} ELSE {task[u].on}
      BY <1>3 DEF TaskFacts
    <2> QED
      BY <2>1, <2>2, <2>3
  <1>5. Links'[t] = IF task'[t].on = None THEN {} ELSE {task'[t].on}
    BY <1>1, <1>3 DEF TaskFacts
  <1>6. Links[t] = IF task[t].on = None THEN {} ELSE {task[t].on}
    BY <1>1, <1>3 DEF TaskFacts
  <1>7. CASE c.new.on \notin {None, c.old.on}
    <2>1. PICK S : Closed(Links, S) /\ c.new.on \in S /\ t \notin S
      BY <1>2, <1>7 DEF UpdateFits
    <2>2. Links'[t] \subseteq S
      BY <1>1, <1>5, <1>7, <2>1
    <2>3. DOMAIN Links = Tasks /\ DOMAIN Links' = Tasks
      BY <1>1, <1>3 DEF TaskFacts
    <2> QED
      BY <1>1, <1>2, <1>4, <2>1, <2>2, <2>3, Relink
  <1>8. CASE c.new.on \in {None, c.old.on}
    <2>1. Links'[t] \subseteq Links[t]
      BY <1>1, <1>2, <1>5, <1>6, <1>8 DEF UpdateFits
    <2>2. \A u \in Tasks : Links'[u] \subseteq Links[u] \cap Tasks
      BY <1>1, <1>3, <1>4, <2>1 DEF TaskFacts
    <2>3. DOMAIN Links = Tasks /\ DOMAIN Links' = Tasks
      BY <1>1, <1>3 DEF TaskFacts
    <2> QED
      BY <1>2, <2>2, <2>3, FewerLinks
  <1> QED
    BY <1>7, <1>8

LEMMA CreateStaysAcyclic ==
  ASSUME TypeOK, Acyclic(Links), NEW r \in Request, CommitCreate(r)
  PROVE  Acyclic(Links')
  <1> DEFINE t == call[r].task
  <1>1. /\ TypeOK' /\ Tasks' = Tasks \cup {t} /\ t \notin Tasks
        /\ \A u \in Tasks : task'[u] = task[u]
        /\ task'[t].on # None => task'[t].on \in Tasks
    BY CreateEffect
  <1> HIDE DEF t
  <1>2. TaskFacts /\ TaskFacts'
    BY <1>1, TrackerTypes, TrackerTypesNext
  <1>3. ASSUME NEW u \in Tasks PROVE Links'[u] = Links[u] /\ Links[u] \subseteq Tasks
    <2>1. task'[u] = task[u] /\ u \in Tasks'
      BY <1>1
    <2>2. Links'[u] = IF task'[u].on = None THEN {} ELSE {task'[u].on}
      BY <1>2, <2>1 DEF TaskFacts
    <2>3. Links[u] = IF task[u].on = None THEN {} ELSE {task[u].on}
      BY <1>2 DEF TaskFacts
    <2>4. Links[u] \subseteq Tasks
      BY <1>2 DEF TaskFacts
    <2> QED
      BY <2>1, <2>2, <2>3, <2>4
  <1>4. Links'[t] \subseteq Tasks
    BY <1>1, <1>2 DEF TaskFacts
  <1>5. DOMAIN Links = Tasks /\ DOMAIN Links' = Tasks \cup {t}
    BY <1>1, <1>2 DEF TaskFacts
  <1> QED
    BY <1>1, <1>3, <1>4, <1>5, NewTask

LEMMA DeleteStaysAcyclic ==
  ASSUME TypeOK, Acyclic(Links), NEW r \in Request, CommitDelete(r)
  PROVE  Acyclic(Links')
  <1> DEFINE t == call[r].task
  <1>1. /\ TypeOK' /\ Tasks' = Tasks \ {t}
        /\ \A u \in Tasks' : task'[u].on \in {None, task[u].on} \ {t}
    BY DeleteEffect
  <1> HIDE DEF t
  <1>2. TaskFacts /\ TaskFacts'
    BY <1>1, TrackerTypes, TrackerTypesNext
  <1>3. \A u \in Tasks' : Links'[u] \subseteq Links[u] \cap Tasks'
    <2> SUFFICES ASSUME NEW u \in Tasks' PROVE Links'[u] \subseteq Links[u] \cap Tasks'
      OBVIOUS
    <2>1. Links'[u] = IF task'[u].on = None THEN {} ELSE {task'[u].on}
      BY <1>2 DEF TaskFacts
    <2>2. Links[u] = IF task[u].on = None THEN {} ELSE {task[u].on}
      BY <1>1, <1>2 DEF TaskFacts
    <2>3. task'[u].on # None => task'[u].on \in Tasks'
      BY <1>2 DEF TaskFacts
    <2> QED
      BY <1>1, <2>1, <2>2, <2>3
  <1>4. DOMAIN Links = Tasks /\ DOMAIN Links' = Tasks'
    BY <1>2 DEF TaskFacts
  <1> QED
    BY <1>1, <1>3, <1>4, FewerLinks

(* One case for each way a request on tasks or on the assessment goes on.  *)
LEMMA TaskStep == TypeOK /\ TaskInv /\ [Next]_vars => TypeOK' /\ TaskInv'
  <1> DEFINE Goal == TypeOK' /\ TaskInv'
  <1> SUFFICES ASSUME TypeOK, TaskInv, [Next]_vars PROVE Goal
    OBVIOUS
  <1>1. CASE UNCHANGED vars
    <2>1. UNCHANGED <<project, task, call, inTurn, apart, calls>>
      BY <1>1 DEF vars
    <2>2. Tasks' = Tasks /\ Links' = Links
      BY <2>1 DEF Tasks, Links, Parent
    <2>3. TaskInv'
      BY <2>1, <2>2 DEF TaskInv, OneOnTasks, UpdateFits
    <2> QED
      BY <2>1, <2>3 DEF TypeOK
  <1>2. ASSUME NEW r \in Request, NEW t \in Task, NEW status \in Status, NEW note \in BOOLEAN,
               NEW on \in Task \cup {None}, BeginUpdate(r, t, status, note, on)
        PROVE  Goal
    <2>1. PICK c \in Calls :
            /\ Begin(r, c) /\ c.kind = "update" /\ c.task = t /\ t \in Tasks /\ c.old = task[t]
            /\ c.new.on = on /\ (on \notin {None, task[t].on} => ValidDependency(t, on))
      BY <1>2, BeginUpdateCall
    <2>2. UpdateFits(c)
      BY <2>1, ValidMeansClosed DEF UpdateFits
    <2> QED
      BY <2>1, <2>2, BeginKeepsTasks
  <1>3. ASSUME NEW r \in Request, NEW t \in Task, NEW status \in Status, NEW note \in BOOLEAN,
               NEW on \in Task \cup {None}, BeginCreate(r, t, status, note, on)
        PROVE  Goal
    BY <1>3, BeginCreateCall, BeginKeepsTasks
  <1>4. ASSUME NEW r \in Request, NEW t \in Task, BeginDelete(r, t) PROVE Goal
    BY <1>4, OtherCalls, BeginKeepsTasks
  <1>5. ASSUME NEW r \in Request, BeginDrop(r) \/ BeginAssess(r) PROVE Goal
    BY <1>5, OtherCalls, BeginKeepsTasks
  <1>6. ASSUME NEW r \in Request, CommitUpdate(r) PROVE Goal
    BY <1>6, UpdateEffect, UpdateStaysAcyclic, EndKeepsTasks DEF CommitUpdate, OnTasks
  <1>7. ASSUME NEW r \in Request, CommitCreate(r) PROVE Goal
    BY <1>7, CreateEffect, CreateStaysAcyclic, EndKeepsTasks DEF CommitCreate, OnTasks, TaskInv
  <1>8. ASSUME NEW r \in Request, CommitDelete(r) PROVE Goal
    BY <1>8, DeleteEffect, DeleteStaysAcyclic, EndKeepsTasks DEF CommitDelete, OnTasks, TaskInv
  <1>9. ASSUME NEW r \in Request, CommitDrop(r) PROVE Goal
    <2>1. TypeOK' /\ Tasks' = {}
      BY <1>9, DropEffect
    <2>2. DOMAIN Links' = {}
      BY <2>1, TrackerTypesNext DEF TaskFacts
    <2>3. Acyclic(Links')
      BY <2>2 DEF Acyclic
    <2> QED
      BY <1>9, <2>1, <2>3, EndKeepsTasks DEF CommitDrop, OnTasks
  <1>10. ASSUME NEW r \in Request, NEW a \in Answer, CommitAssess(r, a) PROVE Goal
    BY <1>10, AssessEffect, SameKeepsTasks
  <1>11. ASSUME NEW r \in Request, Fails(r) PROVE Goal
    BY <1>11, FailsEffect, SameKeepsTasks
  <1> HIDE DEF Goal
  <1> QED
    BY <1>1, <1>2, <1>3, <1>4, <1>5, <1>6, <1>7, <1>8, <1>9, <1>10, <1>11 DEF Next

LEMMA TaskInvariant == Spec => [](TypeOK /\ TaskInv)
  BY TaskBegins, TaskStep, PTL DEF Spec

(* The code behaviour: the rows stay well formed, and a task has its       *)
(* project and the task it depends on, whatever is deleted meanwhile.      *)
THEOREM RowsStayLinked == Spec => []TypeOK
  BY TaskInvariant, PTL

(* The code behaviour: for any number of tasks the walk of                 *)
(* _validate_dependency keeps dependencies free of cycles, unless two      *)
(* requests on tasks overlap.                                              *)
THEOREM NoCycleArises == Spec => []NoCycle
  <1>1. TypeOK /\ TaskInv => NoCycle
    BY AcyclicMeansNoCycle DEF TaskInv, NoCycle
  <1> QED
    BY <1>1, TaskInvariant, PTL

(* The code behaviour: a deletion leaves the tasks that waited for the     *)
(* task deleted, for any number of tasks and of concurrent requests.       *)
THEOREM WaitingWorkStays == Spec => WorkIsKept
  <1> DEFINE Kept == project' # NoRow =>
                \A t \in Tasks : task'[t] # NoRow
                   \/ \E r \in Request : call[r].kind = "delete" /\ call[r].task = t
  <1>1. TypeOK /\ [Next]_vars => [Kept]_task
    <2> SUFFICES ASSUME TypeOK, [Next]_vars, task' # task PROVE Kept
      OBVIOUS
    <2>1. Next
      BY DEF vars
    <2>2. ASSUME NEW r \in Request, CommitUpdate(r) PROVE Kept
      BY <2>2, UpdateEffect DEF Tasks
    <2>3. ASSUME NEW r \in Request, CommitCreate(r) PROVE Kept
      BY <2>3, CreateEffect DEF Tasks
    <2>4. ASSUME NEW r \in Request, CommitDelete(r) PROVE Kept
      BY <2>4, DeleteEffect DEF Tasks, CommitDelete
    <2>5. ASSUME NEW r \in Request, CommitDrop(r) PROVE Kept
      BY <2>5, DropEffect
    <2>6. ASSUME NEW r \in Request, NEW c, Begin(r, c) PROVE FALSE
      BY <2>6 DEF Begin
    <2> HIDE DEF Kept
    <2> QED
      BY <2>1, <2>2, <2>3, <2>4, <2>5, <2>6
         DEF Next, BeginUpdate, BeginCreate, BeginDelete, BeginDrop, BeginAssess, CommitAssess, Fails
  <1> QED
    BY <1>1, TaskInvariant, PTL DEF Spec, WorkIsKept

-----------------------------------------------------------------------------
(***************************************************************************)
(* While no two assessments overlap, the one under way has loaded the      *)
(* assessment that is stored, so that it writes both of its columns.       *)
(***************************************************************************)
AssessInv ==
  apart => /\ \A r, q \in Request : call[r].kind = "assess" /\ call[q].kind = "assess" => r = q
           /\ HealthIsExplained
           /\ \A r \in Request : call[r].kind = "assess" /\ project # NoRow => call[r].old = project

LEMMA AssessBegins == Init => AssessInv
  BY DEF Init, AssessInv, HealthIsExplained, Idle

LEMMA BeginKeepsAssess ==
  ASSUME TypeOK, AssessInv, NEW r \in Request, NEW c \in Calls, Begin(r, c),
         c.kind = "assess" => c.old = project
  PROVE  AssessInv'
  <1>1. /\ \A q \in Request : call'[q] = IF q = r THEN c ELSE call[q]
        /\ apart' = (apart /\ (c.kind = "assess" => ~Begun({"assess"})))
        /\ UNCHANGED project
    BY DEF Begin, TypeOK
  <1>2. apart' /\ c.kind = "assess" => \A q \in Request : call[q].kind # "assess"
    BY <1>1 DEF Begun
  <1> QED
    BY <1>1, <1>2 DEF AssessInv, HealthIsExplained

LEMMA EndKeepsAssess ==
  ASSUME TypeOK, AssessInv, NEW r \in Request, End(r), project' \in {project, NoRow}
  PROVE  AssessInv'
  <1>1. /\ \A q \in Request : call'[q] = IF q = r THEN Idle ELSE call[q]
        /\ UNCHANGED apart /\ Idle.kind # "assess"
    BY DEF End, TypeOK, Idle
  <1> QED
    BY <1>1 DEF AssessInv, HealthIsExplained

LEMMA AssessStep == TypeOK /\ AssessInv /\ [Next]_vars => AssessInv'
  <1> SUFFICES ASSUME TypeOK, AssessInv, [Next]_vars PROVE AssessInv'
    OBVIOUS
  <1>1. CASE UNCHANGED vars
    BY <1>1 DEF vars, AssessInv, HealthIsExplained
  <1>2. ASSUME NEW r \in Request, NEW t \in Task, NEW status \in Status, NEW note \in BOOLEAN,
               NEW on \in Task \cup {None},
               BeginUpdate(r, t, status, note, on) \/ BeginCreate(r, t, status, note, on)
        PROVE  AssessInv'
    <2>1. PICK c \in Calls : Begin(r, c) /\ c.kind # "assess"
      BY <1>2, BeginUpdateCall, BeginCreateCall
    <2> QED
      BY <2>1, BeginKeepsAssess
  <1>3. ASSUME NEW r \in Request, NEW t \in Task, BeginDelete(r, t) PROVE AssessInv'
    BY <1>3, OtherCalls, BeginKeepsAssess
  <1>4. ASSUME NEW r \in Request, BeginDrop(r) \/ BeginAssess(r) PROVE AssessInv'
    BY <1>4, OtherCalls, BeginKeepsAssess
  <1>5. ASSUME NEW r \in Request,
               CommitUpdate(r) \/ CommitCreate(r) \/ CommitDelete(r) \/ CommitDrop(r) \/ Fails(r)
        PROVE  AssessInv'
    BY <1>5, EndKeepsAssess DEF CommitUpdate, CommitCreate, CommitDelete, CommitDrop, Fails
  <1>6. ASSUME NEW r \in Request, NEW a \in Answer, CommitAssess(r, a) PROVE AssessInv'
    <2>1. /\ End(r) /\ call[r].kind = "assess" /\ project # NoRow
          /\ call[r].old = project => project' = [health |-> HealthOf[a], why |-> a]
      BY <1>6, AssessEffect
    <2>2. /\ \A q \in Request : call'[q] = IF q = r THEN Idle ELSE call[q]
          /\ UNCHANGED apart /\ Idle.kind # "assess"
      BY <2>1 DEF End, TypeOK, Idle
    <2>3. ASSUME apart, NEW q \in Request PROVE call'[q].kind # "assess"
      BY <2>1, <2>2, <2>3 DEF AssessInv
    <2>4. apart => project' = [health |-> HealthOf[a], why |-> a]
      BY <2>1 DEF AssessInv
    <2>5. apart => HealthIsExplained'
      BY <2>4 DEF HealthIsExplained
    <2> QED
      BY <2>2, <2>3, <2>5 DEF AssessInv
  <1> QED
    BY <1>1, <1>2, <1>3, <1>4, <1>5, <1>6 DEF Next

(* The code behaviour: health and reasoning are written as a pair, so the  *)
(* health shown is the one argued for unless two assessments overlap.      *)
THEOREM HealthStaysExplained == Spec => []HealthIsExplained
  <1>1. AssessInv => HealthIsExplained
    BY DEF AssessInv, HealthIsExplained
  <1> QED
    BY <1>1, AssessBegins, AssessStep, TaskInvariant, PTL DEF Spec

-----------------------------------------------------------------------------
(***************************************************************************)
(* blocking_task, for chains no longer than the limit of its walk.  Every  *)
(* step of the walk either ends it or meets one more task, none of those   *)
(* met but the first is unfinished, and all but the last one's links have  *)
(* been followed.                                                          *)
(***************************************************************************)
WalkState == [at : SUBSET Tasks, seen : SUBSET Tasks, found : SUBSET Tasks]

StepUp(w) == (UNION {Parent(u) : u \in w.at}) \ w.seen

WalkNext(w) ==
  IF w.found # {} \/ StepUp(w) = {} THEN [w EXCEPT !.at = {}]
  ELSE IF StepUp(w) \subseteq Unfinished THEN [w EXCEPT !.at = {}, !.found = StepUp(w)]
  ELSE [at |-> StepUp(w), seen |-> w.seen \cup StepUp(w), found |-> {}]

WalkStart(t) == [at |-> {t}, seen |-> {t}, found |-> {}]

LEMMA WalkTypes ==
  ASSUME TypeOK
  PROVE  /\ \A t \in Tasks : WalkStart(t) \in WalkState
         /\ \A w \in WalkState : WalkNext(w) \in WalkState /\ StepUp(w) \in SUBSET Tasks
  <1>1. \A t \in Tasks : Parent(t) \subseteq Tasks
    BY TrackerTypes DEF TaskFacts
  <1>2. ASSUME NEW w \in WalkState PROVE StepUp(w) \in SUBSET Tasks
    BY <1>1 DEF StepUp, WalkState
  <1>3. ASSUME NEW w \in WalkState PROVE WalkNext(w) \in WalkState
    <2> HIDE DEF StepUp
    <2> QED
      BY <1>2 DEF WalkNext, WalkState
  <1> QED
    BY <1>2, <1>3 DEF WalkStart, WalkState

(* The recursion of BlockingTask is a function.                            *)
LEMMA WalkSteps ==
  ASSUME TypeOK, NEW t \in Tasks
  PROVE  \E f \in [0..MaxDepth -> WalkState] :
           /\ BlockingTask(t) = f[MaxDepth].found /\ f[0] = WalkStart(t)
           /\ \A k \in 0..MaxDepth : k # 0 => f[k] = WalkNext(f[k - 1])
  <1> DEFINE n == MaxDepth
             F == [w \in WalkState |-> WalkNext(w)]
             H(f) == [k \in 0..n |-> IF k = 0 THEN WalkStart(t) ELSE WalkNext(f[k - 1])]
             walk == CHOOSE f : f = H(f)
  <1>1. BlockingTask(t) = walk[n].found
    BY DEF BlockingTask, WalkStart, WalkNext, StepUp
  <1>2. F \in [WalkState -> WalkState] /\ WalkStart(t) \in WalkState /\ n \in Nat
    BY WalkTypes, TrackerAssumption
  <1>3. PICK f : Iterates(WalkState, F, WalkStart(t), n, f)
    <2> HIDE DEF F, n
    <2> QED
      BY <1>2, IterationExists
  <1>4. f \in [0..n -> WalkState]
    BY <1>3 DEF Iterates
  <1>5. ASSUME NEW k \in 0..n
        PROVE  f[k] = IF k = 0 THEN WalkStart(t) ELSE WalkNext(f[k - 1])
    <2>1. f[k] = IF k = 0 THEN WalkStart(t) ELSE F[f[k - 1]]
      BY <1>3 DEF Iterates
    <2>2. k # 0 => k - 1 \in 0..n
      BY <1>2
    <2>3. k # 0 => f[k - 1] \in WalkState
      BY <1>4, <2>2
    <2> QED
      BY <2>1, <2>3
  <1> HIDE DEF F, n
  <1>6. f = H(f)
    BY <1>4, <1>5
  <1>7. walk = H(walk)
    <2> HIDE DEF H
    <2> QED
      BY <1>6
  <1>8. ASSUME NEW k \in 0..n
        PROVE  walk[k] = IF k = 0 THEN WalkStart(t) ELSE WalkNext(walk[k - 1])
    BY <1>7
  <1> HIDE DEF walk, H
  <1>9. \A k \in 0..n : walk[k] = f[k]
    <2> DEFINE T == {k \in 0..n : walk[k] # f[k]}
    <2> SUFFICES ASSUME T # {} PROVE FALSE
      OBVIOUS
    <2>1. PICK k \in T : \A m \in T : k <= m
      <3>1. T \in SUBSET Nat
        BY <1>2
      <3> HIDE DEF T
      <3> QED
        BY <3>1, LeastNatural
    <2>2. CASE k = 0
      BY <1>5, <1>8, <2>2
    <2>3. CASE k # 0
      <3>1. k - 1 \in 0..n /\ walk[k - 1] = f[k - 1]
        BY <1>2, <2>1, <2>3
      <3> QED
        BY <1>5, <1>8, <2>3, <3>1
    <2> QED
      BY <2>2, <2>3
  <1>10. BlockingTask(t) = f[n].found /\ f[0] = WalkStart(t)
    BY <1>1, <1>2, <1>5, <1>9
  <1>11. \A k \in 0..n : k # 0 => f[k] = WalkNext(f[k - 1])
    BY <1>5
  <1> QED
    BY <1>4, <1>10, <1>11 DEF n

LEMMA AboveAllIsClosed ==
  ASSUME TypeOK, NEW t \in Tasks
  PROVE  /\ Parent(t) \subseteq AboveAll(t) /\ AboveAll(t) \subseteq Tasks
         /\ \A u \in AboveAll(t) : Parent(u) \subseteq AboveAll(t)
         /\ \A S \in SUBSET Tasks : Parent(t) \subseteq S /\ (\A u \in S : Parent(u) \subseteq S)
              => AboveAll(t) \subseteq S
  <1>1. /\ Links \in [Tasks -> SUBSET Tasks] /\ DOMAIN Links = Tasks
        /\ \A u \in Tasks : Links[u] = Parent(u) /\ Parent(u) \subseteq Tasks
    BY TrackerTypes DEF TaskFacts
  <1> DEFINE Up(u) == Above(u, Cardinality(Task))
  <1>2. ASSUME NEW u \in Parent(t)
        PROVE  /\ u \in Up(u) /\ Up(u) \subseteq Tasks /\ \A v \in Up(u) : Parent(v) \subseteq Up(u)
               /\ \A S : Closed(Links, S) /\ u \in S => Up(u) \subseteq S
    <2>1. u \in Tasks
      BY <1>1
    <2> QED
      BY <1>1, <2>1, AboveIsClosure DEF Closed
  <1>3. AboveAll(t) = UNION {Up(u) : u \in Parent(t)}
    BY DEF AboveAll
  <1> HIDE DEF Up
  <1>4. ASSUME NEW S \in SUBSET Tasks, Parent(t) \subseteq S, \A u \in S : Parent(u) \subseteq S
        PROVE  AboveAll(t) \subseteq S
    <2>1. Closed(Links, S)
      BY <1>1, <1>4 DEF Closed
    <2> QED
      BY <1>2, <1>3, <1>4, <2>1
  <1> QED
    BY <1>2, <1>3, <1>4

(* What the walk from t has found out.                                     *)
WalkInv(t, w) ==
  /\ w \in WalkState /\ t \in w.seen /\ w.at \subseteq w.seen
  /\ w.seen \ {t} \subseteq AboveAll(t) \ Unfinished
  /\ w.found \subseteq AboveAll(t) \cap Unfinished /\ t \notin w.found
  /\ \A u, v \in w.at : u = v
  /\ w.at # {} => w.found = {}
  /\ w.found = {} => \A u \in w.seen \ w.at : Parent(u) \subseteq w.seen

LEMMA WalkKeeps ==
  ASSUME TypeOK, NEW t \in Tasks, NEW w, WalkInv(t, w)
  PROVE  /\ WalkInv(t, WalkNext(w))
         /\ WalkNext(w).at # {} =>
              \E u \in Task : u \notin w.seen /\ WalkNext(w).seen = w.seen \cup {u}
  <1> DEFINE A == AboveAll(t)
             up == StepUp(w)
             next == WalkNext(w)
  <1>1. /\ w \in WalkState /\ t \in w.seen /\ w.at \subseteq w.seen
        /\ w.seen \ {t} \subseteq A \ Unfinished
        /\ w.found \subseteq A \cap Unfinished /\ t \notin w.found
        /\ \A u, v \in w.at : u = v
        /\ w.at # {} => w.found = {}
        /\ w.found = {} => \A u \in w.seen \ w.at : Parent(u) \subseteq w.seen
    BY DEF WalkInv
  <1>2. next \in WalkState /\ up \in SUBSET Tasks /\ Tasks \subseteq Task
    BY <1>1, WalkTypes DEF Tasks
  <1>3. \A u \in up : u \notin w.seen /\ \E v \in w.at : u \in Parent(v)
    BY DEF StepUp
  <1>4. \A v \in w.at : Parent(v) \subseteq A
    BY <1>1, AboveAllIsClosed
  <1>5. up \subseteq A /\ \A u \in up : u \notin w.seen
    BY <1>3, <1>4
  <1>6. \A u, v \in up : u = v
    <2>1. \A x : \A u, v \in Parent(x) : u = v
      BY DEF Parent
    <2> QED
      BY <1>1, <1>3, <2>1
  <1>7. \A v \in w.at : Parent(v) \subseteq w.seen \cup up
    BY DEF StepUp
  <1> HIDE DEF A, up
  <1>8. CASE w.found # {} \/ up = {}
    <2>1. next.at = {} /\ next.seen = w.seen /\ next.found = w.found
      BY <1>1, <1>8 DEF WalkNext, up, WalkState
    <2>2. next.found = {} => \A u \in next.seen \ next.at : Parent(u) \subseteq next.seen
      BY <1>1, <1>7, <1>8, <2>1
    <2> HIDE DEF next
    <2>3. WalkInv(t, next)
      BY <1>1, <1>2, <2>1, <2>2 DEF WalkInv, A
    <2> QED
      BY <2>1, <2>3 DEF next
  <1>9. CASE w.found = {} /\ up # {} /\ up \subseteq Unfinished
    <2>1. next.at = {} /\ next.seen = w.seen /\ next.found = up
      BY <1>1, <1>9 DEF WalkNext, up, WalkState
    <2> HIDE DEF next
    <2>2. WalkInv(t, next)
      BY <1>1, <1>2, <1>5, <1>9, <2>1 DEF WalkInv, A
    <2> QED
      BY <2>1, <2>2 DEF next
  <1>10. CASE w.found = {} /\ up # {} /\ ~(up \subseteq Unfinished)
    <2>1. next.at = up /\ next.seen = w.seen \cup up /\ next.found = {}
      BY <1>10 DEF WalkNext, up
    <2>2. PICK x : up = {x} /\ x \in Task /\ x \notin w.seen /\ x \notin Unfinished
      BY <1>2, <1>5, <1>6, <1>10
    <2>3. \A u \in next.seen \ next.at : Parent(u) \subseteq next.seen
      <3>1. \A u \in w.seen \ w.at : Parent(u) \subseteq w.seen
        BY <1>1, <1>10
      <3> HIDE DEF next
      <3> QED
        BY <1>7, <2>1, <3>1
    <2> HIDE DEF next
    <2>4. next.seen \ {t} \subseteq A \ Unfinished
      BY <1>1, <1>5, <2>1, <2>2
    <2>5. WalkInv(t, next)
      BY <1>1, <1>2, <1>6, <2>1, <2>3, <2>4 DEF WalkInv, A
    <2> QED
      BY <2>1, <2>2, <2>5 DEF next
  <1> QED
    BY <1>8, <1>9, <1>10

(* blocking_task in one state: it is never wrong about the task it finds,  *)
(* and finds one where there is one.                                       *)
LEMMA BlockingTaskIsExact ==
  ASSUME TypeOK, Cardinality(Task) <= MaxDepth, NEW t \in Tasks
  PROVE  LET others == (AboveAll(t) \cap Unfinished) \ {t}
         IN BlockingTask(t) \subseteq others /\ (BlockingTask(t) = {} => others = {})
  <1> DEFINE n == MaxDepth
  <1>1. PICK f \in [0..n -> WalkState] :
          /\ BlockingTask(t) = f[n].found /\ f[0] = WalkStart(t)
          /\ \A k \in 0..n : k # 0 => f[k] = WalkNext(f[k - 1])
    BY WalkSteps
  <1>2. n \in Nat /\ Cardinality(Task) \in Nat /\ Cardinality(Task) <= n /\ IsFiniteSet(Task)
        /\ Tasks \subseteq Task
    BY TrackerAssumption, FS_CardinalityType DEF Tasks
  <1> HIDE DEF n
  <1>3. ASSUME NEW k \in Nat, k + 1 \in 0..n
        PROVE  k \in 0..n /\ f[k + 1] = WalkNext(f[k])
    <2> DEFINE j == k + 1
    <2>1. k \in 0..n /\ j \in 0..n /\ j # 0 /\ j - 1 = k
      BY <1>2, <1>3
    <2>2. f[j] = WalkNext(f[j - 1])
      BY <1>1, <2>1
    <2> QED
      BY <2>1, <2>2
  <1>4. ASSUME NEW k \in 0..n
        PROVE  IsFiniteSet(f[k].seen) /\ Cardinality(f[k].seen) \in Nat
               /\ Cardinality(f[k].seen) <= Cardinality(Task)
    <2>1. f[k].seen \subseteq Task
      BY <1>1, <1>2 DEF WalkState
    <2> QED
      BY <1>2, <2>1, FS_Subset, FS_CardinalityType
  <1> DEFINE Good(k) == WalkInv(t, f[k]) /\ (f[k].at # {} => k + 1 <= Cardinality(f[k].seen))
             T == {k \in Nat : k \in 0..n => Good(k)}
  <1>5. 0 \in T
    <2>1. f[0].at = {t} /\ f[0].seen = {t} /\ f[0].found = {} /\ f[0] \in WalkState
      BY <1>1, <1>2, WalkTypes DEF WalkStart
    <2>2. WalkInv(t, f[0])
      BY <2>1 DEF WalkInv
    <2>3. Cardinality(f[0].seen) = 1
      BY <2>1, FS_Singleton
    <2>4. Good(0)
      BY <2>2, <2>3
    <2> QED
      BY <2>4
  <1>6. ASSUME NEW k \in T PROVE k + 1 \in T
    <2> SUFFICES ASSUME k + 1 \in 0..n PROVE Good(k + 1)
      BY <1>6
    <2>1. k \in Nat /\ k \in 0..n /\ f[k + 1] = WalkNext(f[k])
      BY <1>3, <1>6
    <2>2. Good(k)
      BY <1>6, <2>1
    <2> DEFINE w == f[k]
               v == f[k + 1]
    <2>3. WalkInv(t, v) /\ (v.at # {} => \E u \in Task : u \notin w.seen /\ v.seen = w.seen \cup {u})
      BY <2>1, <2>2, WalkKeeps
    <2>4. v.at # {} => w.at # {}
      BY <2>1 DEF WalkNext, StepUp
    <2>5. IsFiniteSet(w.seen) /\ Cardinality(w.seen) \in Nat /\ (w.at # {} => k + 1 <= Cardinality(w.seen))
      BY <1>4, <2>1, <2>2
    <2> HIDE DEF w
    <2>6. ASSUME v.at # {} PROVE (k + 1) + 1 <= Cardinality(v.seen)
      <3>1. PICK u \in Task : u \notin w.seen /\ v.seen = w.seen \cup {u}
        BY <2>3, <2>6
      <3>2. Cardinality(v.seen) = Cardinality(w.seen) + 1
        BY <2>5, <3>1, FS_AddElement
      <3> QED
        BY <2>1, <2>4, <2>5, <2>6, <3>2
    <2> QED
      BY <2>3, <2>6
  <1>7. T = Nat
    <2>1. T \in SUBSET Nat
      OBVIOUS
    <2> HIDE DEF T
    <2> QED
      BY <1>5, <1>6, <2>1, Induction
  <1>8. Good(n)
    <2>1. n \in T /\ n \in 0..n
      BY <1>2, <1>7
    <2> QED
      BY <2>1
  <1> DEFINE w == f[n]
             A == AboveAll(t)
  <1>9. w.at = {} /\ WalkInv(t, w)
    <2>1. n \in 0..n
      BY <1>2
    <2>2. Cardinality(w.seen) \in Nat /\ Cardinality(w.seen) <= Cardinality(Task)
      BY <1>4, <2>1
    <2> QED
      BY <1>2, <1>8, <2>2
  <1> HIDE DEF w
  <1>10. w.found \subseteq (A \cap Unfinished) \ {t}
    BY <1>9 DEF WalkInv
  <1>11. ASSUME w.found = {} PROVE (A \cap Unfinished) \ {t} = {}
    <2>1. w.seen \in SUBSET Tasks /\ t \in w.seen /\ \A u \in w.seen : Parent(u) \subseteq w.seen
      BY <1>9, <1>11 DEF WalkInv, WalkState
    <2>2. A \subseteq w.seen
      BY <2>1, AboveAllIsClosed
    <2>3. w.seen \ {t} \subseteq A \ Unfinished
      BY <1>9 DEF WalkInv
    <2> QED
      BY <2>2, <2>3
  <1>12. BlockingTask(t) = w.found
    BY <1>1 DEF w
  <1> QED
    BY <1>10, <1>11, <1>12

(* The code behaviour: whatever is stored, a task is reported blocked      *)
(* exactly when another unfinished task is above it, for any project whose *)
(* chains the walk's limit covers; that limit is the one in facts.py.      *)
THEOREM BlockedIsByWhatIsAbove ==
  ASSUME Cardinality(Task) <= MaxDepth
  PROVE  Spec => []BlockedByWhatIsAbove
  <1>1. TypeOK => BlockedByWhatIsAbove
    BY BlockingTaskIsExact DEF BlockedByWhatIsAbove
  <1> QED
    BY <1>1, TaskInvariant, PTL
=============================================================================
