--------------------------- MODULE WorkflowProofs ---------------------------
(***************************************************************************)
(* What is proved of workflows: that the two searches of the validation    *)
(* are exact, then of one execution in the engine, then of the executions  *)
(* that several requests start, resume, store and lose in the builder.     *)
(***************************************************************************)
EXTENDS GuardSearch, LoopSearch, WorkflowEngine, WorkflowBuilder,
        FiniteSetTheorems, SequenceTheorems, TLAPS

(***************************************************************************)
(* The closures that define what a walk reaches.                           *)
(***************************************************************************)
(* The roots are in their closure.                                         *)
LEMMA ClosureHoldsRoots ==
  ASSUME NEW roots \in SUBSET Node, NEW step \in [Node -> SUBSET Node]
  PROVE  roots \subseteq Closure(roots, step)
BY DEF Closure, ClosedSet

(* A closure is closed under its steps.                                    *)
LEMMA ClosureIsClosed ==
  ASSUME NEW roots \in SUBSET Node, NEW step \in [Node -> SUBSET Node],
         NEW n \in Closure(roots, step)
  PROVE  step[n] \subseteq Closure(roots, step)
<1>1. n \in Node
  BY DEF Closure
<1>2. ASSUME NEW m \in step[n], NEW S \in SUBSET Node, ClosedSet(S, roots, step)
      PROVE  m \in S
  BY <1>2 DEF Closure, ClosedSet
<1>3. QED
  BY <1>1, <1>2 DEF Closure

(* It is inside every closed set that holds the roots.                     *)
LEMMA ClosureIsLeast ==
  ASSUME NEW roots \in SUBSET Node, NEW step \in [Node -> SUBSET Node],
         NEW S \in SUBSET Node, ClosedSet(S, roots, step)
  PROVE  Closure(roots, step) \subseteq S
BY DEF Closure

(* It is the least set that holds the roots and that no step leaves.       *)
IsLeastClosed(roots, step, R) ==
  /\ roots \subseteq R
  /\ R \subseteq Node
  /\ \A n \in R : step[n] \subseteq R
  /\ \A S \in SUBSET Node :
       roots \subseteq S /\ (\A n \in S : step[n] \subseteq S) => R \subseteq S

LEMMA ClosureIsLeastClosed ==
  ASSUME NEW roots \in SUBSET Node, NEW step \in [Node -> SUBSET Node]
  PROVE  IsLeastClosed(roots, step, Closure(roots, step))
  <1> DEFINE R == Closure(roots, step)
  <1>1. roots \subseteq R
    BY ClosureHoldsRoots
  <1>2. R \subseteq Node
    BY DEF Closure
  <1>3. \A n \in R : step[n] \subseteq R
    BY ClosureIsClosed
  <1>4. ASSUME NEW S \in SUBSET Node, roots \subseteq S, \A n \in S : step[n] \subseteq S
        PROVE  R \subseteq S
    BY <1>4, ClosureIsLeast DEF ClosedSet
  <1> HIDE DEF R
  <1>5. IsLeastClosed(roots, step, R)
    BY <1>1, <1>2, <1>3, <1>4 DEF IsLeastClosed
  <1>6. QED
    BY <1>5 DEF R

(* Links lead to nodes.                                                    *)
LEMMA SuccIsNode ==
  ASSUME NEW w \in Workflow
  PROVE  /\ Start(w) \in SUBSET Node
         /\ \A n \in Node : /\ Follow(w, n) \in SUBSET Node
                            /\ Succ(w, n) \in SUBSET Node
                            /\ OpenSucc(w, n) \in SUBSET Node
BY NoNodeAssumption DEF Workflow, Link, Follow, Succ, OpenSucc, Start

(* The three facts about closures, for the set of exposed nodes.           *)
LEMMA ExposedIsLeastClosed ==
  ASSUME NEW w \in Workflow
  PROVE  /\ Start(w) \subseteq Exposed(w)
         /\ Exposed(w) \subseteq Node
         /\ \A n \in Exposed(w) : OpenSucc(w, n) \subseteq Exposed(w)
         /\ \A S \in SUBSET Node :
              Start(w) \subseteq S /\ (\A n \in S : OpenSucc(w, n) \subseteq S)
                => Exposed(w) \subseteq S
<1> DEFINE step == [n \in Node |-> OpenSucc(w, n)]
<1>1. /\ step \in [Node -> SUBSET Node] /\ Start(w) \in SUBSET Node
      /\ \A n \in Node : step[n] = OpenSucc(w, n)
  BY SuccIsNode
<1>2. Exposed(w) = Closure(Start(w), step)
  BY DEF Exposed
<1> HIDE DEF step
<1>3. IsLeastClosed(Start(w), step, Exposed(w))
  BY <1>1, <1>2, ClosureIsLeastClosed
<1>4. QED
  BY <1>1, <1>3 DEF IsLeastClosed

(* What is reached from some roots holds them, is closed under links and   *)
(* lies inside every such set.                                             *)
IsReach(w, roots, R) ==
  /\ roots \subseteq R
  /\ R \subseteq Node
  /\ \A n \in R : Succ(w, n) \subseteq R
  /\ \A S \in SUBSET Node :
       roots \subseteq S /\ (\A n \in S : Succ(w, n) \subseteq S) => R \subseteq S

LEMMA ReachIsLeastClosed ==
  ASSUME NEW w \in Workflow, NEW roots \in SUBSET Node
  PROVE  IsReach(w, roots, Closure(roots, [n \in Node |-> Succ(w, n)]))
  <1> DEFINE step == [n \in Node |-> Succ(w, n)]
  <1>1. step \in [Node -> SUBSET Node] /\ \A n \in Node : step[n] = Succ(w, n)
    BY SuccIsNode
  <1> HIDE DEF step
  <1>2. IsLeastClosed(roots, step, Closure(roots, step))
    BY <1>1, ClosureIsLeastClosed
  <1>3. IsReach(w, roots, Closure(roots, step))
    BY <1>1, <1>2 DEF IsLeastClosed, IsReach
  <1>4. QED
    BY <1>3 DEF step

(* The same along the links the engine follows.                            *)
IsWalk(w, roots, R) ==
  /\ roots \subseteq R
  /\ R \subseteq Node
  /\ \A n \in R : Follow(w, n) \subseteq R

LEMMA WalkIsClosed ==
  ASSUME NEW w \in Workflow, NEW roots \in SUBSET Node
  PROVE  IsWalk(w, roots, Closure(roots, [n \in Node |-> Follow(w, n)]))
  <1> DEFINE step == [n \in Node |-> Follow(w, n)]
  <1>1. step \in [Node -> SUBSET Node] /\ \A n \in Node : step[n] = Follow(w, n)
    BY SuccIsNode
  <1> HIDE DEF step
  <1>2. IsLeastClosed(roots, step, Closure(roots, step))
    BY <1>1, ClosureIsLeastClosed
  <1>3. IsWalk(w, roots, Closure(roots, step))
    BY <1>1, <1>2 DEF IsLeastClosed, IsWalk
  <1>4. QED
    BY <1>3 DEF step

LEMMA FromStartFacts ==
  ASSUME NEW w \in Workflow
  PROVE  IsReach(w, Start(w), FromStart(w))
  <1>1. Start(w) \in SUBSET Node
    BY SuccIsNode
  <1>2. QED
    BY <1>1, ReachIsLeastClosed DEF FromStart

LEMMA AfterFacts ==
  ASSUME NEW w \in Workflow, NEW n \in Node
  PROVE  IsReach(w, Succ(w, n), After(w, n))
  <1>1. Succ(w, n) \in SUBSET Node
    BY SuccIsNode
  <1>2. QED
    BY <1>1, ReachIsLeastClosed DEF After

-----------------------------------------------------------------------------
(***************************************************************************)
(* The search of unguarded_high_risk_nodes returns exactly the nodes it    *)
(* should, for every definition.  The invariant says that the pairs seen   *)
(* without an approval lie among the exposed nodes, and that every pair    *)
(* already taken off the queue has had its successors seen; when the queue *)
(* is empty the exposed nodes therefore all have been seen.                *)
(***************************************************************************)
Taken == seen \ pending

SearchInv ==
  /\ GuardTypeOK
  /\ StartPairs(workflow) \subseteq seen
  /\ \A n \in Node : <<n, FALSE>> \in seen => n \in Exposed(workflow)
  /\ \A p \in Taken : PairSucc(workflow, p) \subseteq seen
  /\ unguarded = {n \in workflow.nodes :
                    workflow.type[n] \in HighRisk /\ <<n, FALSE>> \in Taken}

(* The search starts with nothing found and only the start pending.        *)
LEMMA InitEstablishes == GuardInit => SearchInv
<1> SUFFICES ASSUME GuardInit PROVE SearchInv
  OBVIOUS
<1>1. workflow \in Workflow /\ Start(workflow) \in SUBSET Node
  BY WorkflowsAssumption, SuccIsNode DEF GuardInit
<1>2. GuardTypeOK
  BY <1>1 DEF GuardInit, GuardTypeOK, StartPairs, Pair
<1>3. \A n \in Node : <<n, FALSE>> \in seen => n \in Exposed(workflow)
  BY <1>1, ExposedIsLeastClosed DEF GuardInit, StartPairs
<1>4. QED
  BY <1>1, <1>2, <1>3 DEF GuardInit, SearchInv, Taken, Workflow

(* One iteration of the search keeps the invariant.                        *)
LEMMA VisitPreserves ==
  ASSUME SearchInv, NEW p \in Pair, Visit(p)
  PROVE  SearchInv'
<1> USE DEF SearchInv
<1>1. workflow \in Workflow /\ workflow' = workflow
  BY WorkflowsAssumption DEF GuardTypeOK, Visit
<1>2. p[1] \in Node /\ p[2] \in BOOLEAN /\ p = <<p[1], p[2]>>
  BY DEF Pair
<1>3. Succ(workflow, p[1]) \in SUBSET Node
  BY <1>1, <1>2, SuccIsNode
<1>4. PairSucc(workflow, p) \subseteq Pair
  BY <1>2, <1>3 DEF PairSucc, Pair
<1>5. GuardTypeOK'
  <2>1. pending' \subseteq seen' /\ seen' \subseteq Pair
    BY <1>4 DEF GuardTypeOK, Visit
  <2>2. unguarded' \subseteq Node
    BY <1>1, <1>2 DEF GuardTypeOK, Visit, Found
  <2>3. QED
    BY <1>1, <2>1, <2>2 DEF GuardTypeOK
<1>6. StartPairs(workflow') \subseteq seen'
  BY <1>1 DEF Visit
<1>7. ASSUME NEW n \in Node, <<n, FALSE>> \in seen'
      PROVE  n \in Exposed(workflow')
  <2>1. CASE <<n, FALSE>> \in seen
    BY <1>1, <2>1
  <2>2. CASE <<n, FALSE>> \in PairSucc(workflow, p)
    <3>1. /\ n \in Succ(workflow, p[1])
          /\ (p[2] \/ (p[1] \in workflow.nodes /\ workflow.type[p[1]] = "human_approval")) = FALSE
      BY <2>2 DEF PairSucc
    <3>2. p[2] = FALSE
      BY <1>2, <3>1
    <3>3. p[1] \in Exposed(workflow)
      BY <1>2, <3>2 DEF Visit, GuardTypeOK
    <3>4. n \in OpenSucc(workflow, p[1])
      BY <3>1 DEF OpenSucc
    <3>5. QED
      BY <1>1, <3>3, <3>4, ExposedIsLeastClosed
  <2>3. QED
    BY <1>7, <2>1, <2>2 DEF Visit
<1>8. Taken' \subseteq Taken \cup {p} /\ Taken \subseteq Taken'
  BY DEF Taken, Visit, GuardTypeOK
<1>9. \A q \in Taken' : PairSucc(workflow', q) \subseteq seen'
  BY <1>1, <1>8 DEF Visit
<1>10. ASSUME p \notin PairSucc(workflow, p) \ seen
       PROVE  Taken' = Taken \cup {p}
  BY <1>10 DEF Taken, Visit, GuardTypeOK
<1>11. Taken' = Taken \cup {p}
  BY <1>10 DEF Visit, GuardTypeOK
<1>12. unguarded' = {n \in workflow'.nodes :
                       workflow'.type[n] \in HighRisk /\ <<n, FALSE>> \in Taken'}
  <2>1. ASSUME NEW n \in Node PROVE <<n, FALSE>> = p <=> n = p[1] /\ ~p[2]
    <3>1. CASE p[2] = TRUE
      <4>1. p = <<p[1], TRUE>>
        BY <1>2, <3>1
      <4>2. <<n, FALSE>>[2] = FALSE /\ <<p[1], TRUE>>[2] = TRUE
        OBVIOUS
      <4>3. <<n, FALSE>> # p
        BY <4>1, <4>2, Zenon
      <4>4. QED
        BY <3>1, <4>3
    <3>2. CASE p[2] = FALSE
      <4>1. p = <<p[1], FALSE>>
        BY <1>2, <3>2
      <4>2. <<n, FALSE>>[1] = n
        OBVIOUS
      <4>3. <<n, FALSE>> = p <=> n = p[1]
        BY <4>1, <4>2, Zenon
      <4>4. QED
        BY <3>2, <4>3
    <3>3. QED
      BY <1>2, <3>1, <3>2
  <2>2. QED
    BY <1>1, <1>2, <1>11, <2>1 DEF Visit, Found, Workflow
<1>13. QED
  BY <1>5, <1>6, <1>7, <1>9, <1>12

(* The invariant holds throughout the search.                              *)
LEMMA SearchInvariant == GuardSpec => []SearchInv
<1>1. SearchInv /\ [GuardNext]_<<workflow, guardVars>> => SearchInv'
  <2> SUFFICES ASSUME SearchInv, [GuardNext]_<<workflow, guardVars>> PROVE SearchInv'
    OBVIOUS
  <2>1. CASE GuardNext
    BY <2>1, VisitPreserves DEF GuardNext
  <2>2. CASE UNCHANGED <<workflow, guardVars>>
    BY <2>2 DEF guardVars, SearchInv, GuardTypeOK, Taken
  <2>3. QED
    BY <2>1, <2>2
<1>2. QED
  BY InitEstablishes, <1>1, PTL DEF GuardSpec

(* With an empty queue the result is exact.                                *)
LEMMA InvariantIsExact == SearchInv => GuardIsExact
<1> SUFFICES ASSUME SearchInv, pending = {} PROVE unguarded = Unguarded(workflow)
  BY DEF GuardIsExact
<1> USE DEF SearchInv
<1> DEFINE S == {n \in Node : <<n, FALSE>> \in seen}
<1>1. workflow \in Workflow /\ Taken = seen
  BY WorkflowsAssumption DEF GuardTypeOK, Taken
<1>2. Start(workflow) \subseteq S
  BY <1>1, SuccIsNode DEF StartPairs
<1>3. ASSUME NEW n \in S PROVE OpenSucc(workflow, n) \subseteq S
  <2>1. CASE n \in workflow.nodes /\ workflow.type[n] = "human_approval"
    BY <2>1 DEF OpenSucc
  <2>2. CASE ~(n \in workflow.nodes /\ workflow.type[n] = "human_approval")
    <3>1. PairSucc(workflow, <<n, FALSE>>) = Succ(workflow, n) \X {FALSE}
      BY <2>2 DEF PairSucc
    <3>2. Succ(workflow, n) \X {FALSE} \subseteq seen
      BY <1>1, <3>1
    <3>3. QED
      BY <1>1, <2>2, <3>2, SuccIsNode DEF OpenSucc
  <2>3. QED
    BY <2>1, <2>2
<1>4. Exposed(workflow) \subseteq S
  BY <1>1, <1>2, <1>3, ExposedIsLeastClosed
<1>5. \A n \in workflow.nodes : n \in Node
  BY <1>1 DEF Workflow
<1>6. \A n \in workflow.nodes : <<n, FALSE>> \in Taken <=> n \in Exposed(workflow)
  BY <1>1, <1>4, <1>5
<1>7. QED
  BY <1>6 DEF Unguarded

(* For every definition, the search finds exactly the high-risk nodes that *)
(* some route reaches without an approval (unguarded_high_risk_nodes).     *)
THEOREM SearchIsExact == GuardSpec => []GuardIsExact
BY SearchInvariant, InvariantIsExact, PTL

-----------------------------------------------------------------------------
(***************************************************************************)
(* The answer of has_loop is right for every definition.  The nodes on the *)
(* stack lie on one path from the start, each after those below it, so a   *)
(* link back to one of them closes a loop.  What is done leads only to     *)
(* what was done before it, so there is no loop through it.                *)
(***************************************************************************)
(* A node that is not in the definition leads nowhere.                     *)
LEMMA OutsideLeadsNowhere ==
  ASSUME NEW w \in Workflow, NEW n \in Node \ w.nodes
  PROVE  Succ(w, n) = {} /\ After(w, n) = {}
  <1>1. Succ(w, n) = {}
    BY DEF Follow, Succ
  <1>2. QED
    BY <1>1, AfterFacts DEF IsReach

LEMMA LinksAreSuccessors ==
  ASSUME NEW w \in Workflow, NEW n \in w.nodes
  PROVE  /\ LinksOf(w, n) \in Seq(Node)
         /\ {LinksOf(w, n)[i] : i \in 1..Len(LinksOf(w, n))} = Succ(w, n)
  <1>1. w.next[n] \in Node \cup {NoNode} /\ w.alt[n] \in Node \cup {NoNode} /\ n \in Node
    BY DEF Workflow, Link
  <1>2. Link1(w.next[n]) \in Seq(Node) /\ Link1(w.alt[n]) \in Seq(Node)
    BY <1>1 DEF Link1
  <1> DEFINE none == {NoNode, EmptyId}
  <1>3. CASE w.next[n] \in none /\ w.alt[n] \in none
    BY <1>1, <1>3 DEF LinksOf, Link1, Follow, Succ
  <1>4. CASE w.next[n] \notin none /\ w.alt[n] \in none
    BY <1>1, <1>4 DEF LinksOf, Link1, Follow, Succ
  <1>5. CASE w.next[n] \in none /\ w.alt[n] \notin none
    BY <1>1, <1>5 DEF LinksOf, Link1, Follow, Succ
  <1>6. CASE w.next[n] \notin none /\ w.alt[n] \notin none
    BY <1>1, <1>6 DEF LinksOf, Link1, Follow, Succ
  <1>7. QED
    BY <1>3, <1>4, <1>5, <1>6

-----------------------------------------------------------------------------
Height == Len(stack)
At(i) == stack[i].node
ToTry(i) == {stack[i].left[k] : k \in 1..Len(stack[i].left)}
Outside == Node \ workflow.nodes

(* The nodes of the stack are a path from the start without repetition.    *)
StackIsPath ==
  /\ stack \in Seq(Frame) /\ Height > 0
  /\ At(1) = workflow.start
  /\ visiting = {At(i) : i \in 1..Height}
  /\ \A i \in 1..Height : At(i) \in workflow.nodes /\ At(i) \in FromStart(workflow)
  /\ \A i, j \in 1..Height : i < j => At(j) \in After(workflow, At(i)) /\ At(i) # At(j)

(* A successor of a node of the stack is still to try, or is done, or is   *)
(* not in the definition, or is the next node of the stack.                *)
LinksAccounted ==
  \A i \in 1..Height :
    /\ ToTry(i) \subseteq Succ(workflow, At(i))
    /\ \A m \in Succ(workflow, At(i)) :
         m \in ToTry(i) \cup done \cup Outside \/ (i < Height /\ m = At(i + 1))

(* What is done leads to nothing but what is done, and not back to itself. *)
DoneIsLoopFree ==
  /\ done \subseteq workflow.nodes /\ done \cap visiting = {}
  /\ \A n \in done : Succ(workflow, n) \subseteq done \cup Outside /\ n \notin After(workflow, n)

LoopInv ==
  /\ workflow \in Workflow
  /\ answer \in {"searching", "loop", "no_loop"}
  /\ answer = "searching" => StackIsPath /\ LinksAccounted /\ DoneIsLoopFree
  /\ LoopIsExact

(* A set of nodes without a loop that holds the start, and that links do   *)
(* not leave but out of the definition, leaves no loop to find.            *)
LEMMA NoLoopInClosed ==
  ASSUME NEW w \in Workflow, NEW D \in SUBSET Node,
         Start(w) \subseteq D \cup (Node \ w.nodes),
         \A n \in D : Succ(w, n) \subseteq D \cup (Node \ w.nodes),
         \A n \in D : n \notin After(w, n)
  PROVE  ~ HasLoop(w)
  <1> DEFINE S == D \cup (Node \ w.nodes)
  <1>1. \A n \in S : Succ(w, n) \subseteq S
    BY OutsideLeadsNowhere
  <1>2. FromStart(w) \subseteq S
    <2>1. S \in SUBSET Node /\ Start(w) \subseteq S
      OBVIOUS
    <2>2. IsReach(w, Start(w), FromStart(w))
      BY FromStartFacts
    <2> HIDE DEF S
    <2>3. QED
      BY <1>1, <2>1, <2>2 DEF IsReach
  <1>3. \A n \in S : n \notin After(w, n)
    BY OutsideLeadsNowhere
  <1>4. QED
    BY <1>2, <1>3 DEF HasLoop

LEMMA LoopInitEstablishes == LoopInit => LoopInv
  <1> SUFFICES ASSUME LoopInit PROVE LoopInv
    OBVIOUS
  <1>1. workflow \in Workflow /\ done = {}
    BY WorkflowsAssumption DEF LoopInit
  <1>2. CASE workflow.start \notin Start(workflow) \cap workflow.nodes
    <2>1. answer = "no_loop"
      BY <1>2 DEF LoopInit
    <2>2. Start(workflow) \subseteq Node \ workflow.nodes
      BY <1>1, <1>2, SuccIsNode DEF Start
    <2>3. ~ HasLoop(workflow)
      BY <1>1, <2>2, NoLoopInClosed
    <2>4. QED
      BY <1>1, <2>1, <2>3 DEF LoopInv, LoopIsExact
  <1>3. CASE workflow.start \in Start(workflow) \cap workflow.nodes
    <2> DEFINE s == workflow.start
    <2>1. answer = "searching" /\ visiting = {s} /\ stack = << Enter(workflow, s) >>
      BY <1>3 DEF LoopInit
    <2>2. /\ s \in Node /\ LinksOf(workflow, s) \in Seq(Node)
          /\ {LinksOf(workflow, s)[k] : k \in 1..Len(LinksOf(workflow, s))} = Succ(workflow, s)
      BY <1>1, <1>3, LinksAreSuccessors DEF Workflow
    <2>3. s \in FromStart(workflow)
      BY <1>1, <1>3, FromStartFacts DEF IsReach
    <2>4. /\ Height = 1 /\ At(1) = s /\ stack \in Seq(Frame)
          /\ stack[1].left = LinksOf(workflow, s)
      BY <2>1, <2>2 DEF Height, At, Enter, Frame
    <2>5. StackIsPath
      BY <1>3, <2>1, <2>3, <2>4 DEF StackIsPath
    <2>6. LinksAccounted
      BY <2>2, <2>4 DEF LinksAccounted, ToTry
    <2>7. DoneIsLoopFree
      BY <1>1 DEF DoneIsLoopFree
    <2>8. QED
      BY <1>1, <2>1, <2>5, <2>6, <2>7 DEF LoopInv, LoopIsExact
  <1>4. QED
    BY <1>2, <1>3

(* The facts every step starts from.                                       *)
LEMMA TopFacts ==
  ASSUME LoopInv, Searching
  PROVE  /\ workflow \in Workflow
         /\ StackIsPath /\ LinksAccounted /\ DoneIsLoopFree
         /\ Height \in Nat \ {0} /\ Top = stack[Height]
         /\ \A i \in 1..Height : stack[i] \in Frame /\ At(i) \in Node
         /\ Top.node = At(Height)
         /\ done \subseteq Node
  <1>1. workflow \in Workflow /\ StackIsPath /\ LinksAccounted /\ DoneIsLoopFree
    BY DEF LoopInv, Searching
  <1>2. stack \in Seq(Frame) /\ Height \in Nat \ {0} /\ Top = stack[Height]
    BY <1>1 DEF StackIsPath, Height, Top, Last
  <1>3. \A i \in 1..Height : stack[i] \in Frame
    BY <1>2 DEF Height
  <1>4. \A i \in 1..Height : At(i) \in Node
    BY <1>3 DEF At, Frame
  <1>5. QED
    BY <1>1, <1>2, <1>3, <1>4 DEF At, DoneIsLoopFree, Workflow

LEMMA TargetFacts ==
  ASSUME LoopInv, HasTarget
  PROVE  /\ Target \in Node /\ Target \in Succ(workflow, At(Height))
         /\ Top.left \in Seq(Node) /\ Tail(Top.left) \in Seq(Node)
         /\ ToTry(Height) = {Target} \cup {Tail(Top.left)[k] : k \in 1..Len(Tail(Top.left))}
         /\ \A i \in 1..Height : Target \in After(workflow, At(i))
         /\ Target \in FromStart(workflow)
  <1>1. Top.left \in Seq(Node) /\ Top.left # << >> /\ Top.left = stack[Height].left
    BY TopFacts DEF HasTarget, Frame
  <1>2. Tail(Top.left) \in Seq(Node) /\ Target \in Node
    BY <1>1 DEF Target
  <1>3. ToTry(Height) = {Target} \cup {Tail(Top.left)[k] : k \in 1..Len(Tail(Top.left))}
    <2> DEFINE l == Top.left
    <2>1. l \in Seq(Node) /\ l # << >> /\ Target = l[1]
      BY <1>1 DEF Target
    <2> HIDE DEF l
    <2>2. /\ Len(Tail(l)) = Len(l) - 1 /\ Len(l) \in Nat \ {0}
          /\ \A k \in 1..Len(Tail(l)) : Tail(l)[k] = l[k + 1]
      BY <2>1
    <2>3. \A k \in 2..Len(l) : k - 1 \in 1..Len(Tail(l)) /\ Tail(l)[k - 1] = l[k]
      BY <2>2
    <2>4. {l[k] : k \in 1..Len(l)} = {l[1]} \cup {Tail(l)[k] : k \in 1..Len(Tail(l))}
      <3>1. ASSUME NEW k \in 1..Len(l) PROVE l[k] \in {l[1]} \cup {Tail(l)[j] : j \in 1..Len(Tail(l))}
        <4>1. CASE k = 1
          BY <4>1
        <4>2. CASE k # 1
          BY <2>2, <2>3, <4>2
        <4>3. QED
          BY <4>1, <4>2
      <3>2. ASSUME NEW j \in 1..Len(Tail(l)) PROVE Tail(l)[j] \in {l[k] : k \in 1..Len(l)}
        BY <2>2
      <3>3. l[1] \in {l[k] : k \in 1..Len(l)}
        BY <2>2
      <3>4. QED
        BY <3>1, <3>2, <3>3
    <2>5. ToTry(Height) = {l[k] : k \in 1..Len(l)}
      BY <1>1 DEF ToTry, l
    <2>6. QED
      BY <2>1, <2>4, <2>5 DEF l
  <1>4. Target \in Succ(workflow, At(Height))
    BY <1>3, TopFacts DEF LinksAccounted, HasTarget
  <1>5. ASSUME NEW i \in 1..Height PROVE Target \in After(workflow, At(i))
    <2>1. CASE i = Height
      BY <1>4, <2>1, TopFacts, AfterFacts DEF HasTarget, IsReach
    <2>2. CASE i < Height
      <3>1. At(Height) \in After(workflow, At(i))
        BY <2>2, TopFacts DEF HasTarget, StackIsPath
      <3>2. QED
        BY <1>4, <3>1, TopFacts, AfterFacts DEF HasTarget, IsReach
    <2>3. QED
      BY <2>1, <2>2, TopFacts DEF HasTarget
  <1>6. Target \in FromStart(workflow)
    BY <1>4, TopFacts, FromStartFacts DEF HasTarget, IsReach, StackIsPath
  <1>7. QED
    BY <1>1, <1>2, <1>3, <1>4, <1>5, <1>6

(* A link back to a node of the path closes a loop.                        *)
LEMMA FindLoopPreserves == LoopInv /\ FindLoop => LoopInv'
  <1> SUFFICES ASSUME LoopInv, FindLoop PROVE LoopInv'
    OBVIOUS
  <1>1. PICK i \in 1..Height : Target = At(i)
    BY TopFacts DEF FindLoop, HasTarget, StackIsPath
  <1>2. At(i) \in FromStart(workflow) /\ At(i) \in After(workflow, At(i))
    BY <1>1, TargetFacts DEF FindLoop
  <1>3. HasLoop(workflow)
    BY <1>2 DEF HasLoop
  <1>4. QED
    BY <1>3 DEF LoopInv, LoopIsExact, FindLoop, HasLoop

(* The stack after the next link of the top frame is taken.                *)
LEMMA AdvancedFacts ==
  ASSUME LoopInv, HasTarget
  PROVE  /\ Advanced \in Seq(Frame) /\ Len(Advanced) = Height
         /\ \A i \in 1..Height : Advanced[i].node = At(i)
         /\ \A i \in 1..(Height - 1) : Advanced[i] = stack[i]
         /\ Advanced[Height].left = Tail(Top.left)
  <1>1. /\ stack \in Seq(Frame) /\ Height \in Nat \ {0} /\ Height = Len(stack)
        /\ Top \in Frame /\ Top = stack[Height]
    BY TopFacts DEF HasTarget, StackIsPath, Height
  <1>2. /\ Below \in Seq(Frame) /\ Len(Below) = Height - 1
        /\ \A i \in 1..(Height - 1) : Below[i] = stack[i]
    BY <1>1 DEF Below, Front
  <1> DEFINE t == [Top EXCEPT !.left = Tail(@)]
  <1>3. t \in Frame /\ t.node = Top.node /\ t.left = Tail(Top.left)
    BY <1>1, TargetFacts DEF Frame
  <1>4. Advanced = Append(Below, t)
    BY DEF Advanced
  <1> HIDE DEF t
  <1>5. /\ Advanced \in Seq(Frame) /\ Len(Advanced) = Height
        /\ \A i \in 1..(Height - 1) : Advanced[i] = stack[i]
        /\ Advanced[Height] = t
    BY <1>1, <1>2, <1>3, <1>4
  <1>6. QED
    BY <1>1, <1>3, <1>5 DEF At

LEMMA SkipLinkPreserves == LoopInv /\ SkipLink => LoopInv'
  <1> SUFFICES ASSUME LoopInv, SkipLink PROVE LoopInv'
    OBVIOUS
  <1>0. PICK h \in Nat \ {0} : h = Height
    BY TopFacts DEF SkipLink, HasTarget
  <1>1. /\ HasTarget /\ stack' = Advanced /\ workflow' = workflow
        /\ visiting' = visiting /\ done' = done /\ answer' = answer /\ answer = "searching"
    BY DEF SkipLink, HasTarget, Searching
  <1>2. /\ Height' = h /\ stack' \in Seq(Frame)
        /\ \A i \in 1..h : At(i)' = At(i)
        /\ \A i \in 1..(h - 1) : ToTry(i)' = ToTry(i)
        /\ ToTry(h)' = {Tail(Top.left)[k] : k \in 1..Len(Tail(Top.left))}
    <2>1. /\ stack' \in Seq(Frame) /\ Len(stack') = h
          /\ \A i \in 1..h : stack'[i].node = At(i)
          /\ \A i \in 1..(h - 1) : stack'[i] = stack[i]
          /\ stack'[h].left = Tail(Top.left)
      BY <1>0, <1>1, AdvancedFacts
    <2>2. Height' = h /\ \A i \in 1..h : At(i)' = At(i)
      BY <2>1 DEF Height, At
    <2>3. \A i \in 1..(h - 1) : ToTry(i)' = ToTry(i)
      BY <2>1 DEF ToTry
    <2>4. ToTry(h)' = {Tail(Top.left)[k] : k \in 1..Len(Tail(Top.left))}
      BY <2>1 DEF ToTry
    <2>5. QED
      BY <2>1, <2>2, <2>3, <2>4
  <1>3. StackIsPath'
    BY <1>0, <1>1, <1>2, TopFacts DEF StackIsPath, HasTarget
  <1>4. LinksAccounted'
    <2>1. Target \in done \cup Outside
      BY TargetFacts, <1>1 DEF SkipLink, Outside
    <2>2. ToTry(h) = {Target} \cup ToTry(h)'
      BY <1>0, <1>1, <1>2, TargetFacts
    <2> SUFFICES ASSUME NEW i \in 1..h
                 PROVE  /\ ToTry(i)' \subseteq Succ(workflow, At(i))
                        /\ \A m \in Succ(workflow, At(i)) :
                             m \in ToTry(i)' \cup done \cup Outside \/ (i < h /\ m = At(i + 1))
      BY <1>0, <1>1, <1>2 DEF LinksAccounted, Outside
    <2>4. CASE i = h
      BY <1>0, <1>1, <1>2, <2>1, <2>2, <2>4, TopFacts DEF LinksAccounted, HasTarget
    <2>5. CASE i # h
      BY <1>0, <1>1, <1>2, <2>5, TopFacts DEF LinksAccounted, HasTarget
    <2>6. QED
      BY <2>4, <2>5
  <1>5. DoneIsLoopFree'
    BY <1>1, TopFacts DEF DoneIsLoopFree, HasTarget, Outside
  <1>6. QED
    BY <1>1, <1>3, <1>4, <1>5 DEF LoopInv, LoopIsExact

LEMMA DescendPreserves == LoopInv /\ Descend => LoopInv'
  <1> SUFFICES ASSUME LoopInv, Descend PROVE LoopInv'
    OBVIOUS
  <1>0. PICK h \in Nat \ {0} : h = Height
    BY TopFacts DEF Descend, HasTarget
  <1> DEFINE e == Enter(workflow, Target)
             H == h + 1
  <1>1. /\ HasTarget /\ stack' = Append(Advanced, e) /\ workflow' = workflow
        /\ visiting' = visiting \cup {Target} /\ done' = done
        /\ answer' = answer /\ answer = "searching"
        /\ Target \in workflow.nodes /\ Target \notin visiting /\ Target \notin done
    BY DEF Descend, HasTarget, Searching
  <1>2. /\ e \in Frame /\ e.node = Target
        /\ {e.left[k] : k \in 1..Len(e.left)} = Succ(workflow, Target)
    BY <1>1, TopFacts, TargetFacts, LinksAreSuccessors DEF Enter, Frame, HasTarget
  <1> HIDE DEF e
  <1>3. /\ Height' = H /\ stack' \in Seq(Frame)
        /\ \A i \in 1..h : stack'[i] = Advanced[i]
        /\ stack'[H] = e
    BY <1>0, <1>1, <1>2, TopFacts, AdvancedFacts DEF HasTarget, Height
  <1>4. /\ \A i \in 1..h : At(i)' = At(i)
        /\ At(H)' = Target
        /\ \A i \in 1..(h - 1) : ToTry(i)' = ToTry(i)
        /\ ToTry(h)' = {Tail(Top.left)[k] : k \in 1..Len(Tail(Top.left))}
        /\ ToTry(H)' = Succ(workflow, Target)
    <2>1. /\ \A i \in 1..h : stack'[i].node = At(i)
          /\ \A i \in 1..(h - 1) : i \in 1..h /\ stack'[i] = stack[i]
          /\ h \in 1..h /\ stack'[h].left = Tail(Top.left)
      BY <1>0, <1>1, <1>3, AdvancedFacts
    <2>2. \A i \in 1..h : At(i)' = At(i)
      BY <2>1 DEF At
    <2>3. At(H)' = Target
      BY <1>2, <1>3 DEF At
    <2>4. \A i \in 1..(h - 1) : ToTry(i)' = ToTry(i)
      BY <2>1 DEF ToTry
    <2>5. ToTry(h)' = {Tail(Top.left)[k] : k \in 1..Len(Tail(Top.left))}
      BY <2>1 DEF ToTry
    <2>6. ToTry(H)' = Succ(workflow, Target)
      BY <1>2, <1>3 DEF ToTry
    <2>7. QED
      BY <2>2, <2>3, <2>4, <2>5, <2>6
  <1>5. StackIsPath'
    <2>1. stack' \in Seq(Frame) /\ Height' > 0 /\ At(1)' = workflow'.start
      BY <1>0, <1>1, <1>3, <1>4, TopFacts DEF HasTarget, StackIsPath
    <2>2. visiting' = {At(i)' : i \in 1..H}
      <3>1. visiting = {At(i) : i \in 1..h}
        BY <1>0, <1>1, TopFacts DEF HasTarget, StackIsPath
      <3>2. \A i \in 1..H : i \in 1..h \/ i = H
        BY <1>0, <1>3
      <3>3. \A i \in 1..h : i \in 1..H
        BY <1>0, <1>3
      <3>4. H \in 1..H
        BY <1>0, <1>3
      <3> HIDE DEF H
      <3>5. QED
        BY <1>0, <1>1, <1>4, <3>1, <3>2, <3>3, <3>4
    <2>3. \A i \in 1..H : At(i)' \in workflow.nodes /\ At(i)' \in FromStart(workflow)
      BY <1>0, <1>1, <1>3, <1>4, TopFacts, TargetFacts DEF HasTarget, StackIsPath
    <2>4. ASSUME NEW i \in 1..H, NEW j \in 1..H, i < j
          PROVE  At(j)' \in After(workflow, At(i)') /\ At(i)' # At(j)'
      <3>1. CASE j = H
        BY <1>0, <1>1, <1>3, <1>4, <2>4, <3>1, TopFacts, TargetFacts DEF HasTarget, StackIsPath
      <3>2. CASE j # H
        <4>1. i \in 1..h /\ j \in 1..h
          BY <2>4, <3>2
        <4>2. At(j) \in After(workflow, At(i)) /\ At(i) # At(j)
          BY <1>0, <1>1, <2>4, <4>1, TopFacts DEF HasTarget, StackIsPath
        <4>3. QED
          BY <1>4, <4>1, <4>2
      <3>3. QED
        BY <3>1, <3>2
    <2>5. QED
      BY <1>0, <1>1, <1>3, <2>1, <2>2, <2>3, <2>4 DEF StackIsPath
  <1>6. LinksAccounted'
    <2> SUFFICES ASSUME NEW i \in 1..H
                 PROVE  /\ ToTry(i)' \subseteq Succ(workflow, At(i)')
                        /\ \A m \in Succ(workflow, At(i)') :
                             m \in ToTry(i)' \cup done \cup Outside \/ (i < H /\ m = At(i + 1)')
      BY <1>0, <1>1, <1>3 DEF LinksAccounted, Outside
    <2>1. CASE i = H
      BY <1>0, <1>4, <2>1
    <2>2. CASE i = h
      <3>1. ToTry(h) = {Target} \cup ToTry(h)'
        BY <1>0, <1>1, <1>4, TargetFacts
      <3>2. At(h)' = At(h) /\ At(h + 1)' = Target /\ h < H
        BY <1>0, <1>3, <1>4
      <3>3. \A m \in Succ(workflow, At(h)) : m \in ToTry(h) \cup done \cup Outside
        BY <1>0, <1>1, TopFacts DEF HasTarget, LinksAccounted
      <3>4. ToTry(h) \subseteq Succ(workflow, At(h))
        BY <1>0, <1>1, TopFacts DEF HasTarget, LinksAccounted
      <3>5. QED
        BY <2>2, <3>1, <3>2, <3>3, <3>4
    <2>3. CASE i < h
      <3>1. i \in 1..(h - 1) /\ i + 1 \in 1..h /\ i \in 1..h
        BY <1>0, <1>3, <2>3
      <3>2. /\ ToTry(i) \subseteq Succ(workflow, At(i))
            /\ \A m \in Succ(workflow, At(i)) :
                 m \in ToTry(i) \cup done \cup Outside \/ m = At(i + 1)
        BY <1>0, <1>1, <3>1, TopFacts DEF HasTarget, LinksAccounted
      <3>3. QED
        BY <1>0, <1>3, <1>4, <2>3, <3>1, <3>2
    <2>4. QED
      BY <1>0, <1>3, <2>1, <2>2, <2>3
  <1>7. DoneIsLoopFree'
    BY <1>0, <1>1, TopFacts DEF DoneIsLoopFree, HasTarget, Outside
  <1>8. QED
    BY <1>0, <1>1, <1>5, <1>6, <1>7 DEF LoopInv, LoopIsExact

(* A node whose links are all tried leads only to what is done, so not     *)
(* back to itself: it is not done.                                         *)
LEMMA ReturnPreserves == LoopInv /\ Return => LoopInv'
  <1> SUFFICES ASSUME LoopInv, Return PROVE LoopInv'
    OBVIOUS
  <1> DEFINE t == At(Height)
  <1>1. /\ Searching /\ Top.left = << >> /\ stack' = Below /\ workflow' = workflow
        /\ visiting' = visiting \ {t} /\ done' = done \cup {t}
        /\ answer' = IF Below = << >> THEN "no_loop" ELSE answer
        /\ answer = "searching"
    BY TopFacts DEF Return, Searching
  <1>2. /\ stack \in Seq(Frame) /\ Height \in Nat \ {0} /\ Height = Len(stack)
        /\ Top = stack[Height] /\ workflow \in Workflow
        /\ t \in Node /\ t \in workflow.nodes /\ t \in visiting /\ t \notin done /\ done \subseteq Node
    BY <1>1, TopFacts DEF StackIsPath, Height, DoneIsLoopFree
  <1>3. /\ Below \in Seq(Frame) /\ Len(Below) = Height - 1
        /\ \A i \in 1..(Height - 1) : Below[i] = stack[i]
    BY <1>2 DEF Below, Front
  <1>4. /\ Height' = Height - 1 /\ stack' \in Seq(Frame)
        /\ \A i \in 1..(Height - 1) : At(i)' = At(i) /\ ToTry(i)' = ToTry(i)
    BY <1>1, <1>3 DEF Height, At, ToTry
  <1>5. Succ(workflow, t) \subseteq done \cup Outside
    <2>1. ToTry(Height) = {}
      BY <1>1, <1>2 DEF ToTry
    <2>2. QED
      BY <1>1, <1>2, <2>1, TopFacts DEF LinksAccounted
  <1>6. t \notin After(workflow, t)
    <2> DEFINE S == done \cup Outside
    <2>1. S \in SUBSET Node /\ t \notin S
      BY <1>2 DEF Outside
    <2>2. \A n \in S : Succ(workflow, n) \subseteq S
      BY <1>1, <1>2, TopFacts, OutsideLeadsNowhere DEF DoneIsLoopFree, Outside
    <2>3. Succ(workflow, t) \subseteq S
      BY <1>5
    <2>4. IsReach(workflow, Succ(workflow, t), After(workflow, t))
      BY <1>2, AfterFacts
    <2> HIDE DEF S, t
    <2>5. QED
      BY <2>1, <2>2, <2>3, <2>4 DEF IsReach
  <1>7. /\ done' \subseteq workflow.nodes /\ done' \cap visiting' = {}
        /\ \A n \in done' : /\ Succ(workflow, n) \subseteq done' \cup Outside
                            /\ n \notin After(workflow, n)
    BY <1>1, <1>2, <1>5, <1>6, TopFacts DEF DoneIsLoopFree
  <1>8. CASE Height = 1
    <2>1. answer' = "no_loop"
      BY <1>1, <1>3, <1>8
    <2>2. t = workflow.start
      BY <1>1, <1>8, TopFacts DEF StackIsPath
    <2>3. Start(workflow) \subseteq done'
      BY <1>1, <2>2 DEF Start
    <2>4. ~ HasLoop(workflow)
      BY <1>2, <1>7, <2>3, NoLoopInClosed DEF Outside, Workflow
    <2>5. QED
      BY <1>1, <1>2, <2>1, <2>4 DEF LoopInv, LoopIsExact
  <1>9. CASE Height > 1
    <2>1. answer' = "searching" /\ Below # << >>
      BY <1>1, <1>2, <1>3, <1>9
    <2>2. /\ \A i \in 1..(Height - 1) : i \in 1..Height /\ i < Height /\ At(i) # t
      BY <1>1, <1>2, TopFacts DEF StackIsPath
    <2>3. visiting' = {At(i)' : i \in 1..Height'}
      <3>1. visiting = {At(i) : i \in 1..Height}
        BY <1>1, TopFacts DEF StackIsPath
      <3>2. visiting \ {t} = {At(i) : i \in 1..(Height - 1)}
        <4>1. \A i \in 1..Height : i = Height \/ i \in 1..(Height - 1)
          BY <1>2
        <4>2. QED
          BY <2>2, <3>1, <4>1
      <3>3. QED
        BY <1>1, <1>4, <3>2
    <2>4. StackIsPath'
      BY <1>1, <1>2, <1>4, <1>9, <2>2, <2>3, TopFacts DEF StackIsPath
    <2>5. LinksAccounted'
      <3> SUFFICES ASSUME NEW i \in 1..(Height - 1)
                   PROVE  /\ ToTry(i)' \subseteq Succ(workflow, At(i)')
                          /\ \A m \in Succ(workflow, At(i)') :
                               \/ m \in ToTry(i)' \cup done' \cup Outside
                               \/ (i < Height - 1 /\ m = At(i + 1)')
        BY <1>1, <1>4 DEF LinksAccounted, Outside
      <3>1. /\ ToTry(i) \subseteq Succ(workflow, At(i))
            /\ \A m \in Succ(workflow, At(i)) :
                 m \in ToTry(i) \cup done \cup Outside \/ m = At(i + 1)
        BY <1>1, <2>2, TopFacts DEF LinksAccounted
      <3>2. i + 1 = Height \/ (i + 1 \in 1..(Height - 1) /\ i < Height - 1)
        BY <1>2
      <3>3. QED
        BY <1>1, <1>4, <3>1, <3>2
    <2>6. DoneIsLoopFree'
      BY <1>1, <1>7 DEF DoneIsLoopFree, Outside
    <2>7. QED
      BY <1>1, <1>2, <2>1, <2>4, <2>5, <2>6 DEF LoopInv, LoopIsExact
  <1>10. QED
    BY <1>2, <1>8, <1>9

(* The code behaviour: has_loop says "loop" exactly for the definitions    *)
(* that can revisit a node they reach.                                     *)
THEOREM LoopAnswerIsExact == LoopSpec => []LoopIsExact
  <1>1. LoopInv /\ [LoopNext]_<<workflow, loopVars>> => LoopInv'
    <2> SUFFICES ASSUME LoopInv, [LoopNext]_<<workflow, loopVars>> PROVE LoopInv'
      OBVIOUS
    <2>1. CASE LoopNext
      BY <2>1, FindLoopPreserves, SkipLinkPreserves, DescendPreserves, ReturnPreserves DEF LoopNext
    <2>2. CASE UNCHANGED <<workflow, loopVars>>
      <3>1. /\ workflow' = workflow /\ stack' = stack /\ visiting' = visiting
            /\ done' = done /\ answer' = answer
        BY <2>2 DEF loopVars
      <3>2. StackIsPath => StackIsPath'
        BY <3>1 DEF StackIsPath, Height, At
      <3>3. LinksAccounted => LinksAccounted'
        BY <3>1 DEF LinksAccounted, Height, At, ToTry, Outside
      <3>4. DoneIsLoopFree => DoneIsLoopFree'
        BY <3>1 DEF DoneIsLoopFree, Outside
      <3>5. QED
        BY <3>1, <3>2, <3>3, <3>4 DEF LoopInv, LoopIsExact
    <2>3. QED
      BY <2>1, <2>2
  <1>2. LoopInv => LoopIsExact
    BY DEF LoopInv
  <1>3. QED
    BY <1>1, <1>2, LoopInitEstablishes, PTL DEF LoopSpec

-----------------------------------------------------------------------------
(***************************************************************************)
(* The engine never attempts an email, webhook or database node before a   *)
(* person approved the run, for every set of definitions, every context a  *)
(* caller supplies and every edit between a pause and its resume, as long  *)
(* as the walk has not come to a node with the empty id.                   *)
(*                                                                         *)
(* ActsFollowApproval is not inductive: it does not say why the node a     *)
(* walk stands at is harmless before an approval.  EngineInv adds the      *)
(* reason: until the log holds an approval, the definition walked is the   *)
(* one run() checked, it has no unguarded node, and the walk stands at an  *)
(* exposed node, or at the empty id, which no check looks at.              *)
(***************************************************************************)
NamedDecisions ==
  \A i \in DOMAIN exec.log : exec.log[i].decision # "none" => exec.log[i].by \in Person

(* The walk came to a node with the empty id.                              *)
Strayed(log) == \E i \in DOMAIN log : log[i].node = EmptyId

StandsExposed ==
  exec.status = "running" /\ ~DecisionIn(exec.log, "yes") /\ ~Strayed(exec.log) =>
    /\ Unguarded(definition) = {}
    /\ exec.cursor \in Exposed(definition) \cup {NoNode, EmptyId}

RefusalEnds == DecisionIn(exec.log, "no") => exec.status = "succeeded"

NewIsEmpty == exec.status = "new" => exec.log = << >>

EngineInv ==
  /\ TypeOK
  /\ NewIsEmpty
  /\ StandsExposed
  /\ RefusalEnds
  /\ NamedDecisions
  /\ ActsFollowApproval

-----------------------------------------------------------------------------
(* What one more record does to a log.                                     *)
LEMMA AppendedLog ==
  ASSUME NEW log \in Seq(NodeRun), NEW run \in NodeRun
  PROVE  LET longer == Append(log, run) IN
         /\ longer \in Seq(NodeRun)
         /\ DOMAIN log = 1..Len(log) /\ Len(log) \in Nat
         /\ DOMAIN longer = 1..(Len(log) + 1)
         /\ \A i \in 1..Len(log) : longer[i] = log[i]
         /\ longer[Len(log) + 1] = run
OBVIOUS

LEMMA DecisionsOfAppend ==
  ASSUME NEW log \in Seq(NodeRun), NEW run \in NodeRun, NEW d
  PROVE  DecisionIn(Append(log, run), d) <=> DecisionIn(log, d) \/ run.decision = d
<1> DEFINE longer == Append(log, run)
<1>1. /\ DOMAIN log = 1..Len(log) /\ Len(log) \in Nat
      /\ DOMAIN longer = 1..(Len(log) + 1)
      /\ \A i \in 1..Len(log) : longer[i] = log[i]
      /\ longer[Len(log) + 1] = run
  BY AppendedLog
<1> HIDE DEF longer
<1>2. DecisionIn(longer, d) <=> DecisionIn(log, d) \/ run.decision = d
  BY <1>1 DEF DecisionIn
<1>3. QED
  BY <1>2 DEF longer

IsAct(run) == run.type \in HighRisk /\ run.decision = "none"

LEMMA ActsOfAppend ==
  ASSUME NEW log \in Seq(NodeRun), NEW run \in NodeRun
  PROVE  Acts(Append(log, run)) =
           Acts(log) \cup (IF IsAct(run) THEN {Len(log) + 1} ELSE {})
<1> DEFINE longer == Append(log, run)
<1>1. /\ DOMAIN log = 1..Len(log) /\ Len(log) \in Nat
      /\ DOMAIN longer = 1..(Len(log) + 1)
      /\ \A i \in 1..Len(log) : longer[i] = log[i]
      /\ longer[Len(log) + 1] = run
  BY AppendedLog
<1> HIDE DEF longer
<1>2. Acts(longer) = Acts(log) \cup (IF IsAct(run) THEN {Len(log) + 1} ELSE {})
  BY <1>1 DEF Acts, IsAct
<1>3. QED
  BY <1>2 DEF longer

LEMMA StrayedOfAppend ==
  ASSUME NEW log \in Seq(NodeRun), NEW run \in NodeRun
  PROVE  Strayed(Append(log, run)) <=> Strayed(log) \/ run.node = EmptyId
<1> DEFINE longer == Append(log, run)
<1>1. /\ DOMAIN log = 1..Len(log) /\ Len(log) \in Nat
      /\ DOMAIN longer = 1..(Len(log) + 1)
      /\ \A i \in 1..Len(log) : longer[i] = log[i]
      /\ longer[Len(log) + 1] = run
  BY AppendedLog
<1> HIDE DEF longer
<1>2. Strayed(longer) <=> Strayed(log) \/ run.node = EmptyId
  BY <1>1 DEF Strayed
<1>3. QED
  BY <1>2 DEF longer

(* A record is a checked act if it is an act and the walk has not strayed. *)
LEMMA CheckedOfAppend ==
  ASSUME NEW log \in Seq(NodeRun), NEW run \in NodeRun
  PROVE  /\ CheckedActs(Append(log, run)) =
              CheckedActs(log) \cup (IF IsAct(run) /\ run.node # EmptyId /\ ~Strayed(log)
                                    THEN {Len(log) + 1} ELSE {})
         /\ CheckedActs(log) \subseteq 1..Len(log)
<1> DEFINE longer == Append(log, run)
           at == Len(log) + 1
<1>1. /\ DOMAIN log = 1..Len(log) /\ Len(log) \in Nat
      /\ \A i \in 1..Len(log) : longer[i] = log[i]
      /\ longer[at] = run
  BY AppendedLog
<1>2. Acts(longer) = Acts(log) \cup (IF IsAct(run) THEN {at} ELSE {})
  BY ActsOfAppend
<1> HIDE DEF longer
<1>3. Acts(log) \subseteq 1..Len(log)
  BY <1>1 DEF Acts
<1>4. \A i \in 1..Len(log) : (\A j \in 1..i : longer[j].node # EmptyId) <=>
                             (\A j \in 1..i : log[j].node # EmptyId)
  BY <1>1
<1>5. (\A j \in 1..at : longer[j].node # EmptyId) <=> run.node # EmptyId /\ ~Strayed(log)
  <2>1. \A j \in 1..at : j = at \/ j \in 1..Len(log)
    BY <1>1
  <2>2. at \in 1..at /\ 1..Len(log) \subseteq 1..at
    BY <1>1
  <2> HIDE DEF at
  <2>3. QED
    BY <1>1, <2>1, <2>2 DEF Strayed
<1> HIDE DEF at
<1>6. CheckedActs(longer) =
        CheckedActs(log) \cup (IF IsAct(run) /\ run.node # EmptyId /\ ~Strayed(log)
                              THEN {at} ELSE {})
  BY <1>2, <1>3, <1>4, <1>5 DEF CheckedActs
<1>7. CheckedActs(log) \subseteq 1..Len(log)
  BY <1>3 DEF CheckedActs
<1>8. QED
  BY <1>6, <1>7 DEF longer, at

(* A record keeps the log guarded if it is no checked act or follows a yes.*)
Guarded(log) ==
  \A i \in CheckedActs(log) :
    \E j \in 1..(i - 1) : log[j].decision = "yes" /\ log[j].by \in Person

Named(log) == \A i \in DOMAIN log : log[i].decision # "none" => log[i].by \in Person

LEMMA GuardedAppend ==
  ASSUME NEW log \in Seq(NodeRun), NEW run \in NodeRun,
         Guarded(log), Named(log),
         IsAct(run) /\ run.node # EmptyId /\ ~Strayed(log) => DecisionIn(log, "yes"),
         run.decision # "none" => run.by \in Person
  PROVE  Guarded(Append(log, run)) /\ Named(Append(log, run))
<1> DEFINE longer == Append(log, run)
<1>1. /\ DOMAIN log = 1..Len(log) /\ Len(log) \in Nat
      /\ DOMAIN longer = 1..(Len(log) + 1)
      /\ \A i \in 1..Len(log) : longer[i] = log[i]
      /\ longer[Len(log) + 1] = run
  BY AppendedLog
<1>2. /\ CheckedActs(longer) =
           CheckedActs(log) \cup (IF IsAct(run) /\ run.node # EmptyId /\ ~Strayed(log)
                                 THEN {Len(log) + 1} ELSE {})
      /\ CheckedActs(log) \subseteq 1..Len(log)
  BY CheckedOfAppend
<1> HIDE DEF longer
<1>3. Named(longer)
  BY <1>1 DEF Named
<1>4. ASSUME NEW i \in CheckedActs(longer)
      PROVE  \E j \in 1..(i - 1) : longer[j].decision = "yes" /\ longer[j].by \in Person
  <2>1. CASE i \in CheckedActs(log)
    <3>1. PICK j \in 1..(i - 1) : log[j].decision = "yes" /\ log[j].by \in Person
      BY <2>1 DEF Guarded
    <3>2. i \in 1..Len(log)
      BY <1>2, <2>1
    <3>3. QED
      BY <1>1, <3>1, <3>2
  <2>2. CASE i = Len(log) + 1 /\ DecisionIn(log, "yes")
    <3>1. PICK j \in DOMAIN log : log[j].decision = "yes"
      BY <2>2 DEF DecisionIn
    <3>2. log[j].by \in Person
      BY <3>1 DEF Named
    <3>3. QED
      BY <1>1, <2>2, <3>1, <3>2
  <2>3. QED
    BY <1>2, <2>1, <2>2
<1>5. QED
  BY <1>3, <1>4 DEF Guarded, longer

-----------------------------------------------------------------------------
(* Every record a walk or a decision appends is a NodeRun.                 *)
LEMMA RanIsNodeRun ==
  ASSUME NEW w \in Workflow, NEW n \in Node, NEW by \in Approver,
         NEW st \in {"succeeded", "failed", "skipped", "awaiting_approval"}
  PROVE  /\ Ran(w, n, st, by) \in NodeRun
         /\ Ran(w, n, st, by).decision = "none"
         /\ Ran(w, n, st, by).type = w.type[n]
         /\ Ran(w, n, st, by).node = n
BY DEF Ran, NodeRun, Workflow

LEMMA TypesFacts ==
  ASSUME TypeOK
  PROVE  /\ definition \in Workflow
         /\ exec \in Execution
         /\ exec.log \in Seq(NodeRun)
         /\ exec.ctx \in Context
         /\ exec.cursor \in Node \cup {NoNode}
         /\ exec.awaiting \in Node \cup {NoNode}
         /\ exec.steps \in 0..MaxSteps
         /\ exec.resumes \in 0..MaxResumes
         /\ Blank \in Approver
BY EngineAssumption, WorkflowsAssumption DEF TypeOK, Execution, Link, Approver

(* TypeOK is inductive.                                                    *)
LEMMA TypeInit == Init => TypeOK
BY EngineAssumption
   DEF Init, TypeOK, NewExecution, Execution, Context, Approver, Link

LEMMA TypeStep == TypeOK /\ [Next]_vars => TypeOK'
<1> SUFFICES ASSUME TypeOK, [Next]_vars PROVE TypeOK'
  OBVIOUS
<1> USE EngineAssumption
<1>0. /\ definition \in Workflow /\ definition \in Workflows
      /\ exec \in Execution /\ exec.log \in Seq(NodeRun) /\ exec.ctx \in Context
      /\ exec.cursor \in Node \cup {NoNode} /\ exec.awaiting \in Node \cup {NoNode}
      /\ exec.steps \in 0..MaxSteps /\ Blank \in Approver
  BY TypesFacts DEF TypeOK
<1>1. ASSUME NEW ctx \in Context, Run(ctx) PROVE TypeOK'
  <2>1. definition.start \in Link /\ 0 \in 0..MaxSteps /\ 0 \in 0..MaxResumes
    BY <1>0 DEF Workflow
  <2>2. << >> \in Seq(NodeRun) /\ NoNode \in Link
    BY DEF Link
  <2>3. exec' = [NewExecution EXCEPT !.status = "running", !.cursor = definition.start, !.ctx = ctx]
    BY <1>1 DEF Run, Started
  <2>4. exec' = [status |-> "running", cursor |-> definition.start, steps |-> 0,
                 awaiting |-> NoNode, error |-> "none", ctx |-> ctx, log |-> << >>,
                 resumes |-> 0]
    BY <2>3 DEF NewExecution
  <2>5. QED
    BY <1>0, <1>1, <2>1, <2>2, <2>4 DEF Run, TypeOK, Execution
<1>2. CASE StopAtLimit
  BY <1>0, <1>2 DEF StopAtLimit, Failed, TypeOK, Execution, Link
<1>3. CASE StopAtMissing
  <2>1. exec.steps + 1 \in 0..MaxSteps
    BY <1>0, <1>3 DEF StopAtMissing, AtMissing, Counting
  <2>2. QED
    BY <1>0, <1>3, <2>1 DEF StopAtMissing, Counted, Failed, TypeOK, Execution, Link
<1>4. CASE Pause
  <2>1. Ran(definition, exec.cursor, "awaiting_approval", Blank) \in NodeRun
    BY <1>0, <1>4, RanIsNodeRun DEF Pause, AtNode, Counting, Walking
  <2>2. exec.steps + 1 \in 0..MaxSteps
    BY <1>0, <1>4 DEF Pause, AtNode, Counting
  <2>3. Append(exec.log, Ran(definition, exec.cursor, "awaiting_approval", Blank)) \in Seq(NodeRun)
    BY <1>0, <2>1
  <2>4. QED
    BY <1>0, <1>4, <2>2, <2>3 DEF Pause, Paused, Logged, Counted, TypeOK, Execution, Link
<1>5. CASE StopUnhandled
  <2>1. exec.steps + 1 \in 0..MaxSteps
    BY <1>0, <1>5 DEF StopUnhandled, AtNode, Counting
  <2>2. QED
    BY <1>0, <1>5, <2>1 DEF StopUnhandled, Counted, Failed, TypeOK, Execution, Link
<1>6. CASE HandlerRaises
  <2>1. Ran(definition, exec.cursor, "failed", Blank) \in NodeRun
    BY <1>0, <1>6, RanIsNodeRun DEF HandlerRaises, AtNode, Counting, Walking
  <2>2. exec.steps + 1 \in 0..MaxSteps
    BY <1>0, <1>6 DEF HandlerRaises, AtNode, Counting
  <2>3. Append(exec.log, Ran(definition, exec.cursor, "failed", Blank)) \in Seq(NodeRun)
    BY <1>0, <2>1
  <2>4. QED
    BY <1>0, <1>6, <2>2, <2>3
       DEF HandlerRaises, Raised, Failed, Logged, Counted, TypeOK, Execution, Link
<1>7. CASE HandlerReturns
  <2> DEFINE n == exec.cursor
             by == IF definition.type[n] = "email" THEN exec.ctx.by ELSE Blank
  <2>1. PICK ctx \in ContextAfter(definition.type[n], exec.ctx), result \in BOOLEAN :
          exec' = Returned(definition, exec, ctx, result)
    BY <1>7 DEF HandlerReturns
  <2>2. n \in Node /\ ctx \in Context /\ by \in Approver
    BY <1>0, <1>7, <2>1 DEF HandlerReturns, AtNode, Counting, Walking, ContextAfter, Context
  <2>3. Ran(definition, n, "succeeded", by) \in NodeRun
    BY <1>0, <2>2, RanIsNodeRun
  <2>4. exec.steps + 1 \in 0..MaxSteps
    BY <1>0, <1>7 DEF HandlerReturns, AtNode, Counting
  <2>5. Append(exec.log, Ran(definition, n, "succeeded", by)) \in Seq(NodeRun)
    BY <1>0, <2>3
  <2>6. definition.alt[n] \in Link /\ definition.next[n] \in Link
    BY <1>0, <2>2 DEF Workflow
  <2>7. QED
    BY <1>0, <1>7, <2>1, <2>2, <2>4, <2>5, <2>6
       DEF HandlerReturns, Returned, Logged, Counted, TypeOK, Execution
<1>8. CASE Finish
  BY <1>0, <1>8 DEF Finish, Finished, TypeOK, Execution
<1>9. ASSUME NEW w \in Offered, NEW who \in Approver, NEW yes \in BOOLEAN, Resume(w, who, yes)
      PROVE  TypeOK'
  <2> DEFINE run == [node |-> exec.awaiting, type |-> w.type[exec.awaiting], by |-> who,
                     costed |-> FALSE, decision |-> IF yes THEN "yes" ELSE "no",
                     status |-> IF yes THEN "succeeded" ELSE "skipped"]
  <2>1. w \in Workflows /\ w \in Workflow
    BY <1>0, EngineAssumption, WorkflowsAssumption DEF Offered, TypeOK
  <2>2. exec.awaiting \in Node
    BY <1>9, <2>1 DEF Resume, MayResume, Workflow
  <2>3. run \in NodeRun
    BY <2>1, <2>2 DEF NodeRun, Workflow
  <2>4. Append(exec.log, run) \in Seq(NodeRun)
    BY <1>0, <2>3
  <2>5. w.next[exec.awaiting] \in Link /\ exec.resumes + 1 \in 0..MaxResumes
    BY <1>0, <1>9, <2>1, <2>2, TypesFacts DEF Workflow, Resume
  <2>6. [approved |-> yes, by |-> who] \in Context
    BY DEF Context
  <2>7. /\ exec' = Decided(definition', exec, who, yes)
        /\ definition' = w
    BY <1>9 DEF Resume
  <2>8. Logged(exec, run) \in Execution
    BY <1>0, <2>4 DEF Logged, Execution
  <2>9. Decided(w, exec, who, yes) \in Execution
    <3> DEFINE status == IF yes THEN "running" ELSE "succeeded"
               cursor == IF yes THEN w.next[exec.awaiting] ELSE NoNode
               ctx == [approved |-> yes, by |-> who]
    <3>1. status \in {"running", "succeeded"} /\ cursor \in Link /\ NoNode \in Link
      BY <2>5 DEF Link
    <3>2. ctx \in Context
      BY <2>6
    <3>3. Decided(w, exec, who, yes) =
            [Logged(exec, run) EXCEPT !.ctx = ctx, !.awaiting = NoNode, !.resumes = @ + 1,
               !.steps = 0, !.status = status, !.cursor = cursor]
      BY DEF Decided
    <3>4. Logged(exec, run).resumes + 1 \in 0..MaxResumes
      BY <1>0, <2>5 DEF Logged, Execution
    <3>5. 0 \in 0..MaxSteps
      OBVIOUS
    <3> HIDE DEF status, cursor, ctx, run
    <3>6. QED
      BY <2>8, <3>1, <3>2, <3>3, <3>4, <3>5 DEF Execution
  <2>10. QED
    BY <2>1, <2>7, <2>9 DEF TypeOK
<1>10. CASE UNCHANGED vars
  BY <1>10 DEF vars, TypeOK
<1>11. QED
  BY <1>1, <1>2, <1>3, <1>4, <1>5, <1>6, <1>7, <1>8, <1>9, <1>10 DEF Next, Walk

(* Every reachable state of the engine is well typed.                      *)
THEOREM TypeCorrect == Spec => []TypeOK
BY TypeInit, TypeStep, PTL DEF Spec

-----------------------------------------------------------------------------
(* How each kind of step changes the log, the status and the cursor.       *)
Recording == Pause \/ HandlerRaises \/ HandlerReturns
Silent == StopAtLimit \/ StopAtMissing \/ StopUnhandled \/ Finish

LEMMA RecordingEffect ==
  ASSUME TypeOK, Recording
  PROVE  \E run \in NodeRun :
           /\ exec.log' = Append(exec.log, run)
           /\ run.decision = "none" /\ run.type = definition.type[exec.cursor]
           /\ run.node = exec.cursor
           /\ exec.cursor \in definition.nodes /\ exec.cursor \in Node
           /\ exec.status = "running" /\ definition' = definition
           /\ \/ exec.status' # "running"
              \/ /\ run.type # "human_approval"
                 /\ exec.cursor' \in {definition.next[exec.cursor], definition.alt[exec.cursor]}
           /\ run.type = "human_approval" \/ run.type \in Handled
           /\ exec.status' # "new"
<1>0. /\ definition \in Workflow /\ exec \in Execution /\ exec.log \in Seq(NodeRun)
      /\ exec.ctx \in Context /\ Blank \in Approver
      /\ exec.cursor \in Node \cup {NoNode}
  BY TypesFacts
<1>1. CASE Pause
  <2> DEFINE run == Ran(definition, exec.cursor, "awaiting_approval", Blank)
  <2>1. /\ exec.cursor \in definition.nodes /\ exec.cursor \in Node /\ exec.status = "running"
        /\ definition.type[exec.cursor] = "human_approval" /\ definition' = definition
    BY <1>0, <1>1 DEF Pause, AtNode, Counting, Walking
  <2>2. run \in NodeRun /\ run.decision = "none" /\ run.type = definition.type[exec.cursor] /\ run.node = exec.cursor
    BY <1>0, <2>1, RanIsNodeRun
  <2>3. exec.log' = Append(exec.log, run) /\ exec.status' = "awaiting_approval"
    BY <1>0, <1>1 DEF Pause, Paused, Logged, Counted, Execution
  <2>4. QED
    BY <2>1, <2>2, <2>3
<1>2. CASE HandlerRaises
  <2> DEFINE run == Ran(definition, exec.cursor, "failed", Blank)
  <2>1. /\ exec.cursor \in definition.nodes /\ exec.cursor \in Node /\ exec.status = "running"
        /\ definition.type[exec.cursor] \in Handled /\ definition' = definition
    BY <1>0, <1>2 DEF HandlerRaises, MayRaise, AtNode, Counting, Walking
  <2>2. run \in NodeRun /\ run.decision = "none" /\ run.type = definition.type[exec.cursor] /\ run.node = exec.cursor
    BY <1>0, <2>1, RanIsNodeRun
  <2>3. exec.log' = Append(exec.log, run) /\ exec.status' = "failed"
    BY <1>0, <1>2 DEF HandlerRaises, Raised, Failed, Logged, Counted, Execution
  <2>4. QED
    BY <2>1, <2>2, <2>3
<1>3. CASE HandlerReturns
  <2> DEFINE n == exec.cursor
             by == IF definition.type[n] = "email" THEN exec.ctx.by ELSE Blank
             run == Ran(definition, n, "succeeded", by)
  <2>1. PICK ctx \in ContextAfter(definition.type[n], exec.ctx), result \in BOOLEAN :
          exec' = Returned(definition, exec, ctx, result)
    BY <1>3 DEF HandlerReturns
  <2>2. /\ n \in definition.nodes /\ n \in Node /\ exec.status = "running"
        /\ definition.type[n] \in Handled /\ definition' = definition
        /\ definition.type[n] # "human_approval" /\ by \in Approver
    BY <1>0, <1>3, EngineAssumption DEF HandlerReturns, AtNode, Counting, Walking, Context
  <2>3. run \in NodeRun /\ run.decision = "none" /\ run.type = definition.type[n] /\ run.node = n
    BY <1>0, <2>2, RanIsNodeRun
  <2>4. exec.log' = Append(exec.log, run) /\ exec.status' = "running"
    BY <1>0, <2>1, <2>2 DEF Returned, Logged, Counted, Execution
  <2>5. exec.cursor' \in {definition.next[n], definition.alt[n]}
    BY <1>0, <2>1, <2>2 DEF Returned, Logged, Counted, Execution
  <2>6. QED
    BY <2>2, <2>3, <2>4, <2>5
<1>4. QED
  BY <1>1, <1>2, <1>3 DEF Recording

LEMMA SilentEffect ==
  ASSUME TypeOK, Silent
  PROVE  /\ exec.log' = exec.log /\ definition' = definition
         /\ exec.status = "running" /\ exec.status' \in {"failed", "succeeded"}
<1>0. exec \in Execution
  BY TypesFacts
<1>1. CASE StopAtLimit
  BY <1>0, <1>1 DEF StopAtLimit, AtLimit, Walking, Failed, Execution
<1>2. CASE StopAtMissing
  BY <1>0, <1>2 DEF StopAtMissing, AtMissing, Counting, Walking, Failed, Counted, Execution
<1>3. CASE StopUnhandled
  BY <1>0, <1>3 DEF StopUnhandled, AtNode, Counting, Walking, Failed, Counted, Execution
<1>4. CASE Finish
  BY <1>0, <1>4 DEF Finish, Finished, Execution
<1>5. QED
  BY <1>1, <1>2, <1>3, <1>4 DEF Silent

LEMMA ResumeEffect ==
  ASSUME TypeOK, NEW w \in Offered, NEW who \in Approver, NEW yes \in BOOLEAN,
         Resume(w, who, yes)
  PROVE  \E run \in NodeRun :
           /\ exec.log' = Append(exec.log, run)
           /\ run.decision = (IF yes THEN "yes" ELSE "no") /\ run.by \in Person
           /\ exec.status = "awaiting_approval"
           /\ exec.status' = (IF yes THEN "running" ELSE "succeeded")
<1> DEFINE run == [node |-> exec.awaiting, type |-> w.type[exec.awaiting], by |-> who,
                   costed |-> FALSE, decision |-> IF yes THEN "yes" ELSE "no",
                   status |-> IF yes THEN "succeeded" ELSE "skipped"]
<1>1. w \in Workflow /\ exec \in Execution
  BY EngineAssumption, WorkflowsAssumption, TypesFacts DEF Offered, TypeOK
<1>2. exec.awaiting \in Node /\ who \in Person /\ exec.status = "awaiting_approval"
  BY <1>1 DEF Resume, MayResume, Workflow, Approver
<1>3. run \in NodeRun /\ run.decision = (IF yes THEN "yes" ELSE "no") /\ run.by \in Person
  BY <1>1, <1>2 DEF NodeRun, Workflow, Approver
<1>4. exec' = Decided(w, exec, who, yes)
  BY DEF Resume
<1>5. /\ exec.log' = Append(exec.log, run)
      /\ exec.status' = (IF yes THEN "running" ELSE "succeeded")
  <2>1. CASE yes
    BY <1>1, <1>4, <2>1 DEF Decided, Logged, Execution
  <2>2. CASE ~yes
    BY <1>1, <1>4, <2>2 DEF Decided, Logged, Execution
  <2>3. QED
    BY <2>1, <2>2
<1> HIDE DEF run
<1>6. QED
  BY <1>2, <1>3, <1>5

LEMMA RunEffect ==
  ASSUME TypeOK, NEW ctx \in Context, Run(ctx)
  PROVE  /\ exec.log' = << >> /\ definition' = definition
         /\ exec.status = "new" /\ exec.status' = "running"
         /\ exec.cursor' = definition.start
         /\ definition.start \in Start(definition)
         /\ Unguarded(definition) = {}
BY DEF Run, Started, NewExecution, MayRun

-----------------------------------------------------------------------------
(* An exposed node of a checked definition performs nothing, and the walk  *)
(* goes from it to another exposed node or to the end.                     *)
LEMMA ExposedIsHarmless ==
  ASSUME NEW w \in Workflow, Unguarded(w) = {},
         NEW n \in Exposed(w), n \in w.nodes
  PROVE  /\ w.type[n] \notin HighRisk
         /\ w.type[n] # "human_approval" =>
              {w.next[n], w.alt[n]} \subseteq Exposed(w) \cup {NoNode, EmptyId}
<1>1. w.type[n] \notin HighRisk
  BY DEF Unguarded
<1>2. ASSUME w.type[n] # "human_approval", NEW m \in {w.next[n], w.alt[n]},
             m \notin {NoNode, EmptyId}
      PROVE  m \in Exposed(w)
  <2>1. m \in OpenSucc(w, n)
    BY <1>2 DEF OpenSucc, Succ, Follow
  <2>2. QED
    BY <2>1, ExposedIsLeastClosed
<1>3. QED
  BY <1>1, <1>2

LEMMA StartIsExposed ==
  ASSUME NEW w \in Workflow, w.start \in Start(w)
  PROVE  w.start \in Exposed(w)
BY ExposedIsLeastClosed

LEMMA InvInit == Init => EngineInv
<1> SUFFICES ASSUME Init PROVE EngineInv
  OBVIOUS
<1>1. TypeOK
  BY TypeInit
<1>2. exec.log = << >> /\ exec.status = "new"
  BY DEF Init, NewExecution
<1>3. QED
  BY <1>1, <1>2 DEF EngineInv, NewIsEmpty, StandsExposed, RefusalEnds, NamedDecisions,
                    ActsFollowApproval, DecisionIn, Acts, CheckedActs

(* A step that records a node visit keeps the invariant.                   *)
LEMMA RecordingPreserves == EngineInv /\ Recording /\ TypeOK' => EngineInv'
<1> SUFFICES ASSUME EngineInv, Recording, TypeOK' PROVE EngineInv'
  OBVIOUS
<1> USE DEF EngineInv
<1>1. PICK run \in NodeRun :
        /\ exec.log' = Append(exec.log, run)
        /\ run.decision = "none" /\ run.type = definition.type[exec.cursor]
        /\ run.node = exec.cursor
        /\ exec.cursor \in definition.nodes /\ exec.cursor \in Node
        /\ exec.status = "running" /\ definition' = definition
        /\ \/ exec.status' # "running"
           \/ /\ run.type # "human_approval"
              /\ exec.cursor' \in {definition.next[exec.cursor], definition.alt[exec.cursor]}
        /\ run.type = "human_approval" \/ run.type \in Handled
        /\ exec.status' # "new"
  BY RecordingEffect
<1>2. exec.log \in Seq(NodeRun) /\ definition \in Workflow
  BY TypesFacts
<1>3. \A d : d # "none" => (DecisionIn(exec.log', d) <=> DecisionIn(exec.log, d))
  BY <1>1, <1>2, DecisionsOfAppend
<1>4. ~DecisionIn(exec.log, "no")
  BY <1>1 DEF RefusalEnds
<1>5. ~DecisionIn(exec.log, "yes") /\ ~Strayed(exec.log) /\ run.node # EmptyId =>
        /\ Unguarded(definition) = {}
        /\ exec.cursor \in Exposed(definition)
  BY <1>1, NoNodeAssumption DEF StandsExposed
<1>6. IsAct(run) /\ run.node # EmptyId /\ ~Strayed(exec.log) => DecisionIn(exec.log, "yes")
  BY <1>1, <1>2, <1>5, ExposedIsHarmless DEF IsAct
<1>7. Guarded(exec.log') /\ Named(exec.log')
  <2>1. Guarded(exec.log) /\ Named(exec.log)
    BY DEF ActsFollowApproval, NamedDecisions, Guarded, Named
  <2>2. QED
    BY <1>1, <1>2, <1>6, <2>1, GuardedAppend
<1>8. StandsExposed'
  <2>1. Strayed(exec.log') <=> Strayed(exec.log) \/ run.node = EmptyId
    BY <1>1, <1>2, StrayedOfAppend
  <2>2. QED
    BY <1>1, <1>2, <1>3, <1>5, <2>1, ExposedIsHarmless DEF StandsExposed
<1>9. RefusalEnds' /\ NewIsEmpty'
  BY <1>1, <1>3, <1>4 DEF RefusalEnds, NewIsEmpty
<1>10. QED
  BY <1>7, <1>8, <1>9 DEF ActsFollowApproval, NamedDecisions, Guarded, Named

LEMMA ResumePreserves ==
  ASSUME EngineInv, TypeOK', NEW w \in Offered, NEW who \in Approver,
         NEW yes \in BOOLEAN, Resume(w, who, yes)
  PROVE  EngineInv'
<1> USE DEF EngineInv
<1>1. PICK run \in NodeRun :
        /\ exec.log' = Append(exec.log, run)
        /\ run.decision = (IF yes THEN "yes" ELSE "no") /\ run.by \in Person
        /\ exec.status = "awaiting_approval"
        /\ exec.status' = (IF yes THEN "running" ELSE "succeeded")
  BY ResumeEffect
<1>2. exec.log \in Seq(NodeRun)
  BY TypesFacts
<1>3. ~IsAct(run)
  BY <1>1 DEF IsAct
<1>4. Guarded(exec.log') /\ Named(exec.log')
  <2>1. Guarded(exec.log) /\ Named(exec.log)
    BY DEF ActsFollowApproval, NamedDecisions, Guarded, Named
  <2>2. QED
    BY <1>1, <1>2, <1>3, <2>1, GuardedAppend
<1>5. ~DecisionIn(exec.log, "no")
  BY <1>1 DEF RefusalEnds
<1>6. \A d : DecisionIn(exec.log', d) <=> DecisionIn(exec.log, d) \/ run.decision = d
  BY <1>1, <1>2, DecisionsOfAppend
<1>7. StandsExposed' /\ RefusalEnds' /\ NewIsEmpty'
  <2>1. CASE yes
    BY <1>1, <1>5, <1>6, <2>1 DEF StandsExposed, RefusalEnds, NewIsEmpty
  <2>2. CASE ~yes
    BY <1>1, <1>5, <1>6, <2>2 DEF StandsExposed, RefusalEnds, NewIsEmpty
  <2>3. QED
    BY <2>1, <2>2
<1>8. QED
  BY <1>4, <1>7 DEF ActsFollowApproval, NamedDecisions, Guarded, Named

LEMMA InvStep == EngineInv /\ [Next]_vars => EngineInv'
<1> SUFFICES ASSUME EngineInv, [Next]_vars PROVE EngineInv'
  OBVIOUS
<1>0. TypeOK /\ TypeOK' /\ definition \in Workflow
  BY TypeStep, TypesFacts DEF EngineInv
<1>1. ASSUME NEW ctx \in Context, Run(ctx) PROVE EngineInv'
  <2>1. /\ exec.log' = << >> /\ definition' = definition
        /\ exec.status' = "running" /\ exec.cursor' = definition.start
        /\ definition.start \in Start(definition) /\ Unguarded(definition) = {}
    BY <1>0, <1>1, RunEffect
  <2>2. StandsExposed'
    BY <1>0, <2>1, StartIsExposed DEF StandsExposed
  <2>3. QED
    BY <1>0, <2>1, <2>2 DEF EngineInv, NewIsEmpty, RefusalEnds, NamedDecisions,
                            ActsFollowApproval, DecisionIn, Acts, CheckedActs
<1>2. CASE Silent
  <2>1. /\ exec.log' = exec.log /\ definition' = definition
        /\ exec.status = "running" /\ exec.status' \in {"failed", "succeeded"}
    BY <1>0, <1>2, SilentEffect
  <2>2. QED
    BY <1>0, <2>1 DEF EngineInv, NewIsEmpty, StandsExposed, RefusalEnds,
                      NamedDecisions, ActsFollowApproval
<1>3. CASE Recording
  BY <1>0, <1>3, RecordingPreserves
<1>4. ASSUME NEW w \in Offered, NEW who \in Approver, NEW yes \in BOOLEAN, Resume(w, who, yes)
      PROVE  EngineInv'
  BY <1>0, <1>4, ResumePreserves
<1>5. CASE UNCHANGED vars
  BY <1>0, <1>5 DEF vars, EngineInv, NewIsEmpty, StandsExposed, RefusalEnds,
                    NamedDecisions, ActsFollowApproval
<1>6. QED
  BY <1>1, <1>2, <1>3, <1>4, <1>5 DEF Next, Walk, Silent, Recording

LEMMA EngineInvariant == Spec => []EngineInv
BY InvInit, InvStep, PTL DEF Spec

(* For all definitions, callers and edits: an act on the outside world is  *)
(* preceded by a named person's approval of that execution, but for a walk *)
(* that has come to a node with the empty id, which the engine follows a   *)
(* link to and the checks do not.                                          *)
THEOREM NoActWithoutApproval == Spec => []ActsFollowApproval
<1>1. EngineInv => ActsFollowApproval
  BY DEF EngineInv
<1>2. QED
  BY <1>1, EngineInvariant, PTL

-----------------------------------------------------------------------------
GatePhase == IF DecisionIn(exec.log, "no") THEN "refused"
             ELSE IF DecisionIn(exec.log, "yes") THEN "granted" ELSE "open"

LEMMA GateStep == EngineInv /\ [Next]_vars => [Gate!GateNext]_(Gate!gate)
<1> SUFFICES ASSUME EngineInv, [Next]_vars PROVE [Gate!GateNext]_(Gate!gate)
  OBVIOUS
<1> USE DEF EngineInv
<1>0. TypeOK /\ exec.log \in Seq(NodeRun) /\ definition \in Workflow
  BY TypesFacts
<1>1. SUFFICES \/ UNCHANGED <<GatePhase, CheckedActs(exec.log)>>
               \/ /\ GatePhase = "open" /\ GatePhase' = "granted"
                  /\ UNCHANGED CheckedActs(exec.log)
               \/ /\ GatePhase # "refused" /\ GatePhase' = "refused"
                  /\ UNCHANGED CheckedActs(exec.log)
               \/ /\ GatePhase = "granted"
                  /\ CheckedActs(exec.log) \subseteq CheckedActs(exec.log)'
                  /\ UNCHANGED GatePhase
  BY DEF Gate!GateNext, Gate!Grant, Gate!Refuse, Gate!Perform, Gate!gate, GatePhase
<1>2. CASE exec.log' = exec.log
  BY <1>2 DEF GatePhase
<1>3. ASSUME NEW ctx \in Context, Run(ctx) PROVE exec.log' = exec.log
  BY <1>0, <1>3, RunEffect DEF NewIsEmpty
<1>4. CASE Silent
  BY <1>0, <1>2, <1>4, SilentEffect
<1>5. CASE Recording
  <2>1. PICK run \in NodeRun :
          /\ exec.log' = Append(exec.log, run)
          /\ run.decision = "none" /\ run.type = definition.type[exec.cursor]
          /\ run.node = exec.cursor
          /\ exec.cursor \in definition.nodes /\ exec.cursor \in Node
          /\ exec.status = "running"
    BY <1>0, <1>5, RecordingEffect
  <2>2. UNCHANGED GatePhase
    BY <1>0, <2>1, DecisionsOfAppend DEF GatePhase
  <2>3. CheckedActs(exec.log)' =
          CheckedActs(exec.log) \cup (IF IsAct(run) /\ run.node # EmptyId /\ ~Strayed(exec.log)
                                    THEN {Len(exec.log) + 1} ELSE {})
    BY <1>0, <2>1, CheckedOfAppend
  <2>4. ~DecisionIn(exec.log, "no")
    BY <2>1 DEF RefusalEnds
  <2>5. ASSUME IsAct(run), run.node # EmptyId, ~Strayed(exec.log)
        PROVE  DecisionIn(exec.log, "yes")
    BY <1>0, <2>1, <2>5, NoNodeAssumption, ExposedIsHarmless DEF StandsExposed, IsAct
  <2>6. QED
    BY <2>2, <2>3, <2>4, <2>5 DEF GatePhase
<1>6. ASSUME NEW w \in Offered, NEW who \in Approver, NEW yes \in BOOLEAN, Resume(w, who, yes)
      PROVE  \/ UNCHANGED <<GatePhase, CheckedActs(exec.log)>>
             \/ /\ GatePhase = "open" /\ GatePhase' = "granted"
                /\ UNCHANGED CheckedActs(exec.log)
             \/ /\ GatePhase # "refused" /\ GatePhase' = "refused"
                /\ UNCHANGED CheckedActs(exec.log)
  <2>1. PICK run \in NodeRun :
          /\ exec.log' = Append(exec.log, run)
          /\ run.decision = (IF yes THEN "yes" ELSE "no")
          /\ exec.status = "awaiting_approval"
    BY <1>0, <1>6, ResumeEffect
  <2>2. \A d : DecisionIn(exec.log', d) <=> DecisionIn(exec.log, d) \/ run.decision = d
    BY <1>0, <2>1, DecisionsOfAppend
  <2>3. CheckedActs(exec.log)' = CheckedActs(exec.log)
    <3>1. ~IsAct(run)
      BY <2>1 DEF IsAct
    <3>2. QED
      BY <1>0, <2>1, <3>1, CheckedOfAppend
  <2>4. ~DecisionIn(exec.log, "no")
    BY <2>1 DEF RefusalEnds
  <2>5. CASE yes
    BY <2>1, <2>2, <2>3, <2>4, <2>5 DEF GatePhase
  <2>6. CASE ~yes
    BY <2>1, <2>2, <2>3, <2>4, <2>6 DEF GatePhase
  <2>7. QED
    BY <2>5, <2>6
<1>7. CASE UNCHANGED vars
  BY <1>2, <1>7 DEF vars
<1>8. QED
  BY <1>2, <1>3, <1>4, <1>5, <1>6, <1>7 DEF Next, Walk, Silent, Recording

(* The engine implements the approval gate: before a walk comes to a node  *)
(* with the empty id, nothing is performed before a person grants it or    *)
(* after one refuses.                                                      *)
THEOREM EngineImplementsGate == Spec => ImplementsGate
<1>1. Init => Gate!GateInit
  BY DEF Init, NewExecution, Gate!GateInit, DecisionIn, Acts, CheckedActs
<1>2. QED
  BY <1>1, GateStep, EngineInvariant, PTL DEF Spec, ImplementsGate, Gate!GateSpec

-----------------------------------------------------------------------------
(* What a step does to the pause: Pause alone begins one, Resume alone     *)
(* ends one, and nothing is logged in between.                             *)
PauseBegins ==
  /\ exec.awaiting' \in Node /\ exec.status' = "awaiting_approval"
  /\ exec.log'[Len(exec.log')].status = "awaiting_approval"
  /\ exec.log'[Len(exec.log')].node = exec.awaiting'

PauseAbsent == exec.awaiting' = NoNode /\ exec.status' # "awaiting_approval"

LEMMA PauseStep ==
  ASSUME TypeOK, PauseIsRecorded, [Next]_vars
  PROVE  PauseIsRecorded'
  <1>0. /\ definition \in Workflow /\ exec \in Execution /\ exec.log \in Seq(NodeRun)
        /\ exec.cursor \in Node \cup {NoNode} /\ Blank \in Approver
        /\ exec.status = "running" => exec.awaiting = NoNode
        /\ DOMAIN exec = {"status", "cursor", "steps", "awaiting", "error", "ctx", "log", "resumes"}
    <2>1. DOMAIN exec = {"status", "cursor", "steps", "awaiting", "error", "ctx", "log", "resumes"}
      BY TypesFacts DEF Execution
    <2>2. QED
      BY <2>1, TypesFacts DEF PauseIsRecorded
  <1>1. ASSUME NEW ctx \in Context, Run(ctx) PROVE PauseAbsent
    BY <1>1 DEF Run, Started, NewExecution, PauseAbsent
  <1>2. ASSUME Silent PROVE PauseAbsent
    <2>1. CASE StopAtLimit
      BY <1>0, <2>1 DEF StopAtLimit, AtLimit, Walking, Failed, PauseAbsent
    <2>2. CASE StopAtMissing
      BY <1>0, <2>2 DEF StopAtMissing, AtMissing, Counting, Walking, Counted, Failed, PauseAbsent
    <2>3. CASE StopUnhandled
      BY <1>0, <2>3 DEF StopUnhandled, AtNode, Counting, Walking, Counted, Failed, PauseAbsent
    <2>4. CASE Finish
      BY <1>0, <2>4 DEF Finish, Finished, PauseAbsent
    <2>5. QED
      BY <1>2, <2>1, <2>2, <2>3, <2>4 DEF Silent
  <1>3. ASSUME HandlerRaises PROVE PauseAbsent
    BY <1>0, <1>3 DEF HandlerRaises, AtNode, Counting, Walking, Raised, Logged, Counted, Failed,
                      PauseAbsent
  <1>4. ASSUME HandlerReturns PROVE PauseAbsent
    <2>1. PICK ctx \in ContextAfter(definition.type[exec.cursor], exec.ctx), result \in BOOLEAN :
            exec' = Returned(definition, exec, ctx, result)
      BY <1>4 DEF HandlerReturns
    <2>2. exec.status = "running"
      BY <1>4 DEF HandlerReturns, AtNode, Counting, Walking
    <2>3. QED
      BY <1>0, <2>1, <2>2 DEF Returned, Logged, Counted, PauseAbsent
  <1>5. ASSUME Pause PROVE PauseBegins
    <2> DEFINE run == Ran(definition, exec.cursor, "awaiting_approval", Blank)
    <2>1. exec.cursor \in Node /\ run \in NodeRun
      BY <1>0, <1>5, RanIsNodeRun DEF Pause, AtNode, Counting, Walking
    <2>2. run.status = "awaiting_approval" /\ run.node = exec.cursor
      BY DEF Ran
    <2>3. /\ exec.awaiting' = exec.cursor /\ exec.status' = "awaiting_approval"
          /\ exec.log' = Append(exec.log, run)
      BY <1>0, <1>5 DEF Pause, Paused, Logged, Counted
    <2> HIDE DEF run
    <2>4. exec.log'[Len(exec.log')] = run
      BY <1>0, <2>1, <2>3
    <2>5. exec.awaiting' \in Node
      BY <2>1, <2>3
    <2>6. exec.log'[Len(exec.log')].node = exec.awaiting'
      BY <2>2, <2>3, <2>4
    <2>7. exec.log'[Len(exec.log')].status = "awaiting_approval"
      BY <2>2, <2>4
    <2>8. QED
      BY <2>3, <2>5, <2>6, <2>7 DEF PauseBegins
  <1>6. ASSUME NEW w \in Offered, NEW who \in Approver, NEW yes \in BOOLEAN, Resume(w, who, yes)
        PROVE  PauseAbsent
    BY <1>0, <1>6 DEF Resume, Decided, Logged, PauseAbsent
  <1>7. CASE UNCHANGED vars
    BY <1>7 DEF vars, PauseIsRecorded
  <1>8. PauseBegins \/ PauseAbsent => PauseIsRecorded'
    BY NoNodeAssumption DEF PauseBegins, PauseAbsent, PauseIsRecorded
  <1>9. QED
    BY <1>1, <1>2, <1>3, <1>4, <1>5, <1>6, <1>7, <1>8 DEF Next, Walk, Silent

(* The code behaviour: the assertion of resume() never fails; the node a   *)
(* paused run names is the one its last record paused at.                  *)
THEOREM PausesAreRecorded == Spec => []PauseIsRecorded
  <1>1. Init => PauseIsRecorded
    BY DEF Init, NewExecution, PauseIsRecorded
  <1>2. QED
    BY <1>1, PauseStep, TypeCorrect, PTL DEF Spec

-----------------------------------------------------------------------------
(* Each node at most once, and the step limit.  On a definition whose      *)
(* links, those to the empty id among them, make no circle, the walk       *)
(* stands at a node that comes after every node it has visited, so it has  *)
(* not visited that one; and it has counted no more steps than it has      *)
(* visited nodes.                                                          *)
Visited == {exec.log[i].node : i \in Visits(exec.log)}

Mentioned(w, n) == n \in w.nodes \/ \E m \in w.nodes : n \in Follow(w, m)

StandsAfterAll ==
  exec.cursor # NoNode =>
    /\ exec.cursor \in WalkedFrom(definition) /\ Mentioned(definition, exec.cursor)
    /\ \A n \in Visited : exec.cursor \in WalkedAfter(definition, n)

WaitsAfterOthers ==
  exec.awaiting # NoNode =>
    /\ exec.awaiting \in WalkedFrom(definition)
    /\ \A n \in Visited : n = exec.awaiting \/ exec.awaiting \in WalkedAfter(definition, n)

StepsAreVisits == exec.status = "running" => exec.steps <= Cardinality(Visited)

Once == \A i, j \in Visits(exec.log) : exec.log[i].node = exec.log[j].node => i = j

LimitIsMet ==
  exec.error = "limit" =>
    \/ Cardinality(definition.nodes) > MaxSteps
    \/ Cardinality(definition.nodes) = MaxSteps /\ Dangles(definition)

OnceInv ==
  definition \notin Edited /\ ~ Circles(definition) =>
    /\ Visited \subseteq definition.nodes
    /\ StandsAfterAll /\ WaitsAfterOthers /\ StepsAreVisits /\ Once /\ LimitIsMet

(* What a record adds to the nodes visited.                                *)
LEMMA VisitsOfAppend ==
  ASSUME NEW log \in Seq(NodeRun), NEW run \in NodeRun
  PROVE  LET longer == Append(log, run) IN
         /\ Visits(longer) = Visits(log) \cup (IF run.decision = "none" THEN {Len(log) + 1} ELSE {})
         /\ Visits(log) \subseteq 1..Len(log) /\ Len(log) \in Nat
         /\ \A i \in Visits(log) : longer[i] = log[i]
         /\ longer[Len(log) + 1] = run
  <1> DEFINE longer == Append(log, run)
  <1>1. /\ DOMAIN log = 1..Len(log) /\ Len(log) \in Nat
        /\ DOMAIN longer = 1..(Len(log) + 1)
        /\ \A i \in 1..Len(log) : longer[i] = log[i]
        /\ longer[Len(log) + 1] = run
    BY AppendedLog
  <1> HIDE DEF longer
  <1>2. Visits(longer) = Visits(log) \cup (IF run.decision = "none" THEN {Len(log) + 1} ELSE {})
    BY <1>1 DEF Visits
  <1>3. Visits(log) \subseteq 1..Len(log)
    BY <1>1 DEF Visits
  <1>4. QED
    BY <1>1, <1>2, <1>3 DEF longer

LEMMA VisitedOfAppend ==
  ASSUME exec.log \in Seq(NodeRun), NEW run \in NodeRun, exec.log' = Append(exec.log, run)
  PROVE  Visited' = Visited \cup (IF run.decision = "none" THEN {run.node} ELSE {})
  <1> DEFINE log == exec.log
             longer == Append(log, run)
             at == Len(log) + 1
  <1>1. /\ Visits(longer) = Visits(log) \cup (IF run.decision = "none" THEN {at} ELSE {})
        /\ \A i \in Visits(log) : longer[i] = log[i]
        /\ longer[at] = run
    BY VisitsOfAppend
  <1>2. Visited' = {longer[i].node : i \in Visits(longer)} /\ Visited = {log[i].node : i \in Visits(log)}
    BY DEF Visited
  <1> HIDE DEF log, longer, at
  <1>3. {longer[i].node : i \in Visits(longer)} =
          {log[i].node : i \in Visits(log)} \cup (IF run.decision = "none" THEN {run.node} ELSE {})
    BY <1>1
  <1>4. QED
    BY <1>2, <1>3

(* A step that visits the node the walk stands at; one that ends it.       *)
VisitStep ==
  /\ definition' = definition /\ exec.status = "running"
  /\ exec.cursor \in definition.nodes
  /\ \E run \in NodeRun : /\ run.node = exec.cursor /\ run.decision = "none"
                          /\ exec.log' = Append(exec.log, run)
  /\ exec.cursor' \in {NoNode} \cup Follow(definition, exec.cursor)
  /\ exec.awaiting' \in {NoNode, exec.cursor}
  /\ exec.status' = "running" => exec.steps' = exec.steps + 1
  /\ exec.error' \in {exec.error, "raised"}

HaltStep ==
  /\ definition' = definition /\ exec.log' = exec.log /\ exec.status = "running"
  /\ exec.cursor' = NoNode /\ exec.awaiting' = NoNode /\ exec.status' # "running"
  /\ exec.error' = "limit" => AtLimit(exec) \/ exec.error = "limit"

LEMMA VisitOrHalt ==
  ASSUME TypeOK, PauseIsRecorded, Walk
  PROVE  VisitStep \/ HaltStep
  <1>0. /\ definition \in Workflow /\ exec \in Execution /\ exec.log \in Seq(NodeRun)
        /\ exec.cursor \in Node \cup {NoNode} /\ Blank \in Approver /\ exec.ctx \in Context
        /\ exec.status = "running" => exec.awaiting = NoNode
        /\ DOMAIN exec = {"status", "cursor", "steps", "awaiting", "error", "ctx", "log", "resumes"}
    <2>1. DOMAIN exec = {"status", "cursor", "steps", "awaiting", "error", "ctx", "log", "resumes"}
      BY TypesFacts DEF Execution
    <2>2. QED
      BY <2>1, TypesFacts DEF PauseIsRecorded
  <1>1. ASSUME StopAtLimit PROVE HaltStep
    BY <1>0, <1>1 DEF StopAtLimit, AtLimit, Walking, Failed, HaltStep
  <1>2. ASSUME StopAtMissing PROVE HaltStep
    BY <1>0, <1>2 DEF StopAtMissing, AtMissing, Counting, Walking, Counted, Failed, HaltStep
  <1>3. ASSUME StopUnhandled PROVE HaltStep
    BY <1>0, <1>3 DEF StopUnhandled, AtNode, Counting, Walking, Counted, Failed, HaltStep
  <1>4. ASSUME Finish PROVE HaltStep
    BY <1>0, <1>4 DEF Finish, Finished, HaltStep
  <1>5. ASSUME NEW st \in {"succeeded", "failed", "awaiting_approval"}, NEW by \in Approver,
               exec.cursor \in Node
        PROVE  /\ Ran(definition, exec.cursor, st, by) \in NodeRun
               /\ Ran(definition, exec.cursor, st, by).node = exec.cursor
               /\ Ran(definition, exec.cursor, st, by).decision = "none"
    BY <1>0, <1>5, RanIsNodeRun DEF Ran
  <1>6. ASSUME Pause PROVE VisitStep
    <2> DEFINE run == Ran(definition, exec.cursor, "awaiting_approval", Blank)
    <2>1. exec.cursor \in Node /\ exec.cursor \in definition.nodes /\ exec.status = "running"
      BY <1>0, <1>6 DEF Pause, AtNode, Counting, Walking
    <2>2. run \in NodeRun /\ run.node = exec.cursor /\ run.decision = "none"
      BY <1>0, <1>5, <2>1
    <2>3. /\ exec.log' = Append(exec.log, run) /\ exec.cursor' = NoNode
          /\ exec.awaiting' = exec.cursor /\ exec.status' = "awaiting_approval"
          /\ exec.error' = exec.error /\ definition' = definition
      BY <1>0, <1>6 DEF Pause, Paused, Logged, Counted
    <2> HIDE DEF run
    <2>4. QED
      BY <2>1, <2>2, <2>3 DEF VisitStep
  <1>7. ASSUME HandlerRaises PROVE VisitStep
    <2> DEFINE run == Ran(definition, exec.cursor, "failed", Blank)
    <2>1. exec.cursor \in Node /\ exec.cursor \in definition.nodes /\ exec.status = "running"
      BY <1>0, <1>7 DEF HandlerRaises, AtNode, Counting, Walking
    <2>2. run \in NodeRun /\ run.node = exec.cursor /\ run.decision = "none"
      BY <1>0, <1>5, <2>1
    <2>3. /\ exec.log' = Append(exec.log, run) /\ exec.cursor' = NoNode
          /\ exec.awaiting' = exec.awaiting /\ exec.status' = "failed"
          /\ exec.error' = "raised" /\ definition' = definition
      BY <1>0, <1>7 DEF HandlerRaises, Raised, Failed, Logged, Counted
    <2> HIDE DEF run
    <2>4. QED
      BY <1>0, <2>1, <2>2, <2>3 DEF VisitStep
  <1>8. ASSUME HandlerReturns PROVE VisitStep
    <2> DEFINE n == exec.cursor
               by == IF definition.type[n] = "email" THEN exec.ctx.by ELSE Blank
               run == Ran(definition, n, "succeeded", by)
    <2>1. PICK ctx \in ContextAfter(definition.type[n], exec.ctx), result \in BOOLEAN :
            exec' = Returned(definition, exec, ctx, result)
      BY <1>8 DEF HandlerReturns
    <2>2. n \in Node /\ n \in definition.nodes /\ exec.status = "running" /\ definition' = definition
      BY <1>0, <1>8 DEF HandlerReturns, AtNode, Counting, Walking
    <2>3. by \in Approver
      BY <1>0 DEF Context
    <2>4. run \in NodeRun /\ run.node = n /\ run.decision = "none"
      BY <1>5, <2>2, <2>3
    <2>5. /\ exec.log' = Append(exec.log, run)
          /\ exec.awaiting' = exec.awaiting /\ exec.steps' = exec.steps + 1
          /\ exec.error' = exec.error
          /\ exec.cursor' \in {definition.alt[n], definition.next[n]}
      BY <1>0, <2>1 DEF Returned, Logged, Counted
    <2>6. exec.cursor' \in {NoNode} \cup Follow(definition, n)
      BY <2>2, <2>5 DEF Follow
    <2> HIDE DEF run
    <2>7. QED
      BY <1>0, <2>2, <2>4, <2>5, <2>6 DEF VisitStep
  <1>9. QED
    BY <1>1, <1>2, <1>3, <1>4, <1>6, <1>7, <1>8 DEF Walk

(* A node the walk stands at has not been visited before.                  *)
LEMMA StandsAtNew ==
  ASSUME TypeOK, ~ Circles(definition), StandsAfterAll, exec.cursor # NoNode
  PROVE  exec.cursor \notin Visited
  BY DEF StandsAfterAll, Circles

LEMMA WalkedFromFacts ==
  ASSUME NEW w \in Workflow
  PROVE  IsWalk(w, Start(w), WalkedFrom(w))
  BY SuccIsNode, WalkIsClosed DEF WalkedFrom

LEMMA WalkedAfterFacts ==
  ASSUME NEW w \in Workflow, NEW n \in Node
  PROVE  IsWalk(w, Follow(w, n), WalkedAfter(w, n))
  BY SuccIsNode, WalkIsClosed DEF WalkedAfter

LEMMA NextIsAfter ==
  ASSUME NEW w \in Workflow, NEW n \in w.nodes, NEW m \in Follow(w, n), n \in WalkedFrom(w)
  PROVE  /\ m \in WalkedFrom(w) /\ m \in WalkedAfter(w, n) /\ Mentioned(w, m)
         /\ \A k \in Node : n \in WalkedAfter(w, k) => m \in WalkedAfter(w, k)
  <1>1. n \in Node
    BY DEF Workflow
  <1>2. QED
    BY <1>1, WalkedFromFacts, WalkedAfterFacts DEF IsWalk, Mentioned

LEMMA VisitKeepsOnce ==
  ASSUME TypeOK, VisitStep, OnceInv
  PROVE  OnceInv'
  <1> SUFFICES ASSUME definition \notin Edited, ~ Circles(definition)
               PROVE  /\ Visited' \subseteq definition.nodes
                      /\ StandsAfterAll' /\ WaitsAfterOthers' /\ StepsAreVisits' /\ Once' /\ LimitIsMet'
    BY DEF OnceInv, VisitStep
  <1> DEFINE n == exec.cursor
  <1>0. /\ definition \in Workflow /\ definition \in Workflows /\ exec.log \in Seq(NodeRun)
        /\ exec.steps \in Nat
    BY TypesFacts DEF TypeOK
  <1>1. /\ Visited \subseteq definition.nodes
        /\ StandsAfterAll /\ WaitsAfterOthers /\ StepsAreVisits /\ Once /\ LimitIsMet
    BY DEF OnceInv
  <1>2. PICK run \in NodeRun : run.node = n /\ run.decision = "none" /\ exec.log' = Append(exec.log, run)
    BY DEF VisitStep
  <1>3. Visited' = Visited \cup {n}
    BY <1>0, <1>2, VisitedOfAppend
  <1>4. /\ n \in definition.nodes /\ n \in Node /\ n # NoNode /\ definition' = definition
        /\ exec.status = "running"
    BY <1>0, NoNodeAssumption DEF VisitStep, Workflow
  <1>5. n \notin Visited /\ n \in WalkedFrom(definition)
    BY <1>1, <1>4, StandsAtNew DEF StandsAfterAll
  <1>6. \A k \in Visited : n \in WalkedAfter(definition, k) /\ k \in Node
    BY <1>0, <1>1, <1>4 DEF StandsAfterAll, Workflow
  <1>7. Visited' \subseteq definition.nodes
    BY <1>1, <1>3, <1>4
  <1>8. StandsAfterAll'
    <2> SUFFICES ASSUME exec.cursor' # NoNode
                 PROVE  /\ exec.cursor' \in WalkedFrom(definition) /\ Mentioned(definition, exec.cursor')
                        /\ \A k \in Visited' : exec.cursor' \in WalkedAfter(definition, k)
      BY <1>4 DEF StandsAfterAll, Mentioned
    <2> DEFINE m == exec.cursor'
    <2>1. m \in Follow(definition, n)
      BY DEF VisitStep
    <2>2. /\ m \in WalkedFrom(definition) /\ m \in WalkedAfter(definition, n) /\ Mentioned(definition, m)
          /\ \A k \in Node : n \in WalkedAfter(definition, k) => m \in WalkedAfter(definition, k)
      BY <1>0, <1>4, <1>5, <2>1, NextIsAfter
    <2> HIDE DEF m, n
    <2>3. \A k \in Visited' : m \in WalkedAfter(definition, k)
      BY <1>3, <1>6, <2>2
    <2>4. QED
      BY <2>2, <2>3 DEF m
  <1>9. WaitsAfterOthers'
    <2> SUFFICES ASSUME exec.awaiting' # NoNode
                 PROVE  /\ exec.awaiting' \in WalkedFrom(definition)
                        /\ \A k \in Visited' : k = exec.awaiting' \/ exec.awaiting' \in WalkedAfter(definition, k)
      BY <1>4 DEF WaitsAfterOthers
    <2>1. exec.awaiting' = n
      BY DEF VisitStep
    <2> HIDE DEF n
    <2>2. QED
      BY <1>3, <1>5, <1>6, <2>1
  <1>10. StepsAreVisits'
    <2>1. IsFiniteSet(Visited)
      BY <1>0, <1>1, FiniteAssumption, FS_Subset
    <2>2. Cardinality(Visited') = Cardinality(Visited) + 1 /\ Cardinality(Visited) \in Nat
      BY <1>3, <1>5, <2>1, FS_AddElement, FS_CardinalityType
    <2>3. exec.status' = "running" => exec.steps' = exec.steps + 1
      BY DEF VisitStep
    <2>4. exec.steps <= Cardinality(Visited)
      BY <1>1, <1>4 DEF StepsAreVisits
    <2>5. QED
      BY <1>0, <2>2, <2>3, <2>4 DEF StepsAreVisits
  <1>11. Once'
    <2> DEFINE log == exec.log
               longer == Append(log, run)
               at == Len(log) + 1
    <2>1. /\ Visits(longer) = Visits(log) \cup {at}
          /\ \A i \in Visits(log) : longer[i] = log[i]
          /\ longer[at] = run
      BY <1>0, <1>2, VisitsOfAppend
    <2>2. \A i \in Visits(log) : log[i].node # n
      BY <1>5 DEF Visited
    <2>3. \A i, j \in Visits(log) : log[i].node = log[j].node => i = j
      BY <1>1 DEF Once
    <2>4. exec.log' = longer
      BY <1>2
    <2> HIDE DEF log, longer, at, n
    <2>5. \A i, j \in Visits(longer) : longer[i].node = longer[j].node => i = j
      BY <1>2, <2>1, <2>2, <2>3
    <2>6. QED
      BY <2>4, <2>5 DEF Once
  <1>12. LimitIsMet'
    BY <1>1, <1>4 DEF LimitIsMet, VisitStep, Dangles
  <1>13. QED
    BY <1>7, <1>8, <1>9, <1>10, <1>11, <1>12

LEMMA HaltKeepsOnce ==
  ASSUME TypeOK, HaltStep, OnceInv
  PROVE  OnceInv'
  <1> SUFFICES ASSUME definition \notin Edited, ~ Circles(definition)
               PROVE  /\ Visited' \subseteq definition.nodes
                      /\ StandsAfterAll' /\ WaitsAfterOthers' /\ StepsAreVisits' /\ Once' /\ LimitIsMet'
    BY DEF OnceInv, HaltStep
  <1>0. /\ definition \in Workflow /\ definition \in Workflows /\ exec.steps \in Nat
        /\ exec.cursor \in Node \cup {NoNode}
    BY TypesFacts DEF TypeOK
  <1>1. /\ Visited \subseteq definition.nodes
        /\ StandsAfterAll /\ StepsAreVisits /\ Once /\ LimitIsMet
    BY DEF OnceInv
  <1>2. /\ definition' = definition /\ exec.log' = exec.log /\ exec.status = "running"
        /\ exec.cursor' = NoNode /\ exec.awaiting' = NoNode /\ exec.status' # "running"
        /\ exec.error' = "limit" => AtLimit(exec) \/ exec.error = "limit"
    BY DEF HaltStep
  <1>3. Visited' = Visited /\ Once'
    BY <1>1, <1>2 DEF Visited, Once
  <1>4. StandsAfterAll' /\ WaitsAfterOthers' /\ StepsAreVisits'
    BY <1>2 DEF StandsAfterAll, WaitsAfterOthers, StepsAreVisits
  <1>5. ASSUME AtLimit(exec)
        PROVE  \/ Cardinality(definition.nodes) > MaxSteps
               \/ Cardinality(definition.nodes) = MaxSteps /\ Dangles(definition)
    <2> DEFINE V == Visited
               S == definition.nodes
               n == exec.cursor
    <2>1. exec.steps = MaxSteps /\ n # NoNode /\ MaxSteps \in Nat
      BY <1>5, EngineAssumption DEF AtLimit, Walking
    <2>2. n \notin V /\ Mentioned(definition, n)
      BY <1>1, <2>1, StandsAtNew DEF StandsAfterAll
    <2>3. IsFiniteSet(S)
      BY <1>0, FiniteAssumption
    <2>4. /\ IsFiniteSet(V) /\ Cardinality(V) <= Cardinality(S)
          /\ Cardinality(V) \in Nat /\ Cardinality(S) \in Nat
      BY <1>1, <2>3, FS_Subset, FS_CardinalityType
    <2>5. MaxSteps <= Cardinality(V)
      BY <1>1, <1>2, <2>1 DEF StepsAreVisits
    <2>6. CASE n \in S
      <3> DEFINE W == V \cup {n}
      <3>1. Cardinality(W) = Cardinality(V) + 1
        BY <2>2, <2>4, FS_AddElement
      <3>2. W \in SUBSET S
        BY <1>1, <2>6
      <3>3. Cardinality(W) <= Cardinality(S)
        BY <2>3, <3>2, FS_Subset
      <3> HIDE DEF V, S, W
      <3>4. Cardinality(S) > MaxSteps
        BY <2>1, <2>4, <2>5, <3>1, <3>3
      <3>5. QED
        BY <3>4 DEF S
    <2>7. CASE n \notin S
      <3>1. Dangles(definition)
        BY <2>2, <2>7 DEF Mentioned, Dangles
      <3> HIDE DEF V, S
      <3>2. Cardinality(S) > MaxSteps \/ Cardinality(S) = MaxSteps
        BY <2>1, <2>4, <2>5
      <3>3. QED
        BY <3>1, <3>2 DEF S
    <2>8. QED
      BY <2>6, <2>7
  <1>6. LimitIsMet'
    BY <1>1, <1>2, <1>5 DEF LimitIsMet, Dangles
  <1>7. QED
    BY <1>1, <1>3, <1>4, <1>6

LEMMA ResumeKeepsOnce ==
  ASSUME TypeOK, OnceInv, NEW w \in Offered, NEW who \in Approver, NEW yes \in BOOLEAN,
         Resume(w, who, yes)
  PROVE  OnceInv'
  <1> SUFFICES ASSUME w \notin Edited, ~ Circles(w)
               PROVE  /\ Visited' \subseteq w.nodes
                      /\ StandsAfterAll' /\ WaitsAfterOthers' /\ StepsAreVisits' /\ Once' /\ LimitIsMet'
    BY DEF OnceInv, Resume
  <1>0. /\ definition \in Workflow /\ definition \in Workflows /\ exec.log \in Seq(NodeRun)
        /\ DOMAIN exec = {"status", "cursor", "steps", "awaiting", "error", "ctx", "log", "resumes"}
        /\ exec.resumes \in Nat
    <2>1. DOMAIN exec = {"status", "cursor", "steps", "awaiting", "error", "ctx", "log", "resumes"}
      BY TypesFacts DEF Execution
    <2>2. QED
      BY <2>1, TypesFacts DEF TypeOK
  <1>1. w = definition /\ definition' = definition
    BY DEF Offered, Resume
  <1>2. /\ Visited \subseteq definition.nodes
        /\ WaitsAfterOthers /\ Once /\ LimitIsMet
    BY <1>1 DEF OnceInv
  <1> DEFINE n == exec.awaiting
             run == [node |-> n, type |-> w.type[n], by |-> who,
                     costed |-> FALSE, decision |-> IF yes THEN "yes" ELSE "no",
                     status |-> IF yes THEN "succeeded" ELSE "skipped"]
  <1>3. n \in definition.nodes /\ n \in Node /\ n # NoNode
    BY <1>0, <1>1, NoNodeAssumption DEF Resume, MayResume, Workflow
  <1>4. run \in NodeRun /\ run.decision # "none"
    BY <1>0, <1>1, <1>3 DEF NodeRun, Workflow
  <1>5. /\ exec.log' = Append(exec.log, run) /\ exec.awaiting' = NoNode /\ exec.steps' = 0
        /\ exec.error' = exec.error
        /\ exec.cursor' = IF yes THEN w.next[n] ELSE NoNode
    BY <1>0 DEF Resume, Decided, Logged
  <1> HIDE DEF run
  <1>6. Visited' = Visited
    BY <1>0, <1>4, <1>5, VisitedOfAppend
  <1>7. Once'
    <2> DEFINE log == exec.log
               longer == Append(log, run)
    <2>1. Visits(longer) = Visits(log) /\ \A i \in Visits(log) : longer[i] = log[i]
      <3>1. log \in Seq(NodeRun) /\ run \in NodeRun
        BY <1>0, <1>4
      <3>2. /\ Visits(longer) = Visits(log) \cup (IF run.decision = "none" THEN {Len(log) + 1} ELSE {})
            /\ \A i \in Visits(log) : longer[i] = log[i]
        BY <3>1, VisitsOfAppend
      <3> HIDE DEF log, longer
      <3>3. QED
        BY <1>4, <3>2
    <2>2. exec.log' = longer /\ \A i, j \in Visits(log) : log[i].node = log[j].node => i = j
      BY <1>2, <1>5 DEF Once
    <2> HIDE DEF log, longer
    <2>3. \A i, j \in Visits(longer) : longer[i].node = longer[j].node => i = j
      BY <2>1, <2>2
    <2>4. QED
      BY <2>2, <2>3 DEF Once
  <1>8. StepsAreVisits'
    <2>1. IsFiniteSet(Visited)
      BY <1>0, <1>2, FiniteAssumption, FS_Subset
    <2>2. Cardinality(Visited) \in Nat
      BY <2>1, FS_CardinalityType
    <2>3. Cardinality(Visited') = Cardinality(Visited)
      BY <1>6
    <2>4. QED
      BY <1>5, <2>2, <2>3 DEF StepsAreVisits
  <1>9. StandsAfterAll'
    <2> SUFFICES ASSUME exec.cursor' # NoNode
                 PROVE  /\ exec.cursor' \in WalkedFrom(definition) /\ Mentioned(definition, exec.cursor')
                        /\ \A k \in Visited : exec.cursor' \in WalkedAfter(definition, k)
      BY <1>1, <1>6 DEF StandsAfterAll, Mentioned
    <2> DEFINE m == exec.cursor'
    <2>1. m \in Follow(definition, n)
      BY <1>1, <1>3, <1>5 DEF Follow
    <2>2. n \in WalkedFrom(definition) /\ \A k \in Visited : k = n \/ n \in WalkedAfter(definition, k)
      BY <1>2, <1>3 DEF WaitsAfterOthers
    <2>3. /\ m \in WalkedFrom(definition) /\ m \in WalkedAfter(definition, n) /\ Mentioned(definition, m)
          /\ \A k \in Node : n \in WalkedAfter(definition, k) => m \in WalkedAfter(definition, k)
      BY <1>0, <1>3, <2>1, <2>2, NextIsAfter
    <2>4. Visited \subseteq Node
      BY <1>0, <1>2 DEF Workflow
    <2> HIDE DEF m, n
    <2>5. \A k \in Visited : m \in WalkedAfter(definition, k)
      BY <2>2, <2>3, <2>4
    <2>6. QED
      BY <2>3, <2>5 DEF m
  <1>10. WaitsAfterOthers' /\ LimitIsMet'
    BY <1>1, <1>2, <1>5 DEF WaitsAfterOthers, LimitIsMet, Dangles
  <1>11. QED
    BY <1>1, <1>2, <1>6, <1>7, <1>8, <1>9, <1>10

(* Before the run nothing is visited.                                      *)
LEMMA NothingVisited ==
  ASSUME exec.log = << >>
  PROVE  Visited = {} /\ Once
  BY DEF Visited, Once, Visits

LEMMA OnceInit == Init => OnceInv
  BY NothingVisited DEF Init, NewExecution, OnceInv, StandsAfterAll, WaitsAfterOthers,
                        StepsAreVisits, LimitIsMet

LEMMA RunKeepsOnce ==
  ASSUME TypeOK, NEW ctx \in Context, Run(ctx)
  PROVE  OnceInv'
  <1>1. /\ exec.log' = << >> /\ exec.cursor' = definition.start /\ exec.awaiting' = NoNode
        /\ exec.steps' = 0 /\ exec.error' = "none" /\ definition' = definition
        /\ definition.start \in definition.nodes
    BY DEF Run, MayRun, Started, NewExecution
  <1>2. definition \in Workflow /\ definition.start \in WalkedFrom(definition)
    <2>1. definition \in Workflow /\ definition.start \in Start(definition)
      BY TypesFacts, RunEffect
    <2>2. QED
      BY <2>1, WalkedFromFacts DEF IsWalk
  <1>3. Visited' = {} /\ Once'
    BY <1>1 DEF Visited, Once, Visits
  <1>4. StandsAfterAll' /\ WaitsAfterOthers' /\ LimitIsMet'
    BY <1>1, <1>2, <1>3 DEF StandsAfterAll, WaitsAfterOthers, LimitIsMet, Mentioned
  <1>5. StepsAreVisits'
    <2>1. Cardinality(Visited') = 0
      BY <1>3, FS_EmptySet
    <2>2. QED
      BY <1>1, <2>1 DEF StepsAreVisits
  <1>6. QED
    BY <1>3, <1>4, <1>5 DEF OnceInv

LEMMA OnceStep == TypeOK /\ PauseIsRecorded /\ OnceInv /\ [Next]_vars => OnceInv'
  <1> SUFFICES ASSUME TypeOK, PauseIsRecorded, OnceInv, [Next]_vars PROVE OnceInv'
    OBVIOUS
  <1>1. CASE Walk
    BY <1>1, VisitOrHalt, VisitKeepsOnce, HaltKeepsOnce
  <1>2. CASE UNCHANGED vars
    BY <1>2 DEF vars, OnceInv, Visited, StandsAfterAll, WaitsAfterOthers, StepsAreVisits, Once,
                LimitIsMet, Dangles, Mentioned
  <1>3. QED
    BY <1>1, <1>2, RunKeepsOnce, ResumeKeepsOnce DEF Next

LEMMA OnceInvariant == Spec => []OnceInv
  BY OnceInit, OnceStep, TypeCorrect, PausesAreRecorded, PTL DEF Spec

(* The code behaviour: on a definition without a circle no node is run, or *)
(* paused at, twice, however often the run is resumed.                     *)
THEOREM NodesRunOnce == Spec => []EachNodeOnce
  <1>1. OnceInv => EachNodeOnce
    BY DEF OnceInv, Once, EachNodeOnce
  <1>2. QED
    BY <1>1, OnceInvariant, PTL

(* The code behaviour: the step limit stops circles, and of definitions    *)
(* without one only those that have more nodes to walk to than the limit.  *)
THEOREM LimitStopsOnlyLong == Spec => []LimitMeansLoop
  <1>1. OnceInv => LimitMeansLoop
    BY DEF OnceInv, LimitIsMet, LimitMeansLoop
  <1>2. QED
    BY <1>1, OnceInvariant, PTL

-----------------------------------------------------------------------------
(***************************************************************************)
(* The builder.  A request holds a copy of an execution and walks it, so   *)
(* BuilderInv says of every copy, and of every row, what EngineInv says of *)
(* the one execution of the engine: it is Safe, and a copy is OnPath of    *)
(* the definition its request read.                                        *)
(***************************************************************************)
(* What one iteration of a walk makes of an execution.                     *)
Stops(x, y) ==
  /\ y.log = x.log /\ x.status = "running" /\ y.status \in {"failed", "succeeded"}

VisitsNode(w, x, y, run) ==
  /\ y.log = Append(x.log, run)
  /\ run.decision = "none" /\ run.type = w.type[x.cursor] /\ run.node = x.cursor
  /\ x.cursor \in w.nodes /\ x.cursor \in Node /\ x.status = "running"
  /\ \/ y.status \in {"failed", "awaiting_approval"}
     \/ /\ y.status = "running" /\ run.type # "human_approval"
        /\ y.cursor \in {w.next[x.cursor], w.alt[x.cursor]}

IsSend(run) == run.type = "email" /\ run.decision = "none" /\ run.status = "succeeded"

LEMMA ExecutionFacts ==
  ASSUME NEW x \in Execution
  PROVE  /\ x.log \in Seq(NodeRun) /\ x.ctx \in Context /\ x.cursor \in Link /\ x.awaiting \in Link
         /\ x.steps \in 0..MaxSteps /\ x.resumes \in 0..MaxResumes /\ Blank \in Approver
         /\ x.ctx.by \in Approver /\ NoNode \in Link /\ MaxSteps \in Nat /\ MaxResumes \in Nat
  BY EngineAssumption DEF Execution, Context, Approver, Link

LEMMA StopsFacts ==
  ASSUME NEW x \in Execution, x.status = "running", NEW why \in {"limit", "missing", "unhandled"}
  PROVE  /\ Failed(x, why) \in Execution /\ Stops(x, Failed(x, why))
         /\ x.steps < MaxSteps =>
              Failed(Counted(x), why) \in Execution /\ Stops(x, Failed(Counted(x), why))
         /\ Finished(x) \in Execution /\ Stops(x, Finished(x))
<1>1. Failed(x, why) \in Execution /\ Stops(x, Failed(x, why))
  BY ExecutionFacts DEF Failed, Execution, Stops
<1>2. ASSUME x.steps < MaxSteps
      PROVE  Failed(Counted(x), why) \in Execution /\ Stops(x, Failed(Counted(x), why))
  <2>1. x.steps + 1 \in 0..MaxSteps
    BY <1>2, ExecutionFacts
  <2> QED
    BY <2>1, ExecutionFacts DEF Failed, Counted, Execution, Stops
<1>3. Finished(x) \in Execution /\ Stops(x, Finished(x))
  BY DEF Finished, Execution, Stops
<1> QED
  BY <1>1, <1>2, <1>3

LEMMA PausedFacts ==
  ASSUME NEW w \in Workflow, NEW x \in Execution, AtNode(w, x, {"human_approval"})
  PROVE  /\ Paused(w, x) \in Execution
         /\ \E run \in NodeRun : VisitsNode(w, x, Paused(w, x), run) /\ ~IsSend(run)
<1> DEFINE run == Ran(w, x.cursor, "awaiting_approval", Blank)
<1>1. /\ x.cursor \in w.nodes /\ x.cursor \in Node /\ x.status = "running" /\ x.steps < MaxSteps
      /\ w.type[x.cursor] = "human_approval"
  BY ExecutionFacts DEF AtNode, Counting, Walking, Link
<1>2. run \in NodeRun /\ run.decision = "none" /\ run.type = w.type[x.cursor] /\ run.node = x.cursor
  BY <1>1, ExecutionFacts, RanIsNodeRun
<1> HIDE DEF run
<1>3. x.steps + 1 \in 0..MaxSteps /\ Append(x.log, run) \in Seq(NodeRun)
  BY <1>1, <1>2, ExecutionFacts
<1>4. /\ Paused(w, x) \in Execution /\ Paused(w, x).log = Append(x.log, run)
      /\ Paused(w, x).status = "awaiting_approval"
  BY <1>1, <1>3, ExecutionFacts DEF Paused, Logged, Counted, Execution, run
<1>5. ~IsSend(run)
  BY <1>1, <1>2 DEF IsSend
<1> QED
  BY <1>1, <1>2, <1>4, <1>5 DEF VisitsNode

LEMMA RaisedFacts ==
  ASSUME NEW w \in Workflow, NEW x \in Execution, AtNode(w, x, MayRaise)
  PROVE  /\ Raised(w, x) \in Execution
         /\ \E run \in NodeRun : VisitsNode(w, x, Raised(w, x), run) /\ ~IsSend(run)
<1> DEFINE run == Ran(w, x.cursor, "failed", Blank)
<1>1. x.cursor \in w.nodes /\ x.cursor \in Node /\ x.status = "running" /\ x.steps < MaxSteps
  BY ExecutionFacts DEF AtNode, Counting, Walking, Link
<1>2. run \in NodeRun /\ run.decision = "none" /\ run.type = w.type[x.cursor] /\ run.node = x.cursor
  BY <1>1, ExecutionFacts, RanIsNodeRun
<1>3. run.status = "failed"
  BY DEF Ran
<1> HIDE DEF run
<1>4. x.steps + 1 \in 0..MaxSteps /\ Append(x.log, run) \in Seq(NodeRun)
  BY <1>1, <1>2, ExecutionFacts
<1>5. /\ Raised(w, x) \in Execution /\ Raised(w, x).log = Append(x.log, run)
      /\ Raised(w, x).status = "failed"
  BY <1>1, <1>4, ExecutionFacts DEF Raised, Failed, Logged, Counted, Execution, run
<1> QED
  BY <1>1, <1>2, <1>3, <1>5 DEF VisitsNode, IsSend

LEMMA ReturnedFacts ==
  ASSUME NEW w \in Workflow, NEW x \in Execution, AtNode(w, x, Handled),
         NEW ctx \in Context, NEW result \in BOOLEAN
  PROVE  /\ Returned(w, x, ctx, result) \in Execution
         /\ \E run \in NodeRun :
              /\ VisitsNode(w, x, Returned(w, x, ctx, result), run)
              /\ IsSend(run) <=> w.type[x.cursor] = "email"
              /\ IsSend(run) => run.by = x.ctx.by
<1> DEFINE n == x.cursor
           by == IF w.type[n] = "email" THEN x.ctx.by ELSE Blank
           run == Ran(w, n, "succeeded", by)
           to == IF w.type[n] = "condition" /\ ~result THEN w.alt[n] ELSE w.next[n]
           y == Returned(w, x, ctx, result)
<1>1. /\ n \in w.nodes /\ n \in Node /\ x.status = "running" /\ x.steps < MaxSteps
      /\ w.type[n] \in Handled /\ w.type[n] # "human_approval" /\ by \in Approver
  BY EngineAssumption, ExecutionFacts DEF AtNode, Counting, Walking, Link
<1>2. run \in NodeRun /\ run.decision = "none" /\ run.type = w.type[n] /\ run.node = n
  BY <1>1, RanIsNodeRun
<1>3. run.status = "succeeded" /\ run.by = by
  BY DEF Ran
<1>4. to \in Link /\ to \in {w.next[n], w.alt[n]}
  BY <1>1 DEF Workflow
<1>5. y = [Logged(Counted(x), run) EXCEPT !.ctx = ctx, !.cursor = to]
  BY DEF Returned
<1> HIDE DEF run, to, y, by
<1>6. x.steps + 1 \in 0..MaxSteps /\ Append(x.log, run) \in Seq(NodeRun)
  BY <1>1, <1>2, ExecutionFacts
<1>7. /\ y \in Execution /\ y.log = Append(x.log, run) /\ y.status = "running" /\ y.cursor = to
  BY <1>1, <1>4, <1>5, <1>6, ExecutionFacts DEF Logged, Counted, Execution
<1>8. VisitsNode(w, x, y, run)
  BY <1>1, <1>2, <1>4, <1>7 DEF VisitsNode
<1>9. (IsSend(run) <=> w.type[n] = "email") /\ (IsSend(run) => run.by = x.ctx.by)
  BY <1>2, <1>3 DEF IsSend, by
<1> QED
  BY <1>2, <1>7, <1>8, <1>9 DEF y

LEMMA DecidedFacts ==
  ASSUME NEW w \in Workflow, NEW x \in Execution, NEW who \in Approver, NEW yes \in BOOLEAN,
         MayResume(w, x, who), x.resumes < MaxResumes
  PROVE  /\ Decided(w, x, who, yes) \in Execution
         /\ \E run \in NodeRun :
              /\ Decided(w, x, who, yes).log = Append(x.log, run)
              /\ run.decision = (IF yes THEN "yes" ELSE "no") /\ run.by \in Person
         /\ Decided(w, x, who, yes).status = (IF yes THEN "running" ELSE "succeeded")
<1> DEFINE d == IF yes THEN "yes" ELSE "no"
           st == IF yes THEN "succeeded" ELSE "skipped"
           status == IF yes THEN "running" ELSE "succeeded"
           cursor == IF yes THEN w.next[x.awaiting] ELSE NoNode
           ctx == [approved |-> yes, by |-> who]
           run == [node |-> x.awaiting, type |-> w.type[x.awaiting], by |-> who,
                   costed |-> FALSE, decision |-> d, status |-> st]
           y == Decided(w, x, who, yes)
<1>1. x.awaiting \in Node /\ who \in Person
  BY DEF MayResume, Workflow, Approver
<1>2. d \in {"yes", "no"} /\ st \in {"succeeded", "skipped"}
  OBVIOUS
<1>3. run \in NodeRun /\ run.decision = d /\ run.by = who
  BY <1>1, <1>2 DEF NodeRun, Workflow
<1>4. ctx \in Context /\ cursor \in Link /\ status \in {"running", "succeeded"}
  BY <1>1, ExecutionFacts DEF Context, Workflow
<1>5. y = [Logged(x, run) EXCEPT !.ctx = ctx, !.awaiting = NoNode, !.resumes = @ + 1,
             !.steps = 0, !.status = status, !.cursor = cursor]
  BY DEF Decided
<1> HIDE DEF run, ctx, cursor, status, y, d, st
<1>6. Append(x.log, run) \in Seq(NodeRun) /\ x.resumes + 1 \in 0..MaxResumes /\ 0 \in 0..MaxSteps
  BY <1>3, ExecutionFacts
<1>7. Logged(x, run) \in Execution /\ Logged(x, run).log = Append(x.log, run) /\ Logged(x, run).resumes = x.resumes
  BY <1>6 DEF Logged, Execution
<1> HIDE DEF Logged
<1>8. y \in Execution /\ y.log = Append(x.log, run) /\ y.status = status
  BY <1>4, <1>5, <1>6, <1>7, ExecutionFacts DEF Execution
<1>9. y.status = (IF yes THEN "running" ELSE "succeeded") /\ run.decision = (IF yes THEN "yes" ELSE "no")
  BY <1>3, <1>8 DEF status, d
<1> QED
  BY <1>1, <1>3, <1>8, <1>9 DEF y

-----------------------------------------------------------------------------
(* The invariant of one execution a request walks along a definition.      *)
Safe(x) == x \in Execution /\ Guarded(x.log) /\ Named(x.log)

OnPath(w, x) ==
  x.status = "running" /\ ~DecisionIn(x.log, "yes") /\ ~Strayed(x.log) =>
    /\ Unguarded(w) = {}
    /\ x.cursor \in Exposed(w) \cup {NoNode, EmptyId}

LEMMA StopKeepsSafe ==
  ASSUME NEW w \in Workflow, NEW x, NEW y \in Execution, Safe(x), OnPath(w, x), Stops(x, y)
  PROVE  Safe(y) /\ OnPath(w, y)
  BY DEF Safe, OnPath, Stops

LEMMA VisitKeepsSafe ==
  ASSUME NEW w \in Workflow, NEW x, NEW y \in Execution, Safe(x), OnPath(w, x),
         NEW run \in NodeRun, VisitsNode(w, x, y, run)
  PROVE  Safe(y) /\ OnPath(w, y)
<1>1. x \in Execution /\ x.log \in Seq(NodeRun) /\ Guarded(x.log) /\ Named(x.log)
  BY ExecutionFacts DEF Safe
<1>2. DecisionIn(y.log, "yes") <=> DecisionIn(x.log, "yes")
  BY <1>1, DecisionsOfAppend DEF VisitsNode
<1>3. ~DecisionIn(x.log, "yes") /\ ~Strayed(x.log) /\ run.node # EmptyId =>
        Unguarded(w) = {} /\ x.cursor \in Exposed(w)
  BY NoNodeAssumption DEF OnPath, VisitsNode
<1>4. IsAct(run) /\ run.node # EmptyId /\ ~Strayed(x.log) => DecisionIn(x.log, "yes")
  BY <1>3, ExposedIsHarmless DEF IsAct, VisitsNode
<1>5. Guarded(y.log) /\ Named(y.log)
  BY <1>1, <1>4, GuardedAppend DEF VisitsNode
<1>6. OnPath(w, y)
  <2>1. Strayed(y.log) <=> Strayed(x.log) \/ run.node = EmptyId
    BY <1>1, StrayedOfAppend DEF VisitsNode
  <2>2. QED
    BY <1>2, <1>3, <2>1, ExposedIsHarmless DEF OnPath, VisitsNode
<1> QED
  BY <1>5, <1>6 DEF Safe

LEMMA DecisionKeepsSafe ==
  ASSUME NEW w \in Workflow, NEW x, Safe(x), NEW who \in Approver, NEW yes \in BOOLEAN,
         MayResume(w, x, who), x.resumes < MaxResumes
  PROVE  Safe(Decided(w, x, who, yes)) /\ OnPath(w, Decided(w, x, who, yes))
<1> DEFINE y == Decided(w, x, who, yes)
<1>1. x \in Execution /\ x.log \in Seq(NodeRun) /\ Guarded(x.log) /\ Named(x.log)
  BY ExecutionFacts DEF Safe
<1>2. PICK run \in NodeRun : /\ y.log = Append(x.log, run)
                             /\ run.decision = (IF yes THEN "yes" ELSE "no") /\ run.by \in Person
  BY <1>1, DecidedFacts
<1>3. y \in Execution /\ y.status = (IF yes THEN "running" ELSE "succeeded")
  BY <1>1, DecidedFacts
<1> HIDE DEF y
<1>4. ~IsAct(run)
  BY <1>2 DEF IsAct
<1>5. Guarded(y.log) /\ Named(y.log)
  BY <1>1, <1>2, <1>4, GuardedAppend
<1>6. yes => DecisionIn(y.log, "yes")
  BY <1>1, <1>2, DecisionsOfAppend
<1>7. OnPath(w, y)
  BY <1>3, <1>6 DEF OnPath
<1> QED
  BY <1>3, <1>5, <1>7 DEF Safe, y

LEMMA StartIsSafe ==
  ASSUME NEW w \in Workflow, MayRun(w), NEW ctx \in Context
  PROVE  /\ Safe(Started(w, ctx)) /\ OnPath(w, Started(w, ctx))
         /\ Started(w, ctx).log = << >> /\ Started(w, ctx).status = "running"
<1> DEFINE y == Started(w, ctx)
<1>1. w.start \in Link /\ 0 \in 0..MaxSteps /\ 0 \in 0..MaxResumes /\ NoNode \in Link
      /\ << >> \in Seq(NodeRun)
  BY EngineAssumption DEF Workflow, Link
<1>2. y = [status |-> "running", cursor |-> w.start, steps |-> 0,
           awaiting |-> NoNode, error |-> "none", ctx |-> ctx, log |-> << >>, resumes |-> 0]
  <2>1. y = [NewExecution EXCEPT !.status = "running", !.cursor = w.start, !.ctx = ctx]
    BY DEF Started
  <2> QED
    BY <2>1 DEF NewExecution
<1> HIDE DEF y
<1>3. y \in Execution
  BY <1>1, <1>2 DEF Execution
<1>4. y.log = << >> /\ y.cursor = w.start /\ y.status = "running"
  BY <1>2
<1>5. Guarded(y.log) /\ Named(y.log)
  BY <1>4 DEF Guarded, Named, Acts, CheckedActs
<1>6. OnPath(w, y)
  BY <1>4, StartIsExposed DEF OnPath, MayRun
<1> QED
  BY <1>3, <1>4, <1>5, <1>6 DEF Safe, y
-----------------------------------------------------------------------------
(* What a request does to the execution it holds, and to the outbox.       *)
Moves(r, y) ==
  /\ y \in Execution
  /\ call' = [call EXCEPT ![r].x = y]
  /\ UNCHANGED <<row, readOnly, stored, contested, calls, deaths>>

LEMMA CallFacts ==
  ASSUME BuilderTypeOK, NEW r \in Request, Held(r)
  PROVE  /\ call[r] \in Call /\ call[r].exe \in Exe /\ call[r].def \in Workflow
         /\ call[r].def \in Workflows /\ call[r].x \in Execution /\ call[r].kind \in {"run", "resume"}
  BY WorkflowsAssumption DEF BuilderTypeOK, Held, Idle, Call

LEMMA WalkOnEffect ==
  ASSUME BuilderTypeOK, NEW r \in Request, WalkOn(r)
  PROVE  \E y \in Execution :
           /\ Moves(r, y) /\ Held(r)
           /\ \/ Stops(call[r].x, y) /\ UNCHANGED outbox
              \/ \E run \in NodeRun :
                   /\ VisitsNode(call[r].def, call[r].x, y, run)
                   /\ IF IsSend(run) THEN outbox' = [outbox EXCEPT ![call[r].exe] = Append(@, run.by)]
                      ELSE UNCHANGED outbox
<1> DEFINE w == call[r].def
           x == call[r].x
           Goal == \E y \in Execution :
             /\ Moves(r, y)
             /\ \/ Stops(x, y) /\ UNCHANGED outbox
                \/ \E run \in NodeRun :
                     /\ VisitsNode(w, x, y, run)
                     /\ IF IsSend(run) THEN outbox' = [outbox EXCEPT ![call[r].exe] = Append(@, run.by)]
                        ELSE UNCHANGED outbox
<1>0. Held(r)
  BY DEF WalkOn
<1>1. w \in Workflow /\ x \in Execution
  BY <1>0, CallFacts
<1> HIDE DEF w, x
<1>2. ASSUME NEW y \in Execution, Advance(r, y) PROVE Moves(r, y)
  BY <1>2 DEF Advance, Moves
<1>a. ASSUME NEW y \in Execution, Advance(r, y), Stops(x, y), UNCHANGED outbox
      PROVE  Goal
  BY <1>2, <1>a
<1>b. ASSUME NEW y \in Execution, Advance(r, y), UNCHANGED outbox,
             \E run \in NodeRun : VisitsNode(w, x, y, run) /\ ~IsSend(run)
      PROVE  Goal
  BY <1>2, <1>b
<1>c. ASSUME NEW y \in Execution, Advance(r, y),
             NEW run \in NodeRun, VisitsNode(w, x, y, run), IsSend(run),
             outbox' = [outbox EXCEPT ![call[r].exe] = Append(@, run.by)]
      PROVE  Goal
  BY <1>2, <1>c
<1> HIDE DEF Goal
<1>3. ASSUME AtLimit(x) /\ Advance(r, Failed(x, "limit")) /\ UNCHANGED outbox
      PROVE  Goal
  <2>1. Failed(x, "limit") \in Execution /\ Stops(x, Failed(x, "limit"))
    BY <1>1, <1>3, StopsFacts DEF AtLimit, Walking
  <2> QED
    BY <1>a, <1>3, <2>1
<1>4. ASSUME AtMissing(w, x) /\ Advance(r, Failed(Counted(x), "missing")) /\ UNCHANGED outbox
      PROVE  Goal
  <2>1. Failed(Counted(x), "missing") \in Execution /\ Stops(x, Failed(Counted(x), "missing"))
    BY <1>1, <1>4, StopsFacts DEF AtMissing, Counting, Walking
  <2> QED
    BY <1>a, <1>4, <2>1
<1>5. ASSUME /\ AtNode(w, x, NodeType \ (Handled \cup {"human_approval"}))
           /\ Advance(r, Failed(Counted(x), "unhandled")) /\ UNCHANGED outbox
      PROVE  Goal
  <2>1. Failed(Counted(x), "unhandled") \in Execution /\ Stops(x, Failed(Counted(x), "unhandled"))
    BY <1>1, <1>5, StopsFacts DEF AtNode, Counting, Walking
  <2> QED
    BY <1>a, <1>5, <2>1
<1>6. ASSUME x.status = "running" /\ x.cursor = NoNode /\ Advance(r, Finished(x)) /\ UNCHANGED outbox
      PROVE  Goal
  <2>1. Finished(x) \in Execution /\ Stops(x, Finished(x))
    BY <1>1, <1>6, StopsFacts
  <2> QED
    BY <1>a, <1>6, <2>1
<1>7. ASSUME AtNode(w, x, {"human_approval"}) /\ Advance(r, Paused(w, x)) /\ UNCHANGED outbox
      PROVE  Goal
  <2>1. Paused(w, x) \in Execution
    BY <1>1, <1>7, PausedFacts
  <2>2. \E run \in NodeRun : VisitsNode(w, x, Paused(w, x), run) /\ ~IsSend(run)
    BY <1>1, <1>7, PausedFacts
  <2> QED
    BY <1>b, <1>7, <2>1, <2>2
<1>8. ASSUME AtNode(w, x, MayRaise) /\ Advance(r, Raised(w, x)) /\ UNCHANGED outbox
      PROVE  Goal
  <2>1. Raised(w, x) \in Execution
    BY <1>1, <1>8, RaisedFacts
  <2>2. \E run \in NodeRun : VisitsNode(w, x, Raised(w, x), run) /\ ~IsSend(run)
    BY <1>1, <1>8, RaisedFacts
  <2> QED
    BY <1>b, <1>8, <2>1, <2>2
<1>9. ASSUME AtNode(w, x, Handled \ {"email"}), UNCHANGED outbox,
             NEW ctx \in ContextAfter(w.type[x.cursor], x.ctx), NEW result \in BOOLEAN,
             Advance(r, Returned(w, x, ctx, result))
      PROVE  Goal
  <2>1. AtNode(w, x, Handled) /\ w.type[x.cursor] # "email" /\ ctx \in Context
    BY <1>1, <1>9, ExecutionFacts DEF AtNode, ContextAfter
  <2>2. /\ Returned(w, x, ctx, result) \in Execution
        /\ \E run \in NodeRun : VisitsNode(w, x, Returned(w, x, ctx, result), run) /\ ~IsSend(run)
    BY <1>1, <2>1, ReturnedFacts
  <2> QED
    BY <1>b, <1>9, <2>2
<1>10. ASSUME /\ AtNode(w, x, {"email"} \cap Handled) /\ MaySend(x.ctx)
            /\ outbox' = [outbox EXCEPT ![call[r].exe] = Append(@, x.ctx.by)]
            /\ Advance(r, Returned(w, x, x.ctx, TRUE))
      PROVE  Goal
  <2>1. AtNode(w, x, Handled) /\ w.type[x.cursor] = "email" /\ x.ctx \in Context
    BY <1>1, <1>10, ExecutionFacts DEF AtNode
  <2>2. /\ Returned(w, x, x.ctx, TRUE) \in Execution
        /\ \E run \in NodeRun : /\ VisitsNode(w, x, Returned(w, x, x.ctx, TRUE), run)
                               /\ IsSend(run) /\ run.by = x.ctx.by
    BY <1>1, <2>1, ReturnedFacts
  <2>3. PICK run \in NodeRun : /\ VisitsNode(w, x, Returned(w, x, x.ctx, TRUE), run)
                              /\ IsSend(run) /\ run.by = x.ctx.by
    BY <2>2
  <2> QED
    BY <1>c, <1>10, <2>2, <2>3
<1>11. \/ /\ \/ AtLimit(x) /\ Advance(r, Failed(x, "limit"))
             \/ AtMissing(w, x) /\ Advance(r, Failed(Counted(x), "missing"))
             \/ AtNode(w, x, {"human_approval"}) /\ Advance(r, Paused(w, x))
             \/ AtNode(w, x, NodeType \ (Handled \cup {"human_approval"}))
                  /\ Advance(r, Failed(Counted(x), "unhandled"))
             \/ AtNode(w, x, MayRaise) /\ Advance(r, Raised(w, x))
             \/ /\ AtNode(w, x, Handled \ {"email"})
                /\ \E ctx \in ContextAfter(w.type[x.cursor], x.ctx), result \in BOOLEAN :
                     Advance(r, Returned(w, x, ctx, result))
             \/ x.status = "running" /\ x.cursor = NoNode /\ Advance(r, Finished(x))
          /\ UNCHANGED outbox
       \/ /\ AtNode(w, x, {"email"} \cap Handled) /\ MaySend(x.ctx)
          /\ outbox' = [outbox EXCEPT ![call[r].exe] = Append(@, x.ctx.by)]
          /\ Advance(r, Returned(w, x, x.ctx, TRUE))
  BY DEF WalkOn, w, x
<1>12. Goal
  BY <1>3, <1>4, <1>5, <1>6, <1>7, <1>8, <1>9, <1>10, <1>11
<1> QED
  BY <1>0, <1>12 DEF Goal, w, x
-----------------------------------------------------------------------------
(* Everything the builder keeps is safe.                                   *)
BuilderInv ==
  /\ BuilderTypeOK
  /\ \A e \in Exe : stored[e] # NoRow =>
       Safe(stored[e]) /\ stored[e].status # "running"
  /\ \A r \in Request : Held(r) => Safe(call[r].x) /\ OnPath(call[r].def, call[r].x)

LEMMA BuilderTypes ==
  ASSUME BuilderTypeOK
  PROVE  /\ row # NoRow => row \in Workflow /\ row \in Workflows
         /\ \A e \in Exe : stored[e] # NoRow => stored[e] \in Execution
         /\ DOMAIN stored = Exe /\ DOMAIN call = Request /\ DOMAIN outbox = Exe
         /\ \A e \in Exe : outbox[e] \in Seq(Approver)
         /\ calls \in Nat /\ deaths \in Nat
         /\ Idle \notin Call
  BY WorkflowsAssumption DEF BuilderTypeOK, Idle, Call

(* A request begins to hold c.                                             *)
LEMMA BeginKeeps ==
  ASSUME BuilderInv, NEW r \in Request, NEW c \in Call, Begin(r, c), Safe(c.x), OnPath(c.def, c.x)
  PROVE  /\ BuilderInv'
         /\ \A q \in Request : call'[q] = IF q = r THEN c ELSE call[q]
<1>1. /\ ~Held(r) /\ calls < MaxCalls /\ call' = [call EXCEPT ![r] = c] /\ calls' = calls + 1
      /\ contested' = contested \cup {c.exe : q \in {q \in Request : Held(q) /\ call[q].exe = c.exe}}
      /\ UNCHANGED <<row, readOnly, stored, outbox, deaths>>
  BY DEF Begin
<1>2. \A q \in Request : call'[q] = IF q = r THEN c ELSE call[q]
  BY <1>1 DEF BuilderInv, BuilderTypeOK
<1>3. call' \in [Request -> Call \cup {Idle}]
  BY <1>1 DEF BuilderInv, BuilderTypeOK
<1>4. contested' \subseteq Exe
  BY <1>1 DEF BuilderInv, BuilderTypeOK, Call
<1>5. calls' \in 0..MaxCalls
  BY <1>1, BuilderAssumption DEF BuilderInv, BuilderTypeOK
<1>6. BuilderTypeOK'
  BY <1>1, <1>3, <1>4, <1>5 DEF BuilderInv, BuilderTypeOK
<1> QED
  BY <1>1, <1>2, <1>6 DEF BuilderInv, Held

LEMMA RunBegins ==
  ASSUME BuilderInv, NEW r \in Request, NEW e \in Exe, BeginRun(r, e)
  PROVE  \E c \in Call :
           /\ c.kind = "run" /\ c.exe = e /\ c.x.log = << >> /\ c.x.status = "running"
           /\ Begin(r, c) /\ Safe(c.x) /\ OnPath(c.def, c.x) /\ row # NoRow /\ Unused(e)
<1>1. row # NoRow /\ Unused(e) /\ MayRun(row) /\ row \in Workflow /\ row \in Workflows
  BY BuilderTypes DEF BeginRun, BuilderInv
<1>2. PICK ctx \in Context : Begin(r, [kind |-> "run", exe |-> e, def |-> row, x |-> Started(row, ctx)])
  BY DEF BeginRun
<1> DEFINE c == [kind |-> "run", exe |-> e, def |-> row, x |-> Started(row, ctx)]
<1>3. /\ Safe(Started(row, ctx)) /\ OnPath(row, Started(row, ctx))
      /\ Started(row, ctx).log = << >> /\ Started(row, ctx).status = "running"
  BY <1>1, StartIsSafe
<1>4. c \in Call
  BY <1>1, <1>3 DEF Call, Safe
<1> QED
  BY <1>1, <1>2, <1>3, <1>4

LEMMA ResumeBegins ==
  ASSUME BuilderInv, NEW r \in Request, NEW e \in Exe, NEW who \in Approver, NEW yes \in BOOLEAN,
         BeginResume(r, e, who, yes)
  PROVE  \E c \in Call, run \in NodeRun :
           /\ c.kind = "resume" /\ c.exe = e /\ c.x.log = Append(stored[e].log, run)
           /\ run.decision # "none"
           /\ Begin(r, c) /\ Safe(c.x) /\ OnPath(c.def, c.x)
           /\ row # NoRow /\ stored[e] # NoRow /\ stored[e].status = "awaiting_approval"
<1> DEFINE x == stored[e]
           c == [kind |-> "resume", exe |-> e, def |-> row, x |-> Decided(row, x, who, yes)]
<1>1. /\ row # NoRow /\ x # NoRow /\ x.resumes < MaxResumes /\ MayResume(row, x, who)
      /\ Begin(r, c) /\ row \in Workflow /\ row \in Workflows
  BY BuilderTypes DEF BeginResume, BuilderInv
<1>2. Safe(x) /\ x \in Execution
  BY <1>1 DEF BuilderInv, Safe
<1>3. Safe(c.x) /\ OnPath(c.def, c.x)
  BY <1>1, <1>2, DecisionKeepsSafe
<1>4. c \in Call
  BY <1>1, <1>3 DEF Call, Safe
<1>5. PICK run \in NodeRun : /\ c.x.log = Append(x.log, run)
                             /\ run.decision = (IF yes THEN "yes" ELSE "no")
  BY <1>1, <1>2, DecidedFacts
<1>6. run.decision # "none" /\ x.status = "awaiting_approval"
  BY <1>1, <1>5 DEF MayResume
<1> HIDE DEF c
<1>7. c.kind = "resume" /\ c.exe = e
  BY DEF c
<1> QED
  BY <1>1, <1>3, <1>4, <1>5, <1>6, <1>7

LEMMA WalkOnKeeps ==
  ASSUME BuilderInv, NEW r \in Request, WalkOn(r)
  PROVE  BuilderInv'
<1> DEFINE c == call[r]
<1>1. /\ BuilderTypeOK /\ Held(r) /\ c \in Call /\ c.exe \in Exe /\ c.def \in Workflow
      /\ c.x \in Execution /\ Safe(c.x) /\ OnPath(c.def, c.x)
  BY CallFacts DEF WalkOn, BuilderInv
<1>2. PICK y \in Execution :
        /\ Moves(r, y) /\ Held(r)
        /\ \/ Stops(call[r].x, y) /\ UNCHANGED outbox
           \/ \E run \in NodeRun :
                /\ VisitsNode(call[r].def, call[r].x, y, run)
                /\ IF IsSend(run) THEN outbox' = [outbox EXCEPT ![call[r].exe] = Append(@, run.by)]
                   ELSE UNCHANGED outbox
  BY <1>1, WalkOnEffect
<1>3. Safe(y) /\ OnPath(c.def, y)
  BY <1>1, <1>2, StopKeepsSafe, VisitKeepsSafe
<1> DEFINE d == [c EXCEPT !.x = y]
<1>4. d \in Call /\ d.x = y /\ d.def = c.def /\ d.exe = c.exe /\ d.kind = c.kind
  BY <1>1 DEF Call
<1>5. call' = [call EXCEPT ![r] = d] /\ UNCHANGED <<row, readOnly, stored, contested, calls, deaths>>
  BY <1>2 DEF Moves
<1> HIDE DEF d
<1>6. \A q \in Request : call'[q] = IF q = r THEN d ELSE call[q]
  BY <1>1, <1>5 DEF BuilderTypeOK
<1>7. outbox' \in [Exe -> Seq(Approver)]
  <2>1. ASSUME NEW run \in NodeRun, outbox' = [outbox EXCEPT ![c.exe] = Append(@, run.by)]
        PROVE  outbox' \in [Exe -> Seq(Approver)]
    <3>1. run.by \in Approver
      BY DEF NodeRun
    <3>2. Append(outbox[c.exe], run.by) \in Seq(Approver)
      BY <1>1, <3>1, BuilderTypes
    <3> QED
      BY <1>1, <2>1, <3>2 DEF BuilderTypeOK
  <2> QED
    BY <1>1, <1>2, <2>1 DEF BuilderTypeOK
<1>8. BuilderTypeOK'
  BY <1>1, <1>4, <1>5, <1>7 DEF BuilderTypeOK
<1> QED
  BY <1>3, <1>4, <1>5, <1>6, <1>8 DEF BuilderInv, Held

LEMMA CommitKeeps ==
  ASSUME BuilderInv, NEW r \in Request, Commit(r)
  PROVE  BuilderInv'
<1> DEFINE c == call[r]
<1>1. /\ BuilderTypeOK /\ Held(r) /\ c \in Call /\ c.exe \in Exe
      /\ c.x \in Execution /\ Safe(c.x) /\ c.x.status # "running"
  BY CallFacts DEF Commit, BuilderInv
<1>2. /\ stored' = [stored EXCEPT ![c.exe] = c.x] \/ stored' = stored
      /\ call' = [call EXCEPT ![r] = Idle]
      /\ UNCHANGED <<row, readOnly, outbox, contested, calls, deaths>>
  BY DEF Commit
<1> HIDE DEF c
<1>3. BuilderTypeOK'
  BY <1>1, <1>2 DEF BuilderTypeOK
<1>4. \A e \in Exe : stored'[e] = stored[e] \/ stored'[e] = c.x
  BY <1>1, <1>2 DEF BuilderTypeOK
<1>5. \A q \in Request : call'[q] = IF q = r THEN Idle ELSE call[q]
  BY <1>1, <1>2 DEF BuilderTypeOK
<1>6. Idle.kind = "idle"
  BY DEF Idle
<1> QED
  BY <1>1, <1>3, <1>4, <1>5, <1>6 DEF BuilderInv, Held

LEMMA BuilderStep == BuilderInv /\ [BuilderNext]_builderVars => BuilderInv'
<1> SUFFICES ASSUME BuilderInv, [BuilderNext]_builderVars PROVE BuilderInv'
  OBVIOUS
<1>1. ASSUME NEW w \in Edited, Save(w) PROVE BuilderInv'
  BY <1>1, EngineAssumption DEF Save, BuilderInv, BuilderTypeOK, Held
<1>2. CASE Delete
  BY <1>2 DEF Delete, BuilderInv, BuilderTypeOK, Held
<1>3. ASSUME NEW r \in Request, NEW e \in Exe, BeginRun(r, e) PROVE BuilderInv'
  BY <1>3, RunBegins, BeginKeeps
<1>4. ASSUME NEW r \in Request, NEW e \in Exe, NEW who \in Approver, NEW yes \in BOOLEAN,
             BeginResume(r, e, who, yes)
      PROVE  BuilderInv'
  BY <1>4, ResumeBegins, BeginKeeps
<1>5. ASSUME NEW r \in Request, Die(r) PROVE BuilderInv'
  <2>1. /\ BuilderTypeOK /\ Held(r) /\ call[r].exe \in Exe
        /\ deaths < MaxDeaths /\ call' = [call EXCEPT ![r] = Idle] /\ deaths' = deaths + 1
        /\ contested' = contested \cup {call[r].exe}
        /\ UNCHANGED <<row, readOnly, stored, outbox, calls>>
    BY <1>5, CallFacts DEF Die, BuilderInv
  <2>2. deaths' \in 0..MaxDeaths
    BY <2>1, BuilderAssumption DEF BuilderTypeOK
  <2>3. BuilderTypeOK'
    BY <2>1, <2>2 DEF BuilderTypeOK
  <2>4. \A q \in Request : call'[q] = IF q = r THEN Idle ELSE call[q]
    BY <2>1 DEF BuilderTypeOK
  <2>5. Idle.kind = "idle"
    BY DEF Idle
  <2> QED
    BY <2>1, <2>3, <2>4, <2>5 DEF BuilderInv, Held
<1>6. CASE UNCHANGED builderVars
  BY <1>6 DEF builderVars, BuilderInv, BuilderTypeOK, Held
<1> QED
  BY <1>1, <1>2, <1>3, <1>4, <1>5, <1>6, WalkOnKeeps, CommitKeeps DEF BuilderNext

LEMMA BuilderBegins == BuilderInit => BuilderInv
<1> SUFFICES ASSUME BuilderInit PROVE BuilderInv
  OBVIOUS
<1>1. Idle.kind = "idle" /\ << >> \in Seq(Approver)
  BY DEF Idle
<1> QED
  BY <1>1, BuilderAssumption DEF BuilderInit, BuilderInv, BuilderTypeOK, Held

LEMMA BuilderInvariant == BuilderSpec => []BuilderInv
  BY BuilderBegins, BuilderStep, PTL DEF BuilderSpec

(* For any number of requests, executions, edits and deaths: whatever the  *)
(* builder keeps tried to act outside only after a person approved it, or  *)
(* after its walk had come to a node with the empty id.                    *)
THEOREM BuilderActsApproved == BuilderSpec => []KeptActsApproved
<1>1. ASSUME NEW x, Safe(x) PROVE ActsApproved(x.log)
  <2>1. x.log \in Seq(NodeRun) /\ Guarded(x.log)
    BY <1>1, ExecutionFacts DEF Safe
  <2>2. ASSUME NEW i \in CheckedActs(x.log) PROVE DecisionIn(SubSeq(x.log, 1, i - 1), "yes")
    <3> DEFINE log == x.log
               before == SubSeq(log, 1, i - 1)
    <3>1. PICK j \in 1..(i - 1) : log[j].decision = "yes"
      BY <2>1 DEF Guarded
    <3>2. i \in 1..Len(log) /\ Len(log) \in Nat
      BY <2>1 DEF Acts, CheckedActs
    <3>3. DOMAIN before = 1..(i - 1) /\ before[j] = log[j]
      BY <2>1, <3>1, <3>2
    <3> QED
      BY <3>1, <3>3 DEF DecisionIn
  <2> QED
    BY <2>2 DEF ActsApproved
<1>2. BuilderInv => KeptActsApproved
  BY <1>1 DEF BuilderInv, KeptActsApproved, Kept
<1> QED
  BY <1>2, BuilderInvariant, PTL

-----------------------------------------------------------------------------
(***************************************************************************)
(* The order of sends.  The i-th record of a message in a log and the i-th *)
(* message that left agree; what is missing to carry this over a step is   *)
(* who holds the execution, which HoldInv adds to BuilderInv.              *)
(***************************************************************************)
LEMMA SendsOfAppend ==
  ASSUME NEW log \in Seq(NodeRun), NEW run \in NodeRun
  PROVE  /\ Sends(Append(log, run)) = Sends(log) \cup (IF IsSend(run) THEN {Len(log) + 1} ELSE {})
         /\ Sends(log) \subseteq 1..Len(log) /\ IsFiniteSet(Sends(log)) /\ Len(log) \in Nat
<1> DEFINE longer == Append(log, run)
<1>1. /\ DOMAIN log = 1..Len(log) /\ Len(log) \in Nat
      /\ DOMAIN longer = 1..(Len(log) + 1)
      /\ \A i \in 1..Len(log) : longer[i] = log[i]
      /\ longer[Len(log) + 1] = run
  BY AppendedLog
<1> HIDE DEF longer
<1>2. Sends(longer) = Sends(log) \cup (IF IsSend(run) THEN {Len(log) + 1} ELSE {})
  BY <1>1 DEF Sends, IsSend
<1>3. Sends(log) \subseteq 1..Len(log)
  BY <1>1 DEF Sends
<1>4. IsFiniteSet(1..Len(log))
  BY <1>1, FS_Interval
<1> QED
  BY <1>1, <1>2, <1>3, <1>4, FS_Subset DEF longer

LEMMA NothingSent == Records(<< >>, << >>)
<1>1. Sends(<< >>) = {}
  BY DEF Sends
<1> QED
  BY <1>1, FS_EmptySet DEF Records

LEMMA RecordsAppend ==
  ASSUME NEW log \in Seq(NodeRun), NEW run \in NodeRun, NEW sent \in Seq(Approver), Records(log, sent)
  PROVE  /\ ~IsSend(run) => Records(Append(log, run), sent)
         /\ IsSend(run) => Records(Append(log, run), Append(sent, run.by))
<1> DEFINE longer == Append(log, run)
           n == Len(log) + 1
           S == Sends(log)
<1>1. /\ Len(log) \in Nat /\ DOMAIN longer = 1..n
      /\ \A i \in 1..Len(log) : longer[i] = log[i]
      /\ longer[n] = run
  BY AppendedLog
<1>2. /\ Sends(longer) = S \cup (IF IsSend(run) THEN {n} ELSE {})
      /\ S \subseteq 1..Len(log) /\ IsFiniteSet(S)
  BY SendsOfAppend
<1>3. /\ Cardinality(S) = Len(sent)
      /\ \A i \in S : log[i].by = sent[Cardinality({j \in S : j <= i})]
  BY DEF Records
<1> HIDE DEF longer, S
<1>4. ASSUME ~IsSend(run) PROVE Records(longer, sent)
  <2>1. Sends(longer) = S
    BY <1>2, <1>4
  <2>2. \A i \in S : longer[i] = log[i]
    BY <1>1, <1>2
  <2> QED
    BY <1>3, <2>1, <2>2 DEF Records
<1>5. ASSUME IsSend(run) PROVE Records(longer, Append(sent, run.by))
  <2> DEFINE later == Append(sent, run.by)
             T == Sends(longer)
  <2>1. T = S \cup {n} /\ n \notin S
    BY <1>1, <1>2, <1>5
  <2>2. /\ Cardinality(T) = Len(sent) + 1 /\ Len(sent) \in Nat
    <3>1. Cardinality(T) = Cardinality(S) + 1
      BY <1>2, <2>1, FS_AddElement
    <3> QED
      BY <1>3, <3>1
  <2>3. run.by \in Approver
    BY DEF NodeRun
  <2>4. /\ Len(later) = Len(sent) + 1 /\ later[Len(sent) + 1] = run.by
        /\ \A k \in 1..Len(sent) : later[k] = sent[k]
    BY <2>3
  <2> HIDE DEF later, T
  <2>5. ASSUME NEW i \in S PROVE longer[i].by = later[Cardinality({j \in T : j <= i})]
    <3> DEFINE U == {j \in S : j <= i}
    <3>1. {j \in T : j <= i} = U
      BY <1>1, <1>2, <2>1
    <3>2. U \subseteq S /\ i \in U
      BY <1>2
    <3>3. /\ Cardinality(U) \in Nat /\ Cardinality(U) <= Cardinality(S)
          /\ Cardinality(U) # 0
      <4>1. IsFiniteSet(U) /\ Cardinality(U) <= Cardinality(S)
        BY <1>2, <3>2, FS_Subset
      <4>2. U # {}
        BY <3>2
      <4> QED
        BY <4>1, <4>2, FS_CardinalityType, FS_EmptySet
    <3> HIDE DEF U
    <3>4. Cardinality(U) \in 1..Len(sent)
      BY <1>3, <2>2, <3>3
    <3>5. longer[i] = log[i] /\ log[i].by = sent[Cardinality(U)]
      BY <1>1, <1>2, <1>3 DEF U
    <3> QED
      BY <2>4, <3>1, <3>4, <3>5
  <2>6. longer[n].by = later[Cardinality({j \in T : j <= n})]
    <3>1. {j \in T : j <= n} = T
      <4>1. \A j \in T : j <= n
        <5>1. n \in Int /\ Len(log) <= n
          BY <1>1
        <5> QED
          BY <1>1, <1>2, <2>1, <5>1
      <4> QED
        BY <4>1
    <3> QED
      BY <1>1, <2>2, <2>4, <3>1
  <2>7. \A i \in T : longer[i].by = later[Cardinality({j \in T : j <= i})]
    BY <2>1, <2>5, <2>6
  <2> QED
    BY <2>2, <2>4, <2>7 DEF Records, later, T
<1> QED
  BY <1>4, <1>5 DEF longer

-----------------------------------------------------------------------------
(* An execution that no two requests held at once and no request died with *)
(* is in one request's hands or in nobody's.  In a request's hands, its    *)
(* log records what left, and what is stored is what the request began     *)
(* with; in nobody's, what is stored records what left.                    *)
Alone ==
  \A r, q \in Request :
    Held(r) /\ Held(q) /\ call[r].exe = call[q].exe /\ call[r].exe \notin contested => r = q

HolderRecords(c) ==
  /\ Records(c.x.log, outbox[c.exe])
  /\ c.kind = "run" => stored[c.exe] = NoRow
  /\ c.kind = "resume" /\ row # NoRow =>
       stored[c.exe] # NoRow /\ stored[c.exe].status = "awaiting_approval"

HoldersRecord == \A r \in Request : Held(r) /\ call[r].exe \notin contested => HolderRecords(call[r])

Resting(e) == \A r \in Request : Held(r) => call[r].exe # e

RowsRecord ==
  \A e \in Exe \ contested : row # NoRow /\ Resting(e) =>
    IF stored[e] = NoRow THEN outbox[e] = << >> ELSE Records(stored[e].log, outbox[e])

HoldInv == Alone /\ HoldersRecord /\ RowsRecord

(* The next state of the calls when r begins to hold c.                    *)
LEMMA BeginHolds ==
  ASSUME BuilderInv, HoldInv, NEW r \in Request, NEW c \in Call, Begin(r, c),
         Safe(c.x), OnPath(c.def, c.x),
         Resting(c.exe) /\ c.exe \notin contested => HolderRecords(c)
  PROVE  HoldInv'
<1>1. /\ ~Held(r)
      /\ contested' = contested \cup {c.exe : q \in {q \in Request : Held(q) /\ call[q].exe = c.exe}}
      /\ UNCHANGED <<row, readOnly, stored, outbox, deaths>>
  BY DEF Begin
<1>2. \A q \in Request : call'[q] = IF q = r THEN c ELSE call[q]
  BY BeginKeeps
<1>3. c.kind \in {"run", "resume"}
  BY DEF Call
<1>4. \A q \in Request : Held(q)' <=> q = r \/ Held(q)
  BY <1>2, <1>3 DEF Held
<1>5. c.exe \notin contested' => Resting(c.exe) /\ c.exe \notin contested
  BY <1>1 DEF Resting
<1>6. contested \subseteq contested'
  BY <1>1
<1>7. Alone'
  BY <1>2, <1>4, <1>5, <1>6 DEF Alone, Resting, HoldInv
<1>9. HoldersRecord'
  <2> SUFFICES ASSUME NEW q \in Request, Held(q)', call'[q].exe \notin contested'
               PROVE  HolderRecords(call[q])'
    BY DEF HoldersRecord
  <2>1. CASE q = r
    <3>1. HolderRecords(c) /\ call'[q] = c
      BY <1>2, <1>5, <2>1
    <3> QED
      BY <1>1, <3>1 DEF HolderRecords
  <2>2. CASE q # r
    <3>1. HolderRecords(call[q]) /\ call'[q] = call[q]
      BY <1>2, <1>4, <1>6, <2>2 DEF HoldersRecord, HoldInv
    <3> QED
      BY <1>1, <3>1 DEF HolderRecords
  <2> QED
    BY <2>1, <2>2
<1>10. RowsRecord'
  <2> SUFFICES ASSUME NEW e \in Exe \ contested', row' # NoRow, Resting(e)'
               PROVE  IF stored[e] = NoRow THEN outbox[e] = << >> ELSE Records(stored[e].log, outbox[e])
    BY <1>1 DEF RowsRecord
  <2>1. Resting(e)
    BY <1>1, <1>2, <1>4 DEF Resting
  <2> QED
    BY <1>1, <1>6, <2>1 DEF RowsRecord, HoldInv
<1> QED
  BY <1>7, <1>9, <1>10 DEF HoldInv

LEMMA WalkOnHolds ==
  ASSUME BuilderInv, HoldInv, NEW r \in Request, WalkOn(r)
  PROVE  HoldInv'
<1> DEFINE c == call[r]
           e == call[r].exe
<1>1. /\ BuilderTypeOK /\ Held(r) /\ c \in Call /\ e \in Exe /\ c.x \in Execution
  BY CallFacts DEF WalkOn, BuilderInv
<1>2. PICK y \in Execution :
        /\ Moves(r, y) /\ Held(r)
        /\ \/ Stops(call[r].x, y) /\ UNCHANGED outbox
           \/ \E run \in NodeRun :
                /\ VisitsNode(call[r].def, call[r].x, y, run)
                /\ IF IsSend(run) THEN outbox' = [outbox EXCEPT ![call[r].exe] = Append(@, run.by)]
                   ELSE UNCHANGED outbox
  BY <1>1, WalkOnEffect
<1> DEFINE d == [c EXCEPT !.x = y]
<1>3. d.x = y /\ d.exe = e /\ d.kind = c.kind
  BY <1>1 DEF Call
<1>4. call' = [call EXCEPT ![r] = d] /\ UNCHANGED <<row, readOnly, stored, contested, calls, deaths>>
  BY <1>2 DEF Moves
<1> HIDE DEF d
<1>5. /\ \A q \in Request : call'[q] = IF q = r THEN d ELSE call[q]
      /\ \A q \in Request : call'[q].exe = call[q].exe /\ call'[q].kind = call[q].kind
  BY <1>1, <1>3, <1>4 DEF BuilderTypeOK
<1>6. Records(c.x.log, outbox[e]) => Records(y.log, outbox'[e])
  <2>1. c.x.log \in Seq(NodeRun) /\ outbox[e] \in Seq(Approver)
    BY <1>1, ExecutionFacts, BuilderTypes
  <2>2. ASSUME NEW run \in NodeRun, VisitsNode(c.def, c.x, y, run), IsSend(run),
               outbox' = [outbox EXCEPT ![e] = Append(@, run.by)], Records(c.x.log, outbox[e])
        PROVE  Records(y.log, outbox'[e])
    <3>1. outbox'[e] = Append(outbox[e], run.by)
      BY <1>1, <2>2, BuilderTypes
    <3> QED
      BY <2>1, <2>2, <3>1, RecordsAppend DEF VisitsNode
  <2>3. ASSUME NEW run \in NodeRun, VisitsNode(c.def, c.x, y, run), ~IsSend(run),
               UNCHANGED outbox, Records(c.x.log, outbox[e])
        PROVE  Records(y.log, outbox'[e])
    BY <2>1, <2>3, RecordsAppend DEF VisitsNode
  <2> QED
    BY <1>2, <2>2, <2>3 DEF Stops
<1>7. \A f \in Exe : f # e => outbox'[f] = outbox[f]
  BY <1>1, <1>2, BuilderTypes
<1>8. \A q \in Request : Held(q)' <=> Held(q)
  BY <1>5 DEF Held
<1>9. Alone'
  BY <1>4, <1>5, <1>8 DEF Alone, HoldInv
<1>10. HoldersRecord'
  <2> SUFFICES ASSUME NEW q \in Request, Held(q), call[q].exe \notin contested
               PROVE  HolderRecords(call[q])'
    BY <1>4, <1>5, <1>8 DEF HoldersRecord
  <2>1. HolderRecords(call[q]) /\ call[q].exe \in Exe
    BY <1>1, CallFacts DEF HoldersRecord, HoldInv
  <2>2. CASE q = r
    BY <1>3, <1>4, <1>5, <1>6, <2>1, <2>2 DEF HolderRecords
  <2>3. CASE q # r
    <3>1. call[q].exe # e /\ call'[q] = call[q]
      BY <1>1, <1>5, <2>3 DEF Alone, HoldInv
    <3> QED
      BY <1>4, <1>7, <2>1, <3>1 DEF HolderRecords
  <2> QED
    BY <2>2, <2>3
<1>11. RowsRecord'
  <2> SUFFICES ASSUME NEW f \in Exe \ contested, row # NoRow, Resting(f)
               PROVE  IF stored[f] = NoRow THEN outbox'[f] = << >> ELSE Records(stored[f].log, outbox'[f])
    BY <1>4, <1>5, <1>8 DEF RowsRecord, Resting
  <2>1. f # e
    BY <1>1 DEF Resting
  <2> QED
    BY <1>7, <2>1 DEF RowsRecord, HoldInv
<1> QED
  BY <1>9, <1>10, <1>11 DEF HoldInv

(* A request gives its execution up, after storing it or not.              *)
LEMMA CommitHolds ==
  ASSUME BuilderInv, HoldInv, NEW r \in Request, Commit(r)
  PROVE  /\ HoldInv'
         /\ \A e \in Exe \ contested : row # NoRow /\ stored[e] # NoRow /\ Over(stored[e]) =>
              stored'[e] = stored[e]
<1> DEFINE c == call[r]
           e == call[r].exe
           lands == IF c.kind = "run" THEN row # NoRow ELSE stored[e] # NoRow
<1>1. /\ BuilderTypeOK /\ Held(r) /\ c \in Call /\ e \in Exe /\ c.x \in Execution /\ c.kind \in {"run", "resume"}
  BY CallFacts DEF Commit, BuilderInv
<1>2. /\ stored' = IF lands THEN [stored EXCEPT ![e] = c.x] ELSE stored
      /\ call' = [call EXCEPT ![r] = Idle]
      /\ UNCHANGED <<row, readOnly, outbox, contested, calls, deaths>>
  BY DEF Commit
<1>3. /\ \A q \in Request : q # r => call'[q] = call[q]
      /\ \A q \in Request : Held(q)' <=> q # r /\ Held(q)
  BY <1>1, <1>2 DEF BuilderTypeOK, Held, Idle
<1>4. \A f \in Exe : f # e => stored'[f] = stored[f]
  BY <1>1, <1>2 DEF BuilderTypeOK
<1>5. Alone'
  BY <1>2, <1>3 DEF Alone, HoldInv
<1>6. HoldersRecord'
  <2> SUFFICES ASSUME NEW q \in Request, q # r, Held(q), call[q].exe \notin contested
               PROVE  HolderRecords(call[q])'
    BY <1>2, <1>3 DEF HoldersRecord
  <2>1. HolderRecords(call[q]) /\ call[q].exe \in Exe
    BY <1>1, CallFacts DEF HoldersRecord, HoldInv
  <2>2. call[q].exe # e
    BY <1>1 DEF Alone, HoldInv
  <2> QED
    BY <1>2, <1>3, <1>4, <2>1, <2>2 DEF HolderRecords
<1>7. ASSUME e \notin contested, row # NoRow
      PROVE  /\ stored'[e] = c.x /\ c.x # NoRow /\ Records(c.x.log, outbox[e])
             /\ stored[e] # NoRow => stored[e].status = "awaiting_approval"
  <2>1. HolderRecords(c)
    BY <1>1, <1>7 DEF HoldersRecord, HoldInv
  <2>2. lands
    BY <1>1, <1>7, <2>1 DEF HolderRecords
  <2>3. c.x # NoRow
    BY <1>1, BuilderAssumption
  <2> QED
    BY <1>1, <1>2, <1>7, <2>1, <2>2, <2>3 DEF HolderRecords, BuilderTypeOK
<1>8. RowsRecord'
  <2> SUFFICES ASSUME NEW f \in Exe \ contested, row # NoRow, Resting(f)'
               PROVE  IF stored'[f] = NoRow THEN outbox[f] = << >> ELSE Records(stored'[f].log, outbox[f])
    BY <1>2 DEF RowsRecord
  <2>1. CASE f = e
    BY <1>7, <2>1
  <2>2. CASE f # e
    <3>1. Resting(f)
      BY <1>3, <2>2 DEF Resting
    <3> QED
      BY <1>4, <2>2, <3>1 DEF RowsRecord, HoldInv
  <2> QED
    BY <2>1, <2>2
<1>9. ASSUME NEW f \in Exe \ contested, row # NoRow, stored[f] # NoRow, Over(stored[f])
      PROVE  stored'[f] = stored[f]
  BY <1>4, <1>7, <1>9 DEF Over
<1> QED
  BY <1>5, <1>6, <1>8, <1>9 DEF HoldInv

LEMMA HoldStep ==
  ASSUME BuilderInv, HoldInv, [BuilderNext]_builderVars
  PROVE  /\ HoldInv'
         /\ FinalIn(Exe \ contested)
<1> DEFINE Goal == HoldInv' /\ FinalIn(Exe \ contested)
<1>0. row = NoRow => row' = NoRow
  BY DEF BuilderNext, builderVars, Save, Delete, BeginRun, BeginResume, WalkOn, Advance, Commit, Die
<1>1. ASSUME UNCHANGED stored PROVE FinalIn(Exe \ contested)
  BY <1>1 DEF FinalIn
<1>2. ASSUME NEW w \in Edited, Save(w) PROVE Goal
  <2>1. /\ row # NoRow /\ UNCHANGED <<stored, call, outbox, contested>>
    BY <1>2 DEF Save
  <2>2. Alone' /\ HoldersRecord' /\ RowsRecord'
    BY <2>1 DEF HoldInv, Alone, HoldersRecord, HolderRecords, RowsRecord, Resting, Held
  <2> QED
    BY <1>1, <2>1, <2>2 DEF HoldInv
<1>3. CASE Delete
  <2>1. /\ row' = NoRow /\ stored' = [e \in Exe |-> NoRow] /\ UNCHANGED <<call, outbox, contested>>
    BY <1>3 DEF Delete
  <2>2. \A r \in Request : Held(r) => call[r].exe \in Exe
    BY CallFacts DEF BuilderInv
  <2>3. Alone' /\ HoldersRecord' /\ RowsRecord'
    BY <2>1, <2>2 DEF HoldInv, Alone, HoldersRecord, HolderRecords, RowsRecord, Held
  <2> QED
    BY <2>1, <2>3 DEF HoldInv, FinalIn
<1>4. ASSUME NEW r \in Request, NEW e \in Exe, BeginRun(r, e) PROVE Goal
  <2>1. PICK c \in Call :
          /\ c.kind = "run" /\ c.exe = e /\ c.x.log = << >> /\ c.x.status = "running"
          /\ Begin(r, c) /\ Safe(c.x) /\ OnPath(c.def, c.x) /\ row # NoRow /\ Unused(e)
    BY <1>4, RunBegins
  <2>2. HolderRecords(c)
    BY <2>1, NothingSent DEF HolderRecords, Unused
  <2>3. UNCHANGED stored
    BY <2>1 DEF Begin
  <2> QED
    BY <1>1, <2>1, <2>2, <2>3, BeginHolds
<1>5. ASSUME NEW r \in Request, NEW e \in Exe, NEW who \in Approver, NEW yes \in BOOLEAN,
             BeginResume(r, e, who, yes)
      PROVE  Goal
  <2>1. PICK c \in Call, run \in NodeRun :
           /\ c.kind = "resume" /\ c.exe = e /\ c.x.log = Append(stored[e].log, run)
           /\ run.decision # "none"
           /\ Begin(r, c) /\ Safe(c.x) /\ OnPath(c.def, c.x)
           /\ row # NoRow /\ stored[e] # NoRow /\ stored[e].status = "awaiting_approval"
    BY <1>5, ResumeBegins
  <2>2. ASSUME Resting(e), e \notin contested PROVE HolderRecords(c)
    <3>1. Records(stored[e].log, outbox[e])
      BY <2>1, <2>2 DEF RowsRecord, HoldInv
    <3>2. stored[e].log \in Seq(NodeRun) /\ outbox[e] \in Seq(Approver)
      BY <2>1, ExecutionFacts, BuilderTypes DEF BuilderInv
    <3>3. ~IsSend(run)
      BY <2>1 DEF IsSend
    <3>4. Records(c.x.log, outbox[e])
      BY <2>1, <3>1, <3>2, <3>3, RecordsAppend
    <3> QED
      BY <2>1, <3>4 DEF HolderRecords
  <2>3. UNCHANGED stored
    BY <2>1 DEF Begin
  <2> QED
    BY <1>1, <2>1, <2>2, <2>3, BeginHolds
<1>6. ASSUME NEW r \in Request, WalkOn(r) PROVE Goal
  <2>1. UNCHANGED stored
    BY <1>6 DEF WalkOn, Advance
  <2> QED
    BY <1>1, <1>6, <2>1, WalkOnHolds
<1>7. ASSUME NEW r \in Request, Commit(r) PROVE Goal
  <2>1. FinalIn(Exe \ contested)
    BY <1>0, <1>7, CommitHolds DEF FinalIn
  <2> QED
    BY <1>7, <2>1, CommitHolds
<1>8. ASSUME NEW r \in Request, Die(r) PROVE Goal
  <2>1. /\ Held(r) /\ call[r].exe \in Exe /\ call' = [call EXCEPT ![r] = Idle]
        /\ contested' = contested \cup {call[r].exe}
        /\ UNCHANGED <<row, stored, outbox>>
    BY <1>8, CallFacts DEF Die, BuilderInv
  <2>2. /\ \A q \in Request : q # r => call'[q] = call[q]
        /\ \A q \in Request : Held(q)' <=> q # r /\ Held(q)
    BY <2>1 DEF BuilderInv, BuilderTypeOK, Held, Idle
  <2>3. Alone'
    BY <2>1, <2>2 DEF Alone, HoldInv
  <2>4. HoldersRecord'
    BY <2>1, <2>2 DEF HoldersRecord, HolderRecords, HoldInv
  <2>5. RowsRecord'
    <3> SUFFICES ASSUME NEW e \in Exe \ contested', row # NoRow, Resting(e)'
                 PROVE  IF stored[e] = NoRow THEN outbox[e] = << >> ELSE Records(stored[e].log, outbox[e])
      BY <2>1 DEF RowsRecord
    <3>1. Resting(e)
      BY <2>1, <2>2 DEF Resting
    <3> QED
      BY <2>1, <3>1 DEF RowsRecord, HoldInv
  <2> QED
    BY <1>1, <2>1, <2>3, <2>4, <2>5 DEF HoldInv
<1>9. CASE UNCHANGED builderVars
  <2>1. UNCHANGED <<row, stored, call, outbox, contested>>
    BY <1>9 DEF builderVars
  <2>2. Alone' /\ HoldersRecord' /\ RowsRecord'
    BY <2>1 DEF HoldInv, Alone, HoldersRecord, HolderRecords, RowsRecord, Resting, Held
  <2> QED
    BY <1>1, <2>1, <2>2 DEF HoldInv
<1> QED
  BY <1>2, <1>3, <1>4, <1>5, <1>6, <1>7, <1>8, <1>9 DEF BuilderNext

LEMMA HoldBegins == BuilderInit => HoldInv
<1> SUFFICES ASSUME BuilderInit PROVE HoldInv
  OBVIOUS
<1>1. \A r \in Request : ~Held(r)
  BY DEF BuilderInit, Held, Idle
<1> QED
  BY <1>1 DEF BuilderInit, HoldInv, Alone, HoldersRecord, RowsRecord

(* For any number of requests and executions: every message that left for  *)
(* an uncontested execution is in its log, in the order they left.         *)
THEOREM SendsStayLogged == BuilderSpec => []SendsAreLogged
<1>1. BuilderInv /\ HoldInv /\ [BuilderNext]_builderVars => HoldInv'
  BY HoldStep
<1>2. BuilderInv /\ HoldInv => SendsAreLogged
  <2> SUFFICES ASSUME BuilderInv, HoldInv, NEW e \in Exe \ contested,
                      row # NoRow, outbox[e] # << >>, Resting(e)
               PROVE  stored[e] # NoRow /\ Records(stored[e].log, outbox[e])
    BY DEF SendsAreLogged, Resting
  <2> QED
    BY DEF HoldInv, RowsRecord
<1> QED
  BY <1>1, <1>2, HoldBegins, BuilderInvariant, PTL DEF BuilderSpec

(* For any number of requests and executions: a finished execution that    *)
(* nobody contested is never changed while its workflow is there.          *)
THEOREM FinishedStaysFinished == BuilderSpec => UncontestedIsFinal
<1>1. BuilderInv /\ HoldInv /\ [BuilderNext]_builderVars => HoldInv'
  BY HoldStep
<1>2. BuilderInv /\ HoldInv /\ [BuilderNext]_builderVars => [FinalIn(Exe \ contested)]_stored
  BY HoldStep
<1> QED
  BY <1>1, <1>2, HoldBegins, BuilderInvariant, PTL DEF BuilderSpec, UncontestedIsFinal
=============================================================================
