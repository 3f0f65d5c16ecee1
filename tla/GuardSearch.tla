---------------------------- MODULE GuardSearch -----------------------------
(***************************************************************************)
(* The breadth-first search of unguarded_high_risk_nodes (validation.py).  *)
(* It explores pairs of a node and "an approval was met on the way", each  *)
(* pair once.  The order of the deque does not show in the result, so any  *)
(* pending pair may be taken next.                                         *)
(***************************************************************************)
EXTENDS CheckedWorkflow

VARIABLES pending,    \* the deque
          seen,
          unguarded

guardVars == <<pending, seen, unguarded>>

Pair == Node \X BOOLEAN

GuardTypeOK ==
  /\ workflow \in Workflows
  /\ pending \subseteq seen
  /\ seen \subseteq Pair
  /\ unguarded \subseteq Node

StartPairs(w) == Start(w) \X {FALSE}

PairSucc(w, p) ==
  Succ(w, p[1]) \X {p[2] \/ (p[1] \in w.nodes /\ w.type[p[1]] = "human_approval")}

(* Mutant: the first pair is queued and not marked as seen.                *)
GuardInitUnmarked ==
  /\ workflow \in Workflows
  /\ pending = StartPairs(workflow)
  /\ seen = {}
  /\ unguarded = {}

GuardInit ==
  /\ workflow \in Workflows
  /\ pending = StartPairs(workflow)
  /\ seen = StartPairs(workflow)
  /\ unguarded = {}

Found(w, p) == {n \in {p[1]} \cap w.nodes : w.type[n] \in HighRisk /\ ~p[2]}

(* Mutants: nodes instead of pairs are visited once; nothing is.           *)
VisitNodesOnce(p) ==
  /\ p \in pending
  /\ unguarded' = unguarded \cup Found(workflow, p)
  /\ LET fresh == {q \in PairSucc(workflow, p) : \A b \in BOOLEAN : <<q[1], b>> \notin seen}
     IN pending' = (pending \ {p}) \cup fresh /\ seen' = seen \cup fresh
  /\ UNCHANGED workflow

VisitAgain(p) ==
  /\ p \in pending
  /\ unguarded' = unguarded \cup Found(workflow, p)
  /\ pending' = (pending \ {p}) \cup PairSucc(workflow, p)
  /\ seen' = seen \cup PairSucc(workflow, p)
  /\ UNCHANGED workflow

Visit(p) ==
  /\ p \in pending
  /\ unguarded' = unguarded \cup Found(workflow, p)
  /\ pending' = (pending \ {p}) \cup (PairSucc(workflow, p) \ seen)
  /\ seen' = seen \cup PairSucc(workflow, p)
  /\ UNCHANGED workflow

GuardNext == \E p \in Pair : Visit(p)

GuardSpec == GuardInit /\ [][GuardNext]_<<workflow, guardVars>>

-----------------------------------------------------------------------------
(* Correct result: when the queue is empty the search has found exactly    *)
(* the high-risk nodes some route reaches without meeting an approval      *)
(* ("One unguarded route is enough to make it unsafe"), links to the empty *)
(* id, which the search drops, apart.                                      *)
GuardIsExact == pending = {} => unguarded = Unguarded(workflow)
=============================================================================
