---------------------------- MODULE WorkflowDefs ----------------------------
(***************************************************************************)
(* Workflow definitions and the static checks on them                      *)
(* (services/workflow-engine, types.py and validation.py).                 *)
(*                                                                         *)
(* A definition is a record of functions over Node.  `nodes` says which    *)
(* nodes the definition holds: a link to a node outside it dangles.        *)
(* Labels, ids of workflows and node settings carry no control and are     *)
(* left out.                                                               *)
(***************************************************************************)
EXTENDS FiniteSets

CONSTANTS Node,     \* identifiers a definition may use or mention
          NoNode,   \* the value None of next_id, next_id_if_false, start
          EmptyId   \* the identifier "": an id may be empty, a link lead to it

ASSUME NoNodeAssumption == NoNode \notin Node /\ EmptyId # NoNode

NodeType ==
  {"trigger", "ai_classification", "ai_extraction", "ai_summarization",
   "ai_generation", "condition", "transform", "email", "webhook",
   "database", "notification", "human_approval"}

HighRisk == {"email", "webhook", "database"}

Link == Node \cup {NoNode}

Workflow == [nodes : SUBSET Node, start : Link, type : [Node -> NodeType],
             next : [Node -> Link], alt : [Node -> Link]]

CONSTANT Workflows   \* the definitions that may be stored or passed

ASSUME WorkflowsAssumption == Workflows \subseteq Workflow

(* A definition is a document.                                             *)
ASSUME FiniteAssumption == \A w \in Workflows : IsFiniteSet(w.nodes)

(* Where the engine may go from a node: it takes a link that is not None,  *)
(* the second one only out of a condition.                                 *)
Follow(w, n) == IF n \in w.nodes THEN {w.next[n], w.alt[n]} \ {NoNode} ELSE {}

(* Where the checks go: along both links of every type of node, but for a  *)
(* link to the empty id, which is as false to them as None.                *)
Succ(w, n) == Follow(w, n) \ {EmptyId}

(* The nodes reached from `roots` along `step`: the least set that holds   *)
(* the roots and is closed under the steps.                                *)
ClosedSet(S, roots, step) == roots \subseteq S /\ \A n \in S : step[n] \subseteq S

Closure(roots, step) ==
  {m \in Node : \A S \in SUBSET Node : ClosedSet(S, roots, step) => m \in S}

Start(w) == {w.start} \ {NoNode, EmptyId}

FromStart(w) == Closure(Start(w), [n \in Node |-> Succ(w, n)])

After(w, n) == Closure(Succ(w, n), [m \in Node |-> Succ(w, m)])

(* Mutant: the second branch of a condition is not looked at.              *)
OpenNext(w, n) ==
  IF n \in w.nodes /\ w.type[n] # "human_approval"
  THEN {w.next[n]} \ {NoNode, EmptyId} ELSE {}

(* Nodes reached along some route that meets no approval before them.      *)
OpenSucc(w, n) ==
  IF n \in w.nodes /\ w.type[n] = "human_approval" THEN {} ELSE Succ(w, n)

Exposed(w) == Closure(Start(w), [n \in Node |-> OpenSucc(w, n)])

Unguarded(w) == {n \in w.nodes : w.type[n] \in HighRisk /\ n \in Exposed(w)}

HasLoop(w) == \E n \in FromStart(w) : n \in After(w, n)

BlockingIssues(w) ==
     (IF Start(w) = {} THEN {"no_start_node"} ELSE {})
  \cup (IF ~ Start(w) \subseteq w.nodes THEN {"start_node_missing"} ELSE {})
  \cup (IF \E n \in w.nodes : ~ Succ(w, n) \subseteq w.nodes
        THEN {"dangling_next"} ELSE {})
  \cup (IF HasLoop(w) THEN {"loop"} ELSE {})
  \cup (IF Unguarded(w) # {} THEN {"unguarded_high_risk"} ELSE {})

(* Definitions that differ only in a node they do not hold are the same    *)
(* document; this picks one of them.                                       *)
Canonical(w, filler) ==
  \A n \in Node \ w.nodes : w.type[n] = filler /\ w.next[n] = NoNode /\ w.alt[n] = NoNode
=============================================================================
