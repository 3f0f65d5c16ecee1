----------------------------- MODULE LoopSearch -----------------------------
(***************************************************************************)
(* The depth-first search of has_loop (validation.py).  The recursion of   *)
(* `walk` is a stack of frames; a frame holds the node and the links it    *)
(* has still to try, next_id before next_id_if_false.                      *)
(***************************************************************************)
EXTENDS CheckedWorkflow, Sequences, SequencesExt

VARIABLES stack, visiting, done,
          answer     \* "searching", "loop" or "no_loop"

loopVars == <<stack, visiting, done, answer>>

Link1(m) == IF m \in {NoNode, EmptyId} THEN << >> ELSE <<m>>
LinksOf(w, n) == Link1(w.next[n]) \o Link1(w.alt[n])

Frame == [node : Node, left : Seq(Node)]

Top == Last(stack)
Below == Front(stack)
Enter(w, n) == [node |-> n, left |-> LinksOf(w, n)]

LoopInit ==
  /\ workflow \in Workflows
  /\ done = {}
  /\ answer = IF workflow.start \in Start(workflow) \cap workflow.nodes
              THEN "searching" ELSE "no_loop"
  /\ visiting = IF answer = "searching" THEN {workflow.start} ELSE {}
  /\ stack = IF answer = "searching"
             THEN << Enter(workflow, workflow.start) >> ELSE << >>

(* walk(n) for the next link of the top frame.                             *)
Searching == answer = "searching"
Target == Head(Top.left)
Advanced == Append(Below, [Top EXCEPT !.left = Tail(@)])
HasTarget == Searching /\ Top.left # << >>

FindLoop ==
  /\ HasTarget /\ Target \in visiting
  /\ answer' = "loop"
  /\ UNCHANGED <<workflow, stack, visiting, done>>

SkipLink ==
  /\ HasTarget /\ Target \notin visiting
  /\ Target \in done \/ Target \notin workflow.nodes
  /\ stack' = Advanced
  /\ UNCHANGED <<workflow, visiting, done, answer>>

Descend ==
  /\ HasTarget
  /\ Target \in workflow.nodes \ (visiting \cup done)
  /\ stack' = Append(Advanced, Enter(workflow, Target))
  /\ visiting' = visiting \cup {Target}
  /\ UNCHANGED <<workflow, done, answer>>

(* Mutant: a node stays on the path after its call returned.               *)
ReturnStillVisiting ==
  /\ Searching /\ Top.left = << >>
  /\ stack' = Below
  /\ answer' = IF Below = << >> THEN "no_loop" ELSE answer
  /\ UNCHANGED <<workflow, visiting, done>>

Return ==
  /\ Searching /\ Top.left = << >>
  /\ visiting' = visiting \ {Top.node}
  /\ done' = done \cup {Top.node}
  /\ stack' = Below
  /\ answer' = IF Below = << >> THEN "no_loop" ELSE answer
  /\ UNCHANGED workflow

LoopNext == FindLoop \/ SkipLink \/ Descend \/ Return

LoopSpec == LoopInit /\ [][LoopNext]_<<workflow, loopVars>>

-----------------------------------------------------------------------------
(* The answer is right both ways: "loop" only for a definition that can    *)
(* revisit a node it reaches, "no_loop" only for one that cannot, along    *)
(* the links the checks go.                                                *)
LoopIsExact ==
  /\ answer = "loop" => HasLoop(workflow)
  /\ answer = "no_loop" => ~ HasLoop(workflow)
=============================================================================
