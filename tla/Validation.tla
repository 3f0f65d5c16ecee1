----------------------------- MODULE Validation -----------------------------
(***************************************************************************)
(* validate_workflow (validation.py): the checks on the links, then the    *)
(* depth-first search for a loop, then the breadth-first search for        *)
(* unguarded high-risk nodes, each adding to one list of issues.           *)
(***************************************************************************)
EXTENDS LoopSearch, GuardSearch

VARIABLES phase, issues

vars == <<workflow, loopVars, guardVars, phase, issues>>

Init == LoopInit /\ GuardInit /\ phase = "links" /\ issues = {}

CheckLinks ==
  /\ phase = "links" /\ phase' = "loop"
  /\ issues' = {i \in {"no_start_node", "start_node_missing", "dangling_next"} :
                  \/ i = "no_start_node" /\ Start(workflow) = {}
                  \/ i = "start_node_missing" /\ ~ Start(workflow) \subseteq workflow.nodes
                  \/ /\ i = "dangling_next"
                     /\ \E n \in workflow.nodes : ~ Succ(workflow, n) \subseteq workflow.nodes}
  /\ UNCHANGED <<workflow, loopVars, guardVars>>

SearchLoop ==
  /\ phase = "loop" /\ LoopNext
  /\ UNCHANGED <<guardVars, phase, issues>>

ReportLoop ==
  /\ phase = "loop" /\ answer # "searching"
  /\ phase' = "unguarded"
  /\ issues' = issues \cup (IF answer = "loop" THEN {"loop"} ELSE {})
  /\ UNCHANGED <<workflow, loopVars, guardVars>>

SearchUnguarded ==
  /\ phase = "unguarded" /\ GuardNext
  /\ UNCHANGED <<loopVars, phase, issues>>

ReportUnguarded ==
  /\ phase = "unguarded" /\ pending = {}
  /\ phase' = "done"
  /\ issues' = issues \cup (IF unguarded # {} THEN {"unguarded_high_risk"} ELSE {})
  /\ UNCHANGED <<workflow, loopVars, guardVars>>

Next == CheckLinks \/ SearchLoop \/ ReportLoop \/ SearchUnguarded \/ ReportUnguarded

Spec == Init /\ [][Next]_vars
=============================================================================
