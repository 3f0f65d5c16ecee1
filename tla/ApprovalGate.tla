---------------------------- MODULE ApprovalGate ----------------------------
(***************************************************************************)
(* What the workflow engine promises about acts that reach the outside     *)
(* world: none before a person has said yes, and none after a person has   *)
(* said no.  How the definition is walked does not matter here.            *)
(***************************************************************************)
VARIABLES phase,      \* "open", "granted" or "refused"
          performed   \* the acts attempted so far

gate == <<phase, performed>>

GateInit == phase = "open" /\ performed = {}

Grant ==
  /\ phase = "open"
  /\ phase' = "granted"
  /\ UNCHANGED performed

Refuse ==
  /\ phase # "refused"
  /\ phase' = "refused"
  /\ UNCHANGED performed

Perform ==
  /\ phase = "granted"
  /\ performed \subseteq performed'
  /\ UNCHANGED phase

GateNext == Grant \/ Refuse \/ Perform

GateSpec == GateInit /\ [][GateNext]_gate
=============================================================================
