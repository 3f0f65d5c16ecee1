---------------------------- MODULE MCValidation ----------------------------
(* All links between two nodes and a dangling target or three nodes; all   *)
(* types with one branch; and all ways to link four nodes that end in an   *)
(* email: four are needed for a guarded and an unguarded route of          *)
(* different lengths to meet in one node; and all links among two nodes    *)
(* and n0, the one with the empty id.                                      *)
EXTENDS Validation
CONSTANTS n1, n2, n3, n4, n0

Kinds == {"trigger", "human_approval", "email"}
Inner == {n1, n2, n3, NoNode}
Named == Node \ {n0}
Only(f, g) == [n \in Node |-> IF n \in DOMAIN f THEN f[n] ELSE g]
Links == {Only(f, NoNode) : f \in [{n1, n2, n3} -> Inner]}
Plain == [n \in Node |-> "trigger"]
NoLinks == [n \in Node |-> NoNode]

AllLinks ==
  {w \in [nodes : {{n1, n2}, {n1, n2, n3}}, start : {n1, n3, NoNode},
          type : {Plain}, next : Links, alt : Links] : Canonical(w, "trigger")}

AllTypes ==
  {w \in [nodes : {{n1, n2, n3}}, start : {n1}, next : Links,
          type : {Only(t, "trigger") : t \in [{n1, n2, n3} -> Kinds]},
          alt : {[NoLinks EXCEPT ![n1] = m] : m \in Inner}] : TRUE}

Four ==
  {[nodes |-> Named, start |-> n1, next |-> Only(next, NoNode),
    type |-> [Only(type, "trigger") EXCEPT ![n4] = "email"],
    alt |-> [NoLinks EXCEPT ![n1] = branch]] :
     next \in [{n1, n2, n3} -> Named \cup {NoNode}], branch \in {n2, n3},
     type \in [{n2, n3} -> Kinds]}

Empty ==
  {[nodes |-> {n1, n2, n0}, start |-> start, next |-> Only(next, NoNode),
    type |-> [Plain EXCEPT ![n2] = type, ![n0] = "email"],
    alt |-> [NoLinks EXCEPT ![n1] = branch]] :
     start \in {n1, n0}, type \in {"human_approval", "email"},
     next \in [{n1, n2, n0} -> {n1, n2, n0, NoNode}], branch \in {n2, n0, NoNode}}

SomeWorkflows == AllLinks \cup AllTypes \cup Four \cup Empty
=============================================================================
