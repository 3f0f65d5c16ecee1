------------------------------- MODULE MCTables -------------------------------
EXTENDS Analytics

Column(name, label, dtype, hints) ==
  [name |-> name, label |-> label, dtype |-> dtype, hints |-> hints, rate |-> name = 3]
Axis == Column(1, "day", "object", {"date"})
Cell(day, format) == [day |-> day, format |-> format]

Dates == {Missing} \cup {Cell(d, "iso") : d \in {1, 2, 7, 8}} \cup {Cell(2, "other")}

Short ==
  {[columns |-> <<Axis, Column(2, "m2", "number", {})>>, rows |-> [i \in 1..3 |-> <<day[i], value[i]>>]] :
     day \in [1..3 -> Dates], value \in [1..3 -> {Missing, 0, 3}]}

Long ==
  {[columns |-> <<Axis, Column(2, "m2", "number", {})>>,
    rows |-> [i \in 1..n |-> <<Cell(i, "iso"), value[i]>>]] :
     n \in {7, 8}, value \in [1..8 -> {0, 9}]}

Wide ==
  {[columns |-> <<Column(1, "day", dtype, {}), Column(2, "m2", "number", {}),
                  Column(3, label, "number", {}), Column(4, "m4", "number", {"id"})>>,
    rows |-> [i \in 1..n |-> <<Cell(i, "iso"), 1, value[i], value[i]>>]] :
     n \in 0..2, dtype \in {"date", "object"}, label \in {"m2", "m3"}, value \in [1..2 -> {1, -1}]}

MCTables == Short \cup Long \cup Wide
=============================================================================
