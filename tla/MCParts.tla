------------------------------- MODULE MCParts --------------------------------
EXTENDS Parts, MCValidation, MCTables, TLC
CONSTANTS q1, q2, v1, v2, k1, k2, k3

(* Two analyses that agree in their anomalies and trends but not in their  *)
(* rows, and one that differs in the last anomaly the model is shown.      *)
Analysed(anomalies, rest) ==
  [dataset |-> "d", trends |-> "t", anomalies |-> anomalies, rest |-> rest]

MCAnalyses ==
  {Analysed(<<1, 2, 3, 4, 5, 6, 7, 8>>, 1), Analysed(<<1, 2, 3, 4, 5, 6, 7, 8>>, 2),
   Analysed(<<1, 2, 3, 4, 5, 6, 7, 9>>, 1)}

MCVersions == {[purpose |-> lines] : lines \in UNION {[1..n -> {"a", "b", Blank}] : n \in 0..4}}

(* Each way to start: without a database, on one whose tables are created, *)
(* and on one left alone.                                                  *)
MCSettings ==
  {[url |-> "none", auto |-> TRUE, allow |-> FALSE],
   [url |-> "local", auto |-> TRUE, allow |-> FALSE],
   [url |-> "remote", auto |-> TRUE, allow |-> FALSE]}

Symmetric == Permutations(Client)
=============================================================================
