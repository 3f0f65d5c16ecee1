----------------------------- MODULE MCTracker ------------------------------
EXTENDS Tracker, TLC
CONSTANTS t1, t2, t3, r1, r2, a1, a2, a3, green, red

(* Two answers argue for one health.                                       *)
MCHealthOf == [a \in Answer |-> IF a = a2 THEN red ELSE green]

(* Tasks are interchangeable, and so are requests.                         *)
Same == Permutations(Task) \cup Permutations(Request)
=============================================================================
