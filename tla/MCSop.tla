------------------------------- MODULE MCSop --------------------------------
EXTENDS Sop, TLC
CONSTANTS t1, t2, c1, c2, c3, c4, r1, r2, s1, s2

(* Forms with one of two titles, and one that leaves it blank.             *)
MCTitleOf == [c \in Content |-> IF c \in {c1, c2} THEN t1 ELSE IF c = c3 THEN t2 ELSE Blank]

MCSymmetry == Permutations(Request) \cup Permutations(Sop)
=============================================================================
