------------------------------ MODULE MCInbox -------------------------------
EXTENDS Inbox
CONSTANTS t1, t2, p1, p2, r1, r2, a1, a2, a3, k1, k2

(* Two answers argue for one category: a column may keep its value from     *)
(* one reading to the next.                                                *)
MCCategoryOf == [a \in Answer |-> IF a = a2 THEN k2 ELSE k1]
=============================================================================
