---------------------------- MODULE MCTravelOps -----------------------------
EXTENDS TravelOps, TLC
CONSTANTS c1, c2, c3, p1, p2, b1, b2, r1, r2
=============================================================================
