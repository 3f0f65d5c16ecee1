---------------------------- MODULE MCRecording -----------------------------
EXTENDS Recording
CONSTANTS i1, i2, v1, m1, m2, m3

(* The first fallback is the default model itself.                         *)
MCFallbacks == <<m1, m2>>
MCItems == <<i1, i2>>
=============================================================================
