------------------------------ MODULE Sessions ------------------------------
(***************************************************************************)
(* How the unit of work of a request writes a row (session_scope in        *)
(* packages/database): a row once loaded is not refreshed by a later       *)
(* select, the flush updates the columns whose value differs from the one  *)
(* loaded, and the database applies them to the row as it is by then.      *)
(***************************************************************************)

(* Mutant: every column is written.                                        *)
EveryColumn(old, new, now) == new

Written(old, new, now) == [k \in DOMAIN now |-> IF new[k] # old[k] THEN new[k] ELSE now[k]]
=============================================================================
