---------------------------- MODULE SerialSaves -----------------------------
(***************************************************************************)
(* What the SOP library promises whoever saves a procedure: a save takes   *)
(* effect at once, as if it were alone.  It adds the next version and      *)
(* leaves every other as it is, and the procedure then bears its title.    *)
(***************************************************************************)
EXTENDS Naturals, FiniteSets

CONSTANTS Sop, Content, TitleOf, Blank, NoRow

VARIABLES sop,       \* the sops table
          versions   \* the sop_versions table

Saved(s) == Cardinality({v \in versions : v.sop = s})

Save(s, c, e) ==
  LET title == IF TitleOf[c] = Blank THEN sop[s].title ELSE TitleOf[c]
      number == Saved(s) + 1
  IN /\ sop[s] = NoRow => TitleOf[c] # Blank
     /\ versions' = versions \cup {[sop |-> s, number |-> number, content |-> c, embedded |-> e]}
     /\ sop' = [sop EXCEPT ![s] = [title |-> title, current |-> number]]

Init == sop = [s \in Sop |-> NoRow] /\ versions = {}

Next == \E s \in Sop, c \in Content, e \in BOOLEAN : Save(s, c, e)

Spec == Init /\ [][Next]_<<sop, versions>>
=============================================================================
