------------------------------- MODULE SopDiff --------------------------------
(***************************************************************************)
(* The comparison of two versions of a procedure (aiops_sop/diffing.py),   *)
(* field by field and line by line.  A version gives each of its fields    *)
(* the lines it shows; blank ones do not count.                            *)
(***************************************************************************)
EXTENDS Integers, Sequences, SequencesExt

CONSTANTS Versions,   \* the versions that may be compared
          Blank       \* a line of blanks

VARIABLES old, new, diff, compared

vars == <<old, new, diff, compared>>

Init == old \in Versions /\ new \in Versions /\ diff = << >> /\ compared = FALSE

(* _as_lines                                                               *)
AsLines(value) ==
  LET upTo[n \in 0..Len(value)] ==
        IF n = 0 THEN << >>
        ELSE IF value[n] = Blank THEN upTo[n - 1] ELSE Append(upTo[n - 1], value[n])
  IN upTo[Len(value)]

Marked(kind, lines) == [i \in DOMAIN lines |-> [kind |-> kind, text |-> lines[i]]]

Removed(lines) == Marked("removed", lines)
Added(lines) == Marked("added", lines)
Unchanged(lines) == Marked("unchanged", lines)

(* SequenceMatcher.find_longest_match: of the longest runs of lines both   *)
(* sides of a box share, the first in a, then the first in b.              *)
Runs(a, b, box) ==
  {m \in [i : box.i..box.j, k : box.k..box.l, size : 1..(box.j - box.i)] :
     /\ m.i + m.size <= box.j /\ m.k + m.size <= box.l
     /\ \A n \in 0..(m.size - 1) : a[m.i + n] = b[m.k + n]}

LongestRun(runs) ==
  CHOOSE m \in runs : \A o \in runs :
    \/ m.size > o.size
    \/ m.size = o.size /\ (m.i < o.i \/ (m.i = o.i /\ m.k <= o.k))

(* Mutant: the lines after the longest common run are not compared.        *)
DiffLinesBefore(a, b) ==
  LET lines[box \in [i : 1..(Len(a) + 1), j : 1..(Len(a) + 1),
                     k : 1..(Len(b) + 1), l : 1..(Len(b) + 1)]] ==
        LET runs == Runs(a, b, box)
            m == LongestRun(runs)
        IN IF runs = {} THEN Removed(SubSeq(a, box.i, box.j - 1)) \o Added(SubSeq(b, box.k, box.l - 1))
           ELSE lines[[box EXCEPT !.j = m.i, !.l = m.k]] \o Unchanged(SubSeq(a, m.i, m.i + m.size - 1))
  IN lines[[i |-> 1, j |-> Len(a) + 1, k |-> 1, l |-> Len(b) + 1]]

(* _diff_lines: around the longest common run, the lines before it and     *)
(* those after it are compared in the same way; where nothing is common,   *)
(* removals are shown before additions.                                    *)
DiffLines(a, b) ==
  LET lines[box \in [i : 1..(Len(a) + 1), j : 1..(Len(a) + 1),
                     k : 1..(Len(b) + 1), l : 1..(Len(b) + 1)]] ==
        LET runs == Runs(a, b, box)
            m == LongestRun(runs)
        IN IF runs = {} THEN Removed(SubSeq(a, box.i, box.j - 1)) \o Added(SubSeq(b, box.k, box.l - 1))
           ELSE lines[[box EXCEPT !.j = m.i, !.l = m.k]]
                \o Unchanged(SubSeq(a, m.i, m.i + m.size - 1))
                \o lines[[box EXCEPT !.i = m.i + m.size, !.k = m.k + m.size]]
  IN lines[[i |-> 1, j |-> Len(a) + 1, k |-> 1, l |-> Len(b) + 1]]

FieldDiff(a, b) ==
  IF a = b THEN [kind |-> "unchanged", lines |-> << >>]
  ELSE IF a = << >> THEN [kind |-> "added", lines |-> Added(b)]
  ELSE IF b = << >> THEN [kind |-> "removed", lines |-> Removed(a)]
  ELSE [kind |-> "modified", lines |-> DiffLines(a, b)]

(* diff_sop_content, of two different versions.                            *)
Compare ==
  /\ ~compared /\ compared' = TRUE
  /\ diff' = [field \in DOMAIN old |-> FieldDiff(AsLines(old[field]), AsLines(new[field]))]
  /\ UNCHANGED <<old, new>>

Next == Compare

Spec == Init /\ [][Next]_vars

-----------------------------------------------------------------------------
Text(lines, kinds) ==
  LET upTo[n \in 0..Len(lines)] ==
        IF n = 0 THEN << >>
        ELSE IF lines[n].kind \in kinds THEN Append(upTo[n - 1], lines[n].text) ELSE upTo[n - 1]
  IN upTo[Len(lines)]

(* Applied to the old version, the lines shown give the new one, and       *)
(* without the added lines they give the old one back; a field is called   *)
(* unchanged exactly if its lines are the same, and a field that changed   *)
(* shows at least one line that was added or removed.                      *)
DiffReplays ==
  compared => \A field \in DOMAIN diff :
    LET d == diff[field]
        before == AsLines(old[field])
        after == AsLines(new[field])
    IN /\ d.kind = "unchanged" <=> before = after
       /\ d.kind # "unchanged" =>
            /\ Text(d.lines, {"unchanged", "removed"}) = before
            /\ Text(d.lines, {"unchanged", "added"}) = after
            /\ Text(d.lines, {"added", "removed"}) # << >>
=============================================================================
