------------------------------- MODULE Reports --------------------------------
(***************************************************************************)
(* One operations report (projects/ai-report-generator): a table is cut    *)
(* into the latest period and the one before, each is analysed as the      *)
(* dashboard analyses a table, the figures are compared, and the model may *)
(* write about them afterwards.                                            *)
(*                                                                         *)
(* Percentages, units, wording and the rendering of the export are left    *)
(* out; days are numbers.                                                  *)
(***************************************************************************)
EXTENDS Analytics

CONSTANTS Tables,   \* the tables that may be loaded or uploaded
          Periods,  \* the periods asked for
          Claims    \* the metrics the model may name

VARIABLES table, period,
          windows,            \* the two slices, and whether dates were found
          current, previous,  \* what analyse made of each
          facts,              \* the changes reported
          mentions,           \* the metrics the narrative refers to
          stage

vars == <<table, period, windows, current, previous, facts, mentions, stage>>

Init ==
  /\ table \in Tables /\ period \in Periods
  /\ windows = << >> /\ current = << >> /\ previous = << >>
  /\ facts = << >> /\ mentions = {} /\ stage = "asked"

(* Period.days                                                             *)
Days == [daily |-> 1, weekly |-> 7, monthly |-> 30]

(* _as_dates: the first cell given sets the format for all of them, unless *)
(* it is no date itself.                                                   *)
Stamp(tab, column, i) ==
  LET cells == Cells(tab, column)
      first == cells[Min(DOMAIN Given(cells))]
  IN IF cells[i] = Missing \/ (first.day # Missing /\ cells[i].format # first.format) THEN Missing
     ELSE cells[i].day

(* Mutant: the preceding period ends on the day the latest one begins.     *)
PreviousEndShared(last, span) == last - span + 1

PreviousEnd(last, span) == last - span

(* split: anchored to the latest day in the data.                          *)
Split(tab, span) ==
  LET column == DateColumn(tab)
      day == [i \in DOMAIN tab.rows |-> Stamp(tab, column, i)]
      within(days) == [tab EXCEPT !.rows = Restrict(@, {i \in DOMAIN day : day[i] \in days})]
      last == Max(Range(day) \ {Missing})
      end == PreviousEnd(last, span)
  IN IF column = Missing
     THEN [current |-> tab, previous |-> [tab EXCEPT !.rows = << >>], whole |-> TRUE]
     ELSE [current |-> within((last - span + 1)..last),
           previous |-> within((end - span + 1)..end), whole |-> FALSE]

Refuse ==
  /\ stage = "asked" /\ DOMAIN table.rows = {}
  /\ stage' = "refused"
  /\ UNCHANGED <<table, period, windows, current, previous, facts, mentions>>

Cut ==
  /\ stage = "asked" /\ DOMAIN table.rows # {}
  /\ windows' = Split(table, Days[period])
  /\ stage' = "current"
  /\ UNCHANGED <<table, period, current, previous, facts, mentions>>

AnalyseCurrent ==
  /\ stage = "current"
  /\ \E place \in Ordered(windows.current) : current' = Analyse(windows.current, place)
  /\ stage' = "previous"
  /\ UNCHANGED <<table, period, windows, previous, facts, mentions>>

(* A preceding window without rows is not analysed and has no figures.     *)
AnalysePrevious ==
  /\ stage = "previous"
  /\ \E place \in Ordered(windows.previous) :
       previous' = IF DOMAIN windows.previous.rows = {} THEN << >>
                   ELSE Analyse(windows.previous, place)
  /\ stage' = "compare"
  /\ UNCHANGED <<table, period, windows, current, facts, mentions>>

(* compare, for one figure: a label may be shared, and then the last one   *)
(* that has it counts; against zero no percentage is given.                *)
Change(metric, now, earlier) ==
  LET same == {c \in DOMAIN earlier : c.label = metric.label}
      before == earlier[CHOOSE c \in same : \A d \in same \ {c} : Above(d, c)].value
      change(was, compared, direction) ==
        [label |-> metric.label, value |-> now, previous |-> was,
         compared |-> compared, direction |-> direction]
  IN IF same = {} THEN change(Missing, FALSE, "new")
     ELSE IF before = 0 THEN change(0, FALSE, IF now > 0 THEN "up" ELSE "flat")
     ELSE change(before, TRUE, IF 2000 * Magnitude(now - before) < Magnitude(before) THEN "flat"
                               ELSE IF now > before THEN "up" ELSE "down")

Compare ==
  /\ stage = "compare"
  /\ facts' = [c \in DOMAIN current |-> Change(c, current[c].value, previous)]
  /\ stage' = "reported"
  /\ UNCHANGED <<table, period, windows, current, previous, mentions>>

(* narrate: a reference to a metric the facts do not hold is dropped.      *)
Narrate ==
  /\ stage = "reported"
  /\ \/ /\ \E claimed \in SUBSET Claims :
             mentions' = claimed \cap {change.label : change \in Range(facts)}
        /\ stage' = "narrated"
     \/ stage' = "unwritten" /\ UNCHANGED mentions
  /\ UNCHANGED <<table, period, windows, current, previous, facts>>

Next == Refuse \/ Cut \/ AnalyseCurrent \/ AnalysePrevious \/ Compare \/ Narrate

Spec == Init /\ [][Next]_vars

-----------------------------------------------------------------------------
Reported == stage \in {"reported", "narrated", "unwritten"}

(* The rows whose day lies k periods before the latest one.                *)
Covered(k) ==
  LET column == DateColumn(table)
      day == [i \in DOMAIN table.rows |-> Stamp(table, column, i)]
      last == Max(Range(day) \ {Missing})
  IN {i \in DOMAIN day : day[i] # Missing /\ (last - day[i]) \div Days[period] = k}

LatestOf(column, rows) ==
  LET axis == DateColumn(table)
      valued == {i \in rows : table.rows[i][column.name] # Missing}
      day(i) == Stamp(table, axis, i)
  IN {table.rows[i][column.name] : i \in {j \in valued : \A k \in valued : day(k) <= day(j)}}

(* Tables for which the profile cannot change from the whole to a window:  *)
(* one date axis, no measure named like an identifier, no label shared and *)
(* no more measures than are headlined.                                    *)
IsPlain ==
  LET measures == {c \in Range(table.columns) : c.dtype = "number"}
  IN /\ DateColumn(table) # Missing
     /\ \A c \in Range(table.columns) :
          c.dtype = "date" \/ "date" \in c.hints => c = DateColumn(table)
     /\ \A c \in measures : "id" \notin c.hints
     /\ \A c \in measures, d \in measures : c.label = d.label => c = d
     /\ Cardinality(measures) <= MaxMetrics

(* A report states, of every measure recorded in the latest period, its    *)
(* value on the latest day, against that of the latest day of the period   *)
(* just before it, and calls a measure new only if that period has none.   *)
ReportIsOfItsPeriods ==
  Reported /\ IsPlain =>
    \A c \in {c \in Range(table.columns) : c.dtype = "number"} :
      LET latest == LatestOf(c, Covered(0))
          before == LatestOf(c, Covered(1))
          changes == {change \in Range(facts) : change.label = c.label}
      IN /\ latest # {} <=> changes # {}
         /\ \A change \in changes :
              /\ change.value \in latest
              /\ IF before = {} THEN change.direction = "new" ELSE change.previous \in before
              /\ change.compared => (change.direction = "down" => change.value < change.previous)
              /\ change.direction = "up" => change.value > change.previous

(* With fewer than eight values nothing is an anomaly: no point is further *)
(* than sqrt(n - 1) deviations from the mean.  A weekly report of daily    *)
(* figures therefore never names one.                                      *)
AnomalyNeedsEight ==
  Reported =>
    \A c \in DOMAIN current :
      current[c].anomalies # {} =>
        Cardinality({i \in DOMAIN windows.current.rows :
                       windows.current.rows[i][c.name] # Missing}) >= 8
=============================================================================
