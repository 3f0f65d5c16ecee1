------------------------------ MODULE Analytics ------------------------------
(***************************************************************************)
(* What is measured of a table before any AI sees it: the role of each     *)
(* column, trends and anomalies (services/analytics), and the analysis the *)
(* dashboard and the reports share (aiops_dashboard/analysis.py).          *)
(*                                                                         *)
(* A table has columns and numbered rows; a row gives each column's name a *)
(* cell: a number, or what a text shows, which may be a day in some format.*)
(* A part of a table keeps the numbers of its rows, as a mask does.        *)
(* Columns are named by their place in the alphabet.  Units, profiles'     *)
(* statistics, charts and the preview are left out.                        *)
(***************************************************************************)
EXTENDS Integers, Sequences, FiniteSets, SequencesExt

CONSTANTS Missing,        \* an empty cell
          MaxMetrics,     \* numeric columns an analysis headlines (6)
          CategoryLimit   \* distinct values of a category in a short table (25)

ASSUME AnalyticsAssumption ==
  MaxMetrics \in Nat /\ CategoryLimit \in Nat /\ Missing \notin Int

Header ==
  [name : Nat, label : STRING, dtype : {"number", "date", "boolean", "object"},
   hints : SUBSET {"id", "date"}, rate : BOOLEAN]

(* What a cell may hold that is not empty, by the dtype of its column.     *)
Content ==
  [number |-> Int, date |-> [day : Int, format : STRING],
   boolean |-> BOOLEAN, object |-> [day : Int \cup {Missing}, format : STRING]]

IsTable(table) ==
  /\ DOMAIN table = {"columns", "rows"} /\ table.columns \in Seq(Header)
  /\ IsFiniteSet(DOMAIN table.rows) /\ DOMAIN table.rows \subseteq Nat
  /\ \A c \in Range(table.columns), i \in DOMAIN table.rows :
       table.rows[i][c.name] \in Content[c.dtype] \cup {Missing}

Magnitude(n) == IF n < 0 THEN -n ELSE n

Cells(table, column) == [i \in DOMAIN table.rows |-> table.rows[i][column.name]]
Given(cells) == Restrict(cells, {i \in DOMAIN cells : cells[i] # Missing})

(* The day a text shows, read by itself.                                   *)
Day(cell) == IF cell = Missing THEN Missing ELSE cell.day

(* infer_column_kind: by dtype, then by name, then by cardinality; a       *)
(* column that counts rows up may be named like a measure.                 *)
Kind(column, cells) ==
  LET given == Given(cells)
      size == Cardinality(DOMAIN given)
      distinct == Cardinality(Range(given))
      identifies == "id" \in column.hints /\ distinct = size
      dated == {i \in DOMAIN given : Day(given[i]) # Missing}
      limit == IF size \div 20 > CategoryLimit THEN size \div 20 ELSE CategoryLimit
  IN IF DOMAIN given = {} THEN "empty"
     ELSE IF column.dtype \in {"boolean", "date"} THEN column.dtype
     ELSE IF column.dtype = "number" THEN (IF identifies THEN "identifier" ELSE "numeric")
     ELSE IF "date" \in column.hints /\ 10 * Cardinality(dated) > 9 * size THEN "date"
     ELSE IF identifies THEN "identifier"
     ELSE IF distinct <= limit THEN "categorical"
     ELSE "text"

(* profile_dataframe, DatasetProfile.of_kind, date_column.                 *)
OfKind(table, kind) == {c \in Range(table.columns) : Kind(c, Cells(table, c)) = kind}

DateColumn(table) ==
  LET dates == {k \in DOMAIN table.columns : table.columns[k] \in OfKind(table, "date")}
  IN IF dates = {} THEN Missing ELSE table.columns[Min(dates)]

-----------------------------------------------------------------------------
(* The places _ordered_by_date may give the rows: the day never falls, rows *)
(* of no day come last, and those of one day come anyhow, as the sort is   *)
(* not stable.                                                             *)
Ordered(table) ==
  LET column == DateColumn(table)
      day == [i \in DOMAIN table.rows |-> Day(table.rows[i][column.name])]
      before(i, j) == day[i] # Missing /\ (day[j] = Missing \/ day[i] < day[j])
      tied == {i \in DOMAIN day : \E j \in DOMAIN day \ {i} : day[j] = day[i]}
      place(tie) ==
        [i \in DOMAIN day |->
          Cardinality({j \in DOMAIN day :
                        before(j, i) \/ ({i, j} \subseteq tied /\ day[j] = day[i] /\ tie[j] < tie[i])})]
  IN IF column = Missing
     THEN {[i \in DOMAIN table.rows |-> i]}
     ELSE {place(tie) : tie \in Injection(tied, tied)}

Earliest(rows, place) == CHOOSE i \in rows : \A j \in rows : place[i] <= place[j]
Latest(rows, place) == CHOOSE i \in rows : \A j \in rows : place[j] <= place[i]

MinPoints == 3

(* detect_trend: the last value against the first; flat below 2 percent.   *)
Trend(values, place) ==
  LET first == values[Earliest(DOMAIN values, place)]
      last == values[Latest(DOMAIN values, place)]
  IN IF Cardinality(DOMAIN values) < MinPoints THEN "none"
     ELSE IF last = first \/ (first # 0 /\ 100 * Magnitude(last - first) < 2 * Magnitude(first))
          THEN "flat"
     ELSE IF last > first THEN "rising" ELSE "falling"

(* Mutant: two standard deviations from the mean.                          *)
IsFarTwo(values, x) ==
  LET n == Cardinality(DOMAIN values)
      sum == SumFunction(values)
      square(a) == a * a
  IN square(n * x - sum) >= 4 * (n * SumFunction([i \in DOMAIN values |-> square(values[i])]) - square(sum))

(* At least 2.5 standard deviations from the mean, over integers: both     *)
(* sides are squared and multiplied by 4 n^2.                              *)
IsFar(values, x) ==
  LET n == Cardinality(DOMAIN values)
      sum == SumFunction(values)
      square(a) == a * a
  IN 4 * square(n * x - sum)
       >= 25 * (n * SumFunction([i \in DOMAIN values |-> square(values[i])]) - square(sum))

(* detect_anomalies: a column that never changes has none.                 *)
Anomalies(values) ==
  IF Cardinality(DOMAIN values) < MinPoints \/ Cardinality(Range(values)) = 1 THEN {}
  ELSE {x \in Range(values) : IsFar(values, x)}

-----------------------------------------------------------------------------
(* _rank_metrics: rates first, then by name.                               *)
Above(a, b) == (a.rate /\ ~b.rate) \/ (a.rate = b.rate /\ a.name < b.name)

Metrics(table) ==
  LET numeric == OfKind(table, "numeric")
  IN {c \in numeric : Cardinality({d \in numeric : Above(d, c)}) < MaxMetrics}

(* analyse, with the rows in their places: each headlined metric with its  *)
(* last value, its trend and the values that stand out.                    *)
Analyse(table, place) ==
  [c \in Metrics(table) |->
    LET values == Given(Cells(table, c))
    IN [value |-> values[Latest(DOMAIN values, place)], trend |-> Trend(values, place),
        anomalies |-> Anomalies(values)]]
=============================================================================
