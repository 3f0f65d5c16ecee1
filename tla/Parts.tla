-------------------------------- MODULE Parts ---------------------------------
(***************************************************************************)
(* Six parts of the toolkit that share no state: the validation of a       *)
(* workflow, a report, the cache of explanations, the list of projects,    *)
(* the comparison of versions and the API process with its database.  One  *)
(* of them runs, and the others stay in an initial state of theirs: side   *)
(* by side they could only interleave.                                     *)
(***************************************************************************)
EXTENDS Validation, Analytics, TrackerBoard

CONSTANTS Tables, Periods, Claims,              \* of a report
          Reader, Analyses, Limit, MaxExplains, \* of the cache
          Field, Line,                          \* of the comparison: the fields of
          Versions, Blank,                      \* a version and the lines they show
          Client, Settings, PoolSize, MaxOverflow, \* of the API process
          MaxServes, MaxOutages

ASSUME PartsAssumption ==
  /\ \A t \in Tables : IsTable(t)
  /\ Periods \subseteq {"daily", "weekly", "monthly"}
  /\ Limit \in Nat
  /\ \A a \in Analyses : a.anomalies \in Seq(Int)
  /\ \A v \in Versions : v \in [Field -> Seq(Line)]
  /\ IsFiniteSet(Client) /\ PoolSize \in Nat /\ MaxOverflow \in Nat

VARIABLES part,
          table, period, windows, current, previous, facts, mentions, stage,
          cache, explain, explains,
          old, new, diff, compared,
          settings, database, server, pools, engine, factory, serve, serves, outages

Report == INSTANCE Reports
Insights == INSTANCE InsightCache
  WITH Request <- Reader, MaxCalls <- MaxExplains, call <- explain, calls <- explains
Difference == INSTANCE SopDiff
Api == INSTANCE ApiServer
  WITH Request <- Client, MaxCalls <- MaxServes, MaxEvents <- MaxOutages,
       call <- serve, calls <- serves, events <- outages

reportVars == <<table, period, windows, current, previous, facts, mentions, stage>>
insightVars == <<cache, explain, explains>>
differenceVars == <<old, new, diff, compared>>
apiVars == <<settings, database, server, pools, engine, factory, serve, serves, outages>>
partsVars == <<part, vars, reportVars, insightVars, boardVars, differenceVars, apiVars>>

(* Each part with one input only, for while it does not run.               *)
OneWorkflow == {CHOOSE w \in Workflows : TRUE}
OneTable == {CHOOSE t \in Tables : TRUE}
OnePeriod == {CHOOSE p \in Periods : TRUE}
OneVersion == {CHOOSE v \in Versions : TRUE}

ValidationAtRest == INSTANCE Validation WITH Workflows <- OneWorkflow
ReportAtRest == INSTANCE Reports WITH Tables <- OneTable, Periods <- OnePeriod
DifferenceAtRest == INSTANCE SopDiff WITH Versions <- OneVersion
ApiAtRest ==
  /\ Api!Init
  /\ settings = CHOOSE s \in Settings : TRUE
  /\ database = [up |-> TRUE, age |-> 1, tables |-> TRUE]

PartsInit ==
  /\ part \in {"validation", "report", "insights", "board", "difference", "api"}
  /\ IF part = "validation" THEN Init ELSE ValidationAtRest!Init
  /\ IF part = "report" THEN Report!Init ELSE ReportAtRest!Init
  /\ Insights!Init
  /\ BoardInit
  /\ IF part = "difference" THEN Difference!Init ELSE DifferenceAtRest!Init
  /\ IF part = "api" THEN Api!Init ELSE ApiAtRest

PartsNext ==
  /\ UNCHANGED part
  /\ \/ /\ part = "validation" /\ Next
        /\ UNCHANGED <<reportVars, insightVars, boardVars, differenceVars, apiVars>>
     \/ /\ part = "report" /\ Report!Next
        /\ UNCHANGED <<vars, insightVars, boardVars, differenceVars, apiVars>>
     \/ /\ part = "insights" /\ Insights!Next
        /\ UNCHANGED <<vars, reportVars, boardVars, differenceVars, apiVars>>
     \/ /\ part = "board" /\ BoardNext
        /\ UNCHANGED <<vars, reportVars, insightVars, differenceVars, apiVars>>
     \/ /\ part = "difference" /\ Difference!Next
        /\ UNCHANGED <<vars, reportVars, insightVars, boardVars, apiVars>>
     \/ /\ part = "api" /\ Api!Next
        /\ UNCHANGED <<vars, reportVars, insightVars, boardVars, differenceVars>>

PartsSpec == PartsInit /\ [][PartsNext]_partsVars

-----------------------------------------------------------------------------
(* What a report states is of the period it names and of the one before.   *)
ReportIsOfItsPeriods == Report!ReportIsOfItsPeriods

(* No anomaly is named among fewer than eight values.                      *)
AnomalyNeedsEight == Report!AnomalyNeedsEight

(* An explanation is of the findings it was asked for, and the cache stays *)
(* bounded.                                                                *)
CacheServes == Insights!CacheServes

(* The lines of a comparison turn the old version into the new one.        *)
DiffReplays == Difference!DiffReplays

(* The database is reported missing only if it was.                        *)
SteadyDatabaseServes == Api!SteadyDatabaseServes
=============================================================================
