------------------------------- MODULE Signals -------------------------------
(***************************************************************************)
(* What the command center reports of the rows of its five sources         *)
(* (projects/ai-ops-command-center, signals.py): one signal for each thing *)
(* worth someone's attention, with the weight it is ranked by.             *)
(*                                                                         *)
(* Titles and details are left out, and with them the order of signals of  *)
(* equal weight; links follow from the id.                                 *)
(***************************************************************************)
EXTENDS Integers, Sequences, FiniteSets, SequencesExt

CONSTANTS WaitingLimit,  \* replies and runs listed as waiting (25)
          UrgentLimit,   \* urgent emails listed (15)
          NoDate         \* of a task without a due date

ASSUME SignalsAssumption == WaitingLimit \in Nat /\ UrgentLimit \in Nat

(* The order of the collectors.                                            *)
Order == <<"tracker", "workflows", "travel_ops", "inbox", "dashboard">>
Source == Range(Order)

Weight == [critical |-> 100, warning |-> 40, info |-> 10]

Signal(source, item, kind, severity, bump) ==
  [id |-> <<source, item, kind>>, severity |-> severity, score |-> Weight[severity] + bump]

SourceOf(signal) == signal.id[1]

(* Mutant: the least urgent first.                                         *)
RankUpwards(signals) == [s \in signals |-> Cardinality({t \in signals : t.score < s.score})]

(* How many signals are listed above each; those of equal weight share a   *)
(* rank.                                                                   *)
Rank(signals) == [s \in signals |-> Cardinality({t \in signals : t.score > s.score})]

Abs(n) == IF n < 0 THEN -n ELSE n
Least(a, b) == IF a < b THEN a ELSE b
FirstOf(rows, limit) == {rows[i] : i \in (1..limit) \cap DOMAIN rows}

When(holds, signal) == IF holds THEN {signal} ELSE {}

-----------------------------------------------------------------------------
(* is_overdue: due before today and not done; what is due today is not.    *)
IsOverdue(task, today) ==
  /\ task.due # NoDate /\ task.status # "done"
  /\ task.due < today

(* project_facts, list_item_of: what the tracker counts of a project.      *)
ListItem(project, today) ==
  LET count(Holds(_)) == Cardinality({i \in DOMAIN project.tasks : Holds(project.tasks[i])})
  IN [id |-> project.id, state |-> project.state, health |-> project.health,
      overdue |-> count(LAMBDA t : IsOverdue(t, today)),
      blocked |-> count(LAMBDA t : t.status = "blocked")]

(* Overdue and blocked work of the projects that are not done, and those   *)
(* judged red.                                                             *)
CollectTracker(tracker) ==
  UNION {   When(p.overdue > 0, Signal("tracker", p.id, "overdue",
                   IF p.overdue >= 3 THEN "critical" ELSE "warning", p.overdue))
       \cup When(p.blocked > 0, Signal("tracker", p.id, "blocked", "warning", p.blocked))
       \cup When(p.health = "red", Signal("tracker", p.id, "health", "critical", 5))
         : p \in {ListItem(q, tracker.today) : q \in {q \in tracker.projects : q.state # "done"}}}

(* issues_for: what validation holds against a workflow so that it may not *)
(* run.                                                                    *)
Blocking(workflow) == {i \in workflow.issues : i.blocks}

(* Runs waiting for a decision, newest first, and workflows that           *)
(* validation would not let run.                                           *)
CollectWorkflows(builder) ==
       {Signal("workflows", run, "approval", "critical", 10) :
          run \in FirstOf(builder.waiting, WaitingLimit)}
  \cup {Signal("workflows", w.id, "blocked", "warning", Cardinality(Blocking(w))) :
          w \in {v \in builder.workflows : Blocking(v) # {}}}

(* to_summary: the drafts of an incident that wait for approval.           *)
Awaiting(incident) ==
  Cardinality({i \in DOMAIN incident.drafts : incident.drafts[i] = "draft"})

(* Unresolved incidents with drafts to approve, judged severe, or not yet  *)
(* judged at all.                                                          *)
CollectTravelOps(incidents) ==
  UNION {   When(Awaiting(i) > 0, Signal("travel_ops", i.id, "approval", "critical", Awaiting(i)))
       \cup When(i.severity \in {"high", "critical"},
                 Signal("travel_ops", i.id, "severity", "critical", i.affected))
       \cup When(i.severity = "unassessed" /\ i.affected > 0,
                 Signal("travel_ops", i.id, "unassessed", "warning", i.affected))
         : i \in {j \in incidents : j.status # "resolved"}}

(* The inbox is read three times.  First the replies that wait for         *)
(* approval, the last touched first.                                       *)
WaitingReplies(emails) ==
  {Signal("inbox", e.id, "approval", "critical", 8) :
     e \in FirstOf(SelectSeq(emails, LAMBDA e : e.draft = "draft"), WaitingLimit)}

(* Then urgent emails nobody has a reply for: as many as the limit, and    *)
(* nothing says which.                                                     *)
UrgentEmails(emails) ==
  LET urgent == {e \in Range(emails) : /\ e.urgency \in {"high", "critical"}
                                       /\ e.draft \in {"none", "rejected"}}
      severity(e) == IF e.urgency = "critical" THEN "critical" ELSE "warning"
  IN {{Signal("inbox", e.id, "urgent", severity(e), 6) : e \in some} :
        some \in {u \in SUBSET urgent : Cardinality(u) = Least(Cardinality(urgent), UrgentLimit)}}

(* is_unanswered: no reply for two days; what came since is new.           *)
IsUnanswered(email) == ~email.replied /\ email.hours >= 48

(* Last the emails list_inbox counts as unanswered.                        *)
Unanswered(emails) ==
  LET count == Cardinality({e \in Range(emails) : IsUnanswered(e)})
  IN When(count > 0, Signal("inbox", "all", "unanswered", "warning", Least(count, 20)))

(* The first five anomalies and the trends worth a mention of the bundled  *)
(* dataset; a z-score is in tenths.                                        *)
CollectDashboard(analysis) ==
       {Signal("dashboard", a.column, a.at, IF Abs(a.z) >= 30 THEN "warning" ELSE "info",
               Abs(a.z) \div 10) : a \in FirstOf(analysis.anomalies, 5)}
  \cup {Signal("dashboard", t.column, "trend", IF Abs(t.pct) >= 30 THEN "warning" ELSE "info",
               Abs(t.pct) \div 10) :
          t \in {u \in analysis.trends : Abs(u.pct) >= 15 /\ u.direction # "flat"}}

(* changed_since: the sources whose number of signals has moved.           *)
ChangedSince(previous, current) == Cardinality({s \in Source : previous[s] # current[s]})
=============================================================================
