-------------------------- MODULE MCCommandCenter --------------------------
(* Counts at their extremes below 60, an inbox whose replies and urgent    *)
(* emails exceed the limits, and an email that moves between the two       *)
(* lists of the inbox.                                                     *)
EXTENDS CommandCenter, TLC
CONSTANTS r1, r2

(* n tasks that are blocked, and three that are due yesterday, today and   *)
(* never.                                                                  *)
Task(due, status) == [due |-> due, status |-> status]
Tasks(n) ==
  [i \in 1..n |-> Task(NoDate, "blocked")] \o
  <<Task(9, "todo"), Task(10, "todo"), Task(9, "done"), Task(NoDate, "in_progress")>>

Project(id, tasks, health, state) == [id |-> id, tasks |-> tasks, health |-> health, state |-> state]

Email(id, draft, urgency, hours) ==
  [id |-> id, draft |-> draft, urgency |-> urgency, replied |-> FALSE, hours |-> hours]

MCRows ==
  [tracker |-> {[today |-> 10, projects |-> {Project("p1", Tasks(59), "red", "active"),
                                             Project("p2", Tasks(0), "red", "done")}]},
   workflows |-> {[waiting |-> <<"x1", "x2">>,
                   workflows |-> {[id |-> "w1", issues |-> {[kind |-> "loop", blocks |-> TRUE],
                                                            [kind |-> "unlabelled", blocks |-> FALSE]}]}]},
   travel_ops |-> {{[id |-> "i1", status |-> "open", drafts |-> << >>, severity |-> "unassessed",
                     affected |-> 59],
                    [id |-> "i2", status |-> "open", drafts |-> <<"approved", "draft">>,
                     severity |-> "high", affected |-> 0]}},
   inbox |-> {<<Email("e1", "none", "critical", 48), Email("e2", "rejected", "high", 47)>>,
              <<Email("e1", "draft", "critical", 48), Email("e2", "draft", "high", 47)>>},
   dashboard |-> {[anomalies |-> <<[column |-> "c1", at |-> "d1", z |-> -31],
                                   [column |-> "c1", at |-> "d2", z |-> 26]>>,
                   trends |-> {[column |-> "c1", pct |-> 599, direction |-> "up"]}]}]

MCClaim == {<<"inbox", "e1", "urgent">>}
Symmetric == Permutations(Request)
=============================================================================
