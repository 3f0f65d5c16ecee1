------------------------------ MODULE Tracker -------------------------------
(***************************************************************************)
(* One tracked project and its tasks (projects/ai-project-tracker,         *)
(* service.py and facts.py) under concurrent requests.                     *)
(*                                                                         *)
(* A request on a task reads the rows of the project, checks, and writes   *)
(* what differs; the read and the check are one step, the write and the    *)
(* commit another.  An assessment reads the project before its AI request  *)
(* and writes after it.  Titles, owners and dates are left out, and so are *)
(* the single columns next_actions and summary; "in_progress" is a         *)
(* "todo", which nothing here tells apart.                                 *)
(***************************************************************************)
EXTENDS Integers, FiniteSets, Sessions

CONSTANTS Request, Task,
          Answer,     \* what the model may answer to an assessment
          Health, HealthOf,
          NoRow, None,
          MaxDepth,   \* MAX_DEPENDENCY_DEPTH
          MaxCalls    \* bound of the model: requests

ASSUME TrackerAssumption ==
  /\ HealthOf \in [Answer -> Health]
  /\ None \notin Task \cup Answer \cup Health
  /\ IsFiniteSet(Task) /\ MaxDepth \in Nat /\ MaxCalls \in Nat

VARIABLES project,  \* the assessment of the committed TrackedProject
          task,     \* the committed TrackedTask rows
          call,     \* what each request holds
          inTurn,   \* no two requests on tasks have overlapped so far
          apart,    \* no two assessments have overlapped so far
          calls

vars == <<project, task, call, inTurn, apart, calls>>

Status == {"todo", "blocked", "done"}
Row == [status : Status, note : BOOLEAN, on : Task \cup {None}]
Project == [health : Health \cup {None}, why : Answer \cup {None}]

ASSUME NoRowAssumption == NoRow \notin Row \cup Project

Idle == [kind |-> "idle"]
TaskCalls ==
  [kind : {"update"}, task : Task, old : Row, new : Row] \cup
  [kind : {"create"}, task : Task, new : Row] \cup
  [kind : {"delete"}, task : Task]
Calls == TaskCalls \cup [kind : {"assess"}, old : Project] \cup {[kind |-> "drop"]}

(* Also: a task has its project, and the task it depends on, whatever is   *)
(* deleted meanwhile (models.py, the foreign keys).                        *)
TypeOK ==
  /\ project \in Project \cup {NoRow}
  /\ task \in [Task -> Row \cup {NoRow}]
  /\ call \in [Request -> Calls \cup {Idle}]
  /\ inTurn \in BOOLEAN /\ apart \in BOOLEAN /\ calls \in 0..MaxCalls
  /\ \A t \in Task :
       task[t] # NoRow =>
         project # NoRow /\ (task[t].on # None => task[task[t].on] # NoRow)

(* A project created with some tasks, none of which depends on another.    *)
Init ==
  /\ project = [health |-> None, why |-> None]
  /\ task \in [Task -> {NoRow, [status |-> "todo", note |-> FALSE, on |-> None]}]
  /\ call = [r \in Request |-> Idle]
  /\ inTurn = TRUE /\ apart = TRUE /\ calls = 0

Held(r) == call[r].kind # "idle"
OnTasks == {"update", "create", "delete", "drop"}
Begun(kinds) == \E r \in Request : call[r].kind \in kinds
Tasks == {t \in Task : task[t] # NoRow}

Begin(r, c) ==
  /\ ~Held(r) /\ calls < MaxCalls
  /\ call' = [call EXCEPT ![r] = c]
  /\ calls' = calls + 1
  /\ inTurn' = (inTurn /\ (c.kind \in OnTasks => ~Begun(OnTasks)))
  /\ apart' = (apart /\ (c.kind = "assess" => ~Begun({"assess"})))
  /\ UNCHANGED <<project, task>>

End(r) ==
  /\ call' = [call EXCEPT ![r] = Idle]
  /\ UNCHANGED <<inTurn, apart, calls>>

-----------------------------------------------------------------------------
(* The task t waits for, if it is there, and the tasks met on the way up   *)
(* from it in at most n steps.                                             *)
Parent(t) == IF task[t].on # None /\ task[task[t].on] # NoRow THEN {task[t].on} ELSE {}
Above(t, n) ==
  LET met[k \in 0..n] ==
        IF k = 0 THEN {t} ELSE met[k - 1] \cup UNION {Parent(u) : u \in met[k - 1]}
  IN met[n]

(* Mutant: only the task depended on is looked at.                         *)
ValidAtOnce(t, on) == on \in Tasks /\ on # t /\ Parent(on) # {t}

(* _validate_dependency: nothing above the task depended on is t.          *)
ValidDependency(t, on) == on \in Tasks /\ on # t /\ t \notin Above(on, Cardinality(Task))

(* update_task on the status and the reason of a block.                    *)
Moved(row, status, note) ==
  [row EXCEPT !.status = status,
              !.note = status = "blocked" /\ (@ \/ note)]

BeginUpdate(r, t, status, note, on) ==
  /\ t \in Tasks
  /\ on \notin {None, task[t].on} => ValidDependency(t, on)
  /\ Begin(r, [kind |-> "update", task |-> t, old |-> task[t],
               new |-> [Moved(task[t], status, note) EXCEPT !.on = on]])

BeginCreate(r, t, status, note, on) ==
  /\ project # NoRow /\ t \notin Tasks
  /\ on # None => on \in Tasks
  /\ Begin(r, [kind |-> "create", task |-> t,
               new |-> [status |-> status, note |-> note /\ status = "blocked", on |-> on]])

BeginDelete(r, t) ==
  /\ t \in Tasks
  /\ Begin(r, [kind |-> "delete", task |-> t])

BeginDrop(r) == project # NoRow /\ Begin(r, [kind |-> "drop"])

BeginAssess(r) == project # NoRow /\ Begin(r, [kind |-> "assess", old |-> project])

-----------------------------------------------------------------------------
(* The foreign key holds a dependency to a task that is there.             *)
MayDepend(old, new) == new # old /\ new # None => task[new] # NoRow

CommitUpdate(r) ==
  /\ call[r].kind = "update"
  /\ LET c == call[r]
     IN /\ c.task \in Tasks /\ MayDepend(c.old.on, c.new.on)
        /\ task' = [task EXCEPT ![c.task] = Written(c.old, c.new, @)]
  /\ End(r) /\ UNCHANGED project

CommitCreate(r) ==
  /\ call[r].kind = "create"
  /\ project # NoRow /\ call[r].task \notin Tasks /\ MayDepend(None, call[r].new.on)
  /\ task' = [task EXCEPT ![call[r].task] = call[r].new]
  /\ End(r) /\ UNCHANGED project

(* Mutant: the tasks that waited go with the task they waited for.         *)
CommitDeleteCascades(r) ==
  /\ call[r].kind = "delete"
  /\ LET t == call[r].task
     IN task' = [u \in Task |-> IF task[u] # NoRow /\ t \in Above(u, Cardinality(Task)) THEN NoRow
                                ELSE task[u]]
  /\ End(r) /\ UNCHANGED project

(* ON DELETE SET NULL; a row that is gone already is no error.             *)
CommitDelete(r) ==
  /\ call[r].kind = "delete"
  /\ LET t == call[r].task
     IN task' = [u \in Task |-> IF u = t THEN NoRow
                                ELSE IF task[u] # NoRow /\ task[u].on = t
                                     THEN [task[u] EXCEPT !.on = None]
                                ELSE task[u]]
  /\ End(r) /\ UNCHANGED project

(* The project is deleted, and its tasks with it.                          *)
CommitDrop(r) ==
  /\ call[r].kind = "drop"
  /\ project' = NoRow /\ task' = [t \in Task |-> NoRow]
  /\ End(r)

(* Mutant: an assessment keeps the health of the one before.               *)
CommitAssessOnce(r, a) ==
  /\ call[r].kind = "assess" /\ project # NoRow
  /\ LET old == call[r].old
     IN project' = Written(old, [health |-> IF old.health = None THEN HealthOf[a] ELSE old.health,
                                 why |-> a], project)
  /\ End(r) /\ UNCHANGED task

(* assess_health after its AI request.                                     *)
CommitAssess(r, a) ==
  /\ call[r].kind = "assess" /\ project # NoRow
  /\ project' = Written(call[r].old, [health |-> HealthOf[a], why |-> a], project)
  /\ End(r) /\ UNCHANGED task

(* A row to write is gone, a task depended on is, or the AI request fails. *)
Fails(r) ==
  /\ \/ call[r].kind = "update" /\ \/ call[r].task \notin Tasks
                                   \/ ~MayDepend(call[r].old.on, call[r].new.on)
     \/ call[r].kind = "create" /\ \/ project = NoRow \/ ~MayDepend(None, call[r].new.on)
     \/ call[r].kind = "assess"
  /\ End(r) /\ UNCHANGED <<project, task>>

Next ==
  \E r \in Request :
    \/ \E t \in Task, status \in Status, note \in BOOLEAN, on \in Task \cup {None} :
         BeginUpdate(r, t, status, note, on) \/ BeginCreate(r, t, status, note, on)
    \/ \E t \in Task : BeginDelete(r, t)
    \/ BeginDrop(r) \/ BeginAssess(r)
    \/ CommitUpdate(r) \/ CommitCreate(r) \/ CommitDelete(r) \/ CommitDrop(r)
    \/ \E a \in Answer : CommitAssess(r, a)
    \/ Fails(r)

Spec == Init /\ [][Next]_vars

-----------------------------------------------------------------------------
(* blocking_task: the walk up the dependencies stops at the first task     *)
(* that is not done, at one already met, or after MaxDepth steps.          *)
Unfinished == {t \in Tasks : task[t].status # "done"}

(* Mutant: the walk looks one step up only.                                *)
BlockingParent(t) == Parent(t) \cap Unfinished

BlockingTask(t) ==
  LET walk[k \in 0..MaxDepth] ==
        IF k = 0 THEN [at |-> {t}, seen |-> {t}, found |-> {}]
        ELSE LET w == walk[k - 1]
                 up == (UNION {Parent(u) : u \in w.at}) \ w.seen
             IN IF w.found # {} \/ up = {} THEN [w EXCEPT !.at = {}]
                ELSE IF up \subseteq Unfinished THEN [w EXCEPT !.at = {}, !.found = up]
                ELSE [at |-> up, seen |-> w.seen \cup up, found |-> {}]
  IN walk[MaxDepth].found

AboveAll(t) == UNION {Above(u, Cardinality(Task)) : u \in Parent(t)}

(* No task waits for itself ("the walk here is what stops a cycle being    *)
(* created", service.py), unless two requests on tasks overlap.            *)
NoCycle == inTurn => \A t \in Tasks : t \notin AboveAll(t)

(* Whatever is stored, cycles of two concurrent writes included, a task is *)
(* reported blocked exactly when another unfinished task is above it, in   *)
(* chains no longer than MaxDepth.                                         *)
BlockedByWhatIsAbove ==
  \A t \in Tasks :
    LET others == (AboveAll(t) \cap Unfinished) \ {t}
    IN BlockingTask(t) \subseteq others /\ (BlockingTask(t) = {} => others = {})

(* Deleting a prerequisite "should not silently delete the work that was   *)
(* waiting on it" (models.py): while the project is there, a step removes  *)
(* at most the task a request asked to delete.                             *)
WorkIsKept ==
  [][project' # NoRow =>
       \A t \in Tasks : task'[t] # NoRow
          \/ \E r \in Request : call[r].kind = "delete" /\ call[r].task = t]_task

(* The health shown is the one its reasoning argues for ("always as a      *)
(* pair", models.py), while assessments do not overlap: of two that do,    *)
(* each writes the columns that differ from what it loaded, and the pair   *)
(* may be of both.                                                         *)
HealthIsExplained ==
  apart /\ project # NoRow /\ project.why # None => project.health = HealthOf[project.why]
=============================================================================
