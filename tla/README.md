# Verification of ai-operations-toolkit

TLA+ specifications of the toolkit's control logic, configurations that model-check
them with TLC on small instances, and theorems about them that TLAPS proves for every
value of the constants.  Everything is translated from the code; paths below are
relative to the root of the repository.

## 1. Inventory

### The system

The toolkit is a modular monolith.

    apps/web (Next.js pages)  -->  apps/api (one FastAPI application)
                                        |
       projects/*  inbox, tracker, travel, builder, SOP library,
                   command center, dashboard, report generator
                                        |
       services/*  workflow engine, analytics, document processing
       packages/*  AI providers, adapters (mock), database, config, utils

Routes are synchronous, so FastAPI runs each request in a thread of its own and any
two may interleave.  A request opens one SQLAlchemy session (`session_scope`,
`packages/database/aiops_db/session.py`), which commits when the route returns and
rolls back when it raises.  Four facts about it shape almost every module:

* transactions run at READ COMMITTED; no query locks a row and no table has a version
  column;
* a row once loaded stays as it was loaded, however often it is selected again;
* an UPDATE names only the columns whose value differs from the loaded one;
* an AI request made between a read and a write takes seconds, and a message handed to
  an adapter is outside the transaction: no rollback takes it back.

### Components

| component | state | operations | talks to | what is hard | what makes it correct |
|---|---|---|---|---|---|
| workflow validation | none | blocking issues of a definition: loops, unguarded high-risk nodes, dangling links | engine, builder | two graph searches with early returns | each search says exactly what its definition says, and ends |
| workflow engine | the execution it walks | run, one node, pause, resume, fail | handlers of the builder and of travel | a resume days later, with a definition that changed | nothing leaves before a person said yes; a pause can be resumed; walks end |
| workflow builder | workflows, executions | save, delete, run, resume | engine, email adapter | edits and deletes during a walk, two decisions at once, crash after a send | what is stored is what happened |
| travel operations | incidents, communications, an execution each | report, assess, decide, close out | engine, AI, email adapter, booking data | the last two decisions at once; assessing again after decisions | only approved messages leave, under the approver's name; a decided incident is closed |
| operations inbox | one row per thread | triage, draft, approve, reject | AI, email adapter | a decision while a draft is written; merged columns | an approval is of the text that was sent |
| project tracker | projects, tasks, dependencies, advice | seed, create, update, delete, assess, advise | AI | cycles by concurrent writes; partial column updates; advice about tasks deleted meanwhile | dependencies stay acyclic and explain each block; advice leads to a task; demo projects are there once |
| AI providers | the quota, outside | generate with retries and a chain of models | every project | retry and fallback with a quota others spend too | falls back only when it must; cost is bounded |
| demo recordings | files | record, replay | AI | a script that dies while it writes; run again | nothing recorded is lost |
| SOP library | procedures, versions, their vectors | create, new version, read, search, ask | AI | version numbers from a stale read; answers from superseded text; comparing versions | history without gaps; answers from current versions; a comparison shows every change |
| command center | stored briefs | gather, brief | every project's tables | one failing source among several, on one transaction; sources that change while they are read; two briefs at once | a failed source costs only itself; a brief says what the model saw; the most urgent comes first |
| operations dashboard | one cache per process | figures, findings | analytics, AI | two misses at once, trimming without a lock | an explanation belongs to its figures; the cache stays bounded |
| report generator | none | period, comparison, draft | analytics, AI | ends of periods, first period, zero denominators | windows meet and do not overlap |
| analytics | none | role of a column, trend, anomalies, analysis of a table | dashboard, reports | few points, constant columns, dates in several formats | no claim the data cannot carry |
| document processing | none | parsing and rendering | dashboard, SOP, reports | file formats | |
| adapters | mock outbox, booking data | send, list, search | travel, inbox, builder | a call that is not undone | |
| API process and database session | engine, session factory and pool per process | start, connect, serve, readiness | all | first use by two threads; a database that stops and comes back; connections held during AI requests | who is told that the database is missing is told the truth; no connection is lost |
| web application | none of its own | pages, panels | API | | |

`PROJECT.json` lists them all with their files, those that are not modelled included,
and lists the hazards, each at the line where it bites and with the properties that
would catch it.

## 2. The modules

| module | models | source |
|---|---|---|
| WorkflowDefs | definitions, types of nodes, the two static properties (loop, unguarded node) as reference definitions, blocking issues | `services/workflow-engine/aiops_workflow/{types,validation}.py` |
| CheckedWorkflow | the definition that is being checked, read by both searches | `validation.py` |
| GuardSearch | the breadth-first search for unguarded nodes, one iteration per step | `validation.py` |
| LoopSearch | the depth-first search for a loop with its stack and finished nodes | `validation.py` |
| Validation | both searches on every definition given; a part of `Parts` | `validation.py` |
| Executions | records of an execution and the pieces `run`, `resume` and `_walk` are made of; the handlers | `engine.py`, `projects/ai-workflow-builder/aiops_builder/handlers.py` |
| WorkflowEngine | one execution: the walk, its pause, any number of resumes, each with the definition it is handed | `engine.py` |
| ApprovalGate | abstract: no outside action before a yes and none after a no | what `WorkflowEngine` promises |
| WorkflowBuilder | a stored workflow and its executions under concurrent requests | `aiops_builder/service.py` |
| TravelOps | one incident, its communications and its execution under concurrent requests | `projects/ai-travel-operations/aiops_travelops/service.py` |
| Sessions | what a flush writes of a loaded row: the columns that differ | use of SQLAlchemy in every service |
| Inbox | the stored row of one thread under concurrent requests | `projects/ai-operations-inbox/aiops_inbox/service.py` |
| Tracker | one project, its tasks and dependencies under concurrent requests | `projects/ai-project-tracker/aiops_tracker/{service,facts}.py` |
| TrackerBoard | the list of projects: its seeding by the first request, creation and deletion, and the advice stored with links to tasks | `aiops_tracker/{service,seed,router}.py` |
| Gemini | retries and the chain of models, with a quota per model that others spend too | `packages/ai/aiops_ai/providers/gemini_provider.py` |
| Recording | the recording script, its files and visitors beside it | `scripts/record_demo_outputs.py`, `providers/demo.py` |
| Sop | procedures and versions under concurrent saves, reads, searches and questions | `projects/ai-sop-generator/aiops_sop/{service,search,router}.py` |
| SerialSaves | abstract: a save takes effect at once, as if it were alone | what `Sop` promises |
| SopDiff | the comparison of two versions, line by line | `aiops_sop/diffing.py` |
| Signals | what each collector makes of the rows of its source, with weights | `projects/ai-ops-command-center/aiops_command/signals.py` |
| CommandCenter | the page and the brief under concurrent requests, while sources change and fail | `aiops_command/{signals,service,router}.py` |
| Analytics | roles of columns, trends, anomalies, and the analysis of a table | `services/analytics/aiops_analytics/{profiling,detection}.py`, `projects/ai-operations-dashboard/aiops_dashboard/analysis.py` |
| Reports | one report: the two windows, their analyses, the comparison, what the narrative may name | `projects/ai-report-generator/aiops_report/{periods,service,router}.py` |
| InsightCache | the dictionary of explanations that all threads share without a lock | `aiops_dashboard/insights.py` |
| ApiServer | start, first use of the engine, the pool, a database that stops and restarts | `packages/database/aiops_db/session.py`, `apps/api/app/{main,errors}.py`, `routers/health.py` |
| Parts | six of the above that share no state (Validation, Reports, InsightCache, TrackerBoard, SopDiff, ApiServer): one of them runs | |

`WorkflowBuilder` and `WorkflowEngine` share `Executions`, so the walk that is checked
and proved alone is the walk that runs inside concurrent requests; `Recording` extends
`Gemini`; `Inbox`, `Tracker` and `Sop` use `Sessions`; `CommandCenter` extends `Signals`;
`Reports` extends `Analytics`, as the report generator calls the analysis of the
dashboard.  The MC modules hold the instances, and the `...Proofs` modules the theorems
about the module they are named after (`WorkflowProofs`: Validation, WorkflowEngine and
WorkflowBuilder).  `Parts` exists so that six small questions, none of which touches the
state of another, are asked in one run.

A definition under a comment that begins with "Mutant" is the mapped definition after
it with a fault a maintainer could introduce; no specification uses it.  Exchanging
the two makes the property listed with it in `PROJECT.json` fail, which shows that the
property depends on that code.

### How state and actions correspond to the code

**Requests.**  In the modules of stored rows, `call[r]` is what the thread of request
`r` holds in memory, and the other variables are what is committed.  An action is a
stretch of the handler between two points where other requests can be seen or can see
it: `Begin...` goes from the first read up to the first AI request or flush, the next
action from its answer to the flush, and `Commit` is flush and commit.  Reads between
which no commit of another request matters are one step.  `Die` is a request whose
process or connection stops: it leaves no row, and the messages it has handed over
stay in `outbox`.  A request that fails (foreign key, unique column, a row that is
gone, an AI error) is an action of its own that leaves no row either.

**The engine.**  `_walk` is a loop; one iteration is one step, and its exits (limit,
missing node, approval, unknown type, a handler that raises, the end) are disjuncts
in the order of the code.  Contexts are reduced to what a send reads of them, the
approver, and outputs to whether the AI cost is found in them.  A handler of the
builder that writes to the context may overwrite the approver (a transform or an
extraction into that key), which `ContextAfter` allows.

An id may be the empty string: neither a node's id nor a link has a minimum length, and
the builder stores what is put.  The checks follow a link only if it is not empty
(`Succ`), the engine every link that is not None (`Follow`), so `EmptyId` is a possible
node and a possible target in every model of definitions.  What the engine promises of
the checks' verdict it keeps only for walks that have not come to such a node: those
properties count `CheckedActs`, the acts of a walk up to there, or the circles of the
links the engine follows, and the run `engine_empty_id` shows the difference.

**Travel.**  The workflow of an incident is fixed (trigger, lookup, assess, draft,
approval, record) so its execution is reduced to its status and its decision.  The
stages of a decision follow the flushes: the UPDATE that locks the row (`Flush`), the
SELECT of the other communications (`Look`), after
which it closes the incident out or leaves it open, and the commit.  `apart` and `alone`
are history: that no assessment has overlapped a decision, and that no two requests have
overlapped at all.

**The inbox and the tracker.**  `Written(old, new, row)` is the row after an UPDATE by
a request that loaded `old` and holds `new`: columns that differ are written, others
keep what is committed by then.

**Sop.**  The number of a new version is computed from the row as loaded; the unique
constraint on procedure and version turns the second of two overlapping saves into a
failure.  A question takes three steps (embedding, search, answer) and a read two.

**The tracker's list.**  `alone` is history: it says that no other list was being seeded
while a project of the demo data was.  `Used(p)` are the tasks a project has or had.

**The command center.**  The sources are read in the order of `_COLLECTORS`, the inbox
in three statements (`ReadReplies`, `ReadUrgent`, `CountUnanswered`).  The second gather
of a brief reads afresh; in the code a row the session still holds keeps the columns
first loaded, so a source that changed meanwhile may be a mixture of both there, which
no property asks about.  `StatementFails` aborts the transaction and the statements after
it are refused (`IsRefused`), as PostgreSQL does; `Raises` is an error of the
collector's own.  The dashboard reads a file, so it is never refused.  A row of a source
is reduced to the fields its collector tests; `steady` is history: the sources that have
not changed since the request began.

**Analytics and Reports.**  Days are numbers and formats are marks: the format of the
first cell of a column decides which others can be read, as in `pd.to_datetime`.
Scores are compared squared, so integers suffice.  A report is one behaviour of four
steps (cut, analyse twice, compare) and a narrative that may name any metric.

**InsightCache.**  Each operation on the `OrderedDict` is one step and threads change
between any two: assignment, `move_to_end`, the test of the length, `popitem`.  The key is
the one the client posts with the analysis (`Post`): it is `Genuine` if it is the one the
analysis was given out with, and a client may as well send none or another's.

**ApiServer.**  The look into `_ENGINES` and `_SESSION_FACTORIES`, the creation and the
second look are separate steps, so two first requests may build two engines.  A pool is
a queue of idle connections, each marked by the restart of the database it belongs to,
and a count of those that are out.  `Connect` includes the ping, which replaces a
connection of before a restart.  Every `OperationalError` is answered as a database that
is not there, so a database that refuses one more connection (`ConnectRefused`) or ends a
statement (`StatementRefused`: a deadlock, a timeout) has that answer too; the record of
the answer notes it (`refused`).

**Gemini and Recording.**  A call draws on the allowance of its model whether or not
its connection drops; the allowance is renewed at any time.  Writing a file is two
steps, opening (which empties it) and writing.

## 3. The runs

Every run finishes; together the passing runs take every action.  "Violation" runs
check one statement of the repository that the code does not keep.

| run | what it checks | what it shows |
|---|---|---|
| engine | `ActsFollowApproval`, `PauseIsRecorded`, `EachNodeOnce`, `LimitMeansLoop`, `ImplementsGate`, `WalkEnds` | no outside action before a yes, also when a resume is handed another definition, unless the walk came to a node with the empty id; a paused execution names the approval node it waits at, so the `assert` in `resume` holds; a definition whose links make no circle, those to the empty id counted, runs a node at most once and meets the limit only if it has more nodes to walk to than that; every walk pauses or ends |
| builder | `KeptActsApproved`, `SendsAreLogged`, `UncontestedIsFinal` | the same, stored: across concurrent requests, edits and deletes between pause and decision, and requests that die, what is kept in the database tried nothing before its approval (the empty id apart), logs each message under the name it left with, and does not change once over |
| travel | `SendsWereApproved`, `ClosedInTurn`, `ResolvedIsDecided` | a message leaves only for a communication somebody approved, under overlapping decisions and deaths too; while requests come one at a time a decided incident is closed out with exactly the approved messages; as long as no assessment has overlapped a decision, no resolved incident has a draft that waits |
| inbox | `DecisionIsOfItsTextInTurn`, `SentOnce`, `ReadingIsWhole`, `ApprovedIsFinal` | drafts and decisions one at a time: an approved reply is final and reads as it was sent, whatever triages run beside; one reply leaves, or one more for each death; a category is kept with the reasoning it came with |
| tracker | `NoCycle`, `BlockedByWhatIsAbove`, `HealthIsExplained`, `WorkIsKept` | single writers make no cycle; in whatever is stored, concurrent cycles included, the walk finds what blocks a task; an assessment is stored with its own explanation; deleting a task takes no other along |
| recording | `FallsBackOnlyWhenSpent`, `DrawsAreBounded`, `NothingRecordedIsLost`, `RequestsEnd` | a request leaves a model only if its quota is spent (in this window), costs at most its retries on each model of its chain plus one call, a run that is repeated or dies loses no recording, requests and runs end |
| sop | `ImplementsSerial`, `ReadersAreCurrent` | of overlapping saves each adds the next version and gives the procedure its title as if it were alone, or does nothing; a reader finds what was saved before it asked; an answer cites nothing superseded before its question |
| command_center | `FailureStaysApart`, `SteadySourceIsReported`, `BriefIsOfOneGather`, `CriticalFirst`, `NewestShown` | a source that fails costs only itself, unless a statement has failed; a source that does not change while it is read is reported whole; counts, gaps and link of a brief are those of the gather the model saw; no warning above a critical signal while counts stay below 60 and trends below 600 %; the page shows the brief of the latest gather |
| parts | `LoopIsExact`, `GuardIsExact` | on each definition, `has_loop` is true exactly when a node that the start reaches can reach itself, and the approval check names exactly the high-risk nodes some route reaches without an approval |
| | `ReportIsOfItsPeriods`, `AnomalyNeedsEight` | a report states each measure on the latest day of its period against the latest day of the period just before; an anomaly needs eight values, whatever they are |
| | `CacheServes` | whoever stores and trims at once, an answer was made for a request with the same key, hence is about the findings asked about if both clients sent the key they had been given; no key is kept twice and the cache is within its limit when nobody is storing |
| | `SeededOnce`, `AdviceLeadsSomewhere` | demo projects are stored once unless two lists overlap, also after everything is deleted; links of an advice lead to tasks the project has or had |
| | `DiffReplays` | the lines of a comparison turn the old version into the new one, and back |
| | `SteadyDatabaseServes` | a request is told that the database is unavailable only if it was since the request began, or refused that very request; it goes without a connection only while all of its pool are held |
| command_source (violation) | `NeverTakenDown` | a statement that fails in one collector takes the page down with a 500, or loses a brief that was answered (`signals.py:481`, `tests/test_ops_command_center.py:241`) |
| travel_skew (violation) | `ClosedOnceDecided` | two people decide the last two drafts at once; each transaction sees the other's draft undecided and nobody closes the incident (`service.py:487`) |
| engine_empty_id (violation) | `EveryActFollowsApproval` | a definition with an email node whose id is empty passes the checks and runs it with no approval asked for (`engine.py:15`, `:163`) |

The modules of stored rows define a type invariant, `TypeOK`, which holds on the
instances of the runs and is proved, alone or as a part of an inductive invariant, in the
`...Proofs` modules; the cfgs spend their time on the properties that could fail.  Properties with `InTurn`, `alone`,
`apart` or `contested` say where they stop: those history variables note the overlap
without which the property holds; `travel_skew` shows an overlap that breaks one, and
section 5 describes the others.  They guard no action, so the overlapping behaviours are explored all the
same, and the unconditional properties are checked on them.

### Bounds, and why they are enough

* **parts**, validation: four nodes and the one with the empty id.  All linkings of two nodes and a target that does
  not exist, and of three nodes; all types of three nodes with one branch; all linkings
  of four nodes that end in an email.  Diamonds need three or four nodes, a guarded and
  an unguarded route of different length that meet need four; types beyond "approval",
  "high risk" and "other" are alike to both searches.
* **parts**, reports: tables of three rows with days missing, in two formats, on both
  sides of the end of a week; of seven and eight rows with two values, which is where an
  anomaly becomes possible; of up to three measures with a shared label and a measure
  named like an identifier.  Two headline metrics (code: `max_metrics`).
* **parts**, cache: two requests, three analyses (two with the same key), posted under either
  key or under none, a limit of two (code: 64) and four explanations: two requests with
  different or equal keys meet at a full cache in every order of their steps.
* **parts**, list of projects: two requests, one demo project, three projects, two tasks,
  seven calls; seed, finish, advise, delete and list again need six.  The proofs have no
  bound.
* **parts**, comparison: all versions of up to four lines over two texts and the blank
  one.
* **parts**, API process: three clients, a pool of one and one more (code: 5 and 10),
  two stops and restarts, three requests; three clients are one more than the pool has.
  Symmetric in clients; only invariants are checked there.
* **command_center**: two requests, three calls, one change or failure, one or two
  states of each source, with 59 blocked tasks and a trend of 599 percent: the largest
  values below those that break the ranking.  Symmetric in requests.
* **engine**: three nodes and the name of a fourth, one person, limit 3 (code:
  `MAX_STEPS`), two resumes.  All linkings of three nodes of three kinds, twelve
  peculiar definitions (a type without a handler, a loop behind an approval, a link that
  leads nowhere, no start, ...) and eight with the empty id (an act, an approval, a circle
  behind it, ...); a resume may receive five of these instead of the definition the run had.  The limit is met by definitions with a loop and by one whose
  third node links to a fourth it does not hold, and just missed by the longest others.
* **builder**: seven workflows of up to three nodes, one with an email under the empty id, one execution, two requests out of three,
  one death, limit 4, one resume.  Two requests and one row are the smallest instance
  of every overlap; the third request decides again after a death.
* **travel**: one booking, three communications, one person and the blank name, two
  requests at a time out of five, one death, one redeployment.  Five requests assess,
  decide, assess again and decide; ids are never used again, so three communications
  allow drafts to be replaced.
* **inbox**: two requests at a time out of five, two texts, three answers of two
  categories (two that agree on the category and differ in the reasoning), one death.
  Rejection, a new draft and approval need four.
* **tracker**: three tasks, two requests at a time out of four, `MaxDepth` 4 (code:
  50).  Cycles of two and three tasks and a task above a cycle fit; the depth exceeds
  the longest chain, as it does in the code for any plan of up to 50 tasks.  Symmetric
  in tasks and requests; no liveness is checked there.
* **recording**: two items and a visitor, three models (the fallbacks repeat the
  default, as the default configuration may), one retry, one call per window, one
  death.  One call per window makes every exhaustion happen.
* **sop**: two procedures, two requests at a time out of five, forms with two titles
  and with a blank one, two hits, three versions.  Symmetric in procedures and
  requests; no liveness is checked there.

Deadlock is checked in *recording*, whose system never stops.  Elsewhere requests are
counted up to `MaxCalls` and the model stops there, as the system does when nobody
calls: those configurations say `CHECK_DEADLOCK FALSE`.

### Fairness, and why the code justifies it

* engine: weak fairness of the one loop: nothing interrupts a thread.
* recording: weak fairness of the steps of each request and of the script: a thread runs
  on, and an AI call ends by the SDK's timeout, a backoff by `time.sleep`; never of starting the script,
  of visitors, of a new window or of deaths.  Requests end without the allowance ever
  being renewed.
* all others: none.  Their properties are safety properties.

## 4. The proofs

All theorems are about every value of the constants, so about any number of requests,
rows, deaths and calls; the last column names what is arbitrary besides.

| theorem | says | for every |
|---|---|---|
| `WorkflowProofs!SearchIsExact` | `GuardIsExact`: when the queue is empty the result is exactly the set of unguarded high-risk nodes | definition and set of nodes |
| `WorkflowProofs!LoopAnswerIsExact` | `LoopIsExact`: the answer is "loop" exactly if a node the start reaches can reach itself | the same, dangling links and unreachable parts included |
| `WorkflowProofs!TypeCorrect`, `NoActWithoutApproval`, `PausesAreRecorded` | `TypeOK`, `ActsFollowApproval`, `PauseIsRecorded` of the engine | definitions, people, handlers, any edit between run and resume |
| `WorkflowProofs!NodesRunOnce`, `LimitStopsOnlyLong` | `EachNodeOnce`, `LimitMeansLoop` | the same, every step limit |
| `WorkflowProofs!EngineImplementsGate` | the engine refines `ApprovalGate` | the same |
| `WorkflowProofs!BuilderActsApproved`, `SendsStayLogged`, `FinishedStaysFinished` | `KeptActsApproved`, `SendsAreLogged`, `UncontestedIsFinal` | executions, edits and deletes |
| `TravelOpsProofs!NothingLeavesUnapproved`, `ClosesInTurn`, `ResolvedStaysDecided` | `SendsWereApproved`, `ClosedInTurn`, `ResolvedIsDecided` | bookings, communications, people |
| `InboxProofs!InboxTypeCorrect`, `DecisionIsOfItsTextHolds`, `SentOnceHolds`, `ReadingIsWholeHolds`, `ApprovedIsFinalHolds` | `TypeOK`, `DecisionIsOfItsTextInTurn`, `SentOnce`, `ReadingIsWhole`, `ApprovedIsFinal` | texts, answers, people |
| `TrackerProofs!RowsStayLinked`, `NoCycleArises`, `WaitingWorkStays`, `HealthStaysExplained` | `TypeOK`, `NoCycle`, `WorkIsKept`, `HealthIsExplained` | finite set of tasks, answers |
| `TrackerProofs!BlockedIsByWhatIsAbove` | `BlockedByWhatIsAbove` | the same, of at most `MaxDepth` tasks |
| `RecordingProofs!LeavesOnlySpent`, `CostIsBounded`, `RecordingsStay` | `FallsBackOnlyWhenSpent`, `DrawsAreBounded`, `NothingRecordedIsLost` | chain, retries, allowance, items |
| `SopProofs!TypeCorrect`, `HistoryStaysTrue`, `ReadersStayCurrent`, `VersionsStay` | `TypeOK`, `HistoryIsTrue` (the versions of a procedure are numbered without gap or double), `ReadersAreCurrent`; a saved version is never changed or removed | procedures, versions, forms |
| `SopProofs!LibraryImplementsSerial` | the library refines `SerialSaves` | the same |
| `CommandCenterProofs!FailureCostsOneSource`, `SteadySourceStaysReported`, `BriefStaysOfOneGather`, `NewestStaysShown` | `FailureStaysApart`, `SteadySourceIsReported`, `BriefIsOfOneGather`, `NewestShown` | rows, changes and failures |
| `CommandCenterProofs!CriticalStaysFirst` | `CriticalFirst` | rows with counts below 60 and trends below 600 % |
| `PartsProofs!AdviceStaysUseful`, `SeedsStayApart` | `AdviceLeadsSomewhere`, `SeededOnce` | projects, tasks; whatever the model names |
| `PartsProofs!CacheStaysTrue` | `CacheServes` | threads, findings, posted keys, limits |
| `PartsProofs!SteadyDatabaseServesHolds` | `SteadyDatabaseServes` | finite set of clients, pool sizes |
| `PartsProofs!ComparisonReplays` | `DiffReplays` | versions, of any number of fields and lines |
| `PartsProofs!ReportsAreOfTheirPeriods` | `ReportIsOfItsPeriods` | tables, with any finite set of rows, and the three periods |
| `PartsProofs!AnomaliesNeedEight` | `AnomalyNeedsEight` | the same |

### How

**The search.**  It visits pairs of a node and whether an approval was met on the way.
Invariant: a node seen without approval is exposed (some route from the start reaches
it without one), the successors of every pair taken from the queue have been seen, and
the result holds the high-risk nodes among the pairs taken without approval.  With an
empty queue the nodes seen without approval are closed under links that leave no
approval node, and the exposed nodes are the least such set.

**The loop search.**  `LoopIsExact` says nothing of a search under way.  `LoopInv` adds that
the stack is a path from the start without repetition, on which each node comes after
all those below it (`StackIsPath`); that a successor of a node on the stack is still to
try, done, absent from the definition or the next node of the stack (`LinksAccounted`);
and that what is done leads only to what is done and not to itself (`DoneIsLoopFree`).
A link back to a node of the stack then closes a loop.  A node whose links are all tried
leads only into what is done, a closed set it is not in, so it may join it; when the
stack is empty all that the start reaches is done.

**The engine.**  `ActsFollowApproval` alone is not inductive: a state whose log has no
yes but whose cursor stands on an unguarded email satisfies it and the next step does
not.  `EngineInv` adds `StandsExposed` (until a yes or a node with the empty id is
in the log, the definition being walked is the one `run` checked, has no unguarded
high-risk node, and the cursor is at an exposed node or at the empty id), `RefusalEnds` (after a no the execution is over), `NamedDecisions` (each decision
has a person's name) and `NewIsEmpty`.  An exposed node that is high-risk would be
unguarded, so the walk cannot act before a yes; it leaves an exposed node along a link
that is exposed again, or to the empty id, or pauses at an approval.  What an edit brings before a resume
no longer matters: the resume itself logged the yes.

For `EachNodeOnce` and `LimitMeansLoop`, `OnceInv` says of a definition whose links
make no circle that the node the walk stands at comes after every node it has visited
(`StandsAfterAll`), as does, but for itself, the node a run is paused at; hence the node
is new.  The steps counted since the last resume are then at most the nodes visited
(`StepsAreVisits`), all of them nodes of the definition, which bounds them.

**The builder.**  One lemma about the walk, with any execution in the place of the
engine's variable (`Safe`, `OnPath`), serves both modules.  `BuilderInv` says that every
execution stored or held is `Safe` and that none is stored while it runs.  What was sent
needs more, `HoldInv`: an execution that is not `contested` is in one request's hands or
in nobody's (`Alone`); in a request's hands its log accounts for what has left
(`HoldersRecord`), in nobody's the stored log does (`RowsRecord`).  "Accounts for" is
stated by counting the sends of the log up to each place (`Records`), since a sequence
filtered by an operator cannot be expanded by the provers.

**Travel.**  `TravelInv` adds `DeciderSaid` (a request that approves has been asked to),
`ApprovedWasSaid` (so has every approved row) and `LockedExists` (a row a request has
updated is not deleted before its commit, since a deletion waits for the lock; without
it a commit could write into a row of another's making).  `TurnInv`, for requests one at
a time: at most one is under way (`OneHeld`), what is stored is `Settled` (a draft waits
only behind an open incident, and with no draft left the incident is resolved and each
approved message recorded), and what the request has read still fits what is stored.

`ResolvedIsDecided` needs less, only that no assessment overlaps a decision, and has an
invariant of its own.  `ApartInv`: requests under way are then of one kind (`OneKind`);
no draft waits behind a resolved incident (`NoDraftBehind`); the status an assessment has
loaded is the stored one, or another assessment has opened the incident since
(`AssessAgrees`), so that the column it leaves unwritten is not "resolved"; and a request
about to close the incident has seen every draft but its own decided (`DecideAgrees`),
which only an assessment could undo.

**The inbox.**  A flush writes the columns that differ, so a commit is right if those it
leaves alone are still as loaded.  `InboxInv` says so for the columns of the reply while
requests on the reply come in turn (`ReplyInTurn`) and for those of the reading while
triages are apart (`ReadingApart`), and what each request has computed (`Base`).

**The tracker.**  That a task never waits for itself is stated with closed sets: above
each task there is a set closed under "waits for" that it is not in (`Acyclic`).  One link
keeps this if its target has such a set without its source, which is what the walk of
`_validate_dependency`, while requests come in turn, has found (`UpdateFits`).
`BlockedByWhatIsAbove` needs no invariant but `TypeOK`: by induction over the depth the
recursive function is shown to find what a chain of that length finds, and a chain
longer than there are tasks repeats one.  It has a hypothesis, `Cardinality(Task) <=
MaxDepth`: the walk gives up after 50 tasks (`facts.py`), and above that the property is
false in the code too.  For the health, `AssessInv`: the one assessment under way has
loaded what is stored.

**The command center.**  `Inv` judges what a request has gathered by the sources it has
counted (`GatherInv`): all its signals are theirs, so those of the source read next are
told apart, and what is read of the inbox is what the inbox holds while it is steady
(`SteadyInv`).  For `CriticalFirst`, `RankInv` bounds the score of each signal by its
severity (`InBounds`).  Its hypothesis `CountsBelow60` is the bound below which the
code's weights keep the order; with larger counts the property is false in the code too
(section 5).

**Recording.**  Added are `Costs` (what a request has drawn is bounded by the position
and attempt it has reached), `SleepsBeforeLast` (a request that waits has an attempt
left) and `AsksForMissing` (the script asks only for an item that has no file, which is
why no whole recording is opened again).

**Sop.**  Added is `LoadedIsPast`: the row an edit has loaded is one the procedure has
had: its number is not above the present one, and if it equals it the row is as loaded.
A save whose number is free has therefore loaded the present row, so that the partial
UPDATE writes what it would have written alone, and the new version is the next one.
That the unique constraint makes this safe without a lock is the content of the proof.
For the refinement each step is then a stutter or one `Save` of `SerialSaves`, on the
tables as they are; there the next number is counted, and `CurrentCounts` shows by a
bijection that the count is the procedure's number.

**The list of projects.**  For the advice, `AdviceIsKnown` is added: while a request waits
for the model, each task it was shown is one its project has or had, or the project is
gone; since ids are never used again (`BoardType`: all are below the next one) a project
that is gone stays gone.  For the seeding, `SeedsApart`: a request that seeds alone is
the only one that seeds and finds no demo project on the board, and while a project of
such a seed is on the board nobody seeds.  The first holds because a request starts
to seed only on an empty board, and the flag of a running seed is taken away when
another one starts.

**The cache of explanations.**  `InsightInv` adds that every entry is an explanation under
the key it was asked for with, that no key is there twice, and that a cache beyond its
limit has a request that will look at its length (`WillTrim`): one that trims, or one
whose own key is still there to be moved.

**The API process.**  `ApiInv` counts: what is out of a pool is exactly what requests
hold of it (`Counted`), at most its capacity; and a request that has seen the database up
all along holds a connection of its present age, which breaks only if the database ends
its statement, and the answer then notes so.

**The comparison.**  The code compares two texts by recursion: the longest run of equal
lines, then what is before it and what is after.  `ComparisonReplays` follows it: that
the recursive functions are defined on all boxes of two texts is shown by iterating them
(`IterationExists`, `DiffIsFunction`), and that what is shown of a box gives back its
lines on both sides by induction over the size of boxes (`PartIsShown`,
`PartOfSmaller`), where a text of three slices is put together again (`ThreeSlices`).

**The report.**  `ReportInv` says what each stage has computed from the stage before;
the rest is about tables.  For `AnomalyNeedsEight`: if the distances of n values from
one of them add up to a and their squares to b, then a² is at most (n - 1) b
(`OneMore`), so 2.5 deviations take more than seven values.  A sum over a set of rows is
unfolded row by row along some order of choice (`Pick`, `SumsExist`), as the folds of
the library choose their own.  For `ReportIsOfItsPeriods`: the stamps of a date column
are its days or missing (`Stamps`), so the two windows hold exactly the rows of the last
period and of the one before (`WindowsArePeriods`); a window of a plain table has the
table's date axis and its measures (`WindowAxis`, `WindowMetrics`); the places of its
rows follow their days however ties fall (`PlacesFollowDays`), so the last value of a
metric is one of the latest day (`MetricIsLatest`); and a change is of the metric whose
label it bears (`ChangeOfOne`).

**Induction.**  The induction theorems of the library take an operator, which the provers
cannot instantiate.  Where a proof needs induction over numbers it takes the least
counterexample instead (`LeastNatural`, `Induction`), from the library's theorem that `<`
is well founded; a recursive function over numbers or boxes is shown to exist by
iterating its body (`IterationExists`).

**Checked before proved.**  Besides the properties, which are invariants of the runs,
TLC was given the strengthened invariants `BuilderInv`, `HoldInv`, `TurnInv`, `ApartInv`, `TaskInv`,
`AssessInv`, `ReportInv`, and `Inv` and `RankInv` of the command center, on the
instances of the runs.

**Assumptions.**  Each module names its own (`WorkflowsAssumption`, `EngineAssumption`,
`GeminiAssumption`, `PartsAssumption`, ...): types of the constants, that markers such as
`NoRow` are no rows, and that a definition has finitely many nodes, a project finitely
many tasks, the API finitely many clients and a table finitely many rows, whose cells
are of the dtype of their column.  TLC evaluates each on the runs.
`OthersAssumption` says that filtering the list of fallbacks gives a list of models; it
is an assumption because `SelectSeq` takes an operator, which the provers do not expand.

**Model-checked only.**  `WalkEnds` and `RequestsEnd`: they are liveness under fairness,
which the prover does not do.  Every other property of a passing run is a theorem.

## 5. What is not modelled, and why

* Prompts, wording, rendering, listing and grouping: no property tells them apart.
  Similarity of procedures and confidence of the model are free choices.
* The other two AI providers (`anthropic`, `openai`): they make one call and leave
  retries to their SDK.
* Templates and duplicates of workflows, editing of a project's own fields: each writes
  one fresh or one loaded row, as modelled for the others.
* Statistics of columns, breakdowns and charts of the dashboard: floating point and
  data frames.  The modelled part of the analysis is what decides which claims a report
  may make.
* Document processing: file formats, and no state of its own.
* The web application: a page holds one request at a time.  Its panels keep edited text
  beside a pending request and would be the next component to look at.
* Configuration, error classes, ids, clocks and the activity log: settings are read once,
  and nothing reads the activity log back to decide anything.
* `generate_demo_data.py` writes sample files from a fixed seed.  What matters about it,
  that running it again changes the booking data under stored incidents, is `Redeploy`
  in `TravelOps`.
* The meeting assistant is not built.

Observed in the code and not the subject of a run; the first ten come about in the models
too, where the condition of a property leaves them out or no property speaks of them:

* a draft that commits after an approval it overlapped puts its text under that approval,
  and an approval that commits after a rejection keeps the note of the rejection on the
  approved row: columns that equal the loaded ones are not written
  (`aiops_inbox/service.py:307-331`, `:370-402`).  The comment at `:326` calls an approval of a
  replaced text a lie;
* two decisions on one draft of the inbox or of an incident both pass the check of its
  status: a reply is sent and then recorded as rejected, or a rejected communication
  names a recorded message (`aiops_travelops/service.py:491`);
* an assessment that overlaps a close-out can leave the incident resolved over fresh
  drafts, whichever commits first (`aiops_travelops/service.py:459`, `:512`);
* of two decisions on one paused execution of the builder the later commit wins, so an
  execution that is over changes (`aiops_builder/service.py:284`);
* a message whose request dies before its commit leaves no trace in the log, and the next
  decision sends it again (`handlers.py:248`, `aiops_inbox/service.py:393`);
* two triages that write at once merge their columns (`aiops_inbox/service.py:265`), and so
  do two assessments of a project (`aiops_tracker/service.py:352`);
* two dependencies written at once can close a cycle (`aiops_tracker/service.py:202`), and
  two first lists store the demo projects twice (`:102`);
* a recording torn by a script that died stays on disk as no JSON, and every later run of
  the script ends at it (`providers/demo.py:201`);
* `insights.py:130` and `:154` take the key of an analysis as the client posts it, and it
  may be missing (`aiops_dashboard/models.py:63`): clients that post no key, or another's,
  share an entry and are answered with a report on other findings;
* `apps/api/app/errors.py:58` answers every `OperationalError` with a 503 that says the
  database is unavailable, a deadlock and a statement that took too long included, while
  its docstring speaks of a connection failure that "has one cause";
* `services/workflow-engine/aiops_workflow/engine.py:225` looks for
  `_estimated_cost_usd` in a node's output and the builder's handlers write `_ai_cost`
  (`handlers.py:129`), so no AI step of a workflow has the cost `types.py:105` speaks of;
* a definition without a loop whose number of nodes is the step limit and whose last link
  leads nowhere is told that it probably contains a loop, not that a step is missing: the
  limit is tested first (`engine.py:165`);
* all messages of an incident leave under the name of the last person who decided
  (`aiops_travelops/service.py:570`), while `models.py:154` keeps an approver for each;
* after the booking data is regenerated, drafts are checked against the agencies of the
  stored bookings and the workflow looks the bookings up again, so a draft can address
  an agency the incident no longer names (`aiops_travelops/service.py:310`), what the
  comment on checking recipients says must not happen;
* of two first triages of one email the second fails on the unique column after its AI
  request was paid for (`aiops_inbox/service.py:229`);
* a process that starts while its database is down goes on without creating tables and
  does not try again: afterwards `/health/ready` answers ok and the projects fail with
  a 500, not the 503 that `apps/api/app/main.py:90` announces;
* a request that waits too long for a connection of its own pool fails with a 500, and
  the probe takes the words "timed out" for a host that does not answer
  (`routers/health.py:83-87`);
* fewer than eight values never hold an anomaly, which is `AnomalyNeedsEight`, and no text of
  the dashboard says so;
* a score grows with counts, so sixty blocked tasks outrank a critical signal
  (`aiops_command/signals.py`): `CriticalFirst` is checked below that size;
* rows without a date are sorted last, hence are taken for the latest ones by a measure
  that has no other value (`aiops_dashboard/analysis.py:92`, `:156`); a report takes the
  format of the first date of the column for all of them (`aiops_report/periods.py`),
  while the analysis reads mixed formats;
* two measures whose labels collide are not compared between periods
  (`aiops_report/periods.py:171`);
* the create route of the SOP library never passes `generated`, so `ai_generated` is
  always false, although `projects/ai-sop-generator/aiops_sop/models.py:94-96` calls it
  part of the audit trail;
* whether `session_scope` commits before or after the answer is sent depends on the
  version of FastAPI (`>=0.115`), so a client may read before its own write is there;
* the brief of the command center counts as stale by the counts of its signals only.

## 6. Plan

Done: every module of section 2 with its runs; the proofs of section 4.

Left, in this order:

1. A property for the drafts of `TravelOps` that address an agency which is no longer
   named, once a stored column says which bookings a draft was checked against.
2. The panels of the web application that keep a pending request beside edited text.
