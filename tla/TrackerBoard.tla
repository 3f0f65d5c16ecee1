---------------------------- MODULE TrackerBoard -----------------------------
(***************************************************************************)
(* The list of tracked projects (projects/ai-project-tracker, service.py,  *)
(* router.py): seeded by the first request that finds it empty, and the    *)
(* advice on what to do next, which is stored with links to the tasks the  *)
(* model named.  Dependencies and the assessment are in module Tracker.    *)
(*                                                                         *)
(* Only ids, whether a task is done, and which demo project a project is   *)
(* are kept.                                                               *)
(***************************************************************************)
EXTENDS Integers, FiniteSets

CONSTANTS Request,
          Demo,         \* the projects of seed.py
          Own, Nowhere, \* a project of the visitor's; an id the model invented
          MaxProjects,  \* bounds of the model
          MaxTasks,
          MaxCalls

ASSUME BoardAssumption == IsFiniteSet(Demo) /\ Own \notin Demo

VARIABLES board,   \* the committed projects, by id
          nextId,    \* the id of the next one
          call, calls

boardVars == <<board, nextId, call, calls>>

Idle == [kind |-> "idle"]

BoardInit == board = << >> /\ nextId = 1 /\ call = [r \in Request |-> Idle] /\ calls = 0

Becomes(r, c) == call' = [call EXCEPT ![r] = c] /\ UNCHANGED calls

Begin(r, c) == call[r].kind = "idle" /\ calls < MaxCalls /\ calls' = calls + 1
               /\ call' = [call EXCEPT ![r] = c]

Ends(r) == Becomes(r, Idle)

(* `open' and `done' are its tasks, `gone' those deleted since; `alone' is *)
(* about how it was stored.                                                *)
Project(kind, open, alone) ==
  [kind |-> kind, open |-> open, done |-> {}, gone |-> {}, links |-> {}, alone |-> alone]

Tasks(p) == {<<p, t>> : t \in board[p].open \cup board[p].done}
Used(p) == board[p].open \cup board[p].done \cup board[p].gone

-----------------------------------------------------------------------------
(* Mutant: only projects with work left are looked for.                    *)
IsEmptyOfWork == \A p \in DOMAIN board : board[p].open = {}

IsEmpty == board = << >>

Seeding == {r \in Request : call[r].kind = "seed"}

(* list_projects, seed_if_empty: with projects there it only reads.        *)
BeginSeed(r) ==
  /\ IsEmpty /\ nextId + Cardinality(Demo) - 1 <= MaxProjects
  /\ call[r].kind = "idle" /\ calls < MaxCalls /\ calls' = calls + 1
  /\ call' = [q \in Request |->
       IF q = r THEN [kind |-> "seed", alone |-> Seeding = {}]
       ELSE IF q \in Seeding THEN [call[q] EXCEPT !.alone = FALSE] ELSE call[q]]
  /\ UNCHANGED <<board, nextId>>

(* The demo projects are committed together; a second list may have        *)
(* committed them too.                                                     *)
CommitSeed(r) ==
  /\ call[r].kind = "seed" /\ nextId + Cardinality(Demo) - 1 <= MaxProjects
  /\ \E id \in [Demo -> nextId..(nextId + Cardinality(Demo) - 1)] :
       /\ \A d, e \in Demo : id[d] = id[e] => d = e
       /\ board' = [p \in DOMAIN board \cup {id[d] : d \in Demo} |->
                      IF p \in DOMAIN board THEN board[p]
                      ELSE Project(CHOOSE d \in Demo : id[d] = p, {1}, call[r].alone)]
  /\ nextId' = nextId + Cardinality(Demo)
  /\ Ends(r)

(* A seed that fails is rolled back and the list is shown without it.      *)
SeedFails(r) == call[r].kind = "seed" /\ Ends(r) /\ UNCHANGED <<board, nextId>>

-----------------------------------------------------------------------------
CreateProject(r) ==
  /\ nextId <= MaxProjects
  /\ board' = [p \in DOMAIN board \cup {nextId} |->
                 IF p = nextId THEN Project(Own, {}, TRUE) ELSE board[p]]
  /\ nextId' = nextId + 1
  /\ Begin(r, Idle)

(* delete_project: its tasks and its advice go with it.                    *)
DeleteProject(r, p) ==
  /\ p \in DOMAIN board
  /\ board' = [q \in DOMAIN board \ {p} |-> board[q]]
  /\ Begin(r, Idle)
  /\ UNCHANGED nextId

WriteTask(r, p, project) ==
  /\ board' = [board EXCEPT ![p] = project]
  /\ Begin(r, Idle)
  /\ UNCHANGED nextId

CreateTask(r, p) ==
  /\ p \in DOMAIN board /\ Cardinality(Used(p)) < MaxTasks
  /\ WriteTask(r, p, [board[p] EXCEPT !.open = @ \cup {Cardinality(Used(p)) + 1}])

FinishTask(r, p, t) ==
  /\ p \in DOMAIN board /\ t \in board[p].open
  /\ WriteTask(r, p, [board[p] EXCEPT !.open = @ \ {t}, !.done = @ \cup {t}])

DeleteTask(r, p, t) ==
  /\ p \in DOMAIN board /\ t \in board[p].open \cup board[p].done
  /\ WriteTask(r, p, [board[p] EXCEPT !.open = @ \ {t}, !.done = @ \ {t}, !.gone = @ \cup {t}])

-----------------------------------------------------------------------------
(* suggest_next_actions: the tasks are those loaded before the AI request. *)
BeginAdvise(r, p) ==
  /\ p \in DOMAIN board /\ board[p].open # {}
  /\ Begin(r, [kind |-> "advise", project |-> p, tasks |-> Tasks(p)])
  /\ UNCHANGED <<board, nextId>>

(* Mutant: whatever the model names becomes a link.                        *)
KnownAnything(r, claim) == TRUE

Known(r, claim) == claim \in call[r].tasks

(* The model may name a task it was shown, one of another project, or one  *)
(* of its invention.  Storing fails when the project is gone.              *)
CommitAdvise(r, claims) ==
  /\ call[r].kind = "advise"
  /\ claims \subseteq UNION {Tasks(p) : p \in DOMAIN board} \cup call[r].tasks \cup {<<0, Nowhere>>}
  /\ board' = [p \in DOMAIN board |->
                 IF p = call[r].project
                 THEN [board[p] EXCEPT !.links = {c \in claims : Known(r, c)}] ELSE board[p]]
  /\ Ends(r)
  /\ UNCHANGED nextId

AIFails(r) == call[r].kind = "advise" /\ Ends(r) /\ UNCHANGED <<board, nextId>>

Claimed == SUBSET ((1..MaxProjects) \X (1..MaxTasks) \cup {<<0, Nowhere>>})

BoardNext ==
  \E r \in Request :
    \/ BeginSeed(r) \/ CommitSeed(r) \/ SeedFails(r) \/ CreateProject(r) \/ AIFails(r)
    \/ \E p \in 1..MaxProjects :
         \/ DeleteProject(r, p) \/ CreateTask(r, p) \/ BeginAdvise(r, p)
         \/ \E t \in 1..MaxTasks : FinishTask(r, p, t) \/ DeleteTask(r, p, t)
    \/ \E claims \in Claimed : Cardinality(claims) <= 2 /\ CommitAdvise(r, claims)

BoardSpec == BoardInit /\ [][BoardNext]_boardVars

-----------------------------------------------------------------------------
(* No demo project is stored twice, unless both times another list was     *)
(* being seeded at the same time; deleting everything and listing again    *)
(* does not double it either.                                              *)
SeededOnce ==
  \A p, q \in DOMAIN board :
    p # q /\ board[p].kind = board[q].kind /\ board[p].kind \in Demo =>
      ~board[p].alone /\ ~board[q].alone

(* A stored link leads to a task of its own project, or one that was there *)
(* when the advice was asked for and has been deleted ("rather than        *)
(* storing a link that leads nowhere", service.py).                        *)
AdviceLeadsSomewhere ==
  \A p \in DOMAIN board : \A link \in board[p].links : link[1] = p /\ link[2] \in Used(p)
=============================================================================
