------------------------------ MODULE ApiServer -------------------------------
(***************************************************************************)
(* The API process and its connections to the database (apps/api,          *)
(* packages/database): what it does at start, the engine and the session   *)
(* factory that the first requests create, the connections requests hold,  *)
(* and what is answered when the database is not there.                    *)
(*                                                                         *)
(* A request holds its connection until it ends, AI requests included.     *)
(***************************************************************************)
EXTENDS Integers, Sequences, FiniteSets

CONSTANTS Request,
          Settings,               \* what the environment may say: [url, auto, allow]
          PoolSize, MaxOverflow,  \* connections kept (5), and on top of them (10)
          MaxCalls,               \* bound of the model: requests
          MaxEvents               \* bound of the model: stops and restarts of the database

VARIABLES settings,         \* what the environment says
          database,         \* `age' counts its restarts
          server,           \* "starting" or "serving"
          pools,            \* per engine created: idle connections, and how many are out
          engine, factory,  \* the engine cached, and that of the cached session factory
          call, calls, events

vars == <<settings, database, server, pools, engine, factory, call, calls, events>>
caches == <<pools, engine, factory>>

Idle == [stage |-> "idle"]

Init ==
  /\ settings \in Settings
  /\ database \in [up : BOOLEAN, age : {1}, tables : BOOLEAN]
  /\ server = "starting"
  /\ pools = << >> /\ engine = 0 /\ factory = 0
  /\ call = [r \in Request |-> Idle] /\ calls = 0 /\ events = 0

Configured == settings.url # "none"

(* create_all refuses a database that is not on this machine.              *)
MayCreate == settings.url = "local" \/ settings.allow

(* lifespan: whatever becomes of the tables, the process starts.  They are *)
(* created together or, without the vector extension, not at all.          *)
Start ==
  /\ server = "starting" /\ server' = "serving"
  /\ IF Configured /\ settings.auto /\ MayCreate
     THEN /\ pools' = << [idle |-> IF database.up THEN <<database.age>> ELSE << >>, out |-> 0] >>
          /\ engine' = 1
          /\ \/ database.up /\ database' = [database EXCEPT !.tables = TRUE]
             \/ UNCHANGED database
     ELSE UNCHANGED <<pools, engine, database>>
  /\ UNCHANGED <<settings, factory, call, calls, events>>

Stop ==
  /\ database.up /\ events < MaxEvents /\ events' = events + 1
  /\ database' = [database EXCEPT !.up = FALSE]
  /\ call' = [r \in Request |-> IF call[r].stage \in {"idle", "ended"} THEN call[r]
                                ELSE [call[r] EXCEPT !.steady = FALSE]]
  /\ UNCHANGED <<settings, server, caches, calls>>

Restart ==
  /\ ~database.up /\ events < MaxEvents /\ events' = events + 1
  /\ database' = [database EXCEPT !.up = TRUE, !.age = @ + 1]
  /\ UNCHANGED <<settings, server, caches, call, calls>>

-----------------------------------------------------------------------------
At(r, stage) == call[r].stage = stage
Becomes(r, c) == call' = [call EXCEPT ![r] = c]
Same == UNCHANGED <<settings, database, server, calls, events>>

Pool(r) == pools[call[r].pool]
Holders(p) == {r \in Request : At(r, "working") /\ call[r].pool = p}

(* What a request is answered is kept if it failed for its connection, and *)
(* whether the database, being there, turned it away.                      *)
Answered(r, answer, refused) ==
  Becomes(r, [stage |-> "ended", kind |-> call[r].kind, answer |-> answer, refused |-> refused,
              steady |-> call[r].steady, held |-> Cardinality(Holders(call[r].pool))])

Ends(r, answer) == Answered(r, answer, FALSE)

(* A route that needs the database (get_db), or the readiness probe;       *)
(* without one configured, the first is refused and the second says so.    *)
Begin(r, kind) ==
  /\ server = "serving"
  /\ call[r].stage \in {"idle", "ended"} /\ calls < MaxCalls /\ calls' = calls + 1
  /\ Becomes(r, IF Configured
                THEN [stage |-> "look", kind |-> kind, pool |-> 0, age |-> 0, steady |-> database.up]
                ELSE Idle)
  /\ UNCHANGED <<settings, database, server, caches, events>>

(* get_session_factory and get_engine look into dictionaries that every    *)
(* thread shares, create what is missing, and look again.                  *)
NeedsEngine(r) == At(r, "look") /\ (call[r].kind = "data" => factory = 0)

UseFactory(r) ==
  /\ factory # 0 /\ (At(r, "look") \/ At(r, "bound")) /\ call[r].kind = "data"
  /\ Becomes(r, [call[r] EXCEPT !.stage = "connect", !.pool = factory])
  /\ UNCHANGED caches

FindEngine(r) ==
  /\ engine # 0 /\ (NeedsEngine(r) \/ At(r, "built"))
  /\ Becomes(r, [call[r] EXCEPT !.stage = IF call[r].kind = "data" THEN "bind" ELSE "connect",
                                !.pool = engine])
  /\ UNCHANGED caches

MissEngine(r) ==
  /\ engine = 0 /\ NeedsEngine(r)
  /\ Becomes(r, [call[r] EXCEPT !.stage = "build"])
  /\ UNCHANGED caches

BuildEngine(r) ==
  /\ At(r, "build")
  /\ pools' = Append(pools, [idle |-> << >>, out |-> 0])
  /\ engine' = Len(pools')
  /\ Becomes(r, [call[r] EXCEPT !.stage = "built"])
  /\ UNCHANGED factory

BindFactory(r) ==
  /\ At(r, "bind")
  /\ factory' = call[r].pool
  /\ Becomes(r, [call[r] EXCEPT !.stage = "bound"])
  /\ UNCHANGED <<pools, engine>>

-----------------------------------------------------------------------------
IsFull(r) == Pool(r).out >= PoolSize + MaxOverflow
Rest(idle) == IF idle = << >> THEN << >> ELSE Tail(idle)

(* Mutant: an idle connection is used as it is.                            *)
ConnectUnpinged(r) ==
  /\ At(r, "connect") /\ ~IsFull(r) /\ database.up
  /\ pools' = [pools EXCEPT ![call[r].pool] = [idle |-> Rest(@.idle), out |-> @.out + 1]]
  /\ Becomes(r, [call[r] EXCEPT !.stage = "working",
                                !.age = IF Pool(r).idle = << >> THEN database.age ELSE Head(Pool(r).idle)])
  /\ UNCHANGED <<engine, factory>>

(* The first statement takes a connection.  The one idle longest is        *)
(* pinged, and replaced if it does not answer (pool_pre_ping).             *)
Connect(r) ==
  /\ At(r, "connect") /\ ~IsFull(r) /\ database.up
  /\ pools' = [pools EXCEPT ![call[r].pool] = [idle |-> Rest(@.idle), out |-> @.out + 1]]
  /\ Becomes(r, [call[r] EXCEPT !.stage = "working", !.age = database.age])
  /\ UNCHANGED <<engine, factory>>

ConnectFails(r) ==
  /\ At(r, "connect") /\ ~IsFull(r) /\ ~database.up
  /\ pools' = [pools EXCEPT ![call[r].pool].idle = Rest(@)]
  /\ Ends(r, "unavailable")
  /\ UNCHANGED <<engine, factory>>

(* A database that is there may take no further connection.                *)
ConnectRefused(r) ==
  /\ At(r, "connect") /\ ~IsFull(r) /\ database.up
  /\ Pool(r).idle # << >> => Head(Pool(r).idle) # database.age
  /\ pools' = [pools EXCEPT ![call[r].pool].idle = Rest(@)]
  /\ Answered(r, "unavailable", TRUE)
  /\ UNCHANGED <<engine, factory>>

(* A wait that is too long is no OperationalError: a route answers it like *)
(* any unexpected error, the probe like a database that is not there.      *)
WaitTooLong(r) ==
  /\ At(r, "connect") /\ IsFull(r)
  /\ Ends(r, IF call[r].kind = "data" THEN "error" ELSE "unavailable")
  /\ UNCHANGED caches

(* session_scope ends: the connection goes back, or is closed as surplus.  *)
Alive(r) == database.up /\ call[r].age = database.age

GivesBack(r) ==
  /\ pools' = [pools EXCEPT ![call[r].pool] =
       [idle |-> IF Len(@.idle) < PoolSize THEN Append(@.idle, call[r].age) ELSE @.idle,
        out |-> @.out - 1]]
  /\ UNCHANGED <<engine, factory>>

Finish(r) ==
  /\ At(r, "working") /\ Alive(r)
  /\ call[r].kind = "data" => database.tables
  /\ GivesBack(r) /\ Becomes(r, Idle)

(* Refused, or an AI request that failed, or no tables: not the database.  *)
Raise(r) ==
  /\ At(r, "working") /\ Alive(r) /\ call[r].kind = "data"
  /\ GivesBack(r) /\ Becomes(r, Idle)

(* The database ends one statement, for a deadlock or a timeout: that is   *)
(* an OperationalError too, and answered as if the database were not there *)
(* (handle_database_unavailable).                                          *)
StatementRefused(r) ==
  /\ At(r, "working") /\ Alive(r)
  /\ GivesBack(r) /\ Answered(r, "unavailable", TRUE)

(* The statement or the commit finds the connection broken.                *)
Lose(r) ==
  /\ At(r, "working") /\ ~Alive(r)
  /\ pools' = [pools EXCEPT ![call[r].pool].out = @ - 1]
  /\ Ends(r, "unavailable")
  /\ UNCHANGED <<engine, factory>>

Step(r) ==
  \/ UseFactory(r) \/ FindEngine(r) \/ MissEngine(r) \/ BuildEngine(r) \/ BindFactory(r)
  \/ Connect(r) \/ ConnectFails(r) \/ ConnectRefused(r) \/ WaitTooLong(r)
  \/ Finish(r) \/ Raise(r) \/ StatementRefused(r) \/ Lose(r)

Next ==
  \/ Start \/ Stop \/ Restart
  \/ \E r \in Request :
       \/ \E kind \in {"data", "ready"} : Begin(r, kind)
       \/ Step(r) /\ Same

Spec == Init /\ [][Next]_vars

-----------------------------------------------------------------------------
(* A request is told that the database is unavailable only if it was, at   *)
(* some time since the request began, or itself refused this very request  *)
(* a connection or ended its statement: a restart before the request       *)
(* leaves no stale connection to fail on ("survive a database restart      *)
(* without stale connections", session.py).  It is left without a          *)
(* connection, or the probe told so, only while as many requests hold one  *)
(* as its pool gives: none is lost, however requests end.                  *)
SteadyDatabaseServes ==
  \A r \in Request : At(r, "ended") =>
    LET starved == call[r].held = PoolSize + MaxOverflow
    IN /\ call[r].answer = "unavailable" =>
            ~call[r].steady \/ call[r].refused \/ (call[r].kind = "ready" /\ starved)
       /\ call[r].answer = "error" => starved
=============================================================================
