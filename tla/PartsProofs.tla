----------------------------- MODULE PartsProofs -----------------------------
(***************************************************************************)
(* Proofs about parts of the toolkit that share no state: the list of      *)
(* projects, the cache of explanations, the API process with its pools of  *)
(* connections, the comparison of versions and the report.                 *)
(***************************************************************************)
EXTENDS Parts, FiniteSetTheorems, SequenceTheorems, WellFoundedInduction, TLAPS

-----------------------------------------------------------------------------
(***************************************************************************)
(* Proofs about the list of projects, for any number of requests, demo     *)
(* projects and tasks.                                                     *)
(***************************************************************************)
(* The fields of a project; ids are never used again.                      *)
IsProject(x) == {"kind", "open", "done", "gone", "links", "alone"} \subseteq DOMAIN x

BoardType ==
  /\ nextId \in Int
  /\ DOMAIN board \subseteq Int
  /\ \A p \in DOMAIN board : IsProject(board[p]) /\ p < nextId

IsCall(c) ==
  /\ c.kind = "seed" => {"kind", "alone"} \subseteq DOMAIN c
  /\ c.kind = "advise" => c.project \in Int

CallType ==
  /\ call = [r \in Request |-> call[r]]
  /\ \A r \in Request : IsCall(call[r])

(* While advice is asked for, its project has the tasks the model is shown *)
(* or had them, unless the project is gone for good.                       *)
AdviceIsKnown ==
  \A r \in Request : call[r].kind = "advise" =>
    /\ call[r].project < nextId
    /\ call[r].project \in DOMAIN board =>
         \A t \in call[r].tasks : t[1] = call[r].project /\ t[2] \in Used(call[r].project)

AdviceInv == BoardType /\ CallType /\ AdviceIsKnown /\ AdviceLeadsSomewhere

-----------------------------------------------------------------------------
(* A demo project gets an id that was free, and only one demo project has  *)
(* it.                                                                     *)
LEMMA FreshProject ==
  ASSUME nextId \in Int,
         NEW id \in [Demo -> nextId..(nextId + Cardinality(Demo) - 1)],
         \A d, e \in Demo : id[d] = id[e] => d = e
  PROVE  /\ Cardinality(Demo) \in Nat
         /\ \A d \in Demo : id[d] \in Int /\ nextId <= id[d] /\ id[d] < nextId + Cardinality(Demo)
         /\ \A p \in {id[d] : d \in Demo} :
              /\ (CHOOSE d \in Demo : id[d] = p) \in Demo
              /\ id[CHOOSE d \in Demo : id[d] = p] = p
  <1>1. Cardinality(Demo) \in Nat
    BY FS_CardinalityType, BoardAssumption
  <1>2. ASSUME NEW d \in Demo
        PROVE  id[d] \in Int /\ nextId <= id[d] /\ id[d] < nextId + Cardinality(Demo)
    BY <1>1
  <1>3. ASSUME NEW p \in {id[d] : d \in Demo}
        PROVE  /\ (CHOOSE d \in Demo : id[d] = p) \in Demo
               /\ id[CHOOSE d \in Demo : id[d] = p] = p
    <2>1. \E d \in Demo : id[d] = p
      BY <1>3
    <2>2. QED
      BY <2>1
  <1>4. QED
    BY <1>1, <1>2, <1>3

-----------------------------------------------------------------------------
(* The advice.                                                             *)
LEMMA AdviceInit ==
  ASSUME BoardInit
  PROVE  AdviceInv
  <1>1. BoardType /\ AdviceLeadsSomewhere
    BY DEF BoardInit, BoardType, AdviceLeadsSomewhere
  <1>2. CallType
    BY DEF BoardInit, CallType, IsCall, Idle
  <1>3. AdviceIsKnown
    BY DEF BoardInit, AdviceIsKnown, Idle
  <1>4. QED
    BY <1>1, <1>2, <1>3 DEF AdviceInv

LEMMA AdviceBeginSeed ==
  ASSUME AdviceInv, NEW r \in Request, BeginSeed(r)
  PROVE  AdviceInv'
  <1>1. BoardType' /\ AdviceLeadsSomewhere'
    BY DEF AdviceInv, BeginSeed, BoardType, AdviceLeadsSomewhere, Used
  <1>2. ASSUME NEW q \in Request
        PROVE  /\ IsCall(call'[q])
               /\ call'[q].kind = "advise" => call'[q] = call[q]
    <2>1. CASE q = r
      BY <2>1 DEF BeginSeed, IsCall
    <2>2. CASE q # r /\ q \in Seeding
      <3>1. call[q].kind = "seed" /\ {"kind", "alone"} \subseteq DOMAIN call[q]
        BY <2>2 DEF AdviceInv, CallType, IsCall, Seeding
      <3>2. call'[q] = [call[q] EXCEPT !.alone = FALSE]
        BY <2>2 DEF BeginSeed
      <3>3. call'[q].kind = "seed" /\ DOMAIN call'[q] = DOMAIN call[q]
        BY <3>1, <3>2
      <3>4. QED
        BY <3>1, <3>3 DEF IsCall
    <2>3. CASE q # r /\ q \notin Seeding
      BY <2>3 DEF AdviceInv, CallType, BeginSeed
    <2>4. QED
      BY <2>1, <2>2, <2>3
  <1>3. CallType' /\ AdviceIsKnown'
    BY <1>2 DEF AdviceInv, CallType, AdviceIsKnown, BeginSeed, Used
  <1>4. QED
    BY <1>1, <1>3 DEF AdviceInv

(* Requests that end leave those that go on as they were.                  *)
LEMMA AdviceEnds ==
  ASSUME CallType, NEW r \in Request, call' = [call EXCEPT ![r] = Idle]
  PROVE  CallType' /\ \A q \in Request : call'[q].kind = "advise" => call'[q] = call[q]
  <1>1. \A q \in Request : call'[q] = IF q = r THEN Idle ELSE call[q]
    BY DEF CallType
  <1>2. CallType'
    BY <1>1 DEF CallType, IsCall, Idle
  <1>3. QED
    BY <1>1, <1>2 DEF Idle

LEMMA AdviceCommitSeed ==
  ASSUME AdviceInv, NEW r \in Request, CommitSeed(r)
  PROVE  AdviceInv'
  <1>1. PICK id \in [Demo -> nextId..(nextId + Cardinality(Demo) - 1)] :
          /\ \A d, e \in Demo : id[d] = id[e] => d = e
          /\ board' = [p \in DOMAIN board \cup {id[d] : d \in Demo} |->
                         IF p \in DOMAIN board THEN board[p]
                         ELSE Project(CHOOSE d \in Demo : id[d] = p, {1}, call[r].alone)]
    BY DEF CommitSeed
  <1> DEFINE New == {id[d] : d \in Demo}
  <1>2. /\ Cardinality(Demo) \in Nat
        /\ \A p \in New : /\ p \in Int /\ nextId <= p /\ p < nextId + Cardinality(Demo)
                          /\ (CHOOSE d \in Demo : id[d] = p) \in Demo
    BY <1>1, FreshProject DEF AdviceInv, BoardType
  <1>3. ASSUME NEW p \in DOMAIN board'
        PROVE  /\ p \in DOMAIN board => board'[p] = board[p]
               /\ p \notin DOMAIN board =>
                    p \in New /\ board'[p] = Project(CHOOSE d \in Demo : id[d] = p, {1}, call[r].alone)
    BY <1>1
  <1>4. nextId' = nextId + Cardinality(Demo) /\ DOMAIN board' = DOMAIN board \cup New
    BY <1>1 DEF CommitSeed
  <1> HIDE DEF New
  <1>5. ASSUME NEW p \in DOMAIN board'
        PROVE  /\ p \in Int /\ IsProject(board'[p]) /\ p < nextId'
               /\ \A link \in board'[p].links : link[1] = p /\ link[2] \in Used(p)'
    <2>1. CASE p \in DOMAIN board
      BY <1>2, <1>3, <1>4, <2>1 DEF AdviceInv, BoardType, AdviceLeadsSomewhere, Used
    <2>2. CASE p \notin DOMAIN board
      <3>1. PICK d \in Demo : board'[p] = Project(d, {1}, call[r].alone)
        BY <1>2, <1>3, <2>2
      <3>2. IsProject(board'[p]) /\ board'[p].links = {}
        BY <3>1 DEF Project, IsProject
      <3>3. QED
        BY <1>2, <1>3, <1>4, <2>2, <3>2 DEF AdviceInv, BoardType
    <2>3. QED
      BY <2>1, <2>2
  <1>6. BoardType' /\ AdviceLeadsSomewhere'
    BY <1>2, <1>4, <1>5 DEF AdviceInv, BoardType, AdviceLeadsSomewhere
  <1>7. CallType' /\ \A q \in Request : call'[q].kind = "advise" => call'[q] = call[q]
    BY AdviceEnds DEF AdviceInv, CommitSeed, Ends, Becomes
  <1>8. AdviceIsKnown'
    <2>1. ASSUME NEW q \in Request, call'[q].kind = "advise"
          PROVE  call'[q] = call[q] /\ call[q].project < nextId' /\ call[q].project \notin New
      <3>1. call'[q] = call[q] /\ call[q].kind = "advise"
        BY <1>7, <2>1
      <3>2. call[q].project < nextId /\ call[q].project \in Int /\ nextId \in Int
        BY <3>1 DEF AdviceInv, AdviceIsKnown, BoardType, CallType, IsCall
      <3>3. QED
        BY <1>2, <1>4, <3>1, <3>2
    <2>2. QED
      BY <1>3, <1>4, <2>1 DEF AdviceInv, AdviceIsKnown, Used
  <1>9. QED
    BY <1>6, <1>7, <1>8 DEF AdviceInv

LEMMA AdviceCreateProject ==
  ASSUME AdviceInv, NEW r \in Request, CreateProject(r)
  PROVE  AdviceInv'
  <1>1. /\ DOMAIN board' = DOMAIN board \cup {nextId}
        /\ nextId' = nextId + 1
        /\ board'[nextId] = Project(Own, {}, TRUE)
        /\ \A p \in DOMAIN board : board'[p] = board[p]
    <2>1. board' = [p \in DOMAIN board \cup {nextId} |->
                     IF p = nextId THEN Project(Own, {}, TRUE) ELSE board[p]]
      BY DEF CreateProject
    <2>2. \A p \in DOMAIN board : p # nextId
      BY DEF AdviceInv, BoardType
    <2>3. QED
      BY <2>1, <2>2 DEF CreateProject
  <1>2. IsProject(Project(Own, {}, TRUE)) /\ Project(Own, {}, TRUE).links = {}
    BY DEF Project, IsProject
  <1>3. BoardType' /\ AdviceLeadsSomewhere'
    <2>1. ASSUME NEW p \in DOMAIN board'
          PROVE  /\ p \in Int /\ IsProject(board'[p]) /\ p < nextId'
                 /\ \A link \in board'[p].links : link[1] = p /\ link[2] \in Used(p)'
      <3>1. CASE p = nextId
        <4>1. board'[p] = Project(Own, {}, TRUE)
          BY <1>1, <3>1
        <4>2. IsProject(board'[p]) /\ board'[p].links = {}
          BY <1>2, <4>1
        <4>3. p \in Int /\ p < nextId'
          BY <1>1, <3>1 DEF AdviceInv, BoardType
        <4>4. QED
          BY <4>2, <4>3
      <3>2. CASE p # nextId
        BY <1>1, <3>2 DEF AdviceInv, BoardType, AdviceLeadsSomewhere, Used
      <3>3. QED
        BY <3>1, <3>2
    <2>2. QED
      BY <1>1, <2>1 DEF AdviceInv, BoardType, AdviceLeadsSomewhere
  <1>4. CallType' /\ \A q \in Request : call'[q].kind = "advise" => call'[q] = call[q]
    BY AdviceEnds DEF AdviceInv, CreateProject, Begin
  <1>5. AdviceIsKnown'
    <2>1. ASSUME NEW q \in Request, call'[q].kind = "advise"
          PROVE  call'[q] = call[q] /\ call[q].project < nextId' /\ call[q].project # nextId
      <3>1. call'[q] = call[q] /\ call[q].kind = "advise"
        BY <1>4, <2>1
      <3>2. call[q].project < nextId /\ call[q].project \in Int /\ nextId \in Int
        BY <3>1 DEF AdviceInv, AdviceIsKnown, BoardType, CallType, IsCall
      <3>3. QED
        BY <1>1, <3>1, <3>2
    <2>2. QED
      BY <1>1, <2>1 DEF AdviceInv, AdviceIsKnown, Used
  <1>6. QED
    BY <1>3, <1>4, <1>5 DEF AdviceInv

LEMMA AdviceDeleteProject ==
  ASSUME AdviceInv, NEW r \in Request, NEW p, DeleteProject(r, p)
  PROVE  AdviceInv'
  <1>1. /\ DOMAIN board' = DOMAIN board \ {p}
        /\ nextId' = nextId
        /\ \A q \in DOMAIN board' : board'[q] = board[q]
    BY DEF DeleteProject
  <1>2. BoardType' /\ AdviceLeadsSomewhere'
    BY <1>1 DEF AdviceInv, BoardType, AdviceLeadsSomewhere, Used
  <1>3. CallType' /\ \A q \in Request : call'[q].kind = "advise" => call'[q] = call[q]
    BY AdviceEnds DEF AdviceInv, DeleteProject, Begin
  <1>4. AdviceIsKnown'
    BY <1>1, <1>3 DEF AdviceInv, AdviceIsKnown, Used
  <1>5. QED
    BY <1>2, <1>3, <1>4 DEF AdviceInv

(* Whatever happens to the tasks of a project, those there have been stay  *)
(* known, and its links lead to them.                                      *)
LEMMA AdviceWrite ==
  ASSUME AdviceInv, NEW r \in Request, NEW p \in DOMAIN board, NEW entry, IsProject(entry),
         board' = [board EXCEPT ![p] = entry], nextId' = nextId,
         Used(p) \subseteq entry.open \cup entry.done \cup entry.gone,
         \A link \in entry.links : link[1] = p /\ link[2] \in entry.open \cup entry.done \cup entry.gone,
         call' = [call EXCEPT ![r] = Idle]
  PROVE  AdviceInv'
  <1>1. /\ DOMAIN board' = DOMAIN board
        /\ board'[p] = entry
        /\ \A q \in DOMAIN board : q # p => board'[q] = board[q]
    OBVIOUS
  <1>2. \A q \in DOMAIN board : Used(q) \subseteq Used(q)'
    BY <1>1 DEF Used
  <1>3. BoardType' /\ AdviceLeadsSomewhere'
    BY <1>1 DEF AdviceInv, BoardType, AdviceLeadsSomewhere, Used
  <1>4. CallType' /\ \A q \in Request : call'[q].kind = "advise" => call'[q] = call[q]
    BY AdviceEnds DEF AdviceInv
  <1>5. AdviceIsKnown'
    BY <1>1, <1>2, <1>4 DEF AdviceInv, AdviceIsKnown
  <1>6. QED
    BY <1>3, <1>4, <1>5 DEF AdviceInv

LEMMA AdviceCreateTask ==
  ASSUME AdviceInv, NEW r \in Request, NEW p, CreateTask(r, p)
  PROVE  AdviceInv'
  <1> DEFINE entry == [board[p] EXCEPT !.open = @ \cup {Cardinality(Used(p)) + 1}]
  <1>1. p \in DOMAIN board /\ IsProject(board[p])
    BY DEF AdviceInv, BoardType, CreateTask
  <1>2. /\ IsProject(entry) /\ entry.links = board[p].links
        /\ Used(p) \subseteq entry.open \cup entry.done \cup entry.gone
    BY <1>1 DEF IsProject, Used
  <1>3. /\ board' = [board EXCEPT ![p] = entry]
        /\ nextId' = nextId
        /\ call' = [call EXCEPT ![r] = Idle]
    BY DEF CreateTask, WriteTask, Begin
  <1> HIDE DEF entry
  <1>4. \A link \in entry.links : link[1] = p /\ link[2] \in entry.open \cup entry.done \cup entry.gone
    BY <1>1, <1>2 DEF AdviceInv, AdviceLeadsSomewhere
  <1>5. QED
    BY <1>1, <1>2, <1>3, <1>4, AdviceWrite

LEMMA AdviceFinishTask ==
  ASSUME AdviceInv, NEW r \in Request, NEW p, NEW t, FinishTask(r, p, t)
  PROVE  AdviceInv'
  <1> DEFINE entry == [board[p] EXCEPT !.open = @ \ {t}, !.done = @ \cup {t}]
  <1>1. p \in DOMAIN board /\ IsProject(board[p])
    BY DEF AdviceInv, BoardType, FinishTask
  <1>2. /\ IsProject(entry) /\ entry.links = board[p].links
        /\ Used(p) \subseteq entry.open \cup entry.done \cup entry.gone
    BY <1>1 DEF IsProject, Used
  <1>3. /\ board' = [board EXCEPT ![p] = entry]
        /\ nextId' = nextId
        /\ call' = [call EXCEPT ![r] = Idle]
    BY DEF FinishTask, WriteTask, Begin
  <1> HIDE DEF entry
  <1>4. \A link \in entry.links : link[1] = p /\ link[2] \in entry.open \cup entry.done \cup entry.gone
    BY <1>1, <1>2 DEF AdviceInv, AdviceLeadsSomewhere
  <1>5. QED
    BY <1>1, <1>2, <1>3, <1>4, AdviceWrite

LEMMA AdviceDeleteTask ==
  ASSUME AdviceInv, NEW r \in Request, NEW p, NEW t, DeleteTask(r, p, t)
  PROVE  AdviceInv'
  <1> DEFINE entry == [board[p] EXCEPT !.open = @ \ {t}, !.done = @ \ {t}, !.gone = @ \cup {t}]
  <1>1. p \in DOMAIN board /\ IsProject(board[p])
    BY DEF AdviceInv, BoardType, DeleteTask
  <1>2. /\ IsProject(entry) /\ entry.links = board[p].links
        /\ Used(p) \subseteq entry.open \cup entry.done \cup entry.gone
    BY <1>1 DEF IsProject, Used
  <1>3. /\ board' = [board EXCEPT ![p] = entry]
        /\ nextId' = nextId
        /\ call' = [call EXCEPT ![r] = Idle]
    BY DEF DeleteTask, WriteTask, Begin
  <1> HIDE DEF entry
  <1>4. \A link \in entry.links : link[1] = p /\ link[2] \in entry.open \cup entry.done \cup entry.gone
    BY <1>1, <1>2 DEF AdviceInv, AdviceLeadsSomewhere
  <1>5. QED
    BY <1>1, <1>2, <1>3, <1>4, AdviceWrite

LEMMA AdviceBegins ==
  ASSUME AdviceInv, NEW r \in Request, NEW p, BeginAdvise(r, p)
  PROVE  AdviceInv'
  <1> DEFINE entry == [kind |-> "advise", project |-> p, tasks |-> Tasks(p)]
  <1>1. /\ UNCHANGED <<board, nextId>> /\ p \in DOMAIN board
        /\ p \in Int /\ p < nextId
    BY DEF AdviceInv, BoardType, BeginAdvise
  <1>2. /\ entry.kind = "advise" /\ entry.project = p
        /\ \A t \in entry.tasks : t[1] = p /\ t[2] \in Used(p)
    BY DEF Tasks, Used
  <1>3. call' = [call EXCEPT ![r] = entry]
    BY DEF BeginAdvise, Begin
  <1> HIDE DEF entry
  <1>4. \A q \in Request : call'[q] = IF q = r THEN entry ELSE call[q]
    BY <1>3 DEF AdviceInv, CallType
  <1>5. CallType'
    BY <1>1, <1>2, <1>3, <1>4 DEF AdviceInv, CallType, IsCall
  <1>6. BoardType' /\ AdviceLeadsSomewhere'
    BY <1>1 DEF AdviceInv, BoardType, AdviceLeadsSomewhere, Used
  <1>7. AdviceIsKnown'
    BY <1>1, <1>2, <1>4 DEF AdviceInv, AdviceIsKnown, Used
  <1>8. QED
    BY <1>5, <1>6, <1>7 DEF AdviceInv

LEMMA AdviceCommits ==
  ASSUME AdviceInv, NEW r \in Request, NEW claims, CommitAdvise(r, claims)
  PROVE  AdviceInv'
  <1> DEFINE p == call[r].project
             entry == [board[p] EXCEPT !.links = {c \in claims : Known(r, c)}]
  <1>1. /\ nextId' = nextId
        /\ call' = [call EXCEPT ![r] = Idle]
    BY DEF CommitAdvise, Ends, Becomes
  <1>2. CASE p \in DOMAIN board
    <2>1. IsProject(board[p])
      BY <1>2 DEF AdviceInv, BoardType
    <2>2. entry.links = {c \in claims : Known(r, c)}
      BY <2>1 DEF IsProject
    <2>3. \A link \in entry.links : link[1] = p /\ link[2] \in Used(p)
      BY <1>2, <2>2 DEF AdviceInv, AdviceIsKnown, CommitAdvise, Known
    <2>4. IsProject(entry) /\ Used(p) \subseteq entry.open \cup entry.done \cup entry.gone
      BY <2>1 DEF IsProject, Used
    <2>5. board' = [board EXCEPT ![p] = entry]
      BY DEF CommitAdvise
    <2> HIDE DEF entry, p
    <2>6. QED
      BY <1>1, <1>2, <2>3, <2>4, <2>5, AdviceWrite
  <1>3. CASE p \notin DOMAIN board
    <2>1. board' = [q \in DOMAIN board |-> board[q]]
      BY <1>3 DEF CommitAdvise
    <2>2. BoardType' /\ AdviceLeadsSomewhere'
      BY <1>1, <2>1 DEF AdviceInv, BoardType, AdviceLeadsSomewhere, Used
    <2>3. CallType' /\ \A q \in Request : call'[q].kind = "advise" => call'[q] = call[q]
      BY <1>1, AdviceEnds DEF AdviceInv
    <2>4. AdviceIsKnown'
      BY <1>1, <2>1, <2>3 DEF AdviceInv, AdviceIsKnown, Used
    <2>5. QED
      BY <2>2, <2>3, <2>4 DEF AdviceInv
  <1>4. QED
    BY <1>2, <1>3

LEMMA AdviceFails ==
  ASSUME AdviceInv, NEW r \in Request, UNCHANGED <<board, nextId>>, Ends(r)
  PROVE  AdviceInv'
  <1>1. CallType' /\ \A q \in Request : call'[q].kind = "advise" => call'[q] = call[q]
    BY AdviceEnds DEF AdviceInv, Ends, Becomes
  <1>2. QED
    BY <1>1 DEF AdviceInv, BoardType, AdviceIsKnown, AdviceLeadsSomewhere, Used

LEMMA AdviceNext ==
  ASSUME AdviceInv, BoardNext
  PROVE  AdviceInv'
  <1>1. PICK r \in Request :
          \/ BeginSeed(r) \/ CommitSeed(r) \/ SeedFails(r) \/ CreateProject(r) \/ AIFails(r)
          \/ \E p \in 1..MaxProjects :
               \/ DeleteProject(r, p) \/ CreateTask(r, p) \/ BeginAdvise(r, p)
               \/ \E t \in 1..MaxTasks : FinishTask(r, p, t) \/ DeleteTask(r, p, t)
          \/ \E claims \in Claimed : Cardinality(claims) <= 2 /\ CommitAdvise(r, claims)
    BY DEF BoardNext
  <1>2. CASE BeginSeed(r) \/ CommitSeed(r) \/ CreateProject(r)
    BY <1>2, AdviceBeginSeed, AdviceCommitSeed, AdviceCreateProject
  <1>3. CASE SeedFails(r) \/ AIFails(r)
    BY <1>3, AdviceFails DEF SeedFails, AIFails
  <1>4. ASSUME NEW p \in 1..MaxProjects,
               DeleteProject(r, p) \/ CreateTask(r, p) \/ BeginAdvise(r, p)
        PROVE  AdviceInv'
    BY <1>4, AdviceDeleteProject, AdviceCreateTask, AdviceBegins
  <1>5. ASSUME NEW p \in 1..MaxProjects, NEW t \in 1..MaxTasks,
               FinishTask(r, p, t) \/ DeleteTask(r, p, t)
        PROVE  AdviceInv'
    BY <1>5, AdviceFinishTask, AdviceDeleteTask
  <1>6. ASSUME NEW claims \in Claimed, CommitAdvise(r, claims)
        PROVE  AdviceInv'
    BY <1>6, AdviceCommits
  <1>7. QED
    BY <1>1, <1>2, <1>3, <1>4, <1>5, <1>6

LEMMA AdviceStutters ==
  ASSUME AdviceInv, UNCHANGED boardVars
  PROVE  AdviceInv'
  BY DEF boardVars, AdviceInv, BoardType, CallType, AdviceIsKnown, AdviceLeadsSomewhere, Used

(* A stored advice leads to tasks of its own project, for any number of    *)
(* requests, demo projects and tasks, and whatever the model names.        *)
THEOREM AdviceStaysUseful == BoardSpec => []AdviceLeadsSomewhere
  <1>1. BoardInit => AdviceInv
    BY AdviceInit
  <1>2. AdviceInv /\ [BoardNext]_boardVars => AdviceInv'
    BY AdviceNext, AdviceStutters
  <1>3. AdviceInv => AdviceLeadsSomewhere
    BY DEF AdviceInv
  <1>4. QED
    BY <1>1, <1>2, <1>3, PTL DEF BoardSpec


-----------------------------------------------------------------------------
(* The seeding.  Who seeds alone does so on a board without demo projects, *)
(* and while such a seed is on the board nobody seeds.                     *)
IsDemo(p) == board[p].kind \in Demo

SeedsApart ==
  /\ \A r \in Seeding : call[r].alone => Seeding = {r} /\ \A p \in DOMAIN board : ~IsDemo(p)
  /\ \A p \in DOMAIN board : IsDemo(p) /\ board[p].alone => Seeding = {}

SeedInv == BoardType /\ CallType /\ SeedsApart /\ SeededOnce

LEMMA SeedInit ==
  ASSUME BoardInit
  PROVE  SeedInv
  <1>1. BoardType /\ CallType
    BY AdviceInit DEF AdviceInv
  <1>2. SeedsApart /\ SeededOnce
    BY DEF BoardInit, SeedsApart, SeededOnce, Seeding, Idle
  <1>3. QED
    BY <1>1, <1>2 DEF SeedInv

(* A step after which the projects on the board are as they were, with no  *)
(* demo project more and no request more that seeds.                       *)
LEMMA SeedKeeps ==
  ASSUME SeedInv, BoardType', CallType',
         \A p \in DOMAIN board' :
           \/ board'[p].kind \notin Demo
           \/ /\ p \in DOMAIN board
              /\ board'[p].kind = board[p].kind /\ board'[p].alone = board[p].alone,
         \A r \in Request : call'[r].kind = "seed" => call'[r] = call[r]
  PROVE  SeedInv'
  <1>1. Seeding' \subseteq Seeding /\ \A r \in Seeding' : call'[r] = call[r] /\ r \in Seeding'
    BY DEF Seeding
  <1>2. \A p \in DOMAIN board' : IsDemo(p)' => p \in DOMAIN board /\ IsDemo(p)
    BY DEF IsDemo
  <1>3. SeedsApart'
    BY <1>1, <1>2 DEF SeedInv, SeedsApart, IsDemo
  <1>4. SeededOnce'
    BY DEF SeedInv, SeededOnce
  <1>5. QED
    BY <1>3, <1>4 DEF SeedInv

LEMMA SeedBegins ==
  ASSUME SeedInv, BoardType', CallType', NEW r \in Request, BeginSeed(r)
  PROVE  SeedInv'
  <1>1. UNCHANGED board /\ DOMAIN board = {}
    BY DEF BeginSeed, IsEmpty
  <1>2. \A q \in Request :
          call'[q] = IF q = r THEN [kind |-> "seed", alone |-> Seeding = {}]
                     ELSE IF q \in Seeding THEN [call[q] EXCEPT !.alone = FALSE] ELSE call[q]
    BY DEF BeginSeed
  <1>3. ASSUME NEW q \in Seeding', call'[q].alone
        PROVE  Seeding' = {q}
    <2>1. CASE q = r
      <3> DEFINE first == Seeding = {}
      <3>1. call'[r] = [kind |-> "seed", alone |-> first]
        BY <1>2
      <3> HIDE DEF first
      <3>2. call'[r].alone = first
        BY <3>1
      <3>3. Seeding = {}
        BY <1>3, <2>1, <3>2 DEF first
      <3>4. \A s \in Request : s # r => call'[s] = call[s] /\ call[s].kind # "seed"
        BY <1>2, <3>3 DEF Seeding
      <3>5. QED
        BY <1>3, <2>1, <3>4 DEF Seeding
    <2>2. CASE q # r /\ q \in Seeding
      <3>1. "alone" \in DOMAIN call[q]
        BY <2>2 DEF SeedInv, CallType, IsCall, Seeding
      <3>2. call'[q] = [call[q] EXCEPT !.alone = FALSE]
        BY <1>2, <2>2 DEF Seeding
      <3>3. QED
        BY <1>3, <3>1, <3>2
    <2>3. CASE q # r /\ q \notin Seeding
      BY <1>2, <1>3, <2>3 DEF Seeding
    <2>4. QED
      BY <2>1, <2>2, <2>3
  <1>4. QED
    BY <1>1, <1>3 DEF SeedInv, SeedsApart, SeededOnce

(* Two demo projects with the same name are never of one list.             *)
LEMMA SeedCommits ==
  ASSUME SeedInv, BoardType', CallType', NEW r \in Request, CommitSeed(r)
  PROVE  SeedInv'
  <1>1. PICK id \in [Demo -> nextId..(nextId + Cardinality(Demo) - 1)] :
          /\ \A d, e \in Demo : id[d] = id[e] => d = e
          /\ board' = [p \in DOMAIN board \cup {id[d] : d \in Demo} |->
                         IF p \in DOMAIN board THEN board[p]
                         ELSE Project(CHOOSE d \in Demo : id[d] = p, {1}, call[r].alone)]
    BY DEF CommitSeed
  <1> DEFINE New == {id[d] : d \in Demo}
             Of(p) == CHOOSE d \in Demo : id[d] = p
  <1>2. \A p \in New : Of(p) \in Demo /\ id[Of(p)] = p
    BY <1>1, FreshProject DEF SeedInv, BoardType
  <1>3. ASSUME NEW p \in DOMAIN board', p \notin DOMAIN board
        PROVE  /\ p \in New
               /\ board'[p].kind = Of(p) /\ board'[p].alone = call[r].alone
    BY <1>1, <1>3 DEF Project
  <1>4. \A p \in DOMAIN board : board'[p] = board[p]
    BY <1>1
  <1> HIDE DEF New, Of
  <1>5. r \in Seeding /\ Seeding' = Seeding \ {r} /\ \A q \in Seeding' : call'[q] = call[q]
    BY DEF SeedInv, CallType, CommitSeed, Ends, Becomes, Seeding, Idle
  <1>6. CASE call[r].alone
    <2>1. Seeding' = {} /\ \A p \in DOMAIN board : board[p].kind \notin Demo
      BY <1>5, <1>6 DEF SeedInv, SeedsApart, IsDemo
    <2>2. ASSUME NEW p \in DOMAIN board', NEW q \in DOMAIN board',
                 board'[p].kind = board'[q].kind, board'[p].kind \in Demo
          PROVE  p = q
      <3>1. p \notin DOMAIN board /\ q \notin DOMAIN board
        BY <1>4, <2>1, <2>2
      <3>2. QED
        BY <1>2, <1>3, <2>2, <3>1
    <2>3. QED
      BY <2>1, <2>2 DEF SeedInv, SeedsApart, SeededOnce
  <1>7. CASE ~call[r].alone
    <2>1. \A p \in DOMAIN board : IsDemo(p) => ~board[p].alone
      BY <1>5 DEF SeedInv, SeedsApart
    <2>2. \A p \in DOMAIN board' : IsDemo(p)' => ~board'[p].alone
      BY <1>3, <1>4, <1>7, <2>1 DEF IsDemo
    <2>3. \A q \in Seeding : ~call[q].alone
      BY <1>5, <1>7 DEF SeedInv, SeedsApart
    <2>4. QED
      BY <1>5, <2>2, <2>3 DEF SeedInv, SeedsApart, SeededOnce, IsDemo
  <1>8. QED
    BY <1>6, <1>7

(* Writes to a project change neither what it is nor how it was stored.    *)
LEMMA SeedWrites ==
  ASSUME SeedInv, BoardType', CallType', NEW r \in Request, NEW p, NEW entry,
         board' = [board EXCEPT ![p] = entry],
         p \in DOMAIN board => entry.kind = board[p].kind /\ entry.alone = board[p].alone,
         call' = [call EXCEPT ![r] = Idle]
  PROVE  SeedInv'
  <1>1. ASSUME NEW q \in DOMAIN board'
        PROVE  /\ q \in DOMAIN board
               /\ board'[q].kind = board[q].kind /\ board'[q].alone = board[q].alone
    OBVIOUS
  <1>2. \A q \in Request : call'[q].kind = "seed" => call'[q] = call[q]
    BY DEF SeedInv, CallType, Idle
  <1>3. QED
    BY <1>1, <1>2, SeedKeeps

LEMMA SeedTask ==
  ASSUME SeedInv, BoardType', CallType', NEW r \in Request, NEW p,
         CreateTask(r, p) \/ \E t : FinishTask(r, p, t) \/ DeleteTask(r, p, t)
  PROVE  SeedInv'
  <1>1. PICK entry :
          /\ board' = [board EXCEPT ![p] = entry]
          /\ p \in DOMAIN board => entry.kind = board[p].kind /\ entry.alone = board[p].alone
    <2>1. p \in DOMAIN board => IsProject(board[p])
      BY DEF SeedInv, BoardType
    <2>2. CASE CreateTask(r, p)
      <3> DEFINE w == [board[p] EXCEPT !.open = @ \cup {Cardinality(Used(p)) + 1}]
      <3>1. board' = [board EXCEPT ![p] = w]
        BY <2>2 DEF CreateTask, WriteTask
      <3>2. p \in DOMAIN board => w.kind = board[p].kind /\ w.alone = board[p].alone
        BY <2>1 DEF IsProject
      <3> HIDE DEF w
      <3>3. QED
        BY <3>1, <3>2
    <2>3. CASE \E t : FinishTask(r, p, t) \/ DeleteTask(r, p, t)
      BY <2>1, <2>3 DEF FinishTask, DeleteTask, WriteTask, IsProject
    <2>4. QED
      BY <2>2, <2>3
  <1>2. call' = [call EXCEPT ![r] = Idle]
    BY DEF CreateTask, FinishTask, DeleteTask, WriteTask, Begin
  <1>3. QED
    BY <1>1, <1>2, SeedWrites

LEMMA SeedAdvises ==
  ASSUME SeedInv, BoardType', CallType', NEW r \in Request, NEW claims, CommitAdvise(r, claims)
  PROVE  SeedInv'
  <1> DEFINE p == call[r].project
             entry == [board[p] EXCEPT !.links = {c \in claims : Known(r, c)}]
  <1>1. /\ board' = [board EXCEPT ![p] = entry]
        /\ call' = [call EXCEPT ![r] = Idle]
    BY DEF CommitAdvise, Ends, Becomes
  <1>2. p \in DOMAIN board => entry.kind = board[p].kind /\ entry.alone = board[p].alone
    BY DEF SeedInv, BoardType, IsProject
  <1> HIDE DEF p, entry
  <1>3. QED
    BY <1>1, <1>2, SeedWrites

LEMMA SeedOthers ==
  ASSUME SeedInv, BoardType', CallType', NEW r \in Request,
         \/ CreateProject(r) \/ SeedFails(r) \/ AIFails(r)
         \/ \E p : DeleteProject(r, p) \/ BeginAdvise(r, p)
  PROVE  SeedInv'
  <1>1. \A q \in Request : call'[q].kind = "seed" => call'[q] = call[q]
    <2>1. CASE \E p : BeginAdvise(r, p)
      BY <2>1 DEF SeedInv, CallType, BeginAdvise, Begin
    <2>2. CASE ~ \E p : BeginAdvise(r, p)
      <3>1. call' = [call EXCEPT ![r] = Idle]
        BY <2>2 DEF CreateProject, SeedFails, AIFails, DeleteProject, Begin, Ends, Becomes
      <3>2. QED
        BY <3>1 DEF SeedInv, CallType, Idle
    <2>3. QED
      BY <2>1, <2>2
  <1>2. ASSUME NEW p \in DOMAIN board'
        PROVE  \/ board'[p].kind \notin Demo
               \/ p \in DOMAIN board /\ board'[p].kind = board[p].kind /\ board'[p].alone = board[p].alone
    <2>1. CASE CreateProject(r)
      BY <1>2, <2>1, BoardAssumption DEF CreateProject, Project
    <2>2. CASE ~CreateProject(r)
      <3>1. p \in DOMAIN board /\ board'[p] = board[p]
        BY <1>2, <2>2 DEF SeedFails, AIFails, DeleteProject, BeginAdvise
      <3>2. QED
        BY <3>1
    <2>3. QED
      BY <2>1, <2>2
  <1>3. QED
    BY <1>1, <1>2, SeedKeeps

(* Demo projects are stored once unless two lists overlapped, for any      *)
(* number of requests and of demo projects.                                *)
THEOREM SeedsStayApart == BoardSpec => []SeededOnce

  <1> DEFINE Inv == AdviceInv /\ SeedInv
  <1>1. BoardInit => Inv
    BY AdviceInit, SeedInit
  <1>2. Inv /\ [BoardNext]_boardVars => Inv'
    <2> SUFFICES ASSUME AdviceInv, SeedInv, [BoardNext]_boardVars
                 PROVE  AdviceInv' /\ SeedInv'
      OBVIOUS
    <2>1. CASE BoardNext
      <3>1. AdviceInv' /\ BoardType' /\ CallType'
        BY <2>1, AdviceNext DEF AdviceInv
      <3>2. PICK r \in Request :
                \/ BeginSeed(r) \/ CommitSeed(r) \/ SeedFails(r) \/ CreateProject(r) \/ AIFails(r)
                \/ \E p \in 1..MaxProjects :
                     \/ DeleteProject(r, p) \/ CreateTask(r, p) \/ BeginAdvise(r, p)
                     \/ \E t \in 1..MaxTasks : FinishTask(r, p, t) \/ DeleteTask(r, p, t)
                \/ \E claims \in Claimed : Cardinality(claims) <= 2 /\ CommitAdvise(r, claims)
        BY <2>1 DEF BoardNext
      <3>3. CASE BeginSeed(r) \/ CommitSeed(r)
        BY <3>1, <3>3, SeedBegins, SeedCommits
      <3>4. CASE SeedFails(r) \/ CreateProject(r) \/ AIFails(r)
        BY <3>1, <3>4, SeedOthers
      <3>5. ASSUME NEW p \in 1..MaxProjects, DeleteProject(r, p) \/ BeginAdvise(r, p)
            PROVE  SeedInv'
        BY <3>1, <3>5, SeedOthers
      <3>6. ASSUME NEW p \in 1..MaxProjects,
                   \/ CreateTask(r, p)
                   \/ \E t \in 1..MaxTasks : FinishTask(r, p, t) \/ DeleteTask(r, p, t)
            PROVE  SeedInv'
        BY <3>1, <3>6, SeedTask
      <3>7. ASSUME NEW claims \in Claimed, CommitAdvise(r, claims)
            PROVE  SeedInv'
        BY <3>1, <3>7, SeedAdvises
      <3>8. QED
        BY <3>1, <3>2, <3>3, <3>4, <3>5, <3>6, <3>7
    <2>2. CASE UNCHANGED boardVars
      BY <2>2, AdviceStutters
      DEF boardVars, AdviceInv, SeedInv, SeedsApart, SeededOnce, Seeding, IsDemo
    <2>3. QED
      BY <2>1, <2>2
  <1>3. Inv => SeededOnce
    BY DEF SeedInv
  <1>4. QED
    BY <1>1, <1>2, <1>3, PTL DEF BoardSpec

-----------------------------------------------------------------------------
(***************************************************************************)
(* The cache of explanations.  A cached report was made for a request with *)
(* the key it is kept under, and a key that belongs to its analysis holds  *)
(* the findings; a key has one place.  The cache may be beyond its limit   *)
(* between two steps of a request; then a request is under way that will   *)
(* look at its length again.  That is what has to be invariant for the     *)
(* bound to hold when none is.                                             *)
(***************************************************************************)
(* What a key holds decides what the model was shown.                      *)
LEMMA KeyHoldsFindings ==
  ASSUME NEW a \in Analyses, NEW b \in Analyses, Insights!FactsKey(a) = Insights!FactsKey(b)
  PROVE  Insights!Findings(a) = Insights!Findings(b)
<1> DEFINE s == a.anomalies
           t == b.anomalies
<1>1. s \in Seq(Int) /\ t \in Seq(Int)
  BY PartsAssumption
<1>2. a.dataset = b.dataset /\ a.trends = b.trends /\ Insights!UpTo(s, 10) = Insights!UpTo(t, 10)
  BY DEF Insights!FactsKey
<1> HIDE DEF s, t
<1>3. ASSUME NEW u \in Seq(Int), NEW n \in Nat
      PROVE  /\ Insights!UpTo(u, n) \in Seq(Int)
             /\ Len(Insights!UpTo(u, n)) = (IF Len(u) < n THEN Len(u) ELSE n)
             /\ \A i \in 1..Len(Insights!UpTo(u, n)) : Insights!UpTo(u, n)[i] = u[i]
  BY DEF Insights!UpTo
<1>4. /\ Len(s) \in Nat /\ Len(t) \in Nat
      /\ Len(Insights!UpTo(s, 8)) = Len(Insights!UpTo(t, 8))
      /\ Len(Insights!UpTo(s, 8)) <= Len(Insights!UpTo(s, 10))
      /\ Len(Insights!UpTo(t, 8)) <= Len(Insights!UpTo(t, 10))
      /\ Len(Insights!UpTo(s, 8)) \in Nat
      /\ Len(Insights!UpTo(s, 10)) \in Nat /\ Len(Insights!UpTo(t, 10)) \in Nat
  BY <1>1, <1>2, <1>3
<1>5. ASSUME NEW i \in 1..Len(Insights!UpTo(s, 8))
      PROVE  Insights!UpTo(s, 8)[i] = Insights!UpTo(t, 8)[i]
  <2>1. i \in 1..Len(Insights!UpTo(t, 8))
    BY <1>4
  <2>2. Insights!UpTo(s, 8)[i] = s[i] /\ Insights!UpTo(t, 8)[i] = t[i]
    BY <1>1, <1>3, <2>1
  <2>3. i \in 1..Len(Insights!UpTo(s, 10)) /\ i \in 1..Len(Insights!UpTo(t, 10))
    BY <1>4, <2>1
  <2>4. Insights!UpTo(s, 10)[i] = s[i] /\ Insights!UpTo(t, 10)[i] = t[i]
    BY <1>1, <1>3, <2>3
  <2> QED
    BY <1>2, <2>2, <2>4
<1>6. Insights!UpTo(s, 8) \in Seq(Int) /\ Insights!UpTo(t, 8) \in Seq(Int)
  BY <1>1, <1>3
<1>7. Insights!UpTo(s, 8) = Insights!UpTo(t, 8)
  BY <1>4, <1>5, <1>6, SeqEqual
<1> QED
  BY <1>2, <1>7 DEF Insights!Findings, s, t
-----------------------------------------------------------------------------
Explanation == {[key |-> p.key, report |-> p] : p \in Insights!Post}

Explaining == [stage : {"ask", "move", "trim", "pop", "answered", "failed"},
               asked : Insights!Post, report : Insights!Post]

(* A cache beyond its limit has someone who will look at its length: a     *)
(* request that trims, or one whose own key is still there to be moved.    *)
WillTrim(r) ==
  \/ explain[r].stage \in {"trim", "pop"}
  \/ explain[r].stage = "move" /\ Insights!Place(explain[r].asked.key) # {}

OwnKeys == \A i, j \in DOMAIN cache : cache[i].key = cache[j].key => i = j

Answered(c) ==
  /\ c.stage \in {"ask", "move", "trim", "pop"} => c.report = c.asked
  /\ c.stage = "answered" => c.report.key = c.asked.key

InsightInv ==
  /\ cache \in Seq(Explanation)
  /\ explain \in [Reader -> Explaining \cup {Insights!Idle}]
  /\ \A r \in Reader : Answered(explain[r])
  /\ OwnKeys
  /\ Len(cache) > Limit => \E r \in Reader : WillTrim(r)

LEMMA Explainings ==
  ASSUME InsightInv, NEW r \in Reader, explain[r].stage # "idle"
  PROVE  explain[r] \in Explaining
  BY DEF InsightInv, Insights!Idle

LEMMA EntryFacts ==
  ASSUME NEW e \in Explanation
  PROVE  e.report \in Insights!Post /\ e.key = e.report.key
  BY DEF Explanation

(* Only the request that moves on changes, and it keeps its report.        *)
LEMMA StageStep ==
  ASSUME InsightInv, NEW r \in Reader, NEW after \in {"move", "trim", "pop", "answered", "failed"},
         explain[r].stage \in {"ask", "move", "trim", "pop"}, Insights!Becomes(r, after)
  PROVE  /\ explain' \in [Reader -> Explaining \cup {Insights!Idle}]
         /\ \A q \in Reader : Answered(explain'[q])
         /\ explain'[r].stage = after /\ explain'[r].asked = explain[r].asked
         /\ \A q \in Reader : q # r => explain'[q] = explain[q]
<1> DEFINE c == explain[r]
           d == [c EXCEPT !.stage = after]
<1>1. c \in Explaining /\ c.report = c.asked
  BY Explainings DEF InsightInv, Answered
<1>2. d \in Explaining /\ d.stage = after /\ d.asked = c.asked /\ d.report = c.report
  BY <1>1 DEF Explaining
<1>3. explain' = [explain EXCEPT ![r] = d] /\ explain \in [Reader -> Explaining \cup {Insights!Idle}]
  BY DEF Insights!Becomes, InsightInv
<1> HIDE DEF d
<1>4. explain'[r] = d /\ \A q \in Reader : q # r => explain'[q] = explain[q]
  BY <1>3
<1>5. Answered(d)
  BY <1>1, <1>2 DEF Answered
<1> QED
  BY <1>2, <1>3, <1>4, <1>5 DEF InsightInv

(* As long as the cache stays, only the one who would trim matters.        *)
LEMMA CacheStays ==
  ASSUME InsightInv, NEW r \in Reader, UNCHANGED cache,
         explain' \in [Reader -> Explaining \cup {Insights!Idle}],
         \A q \in Reader : Answered(explain'[q]),
         \A q \in Reader : q # r => explain'[q] = explain[q],
         ~WillTrim(r) \/ WillTrim(r)' \/ Len(cache) <= Limit
  PROVE  InsightInv'
<1>1. \A q \in Reader : q # r /\ WillTrim(q) => WillTrim(q)'
  BY DEF WillTrim, Insights!Place
<1>2. Len(cache) \in Nat /\ Limit \in Nat
  BY PartsAssumption DEF InsightInv
<1>3. (Len(cache) > Limit => \E q \in Reader : WillTrim(q))'
  <2> SUFFICES ASSUME Len(cache) > Limit PROVE (\E q \in Reader : WillTrim(q))'
    OBVIOUS
  <2>1. PICK q \in Reader : WillTrim(q)
    BY DEF InsightInv
  <2> QED
    BY <1>1, <1>2, <2>1
<1> QED
  BY <1>3 DEF InsightInv, OwnKeys

LEMMA GetKeeps ==
  ASSUME InsightInv, NEW r \in Reader, NEW p \in Insights!Post, Insights!Get(r, p)
  PROVE  InsightInv'
<1>1. explain[r].stage \in {"idle", "answered", "failed"} /\ UNCHANGED cache
  BY DEF Insights!Get
<1>2. ~WillTrim(r)
  BY <1>1 DEF WillTrim
<1>3. ASSUME NEW c \in Explaining, Answered(c), explain' = [explain EXCEPT ![r] = c]
      PROVE  InsightInv'
  <2>1. /\ explain' \in [Reader -> Explaining \cup {Insights!Idle}]
        /\ \A q \in Reader : explain'[q] = IF q = r THEN c ELSE explain[q]
    BY <1>3 DEF InsightInv
  <2>2. \A q \in Reader : Answered(explain'[q])
    BY <1>3, <2>1 DEF InsightInv
  <2> QED
    BY <1>1, <1>2, <2>1, <2>2, CacheStays
<1>4. CASE \E i \in Insights!Place(p.key) :
             explain' = [explain EXCEPT ![r] = [stage |-> "answered", asked |-> p,
                                                report |-> cache[i].report]]
  <2>1. PICK i \in DOMAIN cache :
          /\ cache[i].key = p.key
          /\ explain' = [explain EXCEPT ![r] = [stage |-> "answered", asked |-> p,
                                                report |-> cache[i].report]]
    BY <1>4 DEF Insights!Place
  <2>2. cache[i] \in Explanation
    BY <2>1 DEF InsightInv
  <2>3. cache[i].report \in Insights!Post /\ cache[i].report.key = p.key
    BY <2>1, <2>2, EntryFacts
  <2> DEFINE c == [stage |-> "answered", asked |-> p, report |-> cache[i].report]
  <2>4. c \in Explaining /\ Answered(c)
    BY <2>3 DEF Explaining, Answered
  <2> QED
    BY <1>3, <2>1, <2>4
<1>5. CASE explain' = [explain EXCEPT ![r] = [stage |-> "ask", asked |-> p, report |-> p]]
  <2> DEFINE c == [stage |-> "ask", asked |-> p, report |-> p]
  <2>1. c \in Explaining /\ Answered(c)
    BY DEF Explaining, Answered
  <2> QED
    BY <1>3, <1>5, <2>1
<1> QED
  BY <1>4, <1>5 DEF Insights!Get

LEMMA AskFailsKeeps ==
  ASSUME InsightInv, NEW r \in Reader, Insights!AIFails(r)
  PROVE  InsightInv'
<1>1. explain[r].stage = "ask" /\ Insights!Becomes(r, "failed") /\ UNCHANGED cache
  BY DEF Insights!AIFails, Insights!At
<1>2. ~WillTrim(r)
  BY <1>1 DEF WillTrim
<1> QED
  BY <1>1, <1>2, StageStep, CacheStays

LEMMA StoreKeeps ==
  ASSUME InsightInv, NEW r \in Reader, Insights!Store(r)
  PROVE  InsightInv'
<1> DEFINE c == explain[r]
           entry == [key |-> c.asked.key, report |-> c.report]
           place == Insights!Place(entry.key)
<1>1. /\ c.stage = "ask" /\ Insights!Becomes(r, "move")
      /\ cache' = IF place = {} THEN Append(cache, entry)
                  ELSE [i \in DOMAIN cache |-> IF i \in place THEN entry ELSE cache[i]]
  BY DEF Insights!Store, Insights!At
<1>2. /\ explain' \in [Reader -> Explaining \cup {Insights!Idle}]
      /\ \A q \in Reader : Answered(explain'[q])
      /\ explain'[r].stage = "move" /\ explain'[r].asked = c.asked
      /\ \A q \in Reader : q # r => explain'[q] = explain[q]
  BY <1>1, StageStep
<1>3. c \in Explaining /\ c.report = c.asked
  BY <1>1, Explainings DEF InsightInv, Answered
<1>4. entry \in Explanation /\ entry.key = c.asked.key
  BY <1>3 DEF Explanation, Explaining
<1>5. cache \in Seq(Explanation) /\ Len(cache) \in Nat /\ DOMAIN cache = 1..Len(cache)
  BY DEF InsightInv
<1>6. place = {i \in DOMAIN cache : cache[i].key = entry.key}
  BY DEF Insights!Place
<1> HIDE DEF entry, place
<1>7. /\ cache' \in Seq(Explanation) /\ OwnKeys'
      /\ \E i \in DOMAIN cache' : cache'[i].key = entry.key
  <2>1. CASE place = {}
    <3>1. cache' = Append(cache, entry)
      BY <1>1, <2>1
    <3>2. /\ cache' \in Seq(Explanation) /\ Len(cache') = Len(cache) + 1
          /\ DOMAIN cache' = 1..(Len(cache) + 1)
          /\ \A i \in 1..Len(cache) : cache'[i] = cache[i]
          /\ cache'[Len(cache) + 1] = entry
      BY <1>4, <1>5, <3>1
    <3>3. \A i \in 1..Len(cache) : cache[i].key # entry.key
      BY <1>5, <1>6, <2>1
    <3>4. OwnKeys'
      BY <1>5, <3>2, <3>3 DEF OwnKeys, InsightInv
    <3> QED
      BY <1>5, <3>2, <3>4
  <2>2. CASE place # {}
    <3>1. cache' = [i \in DOMAIN cache |-> IF i \in place THEN entry ELSE cache[i]]
      BY <1>1, <2>2
    <3>2. /\ cache' \in [1..Len(cache) -> Explanation] /\ DOMAIN cache' = DOMAIN cache
          /\ \A i \in DOMAIN cache : cache'[i].key = cache[i].key
      BY <1>4, <1>5, <1>6, <3>1
    <3>3. cache' \in Seq(Explanation)
      BY <1>5, <3>2, SeqDef
    <3>4. OwnKeys'
      BY <3>2 DEF OwnKeys, InsightInv
    <3> QED
      BY <1>6, <2>2, <3>2, <3>3, <3>4
  <2> QED
    BY <2>1, <2>2
<1>8. WillTrim(r)'
  BY <1>2, <1>4, <1>7 DEF WillTrim, Insights!Place
<1> QED
  BY <1>2, <1>7, <1>8 DEF InsightInv

LEMMA MoveKeeps ==
  ASSUME InsightInv, NEW r \in Reader, Insights!MoveToEnd(r)
  PROVE  InsightInv'
<1> DEFINE place == Insights!Place(explain[r].asked.key)
           n == Len(cache)
<1>1. explain[r].stage = "move"
  BY DEF Insights!MoveToEnd, Insights!At
<1>2. cache \in Seq(Explanation) /\ n \in Nat /\ DOMAIN cache = 1..n
  BY DEF InsightInv
<1>3. ASSUME NEW i \in place, cache' = Append(Insights!RemoveAt(cache, i), cache[i]),
             Insights!Becomes(r, "trim")
      PROVE  InsightInv'
  <2> HIDE DEF n
  <2>1. i \in 1..n
    BY <1>2 DEF Insights!Place
  <2>2. /\ Insights!RemoveAt(cache, i) \in Seq(Explanation) /\ Len(Insights!RemoveAt(cache, i)) = n - 1
        /\ \A j \in 1..(n - 1) : Insights!RemoveAt(cache, i)[j] = IF j < i THEN cache[j] ELSE cache[j + 1]
    <3> DEFINE front == SubSeq(cache, 1, i - 1)
               back == SubSeq(cache, i + 1, Len(cache))
    <3>1. /\ front \in Seq(Explanation) /\ Len(front) = i - 1
          /\ \A j \in 1..(i - 1) : front[j] = cache[j]
      BY <1>2, <2>1, SubSeqProperties
    <3>2. /\ back \in Seq(Explanation) /\ Len(back) = n - i
          /\ \A j \in 1..(n - i) : back[j] = cache[i + j]
      <4>1. i + 1 \in 1..(n + 1) /\ \A k \in (i + 1)..n : cache[k] \in Explanation
        BY <1>2, <2>1 DEF n
      <4>2. /\ SubSeq(cache, i + 1, n) \in Seq(Explanation)
            /\ Len(SubSeq(cache, i + 1, n)) = n - (i + 1) + 1
            /\ \A j \in 1..(n - (i + 1) + 1) : SubSeq(cache, i + 1, n)[j] = cache[(i + 1) + j - 1]
        <5>1. i \in Int /\ n \in Int /\ i + 1 <= n + 1 /\ i + 1 \in Int
          BY <1>2, <2>1
        <5> QED
          BY <1>2, <4>1, <5>1
      <4> DEFINE b == SubSeq(cache, i + 1, n)
      <4>3. b = back
        BY DEF n
      <4> HIDE DEF b
      <4>4. b \in Seq(Explanation) /\ Len(b) = n - i
        BY <1>2, <2>1, <4>2 DEF b
      <4>5. ASSUME NEW j \in 1..(n - i) PROVE b[j] = cache[i + j]
        <5>1. b[j] = cache[(i + 1) + j - 1] /\ (i + 1) + j - 1 = i + j
          BY <1>2, <2>1, <4>2 DEF b
        <5> QED
          BY <5>1
      <4> QED
        BY <4>3, <4>4, <4>5
    <3> HIDE DEF front, back
    <3>3. /\ front \o back \in Seq(Explanation) /\ Len(front \o back) = n - 1
          /\ \A j \in 1..(n - 1) : (front \o back)[j] =
               IF j <= i - 1 THEN front[j] ELSE back[j - (i - 1)]
      <4>1. Len(front) + Len(back) = n - 1
        BY <1>2, <2>1, <3>1, <3>2
      <4>2. /\ front \o back \in Seq(Explanation)
            /\ Len(front \o back) = Len(front) + Len(back)
            /\ \A j \in 1..(Len(front) + Len(back)) : (front \o back)[j] =
                 IF j <= Len(front) THEN front[j] ELSE back[j - Len(front)]
        <5>1. front \in Seq(Explanation) /\ back \in Seq(Explanation)
          BY <3>1, <3>2
        <5> QED
          BY <5>1, ConcatProperties
      <4> QED
        BY <3>1, <4>1, <4>2
    <3>4. \A j \in 1..(n - 1) : (front \o back)[j] = IF j < i THEN cache[j] ELSE cache[j + 1]
      BY <1>2, <2>1, <3>1, <3>2, <3>3
    <3> QED
      BY <3>3, <3>4 DEF Insights!RemoveAt, front, back
  <2> DEFINE was(j) == IF j < i THEN j ELSE IF j < n THEN j + 1 ELSE i
  <2>3. /\ cache' \in Seq(Explanation) /\ Len(cache') = n /\ DOMAIN cache' = 1..n
        /\ \A j \in 1..n : cache'[j] = cache[was(j)] /\ was(j) \in 1..n
    BY <1>2, <1>3, <2>1, <2>2
  <2>4. \A j, k \in 1..n : was(j) = was(k) => j = k
    BY <1>2, <2>1
  <2> HIDE DEF was
  <2>5. OwnKeys'
    BY <1>2, <2>3, <2>4 DEF OwnKeys, InsightInv
  <2>6. /\ explain' \in [Reader -> Explaining \cup {Insights!Idle}]
        /\ \A q \in Reader : Answered(explain'[q])
        /\ explain'[r].stage = "trim"
    BY <1>1, <1>3, StageStep
  <2>7. WillTrim(r)'
    BY <2>6 DEF WillTrim
  <2> QED
    BY <2>3, <2>5, <2>6, <2>7 DEF InsightInv
<1>4. CASE place = {} /\ Insights!Becomes(r, "failed") /\ UNCHANGED cache
  <2>1. ~WillTrim(r)
    BY <1>1, <1>4 DEF WillTrim
  <2> QED
    BY <1>1, <1>4, <2>1, StageStep, CacheStays
<1>5. \/ \E i \in place : /\ cache' = Append(Insights!RemoveAt(cache, i), cache[i])
                            /\ Insights!Becomes(r, "trim")
      \/ place = {} /\ Insights!Becomes(r, "failed") /\ UNCHANGED cache
  BY DEF Insights!MoveToEnd
<1> HIDE DEF place, n
<1> QED
  BY <1>3, <1>4, <1>5

LEMMA CheckKeeps ==
  ASSUME InsightInv, NEW r \in Reader, Insights!Check(r)
  PROVE  InsightInv'
<1>1. /\ explain[r].stage = "trim" /\ UNCHANGED cache
      /\ Insights!Becomes(r, IF Insights!IsFull THEN "pop" ELSE "answered")
  BY DEF Insights!Check, Insights!At
<1>2. Len(cache) \in Nat /\ Limit \in Nat
  BY PartsAssumption DEF InsightInv
<1>3. CASE Insights!IsFull
  <2>1. Insights!Becomes(r, "pop")
    BY <1>1, <1>3
  <2>2. explain'[r].stage = "pop"
    BY <1>1, <2>1, StageStep
  <2>3. WillTrim(r)'
    BY <2>2 DEF WillTrim
  <2> QED
    BY <1>1, <2>1, <2>3, StageStep, CacheStays
<1>4. CASE ~Insights!IsFull
  <2>1. Insights!Becomes(r, "answered")
    BY <1>1, <1>4
  <2>2. Len(cache) <= Limit
    BY <1>2, <1>4 DEF Insights!IsFull
  <2> QED
    BY <1>1, <2>1, <2>2, StageStep, CacheStays
<1> QED
  BY <1>3, <1>4

LEMMA PopKeeps ==
  ASSUME InsightInv, NEW r \in Reader, Insights!Pop(r)
  PROVE  InsightInv'
<1>1. explain[r].stage = "pop"
  BY DEF Insights!Pop, Insights!At
<1>2. cache \in Seq(Explanation) /\ Len(cache) \in Nat /\ Limit \in Nat /\ DOMAIN cache = 1..Len(cache)
  BY PartsAssumption DEF InsightInv
<1>3. CASE cache = << >>
  <2>1. Insights!Becomes(r, "failed") /\ UNCHANGED cache
    BY <1>3 DEF Insights!Pop
  <2>2. Len(cache) <= Limit
    BY <1>2, <1>3
  <2> QED
    BY <1>1, <2>1, <2>2, StageStep, CacheStays
<1>4. CASE cache # << >>
  <2>1. Insights!Becomes(r, "trim") /\ cache' = Tail(cache)
    BY <1>4 DEF Insights!Pop
  <2>2. /\ cache' \in Seq(Explanation) /\ Len(cache') = Len(cache) - 1
        /\ \A i \in 1..Len(cache') : cache'[i] = cache[i + 1]
    BY <1>2, <1>4, <2>1, HeadTailProperties
  <2>3. OwnKeys'
    <3>1. DOMAIN cache' = 1..(Len(cache) - 1)
      BY <1>2, <2>2
    <3> QED
      <4>1. \A i \in DOMAIN cache' : i + 1 \in DOMAIN cache /\ cache'[i] = cache[i + 1] /\ i \in Int
        BY <1>2, <2>2, <3>1
      <4>2. OwnKeys
        BY DEF InsightInv
      <4> QED
        BY <4>1, <4>2 DEF OwnKeys
  <2>4. /\ explain' \in [Reader -> Explaining \cup {Insights!Idle}]
        /\ \A q \in Reader : Answered(explain'[q])
        /\ explain'[r].stage = "trim"
    BY <1>1, <2>1, StageStep
  <2>5. WillTrim(r)'
    BY <2>4 DEF WillTrim
  <2> QED
    BY <2>2, <2>3, <2>4, <2>5 DEF InsightInv
<1> QED
  BY <1>3, <1>4

LEMMA InsightStep ==
  ASSUME InsightInv, Insights!Next \/ UNCHANGED insightVars
  PROVE  InsightInv'
<1>1. CASE UNCHANGED insightVars
  BY <1>1 DEF insightVars, InsightInv, OwnKeys, WillTrim, Insights!Place
<1> QED
  BY <1>1, GetKeeps, AskFailsKeeps, StoreKeeps, MoveKeeps, CheckKeeps, PopKeeps DEF Insights!Next

LEMMA InsightsBegin == Insights!Init => InsightInv
<1> SUFFICES ASSUME Insights!Init PROVE InsightInv
  OBVIOUS
<1>1. cache = << >> /\ explain = [r \in Reader |-> Insights!Idle] /\ Insights!Idle.stage = "idle"
  BY DEF Insights!Init, Insights!Idle
<1>2. Len(cache) = 0 /\ cache \in Seq(Explanation) /\ OwnKeys
  BY <1>1 DEF OwnKeys
<1>3. \A r \in Reader : Answered(explain[r])
  BY <1>1 DEF Answered
<1> QED
  BY <1>1, <1>2, <1>3, PartsAssumption DEF InsightInv

LEMMA InsightsServe ==
  ASSUME InsightInv
  PROVE  CacheServes
<1>1. ASSUME NEW r \in Reader, explain[r].stage = "answered"
      PROVE  /\ explain[r].report.key = explain[r].asked.key
             /\ Insights!Genuine(explain[r].asked) /\ Insights!Genuine(explain[r].report) =>
                  Insights!Findings(explain[r].report.analysis) =
                    Insights!Findings(explain[r].asked.analysis)
  <2>1. /\ explain[r].asked \in Insights!Post /\ explain[r].report \in Insights!Post
        /\ explain[r].report.key = explain[r].asked.key
    BY <1>1, Explainings DEF InsightInv, Explaining, Answered
  <2>2. explain[r].asked.analysis \in Analyses /\ explain[r].report.analysis \in Analyses
    BY <2>1 DEF Insights!Post
  <2> QED
    BY <2>1, <2>2, KeyHoldsFindings DEF Insights!Genuine
<1>2. (\A r \in Reader : explain[r].stage \notin {"move", "trim", "pop"}) => Len(cache) <= Limit
  BY PartsAssumption DEF InsightInv, WillTrim
<1> QED
  BY <1>1, <1>2 DEF CacheServes, Insights!CacheServes, Insights!At, InsightInv, OwnKeys

(* Whatever the part that runs, the others stay as they are.               *)
LEMMA InsightsAlone ==
  ASSUME [PartsNext]_partsVars
  PROVE  Insights!Next \/ UNCHANGED insightVars
  BY DEF PartsNext, partsVars

(* For any number of readers, analyses and keys that clients send, and any *)
(* limit: an answer was made under the key that was sent, on the findings  *)
(* asked about if both requests sent their own; the cache keeps its limit. *)
THEOREM CacheStaysTrue == PartsSpec => []CacheServes
<1>1. PartsInit => InsightInv
  BY InsightsBegin DEF PartsInit
<1>2. InsightInv /\ [PartsNext]_partsVars => InsightInv'
  BY InsightStep, InsightsAlone
<1> QED
  BY <1>1, <1>2, InsightsServe, PTL DEF PartsSpec

-----------------------------------------------------------------------------
(***************************************************************************)
(* The API process.  What is out of a pool is what its requests hold: no   *)
(* connection is lost and none is handed out twice.  A request that has    *)
(* seen the database up all along holds a connection of its present age,   *)
(* so that nothing breaks under it; one that waits too long has as many    *)
(* holders beside it as the pool gives.                                    *)
(***************************************************************************)
Capacity == PoolSize + MaxOverflow

Pooled == [idle : Seq(Nat), out : Nat]

Serving == [stage : {"look", "build", "built", "bind", "bound", "connect", "working"},
            kind : {"data", "ready"}, pool : Nat, age : Nat, steady : BOOLEAN]

Ended == [stage : {"ended"}, kind : {"data", "ready"}, answer : {"unavailable", "error"},
          refused : BOOLEAN, steady : BOOLEAN, held : Nat]

(* A call is sound with a database d and n pools.                          *)
SoundServing(c, d, n) ==
  /\ c \in Serving
  /\ c.steady => d.up
  /\ c.stage \in {"bind", "bound", "connect", "working"} => c.pool \in 1..n
  /\ c.stage = "working" /\ c.steady => c.age = d.age

SoundEnd(c) ==
  /\ c \in Ended
  /\ c.answer = "unavailable" =>
       ~c.steady \/ c.refused \/ (c.kind = "ready" /\ c.held = Capacity)
  /\ c.answer = "error" => c.held = Capacity

Sound(c, d, n) == c = Api!Idle \/ SoundServing(c, d, n) \/ SoundEnd(c)

Held(f, p) == {r \in Client : f[r].stage = "working" /\ f[r].pool = p}

Counted(f, pp) ==
  \A p \in 1..Len(pp) : pp[p].out = Cardinality(Held(f, p)) /\ pp[p].out <= Capacity

ApiInv ==
  /\ database \in [up : BOOLEAN, age : Nat, tables : BOOLEAN]
  /\ server \in {"starting", "serving"}
  /\ pools \in Seq(Pooled)
  /\ engine \in 0..Len(pools) /\ factory \in 0..Len(pools)
  /\ DOMAIN serve = Client /\ serve = [r \in Client |-> serve[r]]
  /\ \A r \in Client : Sound(serve[r], database, Len(pools))
  /\ server = "starting" => pools = << >> /\ \A r \in Client : serve[r] = Api!Idle
  /\ Counted(serve, pools)

LEMMA CapacityFacts == Capacity \in Nat /\ IsFiniteSet(Client)
  BY PartsAssumption DEF Capacity

LEMMA HeldFinite ==
  ASSUME NEW f, NEW p
  PROVE  IsFiniteSet(Held(f, p)) /\ Cardinality(Held(f, p)) \in Nat
<1>1. Held(f, p) \subseteq Client
  BY DEF Held
<1> QED
  BY <1>1, CapacityFacts, FS_Subset, FS_CardinalityType

LEMMA SameCardinality == \A S : Api!Cardinality(S) = Cardinality(S)
  BY DEF Cardinality, Api!Cardinality

LEMMA StageOfSound ==
  ASSUME NEW c, NEW d, NEW n, Sound(c, d, n)
  PROVE  /\ c.stage = "idle" => c = Api!Idle
         /\ c.stage = "ended" => SoundEnd(c)
         /\ c.stage \notin {"idle", "ended"} => SoundServing(c, d, n)
<1>1. CASE c = Api!Idle
  <2>1. c.stage = "idle"
    BY <1>1 DEF Api!Idle
  <2> QED
    BY <1>1, <2>1
<1>2. CASE SoundServing(c, d, n)
  <2>1. c.stage \notin {"idle", "ended"}
    BY <1>2 DEF SoundServing, Serving
  <2> QED
    BY <1>2, <2>1
<1>3. CASE SoundEnd(c)
  <2>1. c.stage = "ended"
    BY <1>3 DEF SoundEnd, Ended
  <2> QED
    BY <1>3, <2>1
<1> QED
  BY <1>1, <1>2, <1>3 DEF Sound

LEMMA MorePools ==
  ASSUME NEW c, NEW d, NEW n \in Nat, NEW m \in Nat, n <= m, Sound(c, d, n)
  PROVE  Sound(c, d, m)
<1>1. 1..n \subseteq 1..m
  OBVIOUS
<1>2. CASE SoundServing(c, d, n)
  <2>1. SoundServing(c, d, m)
    BY <1>1, <1>2 DEF SoundServing
  <2> QED
    BY <2>1 DEF Sound
<1> QED
  BY <1>2 DEF Sound

LEMMA ServeStep ==
  ASSUME ApiInv, NEW r \in Client, NEW c, serve' = [serve EXCEPT ![r] = c],
         UNCHANGED <<database, server>>, server = "serving",
         pools' \in Seq(Pooled), Len(pools) <= Len(pools'),
         engine' \in 0..Len(pools'), factory' \in 0..Len(pools'),
         Sound(c, database, Len(pools')), Counted(serve', pools')
  PROVE  ApiInv'
<1>1. Len(pools) \in Nat /\ Len(pools') \in Nat
  BY DEF ApiInv
<1>2. DOMAIN serve' = Client /\ serve' = [q \in Client |-> serve'[q]]
  BY DEF ApiInv
<1>3. \A q \in Client : serve'[q] = IF q = r THEN c ELSE serve[q]
  BY DEF ApiInv
<1>4. \A q \in Client : Sound(serve[q], database, Len(pools'))
  BY <1>1, MorePools DEF ApiInv
<1>5. \A q \in Client : Sound(serve'[q], database', Len(pools'))
  BY <1>3, <1>4
<1> QED
  BY <1>2, <1>5 DEF ApiInv

(* Who holds a connection once the call of r is c.                         *)
LEMMA HeldAfter ==
  ASSUME DOMAIN serve = Client, NEW r \in Client, NEW c, serve' = [serve EXCEPT ![r] = c], NEW p
  PROVE  /\ c.stage = "working" /\ c.pool = p => Held(serve', p) = Held(serve, p) \cup {r}
         /\ ~(c.stage = "working" /\ c.pool = p) => Held(serve', p) = Held(serve, p) \ {r}
<1>1. \A q \in Client : serve'[q] = IF q = r THEN c ELSE serve[q]
  OBVIOUS
<1>2. ASSUME c.stage = "working" /\ c.pool = p
      PROVE  Held(serve', p) = Held(serve, p) \cup {r}
  BY <1>1, <1>2 DEF Held
<1>3. ASSUME ~(c.stage = "working" /\ c.pool = p)
      PROVE  Held(serve', p) = Held(serve, p) \ {r}
  BY <1>1, <1>3 DEF Held
<1> QED
  BY <1>2, <1>3

(* A call moves on without a connection before or after.                   *)
LEMMA WithoutConnection ==
  ASSUME ApiInv, NEW r \in Client, NEW c, serve' = [serve EXCEPT ![r] = c],
         serve[r].stage # "working", c.stage # "working",
         UNCHANGED <<database, server>>, server = "serving",
         pools' \in Seq(Pooled), Len(pools) <= Len(pools'),
         \A p \in 1..Len(pools) : pools'[p].out = pools[p].out,
         \A p \in 1..Len(pools') : p > Len(pools) => pools'[p].out = 0,
         engine' \in 0..Len(pools'), factory' \in 0..Len(pools'),
         Sound(c, database, Len(pools'))
  PROVE  ApiInv'
<1>1. Len(pools) \in Nat /\ Len(pools') \in Nat /\ DOMAIN serve = Client
  BY DEF ApiInv
<1>2. ASSUME NEW p PROVE Held(serve', p) = Held(serve, p)
  <2>1. Held(serve', p) = Held(serve, p) \ {r}
    BY <1>1, HeldAfter
  <2>2. r \notin Held(serve, p)
    BY DEF Held
  <2> QED
    BY <2>1, <2>2
<1>3. ASSUME NEW p \in 1..Len(pools')
      PROVE  pools'[p].out = Cardinality(Held(serve', p)) /\ pools'[p].out <= Capacity
  <2>1. CASE p \in 1..Len(pools)
    <3>1. pools[p].out = Cardinality(Held(serve, p)) /\ pools[p].out <= Capacity
      BY <2>1 DEF ApiInv, Counted
    <3> QED
      BY <1>2, <2>1, <3>1
  <2>2. CASE p > Len(pools)
    <3>1. Held(serve, p) = {}
      <4>1. ASSUME NEW q \in Client, serve[q].stage = "working", serve[q].pool = p
            PROVE  FALSE
        <5>1. SoundServing(serve[q], database, Len(pools))
          BY <4>1, StageOfSound DEF ApiInv
        <5> QED
          BY <1>1, <2>2, <4>1, <5>1 DEF SoundServing
      <4> QED
        BY <4>1 DEF Held
    <3>2. Cardinality(Held(serve', p)) = 0
      BY <1>2, <3>1, FS_EmptySet
    <3>3. pools'[p].out = 0
      BY <2>2
    <3> QED
      BY <3>2, <3>3, CapacityFacts
  <2> QED
    BY <1>1, <2>1, <2>2
<1>4. Counted(serve', pools')
  BY <1>3 DEF Counted
<1> QED
  BY <1>4, ServeStep

(* A call comes to hold a connection.                                      *)
LEMMA TakesConnection ==
  ASSUME ApiInv, NEW r \in Client, NEW c, serve' = [serve EXCEPT ![r] = c],
         serve[r].stage = "connect", c.stage = "working", c.pool = serve[r].pool,
         NEW w \in Pooled, pools' = [pools EXCEPT ![c.pool] = w],
         w.out = pools[c.pool].out + 1, ~(pools[c.pool].out >= Capacity),
         UNCHANGED <<database, server, engine, factory>>, server = "serving",
         Sound(c, database, Len(pools))
  PROVE  ApiInv'
<1> DEFINE k == c.pool
<1>1. Len(pools) \in Nat /\ DOMAIN serve = Client /\ DOMAIN pools = 1..Len(pools) /\ pools \in Seq(Pooled)
  BY DEF ApiInv
<1>2. k \in 1..Len(pools)
  <2>1. SoundServing(serve[r], database, Len(pools))
    BY StageOfSound DEF ApiInv
  <2> QED
    BY <2>1 DEF SoundServing
<1>3. /\ pools' \in Seq(Pooled) /\ Len(pools') = Len(pools)
      /\ \A p \in 1..Len(pools) : pools'[p] = IF p = k THEN w ELSE pools[p]
  BY <1>1, <1>2
<1>4. r \notin Held(serve, k)
  BY DEF Held
<1> HIDE DEF k
<1>5. /\ Held(serve', k) = Held(serve, k) \cup {r}
      /\ \A p : p # k => Held(serve', p) = Held(serve, p) \ {r}
  <2>1. c.stage = "working" /\ c.pool = k
    BY DEF k
  <2>2. \A q \in Client : serve'[q] = IF q = r THEN c ELSE serve[q]
    BY <1>1
  <2>3. \A q \in Client : \A p : q \in Held(serve', p) <=>
          IF q = r THEN p = k ELSE q \in Held(serve, p)
    BY <2>1, <2>2 DEF Held
  <2>4. \A p : Held(serve, p) \subseteq Client /\ Held(serve', p) \subseteq Client
    BY DEF Held
  <2> QED
    BY <2>3, <2>4
<1>6. Cardinality(Held(serve', k)) = Cardinality(Held(serve, k)) + 1
  BY <1>4, <1>5, HeldFinite, FS_AddElement
<1>7. ASSUME NEW p \in 1..Len(pools'), p # k
      PROVE  pools'[p].out = Cardinality(Held(serve', p)) /\ pools'[p].out <= Capacity
  <2>1. Held(serve', p) = Held(serve, p) \ {r}
    BY <1>5, <1>7
  <2>2. r \notin Held(serve, p)
    BY DEF Held
  <2>3. Held(serve', p) = Held(serve, p)
    BY <2>1, <2>2
  <2>4. pools[p].out = Cardinality(Held(serve, p)) /\ pools[p].out <= Capacity
    BY <1>3, <1>7 DEF ApiInv, Counted
  <2> QED
    BY <1>3, <1>7, <2>3, <2>4
<1>8. pools'[k].out = Cardinality(Held(serve', k)) /\ pools'[k].out <= Capacity
  <2>1. pools[k].out = Cardinality(Held(serve, k)) /\ pools[k].out \in Nat
    <3>1. pools[k].out = Cardinality(Held(serve, k))
      BY <1>2 DEF ApiInv, Counted
    <3> QED
      BY <3>1, HeldFinite
  <2>2. pools'[k].out = pools[k].out + 1 /\ ~(pools[k].out >= Capacity)
    BY <1>2, <1>3 DEF k
  <2> QED
    BY <1>6, <2>1, <2>2, CapacityFacts
<1>9. Counted(serve', pools')
  BY <1>7, <1>8 DEF Counted
<1>10. engine' \in 0..Len(pools') /\ factory' \in 0..Len(pools') /\ Len(pools) <= Len(pools')
  BY <1>1, <1>3 DEF ApiInv
<1> QED
  BY <1>3, <1>9, <1>10, ServeStep

(* A call gives its connection back, or finds it broken.                   *)
LEMMA ReleasesConnection ==
  ASSUME ApiInv, NEW r \in Client, NEW c, serve' = [serve EXCEPT ![r] = c],
         serve[r].stage = "working", c.stage # "working",
         NEW w, w.out = pools[serve[r].pool].out - 1, w.out \in Nat => w \in Pooled,
         pools' = [pools EXCEPT ![serve[r].pool] = w],
         UNCHANGED <<database, server, engine, factory>>, server = "serving",
         Sound(c, database, Len(pools))
  PROVE  ApiInv'
<1> DEFINE k == serve[r].pool
<1>1. Len(pools) \in Nat /\ DOMAIN serve = Client /\ DOMAIN pools = 1..Len(pools) /\ pools \in Seq(Pooled)
  BY DEF ApiInv
<1>2. k \in 1..Len(pools)
  <2>1. SoundServing(serve[r], database, Len(pools))
    BY StageOfSound DEF ApiInv
  <2> QED
    BY <2>1 DEF SoundServing
<1>3. r \in Held(serve, k)
  BY DEF Held
<1>4. Held(serve', k) = Held(serve, k) \ {r}
  BY <1>1, HeldAfter
<1>5. Cardinality(Held(serve', k)) = Cardinality(Held(serve, k)) - 1
  BY <1>3, <1>4, HeldFinite, FS_RemoveElement
<1>6. pools[k].out = Cardinality(Held(serve, k)) /\ pools[k].out <= Capacity
  BY <1>2 DEF ApiInv, Counted
<1>7. w.out = Cardinality(Held(serve', k)) /\ w.out \in Nat /\ w.out <= Capacity
  <2>1. w.out = Cardinality(Held(serve', k)) /\ w.out \in Nat
    BY <1>5, <1>6, HeldFinite
  <2> QED
    BY <1>5, <1>6, <2>1, HeldFinite, CapacityFacts
<1>8. w \in Pooled
  BY <1>7
<1>9. /\ pools' \in Seq(Pooled) /\ Len(pools') = Len(pools)
      /\ \A p \in 1..Len(pools) : pools'[p] = IF p = k THEN w ELSE pools[p]
  BY <1>1, <1>2, <1>8
<1> HIDE DEF k
<1>10. ASSUME NEW p \in 1..Len(pools'), p # k
       PROVE  pools'[p].out = Cardinality(Held(serve', p)) /\ pools'[p].out <= Capacity
  <2>1. Held(serve', p) = Held(serve, p) \ {r}
    BY <1>1, HeldAfter
  <2>2. r \notin Held(serve, p)
    BY <1>10 DEF Held, k
  <2>3. Held(serve', p) = Held(serve, p)
    BY <2>1, <2>2
  <2>4. pools[p].out = Cardinality(Held(serve, p)) /\ pools[p].out <= Capacity
    BY <1>9, <1>10 DEF ApiInv, Counted
  <2> QED
    BY <1>9, <1>10, <2>3, <2>4
<1>11. Counted(serve', pools')
  BY <1>2, <1>7, <1>9, <1>10 DEF Counted
<1>12. engine' \in 0..Len(pools') /\ factory' \in 0..Len(pools') /\ Len(pools) <= Len(pools')
  BY <1>1, <1>9 DEF ApiInv
<1> QED
  BY <1>9, <1>11, <1>12, ServeStep

LEMMA CallMoves ==
  ASSUME ApiInv, NEW r \in Client, Api!Step(r) /\ Api!Same
  PROVE  ApiInv'
<1> DEFINE c == serve[r]
           n == Len(pools)
<1>1. /\ UNCHANGED <<database, server>> /\ n \in Nat /\ pools \in Seq(Pooled)
      /\ engine \in 0..n /\ factory \in 0..n
  BY DEF Api!Same, ApiInv
<1>2. ASSUME NEW after \in {"look", "build", "built", "bind", "bound", "connect", "working"}, c.stage = after
      PROVE  SoundServing(c, database, n) /\ server = "serving"
  <2>1. SoundServing(c, database, n)
    BY <1>2, StageOfSound DEF ApiInv
  <2>2. c.stage # Api!Idle.stage
    BY <1>2 DEF Api!Idle
  <2> QED
    BY <2>1, <2>2 DEF ApiInv
<1>3. ASSUME NEW d, serve' = [serve EXCEPT ![r] = d], UNCHANGED pools,
             engine' = engine, factory' \in 0..n, c.stage # "working", d.stage # "working",
             server = "serving", Sound(d, database, n)
      PROVE  ApiInv'
  <2>1. /\ pools' \in Seq(Pooled) /\ n <= Len(pools') /\ Len(pools') = n
        /\ engine' \in 0..Len(pools') /\ factory' \in 0..Len(pools')
        /\ \A p \in 1..n : pools'[p].out = pools[p].out
        /\ \A p \in 1..Len(pools') : p > n => pools'[p].out = 0
    BY <1>1, <1>3
  <2>2. Sound(d, database, Len(pools'))
    BY <1>3, <2>1
  <2> HIDE DEF c, n
  <2> QED
    BY <1>1, <1>3, <2>1, <2>2, WithoutConnection DEF c, n
<1>4. CASE Api!UseFactory(r)
  <2> DEFINE d == [c EXCEPT !.stage = "connect", !.pool = factory]
  <2>1. /\ factory # 0 /\ c.stage \in {"look", "bound"} /\ serve' = [serve EXCEPT ![r] = d]
        /\ UNCHANGED <<pools, engine, factory>>
    BY <1>4 DEF Api!UseFactory, Api!At, Api!Becomes, Api!caches
  <2>2. SoundServing(c, database, n) /\ server = "serving"
    BY <1>2, <2>1
  <2>3. SoundServing(d, database, n) /\ d.stage = "connect"
    <3>1. c \in Serving /\ factory \in Nat /\ factory \in 1..n
      BY <1>1, <2>1, <2>2 DEF SoundServing
    <3>2. d \in Serving /\ d.stage = "connect" /\ d.pool = factory /\ d.steady = c.steady
      BY <3>1 DEF Serving
    <3> HIDE DEF d
    <3> QED
      BY <2>2, <3>1, <3>2 DEF SoundServing
  <2> HIDE DEF d, c
  <2> QED
    BY <1>1, <1>3, <2>1, <2>2, <2>3 DEF Sound
<1>5. CASE Api!FindEngine(r)
  <2> DEFINE d == [c EXCEPT !.stage = IF c.kind = "data" THEN "bind" ELSE "connect", !.pool = engine]
  <2>1. /\ engine # 0 /\ c.stage \in {"look", "built"} /\ serve' = [serve EXCEPT ![r] = d]
        /\ UNCHANGED <<pools, engine, factory>>
    BY <1>5 DEF Api!FindEngine, Api!NeedsEngine, Api!At, Api!Becomes, Api!caches
  <2>2. SoundServing(c, database, n) /\ server = "serving"
    BY <1>2, <2>1
  <2>3. SoundServing(d, database, n) /\ d.stage # "working"
    <3>1. c \in Serving /\ engine \in Nat /\ engine \in 1..n
      BY <1>1, <2>1, <2>2 DEF SoundServing
    <3>2. d \in Serving /\ d.stage \in {"bind", "connect"} /\ d.pool = engine /\ d.steady = c.steady
      BY <3>1 DEF Serving
    <3> HIDE DEF d
    <3> QED
      BY <2>2, <3>1, <3>2 DEF SoundServing
  <2> HIDE DEF d, c
  <2> QED
    BY <1>1, <1>3, <2>1, <2>2, <2>3 DEF Sound
<1>6. CASE Api!MissEngine(r)
  <2> DEFINE d == [c EXCEPT !.stage = "build"]
  <2>1. /\ c.stage = "look" /\ serve' = [serve EXCEPT ![r] = d] /\ UNCHANGED <<pools, engine, factory>>
    BY <1>6 DEF Api!MissEngine, Api!NeedsEngine, Api!At, Api!Becomes, Api!caches
  <2>2. SoundServing(c, database, n) /\ server = "serving"
    BY <1>2, <2>1
  <2>3. SoundServing(d, database, n) /\ d.stage # "working"
    BY <2>1, <2>2 DEF SoundServing, Serving
  <2> HIDE DEF d, c
  <2> QED
    BY <1>1, <1>3, <2>1, <2>2, <2>3 DEF Sound
<1>7. CASE Api!BuildEngine(r)
  <2> DEFINE d == [c EXCEPT !.stage = "built"]
             fresh == [idle |-> << >>, out |-> 0]
  <2>1. /\ c.stage = "build" /\ serve' = [serve EXCEPT ![r] = d]
        /\ pools' = Append(pools, fresh) /\ engine' = Len(pools') /\ UNCHANGED factory
    BY <1>7 DEF Api!BuildEngine, Api!At, Api!Becomes
  <2>2. SoundServing(c, database, n) /\ server = "serving"
    BY <1>2, <2>1
  <2>3. fresh \in Pooled /\ fresh.out = 0
    BY DEF Pooled
  <2> HIDE DEF fresh
  <2>4. /\ pools' \in Seq(Pooled) /\ Len(pools') = n + 1
        /\ \A p \in 1..n : pools'[p] = pools[p]
        /\ pools'[n + 1] = fresh
    BY <1>1, <2>1, <2>3
  <2>5. /\ \A p \in 1..n : pools'[p].out = pools[p].out
        /\ \A p \in 1..Len(pools') : p > n => pools'[p].out = 0
        /\ engine' \in 0..Len(pools') /\ factory' \in 0..Len(pools') /\ n <= Len(pools')
    BY <1>1, <2>1, <2>3, <2>4
  <2>6. SoundServing(d, database, Len(pools')) /\ d.stage # "working"
    BY <1>1, <2>1, <2>2, <2>4 DEF SoundServing, Serving
  <2> HIDE DEF d, n, c
  <2> QED
    BY <1>1, <2>1, <2>2, <2>4, <2>5, <2>6, WithoutConnection DEF Sound, n, c
<1>8. CASE Api!BindFactory(r)
  <2> DEFINE d == [c EXCEPT !.stage = "bound"]
  <2>1. /\ c.stage = "bind" /\ serve' = [serve EXCEPT ![r] = d]
        /\ UNCHANGED <<pools, engine>> /\ factory' = c.pool
    BY <1>8 DEF Api!BindFactory, Api!At, Api!Becomes
  <2>2. SoundServing(c, database, n) /\ server = "serving"
    BY <1>2, <2>1
  <2>3. SoundServing(d, database, n) /\ d.stage # "working" /\ factory' \in 0..n
    BY <1>1, <2>1, <2>2 DEF SoundServing, Serving
  <2> HIDE DEF d, c
  <2> QED
    BY <1>1, <1>3, <2>1, <2>2, <2>3 DEF Sound
<1>9. CASE Api!Connect(r)
  <2> DEFINE d == [c EXCEPT !.stage = "working", !.age = database.age]
             w == [idle |-> Api!Rest(pools[c.pool].idle), out |-> pools[c.pool].out + 1]
  <2>1. /\ c.stage = "connect" /\ serve' = [serve EXCEPT ![r] = d]
        /\ pools' = [pools EXCEPT ![c.pool] = w] /\ ~(pools[c.pool].out >= Capacity)
        /\ UNCHANGED <<engine, factory>>
    BY <1>9 DEF Api!Connect, Api!At, Api!Becomes, Api!IsFull, Api!Pool, Capacity
  <2>2. SoundServing(c, database, n) /\ server = "serving"
    BY <1>2, <2>1
  <2>3. SoundServing(d, database, n) /\ d.stage = "working" /\ d.pool = c.pool
    BY <2>1, <2>2 DEF SoundServing, Serving, ApiInv
  <2>4. w \in Pooled /\ w.out = pools[c.pool].out + 1
    <3>1. pools[c.pool] \in Pooled
      BY <1>1, <2>1, <2>2 DEF SoundServing
    <3>2. Api!Rest(pools[c.pool].idle) \in Seq(Nat)
      BY <3>1 DEF Pooled, Api!Rest
    <3> QED
      BY <3>1, <3>2 DEF Pooled
  <2> HIDE DEF d, w
  <2>5. pools' = [pools EXCEPT ![d.pool] = w] /\ w.out = pools[d.pool].out + 1 /\ ~(pools[d.pool].out >= Capacity)
    BY <2>1, <2>3, <2>4
  <2> QED
    BY <1>1, <2>1, <2>2, <2>3, <2>4, <2>5, TakesConnection DEF Sound
<1>10. /\ Api!Holders(c.pool) = Held(serve, c.pool)
       /\ Api!Cardinality(Api!Holders(c.pool)) = Cardinality(Held(serve, c.pool))
       /\ Cardinality(Held(serve, c.pool)) \in Nat
  BY HeldFinite, SameCardinality DEF Api!Holders, Api!At, Held
<1>11. ASSUME NEW refused \in BOOLEAN, c.stage = "connect", ~database.up \/ refused,
              pools' = [pools EXCEPT ![c.pool].idle = Api!Rest(@)], UNCHANGED <<engine, factory>>,
              Api!Answered(r, "unavailable", refused)
       PROVE  ApiInv'
  <2> DEFINE d == [stage |-> "ended", kind |-> c.kind, answer |-> "unavailable",
                   refused |-> refused,
                   steady |-> c.steady, held |-> Api!Cardinality(Api!Holders(c.pool))]
             w == [pools[c.pool] EXCEPT !.idle = Api!Rest(@)]
  <2>1. serve' = [serve EXCEPT ![r] = d]
    BY <1>11 DEF Api!Answered, Api!Becomes
  <2>2. SoundServing(c, database, n) /\ server = "serving"
    BY <1>2, <1>11
  <2>3. SoundEnd(d) /\ d.stage # "working"
    BY <1>10, <1>11, <2>2 DEF SoundServing, Serving, SoundEnd, Ended
  <2>4. c.pool \in 1..n /\ pools[c.pool] \in Pooled
    BY <1>1, <1>11, <2>2 DEF SoundServing
  <2>5. w \in Pooled /\ w.out = pools[c.pool].out
    <3>1. Api!Rest(pools[c.pool].idle) \in Seq(Nat)
      BY <2>4 DEF Pooled, Api!Rest
    <3> QED
      BY <2>4, <3>1 DEF Pooled
  <2>6. pools' = [pools EXCEPT ![c.pool] = w]
    BY <1>11
  <2> HIDE DEF d, w
  <2>7. /\ pools' \in Seq(Pooled) /\ Len(pools') = n
        /\ \A p \in 1..n : pools'[p].out = pools[p].out
    BY <1>1, <2>4, <2>5, <2>6
  <2>8. /\ \A p \in 1..Len(pools') : p > n => pools'[p].out = 0
        /\ engine' \in 0..Len(pools') /\ factory' \in 0..Len(pools') /\ n <= Len(pools')
    BY <1>1, <1>11, <2>7
  <2>9. c.stage # "working"
    BY <1>11
  <2> HIDE DEF n, c
  <2> QED
    BY <1>1, <2>1, <2>2, <2>3, <2>7, <2>8, <2>9, WithoutConnection DEF Sound, n, c
<1>18. CASE Api!ConnectFails(r)
  BY <1>11, <1>18 DEF Api!ConnectFails, Api!At, Api!Ends
<1>19. CASE Api!ConnectRefused(r)
  BY <1>11, <1>19 DEF Api!ConnectRefused, Api!At
<1>12. CASE Api!WaitTooLong(r)
  <2> DEFINE told == IF c.kind = "data" THEN "error" ELSE "unavailable"
             d == [stage |-> "ended", kind |-> c.kind, answer |-> told,
                   refused |-> FALSE, steady |-> c.steady, held |-> Api!Cardinality(Api!Holders(c.pool))]
  <2>1. /\ c.stage = "connect" /\ serve' = [serve EXCEPT ![r] = d]
        /\ pools[c.pool].out >= Capacity /\ UNCHANGED <<pools, engine, factory>>
    BY <1>12 DEF Api!WaitTooLong, Api!At, Api!Ends, Api!Answered, Api!Becomes, Api!IsFull, Api!Pool, Api!caches, Capacity
  <2>2. SoundServing(c, database, n) /\ server = "serving"
    BY <1>2, <2>1
  <2>3. Api!Cardinality(Api!Holders(c.pool)) = Capacity
    <3>1. c.pool \in 1..n
      BY <2>1, <2>2 DEF SoundServing
    <3>2. /\ pools[c.pool].out = Cardinality(Held(serve, c.pool))
          /\ pools[c.pool].out <= Capacity
      BY <3>1 DEF ApiInv, Counted
    <3> QED
      BY <1>10, <2>1, <3>2, CapacityFacts
  <2>4. SoundEnd(d) /\ d.stage # "working"
    BY <2>2, <2>3, CapacityFacts DEF SoundServing, Serving, SoundEnd, Ended
  <2> HIDE DEF d, c
  <2> QED
    BY <1>1, <1>3, <2>1, <2>2, <2>4 DEF Sound
<1>13. ASSUME c.stage = "working"
       PROVE  /\ SoundServing(c, database, n) /\ server = "serving"
              /\ c.pool \in 1..n /\ pools[c.pool] \in Pooled
  <2>1. SoundServing(c, database, n) /\ server = "serving"
    BY <1>2, <1>13
  <2> QED
    BY <1>1, <1>13, <2>1 DEF SoundServing
<1>14. ASSUME c.stage = "working", Api!GivesBack(r), NEW d, serve' = [serve EXCEPT ![r] = d],
              d.stage # "working", Sound(d, database, n)
       PROVE  ApiInv'
  <2> DEFINE kept == pools[c.pool].idle
             w == [idle |-> IF Len(kept) < PoolSize THEN Append(kept, c.age) ELSE kept,
                   out |-> pools[c.pool].out - 1]
  <2>1. pools' = [pools EXCEPT ![c.pool] = w] /\ UNCHANGED <<engine, factory>>
    BY <1>14 DEF Api!GivesBack
  <2>2. w.out = pools[c.pool].out - 1 /\ (w.out \in Nat => w \in Pooled)
    <3>1. kept \in Seq(Nat) /\ c.age \in Nat
      BY <1>13, <1>14 DEF Pooled, SoundServing, Serving
    <3>2. Append(kept, c.age) \in Seq(Nat)
      BY <3>1
    <3> QED
      BY <3>1, <3>2 DEF Pooled
  <2> HIDE DEF w
  <2> QED
    BY <1>1, <1>13, <1>14, <2>1, <2>2, ReleasesConnection
<1>20. Api!Idle.stage # "working" /\ Sound(Api!Idle, database, n)
  BY DEF Api!Idle, Sound
<1>15. CASE Api!Finish(r)
  BY <1>14, <1>15, <1>20 DEF Api!Finish, Api!At, Api!Becomes
<1>16. CASE Api!Raise(r)
  BY <1>14, <1>16, <1>20 DEF Api!Raise, Api!At, Api!Becomes
<1>21. CASE Api!StatementRefused(r)
  <2> DEFINE d == [stage |-> "ended", kind |-> c.kind, answer |-> "unavailable",
                   refused |-> TRUE,
                   steady |-> c.steady, held |-> Api!Cardinality(Api!Holders(c.pool))]
  <2>1. /\ c.stage = "working" /\ Api!GivesBack(r) /\ serve' = [serve EXCEPT ![r] = d]
    BY <1>21 DEF Api!StatementRefused, Api!At, Api!Answered, Api!Becomes
  <2>2. SoundEnd(d) /\ d.stage # "working"
    BY <1>10, <1>13, <2>1 DEF SoundServing, Serving, SoundEnd, Ended
  <2> HIDE DEF d
  <2> QED
    BY <1>14, <2>1, <2>2 DEF Sound
<1>17. CASE Api!Lose(r)
  <2> DEFINE d == [stage |-> "ended", kind |-> c.kind, answer |-> "unavailable",
                   refused |-> FALSE, steady |-> c.steady, held |-> Api!Cardinality(Api!Holders(c.pool))]
             w == [pools[c.pool] EXCEPT !.out = @ - 1]
  <2>1. /\ c.stage = "working" /\ serve' = [serve EXCEPT ![r] = d] /\ ~Api!Alive(r)
        /\ pools' = [pools EXCEPT ![c.pool].out = @ - 1]
        /\ UNCHANGED <<engine, factory>>
    BY <1>17 DEF Api!Lose, Api!At, Api!Ends, Api!Answered, Api!Becomes
  <2>2. SoundEnd(d) /\ d.stage # "working"
    <3>1. ~(c.steady = TRUE)
      BY <1>13, <2>1 DEF SoundServing, Api!Alive
    <3> QED
      BY <1>10, <1>13, <2>1, <3>1 DEF SoundServing, Serving, SoundEnd, Ended
  <2>3. pools' = [pools EXCEPT ![c.pool] = w]
    BY <2>1
  <2>4. w.out = pools[c.pool].out - 1 /\ (w.out \in Nat => w \in Pooled)
    BY <1>13, <2>1 DEF Pooled
  <2> HIDE DEF w, d
  <2> QED
    BY <1>1, <1>13, <2>1, <2>2, <2>3, <2>4, ReleasesConnection DEF Sound
<1> QED
  BY <1>4, <1>5, <1>6, <1>7, <1>8, <1>9, <1>12, <1>15, <1>16, <1>17, <1>18, <1>19, <1>21
     DEF Api!Step

LEMMA CallBegins ==
  ASSUME ApiInv, NEW r \in Client, NEW kind \in {"data", "ready"}, Api!Begin(r, kind)
  PROVE  ApiInv'
<1> DEFINE d == [stage |-> "look", kind |-> kind, pool |-> 0, age |-> 0, steady |-> database.up]
<1>1. /\ server = "serving" /\ serve[r].stage \in {"idle", "ended"}
      /\ UNCHANGED <<database, server, pools, engine, factory>>
  BY DEF Api!Begin, Api!caches
<1>2. serve' = [serve EXCEPT ![r] = d] \/ serve' = [serve EXCEPT ![r] = Api!Idle]
  BY DEF Api!Begin, Api!Becomes
<1>3. SoundServing(d, database, Len(pools)) /\ d.stage # "working"
  BY DEF SoundServing, Serving, ApiInv
<1>4. /\ pools' \in Seq(Pooled) /\ Len(pools) <= Len(pools') /\ Len(pools') = Len(pools)
      /\ engine' \in 0..Len(pools') /\ factory' \in 0..Len(pools')
      /\ \A p \in 1..Len(pools) : pools'[p].out = pools[p].out
      /\ \A p \in 1..Len(pools') : p > Len(pools) => pools'[p].out = 0
  BY <1>1 DEF ApiInv
<1> HIDE DEF d
<1>5. ASSUME NEW c, serve' = [serve EXCEPT ![r] = c], c.stage # "working",
             Sound(c, database, Len(pools))
      PROVE  ApiInv'
  <2>1. Sound(c, database, Len(pools'))
    BY <1>4, <1>5
  <2> QED
    BY <1>1, <1>4, <1>5, <2>1, WithoutConnection
<1>6. Sound(d, database, Len(pools)) /\ Sound(Api!Idle, database, Len(pools)) /\ Api!Idle.stage # "working"
  BY <1>3 DEF Sound, Api!Idle
<1> QED
  BY <1>2, <1>3, <1>5, <1>6

LEMMA DatabaseStops ==
  ASSUME ApiInv, Api!Stop
  PROVE  ApiInv'
<1>1. /\ database' = [database EXCEPT !.up = FALSE]
      /\ UNCHANGED <<server, pools, engine, factory>>
      /\ serve' = [q \in Client |-> IF serve[q].stage \in {"idle", "ended"} THEN serve[q]
                                   ELSE [serve[q] EXCEPT !.steady = FALSE]]
  BY DEF Api!Stop, Api!caches
<1>2. database' \in [up : BOOLEAN, age : Nat, tables : BOOLEAN]
  BY <1>1 DEF ApiInv
<1>3. ASSUME NEW q \in Client
      PROVE  /\ Sound(serve'[q], database', Len(pools))
             /\ serve'[q].stage = serve[q].stage
             /\ serve[q].stage = "working" => serve'[q].pool = serve[q].pool
             /\ serve[q] = Api!Idle => serve'[q] = Api!Idle
  <2>1. CASE serve[q].stage \in {"idle", "ended"}
    <3>1. serve'[q] = serve[q]
      BY <1>1, <2>1
    <3> QED
      BY <2>1, <3>1, StageOfSound DEF Sound, ApiInv
  <2>2. CASE serve[q].stage \notin {"idle", "ended"}
    <3>1. SoundServing(serve[q], database, Len(pools))
      BY <2>2, StageOfSound DEF ApiInv
    <3> DEFINE d == [serve[q] EXCEPT !.steady = FALSE]
    <3>2. serve'[q] = d
      BY <1>1, <2>2
    <3>3. SoundServing(d, database', Len(pools)) /\ d.stage = serve[q].stage /\ d.pool = serve[q].pool
      BY <3>1 DEF SoundServing, Serving
    <3>4. serve[q] # Api!Idle
      BY <2>2 DEF Api!Idle
    <3> HIDE DEF d
    <3> QED
      BY <3>2, <3>3, <3>4 DEF Sound
  <2> QED
    BY <2>1, <2>2
<1>4. \A p : Held(serve', p) = Held(serve, p)
  BY <1>3 DEF Held
<1>5. Counted(serve', pools')
  BY <1>1, <1>4 DEF Counted, ApiInv
<1>6. DOMAIN serve' = Client /\ serve' = [q \in Client |-> serve'[q]]
  BY <1>1
<1>7. \A q \in Client : Sound(serve'[q], database', Len(pools'))
  BY <1>1, <1>3
<1>8. (server = "starting" => pools = << >> /\ \A q \in Client : serve[q] = Api!Idle)'
  BY <1>1, <1>3 DEF ApiInv
<1>9. pools' \in Seq(Pooled) /\ engine' \in 0..Len(pools') /\ factory' \in 0..Len(pools') /\ server' \in {"starting", "serving"}
  BY <1>1 DEF ApiInv
<1> QED
  BY <1>2, <1>5, <1>6, <1>7, <1>8, <1>9 DEF ApiInv

LEMMA DatabaseReturns ==
  ASSUME ApiInv, Api!Restart
  PROVE  ApiInv'
<1>1. /\ ~database.up /\ database' = [database EXCEPT !.up = TRUE, !.age = @ + 1]
      /\ UNCHANGED <<server, pools, engine, factory, serve>>
  BY DEF Api!Restart, Api!caches
<1>2. database' \in [up : BOOLEAN, age : Nat, tables : BOOLEAN]
  <2>1. database \in [up : BOOLEAN, age : Nat, tables : BOOLEAN] /\ database.age \in Nat
    BY DEF ApiInv
  <2> DEFINE later == database.age + 1
  <2>2. later \in Nat /\ database' = [database EXCEPT !.up = TRUE, !.age = later]
    BY <1>1, <2>1
  <2> HIDE DEF later
  <2> QED
    BY <2>1, <2>2
<1>3. ASSUME NEW q \in Client PROVE Sound(serve[q], database', Len(pools))
  <2>1. Sound(serve[q], database, Len(pools))
    BY DEF ApiInv
  <2>2. CASE SoundServing(serve[q], database, Len(pools))
    <3>1. SoundServing(serve[q], database', Len(pools))
      BY <1>1, <2>2 DEF SoundServing
    <3> QED
      BY <3>1 DEF Sound
  <2> QED
    BY <2>1, <2>2 DEF Sound
<1> QED
  BY <1>1, <1>2, <1>3 DEF ApiInv

LEMMA ServerStarts ==
  ASSUME ApiInv, Api!Start
  PROVE  ApiInv'
<1> DEFINE first == [idle |-> IF database.up THEN <<database.age>> ELSE << >>, out |-> 0]
<1>1. /\ server = "starting" /\ server' = "serving" /\ UNCHANGED <<factory, serve>>
      /\ pools = << >> /\ \A q \in Client : serve[q] = Api!Idle
      /\ database' = [database EXCEPT !.tables = TRUE] \/ database' = database
      /\ \/ pools' = <<first>> /\ engine' = 1
         \/ UNCHANGED <<pools, engine>>
  BY DEF Api!Start, ApiInv
<1>2. database' \in [up : BOOLEAN, age : Nat, tables : BOOLEAN]
  BY <1>1 DEF ApiInv
<1>3. first \in Pooled /\ first.out = 0
  BY DEF Pooled, ApiInv
<1> HIDE DEF first
<1>4. /\ pools' \in Seq(Pooled) /\ \A p \in 1..Len(pools') : pools'[p].out = 0
      /\ engine' \in 0..Len(pools') /\ factory' \in 0..Len(pools')
  <2>1. pools \in Seq(Pooled) /\ engine \in 0..Len(pools) /\ factory \in 0..Len(pools) /\ Len(pools) = 0
    BY <1>1 DEF ApiInv
  <2>2. CASE pools' = <<first>> /\ engine' = 1
    BY <1>1, <1>3, <2>1, <2>2
  <2>3. CASE UNCHANGED <<pools, engine>>
    BY <1>1, <2>1, <2>3
  <2> QED
    BY <1>1, <2>2, <2>3
<1>5. ASSUME NEW p PROVE Held(serve', p) = {}
  <2>1. Api!Idle.stage # "working"
    BY DEF Api!Idle
  <2> QED
    BY <1>1, <2>1 DEF Held
<1>6. Counted(serve', pools')
  <2>1. \A p : Cardinality(Held(serve', p)) = 0
    BY <1>5, FS_EmptySet
  <2> QED
    BY <1>4, <2>1, CapacityFacts DEF Counted
<1>7. \A q \in Client : Sound(serve'[q], database', Len(pools'))
  BY <1>1 DEF Sound
<1> QED
  BY <1>1, <1>2, <1>4, <1>6, <1>7 DEF ApiInv

LEMMA ApiStep ==
  ASSUME ApiInv, Api!Next \/ UNCHANGED apiVars
  PROVE  ApiInv'
<1>1. CASE UNCHANGED apiVars
  BY <1>1 DEF apiVars, ApiInv
<1> QED
  BY <1>1, CallMoves, CallBegins, DatabaseStops, DatabaseReturns, ServerStarts DEF Api!Next

LEMMA ApiBegins == Api!Init => ApiInv
<1> SUFFICES ASSUME Api!Init PROVE ApiInv
  OBVIOUS
<1>1. /\ database \in [up : BOOLEAN, age : {1}, tables : BOOLEAN] /\ server = "starting"
      /\ pools = << >> /\ engine = 0 /\ factory = 0 /\ serve = [r \in Client |-> Api!Idle]
  BY DEF Api!Init
<1>2. Len(pools) = 0 /\ pools \in Seq(Pooled)
  BY <1>1
<1>3. Counted(serve, pools)
  BY <1>2 DEF Counted
<1> QED
  BY <1>1, <1>2, <1>3 DEF ApiInv, Sound

LEMMA ApiAlone ==
  ASSUME [PartsNext]_partsVars
  PROVE  Api!Next \/ UNCHANGED apiVars
  BY DEF PartsNext, partsVars

(* For any number of requests, any pool and overflow: a request is told    *)
(* that the database is unavailable only if it was since the request       *)
(* began, or turned that request away itself; connections are not lost.    *)
THEOREM SteadyDatabaseServesHolds == PartsSpec => []SteadyDatabaseServes
<1>1. PartsInit => ApiInv
  BY ApiBegins DEF PartsInit, ApiAtRest
<1>2. ApiInv /\ [PartsNext]_partsVars => ApiInv'
  BY ApiStep, ApiAlone
<1>3. ApiInv => SteadyDatabaseServes
  <2> SUFFICES ASSUME ApiInv, NEW r \in Client, serve[r].stage = "ended"
               PROVE  LET starved == serve[r].held = PoolSize + MaxOverflow
                      IN /\ serve[r].answer = "unavailable" =>
                              \/ ~serve[r].steady \/ serve[r].refused
                              \/ (serve[r].kind = "ready" /\ starved)
                         /\ serve[r].answer = "error" => starved
    BY DEF SteadyDatabaseServes, Api!SteadyDatabaseServes, Api!At
  <2>1. SoundEnd(serve[r])
    BY StageOfSound DEF ApiInv
  <2> QED
    BY <2>1 DEF SoundEnd, Capacity
<1> QED
  BY <1>1, <1>2, <1>3, PTL DEF PartsSpec

-----------------------------------------------------------------------------
(***************************************************************************)
(* Proofs about the comparison of two versions of a procedure, for         *)
(* versions of any length.  The two recursions of the model, over lines    *)
(* and over boxes, are first shown to define functions.                    *)
(***************************************************************************)
(* Induction over numbers, from the least counterexample.                  *)
LEMMA LeastNatural ==
  ASSUME NEW T \in SUBSET Nat, T # {}
  PROVE  \E n \in T : \A m \in T : n <= m
  <1> DEFINE R == {x \in Nat \X Nat : x[1] < x[2]}
  <1>1. OpToRel(<, Nat) = R
    BY DEF OpToRel
  <1>2. IsWellFoundedOn(R, Nat)
    BY <1>1, NatLessThanWellFounded
  <1> HIDE DEF R
  <1>3. PICK n \in T : \A m \in T : ~(<<m, n>> \in R)
    BY <1>2, WFMin
  <1>4. \A m \in T : ~(m < n)
    BY <1>3 DEF R
  <1> QED
    BY <1>4

LEMMA Induction ==
  ASSUME NEW n \in Nat, NEW S \in SUBSET (0..n), 0 \in S,
         \A k \in S : k # n => k + 1 \in S
  PROVE  S = 0..n
  <1> SUFFICES ASSUME (0..n) \ S # {} PROVE FALSE
    OBVIOUS
  <1>1. PICK k \in (0..n) \ S : \A m \in (0..n) \ S : k <= m
    <2> DEFINE T == (0..n) \ S
    <2>1. T \in SUBSET Nat /\ T # {}
      OBVIOUS
    <2> HIDE DEF T
    <2>2. \E k \in T : \A m \in T : k <= m
      BY <2>1, LeastNatural
    <2> QED
      BY <2>2 DEF T
  <1>2. k # 0 /\ k - 1 \in 0..n
    BY <1>1
  <1>3. k - 1 \in S
    BY <1>1, <1>2
  <1> QED
    BY <1>1, <1>3

(* A function over 0..n given by its value at 0 and by each step.          *)
Iterates(f, X, F, x, n) ==
  f \in [0..n -> X] /\ f[0] = x /\ \A k \in 1..n : f[k] = F[<<k, f[k - 1]>>]

LEMMA IterationExists ==
  ASSUME NEW X, NEW x \in X, NEW n \in Nat, NEW F \in [(1..n) \X X -> X]
  PROVE  \E f : Iterates(f, X, F, x, n)
  <1> DEFINE Is(f, m) == f[0] = x /\ \A k \in 1..m : f[k] = F[<<k, f[k - 1]>>]
             S == {m \in 0..n : \E f \in [0..m -> X] : Is(f, m)}
  <1>1. 0 \in S
    <2> DEFINE f == [k \in 0..0 |-> x]
    <2>1. f \in [0..0 -> X] /\ f[0] = x
      OBVIOUS
    <2> HIDE DEF f
    <2>2. Is(f, 0)
      BY <2>1
    <2> QED
      BY <2>1, <2>2
  <1>2. ASSUME NEW m \in S, m # n PROVE m + 1 \in S
    <2>1. PICK f \in [0..m -> X] : Is(f, m)
      OBVIOUS
    <2> DEFINE g == [k \in 0..(m + 1) |-> IF k = m + 1 THEN F[<<m + 1, f[m]>>] ELSE f[k]]
    <2>2. m + 1 \in 1..n /\ f[m] \in X
      BY <1>2
    <2>3. F[<<m + 1, f[m]>>] \in X
      BY <2>2
    <2>4. g \in [0..(m + 1) -> X]
      BY <2>3
    <2>5. ASSUME NEW k \in 1..(m + 1) PROVE g[k] = F[<<k, g[k - 1]>>]
      <3>1. k - 1 \in 0..m /\ g[k - 1] = f[k - 1]
        OBVIOUS
      <3>2. CASE k = m + 1
        BY <3>1, <3>2
      <3>3. CASE k # m + 1
        BY <2>1, <3>1, <3>3
      <3> QED
        BY <3>2, <3>3
    <2>6. g[0] = x
      BY <2>1
    <2> HIDE DEF g
    <2>7. Is(g, m + 1)
      BY <2>5, <2>6
    <2>8. m + 1 \in 0..n
      BY <2>2
    <2> QED
      BY <2>4, <2>7, <2>8
  <1> HIDE DEF S
  <1>3. S = 0..n
    <2>1. S \in SUBSET (0..n)
      BY DEF S
    <2> QED
      BY <1>1, <1>2, <2>1, Induction
  <1>4. n \in S
    BY <1>3
  <1> QED
    BY <1>4 DEF S, Iterates

-----------------------------------------------------------------------------
(* The lines of a comparison.                                              *)
Kinds == {"removed", "added", "unchanged"}
Shown == [kind : Kinds, text : Line]

(* The recursions over sequences of lines, as functions.                   *)
Reads(f, lines, kinds) ==
  /\ f \in [0..Len(lines) -> Seq(Line)]
  /\ f[0] = << >>
  /\ \A k \in 1..Len(lines) :
       f[k] = IF lines[k].kind \in kinds THEN Append(f[k - 1], lines[k].text) ELSE f[k - 1]

LEMMA AsLinesIsSeq ==
  ASSUME NEW value \in Seq(Line)
  PROVE  Difference!AsLines(value) \in Seq(Line)
  <1> DEFINE n == Len(value)
             X == Seq(Line)
             F == [z \in (1..n) \X X |->
                     IF value[z[1]] = Blank THEN z[2] ELSE Append(z[2], value[z[1]])]
             H(f) == [k \in 0..n |->
                        IF k = 0 THEN << >>
                        ELSE IF value[k] = Blank THEN f[k - 1] ELSE Append(f[k - 1], value[k])]
             met == CHOOSE f : f = H(f)
  <1>1. Difference!AsLines(value) = met[n]
    BY DEF Difference!AsLines
  <1>2. n \in Nat /\ << >> \in X /\ \A k \in 1..n : value[k] \in Line
    OBVIOUS
  <1>13. \A k \in 1..n, s \in X : Append(s, value[k]) \in X
    BY <1>2
  <1>3. F \in [(1..n) \X X -> X]
    <2>1. ASSUME NEW z \in (1..n) \X X
          PROVE  (IF value[z[1]] = Blank THEN z[2] ELSE Append(z[2], value[z[1]])) \in X
      BY <1>2
    <2> QED
      BY <2>1
  <1>4. \A k \in 1..n, s \in X : F[<<k, s>>] = IF value[k] = Blank THEN s ELSE Append(s, value[k])
    OBVIOUS
  <1> HIDE DEF F
  <1>5. PICK f : Iterates(f, X, F, << >>, n)
    <2> HIDE DEF n, X
    <2> QED
      BY <1>2, <1>3, IterationExists
  <1>6. f = H(f)
    <2>1. f \in [0..n -> X] /\ f[0] = << >>
      BY <1>5 DEF Iterates
    <2>2. ASSUME NEW k \in 1..n
          PROVE  f[k] = IF value[k] = Blank THEN f[k - 1] ELSE Append(f[k - 1], value[k])
      <3>1. f[k - 1] \in X
        BY <2>1
      <3>2. f[k] = F[<<k, f[k - 1]>>]
        BY <1>5 DEF Iterates
      <3> QED
        BY <1>4, <3>1, <3>2
    <2>3. ASSUME NEW k \in 0..n
          PROVE  f[k] = IF k = 0 THEN << >>
                        ELSE IF value[k] = Blank THEN f[k - 1] ELSE Append(f[k - 1], value[k])
      <3>1. CASE k = 0
        BY <2>1, <3>1
      <3>2. CASE k # 0
        <4>1. k \in 1..n
          BY <1>2, <3>2
        <4> QED
          BY <2>2, <3>2, <4>1
      <3> QED
        BY <3>1, <3>2
    <2>4. f = [k \in 0..n |-> f[k]]
      BY <2>1
    <2> QED
      BY <2>3, <2>4
  <1>7. met = H(met)
    <2> HIDE DEF H
    <2> QED
      BY <1>6
  <1> DEFINE S == {k \in 0..n : met[k] \in X}
  <1>8. \A k \in 0..n : met[k] = IF k = 0 THEN << >>
                                 ELSE IF value[k] = Blank THEN met[k - 1]
                                      ELSE Append(met[k - 1], value[k])
    BY <1>7
  <1> HIDE DEF met, H, X, n
  <1>9. 0 \in S
    <2>1. 0 \in 0..n
      BY <1>2
    <2>2. met[0] = << >>
      BY <1>8, <2>1
    <2> QED
      BY <1>2, <2>1, <2>2
  <1>10. ASSUME NEW k \in S, k # n PROVE k + 1 \in S
    <2>1. k + 1 \in 1..n /\ k + 1 \in 0..n /\ (k + 1) - 1 = k /\ met[k] \in X
      BY <1>2, <1>10
    <2> QED
      BY <1>8, <1>13, <2>1
  <1>11. S \in SUBSET (0..n)
    OBVIOUS
  <1> HIDE DEF S
  <1>12. S = 0..n
    BY <1>2, <1>9, <1>10, <1>11, Induction
  <1>14. met[n] \in X
    BY <1>2, <1>12 DEF S
  <1> QED
    BY <1>1, <1>14 DEF X

LEMMA TextIsFunction ==
  ASSUME NEW lines \in Seq(Shown), NEW kinds
  PROVE  \E f : Reads(f, lines, kinds) /\ Difference!Text(lines, kinds) = f[Len(lines)]
  <1> DEFINE n == Len(lines)
             X == Seq(Line)
             F == [z \in (1..n) \X X |->
                     IF lines[z[1]].kind \in kinds THEN Append(z[2], lines[z[1]].text) ELSE z[2]]
             H(f) == [k \in 0..n |->
                        IF k = 0 THEN << >>
                        ELSE IF lines[k].kind \in kinds THEN Append(f[k - 1], lines[k].text)
                             ELSE f[k - 1]]
             met == CHOOSE f : f = H(f)
  <1>1. Difference!Text(lines, kinds) = met[n]
    BY DEF Difference!Text
  <1>2. n \in Nat /\ << >> \in X /\ \A k \in 1..n : lines[k].text \in Line
    <2>1. ASSUME NEW k \in 1..n PROVE lines[k].text \in Line
      <3>1. lines[k] \in Shown
        OBVIOUS
      <3> QED
        BY <3>1 DEF Shown
    <2> QED
      BY <2>1
  <1>15. \A k \in 1..n, s \in X : Append(s, lines[k].text) \in X
    BY <1>2
  <1>3. F \in [(1..n) \X X -> X]
    <2>1. ASSUME NEW z \in (1..n) \X X
          PROVE  (IF lines[z[1]].kind \in kinds THEN Append(z[2], lines[z[1]].text) ELSE z[2]) \in X
      BY <1>2
    <2> QED
      BY <2>1
  <1>4. \A k \in 1..n, s \in X :
          F[<<k, s>>] = IF lines[k].kind \in kinds THEN Append(s, lines[k].text) ELSE s
    OBVIOUS
  <1> HIDE DEF F
  <1>5. PICK f : Iterates(f, X, F, << >>, n)
    <2> HIDE DEF n, X
    <2> QED
      BY <1>2, <1>3, IterationExists
  <1>6. f = H(f)
    <2>1. f \in [0..n -> X] /\ f[0] = << >>
      BY <1>5 DEF Iterates
    <2>2. ASSUME NEW k \in 1..n
          PROVE  f[k] = IF lines[k].kind \in kinds THEN Append(f[k - 1], lines[k].text) ELSE f[k - 1]
      <3>1. f[k - 1] \in X
        BY <2>1
      <3>2. f[k] = F[<<k, f[k - 1]>>]
        BY <1>5 DEF Iterates
      <3> QED
        BY <1>4, <3>1, <3>2
    <2>3. ASSUME NEW k \in 0..n
          PROVE  f[k] = IF k = 0 THEN << >>
                        ELSE IF lines[k].kind \in kinds THEN Append(f[k - 1], lines[k].text) ELSE f[k - 1]
      <3>1. CASE k = 0
        BY <2>1, <3>1
      <3>2. CASE k # 0
        <4>1. k \in 1..n
          BY <1>2, <3>2
        <4> QED
          BY <2>2, <3>2, <4>1
      <3> QED
        BY <3>1, <3>2
    <2>4. f = [k \in 0..n |-> f[k]]
      BY <2>1
    <2> QED
      BY <2>3, <2>4
  <1>7. met = H(met)
    <2> HIDE DEF H
    <2> QED
      BY <1>6
  <1> DEFINE S == {k \in 0..n : met[k] \in X}
  <1>8. \A k \in 0..n : met[k] = IF k = 0 THEN << >>
                                 ELSE IF lines[k].kind \in kinds
                                      THEN Append(met[k - 1], lines[k].text) ELSE met[k - 1]
    BY <1>7
  <1>13. DOMAIN met = 0..n /\ met = [k \in 0..n |-> met[k]]
    BY <1>7
  <1> HIDE DEF met, H, X, n
  <1>9. 0 \in S
    <2>1. 0 \in 0..n
      BY <1>2
    <2>2. met[0] = << >>
      BY <1>8, <2>1
    <2> QED
      BY <1>2, <2>1, <2>2
  <1>10. ASSUME NEW k \in S, k # n PROVE k + 1 \in S
    <2>1. k + 1 \in 1..n /\ k + 1 \in 0..n /\ (k + 1) - 1 = k /\ met[k] \in X
      BY <1>2, <1>10
    <2> QED
      BY <1>8, <1>15, <2>1
  <1>11. S \in SUBSET (0..n)
    OBVIOUS
  <1> HIDE DEF S
  <1>12. S = 0..n
    BY <1>2, <1>9, <1>10, <1>11, Induction
  <1>14. Reads(met, lines, kinds)
    <2>1. met \in [0..n -> X]
      BY <1>12, <1>13 DEF S
    <2>2. met[0] = << >> /\ \A k \in 1..n :
            met[k] = IF lines[k].kind \in kinds THEN Append(met[k - 1], lines[k].text) ELSE met[k - 1]
      BY <1>2, <1>8
    <2> QED
      BY <2>1, <2>2 DEF Reads, n, X
  <1> QED
    BY <1>1, <1>14 DEF n

LEMMA TextIsSeq ==
  ASSUME NEW lines \in Seq(Shown), NEW kinds
  PROVE  Difference!Text(lines, kinds) \in Seq(Line)
  <1>1. Len(lines) \in Nat
    OBVIOUS
  <1> QED
    BY <1>1, TextIsFunction DEF Reads

LEMMA TextOfConcat ==
  ASSUME NEW s \in Seq(Shown), NEW t \in Seq(Shown), NEW kinds
  PROVE  Difference!Text(s \o t, kinds) = Difference!Text(s, kinds) \o Difference!Text(t, kinds)
  <1> DEFINE n == Len(s)
             p == Len(t)
  <1>1. /\ s \o t \in Seq(Shown) /\ Len(s \o t) = n + p /\ n \in Nat /\ p \in Nat
        /\ \A k \in 1..n : (s \o t)[k] = s[k]
        /\ \A k \in 1..p : (s \o t)[n + k] = t[k]
    BY ConcatProperties
  <1>2. PICK f : Reads(f, s, kinds) /\ Difference!Text(s, kinds) = f[n]
    BY TextIsFunction
  <1>3. PICK g : Reads(g, t, kinds) /\ Difference!Text(t, kinds) = g[p]
    BY TextIsFunction
  <1>4. PICK h : Reads(h, s \o t, kinds) /\ Difference!Text(s \o t, kinds) = h[n + p]
    BY <1>1, TextIsFunction
  <1> DEFINE S == {k \in 0..n : h[k] = f[k]}
             T == {k \in 0..p : h[n + k] = f[n] \o g[k]}
  <1> HIDE DEF n, p
  <1>5. /\ f \in [0..n -> Seq(Line)] /\ f[0] = << >>
        /\ \A k \in 1..n :
             f[k] = IF s[k].kind \in kinds THEN Append(f[k - 1], s[k].text) ELSE f[k - 1]
    BY <1>2 DEF Reads, n
  <1>6. /\ g \in [0..p -> Seq(Line)] /\ g[0] = << >>
        /\ \A k \in 1..p :
             g[k] = IF t[k].kind \in kinds THEN Append(g[k - 1], t[k].text) ELSE g[k - 1]
    BY <1>3 DEF Reads, p
  <1>7. /\ h \in [0..(n + p) -> Seq(Line)] /\ h[0] = << >>
        /\ \A k \in 1..(n + p) :
             h[k] = IF (s \o t)[k].kind \in kinds
                    THEN Append(h[k - 1], (s \o t)[k].text) ELSE h[k - 1]
    BY <1>1, <1>4 DEF Reads
  <1>8. S = 0..n
    <2>1. 0 \in S
      BY <1>1, <1>5, <1>7
    <2>2. ASSUME NEW k \in S, k # n PROVE k + 1 \in S
      <3>1. k + 1 \in 1..n /\ k + 1 \in 1..(n + p) /\ k + 1 \in 0..n /\ (k + 1) - 1 = k
        BY <1>1, <2>2
      <3>2. (s \o t)[k + 1] = s[k + 1]
        BY <1>1, <3>1
      <3>3. h[k + 1] = IF s[k + 1].kind \in kinds THEN Append(h[k], s[k + 1].text) ELSE h[k]
        BY <1>7, <3>1, <3>2
      <3>4. f[k + 1] = IF s[k + 1].kind \in kinds THEN Append(f[k], s[k + 1].text) ELSE f[k]
        BY <1>5, <3>1
      <3> QED
        BY <3>1, <3>3, <3>4
    <2>3. S \in SUBSET (0..n)
      OBVIOUS
    <2> HIDE DEF S
    <2> QED
      BY <1>1, <2>1, <2>2, <2>3, Induction
  <1>9. T = 0..p
    <2>1. f[n] \in Seq(Line) /\ h[n] = f[n]
      <3>1. n \in 0..n
        BY <1>1
      <3>2. n \in S
        BY <1>8, <3>1
      <3> QED
        BY <1>5, <3>1, <3>2
    <2>2. 0 \in T
      <3>1. 0 \in 0..p /\ n + 0 = n
        BY <1>1
      <3>2. f[n] \o << >> = f[n]
        BY <2>1, ConcatEmptySeq
      <3> QED
        BY <1>6, <2>1, <3>1, <3>2
    <2>3. ASSUME NEW k \in T, k # p PROVE k + 1 \in T
      <3>1. k + 1 \in 1..p /\ n + (k + 1) \in 1..(n + p) /\ k + 1 \in 0..p
            /\ (k + 1) - 1 = k /\ (n + (k + 1)) - 1 = n + k /\ k \in 0..p
        <4>1. n \in Nat /\ p \in Nat /\ k \in 0..p /\ k # p
          BY <1>1, <2>3
        <4> HIDE DEF n, p, S, T
        <4> QED
          BY <4>1
      <3>2. (s \o t)[n + (k + 1)] = t[k + 1] /\ t[k + 1].text \in Line
        <4>1. t[k + 1] \in Shown
          BY <3>1 DEF p
        <4> QED
          BY <1>1, <3>1, <4>1 DEF Shown
      <3>3. h[n + (k + 1)] = IF t[k + 1].kind \in kinds
                             THEN Append(h[n + k], t[k + 1].text) ELSE h[n + k]
        BY <1>7, <3>1, <3>2
      <3>4. g[k + 1] = IF t[k + 1].kind \in kinds THEN Append(g[k], t[k + 1].text) ELSE g[k]
        BY <1>6, <3>1
      <3>5. h[n + k] = f[n] \o g[k] /\ g[k] \in Seq(Line)
        BY <1>6, <3>1
      <3>6. Append(f[n] \o g[k], t[k + 1].text) = f[n] \o Append(g[k], t[k + 1].text)
        <4> DEFINE x == t[k + 1].text
                   u == f[n]
                   v == g[k]
        <4>1. x \in Line /\ u \in Seq(Line) /\ v \in Seq(Line)
          BY <2>1, <3>2, <3>5
        <4> HIDE DEF x, u, v
        <4>2. u \o v \in Seq(Line) /\ <<x>> \in Seq(Line)
          BY <4>1
        <4>3. Append(u \o v, x) = (u \o v) \o <<x>> /\ Append(v, x) = v \o <<x>>
          BY <4>1, <4>2, AppendIsConcat
        <4>4. (u \o v) \o <<x>> = u \o (v \o <<x>>)
          BY <4>1, <4>2, ConcatAssociative
        <4> QED
          BY <4>3, <4>4 DEF x, u, v
      <3> QED
        BY <3>1, <3>3, <3>4, <3>5, <3>6
    <2>4. T \in SUBSET (0..p)
      OBVIOUS
    <2> HIDE DEF T
    <2> QED
      BY <1>1, <2>2, <2>3, <2>4, Induction
  <1>10. h[n + p] = f[n] \o g[p]
    <2> HIDE DEF T
    <2>1. p \in T
      BY <1>1, <1>9
    <2> QED
      BY <2>1 DEF T
  <1> QED
    BY <1>2, <1>3, <1>4, <1>10

LEMMA MarkedIsShown ==
  ASSUME NEW s \in Seq(Line), NEW kind \in Kinds
  PROVE  /\ Difference!Marked(kind, s) \in Seq(Shown) /\ Len(Difference!Marked(kind, s)) = Len(s)
         /\ \A k \in 1..Len(s) : Difference!Marked(kind, s)[k] = [kind |-> kind, text |-> s[k]]
  <1>1. DOMAIN s = 1..Len(s) /\ Len(s) \in Nat
    OBVIOUS
  <1>2. \A k \in 1..Len(s) : [kind |-> kind, text |-> s[k]] \in Shown
    BY DEF Shown
  <1> QED
    BY <1>1, <1>2 DEF Difference!Marked

LEMMA TextOfMarked ==
  ASSUME NEW s \in Seq(Line), NEW kind \in Kinds, NEW kinds
  PROVE  Difference!Text(Difference!Marked(kind, s), kinds) = IF kind \in kinds THEN s ELSE << >>
  <1> DEFINE m == Difference!Marked(kind, s)
             n == Len(s)
  <1>1. /\ m \in Seq(Shown) /\ Len(m) = n /\ n \in Nat
        /\ \A k \in 1..n : m[k].kind = kind /\ m[k].text = s[k]
    <2>1. m \in Seq(Shown) /\ Len(m) = n /\ n \in Nat
      BY MarkedIsShown
    <2>2. \A k \in 1..n : m[k] = [kind |-> kind, text |-> s[k]]
      BY MarkedIsShown
    <2> HIDE DEF m, n
    <2> QED
      BY <2>1, <2>2
  <1>2. PICK f : Reads(f, m, kinds) /\ Difference!Text(m, kinds) = f[n]
    BY <1>1, TextIsFunction
  <1> DEFINE S == {k \in 0..n : f[k] = IF kind \in kinds THEN SubSeq(s, 1, k) ELSE << >>}
  <1> HIDE DEF m, n
  <1>3. /\ f[0] = << >>
        /\ \A k \in 1..n : f[k] = IF kind \in kinds THEN Append(f[k - 1], s[k]) ELSE f[k - 1]
    BY <1>1, <1>2 DEF Reads
  <1>4. 0 \in S
    <2>1. SubSeq(s, 1, 0) = << >>
      BY SubSeqEmpty
    <2>2. 0 \in 0..n
      BY <1>1
    <2>3. f[0] = << >>
      BY <1>3
    <2>4. f[0] = IF kind \in kinds THEN SubSeq(s, 1, 0) ELSE << >>
      BY <2>1, <2>3, Zenon
    <2> QED
      BY <2>2, <2>4, Zenon
  <1>5. ASSUME NEW k \in S, k # n PROVE k + 1 \in S
    <2>1. k + 1 \in 1..n /\ k + 1 \in 0..n /\ (k + 1) - 1 = k
      BY <1>1, <1>5
    <2>2. SubSeq(s, 1, k + 1) = Append(SubSeq(s, 1, k), s[k + 1])
      <3>1. SubSeq(s, 1, k + 1) = SubSeq(s, 1, (k + 1) - 1) \o <<s[k + 1]>>
        BY <1>1, <2>1, SubSeqRecursiveSecond DEF n
      <3>2. SubSeq(s, 1, k) \in Seq(Line) /\ s[k + 1] \in Line
        BY <2>1 DEF n
      <3> QED
        BY <2>1, <3>1, <3>2, AppendIsConcat
    <2> QED
      BY <1>3, <2>1, <2>2
  <1>6. S \in SUBSET (0..n)
    OBVIOUS
  <1> HIDE DEF S
  <1>7. n \in S
    BY <1>1, <1>4, <1>5, <1>6, Induction
  <1>8. f[n] = IF kind \in kinds THEN SubSeq(s, 1, n) ELSE << >>
    BY <1>7 DEF S
  <1>9. SubSeq(s, 1, n) = s
    BY SubSeqFull DEF n
  <1> QED
    BY <1>2, <1>8, <1>9 DEF m

(* Where no line is added or removed, both versions read the same.         *)
LEMMA NothingMarked ==
  ASSUME NEW lines \in Seq(Shown), Difference!Text(lines, {"added", "removed"}) = << >>
  PROVE  Difference!Text(lines, {"unchanged", "removed"}) = Difference!Text(lines, {"unchanged", "added"})
  <1> DEFINE n == Len(lines)
             Edit == {"added", "removed"}
             Old == {"unchanged", "removed"}
             New == {"unchanged", "added"}
  <1>1. n \in Nat /\ \A k \in 1..n : lines[k].kind \in Kinds /\ lines[k].text \in Line
    <2>1. ASSUME NEW k \in 1..n PROVE lines[k].kind \in Kinds /\ lines[k].text \in Line
      <3>1. lines[k] \in Shown
        OBVIOUS
      <3> QED
        BY <3>1 DEF Shown
    <2> QED
      BY <2>1
  <1>2. PICK e : Reads(e, lines, Edit) /\ Difference!Text(lines, Edit) = e[n]
    BY TextIsFunction
  <1>3. PICK f : Reads(f, lines, Old) /\ Difference!Text(lines, Old) = f[n]
    BY TextIsFunction
  <1>4. PICK g : Reads(g, lines, New) /\ Difference!Text(lines, New) = g[n]
    BY TextIsFunction
  <1> DEFINE S == {k \in 0..n : e[k] = << >> => f[k] = g[k]}
  <1> HIDE DEF n
  <1>5. /\ e \in [0..n -> Seq(Line)] /\ e[0] = << >> /\ f[0] = << >> /\ g[0] = << >>
        /\ \A k \in 1..n :
             /\ e[k] = IF lines[k].kind \in Edit THEN Append(e[k - 1], lines[k].text) ELSE e[k - 1]
             /\ f[k] = IF lines[k].kind \in Old THEN Append(f[k - 1], lines[k].text) ELSE f[k - 1]
             /\ g[k] = IF lines[k].kind \in New THEN Append(g[k - 1], lines[k].text) ELSE g[k - 1]
    BY <1>2, <1>3, <1>4 DEF Reads, n
  <1>6. 0 \in S
    BY <1>1, <1>5
  <1>7. ASSUME NEW k \in S, k # n PROVE k + 1 \in S
    <2>1. k + 1 \in 1..n /\ k + 1 \in 0..n /\ (k + 1) - 1 = k /\ e[k] \in Seq(Line)
      BY <1>1, <1>5, <1>7
    <2>2. CASE lines[k + 1].kind \in Edit
      <3>1. e[k + 1] = Append(e[k], lines[k + 1].text)
        BY <1>5, <2>1, <2>2
      <3>2. e[k + 1] # << >>
        BY <1>1, <2>1, <3>1, AppendProperties
      <3> QED
        BY <2>1, <3>2
    <2>3. CASE lines[k + 1].kind \notin Edit
      <3>1. lines[k + 1].kind \in Old /\ lines[k + 1].kind \in New
        BY <1>1, <2>1, <2>3 DEF Kinds
      <3>2. /\ e[k + 1] = e[k]
            /\ f[k + 1] = Append(f[k], lines[k + 1].text)
            /\ g[k + 1] = Append(g[k], lines[k + 1].text)
        BY <1>5, <2>1, <2>3, <3>1
      <3> QED
        BY <2>1, <3>2
    <2> QED
      BY <2>2, <2>3
  <1>8. S \in SUBSET (0..n)
    OBVIOUS
  <1> HIDE DEF S
  <1>9. n \in S
    BY <1>1, <1>6, <1>7, <1>8, Induction
  <1> QED
    BY <1>2, <1>3, <1>4, <1>9 DEF S

-----------------------------------------------------------------------------
(* The boxes of a comparison, and the two that a run of lines leaves.      *)
Boxes(a, b) ==
  [i : 1..(Len(a) + 1), j : 1..(Len(a) + 1), k : 1..(Len(b) + 1), l : 1..(Len(b) + 1)]

BoxBefore(box, m) == [box EXCEPT !.j = m.i, !.l = m.k]
BoxAfter(box, m) == [box EXCEPT !.i = m.i + m.size, !.k = m.k + m.size]

(* The lines of a box, given those of the smaller ones.                    *)
Part(a, b, lines, box) ==
  LET runs == Difference!Runs(a, b, box)
      m == Difference!LongestRun(runs)
  IN IF runs = {} THEN Difference!Removed(SubSeq(a, box.i, box.j - 1)) \o Difference!Added(SubSeq(b, box.k, box.l - 1))
     ELSE lines[BoxBefore(box, m)] \o Difference!Unchanged(SubSeq(a, m.i, m.i + m.size - 1)) \o lines[BoxAfter(box, m)]

LEMMA BoxFields ==
  ASSUME NEW a \in Seq(Line), NEW b \in Seq(Line), NEW box \in Boxes(a, b)
  PROVE  /\ Len(a) \in Nat /\ Len(b) \in Nat
         /\ box.i \in 1..(Len(a) + 1) /\ box.j \in 1..(Len(a) + 1)
         /\ box.k \in 1..(Len(b) + 1) /\ box.l \in 1..(Len(b) + 1)
  BY DEF Boxes

LEMMA RunFields ==
  ASSUME NEW a \in Seq(Line), NEW b \in Seq(Line), NEW box \in Boxes(a, b),
         NEW m \in Difference!Runs(a, b, box)
  PROVE  /\ m.i \in Int /\ m.k \in Int /\ m.size \in Nat /\ m.size >= 1
         /\ box.i <= m.i /\ m.i + m.size <= box.j
         /\ box.k <= m.k /\ m.k + m.size <= box.l
         /\ \A n \in 0..(m.size - 1) : a[m.i + n] = b[m.k + n]
  <1>1. /\ box.i \in Int /\ box.j \in Int /\ box.k \in Int /\ box.l \in Int
    BY BoxFields
  <1>2. /\ m \in [i : box.i..box.j, k : box.k..box.l, size : 1..(box.j - box.i)]
        /\ m.i + m.size <= box.j /\ m.k + m.size <= box.l
        /\ \A n \in 0..(m.size - 1) : a[m.i + n] = b[m.k + n]
    BY DEF Difference!Runs
  <1>3. m.i \in box.i..box.j /\ m.k \in box.k..box.l /\ m.size \in 1..(box.j - box.i)
    BY <1>2
  <1> QED
    BY <1>1, <1>2, <1>3

(* Of the runs there is a longest, and of these a first.                   *)
LEMMA LongestRunIsRun ==
  ASSUME NEW a \in Seq(Line), NEW b \in Seq(Line), NEW box \in Boxes(a, b),
         Difference!Runs(a, b, box) # {}
  PROVE  Difference!LongestRun(Difference!Runs(a, b, box)) \in Difference!Runs(a, b, box)
  <1> DEFINE runs == Difference!Runs(a, b, box)
             n == box.j
             Sizes == {n - m.size : m \in runs}
  <1>1. n \in Nat
    BY BoxFields
  <1>2. \A m \in runs : /\ m.i \in Nat /\ m.k \in Nat /\ m.size \in Nat /\ m.size <= n
    <2>1. ASSUME NEW m \in runs PROVE m.i \in Nat /\ m.k \in Nat /\ m.size \in Nat /\ m.size <= n
      <3>1. /\ m.i \in Int /\ m.k \in Int /\ m.size \in Nat
            /\ box.i <= m.i /\ m.i + m.size <= box.j /\ box.k <= m.k
        BY RunFields
      <3>2. box.i \in Nat /\ box.j \in Nat /\ box.k \in Nat
        BY BoxFields
      <3> QED
        BY <3>1, <3>2
    <2> QED
      BY <2>1
  <1> HIDE DEF runs, n
  <1>3. PICK big \in runs : \A o \in runs : o.size <= big.size
    <2>1. Sizes \in SUBSET Nat /\ Sizes # {}
      BY <1>1, <1>2 DEF runs
    <2> HIDE DEF Sizes
    <2>2. PICK s \in Sizes : \A t \in Sizes : s <= t
      BY <2>1, LeastNatural
    <2>3. PICK big \in runs : s = n - big.size
      BY <2>2 DEF Sizes
    <2>4. ASSUME NEW o \in runs PROVE o.size <= big.size
      <3>1. n - o.size \in Sizes
        BY DEF Sizes
      <3>2. n - big.size <= n - o.size
        BY <2>2, <2>3, <3>1
      <3> QED
        BY <1>1, <1>2, <3>2
    <2> QED
      BY <2>4
  <1> DEFINE long == {m \in runs : m.size = big.size}
             starts == {m.i : m \in long}
  <1>4. PICK early \in long : \A o \in long : early.i <= o.i
    <2>1. starts \in SUBSET Nat /\ starts # {}
      BY <1>2, <1>3
    <2> HIDE DEF starts
    <2>2. PICK s \in starts : \A t \in starts : s <= t
      BY <2>1, LeastNatural
    <2> QED
      BY <2>2 DEF starts
  <1> DEFINE first == {m \in long : m.i = early.i}
             others == {m.k : m \in first}
  <1>5. PICK best \in first : \A o \in first : best.k <= o.k
    <2>1. others \in SUBSET Nat /\ others # {}
      BY <1>2, <1>4
    <2> HIDE DEF others
    <2>2. PICK s \in others : \A t \in others : s <= t
      BY <2>1, LeastNatural
    <2> QED
      BY <2>2 DEF others
  <1>6. best \in runs /\ best.size = big.size /\ best.i = early.i
    BY <1>5
  <1>7. ASSUME NEW o \in runs
        PROVE  \/ best.size > o.size
               \/ best.size = o.size /\ (best.i < o.i \/ (best.i = o.i /\ best.k <= o.k))
    <2>1. CASE o.size # big.size
      BY <1>2, <1>3, <1>6, <2>1
    <2>2. CASE o.size = big.size /\ o.i # early.i
      <3>1. early.i <= o.i
        BY <1>4, <2>2
      <3> QED
        BY <1>2, <1>6, <2>2, <3>1
    <2>3. CASE o.size = big.size /\ o.i = early.i
      <3>1. best.k <= o.k
        BY <1>5, <2>3
      <3> QED
        BY <1>6, <2>3, <3>1
    <2> QED
      BY <2>1, <2>2, <2>3
  <1>8. Difference!LongestRun(runs) \in runs
    BY <1>6, <1>7 DEF Difference!LongestRun
  <1> QED
    BY <1>8 DEF runs

LEMMA Slice ==
  ASSUME NEW s \in Seq(Line), NEW from \in 1..(Len(s) + 1), NEW to \in 0..Len(s)
  PROVE  /\ SubSeq(s, from, to) \in Seq(Line)
         /\ from <= to => Len(SubSeq(s, from, to)) = to - from + 1
         /\ \A n \in 1..(to - from + 1) : SubSeq(s, from, to)[n] = s[from + n - 1]
  <1>1. from \in Int /\ to \in Int /\ Len(s) \in Nat
    OBVIOUS
  <1>2. \A n \in from..to : s[n] \in Line
    BY <1>1
  <1> QED
    BY <1>1, <1>2, SubSeqProperties

LEMMA RunSplits ==
  ASSUME NEW a \in Seq(Line), NEW b \in Seq(Line), NEW box \in Boxes(a, b),
         NEW m \in Difference!Runs(a, b, box)
  PROVE  /\ BoxBefore(box, m) \in Boxes(a, b) /\ BoxAfter(box, m) \in Boxes(a, b)
         /\ BoxBefore(box, m).i = box.i /\ BoxBefore(box, m).j = m.i
         /\ BoxBefore(box, m).k = box.k /\ BoxBefore(box, m).l = m.k
         /\ BoxAfter(box, m).i = m.i + m.size /\ BoxAfter(box, m).j = box.j
         /\ BoxAfter(box, m).k = m.k + m.size /\ BoxAfter(box, m).l = box.l
         /\ SubSeq(a, m.i, m.i + m.size - 1) \in Seq(Line)
         /\ SubSeq(a, m.i, m.i + m.size - 1) = SubSeq(b, m.k, m.k + m.size - 1)
  <1>1. /\ Len(a) \in Nat /\ Len(b) \in Nat
        /\ box.i \in 1..(Len(a) + 1) /\ box.j \in 1..(Len(a) + 1)
        /\ box.k \in 1..(Len(b) + 1) /\ box.l \in 1..(Len(b) + 1)
    BY BoxFields
  <1>2. /\ m.i \in Int /\ m.k \in Int /\ m.size \in Nat /\ m.size >= 1
        /\ box.i <= m.i /\ m.i + m.size <= box.j
        /\ box.k <= m.k /\ m.k + m.size <= box.l
        /\ \A n \in 0..(m.size - 1) : a[m.i + n] = b[m.k + n]
    BY RunFields
  <1>3. /\ m.i \in 1..(Len(a) + 1) /\ m.i + m.size \in 1..(Len(a) + 1)
        /\ m.k \in 1..(Len(b) + 1) /\ m.k + m.size \in 1..(Len(b) + 1)
    <2>1. m.i \in Int /\ m.size \in Nat /\ box.i <= m.i /\ m.i + m.size <= box.j
      BY <1>2
    <2>2. m.k \in Int /\ m.size \in Nat /\ box.k <= m.k /\ m.k + m.size <= box.l
      BY <1>2
    <2>3. m.i \in 1..(Len(a) + 1) /\ m.i + m.size \in 1..(Len(a) + 1)
      BY <1>1, <2>1
    <2>4. m.k \in 1..(Len(b) + 1) /\ m.k + m.size \in 1..(Len(b) + 1)
      BY <1>1, <2>2
    <2> QED
      BY <2>3, <2>4
  <1>4. /\ BoxBefore(box, m) \in Boxes(a, b) /\ BoxAfter(box, m) \in Boxes(a, b)
        /\ BoxBefore(box, m).i = box.i /\ BoxBefore(box, m).j = m.i
        /\ BoxBefore(box, m).k = box.k /\ BoxBefore(box, m).l = m.k
        /\ BoxAfter(box, m).i = m.i + m.size /\ BoxAfter(box, m).j = box.j
        /\ BoxAfter(box, m).k = m.k + m.size /\ BoxAfter(box, m).l = box.l
    BY <1>3 DEF Boxes, BoxBefore, BoxAfter
  <1> DEFINE s == SubSeq(a, m.i, m.i + m.size - 1)
             t == SubSeq(b, m.k, m.k + m.size - 1)
  <1>5. /\ s \in Seq(Line) /\ Len(s) = m.size
        /\ \A n \in 1..m.size : s[n] = a[m.i + n - 1]
    <2>1. m.i \in Int /\ m.size \in Nat /\ m.size >= 1 /\ m.i \in 1..(Len(a) + 1)
          /\ m.i + m.size \in 1..(Len(a) + 1) /\ Len(a) \in Nat
      BY <1>1, <1>2, <1>3
    <2> DEFINE to == m.i + m.size - 1
    <2>2. m.i \in 1..(Len(a) + 1) /\ to \in 0..Len(a) /\ m.i <= to /\ to - m.i + 1 = m.size
      BY <2>1
    <2>3. /\ SubSeq(a, m.i, to) \in Seq(Line) /\ Len(SubSeq(a, m.i, to)) = to - m.i + 1
          /\ \A n \in 1..(to - m.i + 1) : SubSeq(a, m.i, to)[n] = a[m.i + n - 1]
      <3> HIDE DEF to
      <3> QED
        BY <2>2, Slice
    <2> QED
      BY <2>2, <2>3
  <1>6. /\ t \in Seq(Line) /\ Len(t) = m.size
        /\ \A n \in 1..m.size : t[n] = b[m.k + n - 1]
    <2>1. m.k \in Int /\ m.size \in Nat /\ m.size >= 1 /\ m.k \in 1..(Len(b) + 1)
          /\ m.k + m.size \in 1..(Len(b) + 1) /\ Len(b) \in Nat
      BY <1>1, <1>2, <1>3
    <2> DEFINE to == m.k + m.size - 1
    <2>2. m.k \in 1..(Len(b) + 1) /\ to \in 0..Len(b) /\ m.k <= to /\ to - m.k + 1 = m.size
      BY <2>1
    <2>3. /\ SubSeq(b, m.k, to) \in Seq(Line) /\ Len(SubSeq(b, m.k, to)) = to - m.k + 1
          /\ \A n \in 1..(to - m.k + 1) : SubSeq(b, m.k, to)[n] = b[m.k + n - 1]
      <3> HIDE DEF to
      <3> QED
        BY <2>2, Slice
    <2> QED
      BY <2>2, <2>3
  <1>7. \A n \in 1..m.size : s[n] = t[n]
    <2>1. ASSUME NEW n \in 1..m.size PROVE s[n] = t[n]
      <3>1. n - 1 \in 0..(m.size - 1) /\ m.i + (n - 1) = m.i + n - 1 /\ m.k + (n - 1) = m.k + n - 1
        BY <1>2
      <3>2. a[m.i + (n - 1)] = b[m.k + (n - 1)]
        BY <1>2, <3>1
      <3> QED
        BY <1>5, <1>6, <3>1, <3>2
    <2> QED
      BY <2>1
  <1> HIDE DEF s, t
  <1>8. s = t
    BY <1>5, <1>6, <1>7, SeqEqual
  <1> QED
    BY <1>4, <1>5, <1>8 DEF s, t

LEMMA PartIsShown ==
  ASSUME NEW a \in Seq(Line), NEW b \in Seq(Line), NEW box \in Boxes(a, b),
         NEW lines \in [Boxes(a, b) -> Seq(Shown)]
  PROVE  Part(a, b, lines, box) \in Seq(Shown)
  <1>1. CASE Difference!Runs(a, b, box) = {}
    <2> DEFINE s == SubSeq(a, box.i, box.j - 1)
               t == SubSeq(b, box.k, box.l - 1)
    <2>1. s \in Seq(Line) /\ t \in Seq(Line)
      <3>1. /\ box.i \in 1..(Len(a) + 1) /\ box.j - 1 \in 0..Len(a)
            /\ box.k \in 1..(Len(b) + 1) /\ box.l - 1 \in 0..Len(b)
        BY BoxFields
      <3> QED
        BY <3>1, Slice
    <2> HIDE DEF s, t
    <2>2. Difference!Removed(s) \in Seq(Shown) /\ Difference!Added(t) \in Seq(Shown)
      BY <2>1, MarkedIsShown DEF Difference!Removed, Difference!Added, Kinds
    <2>3. Difference!Removed(s) \o Difference!Added(t) \in Seq(Shown)
      BY <2>2, ConcatProperties
    <2> QED
      BY <1>1, <2>3 DEF Part, s, t
  <1>2. CASE Difference!Runs(a, b, box) # {}
    <2> DEFINE m == Difference!LongestRun(Difference!Runs(a, b, box))
               s == SubSeq(a, m.i, m.i + m.size - 1)
    <2>1. m \in Difference!Runs(a, b, box)
      BY <1>2, LongestRunIsRun
    <2> HIDE DEF m
    <2>2. BoxBefore(box, m) \in Boxes(a, b) /\ BoxAfter(box, m) \in Boxes(a, b) /\ s \in Seq(Line)
      BY <2>1, RunSplits
    <2> HIDE DEF s
    <2>3. Difference!Unchanged(s) \in Seq(Shown)
      BY <2>2, MarkedIsShown DEF Difference!Unchanged, Kinds
    <2>4. lines[BoxBefore(box, m)] \in Seq(Shown) /\ lines[BoxAfter(box, m)] \in Seq(Shown)
      BY <2>2
    <2>5. lines[BoxBefore(box, m)] \o Difference!Unchanged(s) \in Seq(Shown)
      BY <2>3, <2>4, ConcatProperties
    <2>6. lines[BoxBefore(box, m)] \o Difference!Unchanged(s) \o lines[BoxAfter(box, m)] \in Seq(Shown)
      BY <2>4, <2>5, ConcatProperties
    <2> QED
      BY <1>2, <2>6 DEF Part, m, s
  <1> QED
    BY <1>1, <1>2

(* Only the lines of smaller boxes matter to those of a box.               *)
LEMMA PartOfSmaller ==
  ASSUME NEW a \in Seq(Line), NEW b \in Seq(Line), NEW box \in Boxes(a, b), NEW f, NEW g,
         \A x \in Boxes(a, b) : x.j - x.i < box.j - box.i => f[x] = g[x]
  PROVE  Part(a, b, f, box) = Part(a, b, g, box)
  <1>1. CASE Difference!Runs(a, b, box) = {}
    BY <1>1 DEF Part
  <1>2. CASE Difference!Runs(a, b, box) # {}
    <2> DEFINE m == Difference!LongestRun(Difference!Runs(a, b, box))
    <2>1. m \in Difference!Runs(a, b, box)
      BY <1>2, LongestRunIsRun
    <2> HIDE DEF m
    <2>2. /\ BoxBefore(box, m) \in Boxes(a, b) /\ BoxAfter(box, m) \in Boxes(a, b)
          /\ BoxBefore(box, m).i = box.i /\ BoxBefore(box, m).j = m.i
          /\ BoxAfter(box, m).i = m.i + m.size /\ BoxAfter(box, m).j = box.j
      BY <2>1, RunSplits
    <2>3. /\ m.i \in Int /\ m.size \in Nat /\ m.size >= 1
          /\ box.i <= m.i /\ m.i + m.size <= box.j
      BY <2>1, RunFields
    <2>4. box.i \in Int /\ box.j \in Int
      BY BoxFields
    <2>5. /\ BoxBefore(box, m).j - BoxBefore(box, m).i < box.j - box.i
          /\ BoxAfter(box, m).j - BoxAfter(box, m).i < box.j - box.i
      BY <2>2, <2>3, <2>4
    <2>6. f[BoxBefore(box, m)] = g[BoxBefore(box, m)] /\ f[BoxAfter(box, m)] = g[BoxAfter(box, m)]
      BY <2>2, <2>5
    <2> QED
      BY <1>2, <2>6 DEF Part, m
  <1> QED
    BY <1>1, <1>2

(* So the recursion over boxes is a function.                              *)
LEMMA DiffIsFunction ==
  ASSUME NEW a \in Seq(Line), NEW b \in Seq(Line)
  PROVE  \E f : /\ \A box \in Boxes(a, b) : f[box] = Part(a, b, f, box)
                /\ Difference!DiffLines(a, b) = f[[i |-> 1, j |-> Len(a) + 1, k |-> 1, l |-> Len(b) + 1]]
  <1> DEFINE B == Boxes(a, b)
             X == [B -> Seq(Shown)]
             n == Len(a) + 1
             G(lines) == [box \in B |-> Part(a, b, lines, box)]
             F == [z \in (1..(n + 1)) \X X |-> G(z[2])]
             none == [box \in B |-> << >>]
             H(f) == [box \in B |-> Part(a, b, f, box)]
             met == CHOOSE f : f = H(f)
  <1>1. n \in Nat /\ n >= 1 /\ n + 1 \in Nat
    OBVIOUS
  <1>2. \A lines \in X : G(lines) \in X
    BY PartIsShown
  <1>3. F \in [(1..(n + 1)) \X X -> X] /\ none \in X
    <2> HIDE DEF G, X
    <2>1. F \in [(1..(n + 1)) \X X -> X]
      BY <1>2
    <2>2. none \in X
      BY DEF X
    <2> QED
      BY <2>1, <2>2
  <1>4. \A k \in 1..(n + 1), lines \in X : F[<<k, lines>>] = G(lines)
    <2> HIDE DEF G, X
    <2> QED
      OBVIOUS
  <1> HIDE DEF F, none
  <1>5. PICK f : Iterates(f, X, F, none, n + 1)
    <2> HIDE DEF X
    <2> QED
      BY <1>1, <1>3, IterationExists
  <1>6. \A k \in 1..(n + 1) : f[k] = G(f[k - 1])
    <2>1. ASSUME NEW k \in 1..(n + 1) PROVE f[k] = G(f[k - 1])
      <3> HIDE DEF X, G
      <3> HIDE DEF n
      <3>1. f[k - 1] \in X /\ f[k] = F[<<k, f[k - 1]>>]
        <4>1. k - 1 \in 0..(n + 1)
          BY <1>1
        <4> QED
          BY <1>5, <4>1 DEF Iterates
      <3> QED
        BY <1>4, <3>1
    <2> QED
      BY <2>1
  <1>7. \A k \in 1..(n + 1) : \A box \in B : f[k][box] = Part(a, b, f[k - 1], box)
    BY <1>6
  <1> HIDE DEF X, G
  <1> DEFINE Steady(k) == \A box \in B : box.j - box.i < k => f[k][box] = f[k + 1][box]
             S == {k \in 0..n : k # 0 => Steady(k)}
  <1>8. \A box \in B : box.i \in Int /\ box.j \in Int /\ box.j - box.i < n
    <2>1. ASSUME NEW box \in B PROVE box.i \in Int /\ box.j \in Int /\ box.j - box.i < n
      <3>1. box.i \in 1..n /\ box.j \in 1..n
        BY BoxFields
      <3> QED
        BY <1>1, <3>1
    <2> QED
      BY <2>1
  <1> HIDE DEF n
  <1>9. 0 \in S
    BY <1>1
  <1>10. ASSUME NEW k \in S, k # n PROVE k + 1 \in S
    <2>1. k \in Int /\ 0 <= k /\ k + 1 \in 1..n /\ k + 1 \in 0..n
          /\ k + 1 \in 1..(n + 1) /\ (k + 1) + 1 \in 1..(n + 1)
          /\ (k + 1) - 1 = k /\ ((k + 1) + 1) - 1 = k + 1
      BY <1>1, <1>10
    <2>2. ASSUME NEW box \in B, box.j - box.i < k + 1 PROVE f[k + 1][box] = f[(k + 1) + 1][box]
      <3>1. f[k + 1][box] = Part(a, b, f[k], box) /\ f[(k + 1) + 1][box] = Part(a, b, f[k + 1], box)
        BY <1>7, <2>1
      <3>2. CASE k = 0
        <4>1. Difference!Runs(a, b, box) = {}
          <5>1. ASSUME NEW m \in Difference!Runs(a, b, box) PROVE FALSE
            <6>1. /\ m.i \in Int /\ m.size \in Nat /\ m.size >= 1
                  /\ box.i <= m.i /\ m.i + m.size <= box.j
              BY RunFields
            <6> QED
              BY <1>8, <2>2, <3>2, <6>1
          <5> QED
            BY <5>1
        <4> QED
          BY <3>1, <4>1 DEF Part
      <3>3. CASE k # 0
        <4>1. \A x \in B : x.j - x.i < box.j - box.i => f[k][x] = f[k + 1][x]
          <5>1. ASSUME NEW x \in B, x.j - x.i < box.j - box.i PROVE f[k][x] = f[k + 1][x]
            <6>1. x.j - x.i < k
              BY <1>8, <2>1, <2>2, <5>1
            <6> QED
              BY <1>10, <3>3, <6>1
          <5> QED
            BY <5>1
        <4> QED
          BY <3>1, <4>1, PartOfSmaller
      <3> QED
        BY <3>2, <3>3
    <2>3. Steady(k + 1)
      BY <2>2
    <2> QED
      BY <2>1, <2>3
  <1>11. S \in SUBSET (0..n)
    OBVIOUS
  <1> HIDE DEF S
  <1>12. n \in S
    BY <1>1, <1>9, <1>10, <1>11, Induction
  <1>13. ASSUME NEW box \in B PROVE f[n][box] = Part(a, b, f[n], box)
    <2>1. n + 1 \in 1..(n + 1) /\ (n + 1) - 1 = n /\ n # 0
      BY <1>1
    <2>2. f[n][box] = f[n + 1][box]
      BY <1>8, <1>12, <2>1 DEF S
    <2> QED
      BY <1>7, <2>1, <2>2
  <1>14. f[n] = H(f[n])
    <2>1. f[n] \in X
      BY <1>1, <1>5 DEF Iterates
    <2>2. f[n] = [box \in B |-> f[n][box]]
      BY <2>1 DEF X
    <2> QED
      BY <1>13, <2>2
  <1>15. met = H(met)
    <2> HIDE DEF H
    <2> QED
      BY <1>14
  <1>16. \A box \in B : met[box] = Part(a, b, met, box)
    BY <1>15
  <1>17. Difference!DiffLines(a, b) = met[[i |-> 1, j |-> Len(a) + 1, k |-> 1, l |-> Len(b) + 1]]
    BY DEF Difference!DiffLines, Part, Boxes, BoxBefore, BoxAfter
  <1> QED
    BY <1>16, <1>17

LEMMA ThreeSlices ==
  ASSUME NEW s \in Seq(Line), NEW i \in 1..(Len(s) + 1), NEW j \in 1..(Len(s) + 1),
         NEW from \in Int, NEW size \in Nat, i <= from, from + size <= j
  PROVE  SubSeq(s, i, from - 1) \o SubSeq(s, from, from + size - 1)
           \o SubSeq(s, from + size, j - 1) = SubSeq(s, i, j - 1)
  <1>1. Len(s) \in Nat
    OBVIOUS
  <1> DEFINE m == from - 1
             n == from + size - 1
             p == j - 1
  <1>2. /\ m \in (i - 1)..Len(s) /\ n \in m..Len(s) /\ n \in (i - 1)..Len(s) /\ p \in n..Len(s)
        /\ m + 1 = from /\ n + 1 = from + size
    BY <1>1
  <1> HIDE DEF m, n, p
  <1>3. SubSeq(s, i, m) \o SubSeq(s, m + 1, n) = SubSeq(s, i, n)
    BY <1>2, ConcatAdjacentSubSeq
  <1>4. SubSeq(s, i, n) \o SubSeq(s, n + 1, p) = SubSeq(s, i, p)
    BY <1>2, ConcatAdjacentSubSeq
  <1> QED
    BY <1>2, <1>3, <1>4 DEF m, n, p

(* The lines of a box are those it has of the old version and, differently *)
(* read, those it has of the new one.                                      *)
LEMMA DiffTexts ==
  ASSUME NEW a \in Seq(Line), NEW b \in Seq(Line)
  PROVE  LET d == Difference!DiffLines(a, b)
         IN /\ d \in Seq(Shown)
            /\ Difference!Text(d, {"unchanged", "removed"}) = a
            /\ Difference!Text(d, {"unchanged", "added"}) = b
  <1> DEFINE Old == {"unchanged", "removed"}
             New == {"unchanged", "added"}
             whole == [i |-> 1, j |-> Len(a) + 1, k |-> 1, l |-> Len(b) + 1]
             n == Len(a) + 1
  <1>1. PICK f : /\ \A box \in Boxes(a, b) : f[box] = Part(a, b, f, box)
                 /\ Difference!DiffLines(a, b) = f[whole]
    BY DiffIsFunction
  <1> DEFINE Holds(box) ==
               /\ f[box] \in Seq(Shown)
               /\ Difference!Text(f[box], Old) = SubSeq(a, box.i, box.j - 1)
               /\ Difference!Text(f[box], New) = SubSeq(b, box.k, box.l - 1)
             Fair(box) == box.i <= box.j /\ box.k <= box.l
             S == {k \in 0..n : \A box \in Boxes(a, b) : Fair(box) /\ box.j - box.i <= k => Holds(box)}
  <1> HIDE DEF n, whole, Old, New
  <1>2. n \in Nat
    BY DEF n
  <1>3. ASSUME NEW box \in Boxes(a, b), Fair(box), Difference!Runs(a, b, box) = {}
        PROVE  Holds(box)
    <2> DEFINE s == SubSeq(a, box.i, box.j - 1)
               t == SubSeq(b, box.k, box.l - 1)
    <2>1. s \in Seq(Line) /\ t \in Seq(Line)
      <3>1. /\ box.i \in 1..(Len(a) + 1) /\ box.j - 1 \in 0..Len(a)
            /\ box.k \in 1..(Len(b) + 1) /\ box.l - 1 \in 0..Len(b)
        BY BoxFields
      <3> QED
        BY <3>1, Slice
    <2>2. f[box] = Difference!Removed(s) \o Difference!Added(t)
      BY <1>1, <1>3 DEF Part
    <2> HIDE DEF s, t
    <2>3. Difference!Removed(s) \in Seq(Shown) /\ Difference!Added(t) \in Seq(Shown)
      BY <2>1, MarkedIsShown DEF Difference!Removed, Difference!Added, Kinds
    <2>4. Difference!Removed(s) \o Difference!Added(t) \in Seq(Shown)
      BY <2>3, ConcatProperties
    <2>5. /\ Difference!Text(Difference!Removed(s), Old) = s /\ Difference!Text(Difference!Removed(s), New) = << >>
          /\ Difference!Text(Difference!Added(t), Old) = << >> /\ Difference!Text(Difference!Added(t), New) = t
      BY <2>1, TextOfMarked DEF Difference!Removed, Difference!Added, Kinds, Old, New
    <2>6. /\ Difference!Text(Difference!Removed(s) \o Difference!Added(t), Old) = s \o << >>
          /\ Difference!Text(Difference!Removed(s) \o Difference!Added(t), New) = << >> \o t
      <3>1. \A kinds : Difference!Text(Difference!Removed(s) \o Difference!Added(t), kinds)
                         = Difference!Text(Difference!Removed(s), kinds) \o Difference!Text(Difference!Added(t), kinds)
        BY <2>3, TextOfConcat
      <3> QED
        BY <2>5, <3>1
    <2>7. s \o << >> = s /\ << >> \o t = t
      BY <2>1, ConcatEmptySeq
    <2> QED
      BY <2>2, <2>4, <2>6, <2>7 DEF s, t
  <1>4. ASSUME NEW box \in Boxes(a, b), Fair(box), Difference!Runs(a, b, box) # {},
               \A x \in Boxes(a, b) : Fair(x) /\ x.j - x.i < box.j - box.i => Holds(x)
        PROVE  Holds(box)
    <2> DEFINE m == Difference!LongestRun(Difference!Runs(a, b, box))
               s == SubSeq(a, m.i, m.i + m.size - 1)
               x == BoxBefore(box, m)
               y == BoxAfter(box, m)
    <2>1. m \in Difference!Runs(a, b, box)
      BY <1>4, LongestRunIsRun
    <2>2. f[box] = f[x] \o Difference!Unchanged(s) \o f[y]
      BY <1>1, <1>4 DEF Part
    <2> HIDE DEF m
    <2>3. /\ x \in Boxes(a, b) /\ y \in Boxes(a, b)
          /\ x.i = box.i /\ x.j = m.i /\ x.k = box.k /\ x.l = m.k
          /\ y.i = m.i + m.size /\ y.j = box.j /\ y.k = m.k + m.size /\ y.l = box.l
          /\ s \in Seq(Line) /\ s = SubSeq(b, m.k, m.k + m.size - 1)
      BY <2>1, RunSplits
    <2> HIDE DEF x, y
    <2>4. /\ m.i \in Int /\ m.k \in Int /\ m.size \in Nat /\ m.size >= 1
          /\ box.i <= m.i /\ m.i + m.size <= box.j
          /\ box.k <= m.k /\ m.k + m.size <= box.l
      BY <2>1, RunFields
    <2>5. /\ Len(a) \in Nat /\ Len(b) \in Nat
          /\ box.i \in 1..(Len(a) + 1) /\ box.j \in 1..(Len(a) + 1)
          /\ box.k \in 1..(Len(b) + 1) /\ box.l \in 1..(Len(b) + 1)
      BY BoxFields
    <2>6. Holds(x) /\ Holds(y)
      <3>3. /\ x.i = box.i /\ x.j = m.i /\ x.k = box.k /\ x.l = m.k
            /\ y.i = m.i + m.size /\ y.j = box.j /\ y.k = m.k + m.size /\ y.l = box.l
        BY <2>3
      <3>4. box.i \in Int /\ box.j \in Int /\ box.k \in Int /\ box.l \in Int
        BY <2>5
      <3>1. Fair(x) /\ x.j - x.i < box.j - box.i
        BY <2>4, <3>3, <3>4
      <3>2. Fair(y) /\ y.j - y.i < box.j - box.i
        BY <2>4, <3>3, <3>4
      <3> QED
        BY <1>4, <2>3, <3>1, <3>2
    <2>7. /\ f[x] \in Seq(Shown) /\ Difference!Text(f[x], Old) = SubSeq(a, box.i, m.i - 1)
          /\ Difference!Text(f[x], New) = SubSeq(b, box.k, m.k - 1)
          /\ f[y] \in Seq(Shown) /\ Difference!Text(f[y], Old) = SubSeq(a, m.i + m.size, box.j - 1)
          /\ Difference!Text(f[y], New) = SubSeq(b, m.k + m.size, box.l - 1)
      BY <2>3, <2>6
    <2>8. /\ SubSeq(a, box.i, m.i - 1) \o s \o SubSeq(a, m.i + m.size, box.j - 1)
               = SubSeq(a, box.i, box.j - 1)
      BY <2>4, <2>5, ThreeSlices
    <2>9. /\ SubSeq(b, box.k, m.k - 1) \o s \o SubSeq(b, m.k + m.size, box.l - 1)
               = SubSeq(b, box.k, box.l - 1)
      <3>1. SubSeq(b, box.k, m.k - 1) \o SubSeq(b, m.k, m.k + m.size - 1)
              \o SubSeq(b, m.k + m.size, box.l - 1) = SubSeq(b, box.k, box.l - 1)
        BY <2>4, <2>5, ThreeSlices
      <3> QED
        BY <2>3, <3>1
    <2> HIDE DEF s
    <2>10. Difference!Unchanged(s) \in Seq(Shown)
      BY <2>3, MarkedIsShown DEF Difference!Unchanged, Kinds
    <2>11. Difference!Text(Difference!Unchanged(s), Old) = s /\ Difference!Text(Difference!Unchanged(s), New) = s
      BY <2>3, TextOfMarked DEF Difference!Unchanged, Kinds, Old, New
    <2>12. f[x] \o Difference!Unchanged(s) \in Seq(Shown)
      BY <2>7, <2>10, ConcatProperties
    <2>13. f[box] \in Seq(Shown)
      BY <2>2, <2>7, <2>12, ConcatProperties
    <2>14. \A kinds : Difference!Text(f[box], kinds)
                        = Difference!Text(f[x], kinds) \o Difference!Text(Difference!Unchanged(s), kinds) \o Difference!Text(f[y], kinds)
      <3>1. ASSUME NEW kinds
            PROVE  Difference!Text(f[box], kinds)
                     = Difference!Text(f[x], kinds) \o Difference!Text(Difference!Unchanged(s), kinds) \o Difference!Text(f[y], kinds)
        <4>1. Difference!Text(f[x] \o Difference!Unchanged(s) \o f[y], kinds)
                = Difference!Text(f[x] \o Difference!Unchanged(s), kinds) \o Difference!Text(f[y], kinds)
          BY <2>7, <2>12, TextOfConcat
        <4>2. Difference!Text(f[x] \o Difference!Unchanged(s), kinds) = Difference!Text(f[x], kinds) \o Difference!Text(Difference!Unchanged(s), kinds)
          BY <2>7, <2>10, TextOfConcat
        <4> QED
          BY <2>2, <4>1, <4>2
      <3> QED
        BY <3>1
    <2>15. Difference!Text(f[box], Old) = SubSeq(a, box.i, box.j - 1)
      BY <2>7, <2>8, <2>11, <2>14
    <2>16. Difference!Text(f[box], New) = SubSeq(b, box.k, box.l - 1)
      BY <2>7, <2>9, <2>11, <2>14
    <2> QED
      BY <2>13, <2>15, <2>16
  <1> HIDE DEF Holds
  <1>5. \A box \in Boxes(a, b) : box.i \in Int /\ box.j \in Int /\ box.j - box.i <= n
    <2>1. ASSUME NEW box \in Boxes(a, b) PROVE box.i \in Int /\ box.j \in Int /\ box.j - box.i <= n
      <3>1. box.i \in 1..n /\ box.j \in 1..n
        BY BoxFields DEF n
      <3> QED
        BY <1>2, <3>1
    <2> QED
      BY <2>1
  <1>6. 0 \in S
    <2>1. ASSUME NEW box \in Boxes(a, b), Fair(box), box.j - box.i <= 0 PROVE Holds(box)
      <3>1. Difference!Runs(a, b, box) = {}
        <4>1. ASSUME NEW m \in Difference!Runs(a, b, box) PROVE FALSE
          <5>1. /\ m.i \in Int /\ m.size \in Nat /\ m.size >= 1
                /\ box.i <= m.i /\ m.i + m.size <= box.j
            BY RunFields
          <5> QED
            BY <1>5, <2>1, <5>1
        <4> QED
          BY <4>1
      <3> QED
        BY <1>3, <2>1, <3>1
    <2> QED
      BY <1>2, <2>1
  <1>7. ASSUME NEW k \in S, k # n PROVE k + 1 \in S
    <2>1. ASSUME NEW box \in Boxes(a, b), Fair(box), box.j - box.i <= k + 1 PROVE Holds(box)
      <3>1. ASSUME NEW x \in Boxes(a, b), Fair(x), x.j - x.i < box.j - box.i PROVE Holds(x)
        <4>1. x.j - x.i <= k
          BY <1>2, <1>5, <1>7, <2>1, <3>1
        <4> QED
          BY <1>7, <3>1, <4>1
      <3>2. CASE Difference!Runs(a, b, box) = {}
        BY <1>3, <2>1, <3>2
      <3>3. CASE Difference!Runs(a, b, box) # {}
        BY <1>4, <2>1, <3>1, <3>3
      <3> QED
        BY <3>2, <3>3
    <2>2. k + 1 \in 0..n
      BY <1>2, <1>7
    <2> QED
      BY <2>1, <2>2
  <1>8. S \in SUBSET (0..n)
    OBVIOUS
  <1> HIDE DEF S
  <1>9. n \in S
    BY <1>2, <1>6, <1>7, <1>8, Induction
  <1>10. whole \in Boxes(a, b) /\ Fair(whole)
    BY DEF whole, Boxes
  <1>11. Holds(whole)
    BY <1>5, <1>9, <1>10 DEF S
  <1>12. /\ f[whole] \in Seq(Shown)
         /\ Difference!Text(f[whole], Old) = SubSeq(a, whole.i, whole.j - 1)
         /\ Difference!Text(f[whole], New) = SubSeq(b, whole.k, whole.l - 1)
    BY <1>11 DEF Holds
  <1>13. /\ whole.i = 1 /\ whole.k = 1 /\ whole.j - 1 = Len(a) /\ whole.l - 1 = Len(b)
    BY DEF whole
  <1>14. SubSeq(a, 1, Len(a)) = a /\ SubSeq(b, 1, Len(b)) = b
    BY SubSeqFull
  <1> QED
    BY <1>1, <1>12, <1>13, <1>14 DEF Old, New

(* So what is shown of a field replays its change.                         *)
LEMMA FieldReplays ==
  ASSUME NEW a \in Seq(Line), NEW b \in Seq(Line)
  PROVE  /\ Difference!FieldDiff(a, b).kind = "unchanged" <=> a = b
         /\ Difference!FieldDiff(a, b).kind # "unchanged" =>
              /\ Difference!Text(Difference!FieldDiff(a, b).lines, {"unchanged", "removed"}) = a
              /\ Difference!Text(Difference!FieldDiff(a, b).lines, {"unchanged", "added"}) = b
              /\ Difference!Text(Difference!FieldDiff(a, b).lines, {"added", "removed"}) # << >>
  <1>1. CASE a = b
    BY <1>1 DEF Difference!FieldDiff
  <1>2. CASE a # b /\ a = << >>
    <2>1. Difference!FieldDiff(a, b) = [kind |-> "added", lines |-> Difference!Added(b)]
      BY <1>2 DEF Difference!FieldDiff
    <2>2. /\ Difference!Text(Difference!Added(b), {"unchanged", "removed"}) = << >>
          /\ Difference!Text(Difference!Added(b), {"unchanged", "added"}) = b
          /\ Difference!Text(Difference!Added(b), {"added", "removed"}) = b
      BY TextOfMarked DEF Difference!Added, Kinds
    <2> QED
      BY <1>2, <2>1, <2>2
  <1>3. CASE a # b /\ a # << >> /\ b = << >>
    <2>1. Difference!FieldDiff(a, b) = [kind |-> "removed", lines |-> Difference!Removed(a)]
      BY <1>3 DEF Difference!FieldDiff
    <2>2. /\ Difference!Text(Difference!Removed(a), {"unchanged", "removed"}) = a
          /\ Difference!Text(Difference!Removed(a), {"unchanged", "added"}) = << >>
          /\ Difference!Text(Difference!Removed(a), {"added", "removed"}) = a
      BY TextOfMarked DEF Difference!Removed, Kinds
    <2> QED
      BY <1>3, <2>1, <2>2
  <1>4. CASE a # b /\ a # << >> /\ b # << >>
    <2> DEFINE d == Difference!DiffLines(a, b)
    <2>1. Difference!FieldDiff(a, b) = [kind |-> "modified", lines |-> d]
      BY <1>4 DEF Difference!FieldDiff
    <2>2. /\ d \in Seq(Shown)
          /\ Difference!Text(d, {"unchanged", "removed"}) = a
          /\ Difference!Text(d, {"unchanged", "added"}) = b
      BY DiffTexts
    <2> HIDE DEF d
    <2>3. Difference!Text(d, {"added", "removed"}) # << >>
      BY <1>4, <2>2, NothingMarked
    <2> QED
      BY <1>4, <2>1, <2>2, <2>3
  <1> QED
    BY <1>1, <1>2, <1>3, <1>4

-----------------------------------------------------------------------------
(* Only the part that compares has compared.                               *)
DiffInv ==
  /\ part = "difference" => old \in Versions /\ new \in Versions
  /\ compared =>
       /\ part = "difference"
       /\ diff = [field \in DOMAIN old |->
                   Difference!FieldDiff(Difference!AsLines(old[field]), Difference!AsLines(new[field]))]

(* Whatever two versions are compared, of any number of lines, the lines   *)
(* shown turn the old one into the new one and back, and nothing that      *)
(* differs is called unchanged (diffing.py).                               *)
THEOREM ComparisonReplays == PartsSpec => []DiffReplays
<1>1. PartsInit => DiffInv
  BY DEF PartsInit, Difference!Init, DifferenceAtRest!Init, DiffInv
<1>2. DiffInv /\ [PartsNext]_partsVars => DiffInv'
  <2> SUFFICES ASSUME DiffInv, [PartsNext]_partsVars PROVE DiffInv'
    OBVIOUS
  <2>1. CASE part = "difference" /\ part' = part /\ Difference!Next
    BY <2>1 DEF DiffInv, Difference!Next, Difference!Compare
  <2>2. CASE UNCHANGED <<part, differenceVars>>
    BY <2>2 DEF DiffInv, differenceVars
  <2>3. (part = "difference" /\ part' = part /\ Difference!Next) \/ UNCHANGED <<part, differenceVars>>
    BY DEF PartsNext, partsVars
  <2> QED
    BY <2>1, <2>2, <2>3
<1>3. DiffInv => DiffReplays
  <2> SUFFICES ASSUME DiffInv, compared, NEW field \in DOMAIN diff
               PROVE  LET d == diff[field]
                          before == Difference!AsLines(old[field])
                          after == Difference!AsLines(new[field])
                      IN /\ d.kind = "unchanged" <=> before = after
                         /\ d.kind # "unchanged" =>
                              /\ Difference!Text(d.lines, {"unchanged", "removed"}) = before
                              /\ Difference!Text(d.lines, {"unchanged", "added"}) = after
                              /\ Difference!Text(d.lines, {"added", "removed"}) # << >>
    BY DEF DiffReplays, Difference!DiffReplays
  <2> DEFINE before == Difference!AsLines(old[field])
             after == Difference!AsLines(new[field])
  <2>1. /\ old \in [Field -> Seq(Line)] /\ new \in [Field -> Seq(Line)]
        /\ field \in Field /\ diff[field] = Difference!FieldDiff(before, after)
    BY PartsAssumption DEF DiffInv
  <2>2. before \in Seq(Line) /\ after \in Seq(Line)
    BY <2>1, AsLinesIsSeq
  <2> HIDE DEF before, after
  <2>3. /\ diff[field].kind = "unchanged" <=> before = after
        /\ diff[field].kind # "unchanged" =>
             /\ Difference!Text(diff[field].lines, {"unchanged", "removed"}) = before
             /\ Difference!Text(diff[field].lines, {"unchanged", "added"}) = after
             /\ Difference!Text(diff[field].lines, {"added", "removed"}) # << >>
    BY <2>1, <2>2, FieldReplays
  <2> QED
    BY <2>3 DEF before, after
<1> QED
  BY <1>1, <1>2, <1>3, PTL DEF PartsSpec

-----------------------------------------------------------------------------
(***************************************************************************)
(* Proofs about a report, for any table and any period: first what makes a *)
(* value an anomaly, then what the windows hold, then what is compared.    *)
(***************************************************************************)
(* Induction over the subsets of a finite set.                             *)
LEMMA SubsetInduction ==
  ASSUME NEW D, IsFiniteSet(D), NEW T \in SUBSET (SUBSET D), {} \in T,
         \A s \in SUBSET D : s # {} /\ (\A p \in s : s \ {p} \in T) => s \in T
  PROVE  T = SUBSET D
<1> SUFFICES ASSUME (SUBSET D) \ T # {} PROVE FALSE
  OBVIOUS
<1> DEFINE C == {Cardinality(s) : s \in (SUBSET D) \ T}
<1>1. \A s \in SUBSET D : IsFiniteSet(s) /\ Cardinality(s) \in Nat
  BY FS_Subset, FS_CardinalityType
<1>2. C \in SUBSET Nat /\ C # {}
  BY <1>1
<1>3. PICK n \in C : \A m \in C : n <= m
  <2> HIDE DEF C
  <2> QED
    BY <1>2, LeastNatural
<1>4. PICK s \in (SUBSET D) \ T : Cardinality(s) = n
  BY <1>3
<1>5. PICK p \in s : s \ {p} \in (SUBSET D) \ T
  BY <1>4
<1>6. Cardinality(s \ {p}) = Cardinality(s) - 1
  BY <1>1, <1>4, <1>5, FS_RemoveElement
<1>7. n <= Cardinality(s \ {p}) /\ n \in Nat
  BY <1>2, <1>3, <1>5
<1> QED
  BY <1>4, <1>6, <1>7

(* What SumFunction adds up, subset by subset.                             *)
Pick(s) == CHOOSE x \in s : TRUE

Sums(g, f) ==
  /\ g \in [SUBSET DOMAIN f -> Int] /\ g[{}] = 0
  /\ \A s \in SUBSET DOMAIN f : s # {} => g[s] = f[Pick(s)] + g[s \ {Pick(s)}]

LEMMA PickIsIn == \A s : s # {} => Pick(s) \in s
  BY DEF Pick

LEMMA SumsExist ==
  ASSUME NEW D, IsFiniteSet(D), NEW f \in [D -> Int]
  PROVE  \E g : Sums(g, f)
<1> DEFINE n == Cardinality(D)
           X == [SUBSET D -> Int]
           zero == [s \in SUBSET D |-> 0]
           F == [z \in (1..n) \X X |->
                  [s \in SUBSET D |-> IF s = {} THEN 0 ELSE f[Pick(s)] + z[2][s \ {Pick(s)}]]]
<1>1. n \in Nat /\ \A s \in SUBSET D : IsFiniteSet(s) /\ Cardinality(s) \in 0..n
  BY FS_Subset, FS_CardinalityType
<1>2. F \in [(1..n) \X X -> X]
  <2>1. \A z \in (1..n) \X X : F[z] \in X
    BY PickIsIn
  <2> QED
    BY <2>1
<1>3. PICK it : Iterates(it, X, F, zero, n)
  <2>1. zero \in X
    OBVIOUS
  <2> HIDE DEF n, X, F, zero
  <2> QED
    BY <1>1, <1>2, <2>1, IterationExists
<1>4. /\ \A k \in 0..n : it[k] \in X
      /\ \A k \in 0..n : it[k][{}] = 0
      /\ \A k \in 1..n : \A s \in SUBSET D : s # {} =>
           it[k][s] = f[Pick(s)] + it[k - 1][s \ {Pick(s)}]
  <2>1. it \in [0..n -> X] /\ it[0] = zero /\ \A k \in 1..n : it[k] = F[<<k, it[k - 1]>>]
    BY <1>3 DEF Iterates
  <2>2. \A k \in 1..n : k - 1 \in 0..n
    BY <1>1
  <2>3. \A k \in 1..n : \A s \in SUBSET D :
          it[k][s] = IF s = {} THEN 0 ELSE f[Pick(s)] + it[k - 1][s \ {Pick(s)}]
    <3>1. \A k \in 1..n, h \in X, s \in SUBSET D :
            F[<<k, h>>][s] = IF s = {} THEN 0 ELSE f[Pick(s)] + h[s \ {Pick(s)}]
      OBVIOUS
    <3>2. \A k \in 1..n : it[k - 1] \in X
      BY <2>1, <2>2
    <3> HIDE DEF F, X
    <3>3. ASSUME NEW k \in 1..n, NEW s \in SUBSET D
          PROVE  it[k][s] = IF s = {} THEN 0 ELSE f[Pick(s)] + it[k - 1][s \ {Pick(s)}]
      <4>1. it[k - 1] \in X /\ it[k] = F[<<k, it[k - 1]>>]
        BY <2>1, <3>2
      <4> DEFINE h == it[k - 1]
      <4>2. h \in X /\ it[k] = F[<<k, h>>]
        BY <4>1
      <4> HIDE DEF h
      <4>3. it[k][s] = IF s = {} THEN 0 ELSE f[Pick(s)] + h[s \ {Pick(s)}]
        BY <3>1, <4>2
      <4> QED
        BY <4>3 DEF h
    <3> QED
      BY <3>3
  <2>4. \A k \in 0..n : k = 0 \/ k \in 1..n
    BY <1>1
  <2> QED
    BY <2>1, <2>3, <2>4
<1> DEFINE T == {s \in SUBSET D : \A k \in 0..n : Cardinality(s) <= k => it[k][s] = it[n][s]}
<1>5. \A s \in SUBSET D : s # {} /\ (\A p \in s : s \ {p} \in T) =>
        s \in T /\ it[n][s] = f[Pick(s)] + it[n][s \ {Pick(s)}]
  <2> SUFFICES ASSUME NEW s \in SUBSET D, s # {}, \A p \in s : s \ {p} \in T
               PROVE  s \in T /\ it[n][s] = f[Pick(s)] + it[n][s \ {Pick(s)}]
    OBVIOUS
  <2> DEFINE p == Pick(s)
  <2>1. p \in s /\ s \ {p} \in T
    BY PickIsIn
  <2>2. Cardinality(s \ {p}) = Cardinality(s) - 1 /\ Cardinality(s) \in 1..n
    BY <1>1, <2>1, FS_RemoveElement, FS_EmptySet
  <2>3. ASSUME NEW k \in 0..n, Cardinality(s) <= k
        PROVE  it[k][s] = f[p] + it[n][s \ {p}]
    <3>1. k \in 1..n /\ k - 1 \in 0..n /\ Cardinality(s \ {p}) <= k - 1
      BY <1>1, <2>2, <2>3
    <3>2. it[k - 1][s \ {p}] = it[n][s \ {p}]
      BY <2>1, <3>1
    <3> QED
      BY <1>4, <3>1, <3>2
  <2>4. it[n][s] = f[p] + it[n][s \ {p}]
    <3>1. n \in 0..n /\ Cardinality(s) <= n
      BY <1>1, <2>2
    <3> QED
      BY <2>3, <3>1
  <2> QED
    BY <2>3, <2>4
<1>6. T = SUBSET D
  <2>1. {} \in T /\ T \in SUBSET (SUBSET D)
    BY <1>1, <1>4
  <2> HIDE DEF T, n
  <2> QED
    BY <1>5, <2>1, SubsetInduction
<1>7. Sums(it[n], f)
  <2>1. n \in 0..n
    BY <1>1
  <2>2. \A s \in SUBSET D : s # {} => it[n][s] = f[Pick(s)] + it[n][s \ {Pick(s)}]
    BY <1>5, <1>6
  <2> HIDE DEF n
  <2> QED
    BY <1>4, <2>1, <2>2 DEF Sums
<1> QED
  BY <1>7

LEMMA SumIsOne ==
  ASSUME NEW D, IsFiniteSet(D), NEW f \in [D -> Int]
  PROVE  \E g : Sums(g, f) /\ Report!SumFunction(f) = g[D]
<1> DEFINE H(h) == [s \in SUBSET DOMAIN f |->
                     IF s = {} THEN 0
                     ELSE f[CHOOSE x \in s : TRUE] + h[s \ {CHOOSE x \in s : TRUE}]]
           met == CHOOSE h : h = H(h)
<1>1. Report!SumFunction(f) = met[DOMAIN f]
  BY DEF Report!SumFunction, Report!SumFunctionOnSet, Report!FoldFunctionOnSet, Report!MapThenFoldSet
<1>2. PICK g : Sums(g, f)
  BY SumsExist
<1>3. g = H(g)
  <2>1. \A s \in SUBSET D : g[s] = H(g)[s]
    BY <1>2 DEF Sums, Pick
  <2> QED
    BY <1>2, <2>1 DEF Sums
<1>4. met = H(met)
  <2> HIDE DEF H
  <2> QED
    BY <1>3
<1> HIDE DEF met
<1>5. /\ DOMAIN met = SUBSET D /\ met = [s \in SUBSET D |-> met[s]] /\ met[{}] = 0
      /\ \A s \in SUBSET D : s # {} => met[s] = f[Pick(s)] + met[s \ {Pick(s)}]
  <2>1. DOMAIN met = SUBSET D /\ met = [s \in SUBSET D |-> met[s]]
    BY <1>4
  <2>2. \A s \in SUBSET D : met[s] = H(met)[s]
    BY <1>4
  <2> QED
    BY <2>1, <2>2 DEF Pick
<1> HIDE DEF H
<1> DEFINE T == {s \in SUBSET D : met[s] \in Int}
<1>6. T = SUBSET D
  <2>1. ASSUME NEW s \in SUBSET D, s # {}, \A p \in s : s \ {p} \in T PROVE s \in T
    <3>1. Pick(s) \in s /\ s \ {Pick(s)} \in T
      BY <2>1, PickIsIn
    <3>2. f[Pick(s)] \in Int /\ met[s \ {Pick(s)}] \in Int
      BY <3>1
    <3>3. met[s] = f[Pick(s)] + met[s \ {Pick(s)}]
      BY <1>5, <2>1
    <3>4. met[s] \in Int
      BY <3>2, <3>3
    <3> QED
      BY <3>4
  <2>2. {} \in T
    BY <1>5
  <2> HIDE DEF T
  <2>3. T \in SUBSET (SUBSET D)
    BY DEF T
  <2> QED
    BY <2>1, <2>2, <2>3, SubsetInduction
<1>7. Sums(met, f)
  <2>1. \A s \in SUBSET D : met[s] \in Int
    BY <1>6
  <2> QED
    BY <1>5, <2>1 DEF Sums
<1> QED
  BY <1>1, <1>7

-----------------------------------------------------------------------------
(* The deviations from x add up to a, and their squares to b; if x is one  *)
(* of the k + 1 values, then a a <= k b.                                   *)
LEMMA OneMore ==
  ASSUME NEW k \in Nat, NEW d \in Int, NEW a \in Int, NEW b \in Nat, a * a <= k * b
  PROVE  (d + a) * (d + a) <= (k + 1) * (d * d + b)
<1>1. 2 * (d * a) <= k * (d * d) + b
  <2>1. CASE k = 0
    <3>1. a * a <= 0
      BY <2>1
    <3>2. a = 0
      BY <3>1
    <3> QED
      BY <2>1, <3>2
  <2>2. CASE k # 0
    <3> DEFINE c == k * d - a
    <3>1. c * c >= 0 /\ c * c = k * (k * (d * d)) - 2 * (k * (d * a)) + a * a
      OBVIOUS
    <3>2. k * (2 * (d * a)) <= k * (k * (d * d) + b)
      BY <3>1
    <3> DEFINE u == 2 * (d * a)
               w == k * (d * d) + b
    <3>3. u \in Int /\ w \in Int /\ k * u <= k * w /\ k >= 1
      BY <2>2, <3>2
    <3> HIDE DEF u, w
    <3>4. u <= w
      BY <3>3
    <3> QED
      BY <3>4 DEF u, w
  <2> QED
    BY <2>1, <2>2
<1>2. (d + a) * (d + a) = d * d + 2 * (d * a) + a * a
  OBVIOUS
<1>3. (k + 1) * (d * d + b) = k * (d * d) + k * b + d * d + b
  OBVIOUS
<1> QED
  BY <1>1, <1>2, <1>3

LEMMA Moment ==
  ASSUME NEW k \in Int, NEW x \in Int, NEW d \in Int, NEW p \in Int, p = d + x,
         NEW a \in Int, NEW b \in Int, NEW s \in Int, NEW q \in Int,
         s = a + k * x, q = b + 2 * (x * a) + k * (x * x)
  PROVE  /\ p + s = (d + a) + (k + 1) * x
         /\ p * p + q = (d * d + b) + 2 * (x * (d + a)) + (k + 1) * (x * x)
<1>1. p * p = d * d + 2 * (x * d) + x * x
  OBVIOUS
<1>2. (k + 1) * x = k * x + x /\ (k + 1) * (x * x) = k * (x * x) + x * x
  OBVIOUS
<1>3. x * (d + a) = x * d + x * a
  OBVIOUS
<1> QED
  BY <1>1, <1>2, <1>3

LEMMA Squares == \A d \in Int : d * d >= 0 /\ (d * d = 0 => d = 0)
OBVIOUS

LEMMA Variance ==
  ASSUME NEW n \in Int, NEW x \in Int, NEW a \in Int, NEW b \in Int,
         NEW s \in Int, NEW q \in Int,
         s = a + n * x, q = b + 2 * (x * a) + n * (x * x)
  PROVE  /\ (n * x - s) * (n * x - s) = a * a
         /\ n * q - s * s = n * b - a * a
<1> DEFINE y == n * x
<1>1. y \in Int /\ s = a + y /\ n * (n * (x * x)) = y * y /\ n * (x * a) = y * a
  OBVIOUS
<1>2. n * q = n * b + 2 * (n * (x * a)) + n * (n * (x * x))
  OBVIOUS
<1> HIDE DEF y
<1>3. s * s = a * a + 2 * (y * a) + y * y
  BY <1>1
<1>4. y - s = -a
  BY <1>1
<1>5. (y - s) * (y - s) = a * a
  BY <1>4
<1> QED
  BY <1>1, <1>2, <1>3, <1>5 DEF y

LEMMA EightPoints ==
  ASSUME NEW n \in Nat, NEW a \in Int, NEW b \in Nat, n # 0, b # 0,
         a * a <= (n - 1) * b, 4 * (a * a) >= 25 * (n * b - a * a)
  PROVE  n >= 8
<1> DEFINE c == a * a
<1>1. c \in Int /\ c <= (n - 1) * b /\ 29 * c >= 25 * (n * b)
  OBVIOUS
<1> HIDE DEF c
<1>2. SUFFICES ASSUME n \in 1..7 PROVE FALSE
  OBVIOUS
<1>3. n = 1 \/ n = 2 \/ n = 3 \/ n = 4 \/ n = 5 \/ n = 6 \/ n = 7
  BY <1>2
<1>4. ASSUME n = 7 PROVE FALSE
  BY <1>1, <1>4
<1>5. ASSUME n = 6 PROVE FALSE
  BY <1>1, <1>5
<1>6. ASSUME n = 5 PROVE FALSE
  BY <1>1, <1>6
<1>7. ASSUME n = 4 PROVE FALSE
  BY <1>1, <1>7
<1>8. ASSUME n = 3 PROVE FALSE
  BY <1>1, <1>8
<1>9. ASSUME n = 2 PROVE FALSE
  BY <1>1, <1>9
<1>10. ASSUME n = 1 PROVE FALSE
  BY <1>1, <1>10
<1> QED
  BY <1>3, <1>4, <1>5, <1>6, <1>7, <1>8, <1>9, <1>10

(* What the sums of the values and of their squares have to do with the    *)
(* deviations from one of the values.                                      *)
LEMMA Deviations ==
  ASSUME NEW D, IsFiniteSet(D), NEW v \in [D -> Int], NEW j \in D
  PROVE  \E a \in Int, b \in Nat :
           /\ Report!SumFunction(v) = a + Cardinality(D) * v[j]
           /\ Report!SumFunction([i \in D |-> v[i] * v[i]])
                = b + 2 * (v[j] * a) + Cardinality(D) * (v[j] * v[j])
           /\ a * a <= (Cardinality(D) - 1) * b
           /\ b = 0 => \A i \in D : v[i] = v[j]
<1> DEFINE x == v[j]
           square == [i \in D |-> v[i] * v[i]]
           dev == [i \in D |-> v[i] - x]
           devSquare == [i \in D |-> (v[i] - x) * (v[i] - x)]
<1>1. x \in Int /\ square \in [D -> Int] /\ dev \in [D -> Int] /\ devSquare \in [D -> Int]
  OBVIOUS
<1>2. PICK s : Sums(s, v) /\ Report!SumFunction(v) = s[D]
  BY SumIsOne
<1>3. PICK q : Sums(q, square) /\ Report!SumFunction(square) = q[D]
  BY <1>1, SumIsOne
<1>4. PICK a : Sums(a, dev)
  BY <1>1, SumsExist
<1>5. PICK b : Sums(b, devSquare)
  BY <1>1, SumsExist
<1>6. /\ \A t \in SUBSET D : s[t] \in Int /\ q[t] \in Int /\ a[t] \in Int /\ b[t] \in Int
      /\ s[{}] = 0 /\ q[{}] = 0 /\ a[{}] = 0 /\ b[{}] = 0
  BY <1>1, <1>2, <1>3, <1>4, <1>5 DEF Sums
<1>7. ASSUME NEW t \in SUBSET D, t # {}
      PROVE  LET p == v[Pick(t)]
                 r == t \ {Pick(t)}
             IN /\ p \in Int /\ Pick(t) \in t
                /\ s[t] = p + s[r] /\ q[t] = p * p + q[r]
                /\ a[t] = (p - x) + a[r] /\ b[t] = (p - x) * (p - x) + b[r]
  <2>1. Pick(t) \in t /\ Pick(t) \in D
    BY <1>7, PickIsIn
  <2>2. s[t] = v[Pick(t)] + s[t \ {Pick(t)}] /\ q[t] = square[Pick(t)] + q[t \ {Pick(t)}]
    BY <1>1, <1>2, <1>3, <1>7 DEF Sums
  <2>3. a[t] = dev[Pick(t)] + a[t \ {Pick(t)}] /\ b[t] = devSquare[Pick(t)] + b[t \ {Pick(t)}]
    BY <1>1, <1>4, <1>5, <1>7 DEF Sums
  <2> QED
    BY <2>1, <2>2, <2>3
<1>8. \A t \in SUBSET D : IsFiniteSet(t) /\ Cardinality(t) \in Nat
  BY FS_Subset, FS_CardinalityType
<1> DEFINE m(t) == Cardinality(t)
           Fits(t) ==
             /\ s[t] = a[t] + m(t) * x
             /\ q[t] = b[t] + 2 * (x * a[t]) + m(t) * (x * x)
             /\ b[t] >= 0 /\ a[t] * a[t] <= m(t) * b[t]
             /\ j \in t => a[t] * a[t] <= (m(t) - 1) * b[t]
             /\ b[t] = 0 => \A i \in t : v[i] = x
           T == {t \in SUBSET D : Fits(t)}
<1>9. {} \in T
  BY <1>1, <1>6, FS_EmptySet
<1> HIDE DEF square, dev, devSquare
<1>10. ASSUME NEW t \in SUBSET D, t # {}, \A p \in t : t \ {p} \in T
       PROVE  t \in T
  <2> DEFINE e == Pick(t)
             r == t \ {e}
             d == v[e] - x
  <2>1. /\ v[e] \in Int /\ e \in t /\ r \in SUBSET D
        /\ s[t] = v[e] + s[r] /\ q[t] = v[e] * v[e] + q[r]
        /\ a[t] = d + a[r] /\ b[t] = d * d + b[r]
    BY <1>7, <1>10
  <2>2. r \in T
    BY <1>10, <2>1
  <2>3. Fits(r)
    BY <2>2
  <2>4. m(t) = m(r) + 1 /\ m(r) \in Nat
    <3>1. m(r) = m(t) - 1 /\ m(t) \in Nat /\ m(r) \in Nat
      BY <1>8, <2>1, FS_RemoveElement
    <3> QED
      BY <3>1
  <2>5. /\ s[r] \in Int /\ q[r] \in Int /\ a[r] \in Int /\ b[r] \in Int /\ d \in Int
        /\ v[e] = d + x
    BY <1>1, <1>6, <2>1
  <2>6. /\ s[t] = a[t] + m(t) * x
        /\ q[t] = b[t] + 2 * (x * a[t]) + m(t) * (x * x)
    <3> HIDE DEF e, r, m, x, d
    <3>1. s[r] = a[r] + m(r) * x /\ q[r] = b[r] + 2 * (x * a[r]) + m(r) * (x * x)
      BY <2>3
    <3>2. /\ v[e] + s[r] = (d + a[r]) + (m(r) + 1) * x
          /\ v[e] * v[e] + q[r] = (d * d + b[r]) + 2 * (x * (d + a[r])) + (m(r) + 1) * (x * x)
      <4> DEFINE k == m(r)
                 p == v[e]
                 ar == a[r]
                 br == b[r]
                 sr == s[r]
                 qr == q[r]
      <4>1. /\ k \in Int /\ x \in Int /\ d \in Int /\ p \in Int /\ p = d + x /\ ar \in Int /\ br \in Int
            /\ sr \in Int /\ qr \in Int /\ sr = ar + k * x /\ qr = br + 2 * (x * ar) + k * (x * x)
        BY <1>1, <2>1, <2>4, <2>5, <3>1
      <4> HIDE DEF k, p, ar, br, sr, qr
      <4>2. /\ p + sr = (d + ar) + (k + 1) * x
            /\ p * p + qr = (d * d + br) + 2 * (x * (d + ar)) + (k + 1) * (x * x)
        BY <4>1, Moment
      <4> QED
        BY <4>2 DEF k, p, ar, br, sr, qr
    <3> QED
      BY <2>1, <2>4, <3>2
  <2>7. d * d >= 0 /\ (d * d = 0 => d = 0)
    BY <2>5, Squares
  <2>8. b[r] \in Nat /\ b[t] >= 0
    BY <2>1, <2>3, <2>5, <2>7
  <2>9. a[t] * a[t] <= m(t) * b[t]
    <3> HIDE DEF e, r, m, x, d
    <3>1. a[r] * a[r] <= m(r) * b[r]
      BY <2>3
    <3>2. (d + a[r]) * (d + a[r]) <= (m(r) + 1) * (d * d + b[r])
      BY <2>4, <2>5, <2>8, <3>1, OneMore
    <3> QED
      BY <2>1, <2>4, <3>2
  <2>10. ASSUME j \in t PROVE a[t] * a[t] <= (m(t) - 1) * b[t]
    <3>1. CASE e = j
      <4>1. d = 0
        BY <1>1, <3>1
      <4>2. a[t] = a[r] /\ b[t] = b[r] /\ m(t) - 1 = m(r)
        <5> HIDE DEF e, r, m, x, d
        <5> QED
          BY <2>1, <2>4, <2>5, <4>1
      <4>3. a[r] * a[r] <= m(r) * b[r]
        BY <2>3
      <4> QED
        BY <4>2, <4>3
    <3>2. CASE e # j
      <4>1. j \in r
        BY <2>10, <3>2
      <4>2. a[r] * a[r] <= (m(r) - 1) * b[r]
        BY <2>3, <4>1
      <4>3. m(r) - 1 \in Nat
        <5>1. IsFiniteSet(r) /\ m(r) # 0
          BY <1>8, <2>1, <4>1, FS_EmptySet
        <5> QED
          BY <2>4, <5>1
      <4> HIDE DEF e, r, m, x, d
      <4> DEFINE k == m(r) - 1
      <4>4. k \in Nat /\ a[r] * a[r] <= k * b[r] /\ m(t) - 1 = k + 1
        BY <2>4, <4>2, <4>3
      <4> HIDE DEF k
      <4>5. (d + a[r]) * (d + a[r]) <= (k + 1) * (d * d + b[r])
        BY <2>5, <2>8, <4>4, OneMore
      <4> QED
        BY <2>1, <4>4, <4>5
    <3> QED
      BY <3>1, <3>2
  <2>11. ASSUME b[t] = 0, NEW i \in t PROVE v[i] = x
    <3>1. d = 0 /\ b[r] = 0
      BY <2>1, <2>5, <2>7, <2>8, <2>11
    <3>2. \A l \in r : v[l] = x
      BY <2>3, <3>1
    <3>3. v[e] = x
      BY <1>1, <2>5, <3>1
    <3> QED
      BY <3>2, <3>3
  <2> QED
    BY <2>6, <2>8, <2>9, <2>10, <2>11
<1>11. D \in T
  <2> HIDE DEF T
  <2>1. T \in SUBSET (SUBSET D)
    BY DEF T
  <2>2. T = SUBSET D
    BY <1>9, <1>10, <2>1, SubsetInduction
  <2> QED
    BY <2>2
<1>12. Fits(D) /\ a[D] \in Int /\ b[D] \in Nat
  BY <1>6, <1>11
<1> QED
  BY <1>2, <1>3, <1>12 DEF square

LEMMA ReportSizes == \A S : Report!Cardinality(S) = Cardinality(S)
  BY DEF Cardinality, Report!Cardinality

LEMMA ReportFinite == \A S : Report!IsFiniteSet(S) <=> IsFiniteSet(S)
  BY DEF IsFiniteSet, Report!IsFiniteSet

(* A value 2.5 deviations from the mean is one of at least eight, unless   *)
(* all are the same.                                                       *)
LEMMA FarNeedsEight ==
  ASSUME NEW D, IsFiniteSet(D), NEW v \in [D -> Int],
         NEW x \in Report!Range(v), Report!IsFar(v, x), Cardinality(Report!Range(v)) # 1
  PROVE  Cardinality(D) >= 8
<1>1. PICK j \in D : x = v[j]
  BY DEF Report!Range
<1> DEFINE n == Cardinality(D)
           s == Report!SumFunction(v)
           q == Report!SumFunction([i \in D |-> v[i] * v[i]])
<1>2. n \in Nat /\ n # 0
  BY FS_CardinalityType, FS_EmptySet
<1>3. PICK a \in Int, b \in Nat :
        /\ s = a + n * x /\ q = b + 2 * (x * a) + n * (x * x)
        /\ a * a <= (n - 1) * b
        /\ b = 0 => \A i \in D : v[i] = x
  <2>0. \E a \in Int, b \in Nat :
           /\ Report!SumFunction(v) = a + Cardinality(D) * v[j]
           /\ Report!SumFunction([i \in D |-> v[i] * v[i]])
                = b + 2 * (v[j] * a) + Cardinality(D) * (v[j] * v[j])
           /\ a * a <= (Cardinality(D) - 1) * b
           /\ b = 0 => \A i \in D : v[i] = v[j]
    BY ONLY IsFiniteSet(D), v \in [D -> Int], j \in D, Deviations
  <2>1. PICK a \in Int, b \in Nat :
          /\ s = a + n * v[j] /\ q = b + 2 * (v[j] * a) + n * (v[j] * v[j])
          /\ a * a <= (n - 1) * b
          /\ b = 0 => \A i \in D : v[i] = v[j]
    BY ONLY <2>0
  <2> HIDE DEF s, q, n
  <2> QED
    BY <1>1, <2>1
<1>4. 4 * ((n * x - s) * (n * x - s)) >= 25 * (n * q - s * s)
  BY ReportSizes DEF Report!IsFar
<1>5. x \in Int /\ s \in Int /\ q \in Int
  BY <1>1, <1>2, <1>3
<1> HIDE DEF s, q
<1>6. 4 * (a * a) >= 25 * (n * b - a * a)
  <2>1. (n * x - s) * (n * x - s) = a * a /\ n * q - s * s = n * b - a * a
    BY <1>2, <1>3, <1>5, Variance
  <2> QED
    BY <1>4, <2>1
<1>7. b # 0
  <2> SUFFICES ASSUME b = 0 PROVE FALSE
    OBVIOUS
  <2>1. Report!Range(v) = {x}
    BY <1>1, <1>3 DEF Report!Range
  <2> QED
    BY <2>1, FS_Singleton
<1> QED
  BY <1>2, <1>3, <1>6, <1>7, EightPoints

-----------------------------------------------------------------------------
(* A report.                                                               *)
ReportInv ==
  /\ stage # "asked" => part = "report"
  /\ part = "report" => table \in Tables /\ period \in Periods
  /\ stage \notin {"asked", "refused"} =>
       DOMAIN table.rows # {} /\ windows = Report!Split(table, Report!Days[period])
  /\ stage \notin {"asked", "refused", "current"} =>
       \E place \in Report!Ordered(windows.current) :
         current = Report!Analyse(windows.current, place)
  /\ stage \notin {"asked", "refused", "current", "previous"} =>
       \E place \in Report!Ordered(windows.previous) :
         previous = IF DOMAIN windows.previous.rows = {} THEN << >>
                    ELSE Report!Analyse(windows.previous, place)
  /\ Report!Reported =>
       facts = [c \in DOMAIN current |-> Report!Change(c, current[c].value, previous)]

LEMMA ReportBegins == PartsInit => ReportInv
BY DEF PartsInit, Report!Init, ReportAtRest!Init, ReportInv, Report!Reported

LEMMA ReportStep == ReportInv /\ [PartsNext]_partsVars => ReportInv'
<1> SUFFICES ASSUME ReportInv, [PartsNext]_partsVars PROVE ReportInv'
  OBVIOUS
<1>1. CASE UNCHANGED <<part, reportVars>>
  BY <1>1 DEF ReportInv, reportVars, Report!Reported
<1>2. ASSUME part = "report", part' = part, Report!Next PROVE ReportInv'
  <2>1. CASE Report!Refuse
    BY <1>2, <2>1 DEF ReportInv, Report!Refuse, Report!Reported
  <2>2. CASE Report!Cut
    BY <1>2, <2>2 DEF ReportInv, Report!Cut, Report!Reported
  <2>3. CASE Report!AnalyseCurrent
    BY <1>2, <2>3 DEF ReportInv, Report!AnalyseCurrent, Report!Reported
  <2>4. CASE Report!AnalysePrevious
    BY <1>2, <2>4 DEF ReportInv, Report!AnalysePrevious, Report!Reported
  <2>5. CASE Report!Compare
    BY <1>2, <2>5 DEF ReportInv, Report!Compare, Report!Reported
  <2>6. CASE Report!Narrate
    BY <1>2, <2>6 DEF ReportInv, Report!Narrate, Report!Reported
  <2> QED
    BY <1>2, <2>1, <2>2, <2>3, <2>4, <2>5, <2>6 DEF Report!Next
<1>3. (part = "report" /\ part' = part /\ Report!Next) \/ UNCHANGED <<part, reportVars>>
  BY DEF PartsNext, partsVars
<1> QED
  BY <1>1, <1>2, <1>3

LEMMA ReportInvariant == PartsSpec => []ReportInv
BY ReportBegins, ReportStep, PTL DEF PartsSpec

(* A window holds some rows of its table, as they are.                     *)
IsWindow(w, t) ==
  /\ DOMAIN w = {"columns", "rows"} /\ w.columns = t.columns
  /\ DOMAIN w.rows \subseteq DOMAIN t.rows
  /\ \A i \in DOMAIN w.rows : w.rows[i] = t.rows[i]

LEMMA TablesAreTables == \A t \in Tables : Report!IsTable(t)
BY PartsAssumption, ReportFinite DEF IsTable, Report!IsTable, Header, Report!Header, Content, Report!Content,
  Range, Report!Range

LEMMA WindowIsTable ==
  ASSUME NEW t, Report!IsTable(t), NEW w, IsWindow(w, t)
  PROVE  Report!IsTable(w)
<1>1. IsFiniteSet(DOMAIN t.rows) /\ DOMAIN w.rows \subseteq DOMAIN t.rows
  BY ReportFinite DEF IsWindow, Report!IsTable
<1>2. Report!IsFiniteSet(DOMAIN w.rows)
  BY <1>1, FS_Subset, ReportFinite
<1> QED
  BY <1>2 DEF IsWindow, Report!IsTable

LEMMA SplitsAreWindows ==
  ASSUME NEW t, Report!IsTable(t), NEW span
  PROVE  /\ IsWindow(Report!Split(t, span).current, t)
         /\ IsWindow(Report!Split(t, span).previous, t)
BY DEF Report!Split, Report!Restrict, IsWindow, Report!IsTable

(* A measure has numbers in its cells.                                     *)
LEMMA MetricValues ==
  ASSUME NEW t, Report!IsTable(t), NEW c \in Report!Metrics(t)
  PROVE  LET V == {i \in DOMAIN t.rows : t.rows[i][c.name] # Missing}
             values == Report!Given(Report!Cells(t, c))
         IN /\ IsFiniteSet(V) /\ values \in [V -> Int]
            /\ \A i \in V : values[i] = t.rows[i][c.name]
<1> DEFINE V == {i \in DOMAIN t.rows : t.rows[i][c.name] # Missing}
           values == Report!Given(Report!Cells(t, c))
<1>1. IsFiniteSet(V)
  <2>1. IsFiniteSet(DOMAIN t.rows)
    BY ReportFinite DEF Report!IsTable
  <2> QED
    BY <2>1, FS_Subset
<1>2. values = [i \in V |-> t.rows[i][c.name]]
  BY DEF Report!Given, Report!Cells, Report!Restrict
<1>3. c \in Report!Range(t.columns) /\ Report!Kind(c, Report!Cells(t, c)) = "numeric"
  BY DEF Report!Metrics, Report!OfKind
<1>4. c.dtype = "number"
  <2>1. c \in Report!Header
    BY <1>3 DEF Report!IsTable, Report!Range
  <2> QED
    BY <1>3, <2>1 DEF Report!Kind, Report!Header
<1>5. \A i \in V : t.rows[i][c.name] \in Int
  BY <1>3, <1>4 DEF Report!IsTable, Report!Content
<1> HIDE DEF values, V
<1>6. values \in [V -> Int] /\ \A i \in V : values[i] = t.rows[i][c.name]
  BY <1>2, <1>5
<1> QED
  BY <1>1, <1>6 DEF values, V

(* Fewer than eight values hold no anomaly, whatever they are: in a report *)
(* of a week of daily figures nothing stands out (detection.py).           *)
THEOREM AnomaliesNeedEight == PartsSpec => []AnomalyNeedsEight
<1>1. ReportInv => AnomalyNeedsEight
  <2> SUFFICES ASSUME ReportInv, Report!Reported, NEW c \in DOMAIN current, current[c].anomalies # {}
               PROVE  Report!Cardinality({i \in DOMAIN windows.current.rows :
                                     windows.current.rows[i][c.name] # Missing}) >= 8
    BY DEF AnomalyNeedsEight, Report!AnomalyNeedsEight
  <2> DEFINE w == windows.current
             V == {i \in DOMAIN w.rows : w.rows[i][c.name] # Missing}
             values == Report!Given(Report!Cells(w, c))
  <2>1. stage \notin {"asked", "refused", "current"} /\ part = "report" /\ table \in Tables
    BY DEF ReportInv, Report!Reported
  <2>2. PICK place : current = Report!Analyse(w, place)
    BY <2>1 DEF ReportInv
  <2>3. Report!IsTable(w)
    BY <2>1, TablesAreTables, SplitsAreWindows, WindowIsTable DEF ReportInv
  <2> HIDE DEF w
  <2>4. c \in Report!Metrics(w) /\ current[c].anomalies = Report!Anomalies(values)
    BY <2>2 DEF Report!Analyse
  <2>5. IsFiniteSet(V) /\ values \in [V -> Int]
    BY <2>3, <2>4, MetricValues
  <2> HIDE DEF values, V
  <2>6. PICK x \in Report!Range(values) : Report!IsFar(values, x) /\ Cardinality(Report!Range(values)) # 1
    BY <2>4, ReportSizes DEF Report!Anomalies
  <2>7. Cardinality(V) >= 8
    BY <2>5, <2>6, FarNeedsEight
  <2> QED
    BY <2>7, ReportSizes DEF V, w
<1> QED
  BY <1>1, ReportInvariant, PTL
-----------------------------------------------------------------------------
-----------------------------------------------------------------------------
(* Days and periods.                                                       *)
LEMMA GreatestIsThere ==
  ASSUME NEW S, IsFiniteSet(S), S # {}, NEW f \in [S -> Int]
  PROVE  \E i \in S : \A j \in S : f[j] <= f[i]
<1> DEFINE Has(s) == s = {} \/ \E i \in s : \A j \in s : f[j] <= f[i]
           T == {s \in SUBSET S : Has(s)}
<1>1. ASSUME NEW s \in SUBSET S, s # {}, \A p \in s : s \ {p} \in T PROVE s \in T
  <2>1. PICK p \in s : TRUE
    BY <1>1
  <2>2. Has(s \ {p})
    BY <1>1
  <2>3. CASE s \ {p} = {}
    <3>1. \A j \in s : j = p
      BY <2>3
    <3>2. \A j \in s : f[j] <= f[p]
      BY <3>1
    <3> QED
      BY <3>2
  <2>4. CASE s \ {p} # {}
    <3>1. PICK i \in s \ {p} : \A j \in s \ {p} : f[j] <= f[i]
      BY <2>2, <2>4
    <3>2. /\ f[p] \in Int /\ f[i] \in Int /\ \A j \in s : f[j] \in Int
          /\ \A j \in s : j = p \/ f[j] <= f[i]
      BY <3>1
    <3>3. CASE f[p] <= f[i]
      <4>1. \A j \in s : f[j] <= f[i]
        BY <3>2, <3>3
      <4> QED
        BY <4>1
    <3>4. CASE ~(f[p] <= f[i])
      <4>1. \A j \in s : f[j] <= f[p]
        BY <3>2, <3>4
      <4> QED
        BY <4>1
    <3> QED
      BY <3>3, <3>4
  <2> QED
    BY <2>3, <2>4
<1>2. {} \in T /\ T \in SUBSET (SUBSET S)
  OBVIOUS
<1> HIDE DEF T
<1>3. T = SUBSET S
  BY <1>1, <1>2, SubsetInduction
<1> QED
  BY <1>3 DEF T

LEMMA ColumnsAreHeaders ==
  ASSUME NEW t, Report!IsTable(t), NEW c \in Report!Range(t.columns)
  PROVE  c \in Report!Header
BY DEF Report!IsTable, Report!Range

LEMMA DateColumnIsIn ==
  ASSUME NEW t, Report!IsTable(t), Report!DateColumn(t) # Missing
  PROVE  Report!DateColumn(t) \in Report!OfKind(t, "date")
<1> DEFINE dates == {k \in DOMAIN t.columns : t.columns[k] \in Report!OfKind(t, "date")}
<1>1. dates # {} /\ Report!DateColumn(t) = t.columns[Report!Min(dates)]
  BY DEF Report!DateColumn
<1>2. dates \in SUBSET Nat
  BY DEF Report!IsTable
<1>3. \A k \in dates : t.columns[k] \in Report!OfKind(t, "date")
  OBVIOUS
<1> HIDE DEF dates
<1>4. Report!Min(dates) \in dates
  BY <1>1, <1>2, LeastNatural DEF Report!Min
<1> QED
  BY <1>1, <1>3, <1>4

(* What makes a column a date column.                                      *)
LEMMA DateKinds ==
  ASSUME NEW t, Report!IsTable(t), NEW a \in Report!OfKind(t, "date")
  PROVE  /\ a \in Report!Range(t.columns)
         /\ a.dtype = "date" \/ (a.dtype = "object" /\ "date" \in a.hints)
         /\ \E i \in DOMAIN t.rows : t.rows[i][a.name] # Missing /\ t.rows[i][a.name].day # Missing
         /\ \A i \in DOMAIN t.rows : t.rows[i][a.name] = Missing
              \/ t.rows[i][a.name].day \in IF a.dtype = "date" THEN Int ELSE Int \cup {Missing}
<1> DEFINE V == {i \in DOMAIN t.rows : t.rows[i][a.name] # Missing}
           given == Report!Given(Report!Cells(t, a))
           dated == {i \in DOMAIN given : Report!Day(given[i]) # Missing}
<1>1. given = [i \in V |-> t.rows[i][a.name]]
  BY DEF Report!Given, Report!Cells, Report!Restrict
<1>2. a \in Report!Range(t.columns) /\ Report!Kind(a, Report!Cells(t, a)) = "date"
  BY DEF Report!OfKind
<1>3. a \in Report!Header
  BY <1>2, ColumnsAreHeaders
<1>4. DOMAIN given = V /\ \A i \in V : given[i] = t.rows[i][a.name]
  BY <1>1
<1> HIDE DEF given
<1>5. /\ V # {}
      /\ a.dtype = "date" \/ (a.dtype = "object" /\ "date" \in a.hints)
      /\ a.dtype = "date" \/ 10 * Report!Cardinality(dated) > 9 * Report!Cardinality(V)
  BY <1>2, <1>3, <1>4 DEF Report!Kind, Report!Header, given
<1>6. \A i \in DOMAIN t.rows : t.rows[i][a.name] = Missing
        \/ t.rows[i][a.name].day \in IF a.dtype = "date" THEN Int ELSE Int \cup {Missing}
  <2>1. \A i \in DOMAIN t.rows : t.rows[i][a.name] \in Report!Content[a.dtype] \cup {Missing}
    BY <1>2 DEF Report!IsTable
  <2>2. CASE a.dtype = "date"
    BY <2>1, <2>2 DEF Report!Content
  <2>3. CASE a.dtype = "object"
    BY <2>1, <2>3 DEF Report!Content
  <2> QED
    BY <1>5, <2>2, <2>3
<1>7. \E i \in V : t.rows[i][a.name].day # Missing
  <2>1. CASE a.dtype = "date"
    BY <1>5, <1>6, <2>1, AnalyticsAssumption
  <2>2. CASE a.dtype # "date"
    <3>1. IsFiniteSet(V) /\ Cardinality(V) \in Nat
      <4>1. IsFiniteSet(DOMAIN t.rows)
        BY ReportFinite DEF Report!IsTable
      <4> QED
        BY <4>1, FS_Subset, FS_CardinalityType
    <3> HIDE DEF dated, V
    <3>2. dated # {}
      <4>1. 10 * Cardinality(dated) > 9 * Cardinality(V)
        BY <1>5, <2>2, ReportSizes
      <4>2. ASSUME dated = {} PROVE Cardinality(dated) = 0
        BY <4>2, FS_EmptySet
      <4> QED
        BY <3>1, <4>1, <4>2
    <3> USE DEF dated, V
    <3> QED
      BY <1>4, <3>2 DEF Report!Day
  <2> QED
    BY <2>1, <2>2
<1> QED
  BY <1>2, <1>5, <1>6, <1>7

(* A stamp is the day of its cell, or there is none; some row has one.     *)
LEMMA Stamps ==
  ASSUME NEW t, Report!IsTable(t), NEW a \in Report!OfKind(t, "date")
  PROVE  /\ \A i \in DOMAIN t.rows : Report!Stamp(t, a, i) # Missing =>
              /\ t.rows[i][a.name] # Missing /\ t.rows[i][a.name].day \in Int
              /\ Report!Stamp(t, a, i) = t.rows[i][a.name].day
         /\ \E i \in DOMAIN t.rows : Report!Stamp(t, a, i) # Missing
<1> DEFINE V == {i \in DOMAIN t.rows : t.rows[i][a.name] # Missing}
           k == Report!Min(DOMAIN Report!Given(Report!Cells(t, a)))
           first == t.rows[k][a.name]
<1>1. DOMAIN Report!Given(Report!Cells(t, a)) = V
  BY DEF Report!Given, Report!Cells, Report!Restrict
<1>2. V \in SUBSET Nat /\ V # {}
  BY DateKinds DEF Report!IsTable
<1> HIDE DEF V
<1>3. k \in V
  BY <1>1, <1>2, LeastNatural DEF Report!Min
<1> HIDE DEF k
<1>4. \A i \in DOMAIN t.rows : Report!Stamp(t, a, i) =
        IF t.rows[i][a.name] = Missing \/ (first.day # Missing /\ t.rows[i][a.name].format # first.format)
        THEN Missing ELSE t.rows[i][a.name].day
  BY <1>3 DEF Report!Stamp, Report!Cells, k, V
<1>5. \A i \in DOMAIN t.rows : t.rows[i][a.name] = Missing \/ t.rows[i][a.name].day \in Int \cup {Missing}
  BY DateKinds
<1>6. \E i \in DOMAIN t.rows : Report!Stamp(t, a, i) # Missing
  <2>1. CASE first.day # Missing
    BY <1>3, <1>4, <2>1 DEF V
  <2>2. CASE first.day = Missing
    <3>1. PICK i \in DOMAIN t.rows : t.rows[i][a.name] # Missing /\ t.rows[i][a.name].day # Missing
      BY DateKinds
    <3> QED
      BY <1>4, <2>2, <3>1
  <2> QED
    BY <2>1, <2>2
<1> QED
  BY <1>4, <1>5, <1>6

LEMMA LastDay ==
  ASSUME NEW t, Report!IsTable(t), NEW a \in Report!OfKind(t, "date"),
         NEW day, day = [i \in DOMAIN t.rows |-> Report!Stamp(t, a, i)]
  PROVE  LET last == Report!Max(Report!Range(day) \ {Missing})
         IN last \in Int /\ \A i \in DOMAIN t.rows : day[i] # Missing => day[i] \in Int /\ day[i] <= last
<1> DEFINE D == {i \in DOMAIN t.rows : day[i] # Missing}
           S == Report!Range(day) \ {Missing}
           f == [i \in D |-> day[i]]
<1>1. IsFiniteSet(D)
  <2>1. IsFiniteSet(DOMAIN t.rows)
    BY ReportFinite DEF Report!IsTable
  <2> QED
    BY <2>1, FS_Subset
<1>2. D # {} /\ f \in [D -> Int]
  BY Stamps
<1>3. \A x \in S : \E i \in D : x = f[i]
  BY DEF Report!Range
<1>4. \A i \in D : f[i] \in S
  BY DEF Report!Range
<1>5. \A i \in DOMAIN t.rows : day[i] # Missing => i \in D /\ f[i] = day[i]
  OBVIOUS
<1> HIDE DEF D, S, f
<1>6. PICK i \in D : \A j \in D : f[j] <= f[i]
  BY <1>1, <1>2, GreatestIsThere
<1>7. f[i] \in S /\ \A x \in S : x \in Int /\ f[i] >= x
  <2>1. ASSUME NEW x \in S PROVE x \in Int /\ f[i] >= x
    <3>1. PICK j \in D : x = f[j]
      BY <1>3
    <3>2. f[i] \in Int /\ f[j] \in Int /\ f[j] <= f[i]
      BY <1>2, <1>6
    <3> QED
      BY <3>1, <3>2
  <2> QED
    BY <1>4, <2>1
<1>8. Report!Max(S) \in S /\ \A x \in S : Report!Max(S) >= x
  BY <1>7 DEF Report!Max
<1>9. \A j \in D : f[j] \in Int /\ f[j] <= Report!Max(S)
  BY <1>2, <1>4, <1>7, <1>8
<1> QED
  BY <1>5, <1>7, <1>8, <1>9 DEF S

LEMMA PeriodsBack ==
  ASSUME NEW span \in {1, 7, 30}, NEW last \in Int, NEW d \in Int, d <= last
  PROVE  /\ (last - d) \div span = 0 <=> d \in (last - span + 1)..last
         /\ (last - d) \div span = 1 <=>
              d \in (Report!PreviousEnd(last, span) - span + 1)..Report!PreviousEnd(last, span)
<1>1. CASE span = 1
  BY <1>1 DEF Report!PreviousEnd
<1>2. CASE span = 7
  BY <1>2 DEF Report!PreviousEnd
<1>3. CASE span = 30
  BY <1>3 DEF Report!PreviousEnd
<1> QED
  BY <1>1, <1>2, <1>3

-----------------------------------------------------------------------------
(* The windows are the periods.                                            *)
LEMMA WindowsArePeriods ==
  ASSUME Report!IsTable(table), Report!DateColumn(table) # Missing,
         period \in {"daily", "weekly", "monthly"},
         NEW both, both = Report!Split(table, Report!Days[period])
  PROVE  /\ DOMAIN both.current.rows = Report!Covered(0)
         /\ DOMAIN both.previous.rows = Report!Covered(1)
<1> DEFINE a == Report!DateColumn(table)
           span == Report!Days[period]
           day == [i \in DOMAIN table.rows |-> Report!Stamp(table, a, i)]
           last == Report!Max(Report!Range(day) \ {Missing})
           end == Report!PreviousEnd(last, span)
           In(days) == {i \in DOMAIN day : day[i] \in days}
<1>1. span \in {1, 7, 30}
  BY DEF Report!Days
<1>2. last \in Int /\ \A i \in DOMAIN table.rows : day[i] # Missing => day[i] \in Int /\ day[i] <= last
  <2>1. a \in Report!OfKind(table, "date")
    BY DateColumnIsIn
  <2> HIDE DEF a
  <2> DEFINE stamps == day
  <2>2. stamps = [i \in DOMAIN table.rows |-> Report!Stamp(table, a, i)]
    OBVIOUS
  <2> HIDE DEF stamps
  <2>3. LET l == Report!Max(Report!Range(stamps) \ {Missing})
        IN l \in Int /\ \A i \in DOMAIN table.rows : stamps[i] # Missing => stamps[i] \in Int /\ stamps[i] <= l
    BY <2>1, <2>2, LastDay
  <2> QED
    BY <2>3 DEF stamps
<1>3. /\ DOMAIN both.current.rows = In((last - span + 1)..last)
      /\ DOMAIN both.previous.rows = In((end - span + 1)..end)
  BY DEF Report!Split, Report!Restrict, Report!IsTable
<1>4. \A k : Report!Covered(k) = {i \in DOMAIN day : day[i] # Missing /\ (last - day[i]) \div span = k}
  BY DEF Report!Covered
<1> HIDE DEF last, span
<1>5. /\ In((last - span + 1)..last) = {i \in DOMAIN day : day[i] # Missing /\ (last - day[i]) \div span = 0}
      /\ In((end - span + 1)..end) = {i \in DOMAIN day : day[i] # Missing /\ (last - day[i]) \div span = 1}
  <2>1. \A i \in DOMAIN day :
          /\ day[i] \in (last - span + 1)..last <=> day[i] # Missing /\ (last - day[i]) \div span = 0
          /\ day[i] \in (end - span + 1)..end <=> day[i] # Missing /\ (last - day[i]) \div span = 1
    <3> SUFFICES ASSUME NEW i \in DOMAIN table.rows
                 PROVE  /\ day[i] \in (last - span + 1)..last <=> day[i] # Missing /\ (last - day[i]) \div span = 0
                        /\ day[i] \in (end - span + 1)..end <=> day[i] # Missing /\ (last - day[i]) \div span = 1
      OBVIOUS
    <3> DEFINE d == day[i]
    <3>1. d # Missing => d \in Int /\ d <= last
      BY <1>2
    <3> HIDE DEF d
    <3>2. CASE d = Missing
      <4>1. end \in Int
        BY <1>1, <1>2 DEF Report!PreviousEnd
      <4> QED
        BY <1>1, <1>2, <3>2, <4>1, AnalyticsAssumption DEF d
    <3>3. CASE d # Missing
      BY <1>1, <1>2, <3>1, <3>3, PeriodsBack DEF d
    <3> QED
      BY <3>2, <3>3
  <2> HIDE DEF day, end
  <2> QED
    BY <2>1
<1> QED
  BY <1>3, <1>4, <1>5

(* In a part of a plain table whose rows all have a day, the date axis is  *)
(* that of the table.                                                      *)
LEMMA WindowAxis ==
  ASSUME Report!IsTable(table), Report!IsPlain, NEW w, IsWindow(w, table), DOMAIN w.rows # {},
         \A i \in DOMAIN w.rows : Report!Stamp(table, Report!DateColumn(table), i) # Missing
  PROVE  Report!DateColumn(w) = Report!DateColumn(table)
<1> DEFINE a == Report!DateColumn(table)
           V == {i \in DOMAIN w.rows : w.rows[i][a.name] # Missing}
           given == Report!Given(Report!Cells(w, a))
           dated == {i \in DOMAIN given : Report!Day(given[i]) # Missing}
           dates == {k \in DOMAIN w.columns : w.columns[k] \in Report!OfKind(w, "date")}
<1>1. a \in Report!OfKind(table, "date") /\ a # Missing
  BY DateColumnIsIn DEF Report!IsPlain
<1>2. \A i \in DOMAIN w.rows : w.rows[i][a.name] # Missing /\ w.rows[i][a.name].day \in Int
  BY <1>1, Stamps DEF IsWindow
<1>3. Report!IsTable(w) /\ w.columns = table.columns
  BY WindowIsTable DEF IsWindow
<1>4. /\ a \in Report!Range(w.columns)
      /\ a.dtype = "date" \/ (a.dtype = "object" /\ "date" \in a.hints)
  BY <1>1, <1>3, DateKinds
<1>5. given = [i \in DOMAIN w.rows |-> w.rows[i][a.name]]
  BY <1>2 DEF Report!Given, Report!Cells, Report!Restrict
<1>6. \A c \in Report!OfKind(w, "date") : c = a
  BY <1>3, DateKinds DEF Report!IsPlain
<1> HIDE DEF a
<1>7. DOMAIN given = DOMAIN w.rows /\ dated = DOMAIN w.rows
  BY <1>2, <1>5, AnalyticsAssumption DEF Report!Day
<1>8. Report!Kind(a, Report!Cells(w, a)) = "date"
  <2> DEFINE n == Report!Cardinality(DOMAIN w.rows)
  <2>1. n \in Nat /\ n # 0
    <3>1. IsFiniteSet(DOMAIN w.rows)
      BY <1>3, ReportFinite DEF Report!IsTable
    <3>2. Cardinality(DOMAIN w.rows) \in Nat /\ Cardinality(DOMAIN w.rows) # 0
      BY <3>1, FS_CardinalityType, FS_EmptySet
    <3> QED
      BY <3>2, ReportSizes
  <2>2. 10 * n > 9 * n
    <3> HIDE DEF n
    <3> QED
      BY <2>1
  <2> HIDE DEF given
  <2>3. Report!Cardinality(dated) = n /\ Report!Cardinality(DOMAIN given) = n
    BY <1>7
  <2> HIDE DEF n, dated
  <2>4. DOMAIN given # {}
    BY <1>7
  <2> QED
    BY <1>4, <2>2, <2>3, <2>4 DEF Report!Kind, given, dated
<1>9. a \in Report!OfKind(w, "date")
  BY <1>4, <1>8 DEF Report!OfKind
<1>10. dates # {} /\ dates \in SUBSET Nat
  BY <1>3, <1>9 DEF Report!IsTable, Report!OfKind, Report!Range
<1>11. Report!DateColumn(w) = w.columns[Report!Min(dates)]
  BY <1>10 DEF Report!DateColumn
<1>12. \A k \in dates : w.columns[k] = a
  BY <1>6
<1> HIDE DEF dates
<1>13. Report!Min(dates) \in dates
  BY <1>10, LeastNatural DEF Report!Min
<1> QED
  BY <1>11, <1>12, <1>13 DEF a

(* The places of the rows follow their days.                               *)
LEMMA PlacesFollowDays ==
  ASSUME NEW w, Report!IsTable(w), Report!DateColumn(w) # Missing,
         NEW place \in Report!Ordered(w), NEW days,
         \A i \in DOMAIN w.rows :
           /\ w.rows[i][Report!DateColumn(w).name] # Missing
           /\ days[i] = w.rows[i][Report!DateColumn(w).name].day /\ days[i] \in Int
  PROVE  /\ place \in [DOMAIN w.rows -> Int]
         /\ \A i, j \in DOMAIN w.rows : days[i] < days[j] => place[i] < place[j]
<1> DEFINE day == [i \in DOMAIN w.rows |-> Report!Day(w.rows[i][Report!DateColumn(w).name])]
           tied == {i \in DOMAIN day : \E j \in DOMAIN day \ {i} : day[j] = day[i]}
           before(i, j) == day[i] # Missing /\ (day[j] = Missing \/ day[i] < day[j])
           ahead(tie, i) ==
             {j \in DOMAIN day :
               before(j, i) \/ ({i, j} \subseteq tied /\ day[j] = day[i] /\ tie[j] < tie[i])}
<1>1. PICK tie \in Report!Injection(tied, tied) :
        place = [i \in DOMAIN day |-> Report!Cardinality(ahead(tie, i))]
  BY DEF Report!Ordered
<1>2. DOMAIN day = DOMAIN w.rows /\ \A i \in DOMAIN w.rows : day[i] = days[i]
  BY DEF Report!Day
<1> DEFINE D == DOMAIN day
           A == [i \in D |-> ahead(tie, i)]
<1>3. tie \in [tied -> tied] /\ D \in SUBSET Nat /\ IsFiniteSet(D)
  BY <1>1, <1>2, ReportFinite DEF Report!Injection, Report!IsTable
<1>4. \A i \in D : day[i] \in Int /\ day[i] # Missing
  BY <1>2, AnalyticsAssumption
<1> HIDE DEF day
<1>5. \A i \in D : A[i] \in SUBSET D
  OBVIOUS
<1>6. ASSUME NEW i \in D PROVE i \notin A[i]
  <2>1. i \in tied => tie[i] \in Nat
    BY <1>3
  <2>2. day[i] \in Int
    BY <1>4
  <2> QED
    BY <2>1, <2>2
<1>7. ASSUME NEW i \in D, NEW j \in D, day[i] < day[j] PROVE A[i] \subseteq A[j] /\ i \in A[j]
  <2>1. ASSUME NEW k \in A[i] PROVE k \in A[j]
    <3>1. k \in D /\ day[k] \in Int /\ day[i] \in Int /\ day[j] \in Int /\ day[k] # Missing
          /\ day[i] # Missing
      BY <1>4
    <3>2. day[k] < day[i] \/ day[k] = day[i]
      BY <3>1
    <3>3. day[k] < day[j]
      BY <1>7, <3>1, <3>2
    <3> QED
      BY <3>1, <3>3
  <2> QED
    BY <1>4, <1>7, <2>1
<1>8. place = [i \in D |-> Cardinality(A[i])]
  BY <1>1, ReportSizes
<1> HIDE DEF A, D
<1>9. \A i \in D : IsFiniteSet(A[i]) /\ Cardinality(A[i]) \in Nat
  BY <1>3, <1>5, FS_Subset, FS_CardinalityType
<1>10. ASSUME NEW i \in D, NEW j \in D, day[i] < day[j] PROVE place[i] < place[j]
  <2>1. A[i] \in SUBSET (A[j] \ {i}) /\ i \in A[j]
    BY <1>6, <1>7, <1>10
  <2>2. IsFiniteSet(A[j] \ {i}) /\ Cardinality(A[j] \ {i}) = Cardinality(A[j]) - 1
    BY <1>9, <2>1, FS_RemoveElement
  <2>3. Cardinality(A[i]) <= Cardinality(A[j] \ {i})
    BY <2>1, <2>2, FS_Subset
  <2>4. place[i] = Cardinality(A[i]) /\ place[j] = Cardinality(A[j])
    BY <1>8
  <2>5. Cardinality(A[i]) \in Nat /\ Cardinality(A[j]) \in Nat
    BY <1>9
  <2> QED
    BY <2>2, <2>3, <2>4, <2>5
<1>11. place \in [D -> Int]
  BY <1>8, <1>9
<1> QED
  BY <1>2, <1>10, <1>11 DEF D
-----------------------------------------------------------------------------
(* The numbers a table records.                                            *)
Measures == {c \in Report!Range(table.columns) : c.dtype = "number"}

LEMMA MeasuresAreFinite ==
  ASSUME Report!IsTable(table)
  PROVE  IsFiniteSet(Measures)
<1> DEFINE n == Len(table.columns)
           R == Report!Range(table.columns)
<1>1. table.columns \in Seq(Report!Header)
  BY DEF Report!IsTable
<1>2. table.columns \in Surjection(1..n, R)
  BY <1>1 DEF Surjection, Report!Range
<1>3. IsFiniteSet(1..n)
  BY <1>1, FS_Interval
<1> HIDE DEF n, R
<1>4. IsFiniteSet(R)
  BY <1>2, <1>3, FS_Surjection
<1> QED
  BY <1>4, FS_Subset DEF R, Measures

(* All measures that have a value are headlined.                           *)
LEMMA WindowMetrics ==
  ASSUME Report!IsTable(table), Report!IsPlain, NEW w, IsWindow(w, table)
  PROVE  Report!Metrics(w) = {c \in Measures : \E i \in DOMAIN w.rows : w.rows[i][c.name] # Missing}
<1> DEFINE numeric == Report!OfKind(w, "numeric")
           With == {c \in Measures : \E i \in DOMAIN w.rows : w.rows[i][c.name] # Missing}
<1>1. Report!Range(w.columns) = Report!Range(table.columns)
  BY DEF IsWindow
<1>2. ASSUME NEW c \in Report!Range(table.columns)
      PROVE  Report!Kind(c, Report!Cells(w, c)) = "numeric" <=> c \in With
  <2> DEFINE given == Report!Given(Report!Cells(w, c))
             V == {i \in DOMAIN w.rows : w.rows[i][c.name] # Missing}
  <2>1. given = [i \in V |-> w.rows[i][c.name]]
    BY DEF Report!Given, Report!Cells, Report!Restrict
  <2>2. DOMAIN given = V
    BY <2>1
  <2>3. c \in Report!Header
    BY ColumnsAreHeaders
  <2> HIDE DEF given
  <2>4. Report!Kind(c, Report!Cells(w, c)) = "numeric" =>
          c.dtype = "number" /\ DOMAIN given # {}
    BY <2>3 DEF Report!Kind, Report!Header, given
  <2>5. c \in Measures => "id" \notin c.hints /\ c.dtype = "number"
    BY DEF Report!IsPlain, Measures
  <2>6. c \in Measures /\ DOMAIN given # {} => Report!Kind(c, Report!Cells(w, c)) = "numeric"
    BY <2>5 DEF Report!Kind, given
  <2> QED
    BY <2>2, <2>4, <2>6 DEF Measures
<1>3. numeric = With
  BY <1>1, <1>2 DEF Report!OfKind, Measures
<1> HIDE DEF numeric
<1>4. ASSUME NEW c \in numeric
      PROVE  Report!Cardinality({d \in numeric : Report!Above(d, c)}) < MaxMetrics
  <2> DEFINE A == {d \in numeric : Report!Above(d, c)}
  <2>1. c \in Measures /\ c \in Report!Header
    BY <1>3, ColumnsAreHeaders DEF Measures
  <2>2. c \notin A
    BY <2>1 DEF Report!Above, Report!Header
  <2>3. A \in SUBSET (Measures \ {c})
    BY <1>3, <2>2
  <2> HIDE DEF A
  <2>4. /\ IsFiniteSet(Measures \ {c})
        /\ Cardinality(Measures \ {c}) = Cardinality(Measures) - 1
        /\ Cardinality(Measures) \in Nat
    BY <2>1, MeasuresAreFinite, FS_RemoveElement, FS_CardinalityType
  <2>5. Cardinality(A) <= Cardinality(Measures \ {c}) /\ Cardinality(A) \in Nat
    BY <2>3, <2>4, FS_Subset, FS_CardinalityType
  <2>6. Cardinality(Measures) <= MaxMetrics
    BY ReportSizes DEF Report!IsPlain, Measures
  <2>7. Cardinality(A) < MaxMetrics
    BY <2>4, <2>5, <2>6, AnalyticsAssumption
  <2> QED
    BY <2>7, ReportSizes DEF A
<1>5. Report!Metrics(w) = numeric
  BY <1>4 DEF Report!Metrics, numeric
<1> QED
  BY <1>3, <1>5

(* Rows with a day, some of which have a value: one of those is the latest.*)
LEMMA LatestIsThere ==
  ASSUME Report!IsTable(table), Report!DateColumn(table) # Missing, NEW c,
         NEW rs \in SUBSET DOMAIN table.rows,
         \A i \in rs : Report!Stamp(table, Report!DateColumn(table), i) # Missing
  PROVE  Report!LatestOf(c, rs) # {} <=> \E i \in rs : table.rows[i][c.name] # Missing
<1> DEFINE a == Report!DateColumn(table)
           V == {i \in rs : table.rows[i][c.name] # Missing}
           f == [i \in V |-> Report!Stamp(table, a, i)]
<1>1. \A i \in V : Report!Stamp(table, a, i) \in Int
  BY DateColumnIsIn, Stamps
<1>2. IsFiniteSet(V) /\ f \in [V -> Int]
  <2>1. IsFiniteSet(DOMAIN table.rows) /\ V \in SUBSET DOMAIN table.rows
    BY ReportFinite DEF Report!IsTable
  <2>2. f \in [V -> Int]
    BY <1>1
  <2> HIDE DEF V
  <2> QED
    BY <2>1, <2>2, FS_Subset
<1>3. ASSUME V # {} PROVE \E i \in V : \A k \in V : Report!Stamp(table, a, k) <= Report!Stamp(table, a, i)
  <2>1. \A i \in V : f[i] = Report!Stamp(table, a, i)
    OBVIOUS
  <2> HIDE DEF f, V
  <2>2. \E i \in V : \A k \in V : f[k] <= f[i]
    BY <1>2, <1>3, GreatestIsThere
  <2> QED
    BY <2>1, <2>2
<1>4. Report!LatestOf(c, rs) =
        {table.rows[i][c.name] : i \in {j \in V : \A k \in V : Report!Stamp(table, a, k) <= Report!Stamp(table, a, j)}}
  BY DEF Report!LatestOf
<1> QED
  BY <1>3, <1>4

(* The value of a metric is one of the latest day of its window.           *)
LEMMA MetricIsLatest ==
  ASSUME Report!IsTable(table), Report!IsPlain, NEW w, IsWindow(w, table),
         \A i \in DOMAIN w.rows : Report!Stamp(table, Report!DateColumn(table), i) # Missing,
         NEW place \in Report!Ordered(w), NEW c \in Report!Metrics(w)
  PROVE  /\ Report!Analyse(w, place)[c].value \in Report!LatestOf(c, DOMAIN w.rows)
         /\ Report!Analyse(w, place)[c].value \in Int
<1> DEFINE a == Report!DateColumn(table)
           V == {i \in DOMAIN w.rows : w.rows[i][c.name] # Missing}
           values == Report!Given(Report!Cells(w, c))
           days == [i \in DOMAIN w.rows |-> w.rows[i][a.name].day]
           final == Report!Latest(DOMAIN values, place)
<1>1. Report!IsTable(w)
  BY WindowIsTable
<1>2. IsFiniteSet(V) /\ values \in [V -> Int] /\ \A i \in V : values[i] = w.rows[i][c.name]
  BY <1>1, MetricValues
<1>3. V # {}
  BY WindowMetrics
<1>4. Report!DateColumn(w) = a /\ a # Missing
  BY <1>3, WindowAxis DEF Report!IsPlain
<1>5. \A i \in DOMAIN w.rows :
        /\ w.rows[i][a.name] # Missing /\ days[i] \in Int
        /\ days[i] = Report!Stamp(table, a, i) /\ w.rows[i] = table.rows[i]
  <2>1. a \in Report!OfKind(table, "date")
    BY <1>4, DateColumnIsIn
  <2> QED
    BY <2>1, Stamps DEF IsWindow
<1>6. place \in [DOMAIN w.rows -> Int] /\ \A i, j \in DOMAIN w.rows : days[i] < days[j] => place[i] < place[j]
  <2>1. \A i \in DOMAIN w.rows :
          /\ w.rows[i][Report!DateColumn(w).name] # Missing
          /\ days[i] = w.rows[i][Report!DateColumn(w).name].day /\ days[i] \in Int
    BY <1>4, <1>5
  <2>2. Report!DateColumn(w) # Missing
    BY <1>4
  <2> HIDE DEF days, a
  <2> QED
    BY <1>1, <2>1, <2>2, PlacesFollowDays
<1>7. final \in V /\ \A j \in V : place[j] <= place[final]
  <2> DEFINE f == [i \in V |-> place[i]]
  <2>1. f \in [V -> Int] /\ \A i \in V : f[i] = place[i]
    BY <1>6
  <2>2. DOMAIN values = V
    BY <1>2
  <2> HIDE DEF f, V, values
  <2>3. \E i \in V : \A j \in V : f[j] <= f[i]
    BY <1>2, <1>3, <2>1, GreatestIsThere
  <2>4. \E i \in V : \A j \in V : place[j] <= place[i]
    BY <2>1, <2>3
  <2> QED
    BY <2>2, <2>4 DEF Report!Latest
<1>8. Report!Analyse(w, place)[c].value = values[final]
  BY DEF Report!Analyse
<1> HIDE DEF final, values, days
<1>9. \A k \in V : days[k] <= days[final]
  <2> SUFFICES ASSUME NEW k \in V, days[final] < days[k] PROVE FALSE
    BY <1>5, <1>7
  <2>1. place[final] < place[k] /\ place[k] <= place[final] /\ place[k] \in Int /\ place[final] \in Int
    BY <1>6, <1>7
  <2> QED
    BY <2>1
<1>10. V = {i \in DOMAIN w.rows : table.rows[i][c.name] # Missing}
  BY <1>5
<1>11. values[final] = table.rows[final][c.name]
  BY <1>2, <1>5, <1>7
<1>12. \A k \in V : Report!Stamp(table, a, k) <= Report!Stamp(table, a, final)
  BY <1>5, <1>7, <1>9
<1>13. Report!LatestOf(c, DOMAIN w.rows) =
        {table.rows[i][c.name] : i \in {j \in V : \A k \in V : Report!Stamp(table, a, k) <= Report!Stamp(table, a, j)}}
  BY <1>10 DEF Report!LatestOf
<1> HIDE DEF V, a
<1>14. values[final] \in Report!LatestOf(c, DOMAIN w.rows)
  BY <1>7, <1>11, <1>12, <1>13
<1>15. values[final] \in Int
  BY <1>2, <1>7
<1> QED
  BY <1>8, <1>14, <1>15

(* What compare makes of a figure, if no other has its label.              *)
LEMMA ChangeOfOne ==
  ASSUME NEW c, NEW now \in Int, NEW earlier,
         {d \in DOMAIN earlier : d.label = c.label} \subseteq {c},
         c \in DOMAIN earlier => earlier[c].value \in Int
  PROVE  LET change == Report!Change(c, now, earlier)
         IN /\ change.label = c.label /\ change.value = now
            /\ IF c \in DOMAIN earlier THEN change.previous = earlier[c].value ELSE change.direction = "new"
            /\ change.compared => (change.direction = "down" => change.value < change.previous)
            /\ change.direction = "up" => change.value > change.previous
<1> DEFINE same == {d \in DOMAIN earlier : d.label = c.label}
           before == earlier[CHOOSE d \in same : \A e \in same \ {d} : Report!Above(e, d)].value
           change(was, compares, direction) ==
             [label |-> c.label, value |-> now, previous |-> was,
              compared |-> compares, direction |-> direction]
<1>1. Report!Change(c, now, earlier) =
        IF same = {} THEN change(Missing, FALSE, "new")
        ELSE IF before = 0 THEN change(0, FALSE, IF now > 0 THEN "up" ELSE "flat")
        ELSE change(before, TRUE,
               IF 2000 * Report!Magnitude(now - before) < Report!Magnitude(before) THEN "flat"
               ELSE IF now > before THEN "up" ELSE "down")
  BY DEF Report!Change
<1>2. same = IF c \in DOMAIN earlier THEN {c} ELSE {}
  OBVIOUS
<1>3. CASE c \notin DOMAIN earlier
  BY <1>1, <1>2, <1>3
<1>4. CASE c \in DOMAIN earlier
  <2>1. before = earlier[c].value
    BY <1>2, <1>4
  <2>2. same # {} /\ before \in Int
    BY <1>2, <1>4, <2>1
  <2> HIDE DEF same, before
  <2>3. CASE before = 0
    BY <1>1, <1>4, <2>1, <2>2, <2>3
  <2>4. CASE before # 0
    <3>1. ASSUME ~(2000 * Report!Magnitude(now - before) < Report!Magnitude(before)), ~(now > before)
          PROVE  now < before
      BY <2>2, <2>4, <3>1 DEF Report!Magnitude
    <3> QED
      BY <1>1, <1>4, <2>1, <2>2, <2>4, <3>1
  <2> QED
    BY <2>3, <2>4
<1> QED
  BY <1>3, <1>4

(* What a finished report of a plain table says of one measure.            *)
LEMMA PlainReport ==
  ASSUME ReportInv, Report!Reported, Report!IsPlain, NEW c \in Measures
  PROVE  LET latest == Report!LatestOf(c, Report!Covered(0))
             earlier == Report!LatestOf(c, Report!Covered(1))
             changes == {change \in Report!Range(facts) : change.label = c.label}
         IN /\ latest # {} <=> changes # {}
            /\ \A change \in changes :
                 /\ change.value \in latest
                 /\ IF earlier = {} THEN change.direction = "new" ELSE change.previous \in earlier
                 /\ change.compared => (change.direction = "down" => change.value < change.previous)
                 /\ change.direction = "up" => change.value > change.previous
<1> DEFINE now == windows.current
           ago == windows.previous
           axis == Report!DateColumn(table)
           latest(d) == Report!LatestOf(d, Report!Covered(0))
           earlier(d) == Report!LatestOf(d, Report!Covered(1))
<1>1. /\ table \in Tables /\ period \in {"daily", "weekly", "monthly"}
      /\ windows = Report!Split(table, Report!Days[period])
  BY PartsAssumption DEF ReportInv, Report!Reported
<1>2. Report!IsTable(table) /\ axis # Missing
  BY <1>1, TablesAreTables DEF Report!IsPlain
<1>3. IsWindow(now, table) /\ IsWindow(ago, table)
  BY <1>1, <1>2, SplitsAreWindows
<1>4. DOMAIN now.rows = Report!Covered(0) /\ DOMAIN ago.rows = Report!Covered(1)
  BY <1>1, <1>2, WindowsArePeriods
<1>5. \A i \in Report!Covered(0) \cup Report!Covered(1) :
        i \in DOMAIN table.rows /\ Report!Stamp(table, axis, i) # Missing
  BY DEF Report!Covered
<1>6. PICK place \in Report!Ordered(now) : current = Report!Analyse(now, place)
  BY DEF ReportInv, Report!Reported
<1>7. PICK from \in Report!Ordered(ago) :
        previous = IF DOMAIN ago.rows = {} THEN << >> ELSE Report!Analyse(ago, from)
  BY DEF ReportInv, Report!Reported
<1>8. \A d \in Measures :
        /\ d \in Report!Metrics(now) <=> latest(d) # {}
        /\ d \in Report!Metrics(ago) <=> earlier(d) # {}
  <2> SUFFICES ASSUME NEW d \in Measures
               PROVE  /\ d \in Report!Metrics(now) <=> latest(d) # {}
                      /\ d \in Report!Metrics(ago) <=> earlier(d) # {}
    OBVIOUS
  <2>1. latest(d) # {} <=> \E i \in Report!Covered(0) : table.rows[i][d.name] # Missing
    BY <1>2, <1>5, LatestIsThere
  <2>2. earlier(d) # {} <=> \E i \in Report!Covered(1) : table.rows[i][d.name] # Missing
    BY <1>2, <1>5, LatestIsThere
  <2>3. /\ Report!Metrics(now) = {m \in Measures : \E i \in DOMAIN now.rows : now.rows[i][m.name] # Missing}
        /\ Report!Metrics(ago) = {m \in Measures : \E i \in DOMAIN ago.rows : ago.rows[i][m.name] # Missing}
    BY <1>2, <1>3, WindowMetrics
  <2>4. /\ \A i \in Report!Covered(0) : now.rows[i] = table.rows[i]
        /\ \A i \in Report!Covered(1) : ago.rows[i] = table.rows[i]
    BY <1>3, <1>4 DEF IsWindow
  <2> HIDE DEF now, ago, latest, earlier
  <2> QED
    BY <1>4, <2>1, <2>2, <2>3, <2>4
<1>9. /\ Report!Metrics(now) \subseteq Measures /\ Report!Metrics(ago) \subseteq Measures
      /\ DOMAIN ago.rows = {} => Report!Metrics(ago) = {}
  BY <1>2, <1>3, WindowMetrics
<1>10. DOMAIN current = Report!Metrics(now)
  BY <1>6 DEF Report!Analyse
<1>11. DOMAIN previous = Report!Metrics(ago)
  <2>1. CASE DOMAIN ago.rows = {}
    <3>1. previous = << >> /\ Report!Metrics(ago) = {}
      BY <1>7, <1>9, <2>1
    <3>2. DOMAIN << >> = {}
      OBVIOUS
    <3> QED
      BY <3>1, <3>2
  <2>2. CASE DOMAIN ago.rows # {}
    <3>1. previous = Report!Analyse(ago, from)
      BY <1>7, <2>2
    <3> QED
      BY <3>1 DEF Report!Analyse
  <2> QED
    BY <2>1, <2>2
<1>12. ASSUME NEW d \in Report!Metrics(now)
       PROVE  current[d].value \in latest(d) /\ current[d].value \in Int
  <2>1. \A i \in DOMAIN now.rows : Report!Stamp(table, Report!DateColumn(table), i) # Missing
    BY <1>4, <1>5
  <2> HIDE DEF now
  <2> QED
    BY <1>2, <1>3, <1>4, <1>6, <2>1, MetricIsLatest
<1>13. ASSUME NEW d \in Report!Metrics(ago)
       PROVE  previous[d].value \in earlier(d) /\ previous[d].value \in Int
  <2>1. \A i \in DOMAIN ago.rows : Report!Stamp(table, Report!DateColumn(table), i) # Missing
    BY <1>4, <1>5
  <2>2. previous = Report!Analyse(ago, from)
    BY <1>7, <1>9
  <2> HIDE DEF ago
  <2> QED
    BY <1>2, <1>3, <1>4, <1>7, <2>1, <2>2, MetricIsLatest
<1> HIDE DEF latest, earlier, now, ago
<1>14. \A d, e \in Measures : d.label = e.label => d = e
  BY DEF Report!IsPlain, Measures
<1>15. ASSUME NEW d \in DOMAIN current
       PROVE  /\ facts[d].label = d.label /\ facts[d].value = current[d].value
              /\ IF d \in DOMAIN previous THEN facts[d].previous = previous[d].value
                                          ELSE facts[d].direction = "new"
              /\ facts[d].compared => (facts[d].direction = "down" => facts[d].value < facts[d].previous)
              /\ facts[d].direction = "up" => facts[d].value > facts[d].previous
  <2> DEFINE value == current[d].value
             figures == previous
  <2>1. value \in Int
    BY <1>10, <1>12, <1>15
  <2>2. d \in DOMAIN figures => figures[d].value \in Int
    BY <1>11, <1>13
  <2>3. {e \in DOMAIN figures : e.label = d.label} \subseteq {d}
    BY <1>9, <1>10, <1>11, <1>14, <1>15
  <2>4. facts[d] = Report!Change(d, value, figures)
    BY <1>15 DEF ReportInv
  <2> HIDE DEF value, figures
  <2>5. LET change == Report!Change(d, value, figures)
        IN /\ change.label = d.label /\ change.value = value
           /\ IF d \in DOMAIN figures THEN change.previous = figures[d].value ELSE change.direction = "new"
           /\ change.compared => (change.direction = "down" => change.value < change.previous)
           /\ change.direction = "up" => change.value > change.previous
    BY <2>1, <2>2, <2>3, ChangeOfOne
  <2> QED
    BY <2>4, <2>5 DEF value, figures
<1>16. DOMAIN facts = DOMAIN current
  BY DEF ReportInv
<1> DEFINE changes == {change \in Report!Range(facts) : change.label = c.label}
<1>17. changes = IF c \in DOMAIN current THEN {facts[c]} ELSE {}
  <2>1. \A d \in DOMAIN current : d \in Measures /\ facts[d].label = d.label
    BY <1>9, <1>10, <1>15
  <2>2. changes = {facts[d] : d \in {e \in DOMAIN current : facts[e].label = c.label}}
    BY <1>16 DEF Report!Range
  <2>3. {e \in DOMAIN current : facts[e].label = c.label} = IF c \in DOMAIN current THEN {c} ELSE {}
    BY <1>14, <2>1
  <2> HIDE DEF changes
  <2> QED
    BY <2>2, <2>3
<1>18. c \in DOMAIN current <=> latest(c) # {}
  BY <1>8, <1>10
<1>19. c \in DOMAIN previous <=> earlier(c) # {}
  BY <1>8, <1>11
<1> HIDE DEF changes
<1>20. latest(c) # {} <=> changes # {}
  BY <1>17, <1>18
<1>21. ASSUME NEW change \in changes
       PROVE  /\ change.value \in latest(c)
              /\ IF earlier(c) = {} THEN change.direction = "new" ELSE change.previous \in earlier(c)
              /\ change.compared => (change.direction = "down" => change.value < change.previous)
              /\ change.direction = "up" => change.value > change.previous
  <2>1. c \in DOMAIN current /\ change = facts[c]
    BY <1>17, <1>21
  <2>2. current[c].value \in latest(c)
    BY <1>10, <1>12, <2>1
  <2>3. c \in DOMAIN previous => previous[c].value \in earlier(c)
    BY <1>11, <1>13
  <2> QED
    BY <1>15, <1>19, <2>1, <2>2, <2>3
<1> QED
  BY <1>20, <1>21 DEF latest, earlier, changes

(* Every value a report states is the one of the latest day of its period, *)
(* as compare set it beside that of the period just before.                *)
THEOREM ReportsAreOfTheirPeriods == PartsSpec => []ReportIsOfItsPeriods
<1>1. ReportInv => ReportIsOfItsPeriods
  <2> SUFFICES ASSUME ReportInv PROVE Report!ReportIsOfItsPeriods
    BY DEF ReportIsOfItsPeriods
  <2> QED
    BY PlainReport DEF Report!ReportIsOfItsPeriods, Measures
<1> QED
  BY <1>1, ReportInvariant, PTL
=============================================================================
