-------------------------------- MODULE Sop ---------------------------------
(***************************************************************************)
(* The SOP library (projects/ai-sop-generator): procedures with numbered   *)
(* versions, saved by concurrent requests while others read one version,   *)
(* search the library or have a question answered from it.                 *)
(*                                                                         *)
(* The title stands for every field of the procedure itself; what a form   *)
(* leaves blank keeps its value.  Whether a version could be embedded, how *)
(* similar it is to a question and what the model makes of it are free.    *)
(***************************************************************************)
EXTENDS Integers, FiniteSets, Sessions

CONSTANTS Request, Sop, Title,
          Content, TitleOf,   \* what a form may hold, and the title on it
          Blank, NoRow,
          TopK,               \* how many versions a search may return
          MaxVersion,         \* bound of the model: versions of a procedure
          MaxCalls            \* bound of the model: requests

ASSUME SopAssumption ==
  /\ TitleOf \in [Content -> Title \cup {Blank}]
  /\ Blank \notin Title
  /\ NoRow \notin [title : Title, current : Nat]
  /\ TopK \in Nat /\ MaxVersion \in Nat \ {0} /\ MaxCalls \in Nat

VARIABLES sop,        \* the sops table
          versions,   \* the sop_versions table
          call,       \* what each request holds, or the answer it gave last
          calls

vars == <<sop, versions, call, calls>>

Row == [title : Title, current : 1..MaxVersion]
Version == [sop : Sop, number : 1..MaxVersion, content : Content, embedded : BOOLEAN]

Init ==
  /\ sop = [s \in Sop |-> NoRow]
  /\ versions = {}
  /\ call = [r \in Request |-> [kind |-> "idle"]]
  /\ calls = 0

Saved == {s \in Sop : sop[s] # NoRow}
Numbers(s) == {v.number : v \in {w \in versions : w.sop = s}}
Current(s) == IF sop[s] = NoRow THEN 0 ELSE sop[s].current

Held(r) == call[r].kind \in {"edit", "read", "ask", "cite"}

Begin(r, c) ==
  /\ ~Held(r) /\ calls < MaxCalls
  /\ calls' = calls + 1
  /\ call' = [call EXCEPT ![r] = c]

Becomes(r, c) == call' = [call EXCEPT ![r] = c] /\ UNCHANGED calls

-----------------------------------------------------------------------------
(* create_sop: nothing is read, so it is one step; s is a new id.          *)
CreateSop(r, s, c, e) ==
  /\ sop[s] = NoRow /\ TitleOf[c] # Blank
  /\ sop' = [sop EXCEPT ![s] = [title |-> TitleOf[c], current |-> 1]]
  /\ versions' = versions \cup {[sop |-> s, number |-> 1, content |-> c, embedded |-> e]}
  /\ Begin(r, [kind |-> "idle"])

(* add_version up to the embedding, which may take as long as it likes.    *)
BeginEdit(r, s, c) ==
  /\ s \in Saved /\ sop[s].current < MaxVersion
  /\ Begin(r, [kind |-> "edit", sop |-> s, content |-> c, old |-> sop[s]])
  /\ UNCHANGED <<sop, versions>>

Renamed(old, c) ==
  [title |-> IF TitleOf[c] = Blank THEN old.title ELSE TitleOf[c], current |-> old.current + 1]

(* Mutant: no constraint holds a number to one version.                    *)
TakenNever(s, n) == FALSE

(* uq_sop_versions_sop_id_version                                          *)
Taken(s, n) == n \in Numbers(s)

CommitEdit(r, e) ==
  /\ call[r].kind = "edit"
  /\ LET c == call[r]
         new == Renamed(c.old, c.content)
     IN /\ ~Taken(c.sop, new.current)
        /\ sop' = [sop EXCEPT ![c.sop] = Written(c.old, new, @)]
        /\ versions' = versions \cup {[sop |-> c.sop, number |-> new.current,
                                       content |-> c.content, embedded |-> e]}
  /\ Becomes(r, [kind |-> "idle"])

-----------------------------------------------------------------------------
(* read, export: the procedure, and then in a second statement its         *)
(* versions; want = 0 asks for the current one.                            *)
BeginRead(r, s, want) ==
  /\ s \in Saved
  /\ Begin(r, [kind |-> "read", sop |-> s, want |-> want, old |-> sop[s]])
  /\ UNCHANGED <<sop, versions>>

Wanted(c) == IF c.want = 0 THEN c.old.current ELSE c.want

FinishRead(r) ==
  /\ call[r].kind = "read"
  /\ LET found == {v \in versions : v.sop = call[r].sop /\ v.number = Wanted(call[r])}
     IN \/ \E v \in found :
             Becomes(r, [kind |-> "found", want |-> Wanted(call[r]), shown |-> v])
        \/ found = {} /\ Becomes(r, [kind |-> "missing", want |-> call[r].want, old |-> call[r].old])
  /\ UNCHANGED <<sop, versions>>

-----------------------------------------------------------------------------
(* search_sops and answer_question up to the embedding of the question;    *)
(* `known' notes what was current then.                                    *)
BeginAsk(r, ai) ==
  /\ Begin(r, [kind |-> "ask", ai |-> ai, known |-> [s \in Sop |-> Current(s)]])
  /\ UNCHANGED <<sop, versions>>

(* Mutant: superseded versions are searched as well.                       *)
SearchableAll == {v \in versions : v.embedded}

Searchable == {v \in versions : v.embedded /\ v.number = Current(v.sop)}

Least(a, b) == IF a < b THEN a ELSE b

(* The most similar ones, in one statement (_retrieve).                    *)
Retrieved == {C \in SUBSET Searchable : Cardinality(C) = Least(TopK, Cardinality(Searchable))}

(* Below the similarity floor nothing is asked of the model.               *)
Retrieve(r) ==
  /\ call[r].kind = "ask"
  /\ LET c == call[r]
     IN \E hits \in Retrieved :
          IF ~c.ai THEN Becomes(r, [kind |-> "answered", known |-> c.known, cited |-> hits])
          ELSE \E relevant \in SUBSET hits :
                 IF relevant = {}
                 THEN Becomes(r, [kind |-> "answered", known |-> c.known, cited |-> {}])
                 ELSE Becomes(r, [kind |-> "cite", known |-> c.known, cited |-> relevant])
  /\ UNCHANGED <<sop, versions>>

(* The model may find no answer in what was retrieved.                     *)
Answer(r, answered) ==
  /\ call[r].kind = "cite"
  /\ Becomes(r, [kind |-> "answered", known |-> call[r].known,
                 cited |-> IF answered THEN call[r].cited ELSE {}])
  /\ UNCHANGED <<sop, versions>>

(* The number is taken, the AI or the database fails, the process stops:   *)
(* session_scope rolls back.                                               *)
Fail(r) == Held(r) /\ Becomes(r, [kind |-> "idle"]) /\ UNCHANGED <<sop, versions>>

-----------------------------------------------------------------------------
Next ==
  \E r \in Request :
    \/ \E s \in Sop, c \in Content : BeginEdit(r, s, c) \/ \E e \in BOOLEAN : CreateSop(r, s, c, e)
    \/ \E s \in Sop, want \in 0..MaxVersion : BeginRead(r, s, want)
    \/ \E yes \in BOOLEAN : CommitEdit(r, yes) \/ BeginAsk(r, yes) \/ Answer(r, yes)
    \/ FinishRead(r) \/ Retrieve(r) \/ Fail(r)

Spec == Init /\ [][Next]_vars

-----------------------------------------------------------------------------
Known == [Sop -> 0..MaxVersion]

Calls ==
       [kind : {"idle"}]
  \cup [kind : {"edit"}, sop : Sop, content : Content, old : Row]
  \cup [kind : {"read"}, sop : Sop, want : 0..MaxVersion, old : Row]
  \cup [kind : {"found"}, want : 1..MaxVersion, shown : Version]
  \cup [kind : {"missing"}, want : 0..MaxVersion, old : Row]
  \cup [kind : {"ask"}, ai : BOOLEAN, known : Known]
  \cup [kind : {"cite", "answered"}, known : Known, cited : SUBSET Version]

TypeOK ==
  /\ sop \in [Sop -> Row \cup {NoRow}]
  /\ versions \subseteq Version
  /\ call \in [Request -> Calls]
  /\ calls \in 0..MaxCalls

(* The versions of a procedure are numbered 1 to its current one, one of   *)
(* each ("makes double-saving a version impossible", models.py), and it    *)
(* bears the title of the newest of them that has one, however many saves  *)
(* overlap.                                                                *)
HistoryIsTrue ==
  \A s \in Sop :
    /\ Numbers(s) = 1..Current(s)
    /\ \A v, w \in versions : v.sop = s /\ w.sop = s /\ v.number = w.number => v = w
    /\ \A v \in versions :
         v.sop = s /\ TitleOf[v.content] # Blank
           /\ (\A w \in versions : w.sop = s /\ w.number > v.number => TitleOf[w.content] = Blank)
         => sop[s].title = TitleOf[v.content]

Serial == INSTANCE SerialSaves

(* However long a save waits between loading its procedure and writing it, *)
(* and whatever others save meanwhile, it has the effect it would have     *)
(* alone, or none; HistoryIsTrue follows (add_version counts up a number   *)
(* read long before it writes, without a lock).                            *)
ImplementsSerial == Serial!Spec

(* A reader is shown the saved version it asked for, and told that there   *)
(* is none only if there was none when it asked, although the procedure    *)
(* and its versions are read apart.  An answer cites saved versions, one   *)
(* of a procedure, and none that was superseded before the question was    *)
(* asked ("older versions would return stale procedure text", search.py).  *)
ReadersAreCurrent ==
  \A r \in Request :
    LET c == call[r]
    IN /\ c.kind = "found" => c.shown \in versions /\ c.shown.number = c.want
       /\ c.kind = "missing" => c.want > c.old.current
       /\ c.kind \in {"cite", "answered"} =>
            /\ c.cited \subseteq versions
            /\ \A v \in c.cited : v.number >= c.known[v.sop]
            /\ \A v, w \in c.cited : v.sop = w.sop => v = w
=============================================================================
