----------------------------- MODULE InsightCache -----------------------------
(***************************************************************************)
(* The dashboard's explanations (aiops_dashboard/insights.py): an analysis *)
(* is explained by one AI request and the report kept, for whoever asks    *)
(* under the same key, in a dictionary every thread of the process shares  *)
(* without a lock.  Each operation on the dictionary is atomic.            *)
(*                                                                         *)
(* The key comes with the request: the analysis is posted back by the      *)
(* client it was given to, its fingerprint with it, and is taken as it     *)
(* comes.  A client may leave the fingerprint out or send another.         *)
(***************************************************************************)
EXTENDS Integers, Sequences, FiniteSets, SequencesExt

CONSTANTS Request,
          Analyses,   \* what may be asked about: [dataset, trends, anomalies, rest]
          Limit,      \* _CACHE_LIMIT (64)
          MaxCalls    \* bound of the model: requests

VARIABLES cache,   \* the ordered dictionary: pairs of a key and a report
          call, calls

vars == <<cache, call, calls>>

Idle == [stage |-> "idle"]

Init == cache = << >> /\ call = [r \in Request |-> Idle] /\ calls = 0

UpTo(s, n) == SubSeq(s, 1, IF Len(s) < n THEN Len(s) ELSE n)

(* Mutant: the key holds fewer anomalies than the model is shown.          *)
FactsKeyShort(a) == <<a.dataset, a.trends, UpTo(a.anomalies, 7)>>

(* _facts_key: the findings, up to the tenth anomaly.                      *)
FactsKey(a) == <<a.dataset, a.trends, UpTo(a.anomalies, 10)>>

(* The default of facts_key, for a client that sends none.                 *)
NoKey == << >>

Keys == {FactsKey(a) : a \in Analyses} \cup {NoKey}

(* What a request posts.  Its key is genuine if it is the one the analysis *)
(* was given out with.                                                     *)
Post == [analysis : Analyses, key : Keys]

Genuine(p) == p.key = FactsKey(p.analysis)

(* build_prompt: what the model is shown of an analysis, its rows and      *)
(* categories (`rest') apart.                                              *)
Findings(a) == <<a.dataset, a.trends, UpTo(a.anomalies, 8)>>

At(r, stage) == call[r].stage = stage
Becomes(r, stage) == call' = [call EXCEPT ![r].stage = stage] /\ UNCHANGED calls

Place(key) == {i \in DOMAIN cache : cache[i].key = key}

(* explain: a report stands for the post it was made for.                  *)
Get(r, p) ==
  /\ call[r].stage \in {"idle", "answered", "failed"} /\ calls < MaxCalls
  /\ calls' = calls + 1
  /\ \/ \E i \in Place(p.key) :
          call' = [call EXCEPT ![r] = [stage |-> "answered", asked |-> p, report |-> cache[i].report]]
     \/ /\ Place(p.key) = {}
        /\ call' = [call EXCEPT ![r] = [stage |-> "ask", asked |-> p, report |-> p]]
  /\ UNCHANGED cache

AIFails(r) == At(r, "ask") /\ Becomes(r, "failed") /\ UNCHANGED cache

(* _remember: a key already there keeps its place until it is moved.       *)
Store(r) ==
  /\ At(r, "ask")
  /\ LET entry == [key |-> call[r].asked.key, report |-> call[r].report]
         place == Place(entry.key)
     IN cache' = IF place = {} THEN Append(cache, entry)
                 ELSE [i \in DOMAIN cache |-> IF i \in place THEN entry ELSE cache[i]]
  /\ Becomes(r, "move")

(* A key another request has trimmed away raises a KeyError.               *)
MoveToEnd(r) ==
  /\ At(r, "move")
  /\ LET place == Place(call[r].asked.key)
     IN \/ \E i \in place : cache' = Append(RemoveAt(cache, i), cache[i]) /\ Becomes(r, "trim")
        \/ place = {} /\ Becomes(r, "failed") /\ UNCHANGED cache

(* Mutant: one entry too many is left.                                     *)
IsFullLate == Len(cache) > Limit + 1

IsFull == Len(cache) > Limit

Check(r) ==
  /\ At(r, "trim")
  /\ Becomes(r, IF IsFull THEN "pop" ELSE "answered")
  /\ UNCHANGED cache

Pop(r) ==
  /\ At(r, "pop")
  /\ IF cache = << >> THEN Becomes(r, "failed") /\ UNCHANGED cache
     ELSE Becomes(r, "trim") /\ cache' = Tail(cache)

Next ==
  \E r \in Request :
    \/ \E p \in Post : Get(r, p)
    \/ AIFails(r) \/ Store(r) \/ MoveToEnd(r) \/ Check(r) \/ Pop(r)

Spec == Init /\ [][Next]_vars

-----------------------------------------------------------------------------
(* What a request is answered, from the cache or not, was made for a       *)
(* request with the same key.  If both sent the key of what they asked     *)
(* about, it is a report on the very findings asked about; a client that   *)
(* sends another key, or none, may be answered of another's findings and   *)
(* may leave its own for others to be answered with.  No key is kept       *)
(* twice; and while nobody is storing, the cache is within its limit       *)
(* ("bounded so a long uptime cannot grow it without limit", insights.py). *)
CacheServes ==
  /\ \A r \in Request : At(r, "answered") =>
       LET asked == call[r].asked
           answer == call[r].report
       IN /\ answer.key = asked.key
          /\ Genuine(asked) /\ Genuine(answer) =>
               Findings(answer.analysis) = Findings(asked.analysis)
  /\ \A i, j \in DOMAIN cache : cache[i].key = cache[j].key => i = j
  /\ (\A r \in Request : call[r].stage \notin {"move", "trim", "pop"}) => Len(cache) <= Limit
=============================================================================
