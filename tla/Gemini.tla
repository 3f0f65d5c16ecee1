------------------------------- MODULE Gemini -------------------------------
(***************************************************************************)
(* Requests to the Gemini provider (packages/ai, gemini_provider.py), made *)
(* at the same time by threads that share one API key: each tries a chain  *)
(* of models, retries what is transient, and moves down the chain only     *)
(* when the quota of a model is spent.                                     *)
(*                                                                         *)
(* The API is outside the program: a model has an allowance per window,    *)
(* refuses once it is spent, may drop a connection before or after the     *)
(* request counted, and may fail for good.  Prompts, texts and token       *)
(* counts are left out; a reply is usable or not.                          *)
(***************************************************************************)
EXTENDS Integers, Sequences

CONSTANTS Request,
          Model,
          Default,     \* gemini_model; no caller asks for another
          Fallbacks,   \* gemini_fallback_models
          Embedding,   \* gemini_embedding_model
          MaxRetries,  \* ai_max_retries
          Allowance    \* external: calls a model answers per window

ASSUME GeminiAssumption ==
  /\ Default \in Model /\ Embedding \in Model
  /\ Fallbacks \in Seq(Model)
  /\ MaxRetries \in Nat /\ Allowance \in Nat

VARIABLES left,   \* external: what is left of each allowance
          req,    \* the request each thread is in
          fresh   \* history: requests with no new window since they began

gvars == <<left, req, fresh>>

(* _model_chain: the first model, then the fallbacks that differ from it;  *)
(* embeddings have a chain of one.                                         *)
OtherModels == SelectSeq(Fallbacks, LAMBDA m : m # Default)
ASSUME OthersAssumption == OtherModels \in Seq(Model)
ModelChain == <<Default>> \o OtherModels
Chains == {ModelChain, <<Embedding>>}

Running == {"calling", "sleeping"}
Outcome == {"answer", "quota", "error"}
Live(r) == req[r].at \in Running

(* drawn counts the calls of a request that counted against an allowance.  *)
Requests ==
  [at : Running \cup Outcome \cup {"idle"}, chain : Chains,
   pos : Nat \ {0}, attempt : Nat \ {0}, drawn : Nat]

NotAsked ==
  [at |-> "idle", chain |-> <<Embedding>>, pos |-> 1, attempt |-> 1, drawn |-> 0]

GeminiTypeOK ==
  /\ left \in [Model -> 0..Allowance]
  /\ req \in [Request -> Requests]
  /\ fresh \subseteq Request
  /\ \A r \in Request : req[r].pos <= Len(req[r].chain) /\ req[r].attempt <= MaxRetries + 1

GeminiInit ==
  /\ left = [m \in Model |-> Allowance]
  /\ req = [r \in Request |-> NotAsked]
  /\ fresh = {}

Forget(r) == req' = [req EXCEPT ![r] = NotAsked] /\ fresh' = fresh \ {r}

Begin(r, chain) ==
  /\ ~Live(r)
  /\ req' = [req EXCEPT ![r] = [at |-> "calling", chain |-> chain, pos |-> 1,
                                attempt |-> 1, drawn |-> 0]]
  /\ fresh' = fresh \cup {r}
  /\ UNCHANGED left

-----------------------------------------------------------------------------
Candidate(r) == req[r].chain[req[r].pos]
Last(r) == req[r].pos = Len(req[r].chain)

To(r, at, n) == req' = [req EXCEPT ![r].at = at, ![r].drawn = @ + n]
Draws(r, n) ==
  /\ n <= left[Candidate(r)]
  /\ left' = [left EXCEPT ![Candidate(r)] = @ - n]

(* The chain advances, or its end is the end of the request.               *)
Advance(r) ==
  \/ ~Last(r) /\ req' = [req EXCEPT ![r].pos = @ + 1, ![r].attempt = 1]
  \/ Last(r) /\ To(r, "quota", 0)

(* AIQuotaExhausted: no retry of the same model.                           *)
Refused(r) ==
  /\ req[r].at = "calling" /\ left[Candidate(r)] = 0
  /\ Advance(r)
  /\ UNCHANGED <<left, fresh>>

LastAttempt(r) == req[r].attempt = MaxRetries + 1

(* Mutant: a connection that keeps dropping advances the chain as well.    *)
DroppedAdvances(r) ==
  /\ req[r].at = "calling"
  /\ UNCHANGED <<left, fresh>>
  /\ \/ ~LastAttempt(r) /\ To(r, "sleeping", 0)
     \/ LastAttempt(r) /\ Advance(r)

(* A transient failure, before or after the call counted.                  *)
Dropped(r) ==
  /\ req[r].at = "calling"
  /\ \E n \in {0, 1} : Draws(r, n) /\ To(r, IF LastAttempt(r) THEN "error" ELSE "sleeping", n)
  /\ UNCHANGED fresh

(* Mutants: attempts are not counted; a retry begins the chain again.      *)
WakeUncounted(r) ==
  /\ req[r].at = "sleeping"
  /\ To(r, "calling", 0)
  /\ UNCHANGED <<left, fresh>>
WakeAtFirst(r) ==
  /\ req[r].at = "sleeping"
  /\ req' = [req EXCEPT ![r].at = "calling", ![r].pos = 1,
                        ![r].attempt = IF req[r].pos = 1 THEN @ + 1 ELSE 1]
  /\ UNCHANGED <<left, fresh>>

(* The backoff ends.                                                       *)
Wake(r) ==
  /\ req[r].at = "sleeping"
  /\ req' = [req EXCEPT ![r].at = "calling", ![r].attempt = @ + 1]
  /\ UNCHANGED <<left, fresh>>

(* A retired model, a malformed request: neither retried nor passed on.    *)
FailsForGood(r) ==
  /\ req[r].at = "calling"
  /\ To(r, "error", 0)
  /\ UNCHANGED <<left, fresh>>

(* A reply, or one that is cut off, declined, empty or no JSON.            *)
Replies(r) ==
  /\ req[r].at = "calling"
  /\ Draws(r, 1)
  /\ To(r, "answer", 1) \/ To(r, "error", 1)
  /\ UNCHANGED fresh

(* External: the allowances are renewed.                                   *)
NewWindow ==
  /\ left' = [m \in Model |-> Allowance]
  /\ fresh' = {}
  /\ UNCHANGED req

Work(r) == Refused(r) \/ Dropped(r) \/ Wake(r) \/ FailsForGood(r) \/ Replies(r)

-----------------------------------------------------------------------------
(* "Only AIQuotaExhausted advances the chain", and when all are spent the  *)
(* message "is true of the whole chain" (gemini_provider.py): unless a     *)
(* window began meanwhile, every model a request has left behind is spent, *)
(* whoever spent it.                                                       *)
FallsBackOnlyWhenSpent ==
  \A r \in fresh :
    \A i \in 1..Len(req[r].chain) :
      i < req[r].pos \/ req[r].at = "quota" => left[req[r].chain[i]] = 0

(* What one request may cost of the allowances: its retries on each model, *)
(* and the call that ends it.                                              *)
DrawsAreBounded ==
  \A r \in Request : req[r].drawn <= Len(req[r].chain) * MaxRetries + 1
=============================================================================
