----------------------------- MODULE Recording ------------------------------
(***************************************************************************)
(* The script that records real answers for Demo Mode                      *)
(* (scripts/record_demo_outputs.py) through RecordingProvider (demo.py),   *)
(* beside visitors of the application who use the same key.                *)
(*                                                                         *)
(* The script takes its items in order, one request and one file each, and *)
(* is run again to retry what failed; it may die anywhere, in the middle   *)
(* of writing a file too.  That a question is asked with the text of the   *)
(* SOPs it finds, and so changes with the library, is left out.            *)
(***************************************************************************)
EXTENDS Gemini

CONSTANTS Items,      \* the examples and questions, in order
          MaxDeaths   \* bound of the model: deaths of the script

Item == {Items[i] : i \in DOMAIN Items}
Visitor == Request \ Item

ASSUME RecordingAssumption ==
  /\ Items \in Seq(Request) /\ Len(Items) > 0
  /\ MaxDeaths \in Nat

VARIABLES file,    \* each recording: not there, cut off, or whole
          at,      \* the item the script is at; 0 while it does not run
          step,    \* what it does with that item
          deaths

vars == <<left, req, fresh, file, at, step, deaths>>

TypeOK ==
  /\ GeminiTypeOK
  /\ file \in [Item -> {"none", "torn", "whole"}]
  /\ at \in 0..Len(Items) /\ step \in {"look", "ask", "write"}
  /\ deaths \in 0..MaxDeaths
  /\ \A i \in Item : req[i].at # "idle" => at # 0 /\ Items[at] = i /\ step = "ask"

Init ==
  /\ GeminiInit
  /\ file = [i \in Item |-> "none"]
  /\ at = 0 /\ step = "look" /\ deaths = 0

Quiet == UNCHANGED <<file, at, step, deaths>>
AtStep(s) == at # 0 /\ step = s
NextItem ==
  /\ at' = IF at = Len(Items) THEN 0 ELSE at + 1
  /\ step' = "look"

-----------------------------------------------------------------------------
Visit(r) == r \in Visitor /\ (\E c \in Chains : Begin(r, c)) /\ Quiet

Generate(r) ==
  /\ Work(r)
  /\ r \in Item => AtStep("ask")
  /\ Quiet

StartScript ==
  /\ at = 0
  /\ at' = 1 /\ step' = "look"
  /\ UNCHANGED <<left, req, fresh, file, deaths>>

(* A recording on disk is used again, and no request made.                 *)
Reuse ==
  /\ AtStep("look") /\ file[Items[at]] = "whole"
  /\ NextItem
  /\ UNCHANGED <<left, req, fresh, file, deaths>>

(* What is no JSON ends the script: only the application's own errors and  *)
(* those of the system are caught.                                         *)
ReadsTorn ==
  /\ AtStep("look") /\ file[Items[at]] = "torn"
  /\ at' = 0
  /\ UNCHANGED <<left, req, fresh, file, step, deaths>>

(* Mutant: a request is made whatever is on disk.                          *)
AskAgain ==
  /\ AtStep("look")
  /\ \E c \in Chains : Begin(Items[at], c)
  /\ step' = "ask"
  /\ UNCHANGED <<file, at, deaths>>

Ask ==
  /\ AtStep("look") /\ file[Items[at]] = "none"
  /\ \E c \in Chains : Begin(Items[at], c)
  /\ step' = "ask"
  /\ UNCHANGED <<file, at, deaths>>

(* A failure is noted and the next item tried.                             *)
Skip ==
  /\ AtStep("ask") /\ req[Items[at]].at \in {"quota", "error"}
  /\ Forget(Items[at]) /\ NextItem
  /\ UNCHANGED <<left, file, deaths>>

(* The file is opened, which empties it, and then written.                 *)
Open ==
  /\ AtStep("ask") /\ req[Items[at]].at = "answer"
  /\ file' = [file EXCEPT ![Items[at]] = "torn"]
  /\ step' = "write"
  /\ Forget(Items[at])
  /\ UNCHANGED <<left, at, deaths>>

Write ==
  /\ AtStep("write")
  /\ file' = [file EXCEPT ![Items[at]] = "whole"]
  /\ NextItem
  /\ UNCHANGED <<left, req, fresh, deaths>>

(* The script is stopped; its request dies with it.                        *)
Kill ==
  /\ at # 0 /\ deaths < MaxDeaths
  /\ at' = 0 /\ step' = "look" /\ deaths' = deaths + 1
  /\ Forget(Items[at])
  /\ UNCHANGED <<left, file>>

Script == Reuse \/ ReadsTorn \/ Ask \/ Skip \/ Open \/ Write

Next ==
  \/ \E r \in Request : Visit(r) \/ Generate(r)
  \/ StartScript \/ Script \/ Kill
  \/ NewWindow /\ Quiet

(* A call ends by its timeout, a backoff by its clock, and nothing stops   *)
(* the thread a request runs in.                                           *)
Spec ==
  /\ Init /\ [][Next]_vars
  /\ \A r \in Request : WF_vars(Generate(r))
  /\ WF_vars(Script)

-----------------------------------------------------------------------------
(* "Recording is idempotent" and a failed item "must not lose the work     *)
(* already recorded" (record_demo_outputs.py): however often the script is *)
(* run and wherever it dies, a recording once whole stays.                 *)
NothingRecordedIsLost ==
  [][\A i \in Item : file[i] = "whole" => file'[i] = "whole"]_file

(* Every request ends, whatever the API does, and so does every run of the *)
(* script.                                                                 *)
RequestsEnd ==
  /\ \A r \in Request : Live(r) ~> ~Live(r)
  /\ at # 0 ~> at = 0
=============================================================================
