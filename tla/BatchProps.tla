----------------------------- MODULE BatchProps -----------------------------
(***************************************************************************)
(* The properties of a batch of captured builds.                           *)
(***************************************************************************)
EXTENDS Batch

Results == {"none", "skipped", "cancelled", "failed", "refused", "installed"}

WorkerSteps ==
  {"plan", "begin", "courtesy", "spawn", "announce", "recheck", "drain", "wait",
   "sweep", "withdraw", "classify", "gate", "asked", "door", "place", "finish",
   "over"}

ControlOK ==
  /\ stopping \in BOOLEAN /\ current \in 0 .. N
  /\ phase \in [Members -> {"building", "placement", "cancelling"}]
  /\ pgid \in [Members -> BOOLEAN]

GroupOK ==
  /\ alive \in [Members -> SUBSET {"cargo", "child"}]
  /\ termed \in [Members -> BOOLEAN] /\ kind \in [Members -> Kinds]
  /\ status \in [Members -> {"none", "ok", "error", "signal"}]

WorkerOK ==
  /\ wpc \in WorkerSteps /\ m \in Members
  /\ swept \in BOOLEAN /\ broken \in BOOLEAN /\ result \in Results
  /\ outcome \in [Members -> Results]
  /\ end \in {"none", "completed", "cancelled", "failed"}

InterfaceOK ==
  /\ upc \in {"ready", "swap", "loadTerm", "loadKill", "term", "kill", "prompt",
              "done"}
  /\ target \in 0 .. N /\ got \in BOOLEAN /\ armed \in BOOLEAN
  /\ told \in [Members -> SUBSET {"Accepted", "TooLate"}]

AuthOK ==
  needsAuth \in BOOLEAN /\ answer \in {"none", "authorized", "refused"}

TypeOK == ControlOK /\ GroupOK /\ WorkerOK /\ InterfaceOK /\ AuthOK

\* The members that were begun.
Begun ==
  {i \in Members : i < m \/ (i = m /\ (current = i \/ outcome[i] # "none"))}

\* A cancel and the step into placement have exactly one winner, and the person
\* is told which: an accepted cancel never ends as an installed crate, one that was
\* too late never as a cancelled, refused or skipped one, and a member is called
\* cancelled only when a cancel of that very member was accepted, never for a
\* failure of cargo's own.
OneWinner ==
  \A i \in Members :
    /\ phase[i] = "cancelling" => outcome[i] # "installed" /\ ~(At("place") /\ m = i)
    /\ "Accepted" \in told[i] => outcome[i] # "installed"
    /\ "TooLate" \in told[i] => outcome[i] \notin {"cancelled", "refused", "skipped"}
    /\ outcome[i] = "cancelled" => phase[i] = "cancelling" /\ status[i] # "error"

\* "Stopped" means stopped: from the moment `c` is recorded, wherever the worker
\* is, no further member begins.
StoppedMeansStopped == [][stopping => Begun' = Begun]_vars

\* The batch's end tells what happened: completed means every member was begun
\* and none was cancelled, cancelled means someone pressed `c` and it stopped
\* something, and a failure of the plan is shown only to someone who did not.
EndTrue ==
  upc = "done" =>
    /\ end \in {"completed", "cancelled", "failed"}
    /\ end = "completed" => \A i \in Members : outcome[i] \notin {"none", "cancelled"}
    /\ end = "cancelled" =>
         stopping /\ \E i \in Members : outcome[i] \in {"none", "cancelled"}
    /\ end = "failed" => ~stopping /\ \A i \in Members : outcome[i] = "none"

\* The password is asked for while the worker waits for it, for a member that can
\* still be placed; and an answer is for the member that asked, never for a
\* later one that finds it in the channel.
PasswordInTime ==
  /\ needsAuth \/ upc = "prompt" \/ answer # "none" => At("asked")
  /\ upc = "prompt" => phase[m] = "building" /\ ~stopping

\* A cancelled member's processes all end, those that ignore SIGTERM or have
\* closed stderr included, when the cancel came before the worker's last sweep:
\* nothing goes on writing into the stage.
GroupEmptied ==
  \A i \in Members :
    (phase[i] = "cancelling" /\ m = i
      /\ wpc \in {"announce", "recheck", "drain", "wait", "sweep"})
      ~> alive[i] = {}

\* A batch told to stop ends, whatever cargo and its children do: the worker
\* waits for the EOF, the EOF for a stray, and the stray for nobody.
StopEnds == stopping ~> upc = "done"

-----------------------------------------------------------------------------
(* The inductive invariant.                                                *)

InHand == WorkerSteps \ {"plan", "begin", "over"}

\* The member in hand is the current one; those before it have an outcome that lets
\* the batch go on, those after it have none.
MemberInv ==
  /\ wpc = "plan" => m = 1
  /\ current = IF wpc \in InHand THEN m ELSE 0
  /\ \A i \in Members : i < m => outcome[i] \notin {"none", "cancelled"}
  /\ \A i \in Members : i > m => outcome[i] = "none"
  /\ wpc # "over" => outcome[m] = "none"
  /\ result # "none" <=> wpc = "finish"

\* A member that was never begun has nothing to cancel and nothing running.
Fresh(i) == i > m \/ (i = m /\ wpc \notin InHand /\ outcome[i] = "none")

FreshInv ==
  \A i \in Members : Fresh(i) =>
    phase[i] = "building" /\ told[i] = {} /\ alive[i] = {} /\ status[i] = "none"
      /\ target # i

\* cargo runs between its spawn and the wait for it, and how it ended is settled then.
CargoInv ==
  /\ \A i \in Members : i < m => "cargo" \notin alive[i]
  /\ "cargo" \in alive[m] => wpc \in {"announce", "recheck", "drain", "wait"}
  /\ wpc \in {"courtesy", "spawn"} => status[m] = "none"
  /\ wpc \in {"gate", "asked", "door", "place"} => status[m] = "ok"

\* What the interface believes of its target, and what it said of the others, is
\* what their phases say.
CancelInv ==
  /\ target # 0 <=> upc \in {"swap", "loadTerm", "loadKill", "term", "kill"}
  /\ target # 0 => stopping
  /\ upc \in {"loadTerm", "loadKill", "term", "kill"} => phase[target] = "cancelling"
  /\ \A i \in Members :
       /\ phase[i] = "cancelling" => stopping
       /\ "Accepted" \in told[i] => phase[i] = "cancelling"
       /\ "TooLate" \in told[i] => phase[i] = "placement"

\* Only what went through the door is placed, and only what a cancel reached first is
\* cancelled.
DoorInv ==
  /\ wpc = "place" => phase[m] = "placement"
  /\ result = "installed" => phase[m] = "placement"
  /\ result = "cancelled" => phase[m] = "cancelling" /\ status[m] # "error"
  /\ \A i \in Members :
       /\ phase[i] = "placement" =>
            \/ outcome[i] \in {"installed", "failed"}
            \/ i = m /\ wpc = "place"
            \/ i = m /\ wpc = "finish" /\ result \in {"installed", "failed"}
       /\ outcome[i] = "installed" => phase[i] = "placement"
       /\ outcome[i] = "cancelled" => phase[i] = "cancelling" /\ status[i] # "error"

EndInv ==
  /\ wpc = "over" <=> end # "none"
  /\ end = "completed" => m = N /\ outcome[m] \notin {"none", "cancelled"}
  /\ end = "cancelled" => stopping /\ outcome[m] \in {"none", "cancelled"}
  /\ end = "failed" => \A i \in Members : outcome[i] = "none"
  /\ upc = "done" => wpc = "over" /\ (end = "failed" => ~stopping)

\* A request for a password is in one place at a time.
AuthInv ==
  /\ needsAuth \/ upc = "prompt" \/ answer # "none" => wpc = "asked"
  /\ needsAuth => upc # "prompt" /\ answer = "none"
  /\ upc = "prompt" => answer = "none" /\ ~stopping

IInv ==
  /\ TypeOK /\ MemberInv /\ FreshInv /\ CargoInv
  /\ CancelInv /\ DoorInv /\ EndInv /\ AuthInv

=============================================================================
