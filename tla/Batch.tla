-------------------------------- MODULE Batch -------------------------------
(***************************************************************************)
(* A batch of captured builds: the interface thread that hears `c`, the    *)
(* worker that builds the members one after another, and the process group *)
(* of the cargo that is running.  The two threads share BatchControl (under *)
(* a mutex), each member's BuildControl (two atomics) and two channels.    *)
(***************************************************************************)
EXTENDS Naturals, FiniteSets

CONSTANT N    \* the plan has members 1..N

ASSUME BatchAssumption == N \in Nat \ {0}

Members == 1 .. N

\* What runs beside cargo in its process group: nothing, a process that dies of
\* SIGTERM, one that ignores it, one that ignores it and has closed stderr.
Kinds == {"none", "plain", "stubborn", "silent"}

VARIABLES
  stopping, current,   \* BatchState; current is 0 when no member is building
  phase, pgid,         \* BuildControl of each member; pgid: a group is announced
  alive, termed, kind, status,  \* each member's process group; how cargo ended
  wpc, m, swept, broken, result,     \* the worker
  outcome, end,                      \* what it reported: per member, and Done
  upc, target, got, armed, told,     \* the interface thread
  needsAuth, answer                  \* the two channels of the password request

control == <<stopping, current, phase, pgid>>
group   == <<alive, termed, kind, status>>
worker  == <<wpc, m, swept, broken, result, outcome, end>>
ui      == <<upc, target, got, armed, told>>
auth    == <<needsAuth, answer>>
vars == <<control, group, worker, ui, auth>>

-----------------------------------------------------------------------------
Init ==
  /\ stopping = FALSE /\ current = 0
  /\ phase = [i \in Members |-> "building"]
  /\ pgid = [i \in Members |-> FALSE]
  /\ alive = [i \in Members |-> {}] /\ termed = [i \in Members |-> FALSE]
  /\ kind = [i \in Members |-> "none"] /\ status = [i \in Members |-> "none"]
  /\ wpc = "plan" /\ m = 1 /\ swept = FALSE /\ broken = FALSE /\ result = "none"
  /\ outcome = [i \in Members |-> "none"] /\ end = "none"
  /\ upc = "ready" /\ target = 0 /\ got = FALSE /\ armed = FALSE
  /\ told = [i \in Members |-> {}]
  /\ needsAuth = FALSE /\ answer = "none"

Cancelled(i) == phase[i] = "cancelling"

\* kill(2) with a negative pid: SIGTERM is delivered to whoever is there,
\* SIGKILL ends them at once.
Sigterm(i) ==
  /\ termed' = [termed EXCEPT ![i] = TRUE]
  /\ UNCHANGED <<alive, status, kind>>

Sigkill(i) ==
  /\ alive' = [alive EXCEPT ![i] = {}]
  /\ status' = [status EXCEPT ![i] = IF "cargo" \in alive[i] THEN "signal" ELSE @]
  /\ UNCHANGED <<termed, kind>>

\* stderr reads EOF only when every process that holds it is gone.
Eof(i) == "cargo" \notin alive[i] /\ ("child" \in alive[i] => kind[i] = "silent")

-----------------------------------------------------------------------------
(* The worker.                                                             *)

At(step) == wpc = step
Goto(step) == wpc' = step

\* The member is over with result r.
Over(r) == Goto("finish") /\ result' = r

\* The state lock, the manifest, the gates over the whole plan.
PlanReady ==
  /\ At("plan") /\ Goto("begin")
  /\ UNCHANGED <<control, group, ui, auth, m, swept, broken, result, outcome, end>>

\* They fail: a cancel that was heard outranks the failure.
PlanFails ==
  /\ At("plan") /\ Goto("over")
  /\ end' = IF stopping THEN "cancelled" ELSE "failed"
  /\ UNCHANGED <<control, group, ui, auth, m, swept, broken, result, outcome>>

\* Mutant: the member before is asked, not the batch.
TryBeginMemberByPhase ==
  /\ At("begin")
  /\ IF m > 1 /\ Cancelled(m - 1)
     THEN Goto("over") /\ end' = "cancelled" /\ UNCHANGED current
     ELSE Goto("courtesy") /\ current' = m /\ UNCHANGED end
  /\ UNCHANGED <<stopping, phase, pgid, group, ui, auth, m, swept, broken,
                 result, outcome>>

\* try_begin_member: asking and publishing under one lock.
TryBeginMember ==
  /\ At("begin")
  /\ IF stopping
     THEN Goto("over") /\ end' = "cancelled" /\ UNCHANGED current
     ELSE Goto("courtesy") /\ current' = m /\ UNCHANGED end
  /\ UNCHANGED <<stopping, phase, pgid, group, ui, auth, m, swept, broken,
                 result, outcome>>

\* The entry is not the planned one any more; only sweeps ask.
Skip ==
  /\ At("courtesy") /\ Over("skipped")
  /\ UNCHANGED <<control, group, ui, auth, m, swept, broken, outcome, end>>

\* Frontend::build: a cancel that is already there should not cost a spawn.
Courtesy ==
  /\ At("courtesy")
  /\ IF Cancelled(m) THEN Over("cancelled") ELSE Goto("spawn") /\ UNCHANGED result
  /\ UNCHANGED <<control, group, ui, auth, m, swept, broken, outcome, end>>

\* build_captured.
Spawn ==
  /\ At("spawn") /\ Goto("announce")
  /\ \E k \in Kinds :
       /\ kind' = [kind EXCEPT ![m] = k]
       /\ alive' = [alive EXCEPT ![m] =
            {"cargo"} \cup (IF k = "none" THEN {} ELSE {"child"})]
  /\ swept' = FALSE /\ broken' = FALSE
  /\ UNCHANGED <<control, termed, status, ui, auth, m, result, outcome, end>>

SpawnFails ==
  /\ At("spawn") /\ Over("failed")
  /\ UNCHANGED <<control, group, ui, auth, m, swept, broken, outcome, end>>

\* BuildControl::spawned stores the group, and then looks at the phase.
Announce ==
  /\ At("announce") /\ Goto("recheck")
  /\ pgid' = [pgid EXCEPT ![m] = TRUE]
  /\ UNCHANGED <<stopping, current, phase, group, ui, auth, m, swept, broken,
                 result, outcome, end>>

\* Mutant: no second look.
RecheckNot ==
  /\ At("recheck") /\ Goto("drain")
  /\ UNCHANGED <<control, group, ui, auth, m, swept, broken, result, outcome, end>>

Recheck ==
  /\ At("recheck") /\ Goto("drain")
  /\ IF Cancelled(m) THEN Sigterm(m) ELSE UNCHANGED group
  /\ UNCHANGED <<control, ui, auth, m, swept, broken, result, outcome, end>>

\* Mutant: the survivors are swept when they no longer hold the pipe.
DrainSweepAtEof ==
  /\ At("drain") /\ Cancelled(m) /\ ~swept /\ Eof(m)
  /\ swept' = TRUE
  /\ Sigkill(m)
  /\ UNCHANGED <<control, ui, auth, wpc, m, broken, result, outcome, end>>

\* drain_stderr: a quiet tick, a cancel, and the leader gone: the survivors that
\* withhold the EOF are swept, once.
DrainSweep ==
  /\ At("drain") /\ Cancelled(m) /\ ~swept /\ "cargo" \notin alive[m]
  /\ swept' = TRUE
  /\ Sigkill(m)
  /\ UNCHANGED <<control, ui, auth, wpc, m, broken, result, outcome, end>>

DrainEof ==
  /\ At("drain") /\ Eof(m) /\ Goto("wait")
  /\ UNCHANGED <<control, group, ui, auth, m, swept, broken, result, outcome, end>>

\* The pipe cannot be read: the whole group is killed before the wait.
DrainBreaks ==
  /\ At("drain") /\ Goto("wait")
  /\ broken' = TRUE
  /\ Sigkill(m)
  /\ UNCHANGED <<control, ui, auth, m, swept, result, outcome, end>>

Wait ==
  /\ At("wait") /\ "cargo" \notin alive[m] /\ Goto("sweep")
  /\ UNCHANGED <<control, group, ui, auth, m, swept, broken, result, outcome, end>>

Sweep ==
  /\ At("sweep") /\ Goto("withdraw")
  /\ IF Cancelled(m) THEN Sigkill(m) ELSE UNCHANGED group
  /\ UNCHANGED <<control, ui, auth, m, swept, broken, result, outcome, end>>

\* BuildControl::reaped.
Withdraw ==
  /\ At("withdraw") /\ Goto("classify")
  /\ pgid' = [pgid EXCEPT ![m] = FALSE]
  /\ UNCHANGED <<stopping, current, phase, group, ui, auth, m, swept, broken,
                 result, outcome, end>>

\* Ended by the cancel, not by cargo.
EndedByCancel(i) == Cancelled(i) /\ status[i] = "signal"

\* How cargo ended; a successful build may still fail verification, or collide.
Classify ==
  /\ At("classify")
  /\ \/ broken /\ Over("failed")
     \/ ~broken /\ status[m] # "ok" /\ Over(IF EndedByCancel(m) THEN "cancelled" ELSE "failed")
     \/ ~broken /\ status[m] = "ok" /\ Over("failed")
     \/ ~broken /\ status[m] = "ok" /\ Goto("gate") /\ UNCHANGED result
  /\ UNCHANGED <<control, group, ui, auth, m, swept, broken, outcome, end>>

\* authorize_placement and auth_gate: nothing to authorize or fresh credentials;
\* a cancelled build asks for nothing; sudo cannot be asked; otherwise the interface
\* is.
Gate ==
  /\ At("gate")
  /\ \/ Goto("door") /\ UNCHANGED <<result, needsAuth>>
     \/ ~Cancelled(m) /\ Over("failed") /\ UNCHANGED needsAuth
     \/ Cancelled(m) /\ Over("cancelled") /\ UNCHANGED needsAuth
     \/ ~Cancelled(m) /\ Goto("asked") /\ needsAuth' = TRUE /\ UNCHANGED result
  /\ UNCHANGED <<control, group, ui, m, swept, broken, answer, outcome, end>>

\* The answer: a denial that answers a cancel is the cancel.
Answered ==
  /\ At("asked") /\ answer # "none"
  /\ answer' = "none"
  /\ \/ answer = "authorized" /\ Goto("door") /\ UNCHANGED result
     \/ answer = "refused" /\ Over(IF Cancelled(m) THEN "cancelled" ELSE "refused")
  /\ UNCHANGED <<control, group, ui, needsAuth, m, swept, broken, outcome, end>>

\* Mutant: the phase is stored, not swapped.
DoorStored ==
  /\ At("door") /\ Goto("place")
  /\ phase' = [phase EXCEPT ![m] = "placement"]
  /\ UNCHANGED <<stopping, current, pgid, group, ui, auth, m, swept, broken,
                 result, outcome, end>>

\* begin_placement: one compare-and-swap.
Door ==
  /\ At("door")
  /\ IF Cancelled(m)
     THEN Over("cancelled") /\ UNCHANGED phase
     ELSE /\ Goto("place") /\ phase' = [phase EXCEPT ![m] = "placement"]
          /\ UNCHANGED result
  /\ UNCHANGED <<stopping, current, pgid, group, ui, auth, m, swept, broken,
                 outcome, end>>

\* place_and_commit, as module Prefix has it.
Place ==
  /\ At("place")
  /\ Over("installed") \/ Over("failed")
  /\ UNCHANGED <<control, group, ui, auth, m, swept, broken, outcome, end>>

\* The slot is cleared and the member's result reported.
Report ==
  /\ current' = 0
  /\ outcome' = [outcome EXCEPT ![m] = result]
  /\ result' = "none"

\* finish_member.  A cancelled member ends the batch, any other lets it go on.
FinishMember ==
  /\ At("finish")
  /\ Report
  /\ \/ result = "cancelled" /\ Goto("over") /\ end' = "cancelled" /\ UNCHANGED m
     \/ result # "cancelled" /\ m < N /\ Goto("begin") /\ m' = m + 1 /\ UNCHANGED end
     \/ result # "cancelled" /\ m = N /\ Goto("over") /\ end' = "completed" /\ UNCHANGED m
  /\ swept' = FALSE /\ broken' = FALSE
  /\ UNCHANGED <<stopping, phase, pgid, group, ui, auth>>

\* What the worker does by itself; a broken pipe comes on top of it.
Working ==
  \/ PlanReady \/ PlanFails \/ TryBeginMember \/ Skip \/ Courtesy \/ Spawn
  \/ SpawnFails \/ Announce \/ Recheck \/ DrainSweep \/ DrainEof \/ Wait \/ Sweep
  \/ Withdraw \/ Classify \/ Gate \/ Answered \/ Door \/ Place \/ FinishMember

Worker == Working \/ DrainBreaks

-----------------------------------------------------------------------------
(* cargo and what it started.                                              *)

\* The build ends: well, badly, or killed by someone else.
CargoEnds(i) ==
  /\ "cargo" \in alive[i]
  /\ alive' = [alive EXCEPT ![i] = @ \ {"cargo"}]
  /\ \E s \in {"ok", "error", "signal"} : status' = [status EXCEPT ![i] = s]
  /\ UNCHANGED <<control, termed, kind, worker, ui, auth>>

ChildEnds(i) ==
  /\ "child" \in alive[i]
  /\ alive' = [alive EXCEPT ![i] = @ \ {"child"}]
  /\ UNCHANGED <<control, termed, kind, status, worker, ui, auth>>

\* SIGTERM takes effect.
Obey(i) ==
  /\ termed[i]
  /\ \/ /\ "cargo" \in alive[i]
        /\ alive' = [alive EXCEPT ![i] = @ \ {"cargo"}]
        /\ status' = [status EXCEPT ![i] = "signal"]
     \/ /\ "child" \in alive[i] /\ kind[i] = "plain"
        /\ alive' = [alive EXCEPT ![i] = @ \ {"child"}]
        /\ UNCHANGED status
  /\ UNCHANGED <<control, termed, kind, worker, ui, auth>>

-----------------------------------------------------------------------------
(* The interface thread.                                                   *)

\* BatchControl::request_cancel records the intent and picks the member in flight
\* under the mutex; the member's own door answers after it is let go.
RequestCancel ==
  /\ upc = "ready"
  /\ stopping' = TRUE
  /\ IF current = 0
     THEN UNCHANGED <<upc, target>>
     ELSE target' = current /\ upc' = "swap"
  /\ UNCHANGED <<current, phase, pgid, group, worker, got, told, auth>>

\* `c`, or Ctrl-C: cancel_pressed.
Press == RequestCancel /\ UNCHANGED armed

\* The grace has run out: escalate_overdue_cancel, once.
Escalate == armed /\ armed' = FALSE /\ RequestCancel

Return == upc' = "ready" /\ target' = 0

Tell(i, what) == told' = [told EXCEPT ![i] = @ \cup {what}]

\* BuildControl::request_cancel: the compare-and-swap ...
Swap ==
  /\ upc = "swap"
  /\ \/ /\ phase[target] = "building"
        /\ phase' = [phase EXCEPT ![target] = "cancelling"]
        /\ upc' = "loadTerm" /\ UNCHANGED <<target, told>>
     \/ /\ phase[target] = "cancelling"
        /\ upc' = "loadKill" /\ UNCHANGED <<target, phase, told>>
     \/ /\ phase[target] = "placement"
        /\ Return /\ Tell(target, "TooLate") /\ UNCHANGED phase
  /\ UNCHANGED <<stopping, current, pgid, group, worker, got, armed, auth>>

\* ... the load of the group ...
Load ==
  /\ upc \in {"loadTerm", "loadKill"}
  /\ upc' = IF upc = "loadTerm" THEN "term" ELSE "kill"
  /\ got' = pgid[target]
  /\ UNCHANGED <<control, group, worker, target, armed, told, auth>>

\* ... and the signal.  An accepted cancel arms the grace.
Term ==
  /\ upc = "term" /\ Return /\ got' = FALSE
  /\ IF got THEN Sigterm(target) ELSE UNCHANGED group
  /\ Tell(target, "Accepted")
  /\ armed' = TRUE
  /\ UNCHANGED <<control, worker, auth>>

Kill ==
  /\ upc = "kill" /\ Return /\ got' = FALSE
  /\ IF got THEN Sigkill(target) ELSE UNCHANGED group
  /\ UNCHANGED <<control, worker, armed, told, auth>>

\* Mutant: the screen is suspended whatever was pressed in between.
AnswerAuthAnyway ==
  /\ upc = "ready" /\ needsAuth
  /\ needsAuth' = FALSE /\ upc' = "prompt" /\ UNCHANGED answer
  /\ UNCHANGED <<control, group, worker, target, got, armed, told>>

\* answer_auth: a cancel that landed after the request is answered without a
\* prompt; otherwise the screen is suspended and sudo asks.
AnswerAuth ==
  /\ upc = "ready" /\ needsAuth
  /\ needsAuth' = FALSE
  /\ IF stopping THEN answer' = "refused" /\ UNCHANGED upc
                 ELSE upc' = "prompt" /\ UNCHANGED answer
  /\ UNCHANGED <<control, group, worker, target, got, armed, told>>

Prompted ==
  /\ upc = "prompt" /\ upc' = "ready"
  /\ answer' \in {"authorized", "refused"}
  /\ UNCHANGED <<control, group, worker, target, got, armed, told, needsAuth>>

\* Mutant: the plan's failure is shown as it came.
CollectAsSent ==
  /\ upc = "ready" /\ wpc = "over"
  /\ upc' = "done"
  /\ UNCHANGED <<control, group, wpc, m, swept, broken, result, outcome, end,
                 target, got, armed, told, auth>>

\* poll_job takes Done: a failure of the plan does not overturn a cancel.
Collect ==
  /\ upc = "ready" /\ wpc = "over"
  /\ upc' = "done"
  /\ end' = IF end = "failed" /\ stopping THEN "cancelled" ELSE end
  /\ UNCHANGED <<control, group, wpc, m, swept, broken, result, outcome,
                 target, got, armed, told, auth>>

Interface ==
  Swap \/ Load \/ Term \/ Kill \/ AnswerAuth \/ Prompted \/ Collect \/ Escalate

Next ==
  \/ Worker \/ Interface \/ Press
  \/ \E i \in Members : CargoEnds(i) \/ ChildEnds(i) \/ Obey(i)

Spec == Init /\ [][Next]_vars

\* The threads run, signals are delivered, and a prompt is answered or times out.
\* Every round of the interface's loop looks at the grace, at a request for a
\* password and at Done before or after it reads one key, so that keys cannot
\* hold them off (App::run).  Neither cargo nor its children ever need to end, and
\* the pipe never to break.
FairSpec ==
  /\ Spec
  /\ WF_vars(Working) /\ WF_vars(Swap \/ Load \/ Term \/ Kill \/ Prompted)
  /\ SF_vars(AnswerAuth) /\ SF_vars(Collect) /\ SF_vars(Escalate)
  /\ \A i \in Members : WF_vars(Obey(i))

=============================================================================
