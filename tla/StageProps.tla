----------------------------- MODULE StageProps -----------------------------
(***************************************************************************)
(* The properties of the stage directories, stated over module Stage.      *)
(***************************************************************************)
EXTENDS Stage

\* The files of a run.
DiskTypeOK ==
  /\ dir \in [Runs -> {"none", "bare", "leased"}]
  /\ full \in [Runs -> BOOLEAN] /\ tmp \in [Runs -> BOOLEAN]
  /\ mishap \subseteq Runs

\* The locks on them, and the build.
LockTypeOK ==
  /\ lease \in [Runs -> SUBSET (Runs \cup Family)]
  /\ writers \in [Runs -> SUBSET (Runs \cup Family)]
  /\ alive \in [Runs -> SUBSET Family]
  /\ ex \in [Runs -> Actors \cup {Nobody}]
  /\ sh \in [Runs -> SUBSET Cleaners]

\* The processes.
ProcessTypeOK ==
  /\ pc \in [Actors -> Steps]
  /\ hand \in [Cleaners -> Runs \cup {NoRun}]
  /\ \A q \in Cleaners : pc[q] \in {"probe", "shared"} \cup Taking => hand[q] \in Runs
  /\ list \in [Cleaners -> SUBSET Runs] /\ cand \in [Cleaners -> SUBSET Runs]
  /\ outcome \in [Cleaners -> [Runs -> Outcomes]]

TypeOK == DiskTypeOK /\ LockTypeOK /\ ProcessTypeOK

\* The install is over with its run, but perhaps for removing it.
Relinquished(r) == pc[r] \in {"over"} \cup Taking

\* No run is taken apart while anyone may still write to it: neither a clean,
\* nor a second clean, nor the install that made it, removes a run whose install
\* is under way or whose cargo, orphaned by a kill, or any descendant goes on
\* (stage.rs, Lease: "a stage can only look alive longer, never deletable
\* sooner").
NoRemovalUnderWriter ==
  \A a \in Actors : pc[a] \in Removing =>
    alive[Hand(a)] = {} /\ Relinquished(Hand(a))

\* The build's TMPDIR is not removed under a descendant that outlived cargo:
\* the reap is no licence, only the lock's grant is (stage.rs, BuildTmp).
ScratchUnderNobody ==
  \A r \in Runs : pc[r] = "rmtmp" => alive[r] = {}

\* What verify names, and clean takes for a candidate, has no owner - not at
\* the probe, and not at any later time before it is removed: in the window of
\* its creation a run is never convicted (stage.rs, LeaseState).
FoundOwnerless ==
  \A q \in Cleaners : \A r \in cand[q] : alive[r] = {} /\ Relinquished(r)

\* Whatever fails and whoever is killed, a run that holds anything keeps the
\* lease by which the next verify and clean find it: no debris becomes invisible
\* (stage.rs, remove_leased_run).
PayloadVisible == \A r \in Runs : full[r] => dir[r] = "leased"

\* clean's summary is true of the disk: what it counts as removed is gone, and
\* what it passes over as removed by another holds nothing any more.
SummaryTrue ==
  \A q \in Cleaners, r \in Runs :
    /\ outcome[q][r] = "removed" => dir[r] = "none"
    /\ outcome[q][r] = "gone" => ~full[r]

\* clean reports a failure only of a run on which some file operation failed: a
\* run that a racing clean removed first "counts as done, not as failed"
\* (verify.rs, remove_stale_stage).
GoneIsDone ==
  \A q \in Cleaners, r \in Runs : outcome[q][r] = "failed" => r \in mishap

\* An operation never waits for ever for a descendant that does not exit: its
\* TMPDIR is removed or left within the deadline.
ScratchBounded == \A r \in Runs : pc[r] = "untmp" ~> pc[r] # "untmp"

\* The installing process goes on; its children owe nothing.
FairSpec == Spec /\ \A r \in Runs : WF_vars(Install(r))

-----------------------------------------------------------------------------
(* The inductive invariant behind the safety properties.                   *)

Looking == {"scan", "probe", "shared", "clean"}
Early   == {"idle", "prepare", "publish"}

\* An install and a clean have steps of their own, and the removal in common.
StepInv ==
  /\ \A r \in Runs : pc[r] \in {"idle", "over"} \cup Working \cup Taking
  /\ \A q \in Cleaners : pc[q] \in {"idle"} \cup Looking \cup Taking

\* Whoever may still write holds the lease: the install until it lets go, and
\* all that its build has left behind.
LeaseInv ==
  \A r \in Runs :
    /\ alive[r] \subseteq lease[r]
    /\ pc[r] \in Working \ {"prepare"} => r \in lease[r]
    /\ pc[r] \in Early \cup {"stage", "spawn"} => alive[r] = {}

\* The same of the TMPDIR, from the spawn to its removal.
ScratchInv ==
  \A r \in Runs :
    /\ pc[r] \in {"wait", "untmp", "rmtmp"} => alive[r] \subseteq writers[r]
    /\ pc[r] = "rmtmp" => alive[r] = {}

\* A run is invisible until its lease is held, and visible when it is filled.
BirthInv ==
  \A r \in Runs :
    /\ pc[r] \in Early => dir[r] # "leased" /\ ~full[r]
    /\ pc[r] \in {"stage", "spawn"} => dir[r] = "leased"

\* The run is nobody's: its install is past it, and nothing of its build lives.
Ownerless(r) == alive[r] = {} /\ Relinquished(r)

\* What has been granted to a probe or a removal is nobody's, and for good.
GrantInv ==
  /\ \A q \in Cleaners :
       /\ pc[q] = "probe" => pc[hand[q]] \notin Early
       /\ pc[q] \in {"shared"} \cup Taking => Ownerless(hand[q])
       /\ \A r \in Runs : r \in cand[q] \/ outcome[q][r] # "none" => Ownerless(r)
  /\ \A a \in Actors : pc[a] \in Removing => Ownerless(Hand(a))

\* The lease goes last, so a run without one is empty, and what clean says of a
\* run stays so.
EmptyInv ==
  /\ \A a \in Actors : pc[a] \in {"unlink", "rmdir"} => ~full[Hand(a)]
  /\ PayloadVisible /\ SummaryTrue

IInv ==
  /\ TypeOK /\ StepInv /\ LeaseInv /\ ScratchInv /\ BirthInv /\ GrantInv /\ EmptyInv

=============================================================================
