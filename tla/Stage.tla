-------------------------------- MODULE Stage --------------------------------
(***************************************************************************)
(* The stage directories under the cache, shared by every cargo-lbin of a  *)
(* person whatever prefix it works on.  An install creates a run directory *)
(* and a lease in it, an flock that cargo and everything cargo starts      *)
(* inherit; `verify` probes the leases to name the runs nobody owns, and   *)
(* `clean` takes them and removes the runs.  Nobody else serializes these  *)
(* processes: an install may be killed while its cargo goes on, two cleans *)
(* may meet, and any file operation may fail.  The private TMPDIR of the   *)
(* build follows the same protocol with a lock of its own.                 *)
(***************************************************************************)
EXTENDS Naturals, FiniteSets

CONSTANTS
  Runs,        \* one install each: its process, its run directory
  Cleaners,    \* processes running `clean` or `verify`
  Cargo,       \* the cargo a build spawns
  Descendants, \* what cargo (or a sudo at placement) leaves behind
  Nobody, NoRun

Actors == Runs \cup Cleaners
Family == {Cargo} \cup Descendants

ASSUME StageAssumption ==
  /\ Runs \cap Cleaners = {} /\ Cargo \notin Descendants
  /\ Family \cap Actors = {} /\ Nobody \notin Actors /\ NoRun \notin Runs

VARIABLES
  \* a run on disk
  dir,      \* the run directory: not there, without a lease, or wearing one
  full,     \* does it hold anything but the lease?
  \* the flock on the inode of its lease
  lease,    \* who holds the creator's descriptor
  ex,       \* the remover holding it, through a descriptor of its own
  sh,       \* the probes holding it shared
  \* the build's TMPDIR and the flock on its .writers file
  tmp, writers,
  \* the processes
  alive,    \* what a run's build has started and is still running
  pc,       \* where each install, clean or verify is
  hand,     \* the run a cleaner is at
  list,     \* what its directory scan found and it has not probed yet
  cand,     \* the runs it found ownerless
  outcome,  \* what clean says of each run
  \* history
  mishap    \* runs on which a file operation has failed

onDisk == <<dir, full>>
locks  == <<lease, ex, sh>>
scratch == <<tmp, writers>>
clean  == <<hand, list, cand, outcome>>
vars == <<onDisk, locks, scratch, alive, pc, clean, mishap>>

Removing == {"payload", "unlink", "rmdir"}
Taking   == {"open", "lock"} \cup Removing
Working  == {"prepare", "publish", "stage", "spawn", "wait", "untmp", "rmtmp",
             "judge", "place", "release"}
Steps    == {"idle", "over", "scan", "probe", "shared", "clean"} \cup Taking \cup Working
Outcomes == {"none", "removed", "deferred", "gone", "failed"}

\* The run an actor is at: an install has its own.
Hand(a) == IF a \in Runs THEN a ELSE hand[a]

\* flock: nobody holds it exclusively; nobody holds it at all.
ShFree(r) == lease[r] = {} /\ ex[r] = Nobody
ExFree(r) == ShFree(r) /\ sh[r] = {}

Goto(a, step) == pc' = [pc EXCEPT ![a] = step]
Mishap(r) == mishap' = mishap \cup {r}

Init ==
  /\ dir = [r \in Runs |-> "none"] /\ full = [r \in Runs |-> FALSE]
  /\ lease = [r \in Runs |-> {}] /\ ex = [r \in Runs |-> Nobody]
  /\ sh = [r \in Runs |-> {}]
  /\ tmp = [r \in Runs |-> FALSE] /\ writers = [r \in Runs |-> {}]
  /\ alive = [r \in Runs |-> {}]
  /\ pc = [a \in Actors |-> "idle"]
  /\ hand = [q \in Cleaners |-> NoRun]
  /\ list = [q \in Cleaners |-> {}] /\ cand = [q \in Cleaners |-> {}]
  /\ outcome = [q \in Cleaners |-> [r \in Runs |-> "none"]]
  /\ mishap = {}

-----------------------------------------------------------------------------
(* An install: Lease::acquire.                                             *)

\* create_dir: the name is fresh.
MakeDir(r) ==
  /\ pc[r] = "idle"
  /\ dir' = [dir EXCEPT ![r] = "bare"]
  /\ Goto(r, "prepare")
  /\ UNCHANGED <<full, locks, scratch, alive, clean, mishap>>

\* Mutant: the file gets its final name at once, and its lock later.
PrepareInSight(r) ==
  /\ pc[r] = "prepare"
  /\ dir' = [dir EXCEPT ![r] = "leased"]
  /\ Goto(r, "publish")
  /\ UNCHANGED <<full, locks, scratch, alive, clean, mishap>>

\* Create .lease.pending, lock it, let children inherit it.
Prepare(r) ==
  /\ pc[r] = "prepare"
  /\ lease' = [lease EXCEPT ![r] = {r}]
  /\ Goto(r, "publish")
  /\ UNCHANGED <<onDisk, ex, sh, scratch, alive, clean, mishap>>

\* The rename to .lease: from its first instant it is held.
Publish(r) ==
  /\ pc[r] = "publish"
  /\ dir' = [dir EXCEPT ![r] = "leased"]
  /\ lease' = [lease EXCEPT ![r] = {r}]
  /\ Goto(r, "stage")
  /\ UNCHANGED <<full, ex, sh, scratch, alive, clean, mishap>>

\* Any handled error on the way: UnpublishedRun takes the directory away again,
\* if it can.
Demolish(r) ==
  /\ pc[r] \in {"prepare", "publish"}
  /\ lease' = [lease EXCEPT ![r] = @ \ {r}]
  /\ \E gone \in {"none", "bare"} : dir' = [dir EXCEPT ![r] = gone]
  /\ Goto(r, "over") /\ Mishap(r)
  /\ UNCHANGED <<full, ex, sh, scratch, alive, clean>>

-----------------------------------------------------------------------------
(* The build, its TMPDIR and its processes.                                *)

\* The operation ends here and keeps its run; the creator's descriptors close.
Keep(r) ==
  /\ lease' = [lease EXCEPT ![r] = @ \ {r}]
  /\ writers' = [writers EXCEPT ![r] = @ \ {r}]
  /\ Goto(r, "over")

\* The crate's directory in the run, then BuildTmp::create.
MakeStage(r) ==
  /\ pc[r] = "stage"
  /\ full' = [full EXCEPT ![r] = TRUE]
  /\ tmp' = [tmp EXCEPT ![r] = TRUE]
  /\ writers' = [writers EXCEPT ![r] = {r}]
  /\ Goto(r, "spawn")
  /\ UNCHANGED <<dir, locks, alive, clean, mishap>>

\* One of the two fails, or cargo cannot be spawned: BuildTmp's Drop removes
\* its root, if it can, since nothing was ever spawned.
StageFails(r) ==
  /\ pc[r] \in {"stage", "spawn"}
  /\ \E made \in BOOLEAN : full' = [full EXCEPT ![r] = @ \/ made]
  /\ \E left \in BOOLEAN : tmp' = [tmp EXCEPT ![r] = left]
  /\ Keep(r) /\ Mishap(r)
  /\ UNCHANGED <<dir, ex, sh, alive, clean>>

\* Mutant: the lease is opened close-on-exec, as Rust does.
SpawnWithoutLease(r) ==
  /\ pc[r] = "spawn"
  /\ alive' = [alive EXCEPT ![r] = {Cargo}]
  /\ writers' = [writers EXCEPT ![r] = @ \cup {Cargo}]
  /\ Goto(r, "wait")
  /\ UNCHANGED <<onDisk, locks, tmp, clean, mishap>>

\* cargo inherits both locks.
Spawn(r) ==
  /\ pc[r] = "spawn"
  /\ alive' = [alive EXCEPT ![r] = {Cargo}]
  /\ lease' = [lease EXCEPT ![r] = @ \cup {Cargo}]
  /\ writers' = [writers EXCEPT ![r] = @ \cup {Cargo}]
  /\ Goto(r, "wait")
  /\ UNCHANGED <<onDisk, ex, sh, tmp, clean, mishap>>

\* A process of the build starts another one, which inherits what it holds.
Fork(r) ==
  \E k \in alive[r], d \in Descendants \ alive[r] :
    /\ alive' = [alive EXCEPT ![r] = @ \cup {d}]
    /\ lease' = [lease EXCEPT ![r] = IF k \in @ THEN @ \cup {d} ELSE @]
    /\ writers' = [writers EXCEPT ![r] = IF k \in @ THEN @ \cup {d} ELSE @]
    /\ UNCHANGED <<onDisk, ex, sh, tmp, pc, clean, mishap>>

\* One of them exits, by itself or by a signal.
ChildExits(r) ==
  \E k \in alive[r] :
    /\ alive' = [alive EXCEPT ![r] = @ \ {k}]
    /\ lease' = [lease EXCEPT ![r] = @ \ {k}]
    /\ writers' = [writers EXCEPT ![r] = @ \ {k}]
    /\ UNCHANGED <<onDisk, ex, sh, tmp, pc, clean, mishap>>

\* cargo is reaped; its descendants may live.  BuildTmp::try_remove drops the
\* creator's copy first.
Reap(r) ==
  /\ pc[r] = "wait" /\ Cargo \notin alive[r]
  /\ writers' = [writers EXCEPT ![r] = @ \ {r}]
  /\ Goto(r, "untmp")
  /\ UNCHANGED <<onDisk, locks, tmp, alive, clean, mishap>>

\* The wait itself fails, the child's state is unknown, and the run is kept.  `build`
\* leaves the TMPDIR; `build_captured` still tries, and the lock tells whether cargo
\* or a descendant is there.
WaitFails(r) ==
  /\ pc[r] = "wait"
  /\ \/ UNCHANGED tmp
     \/ writers[r] \subseteq {r} /\ tmp' = [tmp EXCEPT ![r] = FALSE]
  /\ Keep(r) /\ Mishap(r)
  /\ UNCHANGED <<onDisk, ex, sh, alive, clean>>

\* Mutant: the reap taken for the end of every writer.
ScratchGrantedByReap(r) ==
  /\ pc[r] = "untmp"
  /\ Goto(r, "rmtmp")
  /\ UNCHANGED <<onDisk, locks, scratch, alive, clean, mishap>>

\* A fresh descriptor is granted the lock: every inheritor has exited.
ScratchGranted(r) ==
  /\ pc[r] = "untmp" /\ writers[r] = {}
  /\ Goto(r, "rmtmp")
  /\ UNCHANGED <<onDisk, locks, scratch, alive, clean, mishap>>

\* Mutant: retried for as long as it takes.
VetoedNever(r) == pc[r] = "untmp" /\ writers[r] # {} /\ UNCHANGED vars

\* An inheritor outlives the two seconds the loop retries for: the root stays.
Vetoed(r) ==
  /\ pc[r] = "untmp" /\ writers[r] # {}
  /\ Goto(r, "judge")
  /\ UNCHANGED <<onDisk, locks, scratch, alive, clean, mishap>>

\* The file to be locked cannot be opened: the root stays.
ScratchUnopened(r) ==
  /\ pc[r] = "untmp"
  /\ Goto(r, "judge") /\ Mishap(r)
  /\ UNCHANGED <<onDisk, locks, scratch, alive, clean>>

\* remove_dir_all under the lock.
RemoveScratch(r) ==
  /\ pc[r] = "rmtmp"
  /\ \/ tmp' = [tmp EXCEPT ![r] = FALSE] /\ UNCHANGED mishap
     \/ UNCHANGED tmp /\ Mishap(r)
  /\ Goto(r, "judge")
  /\ UNCHANGED <<onDisk, locks, writers, alive, clean>>

\* The verdict on the build: it goes on to the placement, or it was cancelled
\* and its run is evidence of nothing, or it failed and the run is kept.
Judge(r) ==
  /\ pc[r] = "judge"
  /\ \/ Goto(r, "place") /\ UNCHANGED <<lease, writers>>
     \/ Goto(r, "release") /\ UNCHANGED <<lease, writers>>
     \/ Keep(r)
  /\ UNCHANGED <<onDisk, ex, sh, tmp, alive, clean, mishap>>

\* A helper at the placement (sudo among them) inherits the lease too.
StartHelper(r) ==
  /\ pc[r] = "place"
  /\ \E d \in Descendants \ alive[r] :
       /\ alive' = [alive EXCEPT ![r] = @ \cup {d}]
       /\ lease' = [lease EXCEPT ![r] = @ \cup {d}]
  /\ UNCHANGED <<onDisk, ex, sh, scratch, pc, clean, mishap>>

\* Committed, or cancelled at the door: the run goes.  Refused or failed
\* otherwise: it is kept.
Place(r) ==
  /\ pc[r] = "place"
  /\ \/ Goto(r, "release") /\ UNCHANGED <<lease, writers>>
     \/ Keep(r)
  /\ UNCHANGED <<onDisk, ex, sh, tmp, alive, clean, mishap>>

\* release_and_remove_run: the creator's own descriptor closes first.
Release(r) ==
  /\ pc[r] = "release"
  /\ lease' = [lease EXCEPT ![r] = @ \ {r}]
  /\ Goto(r, "open")
  /\ UNCHANGED <<onDisk, ex, sh, scratch, alive, clean, mishap>>

-----------------------------------------------------------------------------
(* Removal, the same for an install and for `clean`: take_lease_for_removal *)
(* and remove_leased_run.                                                  *)

\* Done with this run: an install ends, clean turns to its next candidate.
Done(a, what) ==
  /\ Goto(a, IF a \in Runs THEN "over" ELSE "clean")
  /\ outcome' = IF a \in Runs THEN outcome
                ELSE [outcome EXCEPT ![a][Hand(a)] = what]
  /\ UNCHANGED <<hand, list, cand>>

\* The lease is opened where it stands; none is ever created.
TakeOpen(a) ==
  /\ pc[a] = "open"
  /\ LET r == Hand(a) IN
       \/ dir[r] = "leased" /\ Goto(a, "lock") /\ UNCHANGED <<clean, mishap>>
       \/ dir[r] # "leased" /\ Done(a, "gone") /\ UNCHANGED mishap
       \/ Done(a, "failed") /\ Mishap(r)
  /\ UNCHANGED <<onDisk, locks, scratch, alive>>

\* Mutant: the probe's answer taken for the licence.
TakeLockShared(a) ==
  /\ pc[a] = "lock"
  /\ Goto(a, "payload")
  /\ UNCHANGED <<onDisk, locks, scratch, alive, clean, mishap>>

\* LOCK_EX | LOCK_NB, on whatever inode was opened.
TakeLock(a) ==
  /\ pc[a] = "lock" /\ ExFree(Hand(a))
  /\ ex' = [ex EXCEPT ![Hand(a)] = a]
  /\ Goto(a, "payload")
  /\ UNCHANGED <<onDisk, lease, sh, scratch, alive, clean, mishap>>

\* Mutant: what was left standing counted with what was removed.
TakeRefusedUnsaid(a) ==
  /\ pc[a] = "lock" /\ ~ExFree(Hand(a))
  /\ Done(a, "removed")
  /\ UNCHANGED <<onDisk, locks, scratch, alive, mishap>>

\* A writer, another remover or a passing probe holds it.
TakeRefused(a) ==
  /\ pc[a] = "lock" /\ ~ExFree(Hand(a))
  /\ Done(a, "deferred")
  /\ UNCHANGED <<onDisk, locks, scratch, alive, mishap>>

\* The remover's lock goes with its descriptor.
LetGo(a) == ex' = [ex EXCEPT ![Hand(a)] = Nobody]

\* Mutant: remove_dir_all, which may unlink the lease first and then fail.
RemoveAll(a) ==
  /\ pc[a] = "payload"
  /\ LET r == Hand(a) IN
       \/ /\ dir[r] # "none" /\ full' = [full EXCEPT ![r] = FALSE]
          /\ Goto(a, "unlink")
          /\ UNCHANGED <<dir, ex, clean, mishap>>
       \/ /\ dir[r] # "none" /\ dir' = [dir EXCEPT ![r] = "bare"]
          /\ Done(a, "failed") /\ LetGo(a) /\ Mishap(r)
          /\ UNCHANGED full
  /\ UNCHANGED <<lease, sh, scratch, alive>>

\* Everything but the lease.  The run may be gone from under the descriptor
\* that was opened: then there is nothing to walk, and that is an error.
RemovePayload(a) ==
  /\ pc[a] = "payload"
  /\ LET r == Hand(a) IN
       \/ /\ dir[r] # "none" /\ full' = [full EXCEPT ![r] = FALSE]
          /\ Goto(a, "unlink")
          /\ UNCHANGED <<ex, clean, mishap>>
       \/ /\ dir[r] = "none" /\ Done(a, "failed") /\ LetGo(a)
          /\ UNCHANGED <<full, mishap>>
       \/ Done(a, "failed") /\ LetGo(a) /\ Mishap(r) /\ UNCHANGED full
  /\ UNCHANGED <<dir, lease, sh, scratch, alive>>

\* The lease last: until here a failure leaves the run visible.
UnlinkLease(a) ==
  /\ pc[a] = "unlink"
  /\ LET r == Hand(a) IN
       \/ /\ dir[r] = "leased" /\ dir' = [dir EXCEPT ![r] = "bare"]
          /\ Goto(a, "rmdir")
          /\ UNCHANGED <<ex, clean, mishap>>
       \/ /\ dir[r] # "leased" /\ Done(a, "failed") /\ LetGo(a)
          /\ UNCHANGED <<dir, mishap>>
       \/ Done(a, "failed") /\ LetGo(a) /\ Mishap(r) /\ UNCHANGED dir
  /\ UNCHANGED <<full, lease, sh, scratch, alive>>

RemoveDir(a) ==
  /\ pc[a] = "rmdir"
  /\ LetGo(a)
  /\ LET r == Hand(a) IN
       \/ dir' = [dir EXCEPT ![r] = "none"] /\ Done(a, "removed") /\ UNCHANGED mishap
       \/ Done(a, "failed") /\ Mishap(r) /\ UNCHANGED dir
  /\ UNCHANGED <<full, lease, sh, scratch, alive>>

-----------------------------------------------------------------------------
(* The scan `verify` and `clean` share, and clean's loop.                  *)

\* read_dir: what stands in stage-v2 now.
Scan(q) ==
  /\ pc[q] = "idle"
  /\ list' = [list EXCEPT ![q] = {r \in Runs : dir[r] # "none"}]
  /\ cand' = [cand EXCEPT ![q] = {}]
  /\ outcome' = [outcome EXCEPT ![q] = [r \in Runs |-> "none"]]
  /\ Goto(q, "scan")
  /\ UNCHANGED <<onDisk, locks, scratch, alive, hand, mishap>>

\* probe_lease opens the lease; without one the run is unknown, and spared.
ProbeOpen(q) ==
  /\ pc[q] = "scan"
  /\ \E r \in list[q] :
       /\ list' = [list EXCEPT ![q] = @ \ {r}]
       /\ \/ /\ dir[r] = "leased"
             /\ hand' = [hand EXCEPT ![q] = r] /\ Goto(q, "probe")
          \/ UNCHANGED <<hand, pc>>
  /\ UNCHANGED <<onDisk, locks, scratch, alive, cand, outcome, mishap>>

\* LOCK_SH | LOCK_NB: granted, the run is ownerless; refused, it is spared.
ProbeLock(q) ==
  /\ pc[q] = "probe"
  /\ LET r == hand[q] IN
       \/ /\ ShFree(r) /\ sh' = [sh EXCEPT ![r] = @ \cup {q}]
          /\ Goto(q, "shared")
       \/ ~ShFree(r) /\ Goto(q, "scan") /\ UNCHANGED sh
  /\ UNCHANGED <<onDisk, lease, ex, scratch, alive, clean, mishap>>

\* The probe lets go at once.
ProbeClose(q) ==
  /\ pc[q] = "shared"
  /\ sh' = [sh EXCEPT ![hand[q]] = @ \ {q}]
  /\ cand' = [cand EXCEPT ![q] = @ \cup {hand[q]}]
  /\ Goto(q, "scan")
  /\ UNCHANGED <<onDisk, lease, ex, scratch, alive, hand, list, outcome, mishap>>

\* verify prints its list and ends; clean goes on to remove it.
Scanned(q) ==
  /\ pc[q] = "scan" /\ list[q] = {}
  /\ \E step \in {"idle", "clean"} : Goto(q, step)
  /\ UNCHANGED <<onDisk, locks, scratch, alive, clean, mishap>>

\* The next candidate.
NextCandidate(q) ==
  /\ pc[q] = "clean"
  /\ \E r \in cand[q] :
       /\ outcome[q][r] = "none"
       /\ hand' = [hand EXCEPT ![q] = r]
  /\ Goto(q, "open")
  /\ UNCHANGED <<onDisk, locks, scratch, alive, list, cand, outcome, mishap>>

\* clean ends with its summary.
Summarize(q) ==
  /\ pc[q] = "clean" /\ \A r \in cand[q] : outcome[q][r] # "none"
  /\ Goto(q, "idle")
  /\ UNCHANGED <<onDisk, locks, scratch, alive, clean, mishap>>

-----------------------------------------------------------------------------
\* Any of these processes is killed: its descriptors close, what it started
\* goes on.
Crash(a) ==
  /\ pc[a] \notin {"idle", "over"}
  /\ lease' = [r \in Runs |-> lease[r] \ {a}]
  /\ writers' = [r \in Runs |-> writers[r] \ {a}]
  /\ ex' = [r \in Runs |-> IF ex[r] = a THEN Nobody ELSE ex[r]]
  /\ sh' = [r \in Runs |-> sh[r] \ {a}]
  /\ Goto(a, IF a \in Runs THEN "over" ELSE "idle")
  /\ UNCHANGED <<onDisk, tmp, alive, clean, mishap>>

Install(r) ==
  \/ MakeDir(r) \/ Prepare(r) \/ Publish(r) \/ Demolish(r)
  \/ MakeStage(r) \/ StageFails(r) \/ Spawn(r) \/ Reap(r) \/ WaitFails(r)
  \/ ScratchGranted(r) \/ Vetoed(r) \/ RemoveScratch(r) \/ Judge(r)
  \/ StartHelper(r) \/ Place(r) \/ Release(r)

Removal(a) ==
  \/ TakeOpen(a) \/ TakeLock(a) \/ TakeRefused(a)
  \/ RemovePayload(a) \/ UnlinkLease(a) \/ RemoveDir(a)

Look(q) ==
  \/ Scan(q) \/ ProbeOpen(q) \/ ProbeLock(q) \/ ProbeClose(q) \/ Scanned(q)
  \/ NextCandidate(q) \/ Summarize(q)

Next ==
  \/ \E r \in Runs : Install(r) \/ ScratchUnopened(r) \/ Fork(r) \/ ChildExits(r)
  \/ \E a \in Actors : Removal(a) \/ Crash(a)
  \/ \E q \in Cleaners : Look(q)

Spec == Init /\ [][Next]_vars
=============================================================================
