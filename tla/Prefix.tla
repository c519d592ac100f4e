------------------------------- MODULE Prefix -------------------------------
(***************************************************************************)
(* One installation prefix: the files under <prefix>/bin, the manifest     *)
(* that says which crate owns them, the state lock, and the cargo-lbin     *)
(* processes (command line or interface workers) that install, reinstall,  *)
(* update, downgrade, remove, pin and verify crates there at the same      *)
(* time.  A process loads the manifest into memory, works, and commits it  *)
(* crate by crate; any step may fail, any process may be killed, and other *)
(* programs may drop files of their own into bin/.                         *)
(***************************************************************************)
EXTENDS Naturals, FiniteSets

CONSTANTS
  Crates,         \* crate names
  Bins,           \* file names under <prefix>/bin
  Procs,          \* cargo-lbin processes
  MaxVersion,     \* bound: releases are numbered 1..MaxVersion, oldest first
  Provides,       \* Provides[c][v]: the binaries release v of crate c installs
  Menu,           \* Menu[p]: the commands people run as p
  LockedChoices,  \* the values of --locked a person may ask for
  NoProc, NoEntry, NoCrate,  \* sentinels
  Absent, Foreign            \* no file; a file lbin did not place

Versions == 1 .. MaxVersion

Builders  == {"install", "reinstall", "reinstallAll", "update", "downgrade"}
Planned   == {"reinstallAll", "update", "downgrade"}
Pinners   == {"pin", "unpin"}
Verbs     == Builders \cup Pinners \cup {"remove", "verify"}

\* Every release has a set of binaries, possibly none (a library).
ASSUME PrefixAssumption ==
  /\ MaxVersion \in Nat \ {0}
  /\ Provides \in [Crates -> [Versions -> SUBSET Bins]]
  /\ Menu \in [Procs -> SUBSET Verbs]
  /\ LockedChoices \subseteq BOOLEAN
  /\ NoProc \notin Procs
  /\ NoCrate \notin Crates

\* A manifest entry (manifest.rs Entry).
Entries == [version : Versions, bins : (SUBSET Bins) \ {{}},
            locked : BOOLEAN, pinned : BOOLEAN]

\* A file cargo-lbin placed: which release of which crate its bytes are.
Files == [crate : Crates, version : Versions]

ASSUME SentinelAssumption ==
  /\ NoEntry \notin Entries
  /\ Absent \notin Files /\ Foreign \notin Files /\ Absent # Foreign

Manifests == [Crates -> Entries \cup {NoEntry}]

VARIABLES
  \* the prefix
  lockEx,      \* holder of the exclusive state lock, or NoProc
  readers,     \* holders of the shared state lock
  lockExists,  \* has the lock file been created yet?
  manifest,    \* the manifest on disk
  disk,        \* what stands under each name of bin/
  newest,      \* the registry: the newest release of each crate
  \* history, for the properties only
  torn,        \* crates an unfinished operation has left half written
  orphaned,    \* names an unfinished operation could not clean up
  late,        \* names other programs took after the collision check of the
               \* member in hand, before its last placement
  \* the processes
  pc, verb,    \* where each process is, and the command it runs
  want,        \* the version asked for per crate, 0 for "the newest"
  lk,          \* the --locked it was asked for
  snap,        \* the manifest its plan was made from
  mem,         \* its manifest in memory
  todo,        \* members of the batch still to do
  cur,         \* the member in hand
  new,         \* the entry to be committed for it
  left,        \* files still to place or to remove
  placed,      \* RollbackSet: new names placed so far
  bad          \* verify: crates found with a missing binary

lockVars  == <<lockEx, readers, lockExists>>
ghosts    == <<torn, orphaned, late>>
request   == <<verb, want, lk, snap>>
member    == <<cur, new, left, placed>>
vars == <<lockVars, manifest, disk, newest, ghosts, pc, request, mem, todo,
          member, bad>>

\* The steps a process takes with the exclusive lock in hand.
Locked == {"gate", "pick", "build", "door", "place", "obsolete", "rollback",
           "rm", "pin"}
Steps  == {"idle", "plan", "confirm", "read", "audit"} \cup Locked

-----------------------------------------------------------------------------
(* The manifest as data.                                                   *)

Installed(m) == {c \in Crates : m[c] # NoEntry}
Pinned(m, c) == m[c] # NoEntry /\ m[c].pinned
BinsOf(m, c) == IF m[c] = NoEntry THEN {} ELSE m[c].bins
Claimed(m)   == UNION {BinsOf(m, c) : c \in Crates}

\* Manifest::validate, the part that is not about spelling: ownership of a
\* binary is a function.
Valid(m) == \A c, d \in Crates : c # d => BinsOf(m, c) \cap BinsOf(m, d) = {}

\* Mutants of check_collisions: any owner taken for this crate, and the manifest
\* alone.
AnyOwner(m, c, bins) == \A b \in bins \ Claimed(m) : disk[b] = Absent
ClaimsOnly(m, c, bins) ==
  \A b \in bins \ BinsOf(m, c) : \A d \in Crates \ {c} : b \notin BinsOf(m, d)

\* check_collisions: a destination belongs to this crate, or it is free and no
\* other crate claims it.
NoCollision(m, c, bins) ==
  \A b \in bins \ BinsOf(m, c) :
    /\ \A d \in Crates \ {c} : b \notin BinsOf(m, d)
    /\ disk[b] = Absent

\* Mutant: the difference taken the wrong way round.
Introduced(old, bins) == bins \ old

\* obsolete_bins; newly_introduced_bins is the same difference, swapped.
Obsolete(old, bins) == old \ bins

-----------------------------------------------------------------------------
(* What each command plans, and what it builds for one member.             *)

\* The version handed to `cargo install`; 0 asks for no version in particular.
Request(p, c) ==
  CASE verb[p] \in {"install", "downgrade"} -> want[p][c]
    [] verb[p] = "update" -> 0
    [] OTHER -> snap[p][c].version

\* The --locked the build runs with: install takes the person's, a rebuild the
\* plan's, update and downgrade the fresh entry's.
LockedFor(p, c) ==
  CASE verb[p] = "install" -> lk[p]
    [] verb[p] \in {"update", "downgrade"} -> mem[p][c].locked
    [] OTHER -> snap[p][c].locked

\* PinPolicy: Exactly(plan) for a rebuild, otherwise Infer - an exact version
\* pins, and a pin already present is carried.
PinFor(p, c) ==
  IF verb[p] \in {"reinstall", "reinstallAll"}
  THEN snap[p][c].pinned
  ELSE Request(p, c) # 0 \/ Pinned(mem[p], c)

\* Mutants: a batch that does not look at the pin again, or not at anything but
\* the version.
Rechecked == {"update", "reinstallAll"}
StillThere(p, c) == verb[p] \in Rechecked => mem[p][c] # NoEntry
SameVersion(p, c) ==
  verb[p] \in Rechecked =>
    mem[p][c] # NoEntry /\ mem[p][c].version = snap[p][c].version

\* The confirmed plan still describes the entry (apply_updates,
\* apply_reinstalls); the other commands have nothing to recheck per member.
StillPlanned(p, c) ==
  CASE verb[p] = "update" ->
         /\ mem[p][c] # NoEntry
         /\ mem[p][c].version = snap[p][c].version
         /\ ~mem[p][c].pinned
    [] verb[p] = "reinstallAll" ->
         /\ mem[p][c] # NoEntry
         /\ mem[p][c].version = snap[p][c].version
         /\ mem[p][c].pinned = snap[p][c].pinned
         /\ mem[p][c].locked = snap[p][c].locked
    [] OTHER -> TRUE

\* refuse_diagonal: the entry already is what the request would build.
Diagonal(p, c) ==
  /\ manifest[c] # NoEntry
  /\ manifest[c].locked = lk[p]
  /\ manifest[c].version = IF want[p][c] = 0 THEN newest[c] ELSE want[p][c]

\* The gates run on the freshly loaded manifest, before the first build, over
\* the whole batch.
Admitted(p) ==
  CASE verb[p] = "install" ->
         \A c \in todo[p] : ~Pinned(manifest, c) /\ ~Diagonal(p, c)
    [] verb[p] \in Pinners \cup {"reinstall"} -> todo[p] \subseteq Installed(manifest)
    [] verb[p] = "downgrade" ->
         \A c \in todo[p] : /\ manifest[c] # NoEntry
                            /\ manifest[c].version = snap[p][c].version
                            /\ ~manifest[c].pinned
    [] OTHER -> TRUE

-----------------------------------------------------------------------------
NoManifest == [c \in Crates |-> NoEntry]
NoVersions == [c \in Crates |-> 0]
NoNew == [version |-> 1, bins |-> Bins, locked |-> FALSE, pinned |-> FALSE]

Init ==
  /\ lockEx = NoProc /\ readers = {} /\ lockExists = FALSE
  /\ manifest = NoManifest
  /\ disk \in [Bins -> {Absent, Foreign}]
  /\ newest = [c \in Crates |-> 1]
  /\ torn = {} /\ orphaned = {} /\ late = {}
  /\ pc = [p \in Procs |-> "idle"]
  /\ verb = [p \in Procs |-> "verify"]
  /\ want = [p \in Procs |-> NoVersions]
  /\ lk = [p \in Procs |-> FALSE]
  /\ snap = [p \in Procs |-> NoManifest]
  /\ mem = [p \in Procs |-> NoManifest]
  /\ todo = [p \in Procs |-> {}]
  /\ cur = [p \in Procs |-> NoCrate]
  /\ new = [p \in Procs |-> NoNew]
  /\ left = [p \in Procs |-> {}]
  /\ placed = [p \in Procs |-> {}]
  /\ bad = [p \in Procs |-> {}]

Goto(p, step) == pc' = [pc EXCEPT ![p] = step]

\* The process is over: nothing of its memory remains.
Exit(p) ==
  /\ Goto(p, "idle")
  /\ verb' = [verb EXCEPT ![p] = "verify"]
  /\ want' = [want EXCEPT ![p] = NoVersions]
  /\ lk' = [lk EXCEPT ![p] = FALSE]
  /\ snap' = [snap EXCEPT ![p] = NoManifest]
  /\ mem' = [mem EXCEPT ![p] = NoManifest]
  /\ todo' = [todo EXCEPT ![p] = {}]
  /\ cur' = [cur EXCEPT ![p] = NoCrate]
  /\ new' = [new EXCEPT ![p] = NoNew]
  /\ left' = [left EXCEPT ![p] = {}]
  /\ placed' = [placed EXCEPT ![p] = {}]
  /\ bad' = [bad EXCEPT ![p] = {}]

\* The flock of a process that ends, in whatever way, is released.
Unlock(p) ==
  /\ lockEx' = IF lockEx = p THEN NoProc ELSE lockEx
  /\ readers' = readers \ {p}
  /\ UNCHANGED lockExists

-----------------------------------------------------------------------------
(* Starting a command, planning it, and taking the lock.                   *)

\* StateLock::acquire(Exclusive): it waits for the holder and the readers, and
\* the first one creates the lock file.
TakeLock(p) ==
  /\ lockEx = NoProc /\ readers = {}
  /\ lockEx' = p
  /\ lockExists' = TRUE
  /\ Goto(p, "gate")
  /\ UNCHANGED readers

\* install / reinstall / remove / pin / unpin NAMES go straight to the lock; what
\* they were asked is fixed when they get it.
StartDirect(p) ==
  /\ pc[p] = "idle"
  /\ \E v \in Menu[p] \ (Planned \cup {"verify"}), S \in (SUBSET Crates) \ {{}} :
       /\ verb' = [verb EXCEPT ![p] = v]
       /\ todo' = [todo EXCEPT ![p] = S]
       /\ IF v = "install"
          THEN /\ \E w \in [Crates -> 0 .. MaxVersion] :
                    /\ \A c \in Crates \ S : w[c] = 0
                    /\ want' = [want EXCEPT ![p] = w]
               /\ \E l \in LockedChoices : lk' = [lk EXCEPT ![p] = l]
          ELSE UNCHANGED <<want, lk>>
  /\ TakeLock(p)
  /\ UNCHANGED <<manifest, disk, newest, ghosts, snap, mem, member, bad>>

\* update / downgrade / reinstall --all / verify begin by reading.
StartReading(p) ==
  /\ pc[p] = "idle"
  /\ \E v \in Menu[p] \cap (Planned \cup {"verify"}) :
       /\ verb' = [verb EXCEPT ![p] = v]
       /\ Goto(p, IF v = "verify" THEN "read" ELSE "plan")
  /\ UNCHANGED <<lockVars, manifest, disk, newest, ghosts, want, lk, snap, mem,
                 todo, member, bad>>

\* The plan: the manifest under the shared lock, which is given back before
\* the registry is asked and the person reads the answer.  A reader of a prefix
\* whose lock file cannot be created proceeds without one.
Plan(p) ==
  /\ pc[p] = "plan"
  /\ lockEx = NoProc \/ ~lockExists
  /\ lockExists' \in {lockExists, TRUE}
  /\ \E S \in (SUBSET Installed(manifest)) \ {{}} :
       /\ todo' = [todo EXCEPT ![p] = S]
       /\ snap' = [snap EXCEPT ![p] =
                    [c \in Crates |-> IF c \in S THEN manifest[c] ELSE NoEntry]]
       /\ \/ /\ verb[p] = "update"
             /\ \A c \in S : ~Pinned(manifest, c) /\ newest[c] > manifest[c].version
             /\ UNCHANGED want
          \/ /\ verb[p] = "reinstallAll"
             /\ S = Installed(manifest)
             /\ UNCHANGED want
          \/ /\ verb[p] = "downgrade"
             /\ \E c \in S, v \in Versions :
                  /\ S = {c} /\ ~manifest[c].pinned /\ v < manifest[c].version
                  /\ want' = [want EXCEPT ![p][c] = v]
  /\ Goto(p, "confirm")
  /\ UNCHANGED <<lockEx, readers, manifest, disk, newest, ghosts, verb, lk, mem,
                 member, bad>>

\* Nothing to do, a refusal at planning, or a "no" at the prompt.
Decline(p) ==
  /\ pc[p] \in {"plan", "confirm"}
  /\ Exit(p)
  /\ UNCHANGED <<lockVars, manifest, disk, newest, ghosts>>

\* The person agrees to the plan as it was shown, and the lock is taken.
Confirm(p) ==
  /\ pc[p] = "confirm"
  /\ TakeLock(p)
  /\ UNCHANGED <<manifest, disk, newest, ghosts, request, mem, todo, member, bad>>

\* Mutant: the batch works on the manifest its plan was made from.
GateOnSnapshot(p) ==
  /\ pc[p] = "gate"
  /\ IF Admitted(p)
     THEN /\ mem' = [mem EXCEPT ![p] = IF verb[p] = "update" THEN snap[p] ELSE manifest]
          /\ snap' = IF verb[p] = "reinstall" THEN [snap EXCEPT ![p] = manifest]
                     ELSE snap
          /\ Goto(p, IF verb[p] \in Pinners THEN "pin" ELSE "pick")
          /\ UNCHANGED <<lockVars, verb, want, lk, todo, member, bad>>
     ELSE Exit(p) /\ Unlock(p)
  /\ UNCHANGED <<manifest, disk, newest, ghosts>>

\* The manifest is loaded under the lock and the whole batch is admitted or
\* refused against it; reinstall resolves its plans from the same read.
Gate(p) ==
  /\ pc[p] = "gate"
  /\ IF Admitted(p)
     THEN /\ mem' = [mem EXCEPT ![p] = manifest]
          /\ snap' = IF verb[p] = "reinstall" THEN [snap EXCEPT ![p] = manifest]
                     ELSE snap
          /\ Goto(p, IF verb[p] \in Pinners THEN "pin" ELSE "pick")
          /\ UNCHANGED <<lockVars, verb, want, lk, todo, member, bad>>
     ELSE Exit(p) /\ Unlock(p)
  /\ UNCHANGED <<manifest, disk, newest, ghosts>>

-----------------------------------------------------------------------------
(* Building and placing one member (install_and_commit).                   *)

\* Mutant: a member is picked without being taken off the list.
PickAgain(p) ==
  /\ pc[p] = "pick" /\ verb[p] \in Builders
  /\ \E c \in todo[p] : cur' = [cur EXCEPT ![p] = c]
  /\ Goto(p, "build")
  /\ UNCHANGED <<lockVars, manifest, disk, newest, ghosts, request, mem, todo, new,
                 left, placed, bad>>

\* The next member of the batch, if the plan still holds for it; otherwise it
\* is skipped and the batch goes on.
Pick(p) ==
  /\ pc[p] = "pick" /\ verb[p] \in Builders
  /\ \E c \in todo[p] :
       /\ todo' = [todo EXCEPT ![p] = @ \ {c}]
       /\ IF StillPlanned(p, c)
          THEN /\ cur' = [cur EXCEPT ![p] = c]
               /\ Goto(p, "build")
          ELSE UNCHANGED <<cur, pc>>
  /\ UNCHANGED <<lockVars, manifest, disk, newest, ghosts, request, mem, new,
                 left, placed, bad>>

\* The batch is done, or its remainder was cancelled (BatchControl); the lock is
\* dropped.
Finish(p) ==
  /\ pc[p] = "pick"
  /\ Exit(p) /\ Unlock(p)
  /\ UNCHANGED <<manifest, disk, newest, ghosts>>

\* validate_bin_list: a crate that provides no binaries is not installed.
SoundBins(bins) == bins # {}

\* cargo builds into the stage; the stage's version must be the one asked for
\* and hold binaries, no destination may collide, and the entry to commit is
\* settled: version and bins from the stage, the pin against the entry as it
\* still is.
Build(p) ==
  /\ pc[p] = "build"
  /\ LET c == cur[p]
         v == IF Request(p, c) = 0 THEN newest[c] ELSE Request(p, c)
     IN /\ v <= newest[c] /\ SoundBins(Provides[c][v])
        /\ NoCollision(mem[p], c, Provides[c][v])
        /\ new' = [new EXCEPT ![p] = [version |-> v, bins |-> Provides[c][v],
                                      locked |-> LockedFor(p, c),
                                      pinned |-> PinFor(p, c)]]
  /\ Goto(p, "door")
  /\ UNCHANGED <<lockVars, manifest, disk, newest, ghosts, request, mem, todo,
                 cur, left, placed, bad>>

\* On to the next member of the batch.
NextMember(p) ==
  /\ Goto(p, "pick")
  /\ cur' = [cur EXCEPT ![p] = NoCrate]
  /\ new' = [new EXCEPT ![p] = NoNew]
  /\ left' = [left EXCEPT ![p] = {}]
  /\ placed' = [placed EXCEPT ![p] = {}]
  /\ late' = {}

\* The build failed, a destination collided, or the door refused: nothing was
\* placed, and the batch goes on with the next member.
Miss(p) ==
  /\ pc[p] \in {"build", "door"}
  /\ NextMember(p)
  /\ UNCHANGED <<lockVars, manifest, disk, newest, torn, orphaned, request, mem,
                 todo, bad>>

\* The placement door opens (credentials collected, not cancelled): the
\* rollback set starts empty.
Door(p) ==
  /\ pc[p] = "door"
  /\ left' = [left EXCEPT ![p] = new[p].bins]
  /\ placed' = [placed EXCEPT ![p] = {}]
  /\ Goto(p, "place")
  /\ UNCHANGED <<lockVars, manifest, disk, newest, ghosts, request, mem, todo,
                 cur, new, bad>>

\* install_verified and note_placed: a rename over the destination; only names
\* the old entry did not have become rollback state.
Place(p) ==
  /\ pc[p] = "place"
  /\ \E b \in left[p] :
       /\ disk' = [disk EXCEPT ![b] = [crate |-> cur[p], version |-> new[p].version]]
       /\ left' = [left EXCEPT ![p] = @ \ {b}]
       /\ IF b \in BinsOf(mem[p], cur[p])
          THEN torn' = torn \cup {cur[p]} /\ UNCHANGED placed
          ELSE placed' = [placed EXCEPT ![p] = @ \cup {b}] /\ UNCHANGED torn
  /\ UNCHANGED <<lockVars, manifest, newest, orphaned, late, pc, request, mem, todo,
                 cur, new, bad>>

\* Everything is placed; the names the old entry had and the new one has not
\* are to go.
Placed(p) ==
  /\ pc[p] = "place" /\ left[p] = {}
  /\ left' = [left EXCEPT ![p] = Obsolete(BinsOf(mem[p], cur[p]), new[p].bins)]
  /\ Goto(p, "obsolete")
  /\ UNCHANGED <<lockVars, manifest, disk, newest, ghosts, request, mem, todo,
                 cur, new, placed, bad>>

\* `rm -f` of the files on the list, one by one: the obsolete binaries of an
\* update, or all the binaries of a removal.
RemoveFile(p) ==
  /\ pc[p] \in {"obsolete", "rm"}
  /\ \E b \in left[p] :
       /\ disk' = [disk EXCEPT ![b] = Absent]
       /\ left' = [left EXCEPT ![p] = @ \ {b}]
  /\ torn' = torn \cup {cur[p]}
  /\ UNCHANGED <<lockVars, manifest, newest, orphaned, late, pc, request, mem, todo,
                 cur, new, placed, bad>>

\* commit_entry: insert the entry, validate, store.
Commit(p) ==
  /\ pc[p] = "obsolete" /\ left[p] = {}
  /\ LET m == [mem[p] EXCEPT ![cur[p]] = new[p]]
     IN /\ Valid(m)
        /\ mem' = [mem EXCEPT ![p] = m]
        /\ manifest' = m
  /\ torn' = torn \ {cur[p]}
  /\ NextMember(p)
  /\ UNCHANGED <<lockVars, disk, newest, orphaned, request, todo, bad>>

\* Mutants: the entry stays in memory after a failed store; a failure after the
\* last placement rolls nothing back.
FailUnrestored(p) ==
  /\ pc[p] = "obsolete" /\ left[p] = {}
  /\ left' = [left EXCEPT ![p] = placed[p]]
  /\ mem' = [mem EXCEPT ![p][cur[p]] = new[p]]
  /\ Goto(p, "rollback")
  /\ UNCHANGED <<lockVars, manifest, disk, newest, ghosts, request, todo, cur, new,
                 placed, bad>>

FailWithoutRollback(p) ==
  /\ pc[p] \in {"place", "obsolete"}
  /\ left' = [left EXCEPT ![p] = IF pc[p] = "place" THEN placed[p] ELSE {}]
  /\ Goto(p, "rollback")
  /\ UNCHANGED <<lockVars, manifest, disk, newest, ghosts, request, mem, todo,
                 cur, new, placed, bad>>

\* A placement, a removal or the store failed: the entry in memory is again
\* the one on disk, and what was newly placed is to be rolled back.
Fail(p) ==
  /\ pc[p] \in {"place", "obsolete"}
  /\ left' = [left EXCEPT ![p] = placed[p]]
  /\ Goto(p, "rollback")
  /\ UNCHANGED <<lockVars, manifest, disk, newest, ghosts, request, mem, todo,
                 cur, new, placed, bad>>

\* rollback_new_bins: file by file, as far as it goes; a survivor is named to
\* the person and stays behind.
Rollback(p) ==
  /\ pc[p] = "rollback"
  /\ \E b \in left[p] :
       /\ left' = [left EXCEPT ![p] = @ \ {b}]
       /\ \/ disk' = [disk EXCEPT ![b] = Absent] /\ UNCHANGED orphaned
          \/ orphaned' = orphaned \cup {b} /\ UNCHANGED disk
  /\ UNCHANGED <<lockVars, manifest, newest, torn, late, pc, request, mem, todo, cur,
                 new, placed, bad>>

\* The failed member is reported and the batch goes on.
RolledBack(p) ==
  /\ pc[p] = "rollback" /\ left[p] = {}
  /\ NextMember(p)
  /\ UNCHANGED <<lockVars, manifest, disk, newest, torn, orphaned, request, mem,
                 todo, bad>>

-----------------------------------------------------------------------------
(* Removing, pinning, releasing.                                           *)

\* cmd_remove: the entry leaves the manifest in memory, then its files are
\* removed; a name that is not installed is skipped.
PickRemoval(p) ==
  /\ pc[p] = "pick" /\ verb[p] = "remove"
  /\ \E c \in todo[p] :
       /\ todo' = [todo EXCEPT ![p] = @ \ {c}]
       /\ IF c \in Installed(mem[p])
          THEN /\ cur' = [cur EXCEPT ![p] = c]
               /\ left' = [left EXCEPT ![p] = BinsOf(mem[p], c)]
               /\ mem' = [mem EXCEPT ![p][c] = NoEntry]
               /\ Goto(p, "rm")
          ELSE UNCHANGED <<cur, left, mem, pc>>
  /\ UNCHANGED <<lockVars, manifest, disk, newest, ghosts, request, new, placed,
                 bad>>

\* The removal is committed once every file of the crate is gone.
CommitRemoval(p) ==
  /\ pc[p] = "rm" /\ left[p] = {}
  /\ Valid(mem[p])
  /\ manifest' = mem[p]
  /\ torn' = torn \ {cur[p]}
  /\ NextMember(p)
  /\ UNCHANGED <<lockVars, disk, newest, orphaned, request, mem, todo, bad>>

\* A file that cannot be removed, or a failed store, ends the whole command.
FailRemoval(p) ==
  /\ pc[p] = "rm"
  /\ Exit(p) /\ Unlock(p)
  /\ UNCHANGED <<manifest, disk, newest, ghosts>>

\* cmd_set_pinned: every named entry that differs, in one store, which may fail.
SetPinned(p) ==
  /\ pc[p] = "pin"
  /\ LET bit == verb[p] = "pin"
         m == [c \in Crates |-> IF c \in todo[p]
                                THEN [mem[p][c] EXCEPT !.pinned = bit]
                                ELSE mem[p][c]]
     IN \/ Valid(m) /\ manifest' = m
        \/ UNCHANGED manifest
  /\ Exit(p) /\ Unlock(p)
  /\ UNCHANGED <<disk, newest, ghosts>>

-----------------------------------------------------------------------------
(* verify: a reader that compares the manifest with the disk.              *)

\* Mutant: verify reads without waiting for the writer.
ReadThrough(p) ==
  /\ pc[p] = "read"
  /\ readers' = readers \cup {p}
  /\ mem' = [mem EXCEPT ![p] = manifest]
  /\ todo' = [todo EXCEPT ![p] = Installed(manifest)]
  /\ Goto(p, "audit")
  /\ UNCHANGED <<lockEx, lockExists, manifest, disk, newest, ghosts, request,
                 member, bad>>

\* acquire_shared_existing: shared where the lock file exists, lockless where
\* it does not - verify never creates it.
Read(p) ==
  /\ pc[p] = "read"
  /\ \/ lockExists /\ lockEx = NoProc /\ readers' = readers \cup {p}
     \/ ~lockExists /\ UNCHANGED readers
  /\ mem' = [mem EXCEPT ![p] = manifest]
  /\ todo' = [todo EXCEPT ![p] = Installed(manifest)]
  /\ Goto(p, "audit")
  /\ UNCHANGED <<lockEx, lockExists, manifest, disk, newest, ghosts, request,
                 member, bad>>

Missing(m, c) == \E b \in BinsOf(m, c) : disk[b] = Absent

\* verify_entries, one crate at a time: every managed binary must be there.
Audit(p) ==
  /\ pc[p] = "audit"
  /\ \E c \in todo[p] :
       /\ todo' = [todo EXCEPT ![p] = @ \ {c}]
       /\ bad' = [bad EXCEPT ![p] = IF Missing(mem[p], c) THEN @ \cup {c} ELSE @]
  /\ UNCHANGED <<lockVars, manifest, disk, newest, ghosts, pc, request, mem,
                 member>>

Audited(p) ==
  /\ pc[p] = "audit" /\ todo[p] = {}
  /\ Exit(p) /\ Unlock(p)
  /\ UNCHANGED <<manifest, disk, newest, ghosts>>

-----------------------------------------------------------------------------
(* The rest of the world.                                                  *)

\* A process is killed, at any point; the kernel drops its locks.
Crash(p) ==
  /\ pc[p] # "idle"
  /\ Exit(p) /\ Unlock(p)
  /\ orphaned' = orphaned \cup
       (CASE pc[p] \in {"place", "obsolete"} -> placed[p]
          [] pc[p] = "rollback" -> left[p]
          [] OTHER -> {})
  /\ late' = IF lockEx = p THEN {} ELSE late
  /\ UNCHANGED <<manifest, disk, newest, torn>>

\* The registry publishes a release.
Publish(c) ==
  /\ newest[c] < MaxVersion
  /\ newest' = [newest EXCEPT ![c] = @ + 1]
  /\ UNCHANGED <<lockVars, manifest, disk, ghosts, pc, request, mem, todo, member,
                 bad>>

\* Another program creates a file under a free name no crate claims; it knows of
\* no lock.
ForeignFile(b) ==
  /\ disk[b] = Absent
  /\ b \notin Claimed(manifest)
  /\ disk' = [disk EXCEPT ![b] = Foreign]
  /\ late' = IF \E p \in Procs : pc[p] \in {"door", "place"}
             THEN late \cup {b} ELSE late
  /\ UNCHANGED <<lockVars, manifest, newest, torn, orphaned, pc, request, mem, todo,
                 member, bad>>

\* The person removes a leftover, as the warning asked.
CleanLeftover(b) ==
  /\ b \in orphaned
  /\ lockEx = NoProc
  /\ orphaned' = orphaned \ {b}
  /\ disk' = IF disk[b] # Foreign /\ b \notin Claimed(manifest)
             THEN [disk EXCEPT ![b] = Absent] ELSE disk
  /\ UNCHANGED <<lockVars, manifest, newest, torn, late, pc, request, mem, todo,
                 member, bad>>

\* The steps a process takes once it has been told what to do.
Work(p) ==
  \/ Gate(p) \/ Pick(p) \/ Finish(p) \/ Build(p) \/ Miss(p) \/ Door(p)
  \/ Place(p) \/ Placed(p) \/ RemoveFile(p) \/ Commit(p) \/ Fail(p)
  \/ Rollback(p) \/ RolledBack(p) \/ PickRemoval(p) \/ CommitRemoval(p)
  \/ FailRemoval(p) \/ SetPinned(p) \/ Audit(p) \/ Audited(p)

Proc(p) ==
  \/ StartDirect(p) \/ StartReading(p) \/ Plan(p) \/ Decline(p) \/ Confirm(p)
  \/ Read(p) \/ Work(p) \/ Crash(p)

World ==
  \/ \E c \in Crates : Publish(c)
  \/ \E b \in Bins : ForeignFile(b) \/ CleanLeftover(b)

Next == (\E p \in Procs : Proc(p)) \/ World

Spec == Init /\ [][Next]_vars

=============================================================================
