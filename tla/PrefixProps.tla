----------------------------- MODULE PrefixProps ----------------------------
(***************************************************************************)
(* The properties of one prefix, stated over module Prefix.                *)
(***************************************************************************)
EXTENDS Prefix

\* What a member in hand may be: an entry, or the blank before the build.
Pending == [version : Versions, bins : SUBSET Bins, locked : BOOLEAN,
            pinned : BOOLEAN]

\* The lock, the prefix and the registry.
SharedTypeOK ==
  /\ lockEx \in Procs \cup {NoProc}
  /\ readers \subseteq Procs
  /\ lockExists \in BOOLEAN
  /\ manifest \in Manifests
  /\ disk \in [Bins -> Files \cup {Absent, Foreign}]
  /\ newest \in [Crates -> Versions]
  /\ torn \subseteq Crates /\ orphaned \subseteq Bins /\ late \subseteq Bins

\* A process's request and its memory.
CommandTypeOK ==
  /\ pc \in [Procs -> Steps]
  /\ verb \in [Procs -> Verbs]
  /\ want \in [Procs -> [Crates -> 0 .. MaxVersion]]
  /\ lk \in [Procs -> BOOLEAN]
  /\ snap \in [Procs -> Manifests]
  /\ mem \in [Procs -> Manifests]
  /\ todo \in [Procs -> SUBSET Crates]

\* The member in hand.
MemberTypeOK ==
  /\ cur \in [Procs -> Crates \cup {NoCrate}]
  /\ new \in [Procs -> Pending]
  /\ left \in [Procs -> SUBSET Bins]
  /\ placed \in [Procs -> SUBSET Bins]
  /\ bad \in [Procs -> SUBSET Crates]

TypeOK == SharedTypeOK /\ CommandTypeOK /\ MemberTypeOK

\* Between two members of a batch, and all through a build, the manifest a
\* process would store differs from the one on disk in nothing: no other
\* process's commit is lost, and no failed member of its own slips into a later
\* member's store (lock.rs, commit_entry).
MemoryFresh ==
  \A p \in Procs :
    pc[p] \in {"pick", "build", "door", "place", "obsolete", "rollback", "pin"} =>
      mem[p] = manifest

\* Before the first file of a member is placed it is settled that its store will
\* be accepted: the entry in hand gives no binary a second owner, so no
\* operation places files and is then refused by Manifest::validate
\* (check_collisions against the manifest, commit_entry).
StoreAccepted ==
  \A p \in Procs : pc[p] \in {"door", "place", "obsolete"} =>
    Valid([mem[p] EXCEPT ![cur[p]] = new[p]])

\* A file some other program put under bin/ is neither overwritten nor removed
\* by any operation, failed operation, rollback or cleanup: "an unmanaged file
\* already present at the destination, causes the operation to fail without
\* clobbering it" (README.md, "Existing files are not silently overwritten").
ForeignUntouched == [][\A b \in Bins : disk[b] = Foreign => disk'[b] = Foreign]_vars

\* What the code does keep of it: another program's file is lost only to the
\* placement of a new binary, and only if it came after the collision check of the
\* member being placed.  One that was there before is safe from that member, and
\* every one from rollbacks, obsolete names, removals and cleanups.
ForeignSpared ==
  [][\A b \in Bins : disk[b] = Foreign /\ disk'[b] # Foreign =>
       /\ b \in late
       /\ \E p \in Procs :
            pc[p] = "place" /\ b \in left[p] \ BinsOf(manifest, cur[p])]_vars

\* Unless an operation on the crate itself was cut short, an installed crate is
\* whole: every binary is there and is the version the manifest records.  A
\* batch member that fails hurts no other crate.
WholeUnlessTorn ==
  \A c \in Installed(manifest) \ torn : \A b \in manifest[c].bins :
    disk[b] = [crate |-> c, version |-> manifest[c].version]

\* No interleaving of batches, failures and crashes parts the files from the
\* manifest: what stands under a managed name is the owner's own binary or nothing,
\* and every file cargo-lbin placed is claimed by the crate it came from, or is new
\* and in the rollback set of the operation at work, or was reported as a leftover
\* (a kill before the commit, a rollback that could not remove it).
FilesAccounted ==
  /\ \A c \in Crates : \A b \in BinsOf(manifest, c) :
       disk[b] = Absent \/ (disk[b] \in Files /\ disk[b].crate = c)
  /\ \A b \in Bins : disk[b] \in Files =>
       \/ b \in BinsOf(manifest, disk[b].crate)
       \/ b \in orphaned
       \/ \E p \in Procs : lockEx = p /\ b \in placed[p]

\* A pin is the more durable statement: until `unpin` or `remove`, a pinned
\* crate keeps its version and its pin, although the pin may have been set
\* while another process was showing its plan and waiting for an answer.
PinHolds ==
  [][\A c \in Crates : Pinned(manifest, c) =>
       \/ manifest'[c] = NoEntry
       \/ /\ manifest'[c].version = manifest[c].version
          /\ \/ manifest'[c].pinned
             \/ \E p \in Procs : lockEx = p /\ verb[p] = "unpin"]_vars

\* A confirmed plan is carried out as it was shown or not at all, whatever
\* other processes did while the prompt was open: an update only raises a
\* version, a downgrade only lowers one and pins it, a rebuild keeps version,
\* pin and --locked, and none of them brings back a removed crate.
PlanHonoured ==
  [][\A p \in Procs, c \in Crates :
       lockEx = p /\ manifest'[c] # manifest[c] /\ verb[p] \in Builders \ {"install"} =>
         /\ manifest[c] # NoEntry
         /\ CASE verb[p] = "update" ->
                   /\ manifest'[c].version > manifest[c].version
                   /\ ~manifest'[c].pinned
                   /\ manifest'[c].locked = manifest[c].locked
              [] verb[p] = "downgrade" ->
                   /\ manifest'[c].version < manifest[c].version
                   /\ manifest'[c].pinned
                   /\ manifest'[c].locked = manifest[c].locked
              [] OTHER -> FALSE]_vars

\* What verify reports while it holds the shared lock is true when it reports
\* it: a crate it found broken has a missing binary because an operation on it
\* was cut short, and a crate it passed over misses nothing.
VerifyTruthful ==
  \A p \in readers : pc[p] = "audit" =>
    \A c \in Installed(manifest) \ todo[p] :
      /\ c \in bad[p] <=> Missing(manifest, c)
      /\ c \in bad[p] => c \in torn

\* The manifest on disk only ever makes the moves ManifestSpec allows.
Abstract == INSTANCE ManifestSpec
ImplementsManifestSpec == Abstract!Spec

\* The exclusive lock is always given back: no sequence of skips, failures and
\* rollbacks keeps a process from the end of its batch.
LockReleased == \A p \in Procs : lockEx = p ~> lockEx # p

\* A process goes on with its work once it has been told what to do; builds
\* end, prompts are answered, and it is not kept waiting at the placement door.
FairSpec == Spec /\ \A p \in Procs : WF_vars(Work(p))

-----------------------------------------------------------------------------
(* The inductive invariant behind the safety properties.                   *)

\* The steps at which a process's memory is the manifest on disk.
Fresh == {"pick", "build", "door", "place", "obsolete", "rollback", "pin"}

\* The steps with a member in hand.
InHand == {"build", "door", "place", "obsolete", "rollback", "rm"}

\* The exclusive lock and the control states agree.
LockInv == \A p \in Procs : pc[p] \in Locked <=> lockEx = p

\* MemoryFresh, and the one exception: a removal has taken its crate out of
\* memory before the store.
MemoryInv ==
  \A p \in Procs :
    /\ pc[p] \in Fresh => mem[p] = manifest
    /\ pc[p] = "rm" =>
         /\ cur[p] \in Installed(manifest)
         /\ mem[p] = [manifest EXCEPT ![cur[p]] = NoEntry]

\* Members are worked on once: the one in hand is off the list.
MemberInv ==
  \A p \in Procs : pc[p] \in InHand => cur[p] \in Crates \ todo[p]

\* What a command was told holds for the members still to do.
PlanInv ==
  \A p \in Procs :
    /\ pc[p] \in {"confirm", "gate", "pick"} \cup InHand /\ verb[p] \in Planned =>
         todo[p] \subseteq Installed(snap[p])
    /\ pc[p] \in {"pick"} \cup InHand =>
         /\ verb[p] \in {"install", "downgrade"} =>
              \A c \in todo[p] : ~Pinned(manifest, c)
         /\ verb[p] = "downgrade" => todo[p] \subseteq Installed(manifest)
         /\ verb[p] = "reinstall" =>
              \A c \in todo[p] : c \in Installed(manifest) /\ snap[p][c] = manifest[c]
    /\ pc[p] = "pin" => verb[p] \in Pinners /\ todo[p] \subseteq Installed(manifest)

\* And for the member being built.
BuildInv ==
  \A p \in Procs : pc[p] = "build" =>
    /\ verb[p] \in Builders
    /\ verb[p] # "install" => cur[p] \in Installed(manifest)
    /\ verb[p] \notin {"reinstall", "reinstallAll"} => ~Pinned(manifest, cur[p])
    /\ verb[p] \in {"reinstall", "reinstallAll"} =>
         /\ cur[p] \in Installed(snap[p])
         /\ snap[p][cur[p]].version = manifest[cur[p]].version
         /\ snap[p][cur[p]].pinned = manifest[cur[p]].pinned

\* The entry to be committed takes no other crate's binary and moves or unpins
\* no pinned crate.
PendingInv ==
  \A p \in Procs : pc[p] \in {"door", "place", "obsolete"} =>
    /\ new[p] \in Entries
    /\ \A d \in Crates \ {cur[p]} : new[p].bins \cap BinsOf(manifest, d) = {}
    /\ Pinned(manifest, cur[p]) =>
         new[p].pinned /\ new[p].version = manifest[cur[p]].version

IInv ==
  /\ TypeOK /\ LockInv /\ MemoryInv /\ MemberInv /\ PlanInv /\ BuildInv
  /\ PendingInv /\ Valid(manifest)

-----------------------------------------------------------------------------
(* The inductive invariant of the files: what each step of an operation has *)
(* done to bin/ so far.                                                    *)

\* What the operation in hand puts under a name.
OwnFile(p) == [crate |-> cur[p], version |-> new[p].version]

\* The names only the old entry has, and those only the new one has.
Retired(p) == BinsOf(manifest, cur[p]) \ new[p].bins
Gained(p)  == new[p].bins \ BinsOf(manifest, cur[p])

\* What is off the list has been placed, and the rollback set holds what is new of it.
Placing(p) ==
  /\ pc[p] = "place" =>
       /\ left[p] \subseteq new[p].bins
       /\ \A b \in new[p].bins \ left[p] : disk[b] = OwnFile(p)
       /\ placed[p] = Gained(p) \ left[p]
  /\ pc[p] = "obsolete" =>
       /\ left[p] \subseteq Retired(p)
       /\ \A b \in new[p].bins : disk[b] = OwnFile(p)
       /\ \A b \in Retired(p) \ left[p] : disk[b] = Absent
       /\ placed[p] = Gained(p)

\* What is off the list is gone, or was reported.
Removing(p) ==
  /\ pc[p] = "rollback" =>
       /\ left[p] \subseteq placed[p] /\ placed[p] \cap Claimed(manifest) = {}
       /\ \A b \in left[p] : disk[b] \in Files
       /\ \A b \in placed[p] \ left[p] : disk[b] \notin Files \/ b \in orphaned
  /\ pc[p] = "rm" =>
       /\ left[p] \subseteq BinsOf(manifest, cur[p])
       /\ \A b \in BinsOf(manifest, cur[p]) \ left[p] : disk[b] = Absent
  /\ pc[p] \notin {"place", "obsolete", "rollback"} => placed[p] = {}

FilesInv ==
  /\ FilesAccounted /\ WholeUnlessTorn
  /\ \A p \in Procs : Placing(p) /\ Removing(p)

\* What is still to be placed under a new name finds the name free, or taken since
\* the check.
FreeInv ==
  \A p \in Procs, b \in Bins :
    \/ pc[p] = "door" /\ b \in Gained(p)
    \/ pc[p] = "place" /\ b \in Gained(p) \cap left[p]
    => disk[b] = Absent \/ (disk[b] = Foreign /\ b \in late)

\* A reader keeps writers out, and has the manifest on disk in memory.
ReaderInv ==
  /\ readers # {} => lockEx = NoProc
  /\ \A p \in readers : pc[p] = "audit" /\ mem[p] = manifest
  /\ \A p \in Procs : IF pc[p] = "audit" THEN bad[p] \cap todo[p] = {} ELSE bad[p] = {}

-----------------------------------------------------------------------------
(* The inductive invariant of the confirmed plans.                         *)

\* A release's binaries are the release's, in the manifest and in what is to be
\* committed.
ReleaseInv ==
  /\ \A c \in Installed(manifest) : manifest[c].bins = Provides[c][manifest[c].version]
  /\ \A p \in Procs : pc[p] \in {"door", "place", "obsolete"} =>
       new[p].bins = Provides[cur[p]][new[p].version]

\* What was shown is still so for the members to come.
Shown(p) ==
  /\ pc[p] = "rm" => verb[p] = "remove"
  /\ pc[p] \in {"confirm", "gate", "pick"} \cup InHand =>
       /\ verb[p] = "update" => \A c \in todo[p] : newest[c] > snap[p][c].version
       /\ verb[p] = "downgrade" =>
            \A c \in todo[p] : 0 < want[p][c] /\ want[p][c] < snap[p][c].version
  /\ pc[p] \in {"pick"} \cup InHand /\ verb[p] = "downgrade" =>
       \A c \in todo[p] : manifest[c].version = snap[p][c].version

\* Where a command may take the member in hand.
Direction(p, v) ==
  LET e == manifest[cur[p]]
  IN CASE verb[p] = "update"    -> v > e.version
       [] verb[p] = "downgrade" -> v < e.version
       [] OTHER                 -> v = e.version

\* And it does: settled before the build as far as the request goes, and after it
\* for the whole entry.
Settled(p) ==
  verb[p] \in Builders \ {"install"} =>
    /\ pc[p] = "build" =>
         /\ Direction(p, IF verb[p] = "update" THEN newest[cur[p]] ELSE Request(p, cur[p]))
         /\ LockedFor(p, cur[p]) = manifest[cur[p]].locked
         /\ verb[p] = "downgrade" => Request(p, cur[p]) # 0
    /\ pc[p] \in {"door", "place", "obsolete"} =>
         /\ cur[p] \in Installed(manifest)
         /\ Direction(p, new[p].version)
         /\ new[p].locked = manifest[cur[p]].locked
         /\ new[p].pinned = IF verb[p] \in {"update", "downgrade"} THEN verb[p] = "downgrade"
                            ELSE manifest[cur[p]].pinned

PlansInv == ReleaseInv /\ \A p \in Procs : Shown(p) /\ Settled(p)

=============================================================================
