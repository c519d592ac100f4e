------------------------------- MODULE Migrate ------------------------------
(***************************************************************************)
(* `migrate`: a crate is rebuilt under another prefix and then retired     *)
(* under its own.  Several migrations, and people installing, pinning and  *)
(* removing crates in between, work on the same prefixes.  A migration     *)
(* never holds two exclusive locks: it locks the destination, probes the   *)
(* source without waiting, commits, lets go, and only then locks the       *)
(* source to retire it.                                                    *)
(***************************************************************************)
EXTENDS Naturals, FiniteSets

CONSTANTS
  Prefixes, Crates, Bins,
  Procs,          \* migrations
  MaxVersion,     \* bound: releases are 1..MaxVersion
  MaxRustc,       \* bound: toolchains are 1..MaxRustc
  Provides,       \* Provides[c][v]: the binaries release v of crate c installs
  PersonRemoves,  \* do people run `remove` while migrations are under way?
  NoProc, NoEntry, NoCrate, NoPrefix

Versions == 1 .. MaxVersion
Rustcs == 1 .. MaxRustc

\* A manifest entry; rustc stands for the build's testimony about itself
\* (built_with_rustc) and for --locked, which travel and are compared alike.
Entries == [version : Versions, bins : SUBSET Bins, pinned : BOOLEAN,
            rustc : Rustcs]

ASSUME MigrateAssumption ==
  /\ MaxVersion \in Nat \ {0} /\ MaxRustc \in Nat \ {0}
  /\ Provides \in [Crates -> [Versions -> (SUBSET Bins) \ {{}}]]
  /\ PersonRemoves \in BOOLEAN
  /\ NoProc \notin Procs /\ NoCrate \notin Crates /\ NoPrefix \notin Prefixes
  /\ NoEntry \notin Entries

Manifests == [Crates -> Entries \cup {NoEntry}]

\* MigrateOutcome, and the plain errors before the destination's commit.
Outcomes == {"none", "moved", "alreadyRetired", "incomplete", "failed"}

VARIABLES
  lock,      \* per prefix: the holder of its exclusive state lock
  manifest,  \* per prefix: the manifest on disk
  files,     \* per prefix: the names standing under bin/
  newest, rustc,   \* the registry and the toolchain
  pc, src, dst,
  snap,      \* MigrationSnapshot of every crate of the confirmed plan
  todo, cur,
  new,       \* the entry being built
  left,      \* files still to place or to remove
  outcome,   \* what the migration reports, per crate
  landed     \* history: the crates it committed at the destination

plan   == <<src, dst, snap>>
world  == <<newest, rustc>>
report == <<outcome, landed>>
vars == <<lock, manifest, files, world, pc, plan, todo, cur, new, left, report>>

Installed(m) == {c \in Crates : m[c] # NoEntry}
BinsOf(m, c) == IF m[c] = NoEntry THEN {} ELSE m[c].bins
Claimed(m)   == UNION {BinsOf(m, c) : c \in Crates}

\* A complete installation of c under prefix f.
Complete(f, c) == manifest[f][c] # NoEntry /\ manifest[f][c].bins \subseteq files[f]

\* Mutant: only the disk is asked.
DiskOnly(f, c, bins) ==
  \A b \in bins \ BinsOf(manifest[f], c) : b \notin files[f]

\* check_collisions: a name is this crate's already, or free and unclaimed.
NoCollision(f, c, bins) ==
  \A b \in bins \ BinsOf(manifest[f], c) :
    b \notin files[f] \cup Claimed(manifest[f])

-----------------------------------------------------------------------------
NoManifest == [c \in Crates |-> NoEntry]
NoOutcome  == [c \in Crates |-> "none"]
NoNew == [version |-> 1, bins |-> {}, pinned |-> FALSE, rustc |-> 1]

Init ==
  /\ lock = [f \in Prefixes |-> NoProc]
  /\ manifest = [f \in Prefixes |-> NoManifest]
  /\ files = [f \in Prefixes |-> {}]
  /\ newest = [c \in Crates |-> 1] /\ rustc = 1
  /\ pc = [p \in Procs |-> "idle"]
  /\ src = [p \in Procs |-> NoPrefix] /\ dst = [p \in Procs |-> NoPrefix]
  /\ snap = [p \in Procs |-> NoManifest]
  /\ todo = [p \in Procs |-> {}] /\ cur = [p \in Procs |-> NoCrate]
  /\ new = [p \in Procs |-> NoNew] /\ left = [p \in Procs |-> {}]
  /\ outcome = [p \in Procs |-> NoOutcome] /\ landed = [p \in Procs |-> {}]

Goto(p, step) == pc' = [pc EXCEPT ![p] = step]

Exit(p) ==
  /\ Goto(p, "idle")
  /\ src' = [src EXCEPT ![p] = NoPrefix] /\ dst' = [dst EXCEPT ![p] = NoPrefix]
  /\ snap' = [snap EXCEPT ![p] = NoManifest]
  /\ todo' = [todo EXCEPT ![p] = {}] /\ cur' = [cur EXCEPT ![p] = NoCrate]
  /\ new' = [new EXCEPT ![p] = NoNew] /\ left' = [left EXCEPT ![p] = {}]
  /\ outcome' = [outcome EXCEPT ![p] = NoOutcome]
  /\ landed' = [landed EXCEPT ![p] = {}]

\* The lock guard of a prefix goes out of scope.
Unlock(f) == lock' = [lock EXCEPT ![f] = NoProc]

\* The crate in hand is reported, and the batch goes on.
NextMember(p, o) ==
  /\ outcome' = [outcome EXCEPT ![p][cur[p]] = o]
  /\ Goto(p, "next")
  /\ cur' = [cur EXCEPT ![p] = NoCrate]
  /\ new' = [new EXCEPT ![p] = NoNew]
  /\ left' = [left EXCEPT ![p] = {}]

-----------------------------------------------------------------------------
(* The plan.                                                               *)

\* plan_migration: the source's manifest under the shared lock, which is given
\* back before the prompt.
Plan(p) ==
  /\ pc[p] = "idle"
  /\ \E s, d \in Prefixes :
       /\ s # d /\ lock[s] = NoProc
       /\ \E S \in (SUBSET Installed(manifest[s])) \ {{}} :
            /\ todo' = [todo EXCEPT ![p] = S]
            /\ snap' = [snap EXCEPT ![p] =
                 [c \in Crates |-> IF c \in S THEN manifest[s][c] ELSE NoEntry]]
       /\ src' = [src EXCEPT ![p] = s] /\ dst' = [dst EXCEPT ![p] = d]
  /\ Goto(p, "confirm")
  /\ UNCHANGED <<lock, manifest, files, world, cur, new, left, report>>

Confirm(p) ==
  /\ pc[p] = "confirm"
  /\ Goto(p, "next")
  /\ UNCHANGED <<lock, manifest, files, world, plan, todo, cur, new, left, report>>

\* The end of the batch: all its members are reported, or a "no" at the prompt.
Finish(p) ==
  /\ \/ pc[p] = "next" /\ todo[p] = {}
     \/ pc[p] = "confirm"
  /\ Exit(p)
  /\ UNCHANGED <<lock, manifest, files, world>>

-----------------------------------------------------------------------------
(* Phase A: the destination.                                               *)

\* The destination's exclusive lock, and the refusal to overwrite.
LockDest(p) ==
  /\ pc[p] = "next"
  /\ lock[dst[p]] = NoProc
  /\ \E c \in todo[p] :
       /\ todo' = [todo EXCEPT ![p] = @ \ {c}]
       /\ IF c \in Installed(manifest[dst[p]])
          THEN /\ outcome' = [outcome EXCEPT ![p][c] = "failed"]
               /\ UNCHANGED <<lock, cur, pc>>
          ELSE /\ lock' = [lock EXCEPT ![dst[p]] = p]
               /\ cur' = [cur EXCEPT ![p] = c]
               /\ Goto(p, "build")
               /\ UNCHANGED outcome
  /\ UNCHANGED <<manifest, files, world, plan, new, left, landed>>

\* Mutant: the pin that asking for an exact version would set.
PinIfNewest(p, c) == snap[p][c].version = newest[c]

\* What the destination is asked for: a pinned crate's version exactly,
\* otherwise whatever is newest now; and the pin as it is.
VersionFor(p, c) == IF snap[p][c].pinned THEN snap[p][c].version ELSE newest[c]
PinFor(p, c) == snap[p][c].pinned

\* cargo builds, nothing at the destination collides.
Build(p) ==
  /\ pc[p] = "build"
  /\ LET c == cur[p]
         v == VersionFor(p, c)
     IN /\ NoCollision(dst[p], c, Provides[c][v])
        /\ new' = [new EXCEPT ![p] = [version |-> v, bins |-> Provides[c][v],
                                      pinned |-> PinFor(p, c), rustc |-> rustc]]
  /\ Goto(p, "door")
  /\ UNCHANGED <<lock, manifest, files, world, plan, todo, cur, left, report>>

\* Mutant: it waits for a busy source.
AbandonUnlessBusy(p) ==
  /\ pc[p] \in {"build", "door"}
  /\ pc[p] = "door" => lock[src[p]] = NoProc
  /\ Unlock(dst[p])
  /\ NextMember(p, "failed")
  /\ UNCHANGED <<manifest, files, world, plan, todo, landed>>

\* The placement door and the checkpoint behind it: the source is probed
\* without waiting, and must still hold the entry of the plan.
Probe(p) ==
  /\ pc[p] = "door"
  /\ lock[src[p]] = NoProc
  /\ manifest[src[p]][cur[p]] = snap[p][cur[p]]
  /\ left' = [left EXCEPT ![p] = new[p].bins]
  /\ Goto(p, "place")
  /\ UNCHANGED <<lock, manifest, files, world, plan, todo, cur, new, report>>

\* A failed build, a collision, a refused or cancelled door, a source that is
\* busy or has changed: nothing was placed.
Abandon(p) ==
  /\ pc[p] \in {"build", "door"}
  /\ Unlock(dst[p])
  /\ NextMember(p, "failed")
  /\ UNCHANGED <<manifest, files, world, plan, todo, landed>>

Place(p) ==
  /\ pc[p] = "place"
  /\ \E b \in left[p] :
       /\ files' = [files EXCEPT ![dst[p]] = @ \cup {b}]
       /\ left' = [left EXCEPT ![p] = @ \ {b}]
  /\ UNCHANGED <<lock, manifest, world, pc, plan, todo, cur, new, report>>

\* Mutant: the commit before the files.
CommitEarly(p) ==
  /\ pc[p] = "place"
  /\ manifest' = [manifest EXCEPT ![dst[p]][cur[p]] = new[p]]
  /\ landed' = [landed EXCEPT ![p] = @ \cup {cur[p]}]
  /\ Unlock(dst[p])
  /\ left' = [left EXCEPT ![p] = {}]
  /\ Goto(p, "retire")
  /\ UNCHANGED <<files, world, plan, todo, cur, new, outcome>>

\* The manifest commit; the destination's lock is let go.
CommitDest(p) ==
  /\ pc[p] = "place" /\ left[p] = {}
  /\ manifest' = [manifest EXCEPT ![dst[p]][cur[p]] = new[p]]
  /\ landed' = [landed EXCEPT ![p] = @ \cup {cur[p]}]
  /\ Unlock(dst[p])
  /\ Goto(p, "retire")
  /\ UNCHANGED <<files, world, plan, todo, cur, new, left, outcome>>

\* A failed placement or store is rolled back, as far as it goes.
FailPlacement(p) ==
  /\ pc[p] = "place"
  /\ \E stuck \in SUBSET (new[p].bins \ left[p]) :
       files' = [files EXCEPT ![dst[p]] = @ \ ((new[p].bins \ left[p]) \ stuck)]
  /\ Unlock(dst[p])
  /\ NextMember(p, "failed")
  /\ UNCHANGED <<manifest, world, plan, todo, landed>>

-----------------------------------------------------------------------------
(* Phase B: the source.                                                    *)

\* Mutant: any entry of that name is retired.
LockSourceByName(p) ==
  /\ pc[p] = "retire"
  /\ lock[src[p]] = NoProc
  /\ LET e == manifest[src[p]][cur[p]]
     IN \/ /\ e # NoEntry
           /\ lock' = [lock EXCEPT ![src[p]] = p]
           /\ left' = [left EXCEPT ![p] = e.bins]
           /\ Goto(p, "remove")
           /\ UNCHANGED <<cur, new, outcome>>
        \/ /\ e = NoEntry
           /\ NextMember(p, "alreadyRetired")
           /\ UNCHANGED lock
  /\ UNCHANGED <<manifest, files, world, plan, todo, landed>>

\* retire_source: the exclusive source lock and the authoritative look at the
\* entry.  Only the entry of the plan is retired.
LockSource(p) ==
  /\ pc[p] = "retire"
  /\ lock[src[p]] = NoProc
  /\ LET e == manifest[src[p]][cur[p]]
     IN \/ /\ e = snap[p][cur[p]]
           /\ lock' = [lock EXCEPT ![src[p]] = p]
           /\ left' = [left EXCEPT ![p] = e.bins]
           /\ Goto(p, "remove")
           /\ UNCHANGED <<cur, new, outcome>>
        \/ /\ e # snap[p][cur[p]]
           /\ NextMember(p, IF e = NoEntry THEN "alreadyRetired" ELSE "incomplete")
           /\ UNCHANGED lock
  /\ UNCHANGED <<manifest, files, world, plan, todo, landed>>

RemoveFile(p) ==
  /\ pc[p] = "remove"
  /\ \E b \in left[p] :
       /\ files' = [files EXCEPT ![src[p]] = @ \ {b}]
       /\ left' = [left EXCEPT ![p] = @ \ {b}]
  /\ UNCHANGED <<lock, manifest, world, pc, plan, todo, cur, new, report>>

CommitRetirement(p) ==
  /\ pc[p] = "remove" /\ left[p] = {}
  /\ manifest' = [manifest EXCEPT ![src[p]][cur[p]] = NoEntry]
  /\ Unlock(src[p])
  /\ NextMember(p, "moved")
  /\ UNCHANGED <<files, world, plan, todo, landed>>

\* Mutant: a failed retirement reported like a failed build.
FailRetirementPlainly(p) ==
  /\ pc[p] \in {"retire", "remove"}
  /\ lock' = IF pc[p] = "remove" THEN [lock EXCEPT ![src[p]] = NoProc] ELSE lock
  /\ NextMember(p, "failed")
  /\ UNCHANGED <<manifest, files, world, plan, todo, landed>>

\* No credentials, no lock, a removal or a store that failed: incomplete.
FailRetirement(p) ==
  /\ pc[p] \in {"retire", "remove"}
  /\ lock' = IF pc[p] = "remove" THEN [lock EXCEPT ![src[p]] = NoProc] ELSE lock
  /\ NextMember(p, "incomplete")
  /\ UNCHANGED <<manifest, files, world, plan, todo, landed>>

-----------------------------------------------------------------------------
(* The rest of the world.                                                  *)

\* The process is killed; the kernel drops its lock.
Crash(p) ==
  /\ pc[p] # "idle"
  /\ Exit(p)
  /\ lock' = [f \in Prefixes |-> IF lock[f] = p THEN NoProc ELSE lock[f]]
  /\ UNCHANGED <<manifest, files, world>>

\* Someone installs, updates, rebuilds or downgrades c under f, as module Prefix
\* has it: whole, and without moving or unpinning a pinned crate.
Install(f, c) ==
  /\ lock[f] = NoProc
  /\ \E v \in 1 .. newest[c], pin \in BOOLEAN :
       LET old == manifest[f][c]
           e == [version |-> v, bins |-> Provides[c][v], pinned |-> pin,
                 rustc |-> rustc]
       IN /\ NoCollision(f, c, e.bins)
          /\ old # NoEntry /\ old.pinned => e.pinned /\ e.version = old.version
          /\ manifest' = [manifest EXCEPT ![f][c] = e]
          /\ files' = [files EXCEPT ![f] = (@ \ BinsOf(manifest[f], c)) \cup e.bins]
  /\ UNCHANGED <<lock, world, pc, plan, todo, cur, new, left, report>>

\* Someone removes c under f.
Remove(f, c) ==
  /\ PersonRemoves
  /\ lock[f] = NoProc /\ manifest[f][c] # NoEntry
  /\ manifest' = [manifest EXCEPT ![f][c] = NoEntry]
  /\ files' = [files EXCEPT ![f] = @ \ manifest[f][c].bins]
  /\ UNCHANGED <<lock, world, pc, plan, todo, cur, new, left, report>>

\* Someone pins or unpins c under f.
SetPinned(f, c) ==
  /\ lock[f] = NoProc /\ manifest[f][c] # NoEntry
  /\ manifest' = [manifest EXCEPT ![f][c].pinned = ~@]
  /\ UNCHANGED <<lock, files, world, pc, plan, todo, cur, new, left, report>>

\* A leftover of a killed placement is removed by hand.
CleanLeftovers(f) ==
  /\ lock[f] = NoProc
  /\ files' = [files EXCEPT ![f] = @ \cap Claimed(manifest[f])]
  /\ UNCHANGED <<lock, manifest, world, pc, plan, todo, cur, new, left, report>>

Publish(c) ==
  /\ newest[c] < MaxVersion
  /\ newest' = [newest EXCEPT ![c] = @ + 1]
  /\ UNCHANGED <<lock, manifest, files, rustc, pc, plan, todo, cur, new, left, report>>

UpgradeToolchain ==
  /\ rustc < MaxRustc
  /\ rustc' = rustc + 1
  /\ UNCHANGED <<lock, manifest, files, newest, pc, plan, todo, cur, new, left, report>>

Work(p) ==
  \/ LockDest(p) \/ Build(p) \/ Abandon(p) \/ Probe(p) \/ Place(p)
  \/ CommitDest(p) \/ FailPlacement(p) \/ LockSource(p) \/ RemoveFile(p)
  \/ CommitRetirement(p) \/ FailRetirement(p)

Migration(p) == Plan(p) \/ Confirm(p) \/ Finish(p) \/ Work(p) \/ Crash(p)

World ==
  \/ \E f \in Prefixes, c \in Crates : Install(f, c) \/ Remove(f, c) \/ SetPinned(f, c)
  \/ \E f \in Prefixes : CleanLeftovers(f)
  \/ \E c \in Crates : Publish(c)
  \/ UpgradeToolchain

Next == (\E p \in Procs : Migration(p)) \/ World

Spec == Init /\ [][Next]_vars

=============================================================================
