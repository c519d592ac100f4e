---------------------------- MODULE MigrateProps ----------------------------
(***************************************************************************)
(* The properties of migrations between prefixes.                          *)
(***************************************************************************)
EXTENDS Migrate

Steps == {"idle", "confirm", "next", "build", "door", "place", "retire", "remove"}

DiskOK ==
  /\ lock \in [Prefixes -> Procs \cup {NoProc}]
  /\ manifest \in [Prefixes -> Manifests]
  /\ files \in [Prefixes -> SUBSET Bins]
  /\ newest \in [Crates -> Versions] /\ rustc \in Rustcs

PlanOK ==
  /\ src \in [Procs -> Prefixes \cup {NoPrefix}]
  /\ dst \in [Procs -> Prefixes \cup {NoPrefix}]
  /\ snap \in [Procs -> Manifests]
  /\ todo \in [Procs -> SUBSET Crates]

MemberOK ==
  /\ pc \in [Procs -> Steps]
  /\ cur \in [Procs -> Crates \cup {NoCrate}]
  /\ new \in [Procs -> Entries]
  /\ left \in [Procs -> SUBSET Bins]
  /\ outcome \in [Procs -> [Crates -> Outcomes]]
  /\ landed \in [Procs -> SUBSET Crates]

\* There is a plan while a migration runs, and a member in hand from the lock of its
\* destination to its report.
StepOK ==
  \A p \in Procs :
    /\ pc[p] # "idle" => src[p] # NoPrefix /\ dst[p] # NoPrefix /\ src[p] # dst[p]
    /\ pc[p] \in {"build", "door", "place", "retire", "remove"} <=> cur[p] # NoCrate
    /\ cur[p] # NoCrate => snap[p][cur[p]] # NoEntry
    /\ \A c \in todo[p] : snap[p][c] # NoEntry

TypeOK == DiskOK /\ PlanOK /\ MemberOK /\ StepOK

HasCopy(c) == \E f \in Prefixes : Complete(f, c)

\* Someone just ran `remove` on a copy of c.
Removed(c) ==
  \E f \in Prefixes : /\ manifest[f][c] # NoEntry /\ lock[f] = NoProc
                      /\ manifest'[f][c] = NoEntry

\* No migration, and no failure or kill of one, takes the last complete
\* installation of a crate away (migrate_one: "the order is load-bearing").
\* Only a person's `remove` may.
NeverWithout == [][\A c \in Crates : HasCopy(c) => HasCopy(c)' \/ Removed(c)]_vars

\* A binary is gone from under the entry that owns it, or the entry is gone.
Taken(f, c) ==
  LET e == manifest[f][c]
  IN /\ e # NoEntry /\ manifest'[f][c] \in {e, NoEntry}
     /\ manifest'[f][c] = NoEntry \/ ~(e.bins \cap files[f] \subseteq files'[f])

\* What disappears from a prefix is what someone confirmed a migration of: an
\* entry that was updated, rebuilt with another toolchain, pinned or unpinned
\* since the plan keeps its entry and its files, although the locks were let go
\* twice in between, and a migration that gives up takes nothing of anyone's.
RetiresAsConfirmed ==
  [][\A f \in Prefixes, c \in Crates : Taken(f, c) =>
       \/ \E p \in Procs : /\ pc[p] = "remove" /\ src[p] = f /\ cur[p] = c
                           /\ snap[p][c] = manifest[f][c]
       \/ PersonRemoves /\ lock[f] = NoProc]_vars

\* What is committed at the destination follows the confirmed entry's policy,
\* whatever was published or pinned since: its pin, and its very version when
\* pinned; and it finds the crate absent there.
PolicyTravels ==
  [][\A p \in Procs, c \in Crates : c \in landed'[p] \ landed[p] =>
       LET e == manifest'[dst[p]][c]
       IN /\ e.pinned = snap[p][c].pinned
          /\ e.pinned => e.version = snap[p][c].version
          /\ manifest[dst[p]][c] = NoEntry]_vars

\* The report is true: an error means nothing was committed at the destination,
\* an incomplete or finished migration means the destination was, and a finished
\* one leaves no entry at the source.
ReportTrue ==
  [][\A p \in Procs, c \in Crates : outcome'[p][c] # outcome[p][c] =>
       /\ outcome'[p][c] = "failed" => c \notin landed[p]
       /\ outcome'[p][c] \in {"moved", "incomplete", "alreadyRetired"} => c \in landed[p]
       /\ outcome'[p][c] \in {"moved", "alreadyRetired"} => manifest'[src[p]][c] = NoEntry]_vars

\* No migration keeps a prefix for ever, not even two that go in opposite
\* directions at once.
LockReleased ==
  \A p \in Procs, f \in Prefixes : lock[f] = p ~> lock[f] # p

\* Builds end and doors are answered.
FairSpec == Spec /\ \A p \in Procs : WF_vars(Work(p))

\* Every prefix keeps what ManifestSpec promises, with migrations passing
\* through it.
Abstract(f) == INSTANCE ManifestSpec WITH manifest <- manifest[f]
EachPrefix ==
  [][\A f \in Prefixes : manifest'[f] # manifest[f] => Abstract(f)!Next]_vars

-----------------------------------------------------------------------------
(* The inductive invariant.                                                *)

\* A prefix is locked by the migration that builds or places there, or that
\* removes from there, and by nobody else.
LockInv ==
  /\ \A p \in Procs :
       /\ pc[p] \in {"build", "door", "place"} => lock[dst[p]] = p
       /\ pc[p] = "remove" => lock[src[p]] = p
  /\ \A f \in Prefixes, p \in Procs : lock[f] = p =>
       \/ pc[p] \in {"build", "door", "place"} /\ f = dst[p]
       \/ pc[p] = "remove" /\ f = src[p]

\* No binary of a prefix has two owners.
OwnersInv ==
  \A f \in Prefixes : \A c, d \in Crates :
    c # d => BinsOf(manifest[f], c) \cap BinsOf(manifest[f], d) = {}

\* While it works at the destination the crate is absent there, what it built is as
\* the plan's entry asked for, and nobody there owns a name of it.
BuildInv ==
  \A p \in Procs :
    /\ pc[p] \in {"build", "door", "place"} => manifest[dst[p]][cur[p]] = NoEntry
    /\ pc[p] \in {"door", "place"} =>
         /\ new[p].pinned = snap[p][cur[p]].pinned
         /\ new[p].pinned => new[p].version = snap[p][cur[p]].version
         /\ \A d \in Crates : new[p].bins \cap BinsOf(manifest[dst[p]], d) = {}

\* What it removes is the entry of the plan.
RemoveInv ==
  \A p \in Procs : pc[p] = "remove" =>
    manifest[src[p]][cur[p]] = snap[p][cur[p]] /\ left[p] \subseteq snap[p][cur[p]].bins

\* Committed at the destination are members that were done with there.
LandedInv ==
  \A p \in Procs :
    /\ landed[p] \cap todo[p] = {}
    /\ cur[p] \notin todo[p]
    /\ pc[p] \in {"build", "door", "place"} => cur[p] \notin landed[p]
    /\ pc[p] \in {"retire", "remove"} => cur[p] \in landed[p]
    /\ pc[p] = "idle" => landed[p] = {} /\ outcome[p] = NoOutcome

IInv == TypeOK /\ LockInv /\ OwnersInv /\ BuildInv /\ RemoveInv /\ LandedInv

-----------------------------------------------------------------------------
(* Why a crate is never without a complete installation: copies and the    *)
(* migrations that may still take one away are counted.                    *)

Copies(c) == {f \in Prefixes : Complete(f, c)}

\* Those that have yet to retire an entry of c, and have not begun to, or have
\* found it complete.
Threats(c) ==
  {p \in Procs : /\ cur[p] = c
                 /\ pc[p] = "retire" \/ (pc[p] = "remove" /\ Complete(src[p], c))}

\* A migration that is going to find its source broken, and so takes no copy.
Harmless(p, c) ==
  /\ pc[p] = "retire" /\ cur[p] = c
  /\ manifest[src[p]][c] # NoEntry /\ ~Complete(src[p], c)
  /\ \A q \in Procs : pc[q] = "remove" /\ cur[q] = c => src[q] # src[p]

\* A placement knows what it has placed.
PlaceInv ==
  \A p \in Procs : pc[p] = "place" =>
    left[p] \subseteq new[p].bins /\ new[p].bins \ left[p] \subseteq files[dst[p]]

\* Each landing adds a copy and a threat, each retirement takes one of either.
CopiesInv ==
  \A c \in Crates :
    /\ Cardinality(Threats(c)) <= Cardinality(Copies(c))
    /\ Cardinality(Threats(c)) < Cardinality(Copies(c)) \/ Copies(c) = {}
         \/ \E p \in Procs : Harmless(p, c)

\* A source was there at the probe, and is until someone has another copy.
SourceInv ==
  \A p \in Procs, c \in Crates : cur[p] = c /\ Copies(c) = {} =>
    /\ pc[p] \notin {"retire", "remove"}
    /\ pc[p] = "place" => manifest[src[p]][c] # NoEntry

=============================================================================
