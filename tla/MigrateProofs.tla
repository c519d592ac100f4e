---------------------------- MODULE MigrateProofs ---------------------------
(***************************************************************************)
(* Proofs about migrations, for any prefixes, crates and binaries and any  *)
(* number of migrations and people at once: what is committed at a         *)
(* destination, what is taken from a source, what is reported, and that a  *)
(* crate is never left without a complete installation.                    *)
(***************************************************************************)
EXTENDS MigrateProps, FiniteSetTheorems, TLAPS

\* Steps that hold the destination's lock, and steps with a member in hand.
Holding == {"build", "door", "place"}
InHand == Holding \cup {"retire", "remove"}

\* What an idle migration has in memory has its type.
LEMMA Blanks ==
  /\ NoManifest \in Manifests /\ \A c \in Crates : NoManifest[c] = NoEntry
  /\ NoNew \in Entries
  /\ NoOutcome \in [Crates -> Outcomes] /\ \A c \in Crates : NoOutcome[c] = "none"
  /\ NoEntry \notin Entries
<1>1. 1 \in Versions /\ 1 \in Rustcs
  BY MigrateAssumption DEF MigrateAssumption, Versions, Rustcs
<1> QED
  BY <1>1, MigrateAssumption
  DEF MigrateAssumption, NoManifest, Manifests, NoNew, Entries, NoOutcome, Outcomes

\* The prefixes and the member a migration at work has.
LEMMA AtWork ==
  ASSUME TypeOK, NEW p \in Procs
  PROVE  /\ pc[p] # "idle" => src[p] \in Prefixes /\ dst[p] \in Prefixes /\ src[p] # dst[p]
         /\ pc[p] \in InHand <=> cur[p] # NoCrate
         /\ pc[p] \in InHand => cur[p] \in Crates /\ snap[p][cur[p]] \in Entries
         /\ snap[p] \in Manifests
<1>1. /\ pc[p] # "idle" => src[p] # NoPrefix /\ dst[p] # NoPrefix /\ src[p] # dst[p]
      /\ pc[p] \in InHand <=> cur[p] # NoCrate
      /\ cur[p] # NoCrate => snap[p][cur[p]] # NoEntry
  BY DEF TypeOK, StepOK, InHand, Holding
<1>2. /\ src[p] \in Prefixes \cup {NoPrefix} /\ dst[p] \in Prefixes \cup {NoPrefix}
      /\ snap[p] \in Manifests /\ cur[p] \in Crates \cup {NoCrate}
  BY DEF TypeOK, PlanOK, MemberOK
<1>3. pc[p] \in InHand => cur[p] \in Crates
  BY <1>1, <1>2
<1>4. pc[p] \in InHand => snap[p][cur[p]] \in Entries
  BY <1>1, <1>2, <1>3 DEF Manifests
<1> QED BY <1>1, <1>2, <1>3, <1>4

\* A process that ends, and a member that is reported, leave well-typed memory and
\* touch nobody else's.
LEMMA ExitEffect ==
  ASSUME TypeOK, NEW p \in Procs, Exit(p)
  PROVE  /\ PlanOK' /\ MemberOK' /\ StepOK'
         /\ pc'[p] = "idle" /\ landed'[p] = {} /\ todo'[p] = {} /\ outcome'[p] = NoOutcome
         /\ cur'[p] = NoCrate
         /\ \A q \in Procs \ {p} :
              /\ pc'[q] = pc[q] /\ src'[q] = src[q] /\ dst'[q] = dst[q] /\ snap'[q] = snap[q]
              /\ todo'[q] = todo[q] /\ cur'[q] = cur[q] /\ new'[q] = new[q]
              /\ left'[q] = left[q] /\ outcome'[q] = outcome[q] /\ landed'[q] = landed[q]
<1>1. PlanOK'
  BY Blanks DEF Exit, TypeOK, PlanOK
<1>2. MemberOK'
  BY Blanks DEF Exit, Goto, TypeOK, MemberOK, Steps
<1>3. /\ pc'[p] = "idle" /\ landed'[p] = {} /\ todo'[p] = {} /\ outcome'[p] = NoOutcome
      /\ cur'[p] = NoCrate
  BY DEF Exit, Goto, TypeOK, PlanOK, MemberOK
<1>4. \A q \in Procs \ {p} :
        /\ pc'[q] = pc[q] /\ src'[q] = src[q] /\ dst'[q] = dst[q] /\ snap'[q] = snap[q]
        /\ todo'[q] = todo[q] /\ cur'[q] = cur[q] /\ new'[q] = new[q]
        /\ left'[q] = left[q] /\ outcome'[q] = outcome[q] /\ landed'[q] = landed[q]
  BY DEF Exit, Goto, TypeOK, PlanOK, MemberOK
<1>5. StepOK'
  BY <1>3, <1>4 DEF TypeOK, StepOK
<1> QED BY <1>1, <1>2, <1>3, <1>4, <1>5

\* A report ends the work on the member in hand, and touches nothing else.
LEMMA MemberEffect ==
  ASSUME TypeOK, NEW p \in Procs, NEW o \in Outcomes, NextMember(p, o), pc[p] \in InHand,
         UNCHANGED <<plan, todo, landed>>
  PROVE  /\ PlanOK' /\ MemberOK' /\ StepOK'
         /\ pc'[p] = "next" /\ cur'[p] = NoCrate
         /\ \A c \in Crates : outcome'[p][c] = IF c = cur[p] THEN o ELSE outcome[p][c]
         /\ \A q \in Procs \ {p} :
              /\ pc'[q] = pc[q] /\ cur'[q] = cur[q] /\ new'[q] = new[q]
              /\ left'[q] = left[q] /\ outcome'[q] = outcome[q]
<1>1. cur[p] \in Crates
  BY AtWork
<1>2. PlanOK'
  BY DEF TypeOK, PlanOK, plan
<1>3. MemberOK'
  <2>1. pc' \in [Procs -> Steps] /\ cur' \in [Procs -> Crates \cup {NoCrate}]
    BY DEF NextMember, Goto, TypeOK, MemberOK, Steps
  <2>2. new' \in [Procs -> Entries] /\ left' \in [Procs -> SUBSET Bins]
    BY Blanks DEF NextMember, TypeOK, MemberOK
  <2>3. outcome' \in [Procs -> [Crates -> Outcomes]]
    BY <1>1 DEF NextMember, TypeOK, MemberOK
  <2> QED BY <2>1, <2>2, <2>3 DEF TypeOK, MemberOK
<1>4. pc'[p] = "next" /\ cur'[p] = NoCrate
  BY DEF NextMember, Goto, TypeOK, MemberOK
<1>5. \A c \in Crates : outcome'[p][c] = IF c = cur[p] THEN o ELSE outcome[p][c]
  BY <1>1 DEF NextMember, TypeOK, MemberOK
<1>6. \A q \in Procs \ {p} :
        /\ pc'[q] = pc[q] /\ cur'[q] = cur[q] /\ new'[q] = new[q]
        /\ left'[q] = left[q] /\ outcome'[q] = outcome[q]
  BY DEF NextMember, Goto, TypeOK, MemberOK
<1>7. StepOK'
  <2> SUFFICES ASSUME NEW q \in Procs
               PROVE  /\ pc'[q] # "idle" => src'[q] # NoPrefix /\ dst'[q] # NoPrefix /\ src'[q] # dst'[q]
                      /\ pc'[q] \in {"build", "door", "place", "retire", "remove"} <=> cur'[q] # NoCrate
                      /\ cur'[q] # NoCrate => snap'[q][cur'[q]] # NoEntry
                      /\ \A c \in todo'[q] : snap'[q][c] # NoEntry
    BY DEF StepOK
  <2>1. CASE q = p
    BY <1>4, <2>1 DEF TypeOK, StepOK, plan, InHand, Holding
  <2>2. CASE q # p
    BY <1>6, <2>2 DEF TypeOK, StepOK, plan
  <2> QED BY <2>1, <2>2
<1> QED BY <1>2, <1>3, <1>4, <1>5, <1>6, <1>7

\* The source is locked to retire the entry of the plan, or the member is reported.
LEMMA SourceCases ==
  ASSUME NEW p \in Procs, LockSource(p)
  PROVE  /\ pc[p] = "retire" /\ lock[src[p]] = NoProc
         /\ UNCHANGED <<manifest, files, world, plan, todo, landed>>
         /\ \/ /\ manifest[src[p]][cur[p]] = snap[p][cur[p]]
               /\ lock' = [lock EXCEPT ![src[p]] = p]
               /\ left' = [left EXCEPT ![p] = manifest[src[p]][cur[p]].bins]
               /\ Goto(p, "remove")
               /\ UNCHANGED <<cur, new, outcome>>
            \/ \E o \in {"alreadyRetired", "incomplete"} :
                 /\ NextMember(p, o) /\ UNCHANGED lock
                 /\ o = "alreadyRetired" => manifest[src[p]][cur[p]] = NoEntry
<1> DEFINE e == manifest[src[p]][cur[p]]
<1>1. CASE e = snap[p][cur[p]]
  BY <1>1 DEF LockSource
<1>2. CASE e # snap[p][cur[p]]
  <2>1. NextMember(p, IF e = NoEntry THEN "alreadyRetired" ELSE "incomplete") /\ UNCHANGED lock
    BY <1>2 DEF LockSource
  <2>2. CASE e = NoEntry
    BY <2>1, <2>2 DEF LockSource
  <2>3. CASE e # NoEntry
    BY <2>1, <2>3 DEF LockSource
  <2> QED BY <2>2, <2>3
<1> QED BY <1>1, <1>2

\* What a person's install makes of the entry.
LEMMA InstallEffect ==
  ASSUME TypeOK, NEW f \in Prefixes, NEW c \in Crates, Install(f, c)
  PROVE  \E e \in Entries :
           /\ NoCollision(f, c, e.bins)
           /\ manifest[f][c] # NoEntry /\ manifest[f][c].pinned =>
                e.pinned /\ e.version = manifest[f][c].version
           /\ manifest' = [manifest EXCEPT ![f][c] = e]
           /\ files' = [files EXCEPT ![f] = (@ \ BinsOf(manifest[f], c)) \cup e.bins]
<1>1. PICK v \in 1 .. newest[c], pin \in BOOLEAN :
        LET old == manifest[f][c]
            e == [version |-> v, bins |-> Provides[c][v], pinned |-> pin, rustc |-> rustc]
        IN  /\ NoCollision(f, c, e.bins)
            /\ old # NoEntry /\ old.pinned => e.pinned /\ e.version = old.version
            /\ manifest' = [manifest EXCEPT ![f][c] = e]
            /\ files' = [files EXCEPT ![f] = (@ \ BinsOf(manifest[f], c)) \cup e.bins]
  BY DEF Install
<1> DEFINE e == [version |-> v, bins |-> Provides[c][v], pinned |-> pin, rustc |-> rustc]
<1>2. v \in Versions
  BY MigrateAssumption DEF MigrateAssumption, Versions, TypeOK, DiskOK
<1>3. Provides[c][v] \in SUBSET Bins
  BY <1>2, MigrateAssumption DEF MigrateAssumption
<1>4. e \in Entries
  BY <1>2, <1>3 DEF Entries, TypeOK, DiskOK
<1>5. /\ NoCollision(f, c, e.bins)
      /\ manifest[f][c] # NoEntry /\ manifest[f][c].pinned =>
           e.pinned /\ e.version = manifest[f][c].version
      /\ manifest' = [manifest EXCEPT ![f][c] = e]
      /\ files' = [files EXCEPT ![f] = (@ \ BinsOf(manifest[f], c)) \cup e.bins]
  BY <1>1
<1> HIDE DEF e
<1> QED BY <1>4, <1>5

\* A pin or an unpin leaves the rest of the entry.
LEMMA PinEffect ==
  ASSUME TypeOK, NEW f \in Prefixes, NEW c \in Crates, SetPinned(f, c)
  PROVE  \E e \in Entries :
           /\ e.bins = manifest[f][c].bins /\ e.version = manifest[f][c].version
           /\ e.pinned = ~manifest[f][c].pinned
           /\ e = [manifest[f][c] EXCEPT !.pinned = ~@]
           /\ manifest' = [manifest EXCEPT ![f][c] = e]
<1> DEFINE e == [manifest[f][c] EXCEPT !.pinned = ~@]
<1>1. manifest[f] \in Manifests /\ manifest[f][c] \in Entries
  BY DEF SetPinned, Manifests, TypeOK, DiskOK
<1>2. /\ e \in Entries
      /\ e.bins = manifest[f][c].bins /\ e.version = manifest[f][c].version
      /\ e.pinned = ~manifest[f][c].pinned
  BY <1>1 DEF Entries
<1>3. manifest' = [manifest EXCEPT ![f][c] = e]
  BY DEF SetPinned
<1> QED BY <1>2, <1>3

-----------------------------------------------------------------------------
(* The parts of the invariant, one by one.                                 *)

\* What is on disk keeps its type.
LEMMA DiskStep ==
  ASSUME TypeOK, [Next]_vars
  PROVE  DiskOK'
<1> USE DEF TypeOK, DiskOK, world
<1>1. ASSUME NEW p \in Procs, Plan(p) \/ Confirm(p) \/ Finish(p)
      PROVE  DiskOK'
  BY <1>1 DEF Plan, Confirm, Finish
<1>2. ASSUME NEW p \in Procs, LockDest(p) \/ Build(p) \/ Abandon(p) \/ Probe(p)
      PROVE  DiskOK'
  <2>1. lock' = lock \/ lock' = [lock EXCEPT ![dst[p]] = p] \/ lock' = [lock EXCEPT ![dst[p]] = NoProc]
    BY <1>2 DEF LockDest, Build, Abandon, Probe, Unlock
  <2>2. UNCHANGED <<manifest, files, world>>
    BY <1>2 DEF LockDest, Build, Abandon, Probe
  <2> QED BY <2>1, <2>2
<1>3. ASSUME NEW p \in Procs, Place(p) \/ FailPlacement(p)
      PROVE  DiskOK'
  <2>1. CASE Place(p)
    <3>1. PICK b \in left[p] : files' = [files EXCEPT ![dst[p]] = @ \cup {b}]
      BY <2>1 DEF Place
    <3>2. files' \in [Prefixes -> SUBSET Bins]
      BY <3>1 DEF MemberOK
    <3> QED BY <2>1, <3>2 DEF Place
  <2>2. CASE FailPlacement(p)
    <3>1. PICK gone : files' = [files EXCEPT ![dst[p]] = @ \ gone]
      BY <2>2 DEF FailPlacement
    <3>2. files' \in [Prefixes -> SUBSET Bins]
      BY <3>1
    <3> QED BY <2>2, <3>2 DEF FailPlacement, Unlock
  <2> QED BY <1>3, <2>1, <2>2
<1>4. ASSUME NEW p \in Procs, CommitDest(p)
      PROVE  DiskOK'
  <2>1. new[p] \in Entries /\ cur[p] \in Crates /\ dst[p] \in Prefixes
    BY <1>4, AtWork DEF CommitDest, MemberOK, InHand, Holding
  <2>2. manifest' \in [Prefixes -> Manifests]
    BY <1>4, <2>1 DEF CommitDest, Manifests
  <2> QED BY <1>4, <2>2 DEF CommitDest, Unlock
<1>5. ASSUME NEW p \in Procs, LockSource(p)
      PROVE  DiskOK'
  <2>1. lock' = lock \/ lock' = [lock EXCEPT ![src[p]] = p]
    BY <1>5, SourceCases
  <2> QED BY <1>5, <2>1, SourceCases
<1>6. ASSUME NEW p \in Procs, RemoveFile(p) \/ FailRetirement(p)
      PROVE  DiskOK'
  BY <1>6 DEF RemoveFile, FailRetirement
<1>7. ASSUME NEW p \in Procs, CommitRetirement(p)
      PROVE  DiskOK'
  <2>1. manifest' \in [Prefixes -> Manifests]
    BY <1>7 DEF CommitRetirement, Manifests
  <2> QED BY <1>7, <2>1 DEF CommitRetirement, Unlock
<1>8. ASSUME NEW p \in Procs, Crash(p)
      PROVE  DiskOK'
  BY <1>8 DEF Crash
<1>9. ASSUME NEW f \in Prefixes, NEW c \in Crates, Install(f, c)
      PROVE  DiskOK'
  <2>1. PICK e \in Entries :
          /\ manifest' = [manifest EXCEPT ![f][c] = e]
          /\ files' = [files EXCEPT ![f] = (@ \ BinsOf(manifest[f], c)) \cup e.bins]
    BY <1>9, InstallEffect
  <2>2. manifest' \in [Prefixes -> Manifests]
    BY <2>1 DEF Manifests
  <2>3. e.bins \in SUBSET Bins
    BY DEF Entries
  <2>4. files' \in [Prefixes -> SUBSET Bins]
    BY <2>1, <2>3
  <2> QED BY <1>9, <2>2, <2>4 DEF Install
<1>10. ASSUME NEW f \in Prefixes, NEW c \in Crates, Remove(f, c)
       PROVE  DiskOK'
  <2>1. manifest' \in [Prefixes -> Manifests]
    BY <1>10 DEF Remove, Manifests
  <2> QED BY <1>10, <2>1 DEF Remove
<1>11. ASSUME NEW f \in Prefixes, NEW c \in Crates, SetPinned(f, c)
       PROVE  DiskOK'
  <2>1. PICK e \in Entries : manifest' = [manifest EXCEPT ![f][c] = e]
    BY <1>11, PinEffect
  <2>2. manifest' \in [Prefixes -> Manifests]
    BY <2>1 DEF Manifests
  <2> QED BY <1>11, <2>2 DEF SetPinned
<1>12. ASSUME NEW f \in Prefixes, CleanLeftovers(f)
       PROVE  DiskOK'
  BY <1>12 DEF CleanLeftovers
<1>13. ASSUME NEW c \in Crates, Publish(c)
       PROVE  DiskOK'
  <2>1. newest[c] + 1 \in Versions
    BY <1>13, MigrateAssumption DEF Publish, MigrateAssumption, Versions
  <2> QED BY <1>13, <2>1 DEF Publish
<1>14. CASE UpgradeToolchain
  <2>1. rustc + 1 \in Rustcs
    BY <1>14, MigrateAssumption DEF UpgradeToolchain, MigrateAssumption, Rustcs
  <2> QED BY <1>14, <2>1 DEF UpgradeToolchain
<1>15. CASE UNCHANGED vars
  BY <1>15 DEF vars
<1> QED
  BY <1>1, <1>2, <1>3, <1>4, <1>5, <1>6, <1>7, <1>8, <1>9, <1>10, <1>11, <1>12, <1>13, <1>14,
     <1>15 DEF Next, Migration, Work, World

\* People and the registry touch no migration's memory.
LEMMA WorldLeaves ==
  ASSUME World \/ UNCHANGED vars
  PROVE  UNCHANGED <<pc, plan, todo, cur, new, left, report>>
BY DEF World, vars, Install, Remove, SetPinned, CleanLeftovers, Publish, UpgradeToolchain

\* What migrations have in memory keeps its type.
LEMMA MemoryStep ==
  ASSUME TypeOK, [Next]_vars
  PROVE  PlanOK' /\ MemberOK' /\ StepOK'
<1> USE DEF plan, report
<1>1. ASSUME NEW p \in Procs, Plan(p)
      PROVE  PlanOK' /\ MemberOK' /\ StepOK'
  <2>1. PICK s \in Prefixes, d \in Prefixes :
           /\ s # d
           /\ \E S \in (SUBSET Installed(manifest[s])) \ {{}} :
                /\ todo' = [todo EXCEPT ![p] = S]
                /\ snap' = [snap EXCEPT ![p] =
                     [c \in Crates |-> IF c \in S THEN manifest[s][c] ELSE NoEntry]]
           /\ src' = [src EXCEPT ![p] = s] /\ dst' = [dst EXCEPT ![p] = d]
    BY <1>1 DEF Plan
  <2>2. PICK S \in (SUBSET Installed(manifest[s])) \ {{}} :
                /\ todo' = [todo EXCEPT ![p] = S]
                /\ snap' = [snap EXCEPT ![p] =
                     [c \in Crates |-> IF c \in S THEN manifest[s][c] ELSE NoEntry]]
    BY <2>1
  <2> DEFINE mine == [c \in Crates |-> IF c \in S THEN manifest[s][c] ELSE NoEntry]
  <2>3. /\ mine \in Manifests /\ S \subseteq Crates
        /\ \A c \in S : mine[c] # NoEntry
    BY DEF TypeOK, DiskOK, Manifests, Installed
  <2>4. snap' = [snap EXCEPT ![p] = mine]
    BY <2>2
  <2> HIDE DEF mine
  <2>5. PlanOK'
    BY <2>1, <2>2, <2>3, <2>4 DEF TypeOK, PlanOK
  <2>6. MemberOK'
    BY <1>1 DEF Plan, Goto, TypeOK, MemberOK, Steps
  <2>7. /\ pc'[p] = "confirm" /\ pc[p] = "idle" /\ cur' = cur
        /\ \A q \in Procs \ {p} : pc'[q] = pc[q]
    BY <1>1 DEF Plan, Goto, TypeOK, MemberOK
  <2>8. /\ src'[p] = s /\ dst'[p] = d /\ snap'[p] = mine /\ todo'[p] = S
        /\ \A q \in Procs \ {p} : /\ src'[q] = src[q] /\ dst'[q] = dst[q]
                                  /\ snap'[q] = snap[q] /\ todo'[q] = todo[q]
    BY <2>1, <2>2, <2>4 DEF TypeOK, PlanOK
  <2>9. cur[p] = NoCrate /\ s # NoPrefix /\ d # NoPrefix
    BY <2>7, MigrateAssumption DEF MigrateAssumption, TypeOK, StepOK
  <2>10. StepOK'
    BY <2>1, <2>2, <2>3, <2>7, <2>8, <2>9 DEF TypeOK, StepOK
  <2> QED BY <2>5, <2>6, <2>10
<1>2. ASSUME NEW p \in Procs, Confirm(p) \/ Probe(p) \/ Place(p) \/ CommitDest(p) \/ RemoveFile(p)
      PROVE  PlanOK' /\ MemberOK' /\ StepOK'
  <2>1. PlanOK'
    BY <1>2 DEF Confirm, Probe, Place, CommitDest, RemoveFile, TypeOK, PlanOK
  <2>2. /\ pc' \in [Procs -> Steps] /\ UNCHANGED <<cur, new, outcome>>
        /\ left' \in [Procs -> SUBSET Bins]
    BY <1>2 DEF Confirm, Probe, Place, CommitDest, RemoveFile, Goto, TypeOK, MemberOK, Steps,
       Entries
  <2>3. landed' \in [Procs -> SUBSET Crates]
    <3>1. CommitDest(p) => cur[p] \in Crates
      BY AtWork DEF CommitDest, InHand, Holding
    <3> QED BY <1>2, <3>1 DEF Confirm, Probe, Place, CommitDest, RemoveFile, TypeOK, MemberOK
  <2>4. StepOK'
    BY <1>2 DEF Confirm, Probe, Place, CommitDest, RemoveFile, Goto, TypeOK, StepOK, MemberOK
  <2> QED BY <2>1, <2>2, <2>3, <2>4 DEF TypeOK, MemberOK
<1>3. ASSUME NEW p \in Procs, Finish(p) \/ Crash(p)
      PROVE  PlanOK' /\ MemberOK' /\ StepOK'
  BY <1>3, ExitEffect DEF Finish, Crash
<1>4. ASSUME NEW p \in Procs, LockDest(p)
      PROVE  PlanOK' /\ MemberOK' /\ StepOK'
  <2>1. PICK c \in todo[p] :
          /\ todo' = [todo EXCEPT ![p] = @ \ {c}]
          /\ \/ /\ outcome' = [outcome EXCEPT ![p][c] = "failed"]
                /\ UNCHANGED <<lock, cur, pc>>
             \/ /\ cur' = [cur EXCEPT ![p] = c]
                /\ Goto(p, "build")
                /\ UNCHANGED outcome
    BY <1>4 DEF LockDest
  <2>2. c \in Crates /\ snap[p][c] # NoEntry /\ c # NoCrate /\ pc[p] = "next"
    BY <1>4, MigrateAssumption DEF MigrateAssumption, LockDest, TypeOK, PlanOK, StepOK
  <2>3. PlanOK'
    BY <1>4, <2>1 DEF LockDest, TypeOK, PlanOK
  <2>4. UNCHANGED <<src, dst, snap, new, left, landed>>
    BY <1>4 DEF LockDest
  <2>5. CASE outcome' = [outcome EXCEPT ![p][c] = "failed"] /\ UNCHANGED <<lock, cur, pc>>
    <3>1. MemberOK'
      BY <2>2, <2>4, <2>5 DEF TypeOK, MemberOK, Outcomes
    <3>2. StepOK'
      BY <2>1, <2>4, <2>5 DEF TypeOK, StepOK, PlanOK
    <3> QED BY <2>3, <3>1, <3>2
  <2>6. CASE cur' = [cur EXCEPT ![p] = c] /\ Goto(p, "build") /\ UNCHANGED outcome
    <3>1. MemberOK'
      BY <2>2, <2>4, <2>6 DEF TypeOK, MemberOK, Goto, Steps
    <3>2. StepOK'
      BY <2>1, <2>2, <2>4, <2>6 DEF TypeOK, StepOK, PlanOK, MemberOK, Goto
    <3> QED BY <2>3, <3>1, <3>2
  <2> QED BY <2>1, <2>5, <2>6
<1>5. ASSUME NEW p \in Procs, Build(p)
      PROVE  PlanOK' /\ MemberOK' /\ StepOK'
  <2> DEFINE c == cur[p]
             v == VersionFor(p, c)
             e == [version |-> v, bins |-> Provides[c][v], pinned |-> PinFor(p, c), rustc |-> rustc]
  <2>1. c \in Crates /\ snap[p][c] \in Entries
    BY <1>5, AtWork DEF Build, InHand, Holding
  <2>2. v \in Versions /\ PinFor(p, c) \in BOOLEAN
    BY <2>1 DEF VersionFor, PinFor, Entries, TypeOK, DiskOK
  <2>3. Provides[c][v] \in SUBSET Bins
    BY <2>1, <2>2, MigrateAssumption DEF MigrateAssumption
  <2>4. e \in Entries
    BY <2>2, <2>3 DEF Entries, TypeOK, DiskOK
  <2>5. new' = [new EXCEPT ![p] = e]
    BY <1>5 DEF Build
  <2>6. MemberOK'
    <3> HIDE DEF e
    <3> QED BY <1>5, <2>4, <2>5 DEF Build, Goto, TypeOK, MemberOK, Steps
  <2>7. PlanOK' /\ StepOK'
    BY <1>5 DEF Build, Goto, TypeOK, PlanOK, StepOK, MemberOK
  <2> QED BY <2>6, <2>7
<1>6. ASSUME NEW p \in Procs, Abandon(p) \/ FailPlacement(p) \/ CommitRetirement(p) \/ FailRetirement(p)
      PROVE  PlanOK' /\ MemberOK' /\ StepOK'
  <2>1. /\ \E o \in Outcomes : NextMember(p, o)
        /\ UNCHANGED <<plan, todo, landed>> /\ pc[p] \in InHand
    BY <1>6 DEF Abandon, FailPlacement, CommitRetirement, FailRetirement, Outcomes, InHand, Holding
  <2> QED BY <2>1, MemberEffect
<1>7. ASSUME NEW p \in Procs, LockSource(p)
      PROVE  PlanOK' /\ MemberOK' /\ StepOK'
  <2>1. pc[p] = "retire" /\ UNCHANGED <<plan, todo, landed>> /\ pc[p] \in InHand
    BY <1>7, SourceCases DEF InHand
  <2>2. ASSUME NEW o \in {"alreadyRetired", "incomplete"}, NextMember(p, o)
        PROVE  PlanOK' /\ MemberOK' /\ StepOK'
    BY <2>1, <2>2, MemberEffect DEF Outcomes
  <2>3. ASSUME manifest[src[p]][cur[p]] = snap[p][cur[p]],
               left' = [left EXCEPT ![p] = manifest[src[p]][cur[p]].bins],
               Goto(p, "remove"), UNCHANGED <<cur, new, outcome>>
        PROVE  PlanOK' /\ MemberOK' /\ StepOK'
    <3>1. manifest[src[p]][cur[p]].bins \in SUBSET Bins
      BY <2>1, <2>3, AtWork DEF Entries
    <3>2. MemberOK'
      BY <2>1, <2>3, <3>1 DEF Goto, TypeOK, MemberOK, Steps
    <3>3. PlanOK' /\ StepOK'
      BY <2>1, <2>3 DEF Goto, TypeOK, PlanOK, StepOK, MemberOK
    <3> QED BY <3>2, <3>3
  <2> QED BY <1>7, <2>2, <2>3, SourceCases
<1>8. CASE World \/ UNCHANGED vars
  BY <1>8, WorldLeaves DEF TypeOK, PlanOK, MemberOK, StepOK
<1> QED
  BY <1>1, <1>2, <1>3, <1>4, <1>5, <1>6, <1>7, <1>8 DEF Next, Migration, Work

\* Locks and the migrations that hold them agree.
LEMMA LockStep ==
  ASSUME TypeOK, LockInv, [Next]_vars
  PROVE  LockInv'
<1> USE DEF LockInv
<1>0. NoProc \notin Procs
  BY MigrateAssumption DEF MigrateAssumption
<1> DEFINE Holds(f, p) == \/ pc[p] \in {"build", "door", "place"} /\ f = dst[p]
                          \/ pc[p] = "remove" /\ f = src[p]
\* Whoever ends or reports a member in a step gives back the lock it has, and
\* everybody else keeps theirs.
<1>1. ASSUME NEW p \in Procs, pc'[p] \in {"idle", "next", "retire"},
             \A q \in Procs \ {p} : pc'[q] = pc[q] /\ src'[q] = src[q] /\ dst'[q] = dst[q],
             \A f \in Prefixes : lock'[f] = IF lock[f] = p THEN NoProc ELSE lock[f]
      PROVE  LockInv'
  <2>1. \A q \in Procs \ {p} : pc[q] # "idle" => src[q] \in Prefixes /\ dst[q] \in Prefixes
    BY AtWork
  <2>2. \A q \in Procs : /\ pc'[q] \in {"build", "door", "place"} => lock'[dst'[q]] = q
                         /\ pc'[q] = "remove" => lock'[src'[q]] = q
    BY <1>1, <2>1
  <2>3. \A f \in Prefixes, q \in Procs : lock'[f] = q =>
          \/ pc'[q] \in {"build", "door", "place"} /\ f = dst'[q]
          \/ pc'[q] = "remove" /\ f = src'[q]
    BY <1>0, <1>1
  <2> QED BY <2>2, <2>3
<1>2. ASSUME NEW p \in Procs, Plan(p) \/ Confirm(p)
      PROVE  LockInv'
  <2>1. pc[p] \in {"idle", "confirm"} /\ pc'[p] \in {"confirm", "next"} /\ UNCHANGED lock
    BY <1>2 DEF Plan, Confirm, Goto, TypeOK, MemberOK
  <2>2. \A q \in Procs \ {p} : pc'[q] = pc[q] /\ src'[q] = src[q] /\ dst'[q] = dst[q]
    BY <1>2 DEF Plan, Confirm, Goto, TypeOK, MemberOK, PlanOK, plan
  <2>3. \A f \in Prefixes : lock[f] # p
    BY <2>1
  <2> QED BY <2>1, <2>2, <2>3
<1>3. ASSUME NEW p \in Procs, Finish(p) \/ Crash(p)
      PROVE  LockInv'
  <2>1. Exit(p)
    BY <1>3 DEF Finish, Crash
  <2>2. \A f \in Prefixes : lock'[f] = IF lock[f] = p THEN NoProc ELSE lock[f]
    BY <1>3 DEF Finish, Crash, TypeOK, DiskOK
  <2> QED BY <1>1, <2>1, <2>2, ExitEffect
<1>4. ASSUME NEW p \in Procs, LockDest(p)
      PROVE  LockInv'
  <2>1. pc[p] = "next" /\ lock[dst[p]] = NoProc /\ UNCHANGED <<src, dst>> /\ dst[p] \in Prefixes
    BY <1>4, AtWork DEF LockDest, plan
  <2>2. \/ UNCHANGED <<lock, pc>>
        \/ lock' = [lock EXCEPT ![dst[p]] = p] /\ pc' = [pc EXCEPT ![p] = "build"]
    BY <1>4 DEF LockDest, Goto
  <2>3. CASE UNCHANGED <<lock, pc>>
    BY <2>1, <2>3
  <2>4. CASE lock' = [lock EXCEPT ![dst[p]] = p] /\ pc' = [pc EXCEPT ![p] = "build"]
    <3>1. \A q \in Procs : pc'[q] = IF q = p THEN "build" ELSE pc[q]
      BY <2>4 DEF TypeOK, MemberOK
    <3>2. \A f \in Prefixes : lock'[f] = IF f = dst[p] THEN p ELSE lock[f]
      BY <2>4 DEF TypeOK, DiskOK
    <3>3. \A q \in Procs \ {p} : pc[q] # "idle" => src[q] \in Prefixes /\ dst[q] \in Prefixes
      BY AtWork
    <3> QED BY <1>0, <2>1, <3>1, <3>2, <3>3
  <2> QED BY <2>2, <2>3, <2>4
<1>5. ASSUME NEW p \in Procs, Build(p) \/ Probe(p) \/ Place(p) \/ RemoveFile(p)
      PROVE  LockInv'
  <2>1. /\ UNCHANGED <<lock, src, dst>>
        /\ \/ pc[p] \in {"build", "door", "place"} /\ pc'[p] \in {"build", "door", "place"}
           \/ pc[p] = "remove" /\ pc'[p] = "remove"
    BY <1>5 DEF Build, Probe, Place, RemoveFile, Goto, TypeOK, MemberOK, plan
  <2>2. \A q \in Procs \ {p} : pc'[q] = pc[q]
    BY <1>5 DEF Build, Probe, Place, RemoveFile, Goto, TypeOK, MemberOK
  <2> QED BY <2>1, <2>2
<1>6. ASSUME NEW p \in Procs,
             Abandon(p) \/ FailPlacement(p) \/ CommitDest(p) \/ CommitRetirement(p) \/ FailRetirement(p)
      PROVE  LockInv'
  <2>1. UNCHANGED <<src, dst>> /\ pc'[p] \in {"next", "retire"}
    BY <1>6 DEF Abandon, FailPlacement, CommitDest, CommitRetirement, FailRetirement, NextMember,
       Goto, plan, TypeOK, MemberOK
  <2>2. \A q \in Procs \ {p} : pc'[q] = pc[q]
    BY <1>6 DEF Abandon, FailPlacement, CommitDest, CommitRetirement, FailRetirement, NextMember,
       Goto, TypeOK, MemberOK
  <2>3. \A f \in Prefixes : lock'[f] = IF lock[f] = p THEN NoProc ELSE lock[f]
    <3>1. src[p] \in Prefixes /\ dst[p] \in Prefixes
      BY <1>6, AtWork DEF Abandon, FailPlacement, CommitDest, CommitRetirement, FailRetirement
    <3>2. CASE Abandon(p) \/ FailPlacement(p) \/ CommitDest(p)
      <4>1. pc[p] \in {"build", "door", "place"} /\ lock' = [lock EXCEPT ![dst[p]] = NoProc]
        BY <3>2 DEF Abandon, FailPlacement, CommitDest, Unlock
      <4>2. \A f \in Prefixes : lock[f] = p <=> f = dst[p]
        BY <4>1
      <4> QED BY <4>1, <4>2 DEF TypeOK, DiskOK
    <3>3. CASE pc[p] = "remove" /\ lock' = [lock EXCEPT ![src[p]] = NoProc]
      <4>1. \A f \in Prefixes : lock[f] = p <=> f = src[p]
        BY <3>3
      <4> QED BY <3>3, <4>1 DEF TypeOK, DiskOK
    <3>4. CASE pc[p] = "retire" /\ lock' = lock
      <4>1. \A f \in Prefixes : lock[f] # p
        BY <3>4
      <4> QED BY <3>4, <4>1
    <3> QED
      BY <1>6, <3>2, <3>3, <3>4 DEF CommitRetirement, FailRetirement, Unlock
  <2> QED BY <1>1, <2>1, <2>2, <2>3
<1>7. ASSUME NEW p \in Procs, LockSource(p)
      PROVE  LockInv'
  <2>1. /\ pc[p] = "retire" /\ lock[src[p]] = NoProc /\ UNCHANGED <<src, dst>>
        /\ src[p] \in Prefixes
    BY <1>7, SourceCases, AtWork DEF plan
  <2>2. \A f \in Prefixes : lock[f] # p
    BY <2>1
  <2>3. \/ UNCHANGED lock /\ pc' = [pc EXCEPT ![p] = "next"]
        \/ lock' = [lock EXCEPT ![src[p]] = p] /\ pc' = [pc EXCEPT ![p] = "remove"]
    BY <1>7, SourceCases DEF NextMember, Goto
  <2>4. CASE UNCHANGED lock /\ pc' = [pc EXCEPT ![p] = "next"]
    <3>1. pc'[p] = "next" /\ \A q \in Procs \ {p} : pc'[q] = pc[q]
      BY <2>4 DEF TypeOK, MemberOK
    <3> QED BY <1>1, <2>1, <2>2, <2>4, <3>1
  <2>5. CASE lock' = [lock EXCEPT ![src[p]] = p] /\ pc' = [pc EXCEPT ![p] = "remove"]
    <3>1. \A q \in Procs : pc'[q] = IF q = p THEN "remove" ELSE pc[q]
      BY <2>5 DEF TypeOK, MemberOK
    <3>2. \A f \in Prefixes : lock'[f] = IF f = src[p] THEN p ELSE lock[f]
      BY <2>5 DEF TypeOK, DiskOK
    <3>3. \A q \in Procs \ {p} : pc[q] # "idle" => src[q] \in Prefixes /\ dst[q] \in Prefixes
      BY AtWork
    <3> QED BY <1>0, <2>1, <3>1, <3>2, <3>3
  <2> QED BY <2>3, <2>4, <2>5
<1>8. CASE World \/ UNCHANGED vars
  <2>1. UNCHANGED lock
    BY <1>8 DEF World, vars, Install, Remove, SetPinned, CleanLeftovers, Publish, UpgradeToolchain
  <2> QED BY <1>8, <2>1, WorldLeaves DEF plan
<1> QED
  BY <1>2, <1>3, <1>4, <1>5, <1>6, <1>7, <1>8 DEF Next, Migration, Work

\* What migration q has in memory stays as it is.
Unmoved(q) ==
  /\ pc'[q] = pc[q] /\ src'[q] = src[q] /\ dst'[q] = dst[q] /\ snap'[q] = snap[q]
  /\ todo'[q] = todo[q] /\ cur'[q] = cur[q] /\ new'[q] = new[q]
  /\ left'[q] = left[q] /\ outcome'[q] = outcome[q] /\ landed'[q] = landed[q]

\* A step is one migration's, or the world's.
LEMMA OneMoves ==
  ASSUME TypeOK, [Next]_vars
  PROVE  \/ \E p \in Procs : Migration(p) /\ \A q \in Procs \ {p} : Unmoved(q)
         \/ (World \/ UNCHANGED vars) /\ \A q \in Procs : Unmoved(q)
<1>1. CASE World \/ UNCHANGED vars
  BY <1>1, WorldLeaves DEF Unmoved, plan, report
<1>2. ASSUME NEW p \in Procs, Migration(p), NEW q \in Procs \ {p}
      PROVE  Unmoved(q)
  <2> USE DEF Unmoved, TypeOK, PlanOK, MemberOK, plan, report, Goto
  <2>1. CASE Plan(p) \/ Confirm(p) \/ LockDest(p)
    BY <2>1 DEF Plan, Confirm, LockDest
  <2>2. CASE Finish(p) \/ Crash(p)
    BY <2>2 DEF Finish, Crash, Exit
  <2>3. CASE Build(p) \/ Probe(p) \/ Place(p) \/ CommitDest(p) \/ RemoveFile(p)
    BY <2>3 DEF Build, Probe, Place, CommitDest, RemoveFile
  <2>4. CASE Abandon(p) \/ FailPlacement(p) \/ CommitRetirement(p) \/ FailRetirement(p)
    BY <2>4 DEF Abandon, FailPlacement, CommitRetirement, FailRetirement, NextMember
  <2>5. CASE LockSource(p)
    BY <2>5, SourceCases DEF NextMember
  <2> QED BY <1>2, <2>1, <2>2, <2>3, <2>4, <2>5 DEF Migration, Work
<1> QED BY <1>1, <1>2 DEF Next

\* A manifest changes under its prefix's lock only: at a commit of its holder, or
\* when a person's command has it.
LEMMA ManifestMoves ==
  ASSUME TypeOK, LockInv, [Next]_vars, NEW f \in Prefixes
  PROVE  \/ manifest'[f] = manifest[f]
         \/ lock[f] = NoProc /\ World
         \/ \E p \in Procs : CommitDest(p) /\ f = dst[p] /\ lock[f] = p
         \/ \E p \in Procs : CommitRetirement(p) /\ f = src[p] /\ lock[f] = p
<1> USE DEF TypeOK, DiskOK
<1>1. ASSUME NEW p \in Procs, Migration(p), ~CommitDest(p), ~CommitRetirement(p)
      PROVE  manifest' = manifest
  <2>1. CASE LockSource(p)
    BY <2>1, SourceCases
  <2> QED
    BY <1>1, <2>1 DEF Migration, Work, Plan, Confirm, Finish, LockDest, Build, Abandon, Probe, Place,
       FailPlacement, RemoveFile, FailRetirement, Crash
<1>2. ASSUME NEW p \in Procs, CommitDest(p)
      PROVE  manifest'[f] = manifest[f] \/ (f = dst[p] /\ lock[f] = p)
  BY <1>2 DEF CommitDest, LockInv
<1>3. ASSUME NEW p \in Procs, CommitRetirement(p)
      PROVE  manifest'[f] = manifest[f] \/ (f = src[p] /\ lock[f] = p)
  BY <1>3 DEF CommitRetirement, LockInv
<1>4. ASSUME NEW g \in Prefixes, NEW c \in Crates, Install(g, c) \/ Remove(g, c) \/ SetPinned(g, c)
      PROVE  manifest'[f] = manifest[f] \/ lock[f] = NoProc
  BY <1>4 DEF Install, Remove, SetPinned
<1>5. ASSUME (\E g \in Prefixes : CleanLeftovers(g)) \/ (\E c \in Crates : Publish(c))
               \/ UpgradeToolchain \/ UNCHANGED vars
      PROVE  manifest' = manifest
  BY <1>5 DEF CleanLeftovers, Publish, UpgradeToolchain, vars
<1>6. CASE World
  BY <1>4, <1>5, <1>6 DEF World
<1> QED BY <1>1, <1>2, <1>3, <1>5, <1>6 DEF Next

\* A new entry whose names nobody else owns leaves every name with one owner.
LEMMA OwnersKept ==
  ASSUME TypeOK, OwnersInv, NEW f \in Prefixes, NEW c \in Crates, NEW e \in Entries \cup {NoEntry},
         manifest' = [manifest EXCEPT ![f][c] = e],
         e # NoEntry => \A d \in Crates \ {c} : e.bins \cap BinsOf(manifest[f], d) = {}
  PROVE  OwnersInv'
<1>1. \A g \in Prefixes, d \in Crates :
        manifest'[g][d] = IF g = f /\ d = c THEN e ELSE manifest[g][d]
  BY DEF TypeOK, DiskOK, Manifests
<1> SUFFICES ASSUME NEW g \in Prefixes, NEW d \in Crates, NEW h \in Crates, d # h
             PROVE  BinsOf(manifest'[g], d) \cap BinsOf(manifest'[g], h) = {}
  BY DEF OwnersInv
<1>2. BinsOf(manifest[g], d) \cap BinsOf(manifest[g], h) = {}
  BY DEF OwnersInv
<1>3. CASE g = f /\ d = c
  BY <1>1, <1>3 DEF BinsOf
<1>4. CASE g = f /\ h = c
  BY <1>1, <1>4 DEF BinsOf
<1>5. CASE g # f \/ (d # c /\ h # c)
  BY <1>1, <1>2, <1>5 DEF BinsOf
<1> QED BY <1>3, <1>4, <1>5

\* check_collisions leaves only names of the crate's own, or of nobody.
LEMMA NoCollisionFree ==
  ASSUME TypeOK, OwnersInv, NEW f \in Prefixes, NEW c \in Crates, NEW bins, NoCollision(f, c, bins),
         NEW d \in Crates \ {c}
  PROVE  bins \cap BinsOf(manifest[f], d) = {}
<1> SUFFICES ASSUME NEW b \in bins, b \in BinsOf(manifest[f], d) PROVE FALSE
  OBVIOUS
<1>1. b \notin BinsOf(manifest[f], c)
  BY DEF OwnersInv
<1>2. b \in Claimed(manifest[f])
  BY DEF Claimed
<1> QED BY <1>1, <1>2 DEF NoCollision

\* No two crates of a prefix come to own the same name.
LEMMA OwnersStep ==
  ASSUME TypeOK, LockInv, OwnersInv, BuildInv, [Next]_vars
  PROVE  OwnersInv'
<1>1. CASE manifest' = manifest
  BY <1>1 DEF OwnersInv
<1>2. ASSUME NEW p \in Procs, CommitDest(p)
      PROVE  OwnersInv'
  <2>1. /\ dst[p] \in Prefixes /\ cur[p] \in Crates /\ new[p] \in Entries
        /\ \A d \in Crates : new[p].bins \cap BinsOf(manifest[dst[p]], d) = {}
    BY <1>2, AtWork DEF CommitDest, TypeOK, MemberOK, InHand, Holding, BuildInv
  <2> QED BY <1>2, <2>1, OwnersKept DEF CommitDest
<1>3. ASSUME NEW p \in Procs, CommitRetirement(p)
      PROVE  OwnersInv'
  <2>1. src[p] \in Prefixes /\ cur[p] \in Crates
    BY <1>3, AtWork DEF CommitRetirement, InHand
  <2> QED BY <1>3, <2>1, OwnersKept DEF CommitRetirement
<1>4. ASSUME NEW f \in Prefixes, NEW c \in Crates, Install(f, c)
      PROVE  OwnersInv'
  <2>1. PICK e \in Entries : /\ NoCollision(f, c, e.bins)
                             /\ manifest' = [manifest EXCEPT ![f][c] = e]
    BY <1>4, InstallEffect
  <2>2. \A d \in Crates \ {c} : e.bins \cap BinsOf(manifest[f], d) = {}
    BY <2>1, NoCollisionFree
  <2> QED BY <2>1, <2>2, OwnersKept
<1>5. ASSUME NEW f \in Prefixes, NEW c \in Crates, Remove(f, c)
      PROVE  OwnersInv'
  BY <1>5, OwnersKept DEF Remove
<1>6. ASSUME NEW f \in Prefixes, NEW c \in Crates, SetPinned(f, c)
      PROVE  OwnersInv'
  <2>1. PICK e \in Entries : /\ e.bins = manifest[f][c].bins
                             /\ manifest' = [manifest EXCEPT ![f][c] = e]
    BY <1>6, PinEffect
  <2>2. \A d \in Crates \ {c} : e.bins \cap BinsOf(manifest[f], d) = {}
    BY <1>6, <2>1 DEF SetPinned, OwnersInv, BinsOf
  <2> QED BY <2>1, <2>2, OwnersKept
<1>7. ASSUME NEW p \in Procs, Migration(p), ~CommitDest(p), ~CommitRetirement(p)
      PROVE  manifest' = manifest
  <2>1. CASE LockSource(p)
    BY <2>1, SourceCases
  <2> QED
    BY <1>7, <2>1 DEF Migration, Work, Plan, Confirm, Finish, LockDest, Build, Abandon, Probe, Place,
       FailPlacement, RemoveFile, FailRetirement, Crash
<1>8. ASSUME (\E g \in Prefixes : CleanLeftovers(g)) \/ (\E c \in Crates : Publish(c))
               \/ UpgradeToolchain \/ UNCHANGED vars
      PROVE  manifest' = manifest
  BY <1>8 DEF CleanLeftovers, Publish, UpgradeToolchain, vars
<1> QED BY <1>1, <1>2, <1>3, <1>4, <1>5, <1>6, <1>7, <1>8 DEF Next, World

\* Behind the lock of its destination, or of its source, nobody changes the manifest
\* of a migration that is not moving itself.
LEMMA Undisturbed ==
  ASSUME TypeOK, LockInv, [Next]_vars, NEW q \in Procs,
         \A r \in Procs : Migration(r) => r # q
  PROVE  /\ pc[q] \in Holding => manifest'[dst[q]] = manifest[dst[q]]
         /\ pc[q] = "remove" => manifest'[src[q]] = manifest[src[q]]
<1>1. NoProc # q
  BY MigrateAssumption DEF MigrateAssumption
<1>2. pc[q] \in Holding => dst[q] \in Prefixes /\ lock[dst[q]] = q
  BY AtWork DEF LockInv, Holding
<1>3. pc[q] = "remove" => src[q] \in Prefixes /\ lock[src[q]] = q
  BY AtWork DEF LockInv
<1>4. \A f \in Prefixes : lock[f] = q => manifest'[f] = manifest[f]
  BY <1>1, ManifestMoves DEF Migration, Work
<1> QED BY <1>2, <1>3, <1>4

\* What is built, and the destination it is built for, stay as the plan has them.
LEMMA BuildStep ==
  ASSUME TypeOK, LockInv, OwnersInv, BuildInv, [Next]_vars
  PROVE  BuildInv'
<1> DEFINE Ready(q) ==
      /\ pc[q] \in Holding => manifest[dst[q]][cur[q]] = NoEntry
      /\ pc[q] \in {"door", "place"} =>
           /\ new[q].pinned = snap[q][cur[q]].pinned
           /\ new[q].pinned => new[q].version = snap[q][cur[q]].version
           /\ \A d \in Crates : new[q].bins \cap BinsOf(manifest[dst[q]], d) = {}
<1>1. \A q \in Procs : Ready(q)
  BY DEF BuildInv, Holding
<1>2. ASSUME NEW q \in Procs, Unmoved(q), pc[q] \in Holding => manifest'[dst[q]] = manifest[dst[q]]
      PROVE  Ready(q)'
  BY <1>1, <1>2 DEF Unmoved, Holding, BinsOf
<1>3. ASSUME NEW p \in Procs, Migration(p)
      PROVE  Ready(p)'
  <2>1. CASE pc'[p] \notin Holding
    BY <2>1 DEF Holding
  <2>2. CASE LockDest(p) /\ pc'[p] \in Holding
    <3>1. PICK c \in todo[p] :
            /\ c \notin Installed(manifest[dst[p]])
            /\ cur' = [cur EXCEPT ![p] = c] /\ pc' = [pc EXCEPT ![p] = "build"]
      <4>1. pc[p] = "next"
        BY <2>2 DEF LockDest
      <4> QED BY <2>2, <4>1 DEF LockDest, Goto, Holding
    <3>2. pc'[p] = "build" /\ cur'[p] = c /\ c \in Crates /\ UNCHANGED <<manifest, dst>>
      BY <2>2, <3>1 DEF LockDest, plan, TypeOK, MemberOK, PlanOK
    <3> QED BY <3>1, <3>2 DEF Installed
  <2>3. CASE Build(p)
    <3> DEFINE c == cur[p]
               e == [version |-> VersionFor(p, c), bins |-> Provides[c][VersionFor(p, c)],
                     pinned |-> PinFor(p, c), rustc |-> rustc]
    <3>1. /\ new'[p] = e /\ NoCollision(dst[p], c, e.bins) /\ pc[p] = "build"
          /\ UNCHANGED <<manifest, dst, snap, cur>>
      BY <2>3 DEF Build, plan, TypeOK, MemberOK
    <3>2. manifest[dst[p]][c] = NoEntry /\ dst[p] \in Prefixes /\ c \in Crates
      BY <1>1, <3>1, AtWork DEF Holding, InHand
    <3>3. \A d \in Crates : e.bins \cap BinsOf(manifest[dst[p]], d) = {}
      <4>1. BinsOf(manifest[dst[p]], c) = {}
        BY <3>2 DEF BinsOf
      <4> HIDE DEF e
      <4> QED BY <3>1, <3>2, <4>1, NoCollisionFree
    <3>4. e.pinned = snap[p][c].pinned /\ (e.pinned => e.version = snap[p][c].version)
      BY DEF PinFor, VersionFor
    <3> HIDE DEF e
    <3> QED BY <3>1, <3>2, <3>3, <3>4 DEF BinsOf
  <2>4. CASE Probe(p) \/ Place(p)
    <3>1. pc[p] \in {"door", "place"} /\ UNCHANGED <<manifest, dst, snap, cur, new>>
      BY <2>4 DEF Probe, Place, plan
    <3> QED BY <1>1, <3>1 DEF Holding, BinsOf
  <2>5. CASE Plan(p) \/ Confirm(p) \/ Finish(p) \/ Crash(p)
    <3>1. pc'[p] \notin Holding
      BY <2>5, ExitEffect DEF Plan, Confirm, Finish, Crash, Goto, TypeOK, MemberOK, Holding
    <3> QED BY <2>1, <3>1
  <2>6. CASE Abandon(p) \/ CommitDest(p) \/ FailPlacement(p) \/ RemoveFile(p) \/ CommitRetirement(p)
               \/ FailRetirement(p)
    <3>1. pc'[p] \notin Holding
      BY <2>6 DEF Abandon, CommitDest, FailPlacement, RemoveFile, CommitRetirement, FailRetirement,
         NextMember, Goto, TypeOK, MemberOK, Holding
    <3> QED BY <2>1, <3>1
  <2>7. CASE LockSource(p)
    <3>1. pc'[p] \notin Holding
      BY <2>7, SourceCases DEF NextMember, Goto, TypeOK, MemberOK, Holding
    <3> QED BY <2>1, <3>1
  <2> QED BY <1>3, <2>1, <2>2, <2>3, <2>4, <2>5, <2>6, <2>7 DEF Migration, Work
<1>4. \A q \in Procs : Ready(q)'
  <2> SUFFICES ASSUME NEW q \in Procs PROVE Ready(q)'
    OBVIOUS
  <2>1. CASE Migration(q)
    BY <1>3, <2>1
  <2>2. CASE ~Migration(q)
    <3>1. Unmoved(q)
      BY <2>2, OneMoves
    <3>2. \A r \in Procs : Migration(r) => r # q
      BY <2>2
    <3> QED BY <1>2, <3>1, <3>2, Undisturbed
  <2> QED BY <2>1, <2>2
<1> QED BY <1>4 DEF BuildInv, Holding

\* The entry being removed stays the plan's.
LEMMA RemoveStep ==
  ASSUME TypeOK, LockInv, RemoveInv, [Next]_vars
  PROVE  RemoveInv'
<1> DEFINE Right(q) == pc[q] = "remove" =>
      manifest[src[q]][cur[q]] = snap[q][cur[q]] /\ left[q] \subseteq snap[q][cur[q]].bins
<1>1. \A q \in Procs : Right(q)
  BY DEF RemoveInv
<1>2. ASSUME NEW q \in Procs, Unmoved(q), pc[q] = "remove" => manifest'[src[q]] = manifest[src[q]]
      PROVE  Right(q)'
  <2> SUFFICES ASSUME pc'[q] = "remove"
               PROVE  manifest'[src'[q]][cur'[q]] = snap'[q][cur'[q]]
                        /\ left'[q] \subseteq snap'[q][cur'[q]].bins
    OBVIOUS
  <2>1. /\ src'[q] = src[q] /\ cur'[q] = cur[q] /\ snap'[q] = snap[q] /\ left'[q] = left[q]
        /\ pc[q] = "remove"
    BY <1>2 DEF Unmoved
  <2>2. manifest'[src[q]] = manifest[src[q]]
    BY <1>2, <2>1
  <2> QED BY <1>1, <2>1, <2>2
<1>3. ASSUME NEW p \in Procs, Migration(p)
      PROVE  Right(p)'
  <2>1. CASE pc'[p] # "remove"
    BY <2>1
  <2>2. CASE LockSource(p) /\ pc'[p] = "remove"
    <3>1. /\ UNCHANGED <<manifest, src, snap, cur>>
          /\ manifest[src[p]][cur[p]] = snap[p][cur[p]]
          /\ left' = [left EXCEPT ![p] = manifest[src[p]][cur[p]].bins]
      BY <2>2, SourceCases DEF NextMember, Goto, plan, TypeOK, MemberOK
    <3>2. left'[p] = snap[p][cur[p]].bins
      BY <3>1 DEF TypeOK, MemberOK
    <3> QED BY <3>1, <3>2
  <2>3. CASE RemoveFile(p)
    <3>1. pc[p] = "remove" /\ UNCHANGED <<manifest, src, snap, cur>> /\ left'[p] \subseteq left[p]
      BY <2>3 DEF RemoveFile, plan, TypeOK, MemberOK
    <3> QED BY <1>1, <3>1
  <2>4. CASE Plan(p) \/ Confirm(p) \/ LockDest(p) \/ Finish(p) \/ Crash(p)
    <3>1. pc'[p] # "remove"
      BY <2>4, ExitEffect DEF Plan, Confirm, LockDest, Finish, Crash, Goto, TypeOK, MemberOK
    <3> QED BY <2>1, <3>1
  <2>5. CASE Build(p) \/ Abandon(p) \/ Probe(p) \/ Place(p) \/ CommitDest(p) \/ FailPlacement(p)
               \/ CommitRetirement(p) \/ FailRetirement(p)
    <3>1. pc'[p] # "remove"
      BY <2>5 DEF Build, Abandon, Probe, Place, CommitDest, FailPlacement, CommitRetirement,
         FailRetirement, NextMember, Goto, TypeOK, MemberOK
    <3> QED BY <2>1, <3>1
  <2> QED BY <1>3, <2>1, <2>2, <2>3, <2>4, <2>5 DEF Migration, Work
<1>4. \A q \in Procs : Right(q)'
  <2> SUFFICES ASSUME NEW q \in Procs PROVE Right(q)'
    OBVIOUS
  <2>1. CASE Migration(q)
    BY <1>3, <2>1
  <2>2. CASE ~Migration(q)
    <3>1. Unmoved(q)
      BY <2>2, OneMoves
    <3>2. \A r \in Procs : Migration(r) => r # q
      BY <2>2
    <3> QED BY <1>2, <3>1, <3>2, Undisturbed
  <2> QED BY <2>1, <2>2
<1> QED BY <1>4 DEF RemoveInv

\* The destinations committed are those of members done with there.
LEMMA LandedStep ==
  ASSUME TypeOK, LandedInv, [Next]_vars
  PROVE  LandedInv'
<1> DEFINE Done(q) ==
      /\ landed[q] \cap todo[q] = {}
      /\ cur[q] \notin todo[q]
      /\ pc[q] \in Holding => cur[q] \notin landed[q]
      /\ pc[q] \in {"retire", "remove"} => cur[q] \in landed[q]
      /\ pc[q] = "idle" => landed[q] = {} /\ outcome[q] = NoOutcome
<1>1. \A q \in Procs : Done(q)
  BY DEF LandedInv, Holding
<1>2. ASSUME NEW q \in Procs, Unmoved(q)
      PROVE  Done(q)'
  BY <1>1, <1>2 DEF Unmoved
<1>3. ASSUME NEW p \in Procs, Migration(p)
      PROVE  Done(p)'
  <2>0. NoCrate \notin Crates /\ landed[p] \subseteq Crates /\ todo[p] \subseteq Crates
    BY MigrateAssumption DEF MigrateAssumption, TypeOK, MemberOK, PlanOK
  <2> USE DEF Holding
  <2>1. CASE Plan(p)
    <3>1. pc[p] = "idle" /\ pc'[p] = "confirm" /\ UNCHANGED <<cur, landed>>
      BY <2>1 DEF Plan, Goto, report, TypeOK, MemberOK
    <3>2. cur[p] = NoCrate
      BY <3>1, AtWork DEF InHand
    <3>3. todo'[p] \subseteq Crates
      BY MemoryStep DEF PlanOK
    <3> QED BY <1>1, <2>0, <3>1, <3>2, <3>3
  <2>2. CASE Confirm(p)
    BY <1>1, <2>2 DEF Confirm, Goto, TypeOK, MemberOK, report
  <2>3. CASE Finish(p) \/ Crash(p)
    <3>1. Exit(p)
      BY <2>3 DEF Finish, Crash
    <3> QED BY <3>1, ExitEffect
  <2>4. CASE LockDest(p)
    <3>1. PICK c \in todo[p] :
            /\ todo' = [todo EXCEPT ![p] = @ \ {c}]
            /\ \/ UNCHANGED <<cur, pc>>
               \/ cur' = [cur EXCEPT ![p] = c] /\ pc' = [pc EXCEPT ![p] = "build"]
      BY <2>4 DEF LockDest, Goto
    <3>2. /\ todo'[p] = todo[p] \ {c} /\ UNCHANGED landed /\ pc[p] = "next"
          /\ \/ UNCHANGED <<cur, pc>>
             \/ cur'[p] = c /\ pc'[p] = "build"
      BY <2>4, <3>1 DEF LockDest, TypeOK, MemberOK, PlanOK
    <3> QED BY <1>1, <3>1, <3>2
  <2>5. CASE Build(p) \/ Probe(p) \/ Place(p) \/ RemoveFile(p)
    <3>1. /\ UNCHANGED <<todo, cur, landed>>
          /\ \/ pc[p] \in Holding /\ pc'[p] \in Holding
             \/ pc[p] = "remove" /\ pc'[p] = "remove"
      BY <2>5 DEF Build, Probe, Place, RemoveFile, Goto, TypeOK, MemberOK, report
    <3> QED BY <1>1, <3>1
  <2>6. CASE CommitDest(p)
    <3>1. /\ UNCHANGED <<todo, cur>> /\ landed'[p] = landed[p] \cup {cur[p]}
          /\ pc'[p] = "retire"
      BY <2>6 DEF CommitDest, Goto, TypeOK, MemberOK
    <3> QED BY <1>1, <3>1
  <2>7. CASE Abandon(p) \/ FailPlacement(p) \/ CommitRetirement(p) \/ FailRetirement(p)
    <3>1. UNCHANGED <<todo, landed>> /\ pc'[p] = "next" /\ cur'[p] = NoCrate
      BY <2>7 DEF Abandon, FailPlacement, CommitRetirement, FailRetirement, NextMember, Goto,
         TypeOK, MemberOK
    <3> QED BY <1>1, <2>0, <3>1
  <2>8. CASE LockSource(p)
    <3>1. /\ UNCHANGED <<todo, landed>> /\ pc[p] = "retire"
          /\ \/ pc'[p] = "next" /\ cur'[p] = NoCrate
             \/ pc'[p] = "remove" /\ cur' = cur
      BY <2>8, SourceCases DEF NextMember, Goto, TypeOK, MemberOK
    <3> QED BY <1>1, <2>0, <3>1
  <2> QED BY <1>3, <2>1, <2>2, <2>3, <2>4, <2>5, <2>6, <2>7, <2>8 DEF Migration, Work
<1>4. \A q \in Procs : Done(q)'
  BY <1>2, <1>3, OneMoves
<1> QED BY <1>4 DEF LandedInv, Holding

\* Nothing runs and nothing is installed at first.
LEMMA InitInv ==
  ASSUME Init
  PROVE  IInv
<1>1. DiskOK
  BY Blanks, MigrateAssumption DEF MigrateAssumption, Init, DiskOK, Versions, Rustcs
<1>2. PlanOK /\ MemberOK
  BY Blanks DEF Init, PlanOK, MemberOK, Steps
<1>3. StepOK /\ RemoveInv /\ BuildInv
  BY DEF Init, StepOK, RemoveInv, BuildInv
<1>4. OwnersInv
  BY Blanks DEF Init, OwnersInv, BinsOf
<1>5. LockInv
  BY MigrateAssumption DEF MigrateAssumption, Init, LockInv
<1>6. LandedInv
  BY DEF Init, LandedInv
<1> QED BY <1>1, <1>2, <1>3, <1>4, <1>5, <1>6 DEF IInv, TypeOK

\* The parts of the invariant hold together always, of any number of migrations.
THEOREM InductiveInvariant == Spec => []IInv
<1>1. IInv /\ [Next]_vars => IInv'
  <2> SUFFICES ASSUME IInv, [Next]_vars PROVE IInv'
    OBVIOUS
  <2> USE DEF IInv
  <2>1. TypeOK'
    BY DiskStep, MemoryStep DEF TypeOK
  <2>2. LockInv' /\ OwnersInv'
    BY LockStep, OwnersStep
  <2>3. BuildInv' /\ RemoveInv' /\ LandedInv'
    BY BuildStep, RemoveStep, LandedStep
  <2> QED BY <2>1, <2>2, <2>3
<1> QED BY InitInv, <1>1, PTL DEF Spec

-----------------------------------------------------------------------------
(* The properties.                                                         *)

\* Every variable has its type.
THEOREM TypeCorrect == Spec => []TypeOK
<1>1. IInv => TypeOK
  BY DEF IInv
<1> QED BY <1>1, InductiveInvariant, PTL

\* What is committed at the destination follows the confirmed entry's policy
\* (rebuild_at_destination).
THEOREM PolicyKept == Spec => PolicyTravels
<1>1. ASSUME IInv, [Next]_vars, NEW p \in Procs, NEW c \in Crates, c \in landed'[p] \ landed[p]
      PROVE  LET e == manifest'[dst[p]][c]
             IN  /\ e.pinned = snap[p][c].pinned
                 /\ e.pinned => e.version = snap[p][c].version
                 /\ manifest[dst[p]][c] = NoEntry
  <2>1. CommitDest(p)
    <3>1. Migration(p)
      BY <1>1, OneMoves DEF IInv, Unmoved
    <3>2. ~Finish(p) /\ ~Crash(p)
      BY <1>1, ExitEffect DEF Finish, Crash, IInv
    <3>3. ~LockSource(p)
      BY <1>1, SourceCases
    <3>4. landed' # landed
      BY <1>1
    <3>5. ~(Plan(p) \/ Confirm(p) \/ LockDest(p) \/ Build(p) \/ Probe(p) \/ Place(p) \/ RemoveFile(p))
      BY <3>4 DEF Plan, Confirm, LockDest, Build, Probe, Place, RemoveFile, report
    <3>6. ~(Abandon(p) \/ FailPlacement(p) \/ CommitRetirement(p) \/ FailRetirement(p))
      BY <3>4 DEF Abandon, FailPlacement, CommitRetirement, FailRetirement
    <3> QED BY <3>1, <3>2, <3>3, <3>5, <3>6 DEF Migration, Work
  <2>2. c = cur[p] /\ dst[p] \in Prefixes
    BY <1>1, <2>1, AtWork DEF CommitDest, IInv, TypeOK, MemberOK
  <2>3. manifest'[dst[p]][c] = new[p]
    BY <1>1, <2>1, <2>2 DEF CommitDest, IInv, TypeOK, DiskOK, Manifests
  <2> QED BY <1>1, <2>1, <2>2, <2>3 DEF CommitDest, IInv, BuildInv
<1>2. IInv /\ [Next]_vars =>
        [\A p \in Procs, c \in Crates : c \in landed'[p] \ landed[p] =>
             LET e == manifest'[dst[p]][c]
             IN /\ e.pinned = snap[p][c].pinned
                /\ e.pinned => e.version = snap[p][c].version
                /\ manifest[dst[p]][c] = NoEntry]_vars
  BY <1>1
<1> QED BY <1>2, InductiveInvariant, PTL DEF Spec, PolicyTravels

\* What a migration reports of a member is what became of it (migrate_one).
THEOREM ReportTruthful == Spec => ReportTrue
<1>1. ASSUME IInv, [Next]_vars, NEW p \in Procs, NEW c \in Crates, outcome'[p][c] # outcome[p][c]
      PROVE  /\ outcome'[p][c] = "failed" => c \notin landed[p]
             /\ outcome'[p][c] \in {"moved", "incomplete", "alreadyRetired"} => c \in landed[p]
             /\ outcome'[p][c] \in {"moved", "alreadyRetired"} => manifest'[src[p]][c] = NoEntry
  <2> USE <1>1 DEF IInv
  <2>1. Migration(p)
    BY OneMoves DEF Unmoved
  <2>2. CASE Finish(p) \/ Crash(p)
    <3>1. outcome'[p][c] = "none"
      BY <2>2, ExitEffect, Blanks DEF Finish, Crash
    <3> QED BY <3>1
  <2>3. CASE LockDest(p)
    <3>1. PICK d \in todo[p] :
            outcome' = outcome \/ outcome' = [outcome EXCEPT ![p][d] = "failed"]
      BY <2>3 DEF LockDest
    <3>2. c = d /\ outcome'[p][c] = "failed"
      BY <3>1 DEF TypeOK, MemberOK
    <3> QED BY <3>2 DEF LandedInv
  <2>4. CASE Abandon(p) \/ FailPlacement(p)
    <3>1. pc[p] \in Holding /\ NextMember(p, "failed") /\ UNCHANGED <<plan, todo, landed>>
      BY <2>4 DEF Abandon, FailPlacement, Holding
    <3>2. c = cur[p] /\ outcome'[p][c] = "failed"
      BY <3>1, MemberEffect DEF InHand, Outcomes
    <3> QED BY <3>1, <3>2 DEF LandedInv, Holding
  <2>5. CASE FailRetirement(p)
    <3>1. pc[p] \in {"retire", "remove"} /\ NextMember(p, "incomplete") /\ UNCHANGED <<plan, todo, landed>>
      BY <2>5 DEF FailRetirement
    <3>2. c = cur[p] /\ outcome'[p][c] = "incomplete"
      BY <3>1, MemberEffect DEF InHand, Outcomes
    <3> QED BY <3>1, <3>2 DEF LandedInv
  <2>6. CASE CommitRetirement(p)
    <3>1. pc[p] = "remove" /\ NextMember(p, "moved") /\ UNCHANGED <<plan, todo, landed>>
      BY <2>6 DEF CommitRetirement
    <3>2. c = cur[p] /\ outcome'[p][c] = "moved" /\ src[p] \in Prefixes
      BY <3>1, MemberEffect, AtWork DEF InHand, Outcomes
    <3>3. manifest'[src[p]][c] = NoEntry
      BY <2>6, <3>2 DEF CommitRetirement, TypeOK, DiskOK, Manifests
    <3> QED BY <3>1, <3>2, <3>3 DEF LandedInv
  <2>7. CASE LockSource(p)
    <3>1. pc[p] = "retire" /\ UNCHANGED <<manifest, plan, todo, landed>>
      BY <2>7, SourceCases
    <3>2. PICK o \in {"alreadyRetired", "incomplete"} :
            NextMember(p, o) /\ (o = "alreadyRetired" => manifest[src[p]][cur[p]] = NoEntry)
      BY <2>7, SourceCases
    <3>3. c = cur[p] /\ outcome'[p][c] = o
      BY <3>1, <3>2, MemberEffect DEF InHand, Outcomes
    <3> QED BY <3>1, <3>2, <3>3 DEF LandedInv
  <2>8. outcome' # outcome
    OBVIOUS
  <2>9. ~(Plan(p) \/ Confirm(p) \/ Build(p) \/ Probe(p) \/ Place(p) \/ CommitDest(p) \/ RemoveFile(p))
    BY <2>8 DEF Plan, Confirm, Build, Probe, Place, CommitDest, RemoveFile, report
  <2> QED
    BY <2>1, <2>2, <2>3, <2>4, <2>5, <2>6, <2>7, <2>9 DEF Migration, Work
<1>2. IInv /\ [Next]_vars =>
        [\A p \in Procs, c \in Crates : outcome'[p][c] # outcome[p][c] =>
             /\ outcome'[p][c] = "failed" => c \notin landed[p]
             /\ outcome'[p][c] \in {"moved", "incomplete", "alreadyRetired"} => c \in landed[p]
             /\ outcome'[p][c] \in {"moved", "alreadyRetired"} => manifest'[src[p]][c] = NoEntry]_vars
  BY <1>1
<1> QED BY <1>2, InductiveInvariant, PTL DEF Spec, ReportTrue

\* What disappears from a prefix is what someone confirmed a migration of, or what
\* someone removed (retire_source).
THEOREM OnlyConfirmedRetired == Spec => RetiresAsConfirmed
<1> DEFINE Confirmed(f, c) ==
      \/ \E p \in Procs : /\ pc[p] = "remove" /\ src[p] = f /\ cur[p] = c
                          /\ snap[p][c] = manifest[f][c]
      \/ PersonRemoves /\ lock[f] = NoProc
<1>1. ASSUME IInv, [Next]_vars, NEW f \in Prefixes, NEW c \in Crates, Taken(f, c)
      PROVE  Confirmed(f, c)
  <2> USE DEF IInv
  <2>1. /\ manifest[f][c] # NoEntry /\ manifest[f][c] \in Entries
        /\ manifest'[f][c] \in {manifest[f][c], NoEntry}
        /\ manifest'[f][c] = NoEntry \/ \E b \in manifest[f][c].bins : b \in files[f] \ files'[f]
    BY <1>1 DEF Taken, TypeOK, DiskOK, Manifests
  <2>2. ASSUME manifest'[f] = manifest[f], files[f] \subseteq files'[f]
        PROVE  FALSE
    BY <2>1, <2>2
  <2>3. ASSUME NEW p \in Procs, CommitDest(p)
        PROVE  FALSE
    <3>1. manifest[dst[p]][cur[p]] = NoEntry /\ dst[p] \in Prefixes /\ cur[p] \in Crates
            /\ new[p] \in Entries
      BY <1>1, <2>3, AtWork DEF CommitDest, BuildInv, InHand, Holding, TypeOK, MemberOK
    <3>2. manifest'[f][c] = manifest[f][c] \/ manifest[f][c] = NoEntry
      BY <2>3, <3>1, <1>1 DEF CommitDest, TypeOK, DiskOK, Manifests
    <3> QED BY <2>1, <2>3, <3>2 DEF CommitDest
  <2>4. ASSUME NEW p \in Procs, FailPlacement(p)
        PROVE  FALSE
    <3>1. PICK gone \in SUBSET new[p].bins : files' = [files EXCEPT ![dst[p]] = @ \ gone]
      BY <2>4 DEF FailPlacement
    <3>2. new[p].bins \cap BinsOf(manifest[dst[p]], c) = {}
      BY <1>1, <2>4 DEF FailPlacement, BuildInv
    <3>3. manifest' = manifest
      BY <2>4 DEF FailPlacement
    <3>4. PICK b \in manifest[f][c].bins : b \in files[f] \ files'[f]
      BY <2>1, <3>3
    <3>5. f = dst[p] /\ b \in gone
      BY <1>1, <3>1, <3>4 DEF TypeOK, DiskOK
    <3> QED BY <2>1, <3>2, <3>5 DEF BinsOf
  <2>5. ASSUME NEW p \in Procs, RemoveFile(p)
        PROVE  Confirmed(f, c)
    <3>1. PICK b \in left[p] : files' = [files EXCEPT ![src[p]] = @ \ {b}]
      BY <2>5 DEF RemoveFile
    <3>2. /\ pc[p] = "remove" /\ manifest' = manifest /\ b \in manifest[src[p]][cur[p]].bins
          /\ manifest[src[p]][cur[p]] = snap[p][cur[p]]
      BY <1>1, <2>5 DEF RemoveFile, RemoveInv
    <3>3. /\ src[p] \in Prefixes /\ cur[p] \in Crates /\ snap[p][cur[p]] # NoEntry
      BY <1>1, <3>2, AtWork, Blanks DEF InHand
    <3>4. f = src[p] /\ b \in manifest[f][c].bins
      BY <1>1, <2>1, <3>1, <3>2 DEF TypeOK, DiskOK
    <3>5. c = cur[p]
      BY <1>1, <2>1, <3>2, <3>3, <3>4 DEF OwnersInv, BinsOf
    <3> QED BY <3>2, <3>4, <3>5
  <2>6. ASSUME NEW p \in Procs, CommitRetirement(p)
        PROVE  Confirmed(f, c)
    <3>1. pc[p] = "remove" /\ manifest[src[p]][cur[p]] = snap[p][cur[p]]
      BY <1>1, <2>6 DEF CommitRetirement, RemoveInv
    <3>2. f = src[p] /\ c = cur[p]
      BY <1>1, <2>1, <2>6 DEF CommitRetirement, TypeOK, DiskOK, Manifests
    <3> QED BY <3>1, <3>2
  <2>7. ASSUME NEW g \in Prefixes, NEW d \in Crates, Install(g, d)
        PROVE  FALSE
    <3>1. PICK e \in Entries :
            /\ manifest' = [manifest EXCEPT ![g][d] = e]
            /\ files' = [files EXCEPT ![g] = (@ \ BinsOf(manifest[g], d)) \cup e.bins]
      BY <1>1, <2>7, InstallEffect
    <3>2. manifest'[f][c] = (IF f = g /\ c = d THEN e ELSE manifest[f][c]) /\ e # NoEntry
      BY <1>1, <3>1, Blanks DEF TypeOK, DiskOK, Manifests
    <3>3. PICK b \in manifest[f][c].bins : b \in files[f] \ files'[f]
      BY <2>1, <3>2
    <3>4. f = g /\ b \in BinsOf(manifest[f], d) /\ b \notin e.bins
      BY <1>1, <3>1, <3>3 DEF TypeOK, DiskOK
    <3>5. c = d
      BY <1>1, <2>1, <3>3, <3>4 DEF OwnersInv, BinsOf
    <3> QED BY <2>1, <3>2, <3>3, <3>4, <3>5
  <2>8. ASSUME NEW g \in Prefixes, NEW d \in Crates, Remove(g, d)
        PROVE  Confirmed(f, c)
    <3>1. f = g
      BY <1>1, <2>1, <2>8 DEF Remove, TypeOK, DiskOK
    <3> QED BY <2>8, <3>1 DEF Remove
  <2>9. ASSUME NEW g \in Prefixes, NEW d \in Crates, SetPinned(g, d)
        PROVE  FALSE
    <3>1. PICK e \in Entries : /\ e = [manifest[g][d] EXCEPT !.pinned = ~@]
                               /\ e.pinned = ~manifest[g][d].pinned
                               /\ manifest' = [manifest EXCEPT ![g][d] = e]
      BY <1>1, <2>9, PinEffect
    <3>2. manifest'[f][c] # NoEntry
      BY <1>1, <2>1, <3>1, Blanks DEF TypeOK, DiskOK, Manifests
    <3> QED BY <2>1, <2>9, <3>2 DEF SetPinned
  <2>10. ASSUME NEW g \in Prefixes, CleanLeftovers(g)
         PROVE  FALSE
    <3>1. manifest' = manifest /\ files' = [files EXCEPT ![g] = @ \cap Claimed(manifest[g])]
      BY <2>10 DEF CleanLeftovers
    <3>2. PICK b \in manifest[f][c].bins : b \in files[f] \ files'[f]
      BY <2>1, <3>1
    <3>3. b \in Claimed(manifest[f])
      BY <2>1 DEF Claimed, BinsOf
    <3> QED BY <1>1, <3>1, <3>2, <3>3 DEF TypeOK, DiskOK
  <2>11. ASSUME NEW p \in Procs, Place(p)
         PROVE  FALSE
    <3>1. manifest' = manifest /\ files[f] \subseteq files'[f]
      BY <1>1, <2>11 DEF Place, TypeOK, DiskOK
    <3> QED BY <2>2, <3>1
  <2>12. ASSUME NEW p \in Procs, LockSource(p)
         PROVE  FALSE
    BY <2>2, <2>12, SourceCases
  <2>13. ASSUME UNCHANGED <<manifest, files>>
         PROVE  FALSE
    BY <2>2, <2>13
  <2>14. ASSUME (\E d \in Crates : Publish(d)) \/ UpgradeToolchain \/ UNCHANGED vars
         PROVE  FALSE
    BY <2>13, <2>14 DEF Publish, UpgradeToolchain, vars
  <2>15. ASSUME NEW p \in Procs,
                Plan(p) \/ Confirm(p) \/ Finish(p) \/ LockDest(p) \/ Build(p) \/ Abandon(p)
                  \/ Probe(p) \/ FailRetirement(p) \/ Crash(p)
         PROVE  FALSE
    BY <2>13, <2>15 DEF Plan, Confirm, Finish, LockDest, Build, Abandon, Probe, FailRetirement, Crash
  <2> HIDE DEF Confirmed
  <2>16. ASSUME NEW p \in Procs, Migration(p)
         PROVE  Confirmed(f, c)
    BY <2>3, <2>4, <2>5, <2>6, <2>11, <2>12, <2>15, <2>16 DEF Migration, Work
  <2>17. ASSUME World
         PROVE  Confirmed(f, c)
    BY <2>7, <2>8, <2>9, <2>10, <2>14, <2>17 DEF World
  <2> QED BY <1>1, <2>14, <2>16, <2>17 DEF Next
<1>2. IInv /\ [Next]_vars =>
        [\A f \in Prefixes, c \in Crates : Taken(f, c) =>
             \/ \E p \in Procs : /\ pc[p] = "remove" /\ src[p] = f /\ cur[p] = c
                                 /\ snap[p][c] = manifest[f][c]
             \/ PersonRemoves /\ lock[f] = NoProc]_vars
  BY <1>1
<1> QED BY <1>2, InductiveInvariant, PTL DEF Spec, RetiresAsConfirmed

\* Every prefix implements the manifest's specification, with migrations passing
\* through it: what a migration, or a person between its two locks, makes of a
\* manifest is one commit, one removal or one change of a pin.
THEOREM Refinement == Spec => EachPrefix
<1>1. ASSUME IInv, [Next]_vars, NEW f \in Prefixes, manifest'[f] # manifest[f]
      PROVE  Abstract(f)!Next
  <2> USE DEF IInv
  <2>1. ASSUME NEW c \in Crates, NEW e \in Entries,
               \A d \in Crates \ {c} : e.bins \cap BinsOf(manifest[f], d) = {},
               manifest[f][c] # NoEntry /\ manifest[f][c].pinned =>
                 e.pinned /\ e.version = manifest[f][c].version,
               manifest'[f] = [manifest[f] EXCEPT ![c] = e]
        PROVE  Abstract(f)!Next
    <3>1. Abstract(f)!CommitEntry(c, e)
      BY <2>1 DEF Abstract!CommitEntry, Abstract!BinsOf, BinsOf
    <3> QED BY <3>1 DEF Abstract!Next
  <2>2. ASSUME NEW c \in Crates, manifest[f][c] # NoEntry,
               manifest'[f] = [manifest[f] EXCEPT ![c] = NoEntry]
        PROVE  Abstract(f)!Next
    BY <2>2 DEF Abstract!Next, Abstract!DropEntry
  <2>3. ASSUME NEW p \in Procs, CommitDest(p)
        PROVE  Abstract(f)!Next
    <3>1. /\ dst[p] \in Prefixes /\ cur[p] \in Crates /\ new[p] \in Entries
          /\ manifest[dst[p]][cur[p]] = NoEntry
          /\ \A d \in Crates : new[p].bins \cap BinsOf(manifest[dst[p]], d) = {}
      BY <1>1, <2>3, AtWork DEF CommitDest, TypeOK, MemberOK, InHand, Holding, BuildInv
    <3>2. f = dst[p] /\ manifest'[f] = [manifest[f] EXCEPT ![cur[p]] = new[p]]
      BY <1>1, <2>3 DEF CommitDest, TypeOK, DiskOK
    <3> QED BY <2>1, <3>1, <3>2
  <2>4. ASSUME NEW p \in Procs, CommitRetirement(p)
        PROVE  Abstract(f)!Next
    <3>1. src[p] \in Prefixes /\ cur[p] \in Crates /\ manifest[src[p]][cur[p]] # NoEntry
      BY <1>1, <2>4, AtWork, Blanks DEF CommitRetirement, InHand, RemoveInv
    <3>2. f = src[p] /\ manifest'[f] = [manifest[f] EXCEPT ![cur[p]] = NoEntry]
      BY <1>1, <2>4 DEF CommitRetirement, TypeOK, DiskOK
    <3> QED BY <2>2, <3>1, <3>2
  <2>5. ASSUME NEW g \in Prefixes, NEW c \in Crates, Install(g, c)
        PROVE  Abstract(f)!Next
    <3>1. PICK e \in Entries :
            /\ NoCollision(g, c, e.bins)
            /\ manifest[g][c] # NoEntry /\ manifest[g][c].pinned =>
                 e.pinned /\ e.version = manifest[g][c].version
            /\ manifest' = [manifest EXCEPT ![g][c] = e]
      BY <1>1, <2>5, InstallEffect
    <3>2. f = g /\ manifest'[f] = [manifest[f] EXCEPT ![c] = e]
      BY <1>1, <3>1 DEF TypeOK, DiskOK
    <3>3. \A d \in Crates \ {c} : e.bins \cap BinsOf(manifest[g], d) = {}
      BY <1>1, <3>1, NoCollisionFree
    <3> QED BY <2>1, <3>1, <3>2, <3>3
  <2>6. ASSUME NEW g \in Prefixes, NEW c \in Crates, Remove(g, c)
        PROVE  Abstract(f)!Next
    <3>1. f = g /\ manifest'[f] = [manifest[f] EXCEPT ![c] = NoEntry]
      BY <1>1, <2>6 DEF Remove, TypeOK, DiskOK
    <3> QED BY <2>2, <2>6, <3>1 DEF Remove
  <2>7. ASSUME NEW g \in Prefixes, NEW c \in Crates, SetPinned(g, c)
        PROVE  Abstract(f)!Next
    <3> DEFINE bit == ~manifest[g][c].pinned
    <3>1. PICK e \in Entries : /\ e = [manifest[g][c] EXCEPT !.pinned = ~@]
                               /\ manifest' = [manifest EXCEPT ![g][c] = e]
      BY <1>1, <2>7, PinEffect
    <3>2. f = g /\ manifest'[f] = [manifest[f] EXCEPT ![c] = e]
      BY <1>1, <3>1 DEF TypeOK, DiskOK
    <3>3. bit \in BOOLEAN /\ e = [manifest[f][c] EXCEPT !.pinned = bit]
      BY <3>1, <3>2
    <3> HIDE DEF bit
    <3>4. manifest'[f] = [d \in Crates |-> IF d \in {c} THEN [manifest[f][d] EXCEPT !.pinned = bit]
                                           ELSE manifest[f][d]]
      BY <1>1, <3>2, <3>3 DEF TypeOK, DiskOK, Manifests
    <3>5. Abstract(f)!SetPins({c}, bit)
      BY <2>7, <3>2, <3>4 DEF Abstract!SetPins, SetPinned
    <3> QED BY <3>3, <3>5 DEF Abstract!Next
  <2> QED
    <3>1. CASE \E p \in Procs : CommitDest(p) \/ CommitRetirement(p)
      BY <2>3, <2>4, <3>1
    <3>2. CASE \E g \in Prefixes, c \in Crates : Install(g, c) \/ Remove(g, c) \/ SetPinned(g, c)
      BY <2>5, <2>6, <2>7, <3>2
    <3>3. manifest' = manifest \/ World \/ \E p \in Procs : CommitDest(p) \/ CommitRetirement(p)
      BY <1>1, ManifestMoves
    <3>4. World => manifest' = manifest
                     \/ \E g \in Prefixes, c \in Crates : Install(g, c) \/ Remove(g, c) \/ SetPinned(g, c)
      BY DEF World, CleanLeftovers, Publish, UpgradeToolchain
    <3> QED BY <1>1, <3>1, <3>2, <3>3, <3>4
<1>2. IInv /\ [Next]_vars =>
        [\A f \in Prefixes : manifest'[f] # manifest[f] => Abstract(f)!Next]_vars
  BY <1>1
<1> QED BY <1>2, InductiveInvariant, PTL DEF Spec, EachPrefix

-----------------------------------------------------------------------------
(* Never without a complete installation.                                  *)

\* Files of a prefix, too, are only touched under its lock.
LEMMA FilesMove ==
  ASSUME TypeOK, LockInv, [Next]_vars, NEW f \in Prefixes
  PROVE  \/ files'[f] = files[f]
         \/ lock[f] = NoProc /\ World
         \/ \E p \in Procs : /\ Place(p) \/ FailPlacement(p)
                             /\ f = dst[p] /\ lock[f] = p
         \/ \E p \in Procs : RemoveFile(p) /\ f = src[p] /\ lock[f] = p
<1> USE DEF TypeOK, DiskOK
<1>1. ASSUME NEW p \in Procs, Migration(p), ~Place(p), ~FailPlacement(p), ~RemoveFile(p)
      PROVE  files' = files
  <2>1. CASE LockSource(p)
    BY <2>1, SourceCases
  <2> QED
    BY <1>1, <2>1 DEF Migration, Work, Plan, Confirm, Finish, LockDest, Build, Abandon, Probe,
       CommitDest, CommitRetirement, FailRetirement, Crash
<1>2. ASSUME NEW p \in Procs, Place(p) \/ FailPlacement(p)
      PROVE  files'[f] = files[f] \/ (f = dst[p] /\ lock[f] = p)
  BY <1>2 DEF Place, FailPlacement, LockInv
<1>3. ASSUME NEW p \in Procs, RemoveFile(p)
      PROVE  files'[f] = files[f] \/ (f = src[p] /\ lock[f] = p)
  BY <1>3 DEF RemoveFile, LockInv
<1>4. ASSUME NEW g \in Prefixes, NEW c \in Crates, Install(g, c) \/ Remove(g, c)
      PROVE  files'[f] = files[f] \/ lock[f] = NoProc
  BY <1>4 DEF Install, Remove
<1>5. ASSUME NEW g \in Prefixes, CleanLeftovers(g)
      PROVE  files'[f] = files[f] \/ lock[f] = NoProc
  BY <1>5 DEF CleanLeftovers
<1>6. ASSUME (\E g \in Prefixes, c \in Crates : SetPinned(g, c)) \/ (\E c \in Crates : Publish(c))
               \/ UpgradeToolchain \/ UNCHANGED vars
      PROVE  files' = files
  BY <1>6 DEF SetPinned, Publish, UpgradeToolchain, vars
<1>7. CASE World
  BY <1>4, <1>5, <1>6, <1>7 DEF World
<1> QED BY <1>1, <1>2, <1>3, <1>6, <1>7 DEF Next

\* What a placement has placed stays, until it commits or gives up.
LEMMA PlaceStep ==
  ASSUME TypeOK, LockInv, PlaceInv, [Next]_vars
  PROVE  PlaceInv'
<1> DEFINE Knows(q) == pc[q] = "place" =>
      left[q] \subseteq new[q].bins /\ new[q].bins \ left[q] \subseteq files[dst[q]]
<1>1. \A q \in Procs : Knows(q)
  BY DEF PlaceInv
<1>2. ASSUME NEW q \in Procs, ~Migration(q)
      PROVE  Knows(q)'
  <2> SUFFICES ASSUME pc'[q] = "place"
               PROVE  left'[q] \subseteq new'[q].bins /\ new'[q].bins \ left'[q] \subseteq files'[dst'[q]]
    OBVIOUS
  <2>1. /\ pc[q] = "place" /\ left'[q] = left[q] /\ new'[q] = new[q] /\ dst'[q] = dst[q]
    BY <1>2, OneMoves DEF Unmoved
  <2>2. dst[q] \in Prefixes /\ lock[dst[q]] = q /\ q # NoProc
    BY <2>1, AtWork, MigrateAssumption DEF MigrateAssumption, LockInv
  <2>3. files'[dst[q]] = files[dst[q]]
    BY <1>2, <2>2, FilesMove DEF Migration, Work
  <2> QED BY <1>1, <2>1, <2>3
<1>3. ASSUME NEW p \in Procs, Migration(p)
      PROVE  Knows(p)'
  <2>1. CASE pc'[p] # "place"
    BY <2>1
  <2>2. CASE Probe(p)
    <3>1. left'[p] = new'[p].bins
      BY <2>2 DEF Probe, TypeOK, MemberOK
    <3> QED BY <3>1
  <2>3. CASE Place(p)
    <3>1. PICK b \in left[p] : /\ files' = [files EXCEPT ![dst[p]] = @ \cup {b}]
                               /\ left' = [left EXCEPT ![p] = @ \ {b}]
      BY <2>3 DEF Place
    <3>2. /\ pc[p] = "place" /\ UNCHANGED <<new, dst>> /\ dst[p] \in Prefixes
      BY <2>3, AtWork DEF Place, plan
    <3>3. files'[dst[p]] = files[dst[p]] \cup {b} /\ left'[p] = left[p] \ {b}
      BY <3>1, <3>2 DEF TypeOK, DiskOK, MemberOK
    <3>4. left'[p] \subseteq new[p].bins /\ new[p].bins \ left'[p] \subseteq files'[dst[p]]
      BY <1>1, <3>2, <3>3
    <3> QED BY <3>2, <3>4
  <2>4. CASE Plan(p) \/ Confirm(p) \/ LockDest(p) \/ Finish(p) \/ Crash(p)
    <3>1. pc'[p] # "place"
      BY <2>4, ExitEffect DEF Plan, Confirm, LockDest, Finish, Crash, Goto, TypeOK, MemberOK
    <3> QED BY <2>1, <3>1
  <2>5. CASE Build(p) \/ Abandon(p) \/ CommitDest(p) \/ FailPlacement(p) \/ RemoveFile(p)
               \/ CommitRetirement(p) \/ FailRetirement(p)
    <3>1. pc'[p] # "place"
      BY <2>5 DEF Build, Abandon, CommitDest, FailPlacement, RemoveFile, CommitRetirement,
         FailRetirement, NextMember, Goto, TypeOK, MemberOK
    <3> QED BY <2>1, <3>1
  <2>6. CASE LockSource(p)
    <3>1. pc'[p] # "place"
      BY <2>6, SourceCases DEF NextMember, Goto, TypeOK, MemberOK
    <3> QED BY <2>1, <3>1
  <2> QED BY <1>3, <2>1, <2>2, <2>3, <2>4, <2>5, <2>6 DEF Migration, Work
<1> QED BY <1>2, <1>3 DEF PlaceInv

\* When an installation of c under f becomes complete or stops being so, and when its
\* entry goes: at a landing, in a retirement, or by a person's install.
LEMMA CompleteMoves ==
  ASSUME IInv, PlaceInv, ~PersonRemoves, [Next]_vars, NEW f \in Prefixes, NEW c \in Crates
  PROVE  \/ /\ Complete(f, c)' <=> Complete(f, c)
            /\ (manifest'[f][c] = NoEntry) <=> (manifest[f][c] = NoEntry)
         \/ \E p \in Procs : CommitDest(p) /\ f = dst[p] /\ c = cur[p]
         \/ \E p \in Procs : (RemoveFile(p) \/ CommitRetirement(p)) /\ f = src[p] /\ c = cur[p]
         \/ Install(f, c)
<1> DEFINE Same == /\ Complete(f, c)' <=> Complete(f, c)
                   /\ (manifest'[f][c] = NoEntry) <=> (manifest[f][c] = NoEntry)
<1> USE DEF IInv
<1>0. /\ manifest[f] \in Manifests /\ files[f] \in SUBSET Bins
      /\ \A g \in Prefixes, d \in Crates : d # c =>
           BinsOf(manifest[g], d) \cap BinsOf(manifest[g], c) = {}
  BY DEF TypeOK, DiskOK, OwnersInv
<1>1. ASSUME manifest'[f][c] = manifest[f][c], files'[f] = files[f]
      PROVE  Same
  BY <1>1 DEF Complete
<1>2. ASSUME manifest'[f][c] = manifest[f][c],
             files[f] \cap BinsOf(manifest[f], c) = files'[f] \cap BinsOf(manifest[f], c)
      PROVE  Same
  BY <1>2 DEF Complete, BinsOf
<1>3. ASSUME NEW p \in Procs, CommitDest(p), ~(f = dst[p] /\ c = cur[p])
      PROVE  Same
  BY <1>1, <1>3 DEF CommitDest, TypeOK, DiskOK, Manifests
<1>4. ASSUME NEW p \in Procs, CommitRetirement(p), ~(f = src[p] /\ c = cur[p])
      PROVE  Same
  BY <1>1, <1>4 DEF CommitRetirement, TypeOK, DiskOK, Manifests
<1>5. ASSUME NEW p \in Procs, RemoveFile(p), ~(f = src[p] /\ c = cur[p])
      PROVE  Same
  <2>1. PICK b \in left[p] : files' = [files EXCEPT ![src[p]] = @ \ {b}]
    BY <1>5 DEF RemoveFile
  <2>2. /\ pc[p] = "remove" /\ manifest' = manifest
        /\ b \in BinsOf(manifest[src[p]], cur[p]) /\ src[p] \in Prefixes /\ cur[p] \in Crates
    BY <1>5, AtWork, Blanks DEF RemoveFile, RemoveInv, InHand, BinsOf
  <2>3. CASE f # src[p]
    BY <1>1, <2>1, <2>2, <2>3 DEF TypeOK, DiskOK
  <2>4. CASE f = src[p] /\ c # cur[p]
    <3>1. files'[f] = files[f] \ {b} /\ b \notin BinsOf(manifest[f], c)
      BY <1>0, <2>1, <2>2, <2>4 DEF TypeOK, DiskOK
    <3> QED BY <1>2, <2>2, <3>1
  <2> QED BY <1>5, <2>3, <2>4
<1>6. ASSUME NEW p \in Procs, Place(p) \/ FailPlacement(p)
      PROVE  Same
  <2>1. /\ pc[p] = "place" /\ dst[p] \in Prefixes /\ manifest' = manifest
        /\ new[p].bins \cap BinsOf(manifest[dst[p]], c) = {}
        /\ left[p] \subseteq new[p].bins
    BY <1>6, AtWork DEF Place, FailPlacement, BuildInv, PlaceInv
  <2>2. \E X \in SUBSET new[p].bins :
          files' = [files EXCEPT ![dst[p]] = @ \cup X] \/ files' = [files EXCEPT ![dst[p]] = @ \ X]
    <3>1. CASE Place(p)
      <4>1. PICK b \in left[p] : files' = [files EXCEPT ![dst[p]] = @ \cup {b}]
        BY <3>1 DEF Place
      <4> QED BY <2>1, <4>1
    <3>2. CASE FailPlacement(p)
      <4>1. PICK stuck \in SUBSET (new[p].bins \ left[p]) :
              files' = [files EXCEPT ![dst[p]] = @ \ ((new[p].bins \ left[p]) \ stuck)]
        BY <3>2 DEF FailPlacement
      <4> QED BY <4>1
    <3> QED BY <1>6, <3>1, <3>2
  <2>3. PICK X \in SUBSET new[p].bins :
          files' = [files EXCEPT ![dst[p]] = @ \cup X] \/ files' = [files EXCEPT ![dst[p]] = @ \ X]
    BY <2>2
  <2>4. CASE f = dst[p]
    <3>1. files'[f] = files[f] \cup X \/ files'[f] = files[f] \ X
      BY <2>3, <2>4 DEF TypeOK, DiskOK
    <3> QED BY <1>2, <2>1, <2>4, <3>1
  <2>5. CASE f # dst[p]
    BY <1>1, <2>1, <2>3, <2>5 DEF TypeOK, DiskOK
  <2> QED BY <2>4, <2>5
<1>7. ASSUME NEW g \in Prefixes, NEW d \in Crates, Install(g, d), ~(f = g /\ c = d)
      PROVE  Same
  <2>1. PICK e \in Entries :
          /\ NoCollision(g, d, e.bins)
          /\ manifest' = [manifest EXCEPT ![g][d] = e]
          /\ files' = [files EXCEPT ![g] = (@ \ BinsOf(manifest[g], d)) \cup e.bins]
    BY <1>7, InstallEffect
  <2>2. manifest'[f][c] = manifest[f][c]
    BY <1>7, <2>1 DEF TypeOK, DiskOK, Manifests
  <2>3. CASE f # g
    BY <1>1, <2>1, <2>2, <2>3 DEF TypeOK, DiskOK
  <2>4. CASE f = g /\ c # d
    <3>1. files'[f] = (files[f] \ BinsOf(manifest[f], d)) \cup e.bins
      BY <2>1, <2>4 DEF TypeOK, DiskOK
    <3>2. e.bins \cap BinsOf(manifest[f], c) = {}
      BY <2>1, <2>4, NoCollisionFree
    <3> QED BY <1>0, <1>2, <2>2, <2>4, <3>1, <3>2
  <2> QED BY <1>7, <2>3, <2>4
<1>8. ASSUME NEW g \in Prefixes, NEW d \in Crates, SetPinned(g, d)
      PROVE  Same
  <2>1. PICK e \in Entries : /\ e.bins = manifest[g][d].bins
                             /\ manifest' = [manifest EXCEPT ![g][d] = e]
    BY <1>8, PinEffect
  <2>2. files' = files /\ manifest[g][d] # NoEntry
    BY <1>8 DEF SetPinned
  <2>3. manifest'[f][c] = IF f = g /\ c = d THEN e ELSE manifest[f][c]
    BY <2>1 DEF TypeOK, DiskOK, Manifests
  <2>4. e # NoEntry
    BY Blanks
  <2> QED BY <2>1, <2>2, <2>3, <2>4 DEF Complete
<1>9. ASSUME NEW g \in Prefixes, CleanLeftovers(g)
      PROVE  Same
  <2>1. manifest' = manifest /\ files' = [files EXCEPT ![g] = @ \cap Claimed(manifest[g])]
    BY <1>9 DEF CleanLeftovers
  <2>2. BinsOf(manifest[f], c) \subseteq Claimed(manifest[f])
    BY DEF Claimed
  <2>3. CASE f = g
    <3>1. files'[f] = files[f] \cap Claimed(manifest[f])
      BY <2>1, <2>3 DEF TypeOK, DiskOK
    <3> QED BY <1>2, <2>1, <2>2, <3>1
  <2>4. CASE f # g
    BY <1>1, <2>1, <2>4 DEF TypeOK, DiskOK
  <2> QED BY <2>3, <2>4
<1>10. ASSUME UNCHANGED <<manifest, files>>
       PROVE  Same
  BY <1>1, <1>10
<1>11. ASSUME NEW p \in Procs, LockSource(p)
       PROVE  Same
  BY <1>10, <1>11, SourceCases
<1>12. ASSUME NEW p \in Procs,
              Plan(p) \/ Confirm(p) \/ Finish(p) \/ LockDest(p) \/ Build(p) \/ Abandon(p)
                \/ Probe(p) \/ FailRetirement(p) \/ Crash(p)
       PROVE  Same
  BY <1>10, <1>12 DEF Plan, Confirm, Finish, LockDest, Build, Abandon, Probe, FailRetirement, Crash
<1>13. ASSUME (\E d \in Crates : Publish(d)) \/ UpgradeToolchain \/ UNCHANGED vars
       PROVE  Same
  BY <1>10, <1>13 DEF Publish, UpgradeToolchain, vars
<1>14. \A g \in Prefixes, d \in Crates : ~Remove(g, d)
  BY DEF Remove
<1> HIDE DEF Same
<1>15. ASSUME NEW p \in Procs, Migration(p)
       PROVE  \/ Same \/ (CommitDest(p) /\ f = dst[p] /\ c = cur[p])
              \/ (RemoveFile(p) \/ CommitRetirement(p)) /\ f = src[p] /\ c = cur[p]
  BY <1>3, <1>4, <1>5, <1>6, <1>11, <1>12, <1>15 DEF Migration, Work
<1>16. ASSUME World
       PROVE  Same \/ Install(f, c)
  BY <1>7, <1>8, <1>9, <1>13, <1>14, <1>16 DEF World
<1>17. Same \/ Install(f, c) \/ (\E p \in Procs : CommitDest(p) /\ f = dst[p] /\ c = cur[p])
         \/ \E p \in Procs : (RemoveFile(p) \/ CommitRetirement(p)) /\ f = src[p] /\ c = cur[p]
  BY <1>13, <1>15, <1>16 DEF Next
<1> QED BY <1>17 DEF Same

\* A landing adds one copy and one threat.
LEMMA LandingMoves ==
  ASSUME IInv, PlaceInv, SourceInv, ~PersonRemoves, [Next]_vars,
         NEW p \in Procs, NEW c \in Crates, CommitDest(p), cur[p] = c
  PROVE  /\ dst[p] \notin Copies(c) /\ Copies(c)' = Copies(c) \cup {dst[p]}
         /\ p \notin Threats(c) /\ Threats(c)' = Threats(c) \cup {p}
         /\ \A q \in Procs : Harmless(q, c) => Harmless(q, c)'
         /\ Copies(c) = {} => Harmless(p, c)'
<1> USE DEF IInv
<1>1. /\ pc[p] = "place" /\ left[p] = {} /\ dst[p] \in Prefixes /\ src[p] \in Prefixes
      /\ src[p] # dst[p] /\ lock[dst[p]] = p /\ manifest[dst[p]][c] = NoEntry
      /\ new[p].bins \subseteq files[dst[p]] /\ new[p] \in Entries
  BY AtWork DEF CommitDest, LockInv, BuildInv, PlaceInv, TypeOK, MemberOK
<1>2. /\ manifest' = [manifest EXCEPT ![dst[p]][c] = new[p]] /\ UNCHANGED <<files, src, dst, cur>>
      /\ pc' = [pc EXCEPT ![p] = "retire"]
  BY DEF CommitDest, Goto, plan
<1>3. manifest'[dst[p]][c] = new[p]
      /\ \A f \in Prefixes \ {dst[p]} : manifest'[f] = manifest[f]
  BY <1>1, <1>2 DEF TypeOK, DiskOK, Manifests
<1>4. pc'[p] = "retire" /\ \A q \in Procs \ {p} : pc'[q] = pc[q]
  BY <1>2 DEF TypeOK, MemberOK
<1>5. Complete(dst[p], c)' /\ ~Complete(dst[p], c)
  BY <1>1, <1>2, <1>3, Blanks, MigrateAssumption DEF Complete, MigrateAssumption
<1>6. \A f \in Prefixes \ {dst[p]} : Complete(f, c)' <=> Complete(f, c)
  BY <1>2, <1>3 DEF Complete
<1>7. dst[p] \notin Copies(c) /\ Copies(c)' = Copies(c) \cup {dst[p]}
  <2>1. \A f \in Prefixes : Complete(f, c)' <=> Complete(f, c) \/ f = dst[p]
    BY <1>2, <1>5, <1>6 DEF Complete
  <2> QED BY <1>1, <1>5, <2>1 DEF Copies
<1>8. \A q \in Procs : pc[q] = "remove" => src[q] \in Prefixes \ {dst[p]}
  BY <1>1, AtWork DEF LockInv
<1>9. p \notin Threats(c) /\ Threats(c)' = Threats(c) \cup {p}
  BY <1>1, <1>2, <1>4, <1>6, <1>8 DEF Threats
<1>10. ASSUME NEW q \in Procs, manifest[src[q]][c] # NoEntry, src[q] \in Prefixes,
              ~Complete(src[q], c), pc'[q] = "retire", cur[q] = c,
              \A r \in Procs : pc[r] = "remove" /\ cur[r] = c => src[r] # src[q]
       PROVE  Harmless(q, c)'
  <2>1. src[q] # dst[p]
    BY <1>1, <1>10
  <2>2. manifest'[src[q]][c] # NoEntry /\ ~Complete(src[q], c)'
    BY <1>2, <1>3, <1>6, <1>10, <2>1
  <2>3. \A r \in Procs : pc'[r] = "remove" => pc[r] = "remove"
    BY <1>4
  <2> QED BY <1>2, <1>10, <2>2, <2>3 DEF Harmless, Complete
<1>11. ASSUME NEW q \in Procs, Harmless(q, c)
       PROVE  Harmless(q, c)'
  <2>1. pc[q] = "retire" /\ src[q] \in Prefixes
    BY <1>11, AtWork DEF Harmless
  <2>2. pc'[q] = "retire"
    BY <1>4, <2>1
  <2> QED BY <1>10, <1>11, <2>1, <2>2 DEF Harmless
<1>12. ASSUME Copies(c) = {}
       PROVE  Harmless(p, c)'
  <2>1. manifest[src[p]][c] # NoEntry /\ \A r \in Procs : cur[r] = c => pc[r] # "remove"
    BY <1>1, <1>12 DEF SourceInv
  <2>2. ~Complete(src[p], c)
    BY <1>1, <1>12 DEF Copies
  <2> QED BY <1>1, <1>4, <1>10, <2>1, <2>2
<1> QED BY <1>7, <1>9, <1>11, <1>12

\* A retirement that finds a complete installation takes one copy, and is the one threat
\* to it.
LEMMA TakingMoves ==
  ASSUME IInv, [Next]_vars, NEW p \in Procs, NEW c \in Crates,
         RemoveFile(p) \/ CommitRetirement(p), cur[p] = c, Complete(src[p], c)
  PROVE  /\ src[p] \in Copies(c) /\ Copies(c)' = Copies(c) \ {src[p]}
         /\ p \in Threats(c) /\ Threats(c)' = Threats(c) \ {p}
         /\ \A q \in Procs : Harmless(q, c) => q # p /\ q \in Threats(c) /\ Harmless(q, c)'
<1> USE DEF IInv
<1>1. /\ pc[p] = "remove" /\ src[p] \in Prefixes /\ lock[src[p]] = p
      /\ manifest[src[p]][c] = snap[p][c] /\ left[p] \subseteq snap[p][c].bins
  BY AtWork DEF RemoveFile, CommitRetirement, LockInv, RemoveInv, InHand
<1>2. UNCHANGED <<src, dst>> /\ \A q \in Procs \ {p} : pc'[q] = pc[q] /\ cur'[q] = cur[q]
  BY DEF RemoveFile, CommitRetirement, NextMember, Goto, plan, TypeOK, MemberOK
<1>3. ~Complete(src[p], c)'
  <2>1. CASE RemoveFile(p)
    <3>1. PICK b \in left[p] : files' = [files EXCEPT ![src[p]] = @ \ {b}]
      BY <2>1 DEF RemoveFile
    <3>2. manifest' = manifest /\ b \notin files'[src[p]] /\ b \in manifest[src[p]][c].bins
      BY <1>1, <2>1, <3>1 DEF RemoveFile, TypeOK, DiskOK
    <3> QED BY <1>2, <3>2 DEF Complete
  <2>2. CASE CommitRetirement(p)
    <3>1. manifest'[src[p]][c] = NoEntry
      BY <1>1, <2>2 DEF CommitRetirement, TypeOK, DiskOK, Manifests
    <3> QED BY <1>2, <3>1 DEF Complete
  <2> QED BY <2>1, <2>2
<1>4. \A f \in Prefixes \ {src[p]} : manifest'[f] = manifest[f] /\ files'[f] = files[f]
  BY DEF RemoveFile, CommitRetirement, TypeOK, DiskOK
<1>5. \A f \in Prefixes \ {src[p]} : Complete(f, c)' <=> Complete(f, c)
  BY <1>4 DEF Complete
<1>6. src[p] \in Copies(c) /\ Copies(c)' = Copies(c) \ {src[p]}
  <2>1. \A f \in Prefixes : Complete(f, c)' <=> Complete(f, c) /\ f # src[p]
    BY <1>2, <1>3, <1>5 DEF Complete
  <2> QED BY <1>1, <2>1 DEF Copies
<1>7. \A q \in Procs \ {p} : pc[q] = "remove" => src[q] \in Prefixes \ {src[p]}
  BY <1>1, AtWork DEF LockInv
<1>8. p \in Threats(c) /\ p \notin Threats(c)'
  <2>1. pc'[p] = "remove" \/ pc'[p] = "next"
    BY <1>1 DEF RemoveFile, CommitRetirement, NextMember, Goto, TypeOK, MemberOK
  <2> QED BY <1>1, <1>2, <1>3, <2>1 DEF Threats, Complete
<1>9. \A q \in Procs \ {p} : q \in Threats(c)' <=> q \in Threats(c)
  BY <1>2, <1>5, <1>7 DEF Threats, Complete
<1>10. Threats(c)' = Threats(c) \ {p}
  BY <1>8, <1>9 DEF Threats
<1>11. ASSUME NEW q \in Procs, Harmless(q, c)
       PROVE  q # p /\ q \in Threats(c) /\ Harmless(q, c)'
  <2>1. q # p /\ q \in Threats(c) /\ src[q] \in Prefixes \ {src[p]}
    BY <1>1, <1>11, AtWork DEF Harmless, Threats
  <2>2. pc'[q] = "retire" /\ cur'[q] = c /\ src'[q] = src[q]
    BY <1>2, <1>11, <2>1 DEF Harmless
  <2>3. manifest'[src[q]][c] # NoEntry /\ ~Complete(src[q], c)'
    BY <1>2, <1>4, <1>5, <1>11, <2>1 DEF Harmless, Complete
  <2>4. \A r \in Procs : pc'[r] = "remove" /\ cur'[r] = c => pc[r] = "remove" /\ cur[r] = c
    BY <1>1, <1>2
  <2> QED BY <1>2, <1>11, <2>1, <2>2, <2>3, <2>4 DEF Harmless, Complete
<1> QED BY <1>6, <1>8, <1>10, <1>11

\* How a migration comes to the steps that matter to its source.
LEMMA Arrivals ==
  ASSUME TypeOK, [Next]_vars, NEW q \in Procs
  PROVE  /\ pc'[q] = "retire" => Unmoved(q) \/ CommitDest(q)
         /\ pc'[q] = "remove" => \/ Unmoved(q)
                                 \/ /\ RemoveFile(q) \/ LockSource(q)
                                    /\ cur'[q] = cur[q] /\ src'[q] = src[q]
         /\ pc'[q] = "place" => \/ Unmoved(q)
                                \/ /\ Probe(q) \/ Place(q)
                                   /\ cur'[q] = cur[q] /\ src'[q] = src[q]
<1>1. CASE ~Migration(q)
  BY <1>1, OneMoves
<1>2. CASE Plan(q) \/ Confirm(q) \/ LockDest(q) \/ Build(q) \/ Finish(q) \/ Crash(q)
  BY <1>2, ExitEffect DEF Plan, Confirm, LockDest, Build, Finish, Crash, Goto, TypeOK, MemberOK
<1>3. CASE Abandon(q) \/ FailPlacement(q) \/ CommitRetirement(q) \/ FailRetirement(q)
  BY <1>3 DEF Abandon, FailPlacement, CommitRetirement, FailRetirement, NextMember, Goto,
     TypeOK, MemberOK
<1>4. CASE CommitDest(q)
  BY <1>4 DEF CommitDest, Goto, TypeOK, MemberOK
<1>5. CASE Probe(q)
  BY <1>5 DEF Probe, Goto, TypeOK, MemberOK, plan
<1>6. CASE Place(q) \/ RemoveFile(q)
  BY <1>6 DEF Place, RemoveFile, plan
<1>7. CASE LockSource(q)
  BY <1>7, SourceCases DEF NextMember, Goto, TypeOK, MemberOK, plan
<1> QED
  BY <1>1, <1>2, <1>3, <1>4, <1>5, <1>6, <1>7 DEF Migration, Work

\* Any other step leaves a crate its copies, threatens none of them anew, and turns no
\* harmless migration into a harmful one without a copy more or a threat less.
LEMMA OtherMoves ==
  ASSUME IInv, PlaceInv, ~PersonRemoves, [Next]_vars, NEW c \in Crates,
         ~ \E p \in Procs : CommitDest(p) /\ cur[p] = c,
         ~ \E p \in Procs : /\ RemoveFile(p) \/ CommitRetirement(p)
                            /\ cur[p] = c /\ Complete(src[p], c)
  PROVE  /\ Copies(c) \subseteq Copies(c)' /\ Threats(c)' \subseteq Threats(c)
         /\ Copies(c)' = Copies(c) /\ Threats(c)' = Threats(c) =>
              \A w \in Procs : Harmless(w, c) => Harmless(w, c)'
<1> USE DEF IInv
<1>1. ASSUME NEW f \in Prefixes, Install(f, c)
      PROVE  Complete(f, c)' /\ manifest'[f][c] # NoEntry
  <2>1. PICK e \in Entries :
          /\ manifest' = [manifest EXCEPT ![f][c] = e]
          /\ files' = [files EXCEPT ![f] = (@ \ BinsOf(manifest[f], c)) \cup e.bins]
    BY <1>1, InstallEffect
  <2>2. manifest'[f][c] = e /\ e # NoEntry
    BY <2>1, Blanks DEF TypeOK, DiskOK, Manifests
  <2>3. e.bins \subseteq files'[f]
    BY <2>1 DEF TypeOK, DiskOK
  <2> QED BY <2>2, <2>3 DEF Complete
<1>2. ASSUME NEW f \in Prefixes, Complete(f, c)
      PROVE  Complete(f, c)'
  BY <1>1, <1>2, CompleteMoves
<1>3. Copies(c) \subseteq Copies(c)'
  BY <1>2 DEF Copies
<1>4. ASSUME NEW q \in Procs, q \in Threats(c)'
      PROVE  q \in Threats(c)
  <2>0. cur'[q] = c /\ (pc'[q] = "retire" \/ (pc'[q] = "remove" /\ Complete(src[q], c)'))
    BY <1>4 DEF Threats
  <2>1. CASE pc'[q] = "retire"
    <3>1. Unmoved(q)
      BY <2>0, <2>1, Arrivals DEF CommitDest
    <3> QED BY <2>0, <2>1, <3>1 DEF Unmoved, Threats
  <2>2. CASE pc'[q] = "remove" /\ LockSource(q) /\ cur'[q] = cur[q]
    BY <2>0, <2>2, SourceCases DEF Threats
  <2>3. CASE pc'[q] = "remove" /\ RemoveFile(q) /\ cur'[q] = cur[q] /\ src'[q] = src[q]
    <3>1. ~Complete(src[q], c) /\ manifest' = manifest /\ files'[src[q]] \subseteq files[src[q]]
      BY <2>0, <2>3 DEF RemoveFile, TypeOK, DiskOK
    <3> QED BY <2>0, <2>3, <3>1 DEF Complete
  <2>4. CASE pc'[q] = "remove" /\ Unmoved(q) /\ ~RemoveFile(q) /\ ~CommitRetirement(q)
    <3>1. /\ pc[q] = "remove" /\ cur[q] = c /\ src'[q] = src[q] /\ src[q] \in Prefixes
          /\ lock[src[q]] = q /\ q # NoProc
      BY <2>0, <2>4, AtWork, MigrateAssumption DEF Unmoved, LockInv, MigrateAssumption
    <3>2. ~Install(src[q], c)
      BY <3>1 DEF Install
    <3>3. \A p \in Procs : pc[p] = "remove" /\ src[p] = src[q] => p = q
      BY <3>1 DEF LockInv
    <3>4. ~ \E p \in Procs : (RemoveFile(p) \/ CommitRetirement(p)) /\ src[q] = src[p] /\ c = cur[p]
      BY <2>4, <3>3 DEF RemoveFile, CommitRetirement
    <3>5. Complete(src[q], c)' => Complete(src[q], c)
      <4>1. \A f \in Prefixes : f = src[q] => (Complete(f, c)' <=> Complete(f, c))
        BY <3>2, <3>4, CompleteMoves
      <4> QED BY <3>1, <4>1 DEF Complete
    <3> QED BY <2>0, <2>4, <3>1, <3>5 DEF Threats
  <2>5. CASE pc'[q] = "remove" /\ Unmoved(q) /\ (RemoveFile(q) \/ CommitRetirement(q))
    <3>1. pc[q] = "remove" /\ cur[q] = c /\ src'[q] = src[q] /\ src[q] \in Prefixes
      BY <2>0, <2>5, AtWork DEF Unmoved
    <3>2. RemoveFile(q)
      BY <2>5 DEF CommitRetirement, NextMember, Goto, TypeOK, MemberOK
    <3> QED BY <2>3, <2>5, <3>1, <3>2 DEF Unmoved
  <2> QED BY <2>0, <2>1, <2>2, <2>3, <2>4, <2>5, Arrivals
<1>5. Threats(c)' \subseteq Threats(c)
  BY <1>4 DEF Threats
<1>6. ASSUME Copies(c)' = Copies(c), Threats(c)' = Threats(c), NEW w \in Procs, Harmless(w, c)
      PROVE  Harmless(w, c)'
  <2>1. /\ pc[w] = "retire" /\ cur[w] = c /\ src[w] \in Prefixes
        /\ manifest[src[w]][c] # NoEntry /\ ~Complete(src[w], c)
        /\ \A r \in Procs : pc[r] = "remove" /\ cur[r] = c => src[r] # src[w]
    BY <1>6, AtWork DEF Harmless
  <2>2. \A q \in Threats(c) : /\ cur'[q] = c
                              /\ pc'[q] = "retire" \/ (pc'[q] = "remove" /\ src'[q] \in Copies(c))
                              /\ pc'[q] # "idle"
    <3>1. \A q \in Threats(c) : /\ cur'[q] = c /\ q \in Procs
                                /\ pc'[q] = "retire" \/ (pc'[q] = "remove" /\ Complete(src[q], c)')
      BY <1>6 DEF Threats
    <3>2. \A q \in Threats(c) : pc'[q] = "remove" => src'[q] \in Prefixes
      <4> SUFFICES ASSUME NEW q \in Procs, pc'[q] = "remove" PROVE src'[q] \in Prefixes
        BY DEF Threats
      <4>1. src'[q] = src[q] /\ pc[q] # "idle"
        BY Arrivals, SourceCases DEF Unmoved, RemoveFile
      <4> QED BY <4>1, AtWork
    <3>3. \A f \in Prefixes : Complete(f, c)' => f \in Copies(c)
      BY <1>6 DEF Copies
    <3> QED BY <3>1, <3>2, <3>3 DEF Complete
  <2>3. \A q \in Procs : pc'[q] = "remove" => src'[q] = src[q]
    BY Arrivals DEF Unmoved
  <2>4. src[w] \notin Copies(c)
    BY <2>1 DEF Copies
  <2>5. pc'[w] = "retire" /\ cur'[w] = c
    BY <2>1, <2>2, <2>3, <2>4 DEF Threats
  <2>6. src'[w] = src[w]
    BY <2>1, <2>5, Arrivals DEF Unmoved, CommitDest
  <2>7. manifest'[src[w]][c] # NoEntry
    <3>1. ~ \E p \in Procs : (RemoveFile(p) \/ CommitRetirement(p)) /\ src[w] = src[p] /\ c = cur[p]
      BY <2>1 DEF RemoveFile, CommitRetirement
    <3>2. \A f \in Prefixes : f = src[w] => manifest'[f][c] # NoEntry
      BY <1>1, <2>1, <3>1, CompleteMoves
    <3> QED BY <2>1, <3>2
  <2>8. ~Complete(src[w], c)'
    <3>1. \A f \in Prefixes : f \notin Copies(c) => ~Complete(f, c)'
      BY <1>6 DEF Copies
    <3> QED BY <2>1, <2>4, <2>6, <3>1 DEF Complete
  <2>9. ASSUME NEW r \in Procs, pc'[r] = "remove", cur'[r] = c
        PROVE  src'[r] # src[w]
    <3>1. CASE Unmoved(r) \/ (RemoveFile(r) /\ cur'[r] = cur[r] /\ src'[r] = src[r])
      BY <2>1, <2>9, <3>1 DEF Unmoved, RemoveFile
    <3>2. CASE LockSource(r) /\ cur'[r] = cur[r]
      <4>1. r \in Threats(c)
        BY <2>9, <3>2, SourceCases DEF Threats
      <4> QED BY <2>2, <2>4, <2>9, <4>1
    <3> QED BY <2>9, <3>1, <3>2, Arrivals
  <2> QED BY <2>5, <2>6, <2>7, <2>8, <2>9 DEF Harmless, Complete
<1> QED BY <1>3, <1>5, <1>6

\* Sets of prefixes and of migrations are finite.
FiniteWorld == IsFiniteSet(Prefixes) /\ IsFiniteSet(Procs)

LEMMA Counted ==
  ASSUME FiniteWorld, NEW c \in Crates
  PROVE  /\ IsFiniteSet(Copies(c)) /\ IsFiniteSet(Threats(c))
         /\ IsFiniteSet(Copies(c)') /\ IsFiniteSet(Threats(c)')
         /\ Cardinality(Copies(c)) \in Nat /\ Cardinality(Threats(c)) \in Nat
         /\ Cardinality(Copies(c)') \in Nat /\ Cardinality(Threats(c)') \in Nat
<1>1. /\ Copies(c) \in SUBSET Prefixes /\ Threats(c) \in SUBSET Procs
      /\ Copies(c)' \in SUBSET Prefixes /\ Threats(c)' \in SUBSET Procs
  BY DEF Copies, Threats
<1>2. /\ IsFiniteSet(Copies(c)) /\ IsFiniteSet(Threats(c))
      /\ IsFiniteSet(Copies(c)') /\ IsFiniteSet(Threats(c)')
  BY <1>1, FS_Subset DEF FiniteWorld
<1> QED BY <1>2, FS_CardinalityType

\* The count is kept by every step, and no step takes the last copy.
LEMMA CopiesStep ==
  ASSUME FiniteWorld, IInv, PlaceInv, SourceInv, CopiesInv, ~PersonRemoves, [Next]_vars,
         NEW c \in Crates
  PROVE  /\ Copies(c) # {} => Copies(c)' # {}
         /\ Cardinality(Threats(c)') <= Cardinality(Copies(c)')
         /\ \/ Cardinality(Threats(c)') < Cardinality(Copies(c)') \/ Copies(c)' = {}
            \/ \E p \in Procs : Harmless(p, c)'
<1>1. /\ Cardinality(Threats(c)) <= Cardinality(Copies(c))
      /\ \/ Cardinality(Threats(c)) < Cardinality(Copies(c)) \/ Copies(c) = {}
         \/ \E p \in Procs : Harmless(p, c)
  BY DEF CopiesInv
<1>2. CASE \E p \in Procs : CommitDest(p) /\ cur[p] = c
  <2>1. PICK p \in Procs : CommitDest(p) /\ cur[p] = c
    BY <1>2
  <2>2. /\ dst[p] \notin Copies(c) /\ Copies(c)' = Copies(c) \cup {dst[p]}
        /\ p \notin Threats(c) /\ Threats(c)' = Threats(c) \cup {p}
    BY <2>1, LandingMoves
  <2>3. (\E q \in Procs : Harmless(q, c)) \/ Copies(c) = {} => \E q \in Procs : Harmless(q, c)'
    BY <2>1, LandingMoves
  <2>4. /\ Cardinality(Copies(c)') = Cardinality(Copies(c)) + 1
        /\ Cardinality(Threats(c)') = Cardinality(Threats(c)) + 1
    BY <2>2, Counted, FS_AddElement
  <2>5. Copies(c)' # {}
    BY <2>2
  <2> QED BY <1>1, <2>3, <2>4, <2>5, Counted
<1>3. CASE \E p \in Procs : (RemoveFile(p) \/ CommitRetirement(p)) /\ cur[p] = c /\ Complete(src[p], c)
  <2>1. PICK p \in Procs : (RemoveFile(p) \/ CommitRetirement(p)) /\ cur[p] = c /\ Complete(src[p], c)
    BY <1>3
  <2>2. /\ src[p] \in Copies(c) /\ Copies(c)' = Copies(c) \ {src[p]}
        /\ p \in Threats(c) /\ Threats(c)' = Threats(c) \ {p}
    BY <2>1, TakingMoves
  <2>3. /\ Cardinality(Copies(c)') = Cardinality(Copies(c)) - 1
        /\ Cardinality(Threats(c)') = Cardinality(Threats(c)) - 1
    <3>1. Cardinality(Copies(c)') = Cardinality(Copies(c)) - 1
      <4>1. PICK f : f \in Copies(c) /\ Copies(c)' = Copies(c) \ {f}
        BY <2>2
      <4>2. Cardinality(Copies(c) \ {f}) = Cardinality(Copies(c)) - 1
        BY <4>1, Counted, FS_RemoveElement
      <4> QED BY <4>1, <4>2
    <3>2. Cardinality(Threats(c)') = Cardinality(Threats(c)) - 1
      BY <2>2, Counted, FS_RemoveElement
    <3> QED BY <3>1, <3>2
  <2>4. CASE Cardinality(Threats(c)) < Cardinality(Copies(c))
    <3>1. Cardinality(Copies(c)') # 0
      BY <2>3, <2>4, Counted
    <3>2. Copies(c)' # {}
      BY <3>1, FS_EmptySet
    <3> QED BY <2>3, <2>4, <3>2, Counted
  <2>5. CASE \E w \in Procs : Harmless(w, c)
    <3>1. PICK w \in Procs : w # p /\ w \in Threats(c) /\ Harmless(w, c)'
      BY <2>1, <2>5, TakingMoves
    <3>2. Threats(c)' # {}
      BY <2>2, <3>1
    <3>3. Cardinality(Threats(c)') # 0
      BY <3>2, Counted, FS_EmptySet
    <3>4. Cardinality(Copies(c)') # 0
      BY <1>1, <2>3, <3>3, Counted
    <3>5. Copies(c)' # {}
      BY <3>4, FS_EmptySet
    <3> QED BY <1>1, <2>3, <3>1, <3>5, Counted
  <2> QED BY <1>1, <2>2, <2>4, <2>5
<1>4. CASE /\ ~ \E p \in Procs : CommitDest(p) /\ cur[p] = c
           /\ ~ \E p \in Procs : (RemoveFile(p) \/ CommitRetirement(p)) /\ cur[p] = c /\ Complete(src[p], c)
  <2>1. /\ Copies(c) \subseteq Copies(c)' /\ Threats(c)' \subseteq Threats(c)
        /\ Copies(c)' = Copies(c) /\ Threats(c)' = Threats(c) =>
             \A w \in Procs : Harmless(w, c) => Harmless(w, c)'
    BY <1>4, OtherMoves
  <2>2. /\ Cardinality(Copies(c)) <= Cardinality(Copies(c)')
        /\ Cardinality(Copies(c)) = Cardinality(Copies(c)') => Copies(c)' = Copies(c)
    BY <2>1, Counted, FS_Subset
  <2>3. /\ Cardinality(Threats(c)') <= Cardinality(Threats(c))
        /\ Cardinality(Threats(c)') = Cardinality(Threats(c)) => Threats(c)' = Threats(c)
    BY <2>1, Counted, FS_Subset
  <2>4. CASE Cardinality(Threats(c)) < Cardinality(Copies(c))
    BY <2>1, <2>2, <2>3, <2>4, Counted
  <2>5. CASE Copies(c) = {}
    <3>1. Cardinality(Copies(c)) = 0
      BY <2>5, FS_EmptySet
    <3> QED BY <1>1, <2>2, <2>3, <2>5, <3>1, Counted
  <2>6. CASE \E w \in Procs : Harmless(w, c)
    <3>1. CASE Copies(c)' = Copies(c) /\ Threats(c)' = Threats(c)
      BY <1>1, <2>1, <2>6, <3>1
    <3>2. CASE Cardinality(Threats(c)') < Cardinality(Copies(c)')
      BY <2>1, <3>2, Counted
    <3> QED BY <1>1, <2>2, <2>3, <3>1, <3>2, Counted
  <2> QED BY <1>1, <2>4, <2>5, <2>6
<1> QED BY <1>2, <1>3, <1>4

\* A source stays until someone has a copy.
LEMMA SourceStep ==
  ASSUME FiniteWorld, IInv, PlaceInv, SourceInv, CopiesInv, ~PersonRemoves, [Next]_vars
  PROVE  SourceInv'
<1> USE DEF IInv
<1> SUFFICES ASSUME NEW q \in Procs, NEW c \in Crates, cur'[q] = c, Copies(c)' = {}
             PROVE  /\ pc'[q] \notin {"retire", "remove"}
                    /\ pc'[q] = "place" => manifest'[src'[q]][c] # NoEntry
  BY DEF SourceInv, Copies, Complete
<1>1. Copies(c) = {}
  BY CopiesStep
<1>2. ~ \E p \in Procs : CommitDest(p) /\ cur[p] = c
  BY LandingMoves
<1>3. \A r \in Procs : cur[r] = c =>
        /\ pc[r] \notin {"retire", "remove"}
        /\ pc[r] = "place" => manifest[src[r]][c] # NoEntry
  BY <1>1 DEF SourceInv
<1>4. pc'[q] # "retire"
  <2>1. CASE Unmoved(q)
    BY <1>3, <2>1 DEF Unmoved
  <2>2. CASE CommitDest(q)
    BY <1>2, <2>2 DEF CommitDest
  <2> QED BY <2>1, <2>2, Arrivals
<1>5. pc'[q] # "remove"
  <2>1. pc'[q] = "remove" => cur[q] = c /\ pc[q] \in {"retire", "remove"}
    BY Arrivals, SourceCases DEF Unmoved, RemoveFile
  <2> QED BY <1>3, <2>1
<1>6. ASSUME pc'[q] = "place"
      PROVE  manifest'[src'[q]][c] # NoEntry
  <2>1. CASE Probe(q) \/ Place(q)
    <3>1. cur[q] = c /\ src'[q] = src[q] /\ pc[q] \in {"door", "place"} /\ manifest' = manifest
      BY <2>1 DEF Probe, Place, plan
    <3>2. CASE Place(q)
      BY <1>3, <3>1, <3>2 DEF Place
    <3>3. CASE Probe(q)
      BY <3>1, <3>3, AtWork, Blanks DEF Probe, InHand, Holding
    <3> QED BY <2>1, <3>2, <3>3
  <2>2. CASE Unmoved(q)
    <3>1. pc[q] = "place" /\ cur[q] = c /\ src'[q] = src[q] /\ src[q] \in Prefixes
      BY <1>6, <2>2, AtWork DEF Unmoved
    <3>2. ~ \E p \in Procs : (RemoveFile(p) \/ CommitRetirement(p)) /\ src[q] = src[p] /\ c = cur[p]
      BY <1>3 DEF RemoveFile, CommitRetirement
    <3>3. ASSUME NEW f \in Prefixes, Install(f, c)
          PROVE  manifest'[f][c] # NoEntry
      <4>1. PICK e \in Entries : manifest' = [manifest EXCEPT ![f][c] = e]
        BY <3>3, InstallEffect
      <4> QED BY <4>1, Blanks DEF TypeOK, DiskOK, Manifests
    <3>4. \A f \in Prefixes : f = src[q] /\ manifest[f][c] # NoEntry => manifest'[f][c] # NoEntry
      BY <1>2, <3>2, <3>3, CompleteMoves
    <3> QED BY <1>3, <3>1, <3>4
  <2> QED BY <1>6, <2>1, <2>2, Arrivals
<1> QED BY <1>4, <1>5, <1>6

\* A crate that is completely installed somewhere stays so, whatever migrations,
\* failures and kills happen at once, as long as nobody runs `remove` (migrate_one).
THEOREM NeverWithoutACopy ==
  ASSUME FiniteWorld, ~PersonRemoves
  PROVE  Spec => NeverWithout
<1> DEFINE JInv == PlaceInv /\ SourceInv /\ CopiesInv
<1>1. Init => JInv
  <2> SUFFICES ASSUME Init PROVE JInv
    OBVIOUS
  <2>1. PlaceInv /\ SourceInv
    BY MigrateAssumption DEF Init, PlaceInv, SourceInv, MigrateAssumption
  <2>2. ASSUME NEW c \in Crates
        PROVE  Copies(c) = {} /\ Threats(c) = {}
    BY <2>2 DEF Init, Copies, Complete, Threats, NoManifest
  <2>3. CopiesInv
    BY <2>2, FS_EmptySet DEF CopiesInv
  <2> QED BY <2>1, <2>3
<1>2. IInv /\ JInv /\ [Next]_vars => JInv'
  <2> SUFFICES ASSUME IInv, PlaceInv, SourceInv, CopiesInv, [Next]_vars PROVE JInv'
    OBVIOUS
  <2>1. PlaceInv' /\ SourceInv'
    BY PlaceStep, SourceStep DEF IInv
  <2>2. CopiesInv'
    BY CopiesStep DEF CopiesInv
  <2> QED BY <2>1, <2>2
<1>3. IInv /\ JInv /\ [Next]_vars =>
        [\A c \in Crates : HasCopy(c) => HasCopy(c)' \/ Removed(c)]_vars
  <2> SUFFICES ASSUME IInv, PlaceInv, SourceInv, CopiesInv, [Next]_vars, NEW c \in Crates, HasCopy(c)
               PROVE  HasCopy(c)'
    OBVIOUS
  <2>1. Copies(c) # {}
    BY DEF HasCopy, Copies
  <2>2. Copies(c)' # {}
    BY <2>1, CopiesStep
  <2> QED BY <2>2 DEF HasCopy, Copies
<1> HIDE DEF JInv
<1> QED BY <1>1, <1>2, <1>3, InductiveInvariant, PTL DEF Spec, NeverWithout

=============================================================================
