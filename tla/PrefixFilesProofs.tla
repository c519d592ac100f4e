-------------------------- MODULE PrefixFilesProofs --------------------------
(***************************************************************************)
(* Proofs about the files of one prefix and about confirmed plans, for any *)
(* number of crates, binaries, releases and processes.  The files take the *)
(* invariant FilesInv (what each step of an operation has done to bin/ so  *)
(* far) on top of IInv, other programs' files FreeInv, verify ReaderInv,   *)
(* and the plans PlansInv (what was shown still holds for the members to   *)
(* come, and the entry in hand keeps to it).  Each step is either of the   *)
(* process whose turn it is, or leaves what that process does alone        *)
(* (lemma Frame).                                                          *)
(***************************************************************************)
EXTENDS PrefixProofs

-----------------------------------------------------------------------------
(* Who moves what.                                                         *)

\* What process q has in memory stays as it is.
Unmoved(q) ==
  /\ pc'[q] = pc[q] /\ verb'[q] = verb[q] /\ want'[q] = want[q] /\ snap'[q] = snap[q]
  /\ mem'[q] = mem[q] /\ todo'[q] = todo[q] /\ cur'[q] = cur[q] /\ new'[q] = new[q]
  /\ left'[q] = left[q] /\ placed'[q] = placed[q] /\ bad'[q] = bad[q]

\* A step is one process's, or the world's.
LEMMA OneMoves ==
  ASSUME IInv, [Next]_vars
  PROVE  \/ \E p \in Procs : Proc(p) /\ \A q \in Procs \ {p} : Unmoved(q)
         \/ (World \/ UNCHANGED vars) /\ \A q \in Procs : Unmoved(q)
<1> USE DEF Unmoved, IInv, TypeOK, CommandTypeOK, MemberTypeOK, request, member, Goto
<1>1. CASE World \/ UNCHANGED vars
  BY <1>1 DEF World, Publish, ForeignFile, CleanLeftover, vars
<1>2. ASSUME NEW p \in Procs, Proc(p), NEW q \in Procs \ {p}
      PROVE  Unmoved(q)
  <2>1. CASE StartDirect(p) \/ StartReading(p) \/ Plan(p) \/ Confirm(p) \/ Read(p)
    BY <2>1 DEF StartDirect, StartReading, Plan, Confirm, Read, TakeLock
  <2>2. CASE Decline(p) \/ Crash(p) \/ Finish(p) \/ FailRemoval(p) \/ Audited(p)
               \/ SetPinned(p)
    BY <2>2 DEF Decline, Crash, Finish, FailRemoval, Audited, SetPinned, Exit
  <2>3. CASE Gate(p)
    BY <2>3 DEF Gate, Exit
  <2>4. CASE Pick(p) \/ PickRemoval(p)
    BY <2>4 DEF Pick, PickRemoval
  <2>5. CASE Build(p) \/ Miss(p) \/ Door(p) \/ Place(p) \/ Placed(p) \/ RemoveFile(p)
    BY <2>5 DEF Build, Miss, Door, Place, Placed, RemoveFile, NextMember
  <2>6. CASE Fail(p) \/ Rollback(p) \/ RolledBack(p) \/ Commit(p) \/ CommitRemoval(p)
    BY <2>6 DEF Fail, Rollback, RolledBack, Commit, CommitRemoval, NextMember
  <2>7. CASE Audit(p)
    BY <2>7 DEF Audit
  <2> QED BY <1>2, <2>1, <2>2, <2>3, <2>4, <2>5, <2>6, <2>7 DEF Proc, Work
<1> QED BY <1>1, <1>2 DEF Next

\* The holder of the exclusive lock is at a step that has it, alone.
LEMMA Alone ==
  ASSUME IInv, NEW p \in Procs
  PROVE  /\ pc[p] \in Locked <=> lockEx = p
         /\ pc[p] \in Locked => \A q \in Procs \ {p} : pc[q] \notin Locked
         /\ p # NoProc
BY PrefixAssumption DEF IInv, LockInv, PrefixAssumption

\* Steps by which a process does nothing to the prefix.
LEMMA Quiet ==
  ASSUME NEW p \in Procs, Proc(p), ~Place(p), ~RemoveFile(p), ~Rollback(p), ~Commit(p),
         ~CommitRemoval(p), ~SetPinned(p), ~Crash(p)
  PROVE  UNCHANGED <<manifest, disk, torn, orphaned>>
BY DEF Proc, Work, StartDirect, StartReading, Plan, Decline, Confirm, Read, Gate, Pick,
       Finish, Build, Miss, Door, Placed, Fail, RolledBack, PickRemoval, FailRemoval,
       Audit, Audited, ghosts

\* While a process holds the exclusive lock, nobody else touches the prefix, but for
\* other programs that may create a file where there is none and nobody claims it.
LEMMA Frame ==
  ASSUME IInv, [Next]_vars, NEW p \in Procs, pc[p] \in Locked, ~Proc(p)
  PROVE  /\ Unmoved(p) /\ UNCHANGED <<manifest, torn, orphaned>>
         /\ \A b \in Bins :
              \/ disk'[b] = disk[b]
              \/ disk[b] = Absent /\ b \notin Claimed(manifest) /\ disk'[b] = Foreign
<1>1. Unmoved(p)
  BY OneMoves
<1>2. CASE UNCHANGED vars
  BY <1>1, <1>2 DEF vars, ghosts
<1>3. CASE World
  <2>1. lockEx # NoProc
    BY Alone
  <2>2. CASE \E c \in Crates : Publish(c)
    BY <1>1, <2>2 DEF Publish, ghosts
  <2>3. CASE \E b \in Bins : ForeignFile(b)
    BY <1>1, <2>1, <2>3 DEF ForeignFile, ghosts, IInv, TypeOK, SharedTypeOK
  <2> QED BY <1>3, <2>1, <2>2, <2>3 DEF World, CleanLeftover
<1>4. ASSUME NEW q \in Procs \ {p}, Proc(q)
      PROVE  UNCHANGED <<manifest, disk, torn, orphaned>>
  <2>1. pc[q] \notin Locked
    BY Alone
  <2>2. CASE Crash(q)
    BY <2>1, <2>2 DEF Crash, Locked
  <2>3. ~Place(q) /\ ~RemoveFile(q) /\ ~Rollback(q) /\ ~Commit(q) /\ ~CommitRemoval(q)
        /\ ~SetPinned(q)
    BY <2>1 DEF Locked, Place, RemoveFile, Rollback, Commit, CommitRemoval, SetPinned
  <2> QED BY <1>4, <2>2, <2>3, Quiet
<1> QED BY <1>1, <1>2, <1>3, <1>4 DEF Next

-----------------------------------------------------------------------------
(* The operation in hand.                                                  *)

\* Ownership, as the steps below use it.
LEMMA Ownership ==
  ASSUME IInv
  PROVE  /\ \A c \in Crates : BinsOf(manifest, c) \subseteq Bins
         /\ \A c, d \in Crates, b \in Bins :
              b \in BinsOf(manifest, c) /\ b \in BinsOf(manifest, d) => c = d
         /\ \A b \in Bins : b \in Claimed(manifest) <=> \E c \in Crates : b \in BinsOf(manifest, c)
<1>1. manifest \in Manifests /\ Valid(manifest)
  BY DEF IInv, TypeOK, SharedTypeOK
<1>2. \A c \in Crates : BinsOf(manifest, c) \subseteq Bins
  BY <1>1 DEF BinsOf, Manifests, Entries
<1>3. \A c, d \in Crates, b \in Bins :
        b \in BinsOf(manifest, c) /\ b \in BinsOf(manifest, d) => c = d
  BY <1>1 DEF Valid
<1>4. \A b \in Bins : b \in Claimed(manifest) <=> \E c \in Crates : b \in BinsOf(manifest, c)
  BY DEF Claimed
<1> QED BY <1>2, <1>3, <1>4

\* A member whose files are being placed: what it is, and whose names it takes.
LEMMA MemberInHand ==
  ASSUME IInv, NEW p \in Procs, pc[p] \in {"door", "place", "obsolete"}
  PROVE  /\ cur[p] \in Crates /\ new[p] \in Entries /\ new[p].bins \subseteq Bins
         /\ mem[p] = manifest /\ lockEx = p
         /\ OwnFile(p) \in Files
         /\ OwnFile(p).crate = cur[p] /\ OwnFile(p).version = new[p].version
         /\ \A b \in new[p].bins, d \in Crates : b \in BinsOf(manifest, d) => d = cur[p]
<1>1. cur[p] \in Crates /\ mem[p] = manifest /\ lockEx = p
  BY DEF IInv, MemberInv, InHand, MemoryInv, Fresh, LockInv, Locked
<1>2. new[p] \in Entries
  BY DEF IInv, PendingInv
<1>3. \A d \in Crates \ {cur[p]} : new[p].bins \cap BinsOf(manifest, d) = {}
  BY DEF IInv, PendingInv
<1>4. new[p].bins \subseteq Bins /\ new[p].version \in Versions
  BY <1>2 DEF Entries
<1>5. OwnFile(p) \in Files /\ OwnFile(p).crate = cur[p] /\ OwnFile(p).version = new[p].version
  BY <1>1, <1>4 DEF OwnFile, Files
<1>6. \A b \in new[p].bins, d \in Crates : b \in BinsOf(manifest, d) => d = cur[p]
  BY <1>3
<1> QED BY <1>1, <1>2, <1>4, <1>5, <1>6

-----------------------------------------------------------------------------
(* The progress of an operation.                                           *)

\* What others do leaves it alone.
LEMMA OthersKeepPlacing ==
  ASSUME IInv, [Next]_vars, NEW p \in Procs, ~Proc(p), Placing(p)
  PROVE  Placing(p)'
<1>1. Unmoved(p)
  BY OneMoves
<1>2. CASE pc[p] \notin {"place", "obsolete"}
  BY <1>1, <1>2 DEF Placing, Unmoved
<1>3. CASE pc[p] \in {"place", "obsolete"}
  <2>1. /\ UNCHANGED manifest
        /\ \A b \in Bins : disk'[b] = disk[b] \/ (disk[b] = Absent /\ b \notin Claimed(manifest))
    BY <1>3, Frame DEF Locked
  <2>2. OwnFile(p) # Absent /\ cur[p] \in Crates /\ new[p].bins \subseteq Bins
    BY <1>3, MemberInHand, SentinelAssumption DEF SentinelAssumption
  <2>3. OwnFile(p)' = OwnFile(p) /\ Retired(p)' = Retired(p) /\ Gained(p)' = Gained(p)
    BY <1>1, <2>1 DEF Unmoved, OwnFile, Retired, Gained, BinsOf
  <2>4. Retired(p) \subseteq Claimed(manifest) /\ Retired(p) \subseteq Bins
    BY <2>2, Ownership DEF Retired, Claimed
  <2>5. ASSUME NEW b \in new[p].bins, disk[b] = OwnFile(p) PROVE disk'[b] = OwnFile(p)
    BY <2>1, <2>2, <2>5
  <2>6. ASSUME NEW b \in Retired(p) PROVE disk'[b] = disk[b]
    BY <2>1, <2>4
  <2>7. pc'[p] = "place" =>
          /\ left'[p] \subseteq new'[p].bins
          /\ \A b \in new'[p].bins \ left'[p] : disk'[b] = OwnFile(p)'
          /\ placed'[p] = Gained(p)' \ left'[p]
    BY <1>1, <2>3, <2>5 DEF Placing, Unmoved
  <2>8. pc'[p] = "obsolete" =>
          /\ left'[p] \subseteq Retired(p)'
          /\ \A b \in new'[p].bins : disk'[b] = OwnFile(p)'
          /\ \A b \in Retired(p)' \ left'[p] : disk'[b] = Absent
          /\ placed'[p] = Gained(p)'
    BY <1>1, <2>3, <2>5, <2>6 DEF Placing, Unmoved
  <2> QED BY <2>7, <2>8 DEF Placing
<1> QED BY <1>2, <1>3

LEMMA OthersKeepRemoving ==
  ASSUME IInv, [Next]_vars, NEW p \in Procs, ~Proc(p), Removing(p)
  PROVE  Removing(p)'
<1>1. Unmoved(p)
  BY OneMoves
<1>2. CASE pc[p] \notin {"rollback", "rm"}
  BY <1>1, <1>2 DEF Removing, Unmoved
<1>3. CASE pc[p] \in {"rollback", "rm"}
  <2>1. /\ UNCHANGED <<manifest, orphaned>>
        /\ \A b \in Bins : \/ disk'[b] = disk[b]
                           \/ /\ disk[b] = Absent /\ b \notin Claimed(manifest)
                              /\ disk'[b] = Foreign
    BY <1>3, Frame DEF Locked
  <2>2. Absent \notin Files /\ Foreign \notin Files /\ cur[p] \in Crates
        /\ left[p] \subseteq Bins /\ placed[p] \subseteq Bins
    BY <1>3, SentinelAssumption
    DEF SentinelAssumption, IInv, MemberInv, InHand, TypeOK, MemberTypeOK
  <2>3. BinsOf(manifest, cur[p]) \subseteq Claimed(manifest) /\ BinsOf(manifest, cur[p]) \subseteq Bins
    BY <2>2, Ownership DEF Claimed
  <2>4. BinsOf(manifest', cur'[p]) = BinsOf(manifest, cur[p])
        /\ Claimed(manifest') = Claimed(manifest)
    BY <1>1, <2>1 DEF Unmoved
  <2>5. \A b \in BinsOf(manifest, cur[p]) : disk'[b] = disk[b]
    BY <2>1, <2>3
  <2>6. \A b \in Bins : disk'[b] \in Files <=> disk[b] \in Files
    BY <2>1, <2>2
  <2>7. CASE pc[p] = "rollback"
    BY <1>1, <2>1, <2>2, <2>4, <2>6, <2>7 DEF Removing, Unmoved
  <2>8. CASE pc[p] = "rm"
    BY <1>1, <2>1, <2>4, <2>5, <2>8 DEF Removing, Unmoved
  <2> QED BY <1>3, <2>7, <2>8
<1> QED BY <1>2, <1>3

\* Its own steps go on from where it is.
LEMMA OwnPlacing ==
  ASSUME IInv, NEW p \in Procs, Proc(p), Placing(p), Removing(p)
  PROVE  Placing(p)'
<1>. /\ pc \in [Procs -> Steps] /\ left \in [Procs -> SUBSET Bins]
     /\ placed \in [Procs -> SUBSET Bins] /\ disk \in [Bins -> Files \cup {Absent, Foreign}]
     /\ new \in [Procs -> Pending] /\ cur \in [Procs -> Crates \cup {NoCrate}]
  BY DEF IInv, TypeOK, SharedTypeOK, CommandTypeOK, MemberTypeOK
<1>1. CASE pc'[p] \notin {"place", "obsolete"}
  BY <1>1 DEF Placing
<1>2. CASE Door(p)
  <2>1. /\ pc'[p] = "place" /\ left'[p] = new[p].bins /\ placed'[p] = {}
        /\ UNCHANGED <<manifest, disk, cur, new>>
    BY <1>2 DEF Door, Goto
  <2>2. Gained(p)' = Gained(p) /\ Gained(p) \subseteq new[p].bins
    BY <2>1 DEF Gained, BinsOf
  <2> QED BY <2>1, <2>2 DEF Placing
<1>3. CASE Place(p)
  <2>1. PICK b \in left[p] :
          /\ disk' = [disk EXCEPT ![b] = OwnFile(p)]
          /\ left' = [left EXCEPT ![p] = @ \ {b}]
          /\ placed' = IF b \in BinsOf(mem[p], cur[p]) THEN placed
                       ELSE [placed EXCEPT ![p] = @ \cup {b}]
    BY <1>3 DEF Place, OwnFile
  <2>2. /\ pc[p] = "place" /\ pc'[p] = "place" /\ UNCHANGED <<manifest, cur, new>>
        /\ mem[p] = manifest /\ new[p].bins \subseteq Bins
    BY <1>3, MemberInHand DEF Place
  <2>3. /\ left[p] \subseteq new[p].bins
        /\ \A d \in new[p].bins \ left[p] : disk[d] = OwnFile(p)
        /\ placed[p] = Gained(p) \ left[p]
    BY <2>2 DEF Placing
  <2>4. OwnFile(p)' = OwnFile(p) /\ Gained(p)' = Gained(p)
    BY <2>2 DEF OwnFile, Gained, BinsOf
  <2>5. left'[p] \subseteq new[p].bins
    BY <2>1, <2>3
  <2>6. ASSUME NEW d \in new[p].bins \ left'[p] PROVE disk'[d] = OwnFile(p)
    BY <2>1, <2>2, <2>3
  <2>7. placed'[p] = Gained(p) \ left'[p]
    <3>1. CASE b \in BinsOf(mem[p], cur[p])
      <4>1. b \notin Gained(p)
        BY <2>2, <3>1 DEF Gained
      <4> QED BY <2>1, <2>3, <3>1, <4>1
    <3>2. CASE b \notin BinsOf(mem[p], cur[p])
      <4>1. b \in Gained(p)
        BY <2>2, <2>3, <3>2 DEF Gained
      <4> QED BY <2>1, <2>3, <3>2, <4>1
    <3> QED BY <3>1, <3>2
  <2> QED BY <2>2, <2>4, <2>5, <2>6, <2>7 DEF Placing
<1>4. CASE Placed(p)
  <2>1. /\ pc[p] = "place" /\ left[p] = {} /\ pc'[p] = "obsolete"
        /\ left'[p] = Obsolete(BinsOf(mem[p], cur[p]), new[p].bins)
        /\ UNCHANGED <<manifest, disk, cur, new, placed>>
    BY <1>4 DEF Placed, Goto
  <2>2. /\ OwnFile(p)' = OwnFile(p) /\ Gained(p)' = Gained(p) /\ Retired(p)' = Retired(p)
        /\ left'[p] = Retired(p)
    BY <2>1, MemberInHand DEF OwnFile, Gained, Retired, BinsOf, Obsolete
  <2> QED BY <2>1, <2>2 DEF Placing
<1>5. CASE RemoveFile(p) /\ pc[p] = "obsolete"
  <2>1. PICK b \in left[p] : /\ disk' = [disk EXCEPT ![b] = Absent]
                             /\ left' = [left EXCEPT ![p] = @ \ {b}]
    BY <1>5 DEF RemoveFile
  <2>2. pc'[p] = "obsolete" /\ UNCHANGED <<manifest, cur, new, placed>>
    BY <1>5 DEF RemoveFile
  <2>3. /\ OwnFile(p)' = OwnFile(p) /\ Gained(p)' = Gained(p) /\ Retired(p)' = Retired(p)
    BY <2>2 DEF OwnFile, Gained, Retired, BinsOf
  <2>4. /\ left[p] \subseteq Retired(p) /\ placed[p] = Gained(p)
        /\ \A d \in new[p].bins : disk[d] = OwnFile(p)
        /\ \A d \in Retired(p) \ left[p] : disk[d] = Absent
    BY <1>5 DEF Placing
  <2>5. b \in Bins /\ b \notin new[p].bins
    BY <2>4 DEF Retired
  <2>6. /\ \A d \in new[p].bins : disk'[d] = OwnFile(p)
        /\ \A d \in Retired(p) \ left'[p] : disk'[d] = Absent
        /\ left'[p] \subseteq Retired(p)
    <3>1. new[p].bins \subseteq Bins
      BY <1>5, MemberInHand
    <3>2. Retired(p) \subseteq Bins
      BY <1>5, MemberInHand, Ownership DEF Retired
    <3> QED BY <2>1, <2>4, <2>5, <3>1, <3>2
  <2> QED BY <2>2, <2>3, <2>4, <2>6 DEF Placing
<1>6. Door(p) \/ Place(p) \/ Placed(p) \/ (RemoveFile(p) /\ pc[p] = "obsolete")
        \/ pc'[p] \notin {"place", "obsolete"}
  <2>1. CASE StartDirect(p) \/ StartReading(p) \/ Plan(p) \/ Confirm(p) \/ Read(p)
               \/ Decline(p) \/ Crash(p) \/ Gate(p) \/ Audit(p) \/ Audited(p)
    BY <2>1 DEF StartDirect, StartReading, Plan, Confirm, Read, TakeLock, Decline, Crash,
                Gate, Audit, Audited, Exit, Goto
  <2>2. CASE Pick(p) \/ Finish(p) \/ Build(p) \/ Miss(p) \/ Commit(p) \/ Fail(p)
               \/ Rollback(p) \/ RolledBack(p)
    BY <2>2 DEF Pick, Finish, Build, Miss, Commit, Fail, Rollback, RolledBack, NextMember,
                Exit, Goto
  <2>3. CASE PickRemoval(p) \/ CommitRemoval(p) \/ FailRemoval(p) \/ SetPinned(p)
               \/ RemoveFile(p)
    BY <2>3 DEF PickRemoval, CommitRemoval, FailRemoval, SetPinned, RemoveFile,
                NextMember, Exit, Goto
  <2> QED BY <2>1, <2>2, <2>3 DEF Proc, Work
<1> QED BY <1>1, <1>2, <1>3, <1>4, <1>5, <1>6

LEMMA OwnRemoving ==
  ASSUME IInv, NEW p \in Procs, Proc(p), Placing(p), Removing(p)
  PROVE  Removing(p)'
<1>. /\ pc \in [Procs -> Steps] /\ left \in [Procs -> SUBSET Bins]
     /\ placed \in [Procs -> SUBSET Bins] /\ disk \in [Bins -> Files \cup {Absent, Foreign}]
     /\ new \in [Procs -> Pending] /\ cur \in [Procs -> Crates \cup {NoCrate}]
     /\ todo \in [Procs -> SUBSET Crates] /\ mem \in [Procs -> Manifests]
  BY DEF IInv, TypeOK, SharedTypeOK, CommandTypeOK, MemberTypeOK
<1>1. CASE Fail(p)
  <2>1. /\ pc[p] \in {"place", "obsolete"} /\ pc'[p] = "rollback" /\ left'[p] = placed[p]
        /\ UNCHANGED <<manifest, disk, orphaned, cur, placed>>
    BY <1>1 DEF Fail, Goto, ghosts
  <2>2. /\ placed[p] \subseteq Gained(p)
        /\ \A b \in placed[p] : disk[b] = OwnFile(p)
    BY <2>1 DEF Placing, Gained
  <2>3. placed[p] \cap Claimed(manifest) = {}
    BY <2>1, <2>2, MemberInHand DEF Gained, Claimed
  <2>4. \A b \in placed[p] : disk[b] \in Files
    BY <2>1, <2>2, MemberInHand
  <2> QED BY <2>1, <2>3, <2>4 DEF Removing, Claimed, BinsOf
<1>2. CASE Rollback(p)
  <2>1. PICK b \in left[p] :
          /\ left' = [left EXCEPT ![p] = @ \ {b}]
          /\ \/ disk' = [disk EXCEPT ![b] = Absent] /\ UNCHANGED orphaned
             \/ orphaned' = orphaned \cup {b} /\ UNCHANGED disk
    BY <1>2 DEF Rollback
  <2>2. /\ pc[p] = "rollback" /\ pc'[p] = "rollback" /\ UNCHANGED <<manifest, cur, placed>>
    BY <1>2 DEF Rollback
  <2>3. /\ left[p] \subseteq placed[p] /\ placed[p] \cap Claimed(manifest) = {}
        /\ \A d \in left[p] : disk[d] \in Files
        /\ \A d \in placed[p] \ left[p] : disk[d] \notin Files \/ d \in orphaned
    BY <2>2 DEF Removing
  <2>4. Claimed(manifest)' = Claimed(manifest)
    BY <2>2 DEF Claimed, BinsOf
  <2>5. /\ \A d \in left'[p] : disk'[d] \in Files
        /\ \A d \in placed[p] \ left'[p] : disk'[d] \notin Files \/ d \in orphaned'
    BY <2>1, <2>3, SentinelAssumption DEF SentinelAssumption
  <2>6. left'[p] \subseteq placed[p]
    BY <2>1, <2>3
  <2> QED BY <2>2, <2>3, <2>4, <2>5, <2>6 DEF Removing
<1>3. CASE PickRemoval(p)
  <2>1. PICK c \in todo[p] :
          IF c \in Installed(mem[p])
          THEN /\ cur' = [cur EXCEPT ![p] = c]
               /\ left' = [left EXCEPT ![p] = BinsOf(mem[p], c)]
               /\ Goto(p, "rm")
          ELSE UNCHANGED <<cur, left, pc>>
    BY <1>3 DEF PickRemoval
  <2>2. /\ pc[p] = "pick" /\ mem[p] = manifest /\ UNCHANGED <<manifest, placed>>
    BY <1>3 DEF PickRemoval, IInv, MemoryInv, Fresh
  <2>3. placed'[p] = {}
    BY <2>2 DEF Removing
  <2>4. CASE c \in Installed(mem[p])
    <3>1. pc'[p] = "rm" /\ cur'[p] = c /\ left'[p] = BinsOf(manifest, c)
      BY <2>1, <2>2, <2>4 DEF Goto
    <3>2. BinsOf(manifest', cur'[p]) = left'[p]
      BY <2>2, <3>1
    <3> QED BY <2>3, <3>1, <3>2 DEF Removing
  <2>5. CASE c \notin Installed(mem[p])
    <3>1. pc'[p] = "pick"
      BY <2>1, <2>2, <2>5
    <3> QED BY <2>3, <3>1 DEF Removing
  <2> QED BY <2>4, <2>5
<1>4. CASE RemoveFile(p)
  <2>1. PICK b \in left[p] : /\ disk' = [disk EXCEPT ![b] = Absent]
                             /\ left' = [left EXCEPT ![p] = @ \ {b}]
    BY <1>4 DEF RemoveFile
  <2>2. pc[p] \in {"obsolete", "rm"} /\ pc'[p] = pc[p] /\ UNCHANGED <<manifest, cur, placed>>
    BY <1>4 DEF RemoveFile
  <2>3. CASE pc[p] = "obsolete"
    BY <2>2, <2>3 DEF Removing
  <2>4. CASE pc[p] = "rm"
    <3>1. /\ left[p] \subseteq BinsOf(manifest, cur[p]) /\ placed[p] = {}
          /\ \A d \in BinsOf(manifest, cur[p]) \ left[p] : disk[d] = Absent
      BY <2>4 DEF Removing
    <3>2. BinsOf(manifest, cur[p]) \subseteq Bins
      BY <2>4, Ownership DEF IInv, MemberInv, InHand
    <3>3. /\ left'[p] \subseteq BinsOf(manifest, cur[p])
          /\ \A d \in BinsOf(manifest, cur[p]) \ left'[p] : disk'[d] = Absent
      BY <2>1, <3>1, <3>2
    <3>4. BinsOf(manifest', cur'[p]) = BinsOf(manifest, cur[p])
      BY <2>2
    <3> QED BY <2>2, <2>4, <3>1, <3>3, <3>4 DEF Removing
  <2> QED BY <2>2, <2>3, <2>4
<1>5. CASE pc'[p] \in {"place", "obsolete"}
  BY <1>5 DEF Removing
<1>6. Fail(p) \/ Rollback(p) \/ PickRemoval(p) \/ RemoveFile(p)
      \/ pc'[p] \in {"place", "obsolete"}
      \/ (pc'[p] \notin {"place", "obsolete", "rollback", "rm"} /\ placed'[p] = {})
  <2>1. CASE StartDirect(p) \/ StartReading(p) \/ Plan(p) \/ Confirm(p) \/ Read(p)
    BY <2>1 DEF StartDirect, StartReading, Plan, Confirm, Read, TakeLock, Goto, member,
                Removing
  <2>2. CASE Decline(p) \/ Crash(p) \/ Audited(p) \/ Finish(p) \/ FailRemoval(p)
               \/ SetPinned(p)
    BY <2>2 DEF Decline, Crash, Audited, Finish, FailRemoval, SetPinned, Exit, Goto
  <2>3. CASE Gate(p) \/ Audit(p)
    BY <2>3 DEF Gate, Audit, Exit, Goto, member, Removing
  <2>4. CASE Pick(p) \/ Build(p)
    BY <2>4 DEF Pick, Build, Goto, Removing
  <2>5. CASE Miss(p) \/ RolledBack(p) \/ Commit(p) \/ CommitRemoval(p)
    BY <2>5 DEF Miss, RolledBack, Commit, CommitRemoval, NextMember, Goto
  <2>6. CASE Door(p) \/ Place(p) \/ Placed(p)
    BY <2>6 DEF Door, Place, Placed, Goto
  <2> QED BY <2>1, <2>2, <2>3, <2>4, <2>5, <2>6 DEF Proc, Work
<1>7. CASE pc'[p] \notin {"place", "obsolete", "rollback", "rm"} /\ placed'[p] = {}
  BY <1>7 DEF Removing
<1> QED BY <1>1, <1>2, <1>3, <1>4, <1>5, <1>6, <1>7

-----------------------------------------------------------------------------
(* The files and the manifest.                                             *)

\* b is in the rollback set of the operation at work.
Covered(b) == \E p \in Procs : lockEx = p /\ b \in placed[p]

\* Unless its bearer commits or dies, a rollback set only loses what is gone or was
\* reported.
LEMMA CoverKept ==
  ASSUME IInv, NEW p \in Procs, Proc(p), Removing(p), ~Commit(p), ~Crash(p),
         NEW b \in Bins, Covered(b)
  PROVE  Covered(b)' \/ disk[b] \notin Files \/ b \in orphaned
<1>. /\ pc \in [Procs -> Steps] /\ placed \in [Procs -> SUBSET Bins]
     /\ lockEx \in Procs \cup {NoProc} /\ NoProc \notin Procs
  BY PrefixAssumption
  DEF IInv, TypeOK, SharedTypeOK, CommandTypeOK, MemberTypeOK, PrefixAssumption
<1>1. PICK q \in Procs : lockEx = q /\ b \in placed[q]
  BY DEF Covered
<1>2. pc[p] \notin {"place", "obsolete", "rollback"} => placed[p] = {}
  BY DEF Removing
<1>3. CASE p # q
  <2>1. pc[p] \notin Locked
    BY <1>1, <1>3 DEF IInv, LockInv
  <2>2. placed'[q] = placed[q] /\ lockEx' = lockEx
    <3>1. CASE StartReading(p) \/ Plan(p) \/ Read(p) \/ Audit(p)
      BY <3>1 DEF StartReading, Plan, Read, Audit, member, lockVars
    <3>2. CASE Decline(p) \/ Audited(p)
      BY <1>1, <1>3, <3>2 DEF Decline, Audited, Exit, Unlock, lockVars
    <3> QED BY <1>1, <2>1, <3>1, <3>2
            DEF Proc, Work, Locked, StartDirect, Confirm, TakeLock, Gate, Pick, Finish, Build,
                Miss, Door, Place, Placed, RemoveFile, Commit, Fail, Rollback, RolledBack,
                PickRemoval, CommitRemoval, FailRemoval, SetPinned
  <2> QED BY <1>1, <2>2 DEF Covered
<1>4. CASE p = q
  <2>1. pc[p] \in {"place", "obsolete", "rollback"}
    BY <1>1, <1>2, <1>4
  <2>2. CASE RolledBack(p)
    <3>1. \A d \in placed[p] : disk[d] \notin Files \/ d \in orphaned
      BY <2>2 DEF RolledBack, Removing
    <3> QED BY <1>1, <1>4, <3>1
  <2>3. CASE Place(p) \/ Placed(p) \/ RemoveFile(p) \/ Fail(p) \/ Rollback(p)
    <3>1. lockEx' = lockEx /\ placed[p] \subseteq placed'[p]
      BY <2>3 DEF Place, Placed, RemoveFile, Fail, Rollback, lockVars
    <3> QED BY <1>1, <1>4, <3>1 DEF Covered
  <2> QED BY <2>1, <2>2, <2>3
          DEF Proc, Work, StartDirect, StartReading, Plan, Decline, Confirm, Read, Gate,
              Pick, Finish, Build, Miss, Door, PickRemoval, CommitRemoval, FailRemoval,
              SetPinned, Audit, Audited
<1> QED BY <1>3, <1>4

\* Setting pins moves no binary and no version.
LEMMA PinsOnly ==
  ASSUME IInv, NEW p \in Procs, SetPinned(p)
  PROVE  /\ \A c \in Crates : BinsOf(manifest', c) = BinsOf(manifest, c)
         /\ Installed(manifest') = Installed(manifest)
         /\ \A c \in Installed(manifest) : /\ manifest'[c].bins = manifest[c].bins
                                          /\ manifest'[c].version = manifest[c].version
<1>1. /\ manifest \in Manifests /\ mem[p] = manifest /\ todo[p] \subseteq Installed(manifest)
  BY DEF SetPinned, IInv, TypeOK, SharedTypeOK, MemoryInv, Fresh, PlanInv
<1>2. CASE UNCHANGED manifest
  BY <1>2
<1>3. ASSUME NEW bit \in BOOLEAN,
             manifest' = [c \in Crates |-> IF c \in todo[p]
                                          THEN [mem[p][c] EXCEPT !.pinned = bit]
                                          ELSE mem[p][c]]
      PROVE  \A c \in Crates :
               /\ manifest'[c] = NoEntry <=> manifest[c] = NoEntry
               /\ c \in Installed(manifest) => /\ manifest'[c].bins = manifest[c].bins
                                              /\ manifest'[c].version = manifest[c].version
  <2> TAKE c \in Crates
  <2>1. CASE c \notin todo[p]
    BY <1>1, <1>3, <2>1
  <2>2. CASE c \in todo[p]
    <3>1. manifest[c] \in Entries /\ manifest[c] # NoEntry
      BY <1>1, <2>2 DEF Installed, Manifests
    <3>2. manifest'[c] = [manifest[c] EXCEPT !.pinned = bit]
      BY <1>1, <1>3, <2>2
    <3>3. manifest'[c] \in Entries /\ manifest'[c].bins = manifest[c].bins
          /\ manifest'[c].version = manifest[c].version
      BY <3>1, <3>2 DEF Entries
    <3> QED BY <3>1, <3>3, SentinelAssumption DEF SentinelAssumption
  <2> QED BY <2>1, <2>2
<1>4. manifest' = manifest \/ \E bit \in BOOLEAN :
        manifest' = [c \in Crates |-> IF c \in todo[p]
                                     THEN [mem[p][c] EXCEPT !.pinned = bit]
                                     ELSE mem[p][c]]
  BY DEF SetPinned
<1> QED BY <1>2, <1>3, <1>4 DEF Installed, BinsOf

\* Committing an entry, or a removal, changes one crate.
LEMMA CommitsOne ==
  ASSUME IInv, NEW p \in Procs, Commit(p)
  PROVE  /\ manifest' = [manifest EXCEPT ![cur[p]] = new[p]]
         /\ cur[p] \in Installed(manifest')
         /\ BinsOf(manifest', cur[p]) = new[p].bins
         /\ \A d \in Crates \ {cur[p]} : BinsOf(manifest', d) = BinsOf(manifest, d)
<1>1. pc[p] = "obsolete" /\ manifest' = [manifest EXCEPT ![cur[p]] = new[p]]
      /\ cur[p] \in Crates /\ new[p] \in Entries /\ manifest \in Manifests
  BY MemberInHand DEF Commit, IInv, TypeOK, SharedTypeOK
<1>2. new[p] # NoEntry
  BY <1>1, SentinelAssumption DEF SentinelAssumption
<1> QED BY <1>1, <1>2 DEF Installed, BinsOf, Manifests

LEMMA RemovesOne ==
  ASSUME IInv, NEW p \in Procs, CommitRemoval(p)
  PROVE  /\ manifest' = [manifest EXCEPT ![cur[p]] = NoEntry]
         /\ BinsOf(manifest', cur[p]) = {}
         /\ \A d \in Crates \ {cur[p]} : BinsOf(manifest', d) = BinsOf(manifest, d)
<1>1. manifest' = [manifest EXCEPT ![cur[p]] = NoEntry] /\ cur[p] \in Crates
      /\ manifest \in Manifests
  BY DEF CommitRemoval, IInv, TypeOK, SharedTypeOK, MemoryInv, Installed
<1> QED BY <1>1 DEF BinsOf, Manifests

\* The two halves of FilesAccounted: under a managed name the owner's file or none;
\* every file of cargo-lbin's is somebody's.
OwnersOnly ==
  \A c \in Crates : \A b \in BinsOf(manifest, c) :
    disk[b] = Absent \/ (disk[b] \in Files /\ disk[b].crate = c)
Accounted(b) ==
  disk[b] \in Files => b \in BinsOf(manifest, disk[b].crate) \/ b \in orphaned \/ Covered(b)

LEMMA Halves == FilesAccounted <=> OwnersOnly /\ \A b \in Bins : Accounted(b)
BY DEF FilesAccounted, OwnersOnly, Accounted, Covered

\* What every step does to the prefix: nothing, or one of these.
LEMMA PrefixMoves ==
  ASSUME IInv, [Next]_vars
  PROVE  \/ /\ UNCHANGED <<manifest, disk, torn, orphaned>>
            /\ \/ UNCHANGED <<lockEx, placed>>
               \/ \E p \in Procs : Proc(p) /\ ~Commit(p) /\ ~Crash(p)
         \/ \E p \in Procs : \/ Place(p) \/ RemoveFile(p) \/ Rollback(p) \/ Commit(p)
                             \/ CommitRemoval(p) \/ SetPinned(p) \/ Crash(p)
         \/ \E b \in Bins : ForeignFile(b) \/ CleanLeftover(b)
<1>1. CASE UNCHANGED vars
  BY <1>1 DEF vars, ghosts, lockVars, member
<1>2. CASE \E c \in Crates : Publish(c)
  BY <1>2 DEF Publish, ghosts, lockVars, member
<1>3. CASE \E p \in Procs : Proc(p)
  BY <1>3, Quiet
<1> QED BY <1>1, <1>2, <1>3 DEF Next, World

LEMMA OwnersStep ==
  ASSUME IInv, OwnersOnly, \A p \in Procs : Placing(p) /\ Removing(p), [Next]_vars
  PROVE  OwnersOnly'
<1>. disk \in [Bins -> Files \cup {Absent, Foreign}] /\ left \in [Procs -> SUBSET Bins]
  BY DEF IInv, TypeOK, SharedTypeOK, MemberTypeOK
<1> SUFFICES ASSUME NEW c \in Crates, NEW b \in BinsOf(manifest', c)
             PROVE  disk'[b] = Absent \/ (disk'[b] \in Files /\ disk'[b].crate = c)
  BY DEF OwnersOnly
<1>1. b \in BinsOf(manifest, c) =>
        b \in Bins /\ (disk[b] = Absent \/ (disk[b] \in Files /\ disk[b].crate = c))
  BY Ownership DEF OwnersOnly
<1>2. CASE UNCHANGED <<manifest, disk>>
  BY <1>1, <1>2
<1>3. ASSUME NEW p \in Procs, Place(p)
      PROVE  disk'[b] = Absent \/ (disk'[b] \in Files /\ disk'[b].crate = c)
  <2>1. PICK d \in left[p] : disk' = [disk EXCEPT ![d] = OwnFile(p)]
    BY <1>3 DEF Place, OwnFile
  <2>2. b \in BinsOf(manifest, c) /\ pc[p] = "place" /\ left[p] \subseteq new[p].bins
    BY <1>3 DEF Place, Placing
  <2>3. b = d => c = cur[p] /\ OwnFile(p) \in Files /\ OwnFile(p).crate = cur[p]
    BY <2>2, MemberInHand
  <2> QED BY <1>1, <2>1, <2>2, <2>3
<1>4. ASSUME NEW p \in Procs, RemoveFile(p) \/ Rollback(p)
      PROVE  disk'[b] = Absent \/ (disk'[b] \in Files /\ disk'[b].crate = c)
  <2>1. \E d \in Bins : disk' = disk \/ disk' = [disk EXCEPT ![d] = Absent]
    BY <1>4 DEF RemoveFile, Rollback
  <2>2. UNCHANGED manifest
    BY <1>4 DEF RemoveFile, Rollback
  <2> QED BY <1>1, <2>1, <2>2
<1>5. ASSUME NEW p \in Procs, Commit(p)
      PROVE  disk'[b] = Absent \/ (disk'[b] \in Files /\ disk'[b].crate = c)
  <2>1. pc[p] = "obsolete" /\ disk' = disk
    BY <1>5 DEF Commit
  <2>2. CASE c = cur[p]
    <3>1. b \in new[p].bins
      BY <1>5, <2>2, CommitsOne
    <3>2. disk[b] = OwnFile(p)
      BY <2>1, <3>1 DEF Placing
    <3> QED BY <2>1, <2>2, <3>2, MemberInHand
  <2>3. CASE c # cur[p]
    <3>1. b \in BinsOf(manifest, c)
      BY <1>5, <2>3, CommitsOne
    <3> QED BY <1>1, <2>1, <3>1
  <2> QED BY <2>2, <2>3
<1>6. ASSUME NEW p \in Procs, CommitRemoval(p)
      PROVE  disk'[b] = Absent \/ (disk'[b] \in Files /\ disk'[b].crate = c)
  <2>1. b \in BinsOf(manifest, c)
    BY <1>6, RemovesOne
  <2> QED BY <1>1, <1>6, <2>1 DEF CommitRemoval
<1>7. ASSUME NEW p \in Procs, SetPinned(p)
      PROVE  disk'[b] = Absent \/ (disk'[b] \in Files /\ disk'[b].crate = c)
  <2>1. b \in BinsOf(manifest, c)
    BY <1>7, PinsOnly
  <2> QED BY <1>1, <1>7, <2>1 DEF SetPinned
<1>8. ASSUME NEW d \in Bins, ForeignFile(d) \/ CleanLeftover(d)
      PROVE  disk'[b] = Absent \/ (disk'[b] \in Files /\ disk'[b].crate = c)
  <2>1. b \in BinsOf(manifest, c)
    BY <1>8 DEF ForeignFile, CleanLeftover
  <2>2. b \in Claimed(manifest)
    BY <2>1 DEF Claimed
  <2> QED BY <1>1, <1>8, <2>1, <2>2 DEF ForeignFile, CleanLeftover
<1>9. ASSUME NEW p \in Procs, Crash(p) PROVE UNCHANGED <<manifest, disk>>
  BY <1>9 DEF Crash
<1> QED BY <1>2, <1>3, <1>4, <1>5, <1>6, <1>7, <1>8, <1>9, PrefixMoves

LEMMA AccountedStep ==
  ASSUME IInv, FilesAccounted, \A p \in Procs : Placing(p) /\ Removing(p), [Next]_vars,
         NEW b \in Bins
  PROVE  Accounted(b)'
<1>. /\ disk \in [Bins -> Files \cup {Absent, Foreign}] /\ left \in [Procs -> SUBSET Bins]
     /\ placed \in [Procs -> SUBSET Bins] /\ Absent \notin Files /\ Foreign \notin Files
     /\ lockEx \in Procs \cup {NoProc}
  BY SentinelAssumption DEF IInv, TypeOK, SharedTypeOK, MemberTypeOK, SentinelAssumption
<1>1. Accounted(b) /\ OwnersOnly
  BY Halves
<1> SUFFICES ASSUME disk'[b] \in Files
             PROVE  b \in BinsOf(manifest', disk'[b].crate) \/ b \in orphaned' \/ Covered(b)'
  BY DEF Accounted
<1> DEFINE Goal == b \in BinsOf(manifest', disk'[b].crate) \/ b \in orphaned' \/ Covered(b)'
<1>2. CASE UNCHANGED <<manifest, disk, orphaned, lockEx, placed>>
  BY <1>1, <1>2 DEF Accounted, Covered
<1>3. ASSUME NEW p \in Procs, Proc(p), ~Commit(p), ~Crash(p), disk'[b] = disk[b],
             BinsOf(manifest', disk[b].crate) = BinsOf(manifest, disk[b].crate),
             b \in orphaned => b \in orphaned'
      PROVE  Goal
  <2>1. Covered(b) => Covered(b)' \/ b \in orphaned
    BY <1>3, CoverKept
  <2> QED BY <1>1, <1>3, <2>1 DEF Accounted
<1>4. ASSUME NEW p \in Procs, Place(p) PROVE Goal
  <2>1. PICK d \in left[p] :
          /\ disk' = [disk EXCEPT ![d] = OwnFile(p)]
          /\ placed' = IF d \in BinsOf(mem[p], cur[p]) THEN placed
                       ELSE [placed EXCEPT ![p] = @ \cup {d}]
    BY <1>4 DEF Place, OwnFile
  <2>2. pc[p] = "place" /\ UNCHANGED <<manifest, orphaned, lockEx>>
    BY <1>4 DEF Place, lockVars
  <2>3. mem[p] = manifest /\ lockEx = p /\ OwnFile(p).crate = cur[p]
    BY <2>2, MemberInHand
  <2>4. CASE b = d
    BY <2>1, <2>2, <2>3, <2>4 DEF Covered
  <2>5. CASE b # d
    BY <1>1, <2>1, <2>2, <2>5 DEF Accounted, Covered
  <2> QED BY <2>4, <2>5
<1>5. ASSUME NEW p \in Procs, RemoveFile(p) \/ Rollback(p) PROVE Goal
  <2>1. /\ \E d \in Bins : disk' = disk \/ disk' = [disk EXCEPT ![d] = Absent]
        /\ UNCHANGED <<manifest, lockEx, placed>> /\ orphaned \subseteq orphaned'
    BY <1>5 DEF RemoveFile, Rollback, lockVars
  <2>2. disk'[b] = disk[b]
    BY <2>1
  <2> QED BY <1>1, <2>1, <2>2 DEF Accounted, Covered
<1>6. ASSUME NEW p \in Procs, Commit(p) PROVE Goal
  <2>1. /\ pc[p] = "obsolete" /\ left[p] = {} /\ UNCHANGED <<disk, orphaned>>
    BY <1>6 DEF Commit
  <2>2. lockEx = p /\ OwnFile(p).crate = cur[p] /\ cur[p] \in Crates
        /\ new[p].bins \subseteq Bins
    BY <2>1, MemberInHand
  <2>3. /\ \A d \in new[p].bins : disk[d] = OwnFile(p)
        /\ \A d \in BinsOf(manifest, cur[p]) \ new[p].bins : disk[d] = Absent
        /\ placed[p] \subseteq new[p].bins
    BY <2>1 DEF Placing, Retired, Gained
  <2>4. CASE b \in new[p].bins
    BY <1>6, <2>1, <2>2, <2>3, <2>4, CommitsOne
  <2>5. CASE b \notin new[p].bins
    <3>1. ~Covered(b)
      BY <2>2, <2>3, <2>5 DEF Covered
    <3>2. disk[b] \in Files /\ disk[b].crate \in Crates
      BY <2>1 DEF Files
    <3>3. b \notin BinsOf(manifest, cur[p])
      BY <2>3, <2>5, <3>2
    <3>4. b \in orphaned \/ (disk[b].crate # cur[p] /\ b \in BinsOf(manifest, disk[b].crate))
      BY <1>1, <3>1, <3>2, <3>3 DEF Accounted
    <3>5. disk[b].crate # cur[p] =>
            BinsOf(manifest', disk[b].crate) = BinsOf(manifest, disk[b].crate)
      BY <1>6, <3>2, CommitsOne
    <3> QED BY <2>1, <3>4, <3>5
  <2> QED BY <2>4, <2>5
<1>7. ASSUME NEW p \in Procs, CommitRemoval(p) PROVE Goal
  <2>1. pc[p] = "rm" /\ left[p] = {} /\ UNCHANGED <<disk, orphaned>>
    BY <1>7 DEF CommitRemoval
  <2>2. \A d \in BinsOf(manifest, cur[p]) : disk[d] = Absent
    BY <2>1 DEF Removing
  <2>3. disk[b] \in Files /\ disk[b].crate \in Crates
    BY <2>1 DEF Files
  <2>4. CASE disk[b].crate = cur[p]
    <3>1. b \notin BinsOf(manifest, disk[b].crate)
      BY <2>2, <2>3, <2>4
    <3>2. placed[p] = {}
      BY <2>1 DEF Removing
    <3>3. Covered(b) => FALSE
      <4>1. lockEx = p
        BY <2>1 DEF IInv, LockInv, Locked
      <4> QED BY <3>2, <4>1 DEF Covered
    <3> QED BY <1>1, <2>1, <2>3, <3>1, <3>3 DEF Accounted
  <2>5. CASE disk[b].crate # cur[p]
    <3>1. BinsOf(manifest', disk[b].crate) = BinsOf(manifest, disk[b].crate)
      BY <1>7, <2>3, <2>5, RemovesOne
    <3>2. Proc(p) /\ ~Commit(p)
      BY <1>7, <2>1 DEF Proc, Work, Commit
    <3>3. ~Crash(p)
      <4>1. pc'[p] = "pick"
        BY <1>7, <2>1 DEF CommitRemoval, NextMember, Goto, IInv, TypeOK, CommandTypeOK
      <4>2. Crash(p) => pc'[p] = "idle"
        BY DEF Crash, Exit, Goto, IInv, TypeOK, CommandTypeOK
      <4> QED BY <4>1, <4>2
    <3> QED BY <1>3, <2>1, <3>1, <3>2, <3>3
  <2> QED BY <2>4, <2>5
<1>8. ASSUME NEW p \in Procs, SetPinned(p) PROVE Goal
  <2>1. pc[p] = "pin" /\ UNCHANGED <<disk, orphaned>>
    BY <1>8 DEF SetPinned, ghosts
  <2>2. disk[b] \in Files /\ disk[b].crate \in Crates
    BY <2>1 DEF Files
  <2>3. placed[p] = {} /\ lockEx = p
    BY <2>1 DEF Removing, IInv, LockInv, Locked
  <2>4. ~Covered(b)
    BY <2>3 DEF Covered
  <2>5. BinsOf(manifest', disk[b].crate) = BinsOf(manifest, disk[b].crate)
    BY <1>8, <2>2, PinsOnly
  <2> QED BY <1>1, <2>1, <2>2, <2>4, <2>5 DEF Accounted
<1>9. ASSUME NEW p \in Procs, Crash(p) PROVE Goal
  <2>1. /\ pc[p] # "idle" /\ UNCHANGED <<manifest, disk>>
        /\ lockEx' = IF lockEx = p THEN NoProc ELSE lockEx
        /\ \A q \in Procs \ {p} : placed'[q] = placed[q]
        /\ orphaned' = orphaned \cup
             (CASE pc[p] \in {"place", "obsolete"} -> placed[p]
                [] pc[p] = "rollback" -> left[p]
                [] OTHER -> {})
    BY <1>9 DEF Crash, Exit, Unlock
  <2>2. ASSUME NEW q \in Procs, lockEx = q, b \in placed[q] PROVE Goal
    <3>1. CASE q # p
      BY <2>1, <2>2, <3>1 DEF Covered
    <3>2. CASE q = p /\ pc[p] \in {"place", "obsolete"}
      BY <2>1, <2>2, <3>2
    <3>3. CASE q = p /\ pc[p] = "rollback"
      <4>1. b \in left[p] \/ disk[b] \notin Files \/ b \in orphaned
        BY <2>2, <3>3 DEF Removing
      <4>2. orphaned' = orphaned \cup left[p]
        BY <2>1, <3>3
      <4> QED BY <2>1, <4>1, <4>2
    <3>4. CASE q = p /\ pc[p] \notin {"place", "obsolete", "rollback"}
      BY <2>2, <3>4 DEF Removing
    <3> QED BY <3>1, <3>2, <3>3, <3>4
  <2>3. Covered(b) => Goal
    BY <2>2 DEF Covered
  <2> QED BY <1>1, <2>1, <2>3 DEF Accounted
<1>10. ASSUME NEW d \in Bins, ForeignFile(d) PROVE Goal
  <2>1. UNCHANGED <<manifest, orphaned, lockEx, placed>> /\ disk'[b] = disk[b]
    BY <1>10 DEF ForeignFile, ghosts, lockVars, member
  <2> QED BY <1>1, <2>1 DEF Accounted, Covered
<1>11. ASSUME NEW d \in Bins, CleanLeftover(d) PROVE Goal
  <2>1. /\ UNCHANGED <<manifest, lockEx, placed>> /\ disk'[b] = disk[b]
        /\ orphaned' = orphaned \ {d}
        /\ disk' = IF disk[d] # Foreign /\ d \notin Claimed(manifest)
                   THEN [disk EXCEPT ![d] = Absent] ELSE disk
    BY <1>11 DEF CleanLeftover, lockVars, member
  <2>2. CASE b # d
    BY <1>1, <2>1, <2>2 DEF Accounted, Covered
  <2>3. CASE b = d
    <3>1. disk[b] \in Files /\ b \in Claimed(manifest)
      BY <2>1, <2>3
    <3>2. PICK c \in Crates : b \in BinsOf(manifest, c)
      BY <3>1, Ownership
    <3>3. disk[b].crate = c
      BY <1>1, <3>1, <3>2 DEF OwnersOnly
    <3> QED BY <2>1, <3>2, <3>3
  <2> QED BY <2>2, <2>3
<1>12. ASSUME NEW p \in Procs, Proc(p), ~Commit(p), ~Crash(p),
              UNCHANGED <<manifest, disk, orphaned>>
       PROVE  Goal
  BY <1>3, <1>12
<1> QED BY <1>2, <1>4, <1>5, <1>6, <1>7, <1>8, <1>9, <1>10, <1>11, <1>12, PrefixMoves

LEMMA WholeStep ==
  ASSUME IInv, WholeUnlessTorn, \A p \in Procs : Placing(p) /\ Removing(p), [Next]_vars
  PROVE  WholeUnlessTorn'
<1>. /\ disk \in [Bins -> Files \cup {Absent, Foreign}] /\ left \in [Procs -> SUBSET Bins]
     /\ manifest \in Manifests
  BY DEF IInv, TypeOK, SharedTypeOK, MemberTypeOK
<1> DEFINE File(m, c) == [crate |-> c, version |-> m[c].version]
<1>. SUFFICES ASSUME NEW c \in Installed(manifest') \ torn', NEW b \in manifest'[c].bins
              PROVE  disk'[b] = File(manifest', c)
  BY DEF WholeUnlessTorn
<1>. c \in Crates
  BY DEF Installed
<1>1. ASSUME c \in Installed(manifest), c \notin torn, manifest'[c].bins = manifest[c].bins
      PROVE  disk[b] = File(manifest, c) /\ b \in BinsOf(manifest, c) /\ b \in Bins
  <2>1. b \in BinsOf(manifest, c)
    BY <1>1 DEF BinsOf, Installed
  <2> QED BY <1>1, <2>1, Ownership DEF WholeUnlessTorn
<1> HIDE DEF File
<1>2. CASE UNCHANGED <<manifest, disk, torn>>
  <2>1. disk[b] = File(manifest, c)
    BY <1>1, <1>2
  <2> QED BY <1>2, <2>1
<1>3. ASSUME NEW p \in Procs, Place(p) PROVE disk'[b] = File(manifest', c)
  <2>1. PICK d \in left[p] :
          /\ disk' = [disk EXCEPT ![d] = OwnFile(p)]
          /\ IF d \in BinsOf(mem[p], cur[p]) THEN torn' = torn \cup {cur[p]} ELSE UNCHANGED torn
    BY <1>3 DEF Place, OwnFile
  <2>2. pc[p] = "place" /\ manifest' = manifest /\ left[p] \subseteq new[p].bins
    BY <1>3 DEF Place, Placing
  <2>3. disk[b] = File(manifest, c) /\ b \in BinsOf(manifest, c) /\ b \in Bins
    BY <1>1, <2>1, <2>2
  <2>4. b # d
    <3>1. b = d => c = cur[p] /\ d \in BinsOf(mem[p], cur[p])
      BY <2>2, <2>3, MemberInHand
    <3> QED BY <2>1, <3>1
  <2> QED BY <2>1, <2>2, <2>3, <2>4
<1>4. ASSUME NEW p \in Procs, RemoveFile(p) PROVE disk'[b] = File(manifest', c)
  <2>1. PICK d \in left[p] : disk' = [disk EXCEPT ![d] = Absent]
    BY <1>4 DEF RemoveFile
  <2>2. /\ pc[p] \in {"obsolete", "rm"} /\ manifest' = manifest /\ torn' = torn \cup {cur[p]}
        /\ cur[p] \in Crates
    BY <1>4 DEF RemoveFile, IInv, MemberInv, InHand
  <2>3. d \in BinsOf(manifest, cur[p])
    BY <2>2 DEF Placing, Removing, Retired
  <2>4. disk[b] = File(manifest, c) /\ b \in BinsOf(manifest, c) /\ b \in Bins
    BY <1>1, <2>2
  <2>5. c # cur[p]
    BY <2>2
  <2>6. b # d
    BY <2>2, <2>3, <2>4, <2>5, Ownership
  <2> QED BY <2>1, <2>2, <2>4, <2>6
<1>5. ASSUME NEW p \in Procs, Rollback(p) PROVE disk'[b] = File(manifest', c)
  <2>1. PICK d \in left[p] : disk' = disk \/ disk' = [disk EXCEPT ![d] = Absent]
    BY <1>5 DEF Rollback
  <2>2. pc[p] = "rollback" /\ UNCHANGED <<manifest, torn>>
    BY <1>5 DEF Rollback
  <2>3. d \notin Claimed(manifest)
    BY <2>2 DEF Removing
  <2>4. disk[b] = File(manifest, c) /\ b \in BinsOf(manifest, c) /\ b \in Bins
    BY <1>1, <2>2
  <2>5. b # d
    BY <2>3, <2>4 DEF Claimed
  <2> QED BY <2>1, <2>2, <2>4, <2>5
<1>6. ASSUME NEW p \in Procs, Commit(p) PROVE disk'[b] = File(manifest', c)
  <2>1. /\ pc[p] = "obsolete" /\ disk' = disk /\ torn' = torn \ {cur[p]}
        /\ manifest' = [manifest EXCEPT ![cur[p]] = new[p]]
    BY <1>6, CommitsOne DEF Commit
  <2>2. CASE c = cur[p]
    <3>1. manifest'[c] = new[p]
      BY <2>1, <2>2 DEF Manifests
    <3>2. disk[b] = OwnFile(p)
      BY <2>1, <3>1 DEF Placing
    <3> QED BY <2>1, <2>2, <3>1, <3>2 DEF OwnFile, File
  <2>3. CASE c # cur[p]
    <3>1. manifest'[c] = manifest[c]
      BY <2>1, <2>3
    <3>2. c \in Installed(manifest) /\ c \notin torn
      BY <2>1, <2>3, <3>1 DEF Installed
    <3> QED BY <1>1, <2>1, <3>1, <3>2 DEF File
  <2> QED BY <2>2, <2>3
<1>7. ASSUME NEW p \in Procs, CommitRemoval(p) PROVE disk'[b] = File(manifest', c)
  <2>1. /\ disk' = disk /\ torn' = torn \ {cur[p]}
        /\ manifest' = [manifest EXCEPT ![cur[p]] = NoEntry]
    BY <1>7, RemovesOne DEF CommitRemoval
  <2>2. c # cur[p]
    BY <2>1 DEF Installed, Manifests
  <2>3. manifest'[c] = manifest[c]
    BY <2>1, <2>2
  <2>4. c \in Installed(manifest) /\ c \notin torn
    BY <2>1, <2>2, <2>3 DEF Installed
  <2> QED BY <1>1, <2>1, <2>3, <2>4 DEF File
<1>8. ASSUME NEW p \in Procs, SetPinned(p) PROVE disk'[b] = File(manifest', c)
  <2>1. UNCHANGED <<disk, torn>>
    BY <1>8 DEF SetPinned, ghosts
  <2>2. c \in Installed(manifest) /\ manifest'[c].bins = manifest[c].bins
        /\ manifest'[c].version = manifest[c].version
    BY <1>8, PinsOnly
  <2> QED BY <1>1, <2>1, <2>2 DEF File
<1>9. ASSUME NEW d \in Bins, ForeignFile(d) \/ CleanLeftover(d)
      PROVE  disk'[b] = File(manifest', c)
  <2>1. UNCHANGED <<manifest, torn>>
    BY <1>9 DEF ForeignFile, CleanLeftover, ghosts
  <2>2. disk[b] = File(manifest, c) /\ b \in BinsOf(manifest, c) /\ b \in Bins
    BY <1>1, <2>1
  <2>3. b \in Claimed(manifest)
    BY <2>2 DEF Claimed
  <2>4. disk'[b] = disk[b]
    BY <1>9, <2>2, <2>3 DEF ForeignFile, CleanLeftover
  <2> QED BY <2>1, <2>2, <2>4
<1>10. ASSUME NEW p \in Procs, Crash(p) PROVE UNCHANGED <<manifest, disk, torn>>
  BY <1>10 DEF Crash
<1> QED BY <1>2, <1>3, <1>4, <1>5, <1>6, <1>7, <1>8, <1>9, <1>10, PrefixMoves

LEMMA InitFiles == Init => FilesInv
BY SentinelAssumption DEF Init, FilesInv, FilesAccounted, WholeUnlessTorn, Installed, BinsOf,
   NoManifest, Placing, Removing, SentinelAssumption

LEMMA StepFiles ==
  ASSUME IInv, FilesInv, [Next]_vars
  PROVE  FilesInv'
<1>1. /\ FilesAccounted /\ WholeUnlessTorn /\ OwnersOnly
      /\ \A p \in Procs : Placing(p) /\ Removing(p)
  BY Halves DEF FilesInv
<1>2. \A p \in Procs : Placing(p)' /\ Removing(p)'
  BY <1>1, OthersKeepPlacing, OthersKeepRemoving, OwnPlacing, OwnRemoving
<1>3. OwnersOnly' /\ \A b \in Bins : Accounted(b)'
  BY <1>1, OwnersStep, AccountedStep
<1>4. FilesAccounted'
  BY <1>3 DEF FilesAccounted, OwnersOnly, Accounted, Covered
<1>5. WholeUnlessTorn'
  BY <1>1, WholeStep
<1> QED BY <1>2, <1>4, <1>5 DEF FilesInv

\* Where the files are is known at every step of every operation, for any crates,
\* binaries and processes.
LEMMA FilesInvariant == Spec => [](IInv /\ FilesInv)
<1>1. IInv /\ FilesInv /\ [Next]_vars => FilesInv'
  BY StepFiles
<1> QED BY <1>1, InitFiles, InductiveInvariant, PTL DEF Spec

\* The files and the manifest agree, whatever fails and whoever is killed.
THEOREM FilesMatch == Spec => []FilesAccounted
<1>1. FilesInv => FilesAccounted
  BY DEF FilesInv
<1> QED BY <1>1, FilesInvariant, PTL

\* A crate no operation of its own was cut short on is whole: a batch member that
\* fails, is rolled back or is killed hurts no other crate.
THEOREM CratesWhole == Spec => []WholeUnlessTorn
<1>1. FilesInv => WholeUnlessTorn
  BY DEF FilesInv
<1> QED BY <1>1, FilesInvariant, PTL

-----------------------------------------------------------------------------
(* Other programs' files.                                                  *)

\* While a member is being placed, what other programs bring is noted, and nothing
\* of that is forgotten.
LEMMA LateFrame ==
  ASSUME IInv, [Next]_vars, NEW p \in Procs, pc[p] \in {"door", "place"}, ~Proc(p)
  PROVE  /\ late \subseteq late'
         /\ \A b \in Bins : disk'[b] = Foreign => disk[b] = Foreign \/ b \in late'
<1>1. pc[p] \in Locked /\ lockEx = p /\ p # NoProc
  BY Alone DEF Locked
<1>2. CASE UNCHANGED vars
  BY <1>2 DEF vars, ghosts
<1>3. CASE World
  <2>1. CASE \E c \in Crates : Publish(c)
    BY <2>1 DEF Publish, ghosts
  <2>2. ASSUME NEW b \in Bins, ForeignFile(b)
        PROVE  late' = late \cup {b} /\ disk' = [disk EXCEPT ![b] = Foreign]
    BY <2>2 DEF ForeignFile
  <2>3. disk \in [Bins -> Files \cup {Absent, Foreign}]
    BY DEF IInv, TypeOK, SharedTypeOK
  <2> QED BY <1>1, <1>3, <2>1, <2>2, <2>3 DEF World, CleanLeftover
<1>4. ASSUME NEW q \in Procs \ {p}, Proc(q)
      PROVE  UNCHANGED <<disk, late>>
  <2>1. pc[q] \notin Locked /\ lockEx # q
    BY <1>1, Alone
  <2>2. CASE Crash(q)
    BY <2>1, <2>2 DEF Crash
  <2>3. CASE StartDirect(q) \/ StartReading(q) \/ Plan(q) \/ Decline(q) \/ Confirm(q)
               \/ Read(q) \/ Audit(q) \/ Audited(q)
    BY <2>3 DEF StartDirect, StartReading, Plan, Decline, Confirm, Read, Audit, Audited,
                ghosts
  <2>4. ~Gate(q) /\ ~Pick(q) /\ ~Finish(q) /\ ~Build(q) /\ ~Miss(q) /\ ~Door(q)
        /\ ~Place(q) /\ ~Placed(q)
    BY <2>1 DEF Locked, Gate, Pick, Finish, Build, Miss, Door, Place, Placed
  <2>5. ~RemoveFile(q) /\ ~Commit(q) /\ ~Fail(q) /\ ~Rollback(q) /\ ~RolledBack(q)
        /\ ~PickRemoval(q) /\ ~CommitRemoval(q) /\ ~FailRemoval(q) /\ ~SetPinned(q)
    BY <2>1 DEF Locked, RemoveFile, Commit, Fail, Rollback, RolledBack, PickRemoval,
                CommitRemoval, FailRemoval, SetPinned
  <2> QED BY <1>4, <2>2, <2>3, <2>4, <2>5 DEF Proc, Work
<1> QED BY <1>2, <1>3, <1>4 DEF Next

\* A name FreeInv speaks of.
Awaited(p, b) ==
  \/ pc[p] = "door" /\ b \in Gained(p)
  \/ pc[p] = "place" /\ b \in Gained(p) \cap left[p]

LEMMA FreeStep ==
  ASSUME IInv, FreeInv, [Next]_vars
  PROVE  FreeInv'
<1>. /\ pc \in [Procs -> Steps] /\ left \in [Procs -> SUBSET Bins]
     /\ disk \in [Bins -> Files \cup {Absent, Foreign}] /\ new \in [Procs -> Pending]
  BY DEF IInv, TypeOK, SharedTypeOK, CommandTypeOK, MemberTypeOK
<1> SUFFICES ASSUME NEW p \in Procs, NEW b \in Bins, Awaited(p, b)'
             PROVE  disk'[b] = Absent \/ (disk'[b] = Foreign /\ b \in late')
  BY DEF FreeInv, Awaited
<1>1. Awaited(p, b) => disk[b] = Absent \/ (disk[b] = Foreign /\ b \in late)
  BY DEF FreeInv, Awaited
<1>2. pc'[p] \in {"door", "place"}
  BY DEF Awaited
<1>3. CASE ~Proc(p)
  <2>1. Unmoved(p)
    BY <1>3, OneMoves
  <2>2. pc[p] \in {"door", "place"} /\ left'[p] = left[p]
    BY <1>2, <2>1 DEF Unmoved
  <2>3. /\ UNCHANGED manifest
        /\ disk'[b] = disk[b] \/ (disk[b] = Absent /\ disk'[b] = Foreign)
    BY <1>3, <2>2, Frame DEF Locked
  <2>4. Gained(p)' = Gained(p)
    BY <2>1, <2>2, <2>3, MemberInHand DEF Unmoved, Gained, BinsOf
  <2>5. Awaited(p, b)
    BY <2>1, <2>2, <2>4 DEF Unmoved, Awaited
  <2>6. late \subseteq late' /\ (disk'[b] = Foreign => disk[b] = Foreign \/ b \in late')
    BY <1>3, <2>2, LateFrame
  <2> QED BY <1>1, <2>3, <2>5, <2>6
<1>4. CASE Build(p)
  <2>1. /\ NoCollision(mem[p], cur[p], new'[p].bins) /\ pc'[p] = "door"
        /\ UNCHANGED <<manifest, disk, cur>>
    BY <1>4 DEF Build, Goto, IInv, TypeOK, MemberTypeOK
  <2>2. mem[p] = manifest
    BY <1>4 DEF Build, IInv, MemoryInv, Fresh
  <2>3. Gained(p)' = new'[p].bins \ BinsOf(manifest, cur[p])
    BY <2>1 DEF Gained, BinsOf
  <2> QED BY <2>1, <2>2, <2>3 DEF NoCollision, Awaited
<1>5. CASE Door(p)
  <2>1. pc[p] = "door" /\ pc'[p] = "place" /\ UNCHANGED <<manifest, disk, late, cur, new>>
    BY <1>5 DEF Door, Goto, ghosts
  <2>2. Gained(p)' = Gained(p)
    BY <2>1 DEF Gained, BinsOf
  <2> QED BY <1>1, <2>1, <2>2 DEF Awaited
<1>6. CASE Place(p)
  <2>1. PICK d \in left[p] : /\ left' = [left EXCEPT ![p] = @ \ {d}]
                             /\ \E f \in Files : disk' = [disk EXCEPT ![d] = f]
    <3>1. OwnFile(p) \in Files
      BY <1>6, MemberInHand DEF Place
    <3> QED BY <1>6, <3>1 DEF Place, OwnFile
  <2>2. pc[p] = "place" /\ pc'[p] = "place" /\ UNCHANGED <<manifest, late, cur, new>>
    BY <1>6 DEF Place
  <2>3. Gained(p)' = Gained(p)
    BY <2>2 DEF Gained, BinsOf
  <2>4. Awaited(p, b) /\ b # d
    BY <2>1, <2>2, <2>3 DEF Awaited
  <2> QED BY <1>1, <2>1, <2>2, <2>4
<1>7. Proc(p) => Build(p) \/ Door(p) \/ Place(p)
  <2>1. CASE StartDirect(p) \/ StartReading(p) \/ Plan(p) \/ Confirm(p) \/ Read(p)
               \/ Decline(p) \/ Crash(p) \/ Gate(p) \/ Audit(p) \/ Audited(p)
    BY <1>2, <2>1 DEF StartDirect, StartReading, Plan, Confirm, Read, TakeLock, Decline,
                      Crash, Gate, Audit, Audited, Exit, Goto
  <2>2. CASE Pick(p) \/ Finish(p) \/ Miss(p) \/ Placed(p) \/ Commit(p) \/ Fail(p)
               \/ Rollback(p) \/ RolledBack(p)
    BY <1>2, <2>2 DEF Pick, Finish, Miss, Placed, Commit, Fail, Rollback, RolledBack,
                      NextMember, Exit, Goto
  <2>3. CASE PickRemoval(p) \/ CommitRemoval(p) \/ FailRemoval(p) \/ SetPinned(p)
               \/ RemoveFile(p)
    BY <1>2, <2>3 DEF PickRemoval, CommitRemoval, FailRemoval, SetPinned, RemoveFile,
                      NextMember, Exit, Goto
  <2> QED BY <2>1, <2>2, <2>3 DEF Proc, Work
<1> QED BY <1>3, <1>4, <1>5, <1>6, <1>7

\* A name that a placement may take although another program's file is there.
Overtaken(b) ==
  /\ b \in late
  /\ \E p \in Procs : pc[p] = "place" /\ b \in left[p] \ BinsOf(manifest, cur[p])

\* Every other step spares a file that is not cargo-lbin's.
LEMMA SparingStep ==
  ASSUME IInv, FilesInv, FreeInv, [Next]_vars, NEW b \in Bins,
         disk[b] = Foreign, disk'[b] # Foreign
  PROVE  Overtaken(b)
<1>. /\ disk \in [Bins -> Files \cup {Absent, Foreign}]
     /\ Absent \notin Files /\ Foreign \notin Files /\ Absent # Foreign
  BY SentinelAssumption DEF IInv, TypeOK, SharedTypeOK, SentinelAssumption
<1>1. \A p \in Procs : Placing(p) /\ Removing(p)
  BY DEF FilesInv
<1>2. \A c \in Crates : b \notin BinsOf(manifest, c)
  BY DEF FilesInv, FilesAccounted
<1>3. ASSUME NEW p \in Procs, Place(p) PROVE Overtaken(b)
  <2>1. PICK d \in left[p] : disk' = [disk EXCEPT ![d] = OwnFile(p)]
    BY <1>3 DEF Place, OwnFile
  <2>2. pc[p] = "place" /\ left[p] \subseteq new[p].bins
    BY <1>1, <1>3 DEF Place, Placing
  <2>3. b = d
    BY <2>1
  <2>4. b \in new[p].bins /\ b \notin BinsOf(manifest, cur[p])
    BY <1>2, <2>2, <2>3, MemberInHand
  <2>5. b \in Gained(p) \cap left[p]
    BY <2>3, <2>4 DEF Gained
  <2>6. b \in late
    BY <2>2, <2>5 DEF FreeInv
  <2> QED BY <2>2, <2>3, <2>4, <2>6 DEF Overtaken
<1>4. ASSUME NEW p \in Procs, RemoveFile(p) PROVE FALSE
  <2>1. PICK d \in left[p] : disk' = [disk EXCEPT ![d] = Absent]
    BY <1>4 DEF RemoveFile
  <2>2. d \in BinsOf(manifest, cur[p]) /\ cur[p] \in Crates
    BY <1>1, <1>4 DEF RemoveFile, Placing, Removing, Retired, IInv, MemberInv, InHand
  <2> QED BY <1>2, <2>1, <2>2
<1>5. ASSUME NEW p \in Procs, Rollback(p) PROVE FALSE
  <2>1. PICK d \in left[p] : disk' = disk \/ disk' = [disk EXCEPT ![d] = Absent]
    BY <1>5 DEF Rollback
  <2>2. disk[d] \in Files
    BY <1>1, <1>5 DEF Rollback, Removing
  <2> QED BY <2>1, <2>2
<1>6. ASSUME NEW d \in Bins, ForeignFile(d) \/ CleanLeftover(d) PROVE FALSE
  BY <1>6 DEF ForeignFile, CleanLeftover
<1>7. ASSUME NEW p \in Procs, Commit(p) \/ CommitRemoval(p) \/ SetPinned(p) \/ Crash(p)
      PROVE  FALSE
  BY <1>7 DEF Commit, CommitRemoval, SetPinned, Crash
<1> QED BY <1>3, <1>4, <1>5, <1>6, <1>7, PrefixMoves

\* A file of another program is lost to no operation, failed operation, rollback or
\* cleanup, but to the placement of a new binary under a name that was free when the
\* collision check looked and was taken after that.
THEOREM ForeignSafe == Spec => ForeignSpared
<1>1. Init => FreeInv
  BY DEF Init, FreeInv
<1>2. IInv /\ FreeInv /\ [Next]_vars => FreeInv'
  BY FreeStep
<1>3. IInv /\ FilesInv /\ FreeInv /\ [Next]_vars =>
        [\A b \in Bins : disk[b] = Foreign /\ disk'[b] # Foreign =>
           /\ b \in late
           /\ \E p \in Procs :
                pc[p] = "place" /\ b \in left[p] \ BinsOf(manifest, cur[p])]_vars
  BY SparingStep DEF Overtaken
<1> QED BY <1>1, <1>2, <1>3, FilesInvariant, InductiveInvariant, PTL DEF Spec, ForeignSpared

-----------------------------------------------------------------------------
(* Readers.                                                                *)

\* Only a reader's Read makes it one, and nothing but its end stops it being one.
LEMMA NewReader ==
  ASSUME [Next]_vars, NEW p, p \in readers' \ readers
  PROVE  p \in Procs /\ Read(p)
<1>1. ASSUME NEW q \in Procs, Proc(q) PROVE Read(q) \/ readers' \subseteq readers
  BY <1>1 DEF Proc, Work, StartDirect, StartReading, Plan, Decline, Confirm, Crash, TakeLock,
     Unlock, Gate, Pick, Finish, Build, Miss, Door, Place, Placed, RemoveFile, Commit, Fail,
     Rollback, RolledBack, PickRemoval, CommitRemoval, FailRemoval, SetPinned, Audit, Audited,
     lockVars
<1>2. World \/ UNCHANGED vars => readers' = readers
  BY DEF World, Publish, ForeignFile, CleanLeftover, lockVars, vars
<1>3. PICK q \in Procs : Read(q)
  BY <1>1, <1>2 DEF Next
<1>4. q = p
  BY <1>3 DEF Read
<1> QED BY <1>3, <1>4

LEMMA OldReader ==
  ASSUME NEW p \in readers \cap readers', Proc(p), pc[p] = "audit"
  PROVE  Audit(p)
<1>1. Audit(p) \/ Audited(p) \/ Crash(p)
  BY DEF Proc, Work, StartDirect, StartReading, Plan, Decline, Confirm, Read, Gate, Pick,
     Finish, Build, Miss, Door, Place, Placed, RemoveFile, Commit, Fail, Rollback,
     RolledBack, PickRemoval, CommitRemoval, FailRemoval, SetPinned
<1> QED BY <1>1 DEF Audited, Crash, Unlock

LEMMA ReaderStep ==
  ASSUME IInv, ReaderInv, [Next]_vars
  PROVE  ReaderInv'
<1>. /\ pc \in [Procs -> Steps] /\ readers \subseteq Procs
     /\ bad \in [Procs -> SUBSET Crates] /\ todo \in [Procs -> SUBSET Crates]
     /\ mem \in [Procs -> Manifests] /\ NoProc \notin Procs
     /\ lockEx \in Procs \cup {NoProc}
  BY PrefixAssumption
  DEF IInv, TypeOK, SharedTypeOK, CommandTypeOK, MemberTypeOK, PrefixAssumption
<1> DEFINE Unread(p) == IF pc[p] = "audit" THEN bad[p] \cap todo[p] = {} ELSE bad[p] = {}
<1>1. UNCHANGED vars => ReaderInv'
  BY DEF ReaderInv, vars, lockVars
<1>2. ASSUME NEW p \in Procs, ~Proc(p), Unread(p) PROVE Unread(p)'
  BY <1>2, OneMoves DEF Unmoved
<1>3. ASSUME NEW p \in Procs, Proc(p), Unread(p) PROVE Unread(p)'
  <2>1. CASE StartDirect(p) \/ StartReading(p) \/ Plan(p) \/ Confirm(p) \/ Read(p)
    BY <1>3, <2>1 DEF StartDirect, StartReading, Plan, Confirm, Read, TakeLock, Goto
  <2>2. CASE Decline(p) \/ Crash(p) \/ Finish(p) \/ FailRemoval(p) \/ Audited(p)
               \/ SetPinned(p)
    BY <2>2 DEF Decline, Crash, Finish, FailRemoval, Audited, SetPinned, Exit, Goto
  <2>3. CASE Gate(p)
    BY <1>3, <2>3 DEF Gate, Exit, Goto
  <2>4. CASE Audit(p)
    <3>1. PICK c \in todo[p] :
            /\ todo' = [todo EXCEPT ![p] = @ \ {c}]
            /\ bad' = [bad EXCEPT ![p] = IF Missing(mem[p], c) THEN @ \cup {c} ELSE @]
      BY <2>4 DEF Audit
    <3>2. todo'[p] = todo[p] \ {c} /\ bad'[p] \subseteq bad[p] \cup {c} /\ pc'[p] = "audit"
          /\ pc[p] = "audit"
      BY <2>4, <3>1 DEF Audit
    <3> QED BY <1>3, <3>2
  <2>5. CASE Pick(p) \/ PickRemoval(p) \/ Build(p) \/ Miss(p) \/ Door(p) \/ Place(p)
               \/ Placed(p) \/ RemoveFile(p)
    BY <1>3, <2>5 DEF Pick, PickRemoval, Build, Miss, Door, Place, Placed, RemoveFile,
                      NextMember, Goto
  <2>6. CASE Fail(p) \/ Rollback(p) \/ RolledBack(p) \/ Commit(p) \/ CommitRemoval(p)
    BY <1>3, <2>6 DEF Fail, Rollback, RolledBack, Commit, CommitRemoval, NextMember, Goto
  <2> QED BY <1>3, <2>1, <2>2, <2>3, <2>4, <2>5, <2>6 DEF Proc, Work
<1>4. \A p \in Procs : Unread(p)'
  BY <1>2, <1>3 DEF ReaderInv
<1>5. (readers # {} => lockEx = NoProc)'
  <2>1. CASE UNCHANGED <<lockEx, readers>>
    BY <2>1 DEF ReaderInv
  <2>2. ASSUME NEW p \in Procs, Unlock(p) PROVE (readers # {} => lockEx = NoProc)'
    BY <2>2 DEF Unlock, ReaderInv
  <2>3. ASSUME NEW p \in Procs, TakeLock(p) PROVE (readers # {} => lockEx = NoProc)'
    BY <2>3 DEF TakeLock
  <2>4. ASSUME NEW p \in Procs, Read(p) PROVE (readers # {} => lockEx = NoProc)'
    BY <2>4 DEF Read, ReaderInv
  <2>5. ASSUME NEW p \in Procs, Proc(p)
        PROVE  UNCHANGED <<lockEx, readers>> \/ Unlock(p) \/ TakeLock(p) \/ Read(p)
    BY <2>5 DEF Proc, Work, StartDirect, StartReading, Plan, Decline, Confirm, Crash, Gate,
         Pick, Finish, Build, Miss, Door, Place, Placed, RemoveFile, Commit, Fail, Rollback,
         RolledBack, PickRemoval, CommitRemoval, FailRemoval, SetPinned, Audit, Audited,
         lockVars
  <2>6. World \/ UNCHANGED vars => UNCHANGED <<lockEx, readers>>
    BY DEF World, Publish, ForeignFile, CleanLeftover, lockVars, vars
  <2> QED BY <2>1, <2>2, <2>3, <2>4, <2>5, <2>6 DEF Next
<1>6. ASSUME NEW p \in readers' PROVE pc'[p] = "audit" /\ mem'[p] = manifest'
  <2>1. CASE p \in readers /\ ~Proc(p)
    <3>1. Unmoved(p)
      BY <2>1, OneMoves
    <3>2. lockEx = NoProc /\ pc[p] = "audit" /\ mem[p] = manifest
      BY <2>1 DEF ReaderInv
    <3>3. UNCHANGED manifest
      <4>1. ASSUME NEW q \in Procs, Commit(q) \/ CommitRemoval(q) \/ SetPinned(q) PROVE FALSE
        <5>1. lockEx = q
          BY <4>1 DEF Commit, CommitRemoval, SetPinned, IInv, LockInv, Locked
        <5> QED BY <3>2, <5>1
      <4> QED BY <4>1, ManifestWriters
    <3> QED BY <3>1, <3>2, <3>3 DEF Unmoved
  <2>2. CASE p \in readers /\ Proc(p)
    <3>1. pc[p] = "audit" /\ mem[p] = manifest
      BY <2>2 DEF ReaderInv
    <3>2. Audit(p)
      BY <1>6, <2>2, <3>1, OldReader
    <3> QED BY <3>1, <3>2 DEF Audit
  <2>3. CASE p \notin readers
    <3>1. Read(p) /\ p \in Procs
      BY <1>6, <2>3, NewReader
    <3> QED BY <3>1 DEF Read, Goto
  <2> QED BY <2>1, <2>2, <2>3
<1> QED BY <1>4, <1>5, <1>6 DEF ReaderInv

\* While a reader reads, nobody writes, so what verify says of a crate is so of the
\* disk as it stands, and a crate it faults was cut short.
LEMMA AuditStep ==
  ASSUME IInv, ReaderInv, VerifyTruthful, WholeUnlessTorn', [Next]_vars
  PROVE  VerifyTruthful'
<1>. /\ pc \in [Procs -> Steps] /\ readers \subseteq Procs
     /\ bad \in [Procs -> SUBSET Crates] /\ todo \in [Procs -> SUBSET Crates]
     /\ manifest \in Manifests /\ NoProc \notin Procs
     /\ disk \in [Bins -> Files \cup {Absent, Foreign}]
  BY PrefixAssumption
  DEF IInv, TypeOK, SharedTypeOK, CommandTypeOK, MemberTypeOK, PrefixAssumption
<1>1. SUFFICES ASSUME NEW p \in readers', pc'[p] = "audit",
                      NEW c \in Installed(manifest') \ todo'[p]
               PROVE  c \in bad'[p] <=> Missing(manifest, c)'
  <2> SUFFICES ASSUME NEW c \in Installed(manifest'), Missing(manifest, c)'
               PROVE  c \in torn'
    BY <1>1 DEF VerifyTruthful
  <2>1. PICK b \in manifest'[c].bins : disk'[b] = Absent
    BY DEF Missing, BinsOf, Installed
  <2>2. disk'[b] # [crate |-> c, version |-> manifest'[c].version]
    <3>1. manifest' \in Manifests
      BY StepIInv DEF IInv, TypeOK, SharedTypeOK
    <3>2. [crate |-> c, version |-> manifest'[c].version] \in Files
      BY <3>1 DEF Installed, Manifests, Entries, Files
    <3> QED BY <2>1, <3>2, SentinelAssumption DEF SentinelAssumption
  <2> QED BY <2>1, <2>2 DEF WholeUnlessTorn
<1>2. p \in Procs /\ pc'[p] = "audit"
  BY <1>1, StepIInv DEF IInv, TypeOK, SharedTypeOK
<1>3. CASE p \in readers
  <2>1. lockEx = NoProc /\ pc[p] = "audit" /\ mem[p] = manifest
    BY <1>3 DEF ReaderInv
  <2>2. \A q \in Procs : pc[q] \notin Locked
    BY <2>1 DEF IInv, LockInv
  <2>3. UNCHANGED manifest
    BY <2>2, ManifestWriters DEF Commit, CommitRemoval, SetPinned, Locked
  <2>4. \A b \in Claimed(manifest) : disk'[b] = disk[b]
    <3>1. UNCHANGED vars => disk' = disk
      BY DEF vars
    <3>. Claimed(manifest) \subseteq Bins
      BY Ownership DEF Claimed
    <3>2. World => \A b \in Claimed(manifest) : disk'[b] = disk[b]
      BY DEF World, Publish, ForeignFile, CleanLeftover
    <3>3. ASSUME NEW q \in Procs, Proc(q) PROVE disk' = disk
      <4>1. ~Place(q) /\ ~RemoveFile(q) /\ ~Rollback(q) /\ ~Commit(q)
            /\ ~CommitRemoval(q) /\ ~SetPinned(q)
        BY <2>2 DEF Place, RemoveFile, Rollback, Commit, CommitRemoval, SetPinned, Locked
      <4> QED BY <3>3, <4>1, Quiet DEF Crash
    <3> QED BY <3>1, <3>2, <3>3 DEF Next
  <2>5. Missing(manifest, c)' <=> Missing(manifest, c)
    <3>1. c \in Crates
      BY DEF Installed
    <3>2. BinsOf(manifest, c) \subseteq Claimed(manifest)
      BY <3>1 DEF Claimed
    <3> QED BY <2>3, <2>4, <3>2 DEF Missing
  <2>6. CASE ~Proc(p)
    <3>1. Unmoved(p)
      BY <1>2, <2>6, OneMoves
    <3>2. todo'[p] = todo[p] /\ bad'[p] = bad[p]
      BY <3>1 DEF Unmoved
    <3> QED BY <1>3, <2>1, <2>3, <2>5, <3>2 DEF VerifyTruthful
  <2>7. CASE Proc(p)
    <3>1. Audit(p)
      BY <1>1, <1>3, <2>1, <2>7, OldReader
    <3>2. PICK d \in todo[p] :
            /\ todo'[p] = todo[p] \ {d}
            /\ bad'[p] = IF Missing(manifest, d) THEN bad[p] \cup {d} ELSE bad[p]
      BY <1>2, <2>1, <3>1 DEF Audit
    <3>3. d \notin bad[p]
      BY <1>2, <2>1, <3>2 DEF ReaderInv
    <3>4. CASE c = d
      BY <2>5, <3>2, <3>3, <3>4
    <3>5. CASE c # d
      <4>1. c \in Installed(manifest) \ todo[p]
        BY <2>3, <3>2, <3>5
      <4>2. c \in bad[p] <=> Missing(manifest, c)
        BY <1>3, <2>1, <4>1 DEF VerifyTruthful
      <4> QED BY <2>5, <3>2, <3>5, <4>2
    <3> QED BY <3>4, <3>5
  <2> QED BY <2>6, <2>7
<1>4. CASE p \notin readers
  <2>1. Read(p)
    BY <1>1, <1>4, NewReader
  <2>2. todo'[p] = Installed(manifest) /\ UNCHANGED manifest
    BY <1>2, <2>1 DEF Read
  <2> QED BY <1>1, <2>2
<1> QED BY <1>3, <1>4

\* A verify that holds the shared lock reports what is so, for any number of crates
\* and however many writers wait.
THEOREM VerifyTrue == Spec => []VerifyTruthful
<1>1. Init => ReaderInv /\ VerifyTruthful
  BY DEF Init, ReaderInv, VerifyTruthful
<1>2. IInv /\ ReaderInv /\ [Next]_vars => ReaderInv'
  BY ReaderStep
<1>3. IInv /\ FilesInv /\ ReaderInv /\ VerifyTruthful /\ [Next]_vars => VerifyTruthful'
  <2>1. IInv /\ FilesInv /\ [Next]_vars => WholeUnlessTorn'
    BY StepFiles DEF FilesInv
  <2> QED BY <2>1, AuditStep
<1> QED BY <1>1, <1>2, <1>3, FilesInvariant, InductiveInvariant, PTL DEF Spec

-----------------------------------------------------------------------------
(* The confirmed plans.                                                    *)

\* The registry only moves forward.
LEMMA Releases ==
  ASSUME IInv, [Next]_vars, NEW c \in Crates
  PROVE  newest[c] \in Nat /\ newest'[c] \in Nat /\ newest'[c] >= newest[c]
<1>a. SharedTypeOK /\ SharedTypeOK'
  BY SharedTypeStep DEF IInv, TypeOK
<1>1. /\ newest \in [Crates -> Versions] /\ Versions \subseteq Nat
      /\ newest' \in [Crates -> Versions]
  BY <1>a, PrefixAssumption DEF SharedTypeOK, Versions, PrefixAssumption
<1>2. ASSUME NEW p \in Procs, Proc(p) PROVE UNCHANGED newest
  <2>1. CASE StartDirect(p) \/ StartReading(p) \/ Plan(p) \/ Decline(p) \/ Confirm(p)
               \/ Read(p) \/ Crash(p) \/ Gate(p) \/ Audit(p) \/ Audited(p)
    BY <2>1 DEF StartDirect, StartReading, Plan, Decline, Confirm, Read, Crash, Gate, Audit,
                Audited
  <2>2. CASE Pick(p) \/ Finish(p) \/ Build(p) \/ Miss(p) \/ Door(p) \/ Place(p) \/ Placed(p)
               \/ RemoveFile(p)
    BY <2>2 DEF Pick, Finish, Build, Miss, Door, Place, Placed, RemoveFile
  <2>3. CASE Commit(p) \/ Fail(p) \/ Rollback(p) \/ RolledBack(p) \/ PickRemoval(p)
               \/ CommitRemoval(p) \/ FailRemoval(p) \/ SetPinned(p)
    BY <2>3 DEF Commit, Fail, Rollback, RolledBack, PickRemoval, CommitRemoval, FailRemoval,
                SetPinned
  <2> QED BY <1>2, <2>1, <2>2, <2>3 DEF Proc, Work
<1>3. newest[c] \in Nat
  BY <1>1
<1>4. CASE UNCHANGED newest
  BY <1>3, <1>4
<1>5. ASSUME NEW d \in Crates, Publish(d)
      PROVE  newest'[c] \in Nat /\ newest'[c] >= newest[c]
  <2>1. newest' = [newest EXCEPT ![d] = newest[d] + 1]
    BY <1>5 DEF Publish
  <2>2. newest'[c] = newest[c] \/ newest'[c] = newest[c] + 1
    BY <1>1, <2>1
  <2> QED BY <1>3, <2>2
<1>6. (\E b \in Bins : ForeignFile(b) \/ CleanLeftover(b)) \/ UNCHANGED vars => UNCHANGED newest
  BY DEF ForeignFile, CleanLeftover, vars
<1> QED BY <1>2, <1>3, <1>4, <1>5, <1>6 DEF Next, World

LEMMA ReleaseStep ==
  ASSUME IInv, ReleaseInv, [Next]_vars
  PROVE  ReleaseInv'
<1>. /\ pc \in [Procs -> Steps] /\ new \in [Procs -> Pending] /\ manifest \in Manifests
  BY DEF IInv, TypeOK, SharedTypeOK, CommandTypeOK, MemberTypeOK
<1>1. ASSUME NEW c \in Installed(manifest')
      PROVE  manifest'[c].bins = Provides[c][manifest'[c].version]
  <2>. c \in Crates
    BY DEF Installed
  <2>1. CASE UNCHANGED manifest
    BY <2>1 DEF ReleaseInv
  <2>2. ASSUME NEW p \in Procs, Commit(p)
        PROVE  manifest'[c].bins = Provides[c][manifest'[c].version]
    <3>1. /\ manifest' = [manifest EXCEPT ![cur[p]] = new[p]]
          /\ new[p].bins = Provides[cur[p]][new[p].version]
      BY <2>2, CommitsOne DEF Commit, ReleaseInv
    <3> QED BY <3>1 DEF ReleaseInv, Installed, Manifests
  <2>3. ASSUME NEW p \in Procs, CommitRemoval(p)
        PROVE  manifest'[c].bins = Provides[c][manifest'[c].version]
    <3>1. manifest' = [manifest EXCEPT ![cur[p]] = NoEntry]
      BY <2>3, RemovesOne
    <3> QED BY <3>1 DEF ReleaseInv, Installed, Manifests
  <2>4. ASSUME NEW p \in Procs, SetPinned(p)
        PROVE  manifest'[c].bins = Provides[c][manifest'[c].version]
    BY <2>4, PinsOnly DEF ReleaseInv
  <2> QED BY <2>1, <2>2, <2>3, <2>4, ManifestWriters
<1>2. ASSUME NEW p \in Procs, pc'[p] \in {"door", "place", "obsolete"}
      PROVE  new'[p].bins = Provides[cur'[p]][new'[p].version]
  <2>1. CASE ~Proc(p)
    <3>1. Unmoved(p)
      BY <2>1, OneMoves
    <3> QED BY <1>2, <3>1 DEF Unmoved, ReleaseInv
  <2>2. CASE Build(p)
    BY <2>2 DEF Build
  <2>3. CASE Door(p) \/ Place(p) \/ Placed(p) \/ RemoveFile(p)
    <3>1. pc[p] \in {"door", "place", "obsolete"} /\ UNCHANGED <<cur, new>>
      BY <1>2, <2>3 DEF Door, Place, Placed, RemoveFile
    <3> QED BY <3>1 DEF ReleaseInv
  <2>4. Proc(p) => Build(p) \/ Door(p) \/ Place(p) \/ Placed(p) \/ RemoveFile(p)
    <3>1. CASE StartDirect(p) \/ StartReading(p) \/ Plan(p) \/ Confirm(p) \/ Read(p)
                 \/ Decline(p) \/ Crash(p) \/ Gate(p) \/ Audit(p) \/ Audited(p)
      BY <1>2, <3>1 DEF StartDirect, StartReading, Plan, Confirm, Read, TakeLock, Decline,
         Crash, Gate, Audit, Audited, Exit, Goto
    <3>2. CASE Pick(p) \/ Finish(p) \/ Miss(p) \/ Commit(p) \/ Fail(p) \/ Rollback(p)
                 \/ RolledBack(p)
      BY <1>2, <3>2 DEF Pick, Finish, Miss, Commit, Fail, Rollback, RolledBack, NextMember,
         Exit, Goto
    <3>3. CASE PickRemoval(p) \/ CommitRemoval(p) \/ FailRemoval(p) \/ SetPinned(p)
      BY <1>2, <3>3 DEF PickRemoval, CommitRemoval, FailRemoval, SetPinned, NextMember,
         Exit, Goto
    <3> QED BY <3>1, <3>2, <3>3 DEF Proc, Work
  <2> QED BY <2>1, <2>2, <2>3, <2>4
<1> QED BY <1>1, <1>2 DEF ReleaseInv

\* What others do changes neither a plan nor what it was made for.
LEMMA OthersKeepPlan ==
  ASSUME IInv, [Next]_vars, NEW p \in Procs, ~Proc(p), Shown(p), Settled(p)
  PROVE  Shown(p)' /\ Settled(p)'
<1>1. Unmoved(p)
  BY OneMoves
<1>. /\ todo \in [Procs -> SUBSET Crates] /\ snap \in [Procs -> Manifests]
  BY DEF IInv, TypeOK, CommandTypeOK
<1>2. pc[p] \in Locked => UNCHANGED manifest
  BY Frame
<1>3. Shown(p)'
  <2>1. pc'[p] \in {"confirm", "gate", "pick"} \cup InHand /\ verb'[p] = "update" =>
          \A c \in todo'[p] : newest'[c] > snap'[p][c].version
    <3> SUFFICES ASSUME pc[p] \in {"confirm", "gate", "pick"} \cup InHand,
                        verb[p] = "update", NEW c \in todo[p]
                 PROVE  newest'[c] > snap[p][c].version
      BY <1>1 DEF Unmoved
    <3>1. newest[c] > snap[p][c].version
      BY DEF Shown
    <3>2. snap[p][c].version \in Nat
      <4>1. c \in Installed(snap[p])
        BY DEF IInv, PlanInv, Planned
      <4> QED BY <4>1 DEF Installed, Manifests, Entries, Versions
    <3> QED BY <3>1, <3>2, Releases
  <2>2. pc[p] \in {"pick"} \cup InHand => UNCHANGED manifest
    BY <1>2 DEF InHand, Locked
  <2> QED BY <1>1, <2>1, <2>2 DEF Shown, Unmoved
<1>4. Settled(p)'
  <2> SUFFICES ASSUME verb[p] \in Builders \ {"install"},
                      pc[p] \in {"build", "door", "place", "obsolete"}
               PROVE  Settled(p)'
    BY <1>1 DEF Settled, Unmoved
  <2>1. UNCHANGED manifest /\ cur[p] \in Crates
    BY <1>2 DEF Locked, IInv, MemberInv, InHand
  <2>2. \A v : Direction(p, v)' <=> Direction(p, v)
    BY <1>1, <2>1 DEF Direction, Unmoved
  <2>3. /\ Request(p, cur[p])' = Request(p, cur[p])
        /\ LockedFor(p, cur[p])' = LockedFor(p, cur[p])
    BY <1>1 DEF Request, LockedFor, Unmoved, Builders
  <2>4. pc[p] = "build" /\ verb[p] = "update" =>
          newest'[cur[p]] > manifest[cur[p]].version
    <3>1. pc[p] = "build" /\ verb[p] = "update" =>
            /\ newest[cur[p]] > manifest[cur[p]].version
            /\ cur[p] \in Installed(manifest)
      BY DEF Settled, Direction, IInv, BuildInv
    <3>2. cur[p] \in Installed(manifest) => manifest[cur[p]].version \in Nat
      BY DEF Installed, IInv, TypeOK, SharedTypeOK, Manifests, Entries, Versions
    <3> QED BY <2>1, <3>1, <3>2, Releases
  <2>5. pc[p] = "build" => Settled(p)'
    BY <1>1, <2>1, <2>3, <2>4 DEF Settled, Unmoved, Direction
  <2>6. pc[p] \in {"door", "place", "obsolete"} => Settled(p)'
    BY <1>1, <2>1 DEF Settled, Unmoved, Direction, Installed
  <2> QED BY <2>5, <2>6
<1> QED BY <1>3, <1>4

LEMMA OwnShown ==
  ASSUME IInv, NEW p \in Procs, Proc(p), Shown(p)
  PROVE  Shown(p)'
<1>. /\ pc \in [Procs -> Steps] /\ todo \in [Procs -> SUBSET Crates]
     /\ snap \in [Procs -> Manifests] /\ verb \in [Procs -> Verbs]
     /\ want \in [Procs -> [Crates -> 0 .. MaxVersion]] /\ manifest \in Manifests
  BY DEF IInv, TypeOK, SharedTypeOK, CommandTypeOK
<1>1. CASE StartDirect(p)
  <2>1. /\ pc'[p] = "gate" /\ verb'[p] \notin Planned
    BY <1>1 DEF StartDirect, TakeLock, Goto
  <2> QED BY <2>1 DEF Shown, InHand, Planned
<1>2. CASE Plan(p)
  <2>1. PICK S \in (SUBSET Installed(manifest)) \ {{}} :
          /\ todo' = [todo EXCEPT ![p] = S]
          /\ snap' = [snap EXCEPT ![p] =
                       [c \in Crates |-> IF c \in S THEN manifest[c] ELSE NoEntry]]
          /\ \/ /\ verb[p] = "update"
                /\ \A c \in S : ~Pinned(manifest, c) /\ newest[c] > manifest[c].version
                /\ UNCHANGED want
             \/ /\ verb[p] = "reinstallAll"
                /\ S = Installed(manifest)
                /\ UNCHANGED want
             \/ /\ verb[p] = "downgrade"
                /\ \E c \in S, v \in Versions :
                     /\ S = {c} /\ ~manifest[c].pinned /\ v < manifest[c].version
                     /\ want' = [want EXCEPT ![p][c] = v]
    BY <1>2, Zenon DEF Plan
  <2>2. pc'[p] = "confirm" /\ verb' = verb /\ newest' = newest
    BY <1>2 DEF Plan, Goto
  <2>3. todo'[p] = S /\ S \subseteq Crates
        /\ \A c \in S : snap'[p][c] = manifest[c]
    BY <2>1 DEF Installed
  <2>4. verb[p] = "update" => \A c \in S : newest[c] > manifest[c].version
    BY <2>1
  <2>5. verb[p] = "downgrade" => \A c \in S : 0 < want'[p][c] /\ want'[p][c] < manifest[c].version
    <3>1. ASSUME NEW c \in S, NEW v \in Versions, S = {c}, v < manifest[c].version,
                 want' = [want EXCEPT ![p][c] = v]
          PROVE  \A d \in S : 0 < want'[p][d] /\ want'[p][d] < manifest[d].version
      <4>1. want'[p][c] = v
        BY <2>3, <3>1
      <4>2. 0 < v
        BY PrefixAssumption DEF Versions, PrefixAssumption
      <4> QED BY <3>1, <4>1, <4>2
    <3> QED BY <2>1, <3>1
  <2> QED BY <2>2, <2>3, <2>4, <2>5 DEF Shown, InHand
<1>3. CASE Confirm(p)
  <2>1. /\ pc[p] = "confirm" /\ pc'[p] = "gate"
        /\ UNCHANGED <<newest, request, todo>>
    BY <1>3 DEF Confirm, TakeLock, Goto
  <2> QED BY <2>1 DEF Shown, InHand, request
<1>4. CASE StartReading(p) \/ Read(p) \/ Decline(p) \/ Crash(p) \/ Finish(p)
             \/ FailRemoval(p) \/ SetPinned(p) \/ Audit(p) \/ Audited(p)
  <2>1. pc'[p] \in {"read", "plan", "audit", "idle"}
    BY <1>4 DEF StartReading, Read, Decline, Crash, Finish, FailRemoval, SetPinned, Audit,
                Audited, Exit, Goto
  <2> QED BY <2>1 DEF Shown, InHand
<1>5. CASE Gate(p)
  <2>1. CASE ~Admitted(p)
    BY <1>5, <2>1 DEF Gate, Exit, Goto, Shown, InHand
  <2>2. CASE Admitted(p)
    <3>1. /\ pc[p] = "gate" /\ pc'[p] \in {"pin", "pick"}
          /\ UNCHANGED <<manifest, newest, verb, want, todo>>
          /\ verb[p] # "reinstall" => UNCHANGED snap
      BY <1>5, <2>2 DEF Gate, Goto
    <3>2. verb[p] = "downgrade" => \A c \in todo[p] : manifest[c].version = snap[p][c].version
      BY <2>2 DEF Admitted, Pinners
    <3> QED BY <3>1, <3>2 DEF Shown, InHand
  <2> QED BY <2>1, <2>2
<1>6. CASE Pick(p) \/ PickRemoval(p)
  <2>1. /\ pc[p] = "pick" /\ pc'[p] \in {"pick", "build", "rm"}
        /\ UNCHANGED <<manifest, newest, request>> /\ todo'[p] \subseteq todo[p]
        /\ pc'[p] = "rm" => verb[p] = "remove"
    BY <1>6 DEF Pick, PickRemoval, Goto
  <2> QED BY <2>1 DEF Shown, InHand, request
<1>7. CASE Build(p) \/ Miss(p) \/ Door(p) \/ Place(p) \/ Placed(p) \/ RemoveFile(p)
             \/ Fail(p) \/ Rollback(p) \/ RolledBack(p)
  <2>1. /\ pc[p] \in InHand /\ pc'[p] \in {"pick"} \cup InHand
        /\ UNCHANGED <<manifest, newest, request, todo>>
        /\ pc'[p] = "rm" => pc[p] = "rm"
    BY <1>7 DEF Build, Miss, Door, Place, Placed, RemoveFile, Fail, Rollback, RolledBack,
                NextMember, Goto, InHand
  <2> QED BY <2>1 DEF Shown, request
<1>8. CASE Commit(p) \/ CommitRemoval(p)
  <2>1. /\ pc[p] \in InHand /\ pc'[p] = "pick" /\ UNCHANGED <<newest, request, todo>>
    BY <1>8 DEF Commit, CommitRemoval, NextMember, Goto, InHand
  <2>2. cur[p] \notin todo[p] /\ todo[p] \subseteq Crates
    BY <2>1 DEF IInv, MemberInv
  <2>3. \E e \in {new[p], NoEntry} : manifest' = [manifest EXCEPT ![cur[p]] = e]
    BY <1>8, CommitsOne, RemovesOne
  <2>4. \A c \in todo[p] : manifest'[c] = manifest[c]
    BY <2>2, <2>3 DEF Manifests
  <2> QED BY <2>1, <2>4 DEF Shown, InHand, request
<1> QED BY <1>1, <1>2, <1>3, <1>4, <1>5, <1>6, <1>7, <1>8 DEF Proc, Work

LEMMA OwnSettled ==
  ASSUME IInv, NEW p \in Procs, Proc(p), Shown(p), Settled(p)
  PROVE  Settled(p)'
<1>. /\ pc \in [Procs -> Steps] /\ todo \in [Procs -> SUBSET Crates]
     /\ snap \in [Procs -> Manifests] /\ verb \in [Procs -> Verbs]
     /\ want \in [Procs -> [Crates -> 0 .. MaxVersion]] /\ manifest \in Manifests
     /\ newest \in [Crates -> Versions] /\ cur \in [Procs -> Crates \cup {NoCrate}]
     /\ new \in [Procs -> Pending]
  BY DEF IInv, TypeOK, SharedTypeOK, CommandTypeOK, MemberTypeOK
<1>. MaxVersion \in Nat
  BY PrefixAssumption DEF PrefixAssumption
<1> USE DEF Versions
<1>1. CASE pc'[p] \notin {"build", "door", "place", "obsolete"}
  BY <1>1 DEF Settled
<1>2. CASE Door(p) \/ Place(p) \/ Placed(p) \/ (RemoveFile(p) /\ pc[p] = "obsolete")
  <2>1. /\ pc[p] \in {"door", "place", "obsolete"} /\ pc'[p] \in {"place", "obsolete"}
        /\ UNCHANGED <<manifest, request, cur, new>>
    BY <1>2 DEF Door, Place, Placed, RemoveFile, Goto
  <2> QED BY <2>1 DEF Settled, Direction, Installed, request
<1>3. CASE Pick(p) /\ pc'[p] = "build"
  <2>1. PICK c \in todo[p] : cur'[p] = c /\ StillPlanned(p, c)
    BY <1>3 DEF Pick
  <2>2. /\ pc[p] = "pick" /\ verb[p] \in Builders /\ mem[p] = manifest
        /\ UNCHANGED <<manifest, newest, request, mem>>
    BY <1>3 DEF Pick, IInv, MemoryInv, Fresh
  <2>3. /\ Request(p, cur[p])' = (CASE verb[p] \in {"install", "downgrade"} -> want[p][c]
                                    [] verb[p] = "update" -> 0
                                    [] OTHER -> snap[p][c].version)
        /\ LockedFor(p, cur[p])' = (CASE verb[p] = "install" -> lk[p]
                                      [] verb[p] \in {"update", "downgrade"} -> manifest[c].locked
                                      [] OTHER -> snap[p][c].locked)
    BY <2>1, <2>2 DEF Request, LockedFor, request
  <2>4. CASE verb[p] = "update"
    <3>1. /\ newest[c] > snap[p][c].version /\ manifest[c].version = snap[p][c].version
      BY <2>1, <2>2, <2>4 DEF Shown, StillPlanned
    <3> QED BY <1>3, <2>1, <2>2, <2>3, <2>4, <3>1 DEF Settled, Direction, request
  <2>5. CASE verb[p] = "downgrade"
    <3>1. /\ 0 < want[p][c] /\ want[p][c] < snap[p][c].version
          /\ manifest[c].version = snap[p][c].version
      BY <2>1, <2>2, <2>5 DEF Shown
    <3> QED BY <1>3, <2>1, <2>2, <2>3, <2>5, <3>1 DEF Settled, Direction, request
  <2>6. CASE verb[p] \in {"reinstall", "reinstallAll"}
    <3>1. /\ snap[p][c].version = manifest[c].version
          /\ snap[p][c].locked = manifest[c].locked
      BY <2>1, <2>2, <2>6 DEF StillPlanned, IInv, PlanInv
    <3> QED BY <1>3, <2>1, <2>2, <2>3, <2>6, <3>1 DEF Settled, Direction, request
  <2>7. CASE verb[p] = "install"
    BY <2>2, <2>7 DEF Settled, request
  <2> QED BY <2>2, <2>4, <2>5, <2>6, <2>7 DEF Builders
<1>4. CASE Build(p)
  <2> DEFINE c == cur[p]
             v == IF Request(p, c) = 0 THEN newest[c] ELSE Request(p, c)
  <2>1. /\ pc[p] = "build" /\ pc'[p] = "door" /\ c \in Crates /\ mem[p] = manifest
        /\ UNCHANGED <<manifest, newest, request, cur>>
        /\ new'[p] = [version |-> v, bins |-> Provides[c][v],
                      locked |-> LockedFor(p, c), pinned |-> PinFor(p, c)]
    BY <1>4 DEF Build, Goto, IInv, MemberInv, InHand, MemoryInv, Fresh
  <2>2. new'[p].version = v /\ new'[p].locked = LockedFor(p, c) /\ new'[p].pinned = PinFor(p, c)
    BY <2>1
  <2> SUFFICES ASSUME verb[p] \in Builders \ {"install"} PROVE Settled(p)'
    BY <2>1 DEF Settled, request
  <2>3. /\ c \in Installed(manifest) /\ LockedFor(p, c) = manifest[c].locked
        /\ verb[p] = "downgrade" => Request(p, c) # 0
        /\ Direction(p, IF verb[p] = "update" THEN newest[c] ELSE Request(p, c))
    BY <2>1 DEF Settled, IInv, BuildInv
  <2>4. v = IF verb[p] = "update" THEN newest[c] ELSE Request(p, c)
    <3>1. CASE verb[p] = "update"
      BY <3>1 DEF Request
    <3>2. CASE verb[p] = "downgrade"
      BY <2>3, <3>2
    <3>3. CASE verb[p] \in {"reinstall", "reinstallAll"}
      <4>1. Request(p, c) = manifest[c].version
        BY <2>3, <3>3 DEF Direction
      <4>2. manifest[c].version # 0
        BY <2>3 DEF Installed, Manifests, Entries
      <4> QED BY <3>3, <4>1, <4>2
    <3> QED BY <3>1, <3>2, <3>3 DEF Builders
  <2>5. PinFor(p, c) = IF verb[p] \in {"update", "downgrade"} THEN verb[p] = "downgrade"
                       ELSE manifest[c].pinned
    <3>1. CASE verb[p] = "update"
      <4>1. ~Pinned(manifest, c) /\ Request(p, c) = 0
        BY <2>1, <3>1 DEF IInv, BuildInv, Request
      <4> QED BY <2>1, <3>1, <4>1 DEF PinFor
    <3>2. CASE verb[p] = "downgrade"
      BY <2>3, <3>2 DEF PinFor
    <3>3. CASE verb[p] \in {"reinstall", "reinstallAll"}
      BY <2>1, <3>3 DEF PinFor, IInv, BuildInv
    <3> QED BY <3>1, <3>2, <3>3 DEF Builders
  <2>6. Direction(p, v)
    BY <2>3, <2>4
  <2> HIDE DEF v
  <2>7. Direction(p, new[p].version)'
    BY <2>1, <2>2, <2>6 DEF Direction, request
  <2> QED BY <2>1, <2>2, <2>3, <2>5, <2>7 DEF Settled, Installed, request
<1>5. \/ Door(p) \/ Place(p) \/ Placed(p) \/ (RemoveFile(p) /\ pc[p] = "obsolete")
      \/ (Pick(p) /\ pc'[p] = "build") \/ Build(p)
      \/ pc'[p] \notin {"build", "door", "place", "obsolete"}
  <2>1. CASE StartDirect(p) \/ StartReading(p) \/ Plan(p) \/ Confirm(p) \/ Read(p)
               \/ Decline(p) \/ Crash(p) \/ Gate(p) \/ Audit(p) \/ Audited(p)
    BY <2>1 DEF StartDirect, StartReading, Plan, Confirm, Read, TakeLock, Decline, Crash,
                Gate, Audit, Audited, Exit, Goto
  <2>2. CASE Pick(p) \/ Finish(p) \/ Miss(p) \/ Commit(p) \/ Fail(p) \/ Rollback(p)
               \/ RolledBack(p)
    BY <2>2 DEF Pick, Finish, Miss, Commit, Fail, Rollback, RolledBack, NextMember, Exit, Goto
  <2>3. CASE PickRemoval(p) \/ CommitRemoval(p) \/ FailRemoval(p) \/ SetPinned(p)
               \/ RemoveFile(p)
    BY <2>3 DEF PickRemoval, CommitRemoval, FailRemoval, SetPinned, RemoveFile,
                NextMember, Exit, Goto
  <2> QED BY <2>1, <2>2, <2>3 DEF Proc, Work
<1> QED BY <1>1, <1>2, <1>3, <1>4, <1>5

LEMMA StepPlans ==
  ASSUME IInv, PlansInv, [Next]_vars
  PROVE  PlansInv'
<1>1. \A p \in Procs : Shown(p)' /\ Settled(p)'
  BY OthersKeepPlan, OwnShown, OwnSettled DEF PlansInv
<1>2. ReleaseInv'
  BY ReleaseStep DEF PlansInv
<1> QED BY <1>1, <1>2 DEF PlansInv

\* What a store by a command with a confirmed plan may change, and how.
Honoured(p, c) ==
  /\ manifest[c] # NoEntry
  /\ CASE verb[p] = "update" ->
            /\ manifest'[c].version > manifest[c].version
            /\ ~manifest'[c].pinned
            /\ manifest'[c].locked = manifest[c].locked
       [] verb[p] = "downgrade" ->
            /\ manifest'[c].version < manifest[c].version
            /\ manifest'[c].pinned
            /\ manifest'[c].locked = manifest[c].locked
       [] OTHER -> FALSE

LEMMA HonouredStep ==
  ASSUME IInv, PlansInv, [Next]_vars, NEW p \in Procs, NEW c \in Crates, lockEx = p,
         manifest'[c] # manifest[c], verb[p] \in Builders \ {"install"}
  PROVE  Honoured(p, c)
<1>. manifest \in Manifests /\ new \in [Procs -> Pending]
  BY DEF IInv, TypeOK, SharedTypeOK, MemberTypeOK
<1>1. PICK q \in Procs : Commit(q) \/ CommitRemoval(q) \/ SetPinned(q)
  BY ManifestWriters
<1>2. q = p
  BY <1>1 DEF Commit, CommitRemoval, SetPinned, IInv, LockInv, Locked
<1>3. ~CommitRemoval(p)
  BY DEF CommitRemoval, PlansInv, Shown, Builders
<1>4. ~SetPinned(p)
  BY DEF SetPinned, IInv, PlanInv, Builders, Pinners
<1>5. Commit(p)
  BY <1>1, <1>2, <1>3, <1>4
<1>6. /\ pc[p] = "obsolete" /\ manifest' = [manifest EXCEPT ![cur[p]] = new[p]]
  BY <1>5, CommitsOne DEF Commit
<1>7. c = cur[p] /\ manifest'[c] = new[p]
  BY <1>6 DEF Manifests
<1>8. /\ c \in Installed(manifest)
      /\ Direction(p, new[p].version)
      /\ new[p].locked = manifest[c].locked
      /\ new[p].pinned = IF verb[p] \in {"update", "downgrade"} THEN verb[p] = "downgrade"
                         ELSE manifest[c].pinned
  BY <1>6, <1>7 DEF PlansInv, Settled
<1>9. CASE verb[p] \in {"update", "downgrade"}
  BY <1>7, <1>8, <1>9 DEF Honoured, Direction, Installed
<1>10. CASE verb[p] \in {"reinstall", "reinstallAll"}
  <2>1. new[p] = manifest[c]
    <3>1. new[p] \in Entries /\ manifest[c] \in Entries
      BY <1>6, <1>8, MemberInHand DEF Installed, Manifests
    <3>2. new[p].version = manifest[c].version
      BY <1>7, <1>8, <1>10 DEF Direction
    <3>3. new[p].pinned = manifest[c].pinned /\ new[p].locked = manifest[c].locked
      BY <1>8, <1>10
    <3>4. new[p].bins = manifest[c].bins
      BY <1>6, <1>7, <1>8, <3>2 DEF PlansInv, ReleaseInv
    <3> QED BY <3>1, <3>2, <3>3, <3>4 DEF Entries
  <2> QED BY <1>7, <2>1
<1> QED BY <1>9, <1>10 DEF Builders

\* A confirmed plan is carried out as shown or not at all: for any crates, releases
\* and processes, whatever happened while the prompt was open.
THEOREM PlansHonoured == Spec => PlanHonoured
<1>1. Init => PlansInv
  BY DEF Init, PlansInv, ReleaseInv, Shown, Settled, Installed, NoManifest, InHand
<1>2. IInv /\ PlansInv /\ [Next]_vars => PlansInv'
  BY StepPlans
<1>3. IInv /\ PlansInv /\ [Next]_vars =>
        [\A p \in Procs, c \in Crates :
           lockEx = p /\ manifest'[c] # manifest[c] /\ verb[p] \in Builders \ {"install"} =>
             /\ manifest[c] # NoEntry
             /\ CASE verb[p] = "update" ->
                       /\ manifest'[c].version > manifest[c].version
                       /\ ~manifest'[c].pinned
                       /\ manifest'[c].locked = manifest[c].locked
                  [] verb[p] = "downgrade" ->
                       /\ manifest'[c].version < manifest[c].version
                       /\ manifest'[c].pinned
                       /\ manifest'[c].locked = manifest[c].locked
                  [] OTHER -> FALSE]_vars
  BY HonouredStep DEF Honoured
<1> QED BY <1>1, <1>2, <1>3, InductiveInvariant, PTL DEF Spec, PlanHonoured

=============================================================================
