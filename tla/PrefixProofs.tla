---------------------------- MODULE PrefixProofs ----------------------------
(***************************************************************************)
(* Proofs about one prefix, for any number of crates, binaries, releases   *)
(* and processes: the inductive invariant IInv, and what follows from it.  *)
(***************************************************************************)
EXTENDS PrefixProps, TLAPS

-----------------------------------------------------------------------------
(* The exclusive lock.                                                     *)

LEMMA LockStep ==
  ASSUME TypeOK, LockInv, [Next]_vars
  PROVE  LockInv'
<1>. pc \in [Procs -> Steps] /\ lockEx \in Procs \cup {NoProc} /\ NoProc \notin Procs
  BY PrefixAssumption DEF TypeOK, SharedTypeOK, CommandTypeOK, MemberTypeOK, PrefixAssumption
<1> USE DEF LockInv, Locked, Steps
<1>1. CASE UNCHANGED vars
  BY <1>1 DEF vars, lockVars
<1>2. ASSUME NEW p \in Procs, Proc(p) PROVE LockInv'
  <2>1. CASE StartDirect(p)
    BY <2>1 DEF StartDirect, TakeLock, Goto
  <2>2. CASE StartReading(p)
    BY <2>2 DEF StartReading, Goto, lockVars
  <2>3. CASE Plan(p)
    BY <2>3 DEF Plan, Goto
  <2>4. CASE Decline(p)
    BY <2>4 DEF Decline, Exit, Goto, lockVars
  <2>5. CASE Confirm(p)
    BY <2>5 DEF Confirm, TakeLock, Goto
  <2>6. CASE Read(p)
    BY <2>6 DEF Read, Goto
  <2>7. CASE Crash(p)
    BY <2>7 DEF Crash, Exit, Unlock, Goto
  <2>8. CASE Gate(p)
    BY <2>8 DEF Gate, Exit, Unlock, Goto, lockVars
  <2>9. CASE Pick(p) \/ Build(p) \/ Miss(p) \/ Door(p) \/ Place(p) \/ Placed(p)
    BY <2>9 DEF Pick, Build, Miss, Door, Place, Placed, NextMember, Goto, lockVars
  <2>10. CASE Fail(p) \/ Rollback(p) \/ RolledBack(p) \/ Commit(p) \/ RemoveFile(p)
    BY <2>10 DEF Fail, Rollback, RolledBack, Commit, RemoveFile, NextMember, Goto,
                 lockVars
  <2>11. CASE PickRemoval(p) \/ CommitRemoval(p)
    BY <2>11 DEF PickRemoval, CommitRemoval, NextMember, Goto, lockVars
  <2>12. CASE Finish(p) \/ FailRemoval(p) \/ SetPinned(p) \/ Audited(p)
    BY <2>12 DEF Finish, FailRemoval, SetPinned, Audited, Exit, Unlock, Goto
  <2>13. CASE Audit(p)
    BY <2>13 DEF Audit, lockVars
  <2> QED
    BY <1>2, <2>1, <2>2, <2>3, <2>4, <2>5, <2>6, <2>7, <2>8, <2>9, <2>10, <2>11,
       <2>12, <2>13 DEF Proc, Work
<1>3. CASE World
  BY <1>3 DEF World, Publish, ForeignFile, CleanLeftover, lockVars
<1> QED BY <1>1, <1>2, <1>3 DEF Next

-----------------------------------------------------------------------------
(* A process that has no lock keeps nothing a store could use.             *)

LEMMA MemoryStep ==
  ASSUME TypeOK, LockInv, MemoryInv, [Next]_vars
  PROVE  MemoryInv'
<1>. /\ pc \in [Procs -> Steps] /\ lockEx \in Procs \cup {NoProc} /\ NoProc \notin Procs
     /\ mem \in [Procs -> Manifests] /\ cur \in [Procs -> Crates \cup {NoCrate}]
     /\ manifest \in Manifests
  BY PrefixAssumption DEF TypeOK, SharedTypeOK, CommandTypeOK, MemberTypeOK, PrefixAssumption
<1> USE DEF LockInv, Locked, Steps, MemoryInv, Fresh, Installed
<1>1. CASE UNCHANGED vars
  BY <1>1 DEF vars, member
<1>2. ASSUME NEW p \in Procs, Proc(p) PROVE MemoryInv'
  <2>1. CASE StartDirect(p) \/ StartReading(p) \/ Plan(p) \/ Confirm(p)
    BY <2>1 DEF StartDirect, StartReading, Plan, Confirm, TakeLock, Goto, member
  <2>2. CASE Decline(p) \/ Crash(p) \/ Finish(p) \/ FailRemoval(p) \/ Audited(p)
    BY <2>2 DEF Decline, Crash, Finish, FailRemoval, Audited, Exit, Goto
  <2>3. CASE Gate(p)
    BY <2>3 DEF Gate, Exit, Goto, member
  <2>4. CASE Read(p) \/ Audit(p)
    BY <2>4 DEF Read, Audit, Goto, member
  <2>5. CASE Pick(p) \/ Build(p) \/ Miss(p) \/ Door(p) \/ Place(p) \/ Placed(p)
    BY <2>5 DEF Pick, Build, Miss, Door, Place, Placed, NextMember, Goto
  <2>6. CASE Fail(p) \/ Rollback(p) \/ RolledBack(p) \/ RemoveFile(p)
    BY <2>6 DEF Fail, Rollback, RolledBack, RemoveFile, NextMember, Goto
  <2>7. CASE Commit(p)
    BY <2>7 DEF Commit, NextMember, Goto
  <2>8. CASE PickRemoval(p)
    <3>1. pc[p] = "pick" /\ lockEx = p /\ mem[p] = manifest /\ manifest' = manifest
      BY <2>8 DEF PickRemoval
    <3>2. PICK c \in todo[p] :
            IF c \in Installed(mem[p])
            THEN /\ cur' = [cur EXCEPT ![p] = c]
                 /\ mem' = [mem EXCEPT ![p][c] = NoEntry]
                 /\ Goto(p, "rm")
            ELSE UNCHANGED <<cur, mem, pc>>
      BY <2>8 DEF PickRemoval
    <3>3. CASE c \in Installed(mem[p])
      <4>1. /\ cur'[p] = c /\ pc'[p] = "rm"
            /\ mem'[p] = [manifest EXCEPT ![c] = NoEntry]
        BY <3>1, <3>2, <3>3 DEF Goto
      <4>2. \A q \in Procs \ {p} : pc'[q] = pc[q] /\ mem'[q] = mem[q] /\ cur'[q] = cur[q]
        BY <3>2, <3>3 DEF Goto
      <4> QED BY <3>1, <3>3, <4>1, <4>2
    <3> QED BY <3>1, <3>2, <3>3
  <2>9. CASE CommitRemoval(p)
    BY <2>9 DEF CommitRemoval, NextMember, Goto
  <2>10. CASE SetPinned(p)
    BY <2>10 DEF SetPinned, Exit, Goto
  <2> QED
    BY <1>2, <2>1, <2>2, <2>3, <2>4, <2>5, <2>6, <2>7, <2>8, <2>9, <2>10
    DEF Proc, Work
<1>3. CASE World
  BY <1>3 DEF World, Publish, ForeignFile, CleanLeftover, member
<1> QED BY <1>1, <1>2, <1>3 DEF Next

LEMMA MemberStep ==
  ASSUME TypeOK, MemberInv, [Next]_vars
  PROVE  MemberInv'
<1>. /\ pc \in [Procs -> Steps] /\ todo \in [Procs -> SUBSET Crates]
     /\ cur \in [Procs -> Crates \cup {NoCrate}]
  BY DEF TypeOK, CommandTypeOK, MemberTypeOK
<1> USE DEF Steps, Locked, MemberInv, InHand
<1>1. CASE UNCHANGED vars
  BY <1>1 DEF vars, member
<1>2. ASSUME NEW p \in Procs, Proc(p) PROVE MemberInv'
  <2>1. CASE StartDirect(p) \/ StartReading(p) \/ Plan(p) \/ Confirm(p)
    BY <2>1 DEF StartDirect, StartReading, Plan, Confirm, TakeLock, Goto, member
  <2>2. CASE Decline(p) \/ Crash(p) \/ Finish(p) \/ FailRemoval(p) \/ Audited(p)
              \/ SetPinned(p)
    BY <2>2 DEF Decline, Crash, Finish, FailRemoval, Audited, SetPinned, Exit, Goto
  <2>3. CASE Gate(p) \/ Read(p) \/ Audit(p)
    BY <2>3 DEF Gate, Read, Audit, Exit, Goto, member
  <2>4. CASE Pick(p) \/ PickRemoval(p)
    BY <2>4 DEF Pick, PickRemoval, Goto
  <2>5. CASE Build(p) \/ Miss(p) \/ Door(p) \/ Place(p) \/ Placed(p) \/ RemoveFile(p)
    BY <2>5 DEF Build, Miss, Door, Place, Placed, RemoveFile, NextMember, Goto
  <2>6. CASE Fail(p) \/ Rollback(p) \/ RolledBack(p) \/ Commit(p) \/ CommitRemoval(p)
    BY <2>6 DEF Fail, Rollback, RolledBack, Commit, CommitRemoval, NextMember, Goto
  <2> QED
    BY <1>2, <2>1, <2>2, <2>3, <2>4, <2>5, <2>6 DEF Proc, Work
<1>3. CASE World
  BY <1>3 DEF World, Publish, ForeignFile, CleanLeftover, member
<1> QED BY <1>1, <1>2, <1>3 DEF Next


-----------------------------------------------------------------------------
(* What a command was told, and what it is building.                       *)

LEMMA PlanStep ==
  ASSUME TypeOK, LockInv, MemoryInv, MemberInv, PlanInv, [Next]_vars
  PROVE  PlanInv'
<1>. /\ pc \in [Procs -> Steps] /\ lockEx \in Procs \cup {NoProc} /\ NoProc \notin Procs
     /\ mem \in [Procs -> Manifests] /\ cur \in [Procs -> Crates \cup {NoCrate}]
     /\ manifest \in Manifests /\ snap \in [Procs -> Manifests]
     /\ todo \in [Procs -> SUBSET Crates] /\ verb \in [Procs -> Verbs]
  BY PrefixAssumption DEF TypeOK, SharedTypeOK, CommandTypeOK, MemberTypeOK, PrefixAssumption
<1> USE DEF LockInv, Locked, Steps, PlanInv, InHand, Installed, Planned
<1>1. CASE UNCHANGED vars
  BY <1>1 DEF vars, request, Pinned
<1>2. ASSUME NEW p \in Procs, Proc(p) PROVE PlanInv'
  <2>1. CASE StartDirect(p) \/ StartReading(p) \/ Confirm(p)
    BY <2>1 DEF StartDirect, StartReading, Confirm, TakeLock, Goto, request, Pinned
  <2>2. CASE Plan(p)
    BY <2>2 DEF Plan, Goto, Pinned, Manifests
  <2>3. CASE Decline(p) \/ Crash(p) \/ Finish(p) \/ FailRemoval(p) \/ Audited(p)
    BY <2>3 DEF Decline, Crash, Finish, FailRemoval, Audited, Exit, Goto, Pinned
  <2>4. CASE Gate(p)
    BY <2>4 DEF Gate, Admitted, Pinners, Exit, Goto, Pinned
  <2>5. CASE Read(p) \/ Audit(p)
    BY <2>5 DEF Read, Audit, Goto, request, Pinned
  <2>6. CASE Pick(p) \/ PickRemoval(p)
    BY <2>6 DEF Pick, PickRemoval, Goto, request, Pinned
  <2>7. CASE Build(p) \/ Miss(p) \/ Door(p) \/ Place(p) \/ Placed(p) \/ RemoveFile(p)
    BY <2>7 DEF Build, Miss, Door, Place, Placed, RemoveFile, NextMember, Goto,
                request, Pinned
  <2>8. CASE Fail(p) \/ Rollback(p) \/ RolledBack(p)
    BY <2>8 DEF Fail, Rollback, RolledBack, NextMember, Goto, request, Pinned
  <2>9. CASE Commit(p) \/ CommitRemoval(p)
    <3>1. /\ pc[p] \in InHand /\ lockEx = p /\ pc'[p] = "pick"
          /\ UNCHANGED <<verb, snap, todo>>
          /\ \A q \in Procs \ {p} : pc'[q] = pc[q]
      BY <2>9 DEF Commit, CommitRemoval, NextMember, Goto, request
    <3>2. \A c \in todo[p] : manifest'[c] = manifest[c]
      BY <2>9 DEF Commit, CommitRemoval, MemberInv, MemoryInv, Fresh, Manifests
    <3> QED BY <3>1, <3>2 DEF Pinned
  <2>10. CASE SetPinned(p)
    BY <2>10 DEF SetPinned, Exit, Goto
  <2> QED
    BY <1>2, <2>1, <2>2, <2>3, <2>4, <2>5, <2>6, <2>7, <2>8, <2>9, <2>10
    DEF Proc, Work
<1>3. CASE World
  BY <1>3 DEF World, Publish, ForeignFile, CleanLeftover, request, Pinned
<1> QED BY <1>1, <1>2, <1>3 DEF Next

LEMMA BuildStep ==
  ASSUME TypeOK, LockInv, MemoryInv, MemberInv, PlanInv, BuildInv, [Next]_vars
  PROVE  BuildInv'
<1>. /\ pc \in [Procs -> Steps] /\ lockEx \in Procs \cup {NoProc} /\ NoProc \notin Procs
     /\ cur \in [Procs -> Crates \cup {NoCrate}]
     /\ todo \in [Procs -> SUBSET Crates] /\ verb \in [Procs -> Verbs]
  BY PrefixAssumption DEF TypeOK, SharedTypeOK, CommandTypeOK, MemberTypeOK, PrefixAssumption
<1> USE DEF LockInv, Locked, Steps, BuildInv, Installed
<1>1. CASE UNCHANGED vars
  BY <1>1 DEF vars, request, member, Pinned
<1>2. ASSUME NEW p \in Procs, Proc(p) PROVE BuildInv'
  <2>1. CASE StartDirect(p) \/ StartReading(p) \/ Plan(p) \/ Confirm(p)
    <3>1. /\ pc'[p] # "build" /\ UNCHANGED <<manifest, cur>>
          /\ \A q \in Procs \ {p} :
               pc'[q] = pc[q] /\ verb'[q] = verb[q] /\ snap'[q] = snap[q]
      BY <2>1 DEF StartDirect, StartReading, Plan, Confirm, TakeLock, Goto, request,
                  member, TypeOK, CommandTypeOK, MemberTypeOK
    <3> QED BY <3>1 DEF Pinned
  <2>2. CASE Decline(p) \/ Crash(p) \/ Finish(p) \/ FailRemoval(p) \/ Audited(p)
    <3>1. /\ pc'[p] # "build" /\ UNCHANGED manifest
          /\ \A q \in Procs \ {p} : /\ pc'[q] = pc[q] /\ verb'[q] = verb[q]
                                   /\ snap'[q] = snap[q] /\ cur'[q] = cur[q]
      BY <2>2 DEF Decline, Crash, Finish, FailRemoval, Audited, Exit, Goto, TypeOK,
                  CommandTypeOK, MemberTypeOK
    <3> QED BY <3>1 DEF Pinned
  <2>3. CASE Gate(p) \/ Read(p) \/ Audit(p)
    BY <2>3 DEF Gate, Read, Audit, Exit, Goto, request, member, Pinned
  <2>4. CASE Pick(p)
    <3>1. PICK c \in todo[p] :
            IF StillPlanned(p, c)
            THEN cur' = [cur EXCEPT ![p] = c] /\ Goto(p, "build")
            ELSE UNCHANGED <<cur, pc>>
      BY <2>4 DEF Pick
    <3>2. /\ pc[p] = "pick" /\ lockEx = p /\ verb[p] \in Builders
          /\ mem[p] = manifest /\ UNCHANGED <<manifest, verb, snap>>
      BY <2>4 DEF Pick, MemoryInv, Fresh, request
    <3>3. CASE ~StillPlanned(p, c)
      BY <3>1, <3>2, <3>3 DEF Pinned
    <3>4. CASE StillPlanned(p, c)
      <4>1. /\ cur'[p] = c /\ pc'[p] = "build"
            /\ \A q \in Procs \ {p} : pc'[q] = pc[q] /\ cur'[q] = cur[q]
        BY <3>1, <3>4 DEF Goto
      <4>2. /\ verb[p] # "install" => c \in Installed(manifest)
            /\ verb[p] \notin {"reinstall", "reinstallAll"} => ~Pinned(manifest, c)
        BY <3>2, <3>4 DEF StillPlanned, PlanInv, InHand, Builders, Pinned
      <4>3. verb[p] \in {"reinstall", "reinstallAll"} =>
              /\ c \in Installed(snap[p])
              /\ snap[p][c].version = manifest[c].version
              /\ snap[p][c].pinned = manifest[c].pinned
        BY <3>2, <3>4 DEF StillPlanned, PlanInv, InHand, Planned
      <4> QED BY <3>2, <4>1, <4>2, <4>3 DEF Pinned
    <3> QED BY <3>3, <3>4
  <2>5. CASE Build(p) \/ Miss(p) \/ Door(p) \/ Place(p) \/ Placed(p) \/ RemoveFile(p)
    BY <2>5 DEF Build, Miss, Door, Place, Placed, RemoveFile, NextMember, Goto,
                request, Pinned
  <2>6. CASE Fail(p) \/ Rollback(p) \/ RolledBack(p) \/ PickRemoval(p)
    BY <2>6 DEF Fail, Rollback, RolledBack, PickRemoval, NextMember, Goto, request,
                Pinned
  <2>7. CASE Commit(p) \/ CommitRemoval(p)
    BY <2>7 DEF Commit, CommitRemoval, NextMember, Goto
  <2>8. CASE SetPinned(p)
    BY <2>8 DEF SetPinned, Exit, Goto
  <2> QED
    BY <1>2, <2>1, <2>2, <2>3, <2>4, <2>5, <2>6, <2>7, <2>8 DEF Proc, Work
<1>3. CASE World
  BY <1>3 DEF World, Publish, ForeignFile, CleanLeftover, request, member, Pinned
<1> QED BY <1>1, <1>2, <1>3 DEF Next

\* What Build settles: an entry, of binaries no other crate has, that keeps a
\* pin and the version it holds.
LEMMA BuildSettles ==
  ASSUME TypeOK, LockInv, MemoryInv, MemberInv, BuildInv, Valid(manifest),
         NEW p \in Procs, Build(p)
  PROVE  /\ new'[p] \in Entries
         /\ \A d \in Crates \ {cur[p]} : new'[p].bins \cap BinsOf(manifest, d) = {}
         /\ Pinned(manifest, cur[p]) =>
              new'[p].pinned /\ new'[p].version = manifest[cur[p]].version
<1> DEFINE c == cur[p]
           v == IF Request(p, c) = 0 THEN newest[c] ELSE Request(p, c)
<1>1. /\ pc[p] = "build" /\ c \in Crates /\ mem[p] = manifest
      /\ v <= newest[c] /\ SoundBins(Provides[c][v])
      /\ NoCollision(manifest, c, Provides[c][v])
      /\ new'[p] = [version |-> v, bins |-> Provides[c][v],
                    locked |-> LockedFor(p, c), pinned |-> PinFor(p, c)]
  BY DEF Build, MemoryInv, Fresh, MemberInv, InHand, TypeOK, CommandTypeOK, MemberTypeOK
<1> HIDE DEF c
<1>2. /\ newest[c] \in Versions /\ want[p][c] \in 0 .. MaxVersion
      /\ manifest[c] \in Entries \cup {NoEntry} /\ snap[p][c] \in Entries \cup {NoEntry}
      /\ lk[p] \in BOOLEAN /\ MaxVersion \in Nat \ {0}
      /\ \A w \in Versions : Provides[c][w] \in SUBSET Bins
  BY <1>1, PrefixAssumption DEF TypeOK, SharedTypeOK, CommandTypeOK, MemberTypeOK, Manifests, PrefixAssumption
<1>3. /\ verb[p] \in Builders
      /\ verb[p] # "install" => manifest[c] \in Entries
      /\ verb[p] \notin {"reinstall", "reinstallAll"} => ~Pinned(manifest, c)
      /\ verb[p] \in {"reinstall", "reinstallAll"} =>
           /\ snap[p][c] \in Entries
           /\ snap[p][c].version = manifest[c].version
           /\ snap[p][c].pinned = manifest[c].pinned
  BY <1>1, <1>2 DEF BuildInv, Installed, c
<1>4. v \in Versions
  BY <1>2, <1>3 DEF Request, Builders, Versions, Entries
<1>5. LockedFor(p, c) \in BOOLEAN
  BY <1>1, <1>2, <1>3 DEF LockedFor, Builders, Entries
<1>6. PinFor(p, c) \in BOOLEAN
  <2>1. CASE verb[p] \in {"reinstall", "reinstallAll"}
    BY <2>1, <1>3 DEF PinFor, Entries
  <2>2. CASE verb[p] \notin {"reinstall", "reinstallAll"}
    BY <2>2 DEF PinFor
  <2> QED BY <2>1, <2>2
<1>7. new'[p] \in Entries
  <2> HIDE DEF v
  <2>1. SoundBins(Provides[c][v])
    BY <1>1
  <2>2. Provides[c][v] \in (SUBSET Bins) \ {{}}
    <3>1. Provides[c][v] \in SUBSET Bins
      BY <1>2, <1>4
    <3>2. Provides[c][v] # {}
      BY <2>1 DEF SoundBins
    <3> QED BY <3>1, <3>2
  <2> QED BY <1>1, <1>4, <1>5, <1>6, <2>2 DEF Entries
<1>8. \A d \in Crates \ {c} : new'[p].bins \cap BinsOf(manifest, d) = {}
  BY <1>1 DEF NoCollision, Valid
<1>9. Pinned(manifest, c) =>
        new'[p].pinned /\ new'[p].version = manifest[c].version
  <2> SUFFICES ASSUME Pinned(manifest, c)
               PROVE  new'[p].pinned /\ new'[p].version = manifest[c].version
    OBVIOUS
  <2>1. /\ verb[p] \in {"reinstall", "reinstallAll"}
        /\ snap[p][c].pinned /\ snap[p][c].version = manifest[c].version
        /\ snap[p][c].version \in Versions
    BY <1>3 DEF Pinned, Entries
  <2>2. v = manifest[c].version
    BY <2>1 DEF Request, Versions
  <2>3. PinFor(p, c)
    BY <2>1 DEF PinFor
  <2> QED BY <2>2, <2>3, <1>1
<1> QED BY <1>7, <1>8, <1>9 DEF c

LEMMA PendingStep ==
  ASSUME TypeOK, LockInv, MemoryInv, MemberInv, BuildInv, PendingInv,
         Valid(manifest), [Next]_vars
  PROVE  PendingInv'
<1>. /\ pc \in [Procs -> Steps] /\ lockEx \in Procs \cup {NoProc} /\ NoProc \notin Procs
     /\ cur \in [Procs -> Crates \cup {NoCrate}] /\ DOMAIN new = Procs
  BY PrefixAssumption DEF TypeOK, SharedTypeOK, CommandTypeOK, MemberTypeOK, PrefixAssumption
<1> USE DEF LockInv, Locked, Steps, PendingInv
<1>1. CASE UNCHANGED vars
  BY <1>1 DEF vars, member, Pinned, BinsOf
<1>2. ASSUME NEW p \in Procs, Proc(p) PROVE PendingInv'
  <2>1. CASE StartDirect(p) \/ StartReading(p) \/ Plan(p) \/ Confirm(p)
    <3>1. /\ pc'[p] \in {"gate", "read", "plan", "confirm"}
          /\ UNCHANGED <<manifest, cur, new>>
          /\ \A q \in Procs \ {p} : pc'[q] = pc[q]
      BY <2>1 DEF StartDirect, StartReading, Plan, Confirm, TakeLock, Goto, member
    <3> QED BY <3>1 DEF Pinned, BinsOf
  <2>2. CASE Decline(p) \/ Crash(p) \/ Finish(p) \/ FailRemoval(p) \/ Audited(p)
    BY <2>2 DEF Decline, Crash, Finish, FailRemoval, Audited, Exit, Goto, Pinned,
                BinsOf
  <2>3. CASE Gate(p) \/ Read(p) \/ Audit(p) \/ Pick(p) \/ PickRemoval(p)
    BY <2>3 DEF Gate, Read, Audit, Pick, PickRemoval, Exit, Goto, member, Pinned,
                BinsOf
  <2>4. CASE Build(p)
    <3>1. /\ pc'[p] = "door" /\ UNCHANGED <<manifest, cur>>
          /\ \A q \in Procs \ {p} : pc'[q] = pc[q] /\ new'[q] = new[q]
      BY <2>4 DEF Build, Goto
    <3> QED BY <2>4, <3>1, BuildSettles DEF Pinned, BinsOf
  <2>5. CASE Miss(p) \/ RolledBack(p)
    BY <2>5 DEF Miss, RolledBack, NextMember, Goto, Pinned, BinsOf
  <2>6. CASE Door(p) \/ Place(p) \/ Placed(p) \/ RemoveFile(p) \/ Fail(p) \/ Rollback(p)
    BY <2>6 DEF Door, Place, Placed, RemoveFile, Fail, Rollback, Goto, Pinned, BinsOf
  <2>7. CASE Commit(p) \/ CommitRemoval(p)
    BY <2>7 DEF Commit, CommitRemoval, NextMember, Goto
  <2>8. CASE SetPinned(p)
    BY <2>8 DEF SetPinned, Exit, Goto
  <2> QED
    BY <1>2, <2>1, <2>2, <2>3, <2>4, <2>5, <2>6, <2>7, <2>8 DEF Proc, Work
<1>3. CASE World
  BY <1>3 DEF World, Publish, ForeignFile, CleanLeftover, member, Pinned, BinsOf
<1> QED BY <1>1, <1>2, <1>3 DEF Next

-----------------------------------------------------------------------------
(* Types.                                                                  *)

\* Every store writes a manifest.
LEMMA CommitType ==
  ASSUME IInv, NEW p \in Procs, Commit(p) \/ CommitRemoval(p) \/ SetPinned(p)
  PROVE  manifest' \in Manifests
<1>1. mem[p] \in Manifests /\ manifest \in Manifests
  BY DEF IInv, TypeOK, SharedTypeOK, CommandTypeOK
<1>2. CASE Commit(p)
  <2>1. new[p] \in Entries /\ manifest' = [mem[p] EXCEPT ![cur[p]] = new[p]]
    BY <1>2 DEF Commit, IInv, PendingInv
  <2> QED BY <1>1, <2>1 DEF Manifests
<1>3. CASE CommitRemoval(p)
  BY <1>1, <1>3 DEF CommitRemoval
<1>4. CASE SetPinned(p)
  <2>1. pc[p] = "pin" /\ mem[p] = manifest /\ todo[p] \subseteq Installed(manifest)
    BY <1>4 DEF SetPinned, IInv, MemoryInv, Fresh, PlanInv
  <2>2. \A c \in todo[p], bit \in BOOLEAN :
          c \in Crates /\ [manifest[c] EXCEPT !.pinned = bit] \in Entries
    BY <1>1, <2>1 DEF Installed, Manifests, Entries
  <2>3. CASE UNCHANGED manifest
    BY <1>1, <2>3
  <2>4. CASE \E bit \in BOOLEAN :
               manifest' = [c \in Crates |-> IF c \in todo[p]
                                            THEN [mem[p][c] EXCEPT !.pinned = bit]
                                            ELSE mem[p][c]]
    BY <1>1, <2>1, <2>2, <2>4 DEF Manifests
  <2> QED BY <1>4, <2>3, <2>4 DEF SetPinned
<1> QED BY <1>2, <1>3, <1>4

\* A process that ends leaves well-typed blanks behind.
LEMMA ExitCommandType ==
  ASSUME CommandTypeOK, NEW p \in Procs, Exit(p)
  PROVE  CommandTypeOK'
<1>1. /\ NoManifest \in Manifests /\ NoVersions \in [Crates -> 0 .. MaxVersion]
      /\ "verify" \in Verbs /\ "idle" \in Steps
  BY PrefixAssumption
  DEF NoManifest, NoVersions, Manifests, PrefixAssumption, Verbs, Steps
<1>2. /\ pc' \in [Procs -> Steps] /\ verb' \in [Procs -> Verbs]
      /\ want' \in [Procs -> [Crates -> 0 .. MaxVersion]]
  BY <1>1 DEF Exit, Goto, CommandTypeOK
<1>3. lk' \in [Procs -> BOOLEAN] /\ todo' \in [Procs -> SUBSET Crates]
  BY DEF Exit, CommandTypeOK
<1>4. snap' \in [Procs -> Manifests] /\ mem' \in [Procs -> Manifests]
  BY <1>1 DEF Exit, CommandTypeOK
<1> QED BY <1>2, <1>3, <1>4 DEF CommandTypeOK

LEMMA CommandTypeStep ==
  ASSUME IInv, [Next]_vars
  PROVE  CommandTypeOK'
<1>. /\ Menu \in [Procs -> SUBSET Verbs] /\ LockedChoices \subseteq BOOLEAN
     /\ CommandTypeOK /\ manifest \in Manifests
  BY PrefixAssumption DEF PrefixAssumption, IInv, TypeOK, SharedTypeOK
<1> USE DEF CommandTypeOK
<1>1. CASE UNCHANGED vars
  BY <1>1 DEF vars, request
<1>2. ASSUME NEW p \in Procs, Proc(p) PROVE CommandTypeOK'
  <2> DEFINE OnlyControl == \E step \in Steps :
                              Goto(p, step) /\ UNCHANGED <<request, mem, todo>>
  <2>1. CASE StartDirect(p)
    <3>1. PICK v \in Verbs, S \in SUBSET Crates :
            /\ verb' = [verb EXCEPT ![p] = v] /\ todo' = [todo EXCEPT ![p] = S]
            /\ IF v = "install"
               THEN /\ \E w \in [Crates -> 0 .. MaxVersion] :
                         want' = [want EXCEPT ![p] = w]
                    /\ \E l \in BOOLEAN : lk' = [lk EXCEPT ![p] = l]
               ELSE UNCHANGED <<want, lk>>
      BY <2>1 DEF StartDirect
    <3>2. Goto(p, "gate") /\ UNCHANGED <<snap, mem>>
      BY <2>1 DEF StartDirect, TakeLock
    <3> QED BY <3>1, <3>2 DEF Goto, Steps, Locked
  <2>2. CASE StartReading(p)
    BY <2>2 DEF StartReading, Goto, Steps, Locked
  <2>3. CASE Plan(p)
    <3>1. PICK S \in SUBSET Installed(manifest) :
            /\ todo' = [todo EXCEPT ![p] = S]
            /\ snap' = [snap EXCEPT ![p] =
                         [c \in Crates |-> IF c \in S THEN manifest[c] ELSE NoEntry]]
            /\ \/ UNCHANGED want
               \/ \E c \in S, v \in Versions : want' = [want EXCEPT ![p][c] = v]
      BY <2>3 DEF Plan
    <3>2. Goto(p, "confirm") /\ UNCHANGED <<verb, lk, mem>>
      BY <2>3 DEF Plan
    <3>3. S \in SUBSET Crates /\ Versions \subseteq 0 .. MaxVersion
      BY DEF Installed, Versions
    <3>4. [c \in Crates |-> IF c \in S THEN manifest[c] ELSE NoEntry] \in Manifests
      BY DEF Manifests
    <3>5. want' \in [Procs -> [Crates -> 0 .. MaxVersion]]
      <4>1. CASE UNCHANGED want
        BY <4>1
      <4>2. ASSUME NEW c \in S, NEW v \in Versions, want' = [want EXCEPT ![p][c] = v]
            PROVE  want' \in [Procs -> [Crates -> 0 .. MaxVersion]]
        <5>1. [want[p] EXCEPT ![c] = v] \in [Crates -> 0 .. MaxVersion]
          BY <3>3
        <5> QED BY <4>2, <5>1
      <4> QED BY <3>1, <4>1, <4>2
    <3>6. snap' \in [Procs -> Manifests] /\ todo' \in [Procs -> SUBSET Crates]
      BY <3>1, <3>3, <3>4
    <3> QED BY <3>2, <3>5, <3>6 DEF Goto, Steps, Locked
  <2>4. CASE Decline(p) \/ Crash(p) \/ Finish(p) \/ FailRemoval(p) \/ Audited(p)
              \/ SetPinned(p)
    <3>1. Exit(p)
      BY <2>4 DEF Decline, Crash, Finish, FailRemoval, Audited, SetPinned
    <3> QED BY <3>1, ExitCommandType
  <2>5. CASE Gate(p)
    <3>1. CASE Admitted(p)
      <4>1. /\ mem' = [mem EXCEPT ![p] = manifest]
            /\ snap' = [snap EXCEPT ![p] = manifest] \/ UNCHANGED snap
            /\ UNCHANGED <<verb, want, lk, todo>>
        BY <2>5, <3>1 DEF Gate
      <4>2. pc' \in [Procs -> Steps]
        BY <2>5, <3>1 DEF Gate, Goto, Steps, Locked
      <4> QED BY <4>1, <4>2
    <3>2. CASE ~Admitted(p)
      <4>1. Exit(p)
        BY <2>5, <3>2 DEF Gate
      <4> QED BY <4>1, ExitCommandType
    <3> QED BY <3>1, <3>2
  <2>6. CASE Confirm(p) \/ Build(p) \/ Miss(p) \/ Door(p) \/ Placed(p) \/ Fail(p)
              \/ RolledBack(p)
    <3>1. OnlyControl
      BY <2>6 DEF Confirm, TakeLock, Build, Miss, Door, Placed, Fail, RolledBack,
                  NextMember, Steps, Locked
    <3> QED BY <3>1 DEF Goto, request
  <2>7. CASE Place(p) \/ RemoveFile(p) \/ Rollback(p)
    BY <2>7 DEF Place, RemoveFile, Rollback, request
  <2>8. CASE Pick(p)
    BY <2>8 DEF Pick, Goto, Steps, Locked, request
  <2>9. CASE Commit(p)
    <3>1. mem[p] \in Manifests /\ manifest' \in Manifests
      BY <2>9, CommitType
    <3> QED BY <2>9, <3>1 DEF Commit, NextMember, Goto, Steps, Locked, request
  <2>10. CASE PickRemoval(p)
    <3>1. PICK c \in todo[p] :
            /\ todo' = [todo EXCEPT ![p] = @ \ {c}]
            /\ \/ mem' = [mem EXCEPT ![p][c] = NoEntry] /\ Goto(p, "rm")
               \/ UNCHANGED <<mem, pc>>
      BY <2>10 DEF PickRemoval
    <3>2. [mem[p] EXCEPT ![c] = NoEntry] \in Manifests
      BY DEF Manifests
    <3>3. UNCHANGED request
      BY <2>10 DEF PickRemoval
    <3> QED BY <3>1, <3>2, <3>3 DEF Goto, Steps, Locked, request
  <2>11. CASE CommitRemoval(p)
    BY <2>11 DEF CommitRemoval, NextMember, Goto, Steps, Locked, request
  <2>12. CASE Read(p)
    <3>1. Installed(manifest) \in SUBSET Crates
      BY DEF Installed
    <3> QED BY <2>12, <3>1 DEF Read, Goto, Steps, request
  <2>13. CASE Audit(p)
    BY <2>13 DEF Audit, request
  <2> QED
    BY <1>2, <2>1, <2>2, <2>3, <2>4, <2>5, <2>6, <2>7, <2>8, <2>9, <2>10, <2>11,
       <2>12, <2>13 DEF Proc, Work
<1>3. CASE World
  BY <1>3 DEF World, Publish, ForeignFile, CleanLeftover, request
<1> QED BY <1>1, <1>2, <1>3 DEF Next

LEMMA MemberTypeStep ==
  ASSUME IInv, [Next]_vars
  PROVE  MemberTypeOK'
<1>. MemberTypeOK /\ todo \in [Procs -> SUBSET Crates] /\ manifest \in Manifests
     /\ mem \in [Procs -> Manifests]
  BY DEF IInv, TypeOK, SharedTypeOK, CommandTypeOK
<1>a. NoNew \in Pending
  BY PrefixAssumption DEF PrefixAssumption, NoNew, Pending, Versions
<1>b. \A m \in Manifests, c \in Crates : BinsOf(m, c) \in SUBSET Bins
  BY DEF BinsOf, Manifests, Entries
<1> USE DEF MemberTypeOK
<1>1. CASE UNCHANGED vars
  BY <1>1 DEF vars, member
<1>2. ASSUME NEW p \in Procs, Proc(p) PROVE MemberTypeOK'
  <2>1. CASE StartDirect(p) \/ StartReading(p) \/ Plan(p) \/ Confirm(p) \/ Read(p)
    BY <2>1 DEF StartDirect, StartReading, Plan, Confirm, Read, member
  <2>2. CASE Decline(p) \/ Crash(p) \/ Finish(p) \/ FailRemoval(p) \/ Audited(p)
              \/ SetPinned(p)
    BY <1>a, <2>2 DEF Decline, Crash, Finish, FailRemoval, Audited, SetPinned, Exit
  <2>3. CASE Gate(p)
    BY <1>a, <2>3 DEF Gate, Exit, member
  <2>4. CASE Pick(p)
    BY <2>4 DEF Pick
  <2>5. CASE Build(p)
    <3>1. new'[p] \in Entries
      BY <2>5, BuildSettles DEF IInv
    <3>2. new'[p] \in Pending
      BY <3>1 DEF Entries, Pending
    <3> QED BY <2>5, <3>2 DEF Build
  <2>6. CASE Miss(p) \/ RolledBack(p) \/ Commit(p) \/ CommitRemoval(p)
    BY <1>a, <2>6 DEF Miss, RolledBack, Commit, CommitRemoval, NextMember
  <2>7. CASE Door(p)
    BY <2>7 DEF Door, Pending
  <2>8. CASE Placed(p)
    <3>1. /\ left' = [left EXCEPT ![p] = Obsolete(BinsOf(mem[p], cur[p]), new[p].bins)]
          /\ UNCHANGED <<cur, new, placed, bad>> /\ cur[p] \in Crates
      BY <2>8 DEF Placed, IInv, MemberInv, InHand
    <3>2. Obsolete(BinsOf(mem[p], cur[p]), new[p].bins) \in SUBSET Bins
      BY <1>b, <3>1 DEF Obsolete
    <3> QED BY <3>1, <3>2
  <2>9. CASE Place(p)
    BY <2>9 DEF Place
  <2>10. CASE RemoveFile(p) \/ Rollback(p)
    BY <2>10 DEF RemoveFile, Rollback
  <2>11. CASE Fail(p)
    BY <2>11 DEF Fail
  <2>12. CASE PickRemoval(p)
    <3>1. PICK c \in todo[p] :
            \/ cur' = [cur EXCEPT ![p] = c] /\ left' = [left EXCEPT ![p] = BinsOf(mem[p], c)]
            \/ UNCHANGED <<cur, left>>
      BY <2>12 DEF PickRemoval
    <3>2. BinsOf(mem[p], c) \in SUBSET Bins /\ c \in Crates
      BY <1>b
    <3> QED BY <2>12, <3>1, <3>2 DEF PickRemoval
  <2>13. CASE Audit(p)
    BY <2>13 DEF Audit, member
  <2> QED
    BY <1>2, <2>1, <2>2, <2>3, <2>4, <2>5, <2>6, <2>7, <2>8, <2>9, <2>10, <2>11,
       <2>12, <2>13 DEF Proc, Work
<1>3. CASE World
  BY <1>3 DEF World, Publish, ForeignFile, CleanLeftover, member
<1> QED BY <1>1, <1>2, <1>3 DEF Next

LEMMA SharedTypeStep ==
  ASSUME IInv, [Next]_vars
  PROVE  SharedTypeOK'
<1>. /\ SharedTypeOK /\ cur \in [Procs -> Crates \cup {NoCrate}]
     /\ left \in [Procs -> SUBSET Bins] /\ placed \in [Procs -> SUBSET Bins]
  BY DEF IInv, TypeOK, MemberTypeOK
<1>a. \A p \in Procs : pc[p] \in InHand => cur[p] \in Crates
  BY DEF IInv, MemberInv
<1> USE DEF SharedTypeOK
<1>1. CASE UNCHANGED vars
  BY <1>1 DEF vars, lockVars, ghosts
<1>2. ASSUME NEW p \in Procs, Proc(p) PROVE SharedTypeOK'
  <2>1. CASE StartDirect(p) \/ StartReading(p) \/ Plan(p) \/ Confirm(p)
    BY <2>1 DEF StartDirect, StartReading, Plan, Confirm, TakeLock, lockVars, ghosts
  <2>2. CASE Decline(p) \/ Finish(p) \/ FailRemoval(p) \/ Audited(p) \/ Gate(p)
    BY <2>2 DEF Decline, Finish, FailRemoval, Audited, Gate, Unlock, lockVars, ghosts
  <2>3. CASE Crash(p)
    BY <2>3 DEF Crash, Unlock, lockVars
  <2>4. CASE Read(p) \/ Audit(p) \/ Pick(p) \/ PickRemoval(p)
    BY <2>4 DEF Read, Audit, Pick, PickRemoval, lockVars, ghosts
  <2>5. CASE Build(p) \/ Miss(p) \/ Door(p) \/ Placed(p) \/ Fail(p) \/ RolledBack(p)
    BY <2>5 DEF Build, Miss, Door, Placed, Fail, RolledBack, NextMember, lockVars, ghosts
  <2>6. CASE Place(p)
    <3>1. [crate |-> cur[p], version |-> new[p].version] \in Files
      BY <1>a, <2>6 DEF Place, InHand, Files, IInv, PendingInv, Entries
    <3> QED BY <1>a, <2>6, <3>1 DEF Place, InHand, lockVars
  <2>7. CASE RemoveFile(p)
    BY <1>a, <2>7 DEF RemoveFile, InHand, lockVars
  <2>8. CASE Rollback(p)
    BY <2>8 DEF Rollback, lockVars
  <2>9. CASE Commit(p) \/ CommitRemoval(p)
    BY <2>9, CommitType DEF Commit, CommitRemoval, NextMember, lockVars
  <2>10. CASE SetPinned(p)
    BY <2>10, CommitType DEF SetPinned, Unlock, ghosts
  <2> QED
    BY <1>2, <2>1, <2>2, <2>3, <2>4, <2>5, <2>6, <2>7, <2>8, <2>9, <2>10
    DEF Proc, Work
<1>3. CASE World
  <2>1. CASE \E c \in Crates : Publish(c)
    BY <2>1, PrefixAssumption DEF Publish, Versions, PrefixAssumption, lockVars, ghosts
  <2>2. CASE \E b \in Bins : ForeignFile(b)
    BY <2>2 DEF ForeignFile, lockVars, ghosts
  <2>3. CASE \E b \in Bins : CleanLeftover(b)
    BY <2>3 DEF CleanLeftover, lockVars
  <2> QED BY <1>3, <2>1, <2>2, <2>3 DEF World
<1> QED BY <1>1, <1>2, <1>3 DEF Next

-----------------------------------------------------------------------------
(* The invariant.                                                          *)

\* Only three steps write the manifest.
LEMMA ManifestWriters ==
  ASSUME [Next]_vars
  PROVE  \/ UNCHANGED manifest
         \/ \E p \in Procs : Commit(p) \/ CommitRemoval(p) \/ SetPinned(p)
<1>1. CASE UNCHANGED vars
  BY <1>1 DEF vars
<1>2. ASSUME NEW p \in Procs, Proc(p)
      PROVE  UNCHANGED manifest \/ Commit(p) \/ CommitRemoval(p) \/ SetPinned(p)
  BY <1>2 DEF Proc, Work, StartDirect, StartReading, Plan, Decline, Confirm, Read,
     Crash, Gate, Pick, Finish, Build, Miss, Door, Place, Placed, RemoveFile, Fail,
     Rollback, RolledBack, PickRemoval, FailRemoval, Audit, Audited
<1>3. CASE World
  BY <1>3 DEF World, Publish, ForeignFile, CleanLeftover
<1> QED BY <1>1, <1>2, <1>3 DEF Next

LEMMA ValidStep ==
  ASSUME IInv, [Next]_vars
  PROVE  Valid(manifest)'
<1>. manifest \in Manifests /\ Valid(manifest) /\ MemoryInv /\ PlanInv
  BY DEF IInv, TypeOK, SharedTypeOK
<1>1. CASE UNCHANGED manifest
  BY <1>1 DEF Valid, BinsOf
<1>2. ASSUME NEW p \in Procs, Commit(p) \/ CommitRemoval(p) PROVE Valid(manifest)'
  BY <1>2 DEF Commit, CommitRemoval, Valid, BinsOf
<1>3. ASSUME NEW p \in Procs, SetPinned(p) PROVE Valid(manifest)'
  BY <1>1, <1>3 DEF SetPinned, Valid, BinsOf
<1> QED BY <1>1, <1>2, <1>3, ManifestWriters

LEMMA InitIInv == Init => IInv
<1>. SUFFICES ASSUME Init PROVE IInv
  OBVIOUS
<1>1. SharedTypeOK
  <2>1. manifest \in Manifests
    BY DEF Init, NoManifest, Manifests
  <2>2. newest \in [Crates -> Versions]
    BY PrefixAssumption DEF Init, PrefixAssumption, Versions
  <2>3. disk \in [Bins -> Files \cup {Absent, Foreign}]
    BY DEF Init
  <2> QED BY <2>1, <2>2, <2>3 DEF Init, SharedTypeOK
<1>2. CommandTypeOK
  BY PrefixAssumption
  DEF Init, CommandTypeOK, NoManifest, NoVersions, Manifests, PrefixAssumption, Steps, Verbs
<1>3. MemberTypeOK
  BY PrefixAssumption
  DEF Init, MemberTypeOK, NoNew, Pending, PrefixAssumption, Versions
<1>4. LockInv /\ MemoryInv /\ MemberInv /\ PlanInv /\ BuildInv /\ PendingInv
  BY PrefixAssumption
  DEF Init, LockInv, MemoryInv, MemberInv, PlanInv, BuildInv, PendingInv, Locked,
      Fresh, InHand, PrefixAssumption
<1>5. Valid(manifest)
  BY DEF Init, Valid, BinsOf, NoManifest
<1> QED BY <1>1, <1>2, <1>3, <1>4, <1>5 DEF IInv, TypeOK

LEMMA StepIInv == IInv /\ [Next]_vars => IInv'
BY LockStep, MemoryStep, MemberStep, PlanStep, BuildStep, PendingStep,
   SharedTypeStep, CommandTypeStep, MemberTypeStep, ValidStep DEF IInv, TypeOK

\* IInv is an invariant of every run of the prefix, for any crates, releases
\* and processes.
THEOREM InductiveInvariant == Spec => []IInv
BY InitIInv, StepIInv, PTL DEF Spec

\* Every variable has its type in every reachable state, so no step of an
\* operation reads an entry, a plan or a member that is not there.
THEOREM TypeCorrect == Spec => []TypeOK
<1>1. IInv => TypeOK
  BY DEF IInv
<1> QED BY <1>1, InductiveInvariant, PTL

\* The manifest a process would store is the one on disk: with the lock held from
\* the load to the last store and the restore in commit_entry, no commit of
\* another process or of an earlier member is lost, for any number of processes.
THEOREM NoLostCommit == Spec => []MemoryFresh
<1>1. IInv => MemoryFresh
  BY DEF IInv, MemoryInv, MemoryFresh, Fresh
<1> QED BY <1>1, InductiveInvariant, PTL

\* From the moment a member's files may be placed, the store that ends it cannot
\* be refused for a binary with two owners.
THEOREM StoresAccepted == Spec => []StoreAccepted
<1>1. ASSUME IInv PROVE StoreAccepted
  <2> SUFFICES ASSUME NEW p \in Procs, pc[p] \in {"door", "place", "obsolete"}
               PROVE  Valid([mem[p] EXCEPT ![cur[p]] = new[p]])
    BY DEF StoreAccepted
  <2> DEFINE m == [manifest EXCEPT ![cur[p]] = new[p]]
  <2>1. /\ mem[p] = manifest /\ manifest \in Manifests /\ cur[p] \in Crates
        /\ new[p] \in Entries /\ Valid(manifest)
        /\ \A d \in Crates \ {cur[p]} : new[p].bins \cap BinsOf(manifest, d) = {}
    BY <1>1 DEF IInv, MemoryInv, Fresh, TypeOK, SharedTypeOK, MemberInv, InHand,
                PendingInv
  <2>2. /\ \A d \in Crates \ {cur[p]} : BinsOf(m, d) = BinsOf(manifest, d)
        /\ BinsOf(m, cur[p]) = new[p].bins
    BY <2>1, SentinelAssumption DEF BinsOf, Manifests, SentinelAssumption
  <2> HIDE DEF m
  <2>3. ASSUME NEW c \in Crates, NEW d \in Crates, c # d
        PROVE  BinsOf(m, c) \cap BinsOf(m, d) = {}
    <3>1. CASE c = cur[p]
      <4>1. BinsOf(m, d) = BinsOf(manifest, d) /\ BinsOf(m, c) = new[p].bins
        BY <2>2, <2>3, <3>1
      <4>2. new[p].bins \cap BinsOf(manifest, d) = {}
        BY <2>1, <2>3, <3>1
      <4> QED BY <4>1, <4>2
    <3>2. CASE d = cur[p]
      <4>1. BinsOf(m, c) = BinsOf(manifest, c) /\ BinsOf(m, d) = new[p].bins
        BY <2>2, <2>3, <3>2
      <4>2. new[p].bins \cap BinsOf(manifest, c) = {}
        BY <2>1, <2>3, <3>2
      <4> QED BY <4>1, <4>2
    <3>3. CASE c # cur[p] /\ d # cur[p]
      BY <2>1, <2>2, <2>3, <3>3 DEF Valid
    <3> QED BY <3>1, <3>2, <3>3
  <2> QED BY <2>1, <2>3 DEF Valid, m
<1> QED BY <1>1, InductiveInvariant, PTL

-----------------------------------------------------------------------------
(* The manifest's own specification.                                       *)

\* What a step may do to the manifest on disk.
LEMMA ManifestMoves ==
  ASSUME IInv, [Next]_vars
  PROVE  \/ UNCHANGED manifest
         \/ \E c \in Crates, e \in Entries : Abstract!CommitEntry(c, e)
         \/ \E c \in Crates : Abstract!DropEntry(c)
         \/ \E p \in Procs : /\ lockEx = p /\ verb[p] \in Pinners
                            /\ Abstract!SetPins(todo[p], verb[p] = "pin")
<1>. manifest \in Manifests
  BY DEF IInv, TypeOK, SharedTypeOK
<1>1. ASSUME NEW p \in Procs, Commit(p)
      PROVE  Abstract!CommitEntry(cur[p], new[p]) /\ cur[p] \in Crates /\ new[p] \in Entries
  <2>1. /\ cur[p] \in Crates /\ new[p] \in Entries /\ mem[p] = manifest
        /\ \A d \in Crates \ {cur[p]} : new[p].bins \cap BinsOf(manifest, d) = {}
        /\ Pinned(manifest, cur[p]) =>
             new[p].pinned /\ new[p].version = manifest[cur[p]].version
    BY <1>1 DEF Commit, IInv, MemoryInv, Fresh, MemberInv, InHand, PendingInv
  <2>2. manifest' = [manifest EXCEPT ![cur[p]] = new[p]]
    BY <1>1, <2>1 DEF Commit
  <2> QED BY <2>1, <2>2 DEF Abstract!CommitEntry, Abstract!BinsOf, BinsOf, Pinned
<1>2. ASSUME NEW p \in Procs, CommitRemoval(p)
      PROVE  cur[p] \in Crates /\ Abstract!DropEntry(cur[p])
  BY <1>2 DEF CommitRemoval, IInv, MemoryInv, Installed, Abstract!DropEntry
<1>3. ASSUME NEW p \in Procs, SetPinned(p), manifest' # manifest
      PROVE  /\ lockEx = p /\ verb[p] \in Pinners
             /\ Abstract!SetPins(todo[p], verb[p] = "pin")
  <2>1. /\ lockEx = p /\ mem[p] = manifest /\ todo[p] \subseteq Installed(manifest)
        /\ verb[p] \in Pinners
    BY <1>3 DEF SetPinned, IInv, LockInv, Locked, MemoryInv, Fresh, PlanInv, Pinners
  <2> QED BY <1>3, <2>1 DEF SetPinned, Installed, Abstract!SetPins
<1> QED BY <1>1, <1>2, <1>3, ManifestWriters

\* The prefix implements the manifest's specification: whatever the processes
\* do, fail at, or are killed in, the manifest on disk only sees commits that
\* respect ownership and pins, removals, and pin changes.
THEOREM Refinement == Spec => ImplementsManifestSpec
<1>1. Init => Abstract!Init
  BY DEF Init, Abstract!Init, NoManifest
<1>2. IInv /\ [Next]_vars => [Abstract!Next]_manifest
  <2> SUFFICES ASSUME IInv, [Next]_vars PROVE [Abstract!Next]_manifest
    OBVIOUS
  <2>1. \A p \in Procs : todo[p] \in SUBSET Crates
    BY DEF IInv, TypeOK, CommandTypeOK
  <2> QED BY <2>1, ManifestMoves DEF Abstract!Next
<1> QED BY <1>1, <1>2, InductiveInvariant, PTL DEF Spec, ImplementsManifestSpec, Abstract!Spec

\* A pin holds against everything but `unpin` and `remove`.
THEOREM PinsHold == Spec => PinHolds
<1> DEFINE Holds(c) ==
      Pinned(manifest, c) =>
        \/ manifest'[c] = NoEntry
        \/ /\ manifest'[c].version = manifest[c].version
           /\ \/ manifest'[c].pinned
              \/ \E p \in Procs : lockEx = p /\ verb[p] = "unpin"
<1>1. IInv /\ [Next]_vars => \A c \in Crates : Holds(c)
  <2> SUFFICES ASSUME IInv, [Next]_vars, NEW c \in Crates PROVE Holds(c)
    OBVIOUS
  <2>. manifest \in Manifests
    BY DEF IInv, TypeOK, SharedTypeOK
  <2>1. CASE UNCHANGED manifest
    BY <2>1 DEF Pinned
  <2>2. ASSUME NEW d \in Crates, NEW e \in Entries, Abstract!CommitEntry(d, e)
        PROVE  Holds(c)
    BY <2>2 DEF Abstract!CommitEntry, Pinned, Manifests
  <2>3. ASSUME NEW d \in Crates, Abstract!DropEntry(d) PROVE Holds(c)
    BY <2>3 DEF Abstract!DropEntry, Pinned, Manifests
  <2>4. ASSUME NEW p \in Procs, lockEx = p, verb[p] \in Pinners,
               Abstract!SetPins(todo[p], verb[p] = "pin")
        PROVE  Holds(c)
    <3>1. CASE c \notin todo[p]
      BY <2>4, <3>1 DEF Abstract!SetPins, Pinned
    <3>2. CASE c \in todo[p] /\ Pinned(manifest, c)
      <4>1. manifest[c] \in Entries
        BY <3>2 DEF Pinned, Manifests
      <4>2. manifest'[c] = [manifest[c] EXCEPT !.pinned = (verb[p] = "pin")]
        BY <2>4, <3>2 DEF Abstract!SetPins
      <4>3. /\ manifest'[c].version = manifest[c].version
            /\ manifest'[c].pinned = (verb[p] = "pin")
        BY <4>1, <4>2 DEF Entries
      <4> QED BY <2>4, <4>3 DEF Pinners
    <3> QED BY <3>1, <3>2
  <2> QED BY <2>1, <2>2, <2>3, <2>4, ManifestMoves
<1> QED BY <1>1, InductiveInvariant, PTL DEF Spec, PinHolds

=============================================================================
