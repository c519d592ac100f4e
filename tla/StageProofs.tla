----------------------------- MODULE StageProofs ----------------------------
(***************************************************************************)
(* Proofs about the stage directories, for any number of installs, cleans  *)
(* and descendants: nothing is removed under a writer, no debris becomes   *)
(* invisible, and clean's summary is true.                                 *)
(***************************************************************************)
EXTENDS StageProps, TLAPS

-----------------------------------------------------------------------------
(* What once holds of a run holds for good.                                *)

\* The steps of an install and of a clean stay their own.
LEMMA StepStep ==
  ASSUME TypeOK, StepInv, [Next]_vars
  PROVE  StepInv'
<1>. pc \in [Actors -> Steps] /\ Runs \cap Cleaners = {}
  BY StageAssumption DEF TypeOK, DiskTypeOK, LockTypeOK, ProcessTypeOK, StageAssumption
<1> USE DEF StepInv, Actors, Steps, Working, Taking, Removing, Looking
<1>1. CASE UNCHANGED vars
  BY <1>1 DEF vars
<1>2. ASSUME NEW r \in Runs, Install(r) PROVE StepInv'
  <2>1. CASE MakeDir(r) \/ Prepare(r) \/ Publish(r) \/ Demolish(r) \/ MakeStage(r)
    BY <2>1 DEF MakeDir, Prepare, Publish, Demolish, MakeStage, Goto
  <2>2. CASE StageFails(r) \/ Spawn(r) \/ Reap(r) \/ WaitFails(r) \/ ScratchGranted(r)
    BY <2>2 DEF StageFails, Spawn, Reap, WaitFails, ScratchGranted, Keep, Goto
  <2>3. CASE Vetoed(r) \/ RemoveScratch(r) \/ Judge(r) \/ StartHelper(r) \/ Place(r)
              \/ Release(r)
    BY <2>3 DEF Vetoed, RemoveScratch, Judge, StartHelper, Place, Release, Keep, Goto
  <2> QED BY <1>2, <2>1, <2>2, <2>3 DEF Install
<1>3. ASSUME NEW r \in Runs, ScratchUnopened(r) \/ Fork(r) \/ ChildExits(r)
      PROVE StepInv'
  BY <1>3 DEF ScratchUnopened, Fork, ChildExits, Goto
<1>4. ASSUME NEW a \in Actors, Removal(a) \/ Crash(a) PROVE StepInv'
  BY <1>4 DEF Removal, TakeOpen, TakeLock, TakeRefused, RemovePayload, UnlinkLease,
              RemoveDir, Crash, Done, Goto
<1>5. ASSUME NEW q \in Cleaners, Look(q) PROVE StepInv'
  BY <1>5 DEF Look, Scan, ProbeOpen, ProbeLock, ProbeClose, Scanned, NextCandidate,
              Summarize, Goto
<1> QED BY <1>1, <1>2, <1>3, <1>4, <1>5 DEF Next

\* No install begins its run again.
LEMMA EarlyOnce ==
  ASSUME TypeOK, StepInv, [Next]_vars, NEW r \in Runs, pc[r] \notin Early
  PROVE  pc'[r] \notin Early
<1>. pc \in [Actors -> Steps] /\ Runs \cap Cleaners = {} /\ r \in Actors
  BY StageAssumption DEF TypeOK, DiskTypeOK, LockTypeOK, ProcessTypeOK, StageAssumption, Actors
<1> USE DEF StepInv, Early, Steps, Working, Taking, Removing, Looking
<1>1. CASE UNCHANGED vars
  BY <1>1 DEF vars
<1>2. ASSUME NEW s \in Runs, Install(s) PROVE pc'[r] \notin Early
  <2>1. CASE MakeDir(s) \/ Prepare(s) \/ Publish(s) \/ Demolish(s) \/ MakeStage(s)
    BY <2>1 DEF MakeDir, Prepare, Publish, Demolish, MakeStage, Goto
  <2>2. CASE StageFails(s) \/ Spawn(s) \/ Reap(s) \/ WaitFails(s) \/ ScratchGranted(s)
    BY <2>2 DEF StageFails, Spawn, Reap, WaitFails, ScratchGranted, Keep, Goto
  <2>3. CASE Vetoed(s) \/ RemoveScratch(s) \/ Judge(s) \/ StartHelper(s) \/ Place(s)
              \/ Release(s)
    BY <2>3 DEF Vetoed, RemoveScratch, Judge, StartHelper, Place, Release, Keep, Goto
  <2> QED BY <1>2, <2>1, <2>2, <2>3 DEF Install
<1>3. ASSUME NEW s \in Runs, ScratchUnopened(s) \/ Fork(s) \/ ChildExits(s)
      PROVE pc'[r] \notin Early
  BY <1>3 DEF ScratchUnopened, Fork, ChildExits, Goto
<1>4. ASSUME NEW a \in Actors, Removal(a) \/ Crash(a) PROVE pc'[r] \notin Early
  BY <1>4 DEF Removal, TakeOpen, TakeLock, TakeRefused, RemovePayload, UnlinkLease,
              RemoveDir, Crash, Done, Goto
<1>5. ASSUME NEW q \in Cleaners, Look(q) PROVE pc'[r] \notin Early
  <2>1. \A s \in Runs : pc'[s] = pc[s]
    BY <1>5 DEF Look, Scan, ProbeOpen, ProbeLock, ProbeClose, Scanned, NextCandidate,
                Summarize, Goto, Actors
  <2> QED BY <2>1
<1> QED BY <1>1, <1>2, <1>3, <1>4, <1>5 DEF Next

\* A run that is nobody's stays nobody's.
LEMMA OwnerlessForGood ==
  ASSUME TypeOK, StepInv, [Next]_vars, NEW r \in Runs, Ownerless(r)
  PROVE  Ownerless(r)'
<1>. /\ pc \in [Actors -> Steps] /\ Runs \cap Cleaners = {} /\ r \in Actors
     /\ alive \in [Runs -> SUBSET Family]
  BY StageAssumption DEF TypeOK, DiskTypeOK, LockTypeOK, ProcessTypeOK, StageAssumption, Actors
<1> USE DEF StepInv, Ownerless, Relinquished, Steps, Working, Taking, Removing, Looking
<1>1. CASE UNCHANGED vars
  BY <1>1 DEF vars
<1>2. ASSUME NEW s \in Runs, Install(s) PROVE Ownerless(r)'
  <2>1. CASE MakeDir(s) \/ Prepare(s) \/ Publish(s) \/ Demolish(s) \/ MakeStage(s)
    BY <2>1 DEF MakeDir, Prepare, Publish, Demolish, MakeStage, Goto
  <2>2. CASE StageFails(s) \/ Spawn(s) \/ Reap(s) \/ WaitFails(s) \/ ScratchGranted(s)
    BY <2>2 DEF StageFails, Spawn, Reap, WaitFails, ScratchGranted, Keep, Goto
  <2>3. CASE Vetoed(s) \/ RemoveScratch(s) \/ Judge(s) \/ StartHelper(s) \/ Place(s)
              \/ Release(s)
    BY <2>3 DEF Vetoed, RemoveScratch, Judge, StartHelper, Place, Release, Keep, Goto
  <2> QED BY <1>2, <2>1, <2>2, <2>3 DEF Install
<1>3. ASSUME NEW s \in Runs, ScratchUnopened(s) \/ Fork(s) \/ ChildExits(s)
      PROVE Ownerless(r)'
  BY <1>3 DEF ScratchUnopened, Fork, ChildExits, Goto
<1>4. ASSUME NEW a \in Actors, Removal(a) \/ Crash(a) PROVE Ownerless(r)'
  BY <1>4 DEF Removal, TakeOpen, TakeLock, TakeRefused, RemovePayload, UnlinkLease,
              RemoveDir, Crash, Done, Goto
<1>5. ASSUME NEW q \in Cleaners, Look(q) PROVE Ownerless(r)'
  <2>1. pc'[r] = pc[r] /\ alive' = alive
    BY <1>5 DEF Look, Scan, ProbeOpen, ProbeLock, ProbeClose, Scanned, NextCandidate,
                Summarize, Goto, Actors
  <2> QED BY <2>1
<1> QED BY <1>1, <1>2, <1>3, <1>4, <1>5 DEF Next

-----------------------------------------------------------------------------
(* Who holds the locks.                                                    *)

\* The lease is held by whoever may write.
LEMMA LeaseStep ==
  ASSUME TypeOK, StepInv, LeaseInv, [Next]_vars
  PROVE  LeaseInv'
<1>. /\ pc \in [Actors -> Steps] /\ Runs \cap Cleaners = {} /\ Runs \subseteq Actors
     /\ Family \cap Actors = {} /\ Cargo \in Family /\ Descendants \subseteq Family
     /\ alive \in [Runs -> SUBSET Family]
     /\ lease \in [Runs -> SUBSET (Runs \cup Family)]
  BY StageAssumption DEF TypeOK, DiskTypeOK, LockTypeOK, ProcessTypeOK, StageAssumption, Actors, Family
<1> USE DEF StepInv, LeaseInv, Steps, Working, Taking, Removing, Looking, Early
<1>1. CASE UNCHANGED vars
  BY <1>1 DEF vars, locks
<1>2. ASSUME NEW r \in Runs, Install(r) PROVE LeaseInv'
  <2>1. CASE MakeDir(r) \/ Prepare(r) \/ Publish(r) \/ Demolish(r)
    BY <2>1 DEF MakeDir, Prepare, Publish, Demolish, Goto, locks
  <2>2. CASE MakeStage(r) \/ StageFails(r) \/ WaitFails(r)
    BY <2>2 DEF MakeStage, StageFails, WaitFails, Keep, Goto, locks
  <2>3. CASE Spawn(r) \/ StartHelper(r)
    BY <2>3 DEF Spawn, StartHelper, Goto
  <2>4. CASE Reap(r) \/ ScratchGranted(r) \/ Vetoed(r) \/ RemoveScratch(r)
    BY <2>4 DEF Reap, ScratchGranted, Vetoed, RemoveScratch, Goto, locks
  <2>5. CASE Judge(r) \/ Place(r) \/ Release(r)
    BY <2>5 DEF Judge, Place, Release, Keep, Goto
  <2> QED BY <1>2, <2>1, <2>2, <2>3, <2>4, <2>5 DEF Install
<1>3. ASSUME NEW r \in Runs, ScratchUnopened(r) PROVE LeaseInv'
  BY <1>3 DEF ScratchUnopened, Goto, locks
<1>4. ASSUME NEW r \in Runs, Fork(r) \/ ChildExits(r) PROVE LeaseInv'
  BY <1>4 DEF Fork, ChildExits
<1>5. ASSUME NEW a \in Actors, Removal(a) PROVE LeaseInv'
  <2>1. alive' = alive /\ lease' = lease
    BY <1>5 DEF Removal, TakeOpen, TakeLock, TakeRefused, RemovePayload, UnlinkLease,
                RemoveDir, locks
  <2>2. \A r \in Runs : pc'[r] = pc[r] \/ pc'[r] \in {"over"} \cup Taking
    BY <1>5 DEF Removal, TakeOpen, TakeLock, TakeRefused, RemovePayload, UnlinkLease,
                RemoveDir, Done, Goto
  <2> QED BY <2>1, <2>2
<1>6. ASSUME NEW a \in Actors, Crash(a) PROVE LeaseInv'
  BY <1>6 DEF Crash, Goto
<1>7. ASSUME NEW q \in Cleaners, Look(q) PROVE LeaseInv'
  <2>1. alive' = alive /\ lease' = lease /\ \A r \in Runs : pc'[r] = pc[r]
    BY <1>7 DEF Look, Scan, ProbeOpen, ProbeLock, ProbeClose, Scanned, NextCandidate,
                Summarize, Goto, locks, Actors
  <2> QED BY <2>1
<1> QED BY <1>1, <1>2, <1>3, <1>4, <1>5, <1>6, <1>7 DEF Next

\* The TMPDIR's lock is held by whoever may write there.
LEMMA ScratchStep ==
  ASSUME TypeOK, StepInv, ScratchInv, [Next]_vars
  PROVE  ScratchInv'
<1>. /\ pc \in [Actors -> Steps] /\ Runs \cap Cleaners = {} /\ Runs \subseteq Actors
     /\ Family \cap Actors = {} /\ Cargo \in Family /\ Descendants \subseteq Family
     /\ alive \in [Runs -> SUBSET Family]
     /\ writers \in [Runs -> SUBSET (Runs \cup Family)]
  BY StageAssumption DEF TypeOK, DiskTypeOK, LockTypeOK, ProcessTypeOK, StageAssumption, Actors, Family
<1> USE DEF StepInv, ScratchInv, Steps, Working, Taking, Removing, Looking
<1>1. CASE UNCHANGED vars
  BY <1>1 DEF vars, scratch
<1>2. ASSUME NEW r \in Runs, Install(r) PROVE ScratchInv'
  <2>1. CASE MakeDir(r) \/ Prepare(r) \/ Publish(r) \/ Demolish(r)
    BY <2>1 DEF MakeDir, Prepare, Publish, Demolish, Goto, scratch
  <2>2. CASE MakeStage(r) \/ StageFails(r) \/ WaitFails(r)
    BY <2>2 DEF MakeStage, StageFails, WaitFails, Keep, Goto, scratch
  <2>3. CASE Spawn(r) \/ StartHelper(r)
    BY <2>3 DEF Spawn, StartHelper, Goto, scratch
  <2>4. CASE Reap(r) \/ ScratchGranted(r) \/ Vetoed(r) \/ RemoveScratch(r)
    BY <2>4 DEF Reap, ScratchGranted, Vetoed, RemoveScratch, Goto, scratch
  <2>5. CASE Judge(r) \/ Place(r) \/ Release(r)
    BY <2>5 DEF Judge, Place, Release, Keep, Goto, scratch
  <2> QED BY <1>2, <2>1, <2>2, <2>3, <2>4, <2>5 DEF Install
<1>3. ASSUME NEW r \in Runs, ScratchUnopened(r) PROVE ScratchInv'
  BY <1>3 DEF ScratchUnopened, Goto, scratch
<1>4. ASSUME NEW r \in Runs, Fork(r) \/ ChildExits(r) PROVE ScratchInv'
  BY <1>4 DEF Fork, ChildExits
<1>5. ASSUME NEW a \in Actors, Removal(a) PROVE ScratchInv'
  <2>1. alive' = alive /\ writers' = writers
    BY <1>5 DEF Removal, TakeOpen, TakeLock, TakeRefused, RemovePayload, UnlinkLease,
                RemoveDir, scratch
  <2>2. \A r \in Runs : pc'[r] = pc[r] \/ pc'[r] \in {"over"} \cup Taking
    BY <1>5 DEF Removal, TakeOpen, TakeLock, TakeRefused, RemovePayload, UnlinkLease,
                RemoveDir, Done, Goto
  <2> QED BY <2>1, <2>2
<1>6. ASSUME NEW a \in Actors, Crash(a) PROVE ScratchInv'
  BY <1>6 DEF Crash, Goto
<1>7. ASSUME NEW q \in Cleaners, Look(q) PROVE ScratchInv'
  <2>1. alive' = alive /\ writers' = writers /\ \A r \in Runs : pc'[r] = pc[r]
    BY <1>7 DEF Look, Scan, ProbeOpen, ProbeLock, ProbeClose, Scanned, NextCandidate,
                Summarize, Goto, scratch, Actors
  <2> QED BY <2>1
<1> QED BY <1>1, <1>2, <1>3, <1>4, <1>5, <1>6, <1>7 DEF Next

-----------------------------------------------------------------------------
(* What a probe or a removal was granted.                                  *)

\* A run without an owner has none of the steps of an install at work.
LEMMA NotAtWork ==
  ASSUME StepInv, NEW r \in Runs, Relinquished(r)
  PROVE  pc[r] \notin Early \cup Working
BY DEF Relinquished, Early, Working, Taking, Removing

\* Whoever is granted the lease, shared or exclusively, after the run was
\* published, finds the run nobody's.
LEMMA GrantMeansOwnerless ==
  ASSUME TypeOK, StepInv, LeaseInv, NEW r \in Runs, ShFree(r), pc[r] \notin Early
  PROVE  Ownerless(r)
BY DEF TypeOK, ProcessTypeOK, LockTypeOK, StepInv, LeaseInv, ShFree, Ownerless, Relinquished, Early, Working

\* Every grant is of a run that is nobody's, and so are those of before.
LEMMA GrantStep ==
  ASSUME TypeOK, StepInv, LeaseInv, BirthInv, GrantInv, [Next]_vars
  PROVE  GrantInv'
<1>. /\ pc \in [Actors -> Steps] /\ Runs \cap Cleaners = {} /\ Actors = Runs \cup Cleaners
     /\ hand \in [Cleaners -> Runs \cup {NoRun}]
     /\ \A q \in Cleaners : pc[q] \in {"probe", "shared"} \cup Taking => hand[q] \in Runs
     /\ list \in [Cleaners -> SUBSET Runs] /\ cand \in [Cleaners -> SUBSET Runs]
     /\ outcome \in [Cleaners -> [Runs -> Outcomes]]
  BY StageAssumption DEF TypeOK, DiskTypeOK, LockTypeOK, ProcessTypeOK, StageAssumption, Actors
<1>1. \A r \in Runs : Ownerless(r) => Ownerless(r)'
  BY OwnerlessForGood
<1>2. \A r \in Runs : pc[r] \notin Early => pc'[r] \notin Early
  BY EarlyOnce
<1> DEFINE Probing == \A q \in Cleaners : pc'[q] = "probe" =>
                        hand'[q] \in Runs /\ pc[hand'[q]] \notin Early
           Holding == \A q \in Cleaners : pc'[q] \in {"shared"} \cup Taking =>
                        hand'[q] \in Runs /\ Ownerless(hand'[q])
           Listing == \A q \in Cleaners, r \in Runs :
                        r \in cand'[q] \/ outcome'[q][r] # "none" => Ownerless(r)
           Owning  == \A r \in Runs : pc'[r] \in Removing => Ownerless(r)
<1>3. SUFFICES Probing /\ Holding /\ Listing /\ Owning
  <2>1. \A q \in Cleaners : pc'[q] = "probe" => pc'[hand'[q]] \notin Early
    BY <1>2, <1>3
  <2>2. \A q \in Cleaners : pc'[q] \in {"shared"} \cup Taking => Ownerless(hand[q])'
    BY <1>1, <1>3 DEF Ownerless, Relinquished
  <2>3. \A q \in Cleaners, r \in Runs :
          r \in cand'[q] \/ outcome'[q][r] # "none" => Ownerless(r)'
    BY <1>1, <1>3
  <2>4. \A r \in Runs : pc'[r] \in Removing => Ownerless(r)'
    BY <1>1, <1>3
  <2>5. \A a \in Actors : pc'[a] \in Removing => Ownerless(Hand(a))'
    BY <2>2, <2>4 DEF Hand, Taking, Ownerless, Relinquished
  <2> QED BY <2>1, <2>2, <2>3, <2>5 DEF GrantInv
<1> HIDE DEF Ownerless
<1>4. /\ \A q \in Cleaners : pc[q] = "probe" => pc[hand[q]] \notin Early
      /\ \A q \in Cleaners : pc[q] \in {"shared"} \cup Taking => Ownerless(hand[q])
      /\ \A q \in Cleaners, r \in Runs :
           r \in cand[q] \/ outcome[q][r] # "none" => Ownerless(r)
      /\ \A r \in Runs : pc[r] \in Removing => Ownerless(r)
  BY DEF GrantInv, Hand
<1>5. ASSUME UNCHANGED <<hand, cand, outcome>>,
             \A q \in Cleaners : pc'[q] = pc[q] \/ pc'[q] \in {"idle"},
             \A r \in Runs : pc'[r] = pc[r] \/ pc'[r] \notin Removing
      PROVE  Probing /\ Holding /\ Listing /\ Owning
  BY <1>4, <1>5 DEF Taking, Removing
<1>6. CASE UNCHANGED vars
  BY <1>5, <1>6 DEF vars, clean
<1>7. ASSUME NEW r \in Runs, Install(r) \/ ScratchUnopened(r) \/ Fork(r) \/ ChildExits(r)
      PROVE  Probing /\ Holding /\ Listing /\ Owning
  <2>1. UNCHANGED <<hand, cand, outcome>>
    BY <1>7 DEF Install, MakeDir, Prepare, Publish, Demolish, MakeStage, StageFails,
         Spawn, Reap, WaitFails, ScratchGranted, Vetoed, RemoveScratch, Judge,
         StartHelper, Place, Release, ScratchUnopened, Fork, ChildExits, clean
  <2>2. pc' = pc \/ \E step \in {"open", "over"} \cup Working : pc' = [pc EXCEPT ![r] = step]
    BY <1>7 DEF Install, MakeDir, Prepare, Publish, Demolish, MakeStage, StageFails,
         Spawn, Reap, WaitFails, ScratchGranted, Vetoed, RemoveScratch, Judge,
         StartHelper, Place, Release, ScratchUnopened, Fork, ChildExits, Keep, Goto, Working
  <2> QED BY <1>5, <2>1, <2>2 DEF Working, Removing
<1>8. ASSUME NEW a \in Actors, Crash(a)
      PROVE  Probing /\ Holding /\ Listing /\ Owning
  BY <1>5, <1>8 DEF Crash, Goto, clean, Removing
<1>9. ASSUME NEW a \in Actors, Removal(a)
      PROVE  Probing /\ Holding /\ Listing /\ Owning
  <2>1. pc[a] \in Taking
    BY <1>9 DEF Removal, TakeOpen, TakeLock, TakeRefused, RemovePayload, UnlinkLease,
                RemoveDir, Taking, Removing
  <2>2. UNCHANGED <<hand, cand>>
    BY <1>9 DEF Removal, TakeOpen, TakeLock, TakeRefused, RemovePayload, UnlinkLease,
                RemoveDir, Done, clean
  <2>3. \/ outcome' = outcome
        \/ a \in Cleaners /\ \E what \in {"removed", "deferred", "gone", "failed"} :
             outcome' = [outcome EXCEPT ![a][hand[a]] = what]
    BY <1>9 DEF Removal, TakeOpen, TakeLock, TakeRefused, RemovePayload, UnlinkLease,
                RemoveDir, Done, Hand, clean
  <2>4. Listing
    <3>1. CASE outcome' = outcome
      BY <1>4, <2>2, <3>1
    <3>2. ASSUME a \in Cleaners, NEW what,
                 outcome' = [outcome EXCEPT ![a][hand[a]] = what]
          PROVE  Listing
      <4>1. hand[a] \in Runs /\ Ownerless(hand[a])
        BY <1>4, <2>1, <3>2
      <4>2. \A q \in Cleaners, r \in Runs :
              outcome'[q][r] = outcome[q][r] \/ (q = a /\ r = hand[a])
        BY <3>2, <4>1
      <4> QED BY <1>4, <2>2, <4>1, <4>2
    <3> QED BY <2>3, <3>1, <3>2
  <2>5. \E step \in {"over", "clean"} \cup Taking : pc' = [pc EXCEPT ![a] = step]
    BY <1>9 DEF Removal, TakeOpen, TakeLock, TakeRefused, RemovePayload, UnlinkLease,
                RemoveDir, Done, Goto, Taking, Removing
  <2>6. Probing /\ Holding
    BY <1>4, <2>1, <2>2, <2>5 DEF Taking, Removing
  <2>7. Owning
    <3>1. CASE TakeLock(a)
      <4>1. CASE a \in Runs
        <5>1. ShFree(a) /\ pc[a] \notin Early
          BY <3>1, <4>1 DEF TakeLock, ExFree, Hand, Early
        <5> QED BY <1>4, <2>5, <4>1, <5>1, GrantMeansOwnerless
      <4> QED BY <1>4, <2>5, <4>1
    <3>2. CASE ~TakeLock(a)
      <4>1. pc'[a] \in Removing => pc[a] \in Removing
        BY <1>9, <3>2 DEF Removal, TakeOpen, TakeRefused, RemovePayload, UnlinkLease,
                RemoveDir, Done, Goto, Removing
      <4> QED BY <1>4, <2>5, <4>1
    <3> QED BY <3>1, <3>2
  <2> QED BY <2>4, <2>6, <2>7
<1>10. ASSUME NEW q \in Cleaners, Look(q)
       PROVE  Probing /\ Holding /\ Listing /\ Owning
  <2>1. Owning
    <3>1. \A r \in Runs : pc'[r] = pc[r]
      BY <1>10 DEF Look, Scan, ProbeOpen, ProbeLock, ProbeClose, Scanned, NextCandidate,
                   Summarize, Goto
    <3> QED BY <1>4, <3>1
  <2>2. CASE Scan(q) \/ Scanned(q) \/ Summarize(q)
    <3>1. Probing /\ Holding
      BY <1>4, <2>2 DEF Scan, Scanned, Summarize, Goto, clean, Taking, Removing
    <3>2. Listing
      BY <1>4, <2>2 DEF Scan, Scanned, Summarize, clean
    <3> QED BY <2>1, <3>1, <3>2
  <2>3. CASE ProbeOpen(q)
    <3>1. Probing
      BY <1>4, <2>3 DEF ProbeOpen, Goto, BirthInv
    <3>2. Holding /\ Listing
      BY <1>4, <2>3 DEF ProbeOpen, Goto, Taking, Removing
    <3> QED BY <2>1, <3>1, <3>2
  <2>4. CASE ProbeLock(q)
    <3>1. ShFree(hand[q]) => Ownerless(hand[q])
      BY <1>4, <2>4, GrantMeansOwnerless DEF ProbeLock
    <3>2. Probing /\ Holding
      BY <1>4, <2>4, <3>1 DEF ProbeLock, Goto, clean, Taking, Removing
    <3>3. Listing
      BY <1>4, <2>4 DEF ProbeLock, clean
    <3> QED BY <2>1, <3>2, <3>3
  <2>5. CASE ProbeClose(q)
    <3>1. Probing /\ Holding
      BY <1>4, <2>5 DEF ProbeClose, Goto, Taking, Removing
    <3>2. Listing
      BY <1>4, <2>5 DEF ProbeClose
    <3> QED BY <2>1, <3>1, <3>2
  <2>6. CASE NextCandidate(q)
    <3>1. Probing /\ Holding
      BY <1>4, <2>6 DEF NextCandidate, Goto, Taking, Removing
    <3>2. Listing
      BY <1>4, <2>6 DEF NextCandidate
    <3> QED BY <2>1, <3>1, <3>2
  <2> QED BY <1>10, <2>2, <2>3, <2>4, <2>5, <2>6 DEF Look
<1> QED BY <1>6, <1>7, <1>8, <1>9, <1>10 DEF Next

-----------------------------------------------------------------------------
(* What is on disk.                                                        *)

\* No run is visible before its lease is held, nor invisible while it is used.
LEMMA BirthStep ==
  ASSUME TypeOK, StepInv, BirthInv, GrantInv, [Next]_vars
  PROVE  BirthInv'
<1>. /\ pc \in [Actors -> Steps] /\ Runs \cap Cleaners = {} /\ Actors = Runs \cup Cleaners
     /\ dir \in [Runs -> {"none", "bare", "leased"}] /\ full \in [Runs -> BOOLEAN]
     /\ \A q \in Cleaners : pc[q] \in {"probe", "shared"} \cup Taking => hand[q] \in Runs
  BY StageAssumption DEF TypeOK, DiskTypeOK, LockTypeOK, ProcessTypeOK, StageAssumption, Actors
<1>1. CASE UNCHANGED vars
  BY <1>1 DEF vars, onDisk, BirthInv
<1>2. ASSUME NEW r \in Runs, Install(r) PROVE BirthInv'
  <2> USE DEF BirthInv, Early
  <2>1. CASE MakeDir(r) \/ Prepare(r) \/ Publish(r) \/ Demolish(r)
    BY <2>1 DEF MakeDir, Prepare, Publish, Demolish, Goto, onDisk
  <2>2. CASE MakeStage(r) \/ StageFails(r) \/ WaitFails(r)
    BY <2>2 DEF MakeStage, StageFails, WaitFails, Keep, Goto, onDisk
  <2>3. CASE Spawn(r) \/ StartHelper(r)
    BY <2>3 DEF Spawn, StartHelper, Goto, onDisk
  <2>4. CASE Reap(r) \/ ScratchGranted(r) \/ Vetoed(r) \/ RemoveScratch(r)
    BY <2>4 DEF Reap, ScratchGranted, Vetoed, RemoveScratch, Goto, onDisk
  <2>5. CASE Judge(r) \/ Place(r) \/ Release(r)
    BY <2>5 DEF Judge, Place, Release, Keep, Goto, onDisk
  <2> QED BY <1>2, <2>1, <2>2, <2>3, <2>4, <2>5 DEF Install
<1>3. ASSUME NEW r \in Runs, ScratchUnopened(r) \/ Fork(r) \/ ChildExits(r)
      PROVE BirthInv'
  BY <1>3 DEF ScratchUnopened, Fork, ChildExits, Goto, onDisk, BirthInv, Early
<1>4. ASSUME NEW a \in Actors, Removal(a) PROVE BirthInv'
  <2>1. \A r \in Runs : pc'[r] = pc[r] \/ pc'[r] \in {"over"} \cup Taking
    BY <1>4 DEF Removal, TakeOpen, TakeLock, TakeRefused, RemovePayload, UnlinkLease,
                RemoveDir, Done, Goto, Taking, Removing
  <2>2. CASE UNCHANGED onDisk
    BY <2>1, <2>2 DEF onDisk, BirthInv, Early, Taking, Removing
  <2>3. CASE ~UNCHANGED onDisk
    <3>1. pc[a] \in Removing
      BY <1>4, <2>3 DEF Removal, TakeOpen, TakeLock, TakeRefused, RemovePayload,
                        UnlinkLease, RemoveDir, Removing, onDisk
    <3>2. Hand(a) \in Runs /\ pc[Hand(a)] \notin Early \cup Working
      BY <3>1, NotAtWork DEF GrantInv, Ownerless, Hand, Taking
    <3>3. \A r \in Runs \ {Hand(a)} : dir'[r] = dir[r] /\ full'[r] = full[r]
      BY <1>4, <3>2 DEF Removal, TakeOpen, TakeLock, TakeRefused, RemovePayload,
                        UnlinkLease, RemoveDir, onDisk
    <3>4. pc'[Hand(a)] \notin Early \cup Working
      BY <2>1, <3>2 DEF Early, Working, Taking, Removing
    <3> QED BY <2>1, <3>2, <3>3, <3>4 DEF BirthInv, Early, Working, Taking, Removing
  <2> QED BY <2>2, <2>3
<1>5. ASSUME NEW a \in Actors, Crash(a) PROVE BirthInv'
  BY <1>5 DEF Crash, Goto, onDisk, BirthInv, Early
<1>6. ASSUME NEW q \in Cleaners, Look(q) PROVE BirthInv'
  <2>1. UNCHANGED onDisk /\ \A r \in Runs : pc'[r] = pc[r]
    BY <1>6 DEF Look, Scan, ProbeOpen, ProbeLock, ProbeClose, Scanned, NextCandidate,
                Summarize, Goto
  <2> QED BY <2>1 DEF onDisk, BirthInv
<1> QED BY <1>1, <1>2, <1>3, <1>4, <1>5, <1>6 DEF Next

\* A run of nobody's is neither made nor filled any more.
LEMMA OnlyEmptied ==
  ASSUME TypeOK, StepInv, GrantInv, [Next]_vars, NEW r \in Runs, Ownerless(r)
  PROVE  (full'[r] => full[r]) /\ (dir[r] = "none" => dir'[r] = "none")
<1>. /\ pc \in [Actors -> Steps] /\ Runs \cap Cleaners = {} /\ Actors = Runs \cup Cleaners
     /\ dir \in [Runs -> {"none", "bare", "leased"}] /\ full \in [Runs -> BOOLEAN]
     /\ \A q \in Cleaners : pc[q] \in {"probe", "shared"} \cup Taking => hand[q] \in Runs
  BY StageAssumption DEF TypeOK, DiskTypeOK, LockTypeOK, ProcessTypeOK, StageAssumption, Actors
<1>1. pc[r] \notin Early \cup Working
  BY NotAtWork DEF Ownerless
<1>2. CASE UNCHANGED onDisk
  BY <1>2 DEF onDisk
<1>3. ASSUME NEW s \in Runs, Install(s), ~UNCHANGED onDisk
      PROVE  dir'[r] = dir[r] /\ full'[r] = full[r]
  <2>1. pc[s] \in Early \cup Working
    BY <1>3 DEF Install, MakeDir, Prepare, Publish, Demolish, MakeStage, StageFails,
         Spawn, Reap, WaitFails, ScratchGranted, Vetoed, RemoveScratch, Judge,
         StartHelper, Place, Release, Early, Working
  <2>2. \A t \in Runs \ {s} : dir'[t] = dir[t] /\ full'[t] = full[t]
    BY <1>3 DEF Install, MakeDir, Prepare, Publish, Demolish, MakeStage, StageFails,
         Spawn, Reap, WaitFails, ScratchGranted, Vetoed, RemoveScratch, Judge,
         StartHelper, Place, Release, onDisk
  <2> QED BY <1>1, <2>1, <2>2
<1>4. ASSUME NEW s \in Runs, ScratchUnopened(s) \/ Fork(s) \/ ChildExits(s)
      PROVE  UNCHANGED onDisk
  BY <1>4 DEF ScratchUnopened, Fork, ChildExits
<1>5. ASSUME NEW a \in Actors, Removal(a)
      PROVE  (full'[r] => full[r]) /\ (dir[r] = "none" => dir'[r] = "none")
  <2>1. Hand(a) \in Runs
    BY <1>5 DEF Removal, TakeOpen, TakeLock, TakeRefused, RemovePayload, UnlinkLease,
                RemoveDir, Hand, Taking, Removing
  <2> QED
    BY <1>5, <2>1 DEF Removal, TakeOpen, TakeLock, TakeRefused, RemovePayload,
                      UnlinkLease, RemoveDir, onDisk
<1>6. ASSUME NEW a \in Actors, Crash(a) PROVE UNCHANGED onDisk
  BY <1>6 DEF Crash
<1>7. ASSUME NEW q \in Cleaners, Look(q) PROVE UNCHANGED onDisk
  BY <1>7 DEF Look, Scan, ProbeOpen, ProbeLock, ProbeClose, Scanned, NextCandidate,
              Summarize
<1>8. CASE UNCHANGED vars
  BY <1>2, <1>8 DEF vars
<1> QED BY <1>2, <1>3, <1>4, <1>5, <1>6, <1>7, <1>8 DEF Next

\* Only an install at work fills its run, and a lease is unlinked from an empty
\* one.
LEMMA PayloadStep ==
  ASSUME TypeOK, StepInv, BirthInv, GrantInv, EmptyInv, [Next]_vars
  PROVE  PayloadVisible'
<1>. /\ pc \in [Actors -> Steps] /\ Runs \cap Cleaners = {} /\ Actors = Runs \cup Cleaners
     /\ dir \in [Runs -> {"none", "bare", "leased"}] /\ full \in [Runs -> BOOLEAN]
     /\ \A q \in Cleaners : pc[q] \in {"probe", "shared"} \cup Taking => hand[q] \in Runs
  BY StageAssumption DEF TypeOK, DiskTypeOK, LockTypeOK, ProcessTypeOK, StageAssumption, Actors
<1>. PayloadVisible
  BY DEF EmptyInv
<1>1. CASE UNCHANGED onDisk
  BY <1>1 DEF onDisk, PayloadVisible
<1>2. ASSUME NEW r \in Runs, Install(r) PROVE PayloadVisible'
  <2> USE DEF BirthInv, Early, PayloadVisible
  <2>1. CASE MakeDir(r) \/ Prepare(r) \/ Publish(r) \/ Demolish(r)
    BY <2>1 DEF MakeDir, Prepare, Publish, Demolish, onDisk
  <2>2. CASE MakeStage(r) \/ StageFails(r)
    BY <2>2 DEF MakeStage, StageFails
  <2>3. CASE UNCHANGED onDisk
    BY <2>3 DEF onDisk
  <2> QED
    BY <1>2, <2>1, <2>2, <2>3
    DEF Install, Spawn, Reap, WaitFails, ScratchGranted, Vetoed, RemoveScratch, Judge,
        StartHelper, Place, Release
<1>3. ASSUME NEW r \in Runs, ScratchUnopened(r) \/ Fork(r) \/ ChildExits(r)
      PROVE  UNCHANGED onDisk
  BY <1>3 DEF ScratchUnopened, Fork, ChildExits
<1>4. ASSUME NEW a \in Actors, Removal(a) PROVE PayloadVisible'
  <2>1. Hand(a) \in Runs
    BY <1>4 DEF Removal, TakeOpen, TakeLock, TakeRefused, RemovePayload, UnlinkLease,
                RemoveDir, Hand, Taking, Removing
  <2>2. CASE TakeOpen(a) \/ TakeLock(a) \/ TakeRefused(a)
    BY <1>1, <2>2 DEF TakeOpen, TakeLock, TakeRefused
  <2>3. CASE RemovePayload(a)
    BY <2>1, <2>3 DEF RemovePayload, PayloadVisible
  <2>4. CASE UnlinkLease(a) \/ RemoveDir(a)
    <3>1. ~full[Hand(a)]
      BY <2>4 DEF UnlinkLease, RemoveDir, EmptyInv
    <3> QED BY <2>1, <2>4, <3>1 DEF UnlinkLease, RemoveDir, PayloadVisible
  <2> QED BY <1>4, <2>2, <2>3, <2>4 DEF Removal
<1>5. ASSUME NEW a \in Actors, Crash(a) PROVE UNCHANGED onDisk
  BY <1>5 DEF Crash
<1>6. ASSUME NEW q \in Cleaners, Look(q) PROVE UNCHANGED onDisk
  BY <1>6 DEF Look, Scan, ProbeOpen, ProbeLock, ProbeClose, Scanned, NextCandidate,
              Summarize
<1>7. CASE UNCHANGED vars
  BY <1>1, <1>7 DEF vars
<1> QED BY <1>1, <1>2, <1>3, <1>4, <1>5, <1>6, <1>7 DEF Next

\* clean says "removed" of what is gone and "gone" of what is empty, and neither
\* comes back.
LEMMA SummaryStep ==
  ASSUME TypeOK, StepInv, GrantInv, EmptyInv, [Next]_vars
  PROVE  SummaryTrue'
<1>. /\ Actors = Runs \cup Cleaners /\ Runs \cap Cleaners = {}
     /\ dir \in [Runs -> {"none", "bare", "leased"}] /\ full \in [Runs -> BOOLEAN]
     /\ outcome \in [Cleaners -> [Runs -> Outcomes]]
     /\ \A q \in Cleaners : pc[q] \in {"probe", "shared"} \cup Taking => hand[q] \in Runs
  BY StageAssumption DEF TypeOK, DiskTypeOK, LockTypeOK, ProcessTypeOK, StageAssumption, Actors
<1>. PayloadVisible /\ SummaryTrue
  BY DEF EmptyInv
<1>1. \A q \in Cleaners, r \in Runs : outcome[q][r] \in {"removed", "gone"} =>
        /\ outcome[q][r] = "removed" => dir'[r] = "none"
        /\ outcome[q][r] = "gone" => ~full'[r]
  BY OnlyEmptied DEF GrantInv, SummaryTrue
<1>2. CASE outcome' = outcome
  BY <1>1, <1>2 DEF SummaryTrue
<1>3. ASSUME NEW q \in Cleaners, Scan(q) PROVE SummaryTrue'
  BY <1>1, <1>3 DEF Scan, SummaryTrue
<1>4. ASSUME NEW a \in Actors, Removal(a) PROVE SummaryTrue'
  <2>1. pc[a] \in Taking
    BY <1>4 DEF Removal, TakeOpen, TakeLock, TakeRefused, RemovePayload, UnlinkLease,
                RemoveDir, Taking, Removing
  <2>2. ASSUME a \in Cleaners, NEW what, Done(a, what),
               what = "removed" => dir'[hand[a]] = "none",
               what = "gone" => ~full'[hand[a]]
        PROVE  SummaryTrue'
    <3>1. hand[a] \in Runs /\ outcome' = [outcome EXCEPT ![a][hand[a]] = what]
      BY <2>1, <2>2 DEF Done, Hand
    <3>2. \A q \in Cleaners, r \in Runs :
            \/ outcome'[q][r] = outcome[q][r]
            \/ q = a /\ r = hand[a] /\ outcome'[q][r] = what
      BY <3>1
    <3> QED BY <1>1, <2>2, <3>2 DEF SummaryTrue
  <2>3. outcome' = outcome \/ a \in Cleaners
    BY <1>4 DEF Removal, TakeOpen, TakeLock, TakeRefused, RemovePayload, UnlinkLease,
                RemoveDir, Done, clean
  <2>4. CASE a \in Cleaners /\ TakeOpen(a)
    <3>1. hand[a] \in Runs
      BY <2>1, <2>4
    <3>2. CASE Done(a, "gone") /\ dir[hand[a]] # "leased"
      <4>1. ~full'[hand[a]]
        BY <2>4, <3>1, <3>2 DEF TakeOpen, PayloadVisible, onDisk
      <4> QED BY <2>2, <2>4, <3>2, <4>1
    <3>3. CASE Done(a, "failed")
      BY <2>2, <2>4, <3>3
    <3>4. CASE UNCHANGED clean
      BY <1>2, <3>4 DEF clean
    <3> QED BY <2>4, <3>2, <3>3, <3>4 DEF TakeOpen, Hand
  <2>5. CASE a \in Cleaners /\ RemoveDir(a)
    <3>1. Hand(a) = hand[a] /\ hand[a] \in Runs
      BY <2>1, <2>5 DEF Hand
    <3>2. CASE Done(a, "removed") /\ dir' = [dir EXCEPT ![hand[a]] = "none"]
      BY <2>2, <2>5, <3>1, <3>2
    <3>3. CASE Done(a, "failed")
      BY <2>2, <2>5, <3>3
    <3> QED BY <2>5, <3>1, <3>2, <3>3 DEF RemoveDir
  <2>6. CASE a \in Cleaners /\ (TakeLock(a) \/ TakeRefused(a) \/ RemovePayload(a)
                                 \/ UnlinkLease(a))
    <3>1. outcome' = outcome \/ Done(a, "deferred") \/ Done(a, "failed")
      BY <2>6 DEF TakeLock, TakeRefused, RemovePayload, UnlinkLease, clean
    <3>2. CASE Done(a, "deferred")
      BY <2>2, <2>6, <3>2
    <3>3. CASE Done(a, "failed")
      BY <2>2, <2>6, <3>3
    <3> QED BY <1>2, <3>1, <3>2, <3>3
  <2> QED BY <1>2, <1>4, <2>3, <2>4, <2>5, <2>6 DEF Removal
<1>5. ASSUME NEW r \in Runs, Install(r) \/ ScratchUnopened(r) \/ Fork(r) \/ ChildExits(r)
      PROVE  outcome' = outcome
  BY <1>5 DEF Install, MakeDir, Prepare, Publish, Demolish, MakeStage, StageFails,
       Spawn, Reap, WaitFails, ScratchGranted, Vetoed, RemoveScratch, Judge,
       StartHelper, Place, Release, ScratchUnopened, Fork, ChildExits, clean
<1>6. ASSUME NEW a \in Actors, Crash(a) PROVE outcome' = outcome
  BY <1>6 DEF Crash, clean
<1>7. ASSUME NEW q \in Cleaners, Look(q), ~Scan(q) PROVE outcome' = outcome
  BY <1>7 DEF Look, ProbeOpen, ProbeLock, ProbeClose, Scanned, NextCandidate,
              Summarize, clean
<1>8. CASE UNCHANGED vars
  BY <1>2, <1>8 DEF vars, clean
<1> QED BY <1>2, <1>3, <1>4, <1>5, <1>6, <1>7, <1>8 DEF Next

\* A removal that is past the payload has an empty run in hand.
LEMMA EmptyStep ==
  ASSUME TypeOK, StepInv, BirthInv, GrantInv, EmptyInv, [Next]_vars
  PROVE  EmptyInv'
<1>. /\ pc \in [Actors -> Steps] /\ Runs \cap Cleaners = {} /\ Actors = Runs \cup Cleaners
     /\ full \in [Runs -> BOOLEAN] /\ hand \in [Cleaners -> Runs \cup {NoRun}]
     /\ \A q \in Cleaners : pc[q] \in {"probe", "shared"} \cup Taking => hand[q] \in Runs
  BY StageAssumption DEF TypeOK, DiskTypeOK, LockTypeOK, ProcessTypeOK, StageAssumption, Actors
<1> DEFINE Emptied == \A a \in Actors : pc[a] \in {"unlink", "rmdir"} => ~full[Hand(a)]
<1>1. SUFFICES Emptied'
  BY PayloadStep, SummaryStep DEF EmptyInv
<1>2. \A a \in Actors : pc[a] \in {"unlink", "rmdir"} =>
        Hand(a) \in Runs /\ ~full[Hand(a)] /\ Ownerless(Hand(a))
  BY DEF EmptyInv, GrantInv, Removing, Taking, Hand
<1>3. \A a \in Actors : pc[a] \in {"unlink", "rmdir"} => ~full'[Hand(a)]
  BY <1>2, OnlyEmptied
<1>4. ASSUME \A a \in Actors : pc'[a] \in {"unlink", "rmdir"} =>
                pc[a] \in {"unlink", "rmdir"} /\ Hand(a)' = Hand(a)
      PROVE  Emptied'
  BY <1>3, <1>4
<1>5. CASE UNCHANGED vars
  BY <1>4, <1>5 DEF vars, clean, Hand
<1>6. ASSUME NEW r \in Runs, Install(r) \/ ScratchUnopened(r) \/ Fork(r) \/ ChildExits(r)
      PROVE  Emptied'
  <2>1. hand' = hand
    BY <1>6 DEF Install, MakeDir, Prepare, Publish, Demolish, MakeStage, StageFails,
         Spawn, Reap, WaitFails, ScratchGranted, Vetoed, RemoveScratch, Judge,
         StartHelper, Place, Release, ScratchUnopened, Fork, ChildExits, clean
  <2>2. \A a \in Actors : pc'[a] = pc[a] \/ pc'[a] \notin {"unlink", "rmdir"}
    BY <1>6 DEF Install, MakeDir, Prepare, Publish, Demolish, MakeStage, StageFails,
         Spawn, Reap, WaitFails, ScratchGranted, Vetoed, RemoveScratch, Judge,
         StartHelper, Place, Release, ScratchUnopened, Fork, ChildExits, Keep, Goto
  <2> QED BY <1>4, <2>1, <2>2 DEF Hand
<1>7. ASSUME NEW a \in Actors, Crash(a) PROVE Emptied'
  BY <1>4, <1>7 DEF Crash, Goto, clean, Hand
<1>8. ASSUME NEW a \in Actors, Removal(a) PROVE Emptied'
  <2>1. Hand(a) \in Runs /\ hand' = hand
    BY <1>8 DEF Removal, TakeOpen, TakeLock, TakeRefused, RemovePayload, UnlinkLease,
                RemoveDir, Done, Hand, Taking, Removing, clean
  <2>2. \A b \in Actors \ {a} : pc'[b] = pc[b]
    BY <1>8 DEF Removal, TakeOpen, TakeLock, TakeRefused, RemovePayload, UnlinkLease,
                RemoveDir, Done, Goto
  <2>3. pc'[a] \in {"unlink", "rmdir"} => ~full'[Hand(a)]
    <3>1. CASE RemovePayload(a)
      BY <2>1, <3>1 DEF RemovePayload, Done, Goto
    <3>2. CASE ~RemovePayload(a)
      <4>1. pc'[a] \in {"unlink", "rmdir"} => pc[a] \in {"unlink", "rmdir"}
        BY <1>8, <3>2 DEF Removal, TakeOpen, TakeLock, TakeRefused, UnlinkLease,
                          RemoveDir, Done, Goto
      <4> QED BY <1>3, <4>1
    <3> QED BY <3>1, <3>2
  <2> QED BY <1>3, <2>1, <2>2, <2>3 DEF Hand
<1>9. ASSUME NEW q \in Cleaners, Look(q) PROVE Emptied'
  <2>1. pc'[q] \notin {"unlink", "rmdir"}
    BY <1>9 DEF Look, Scan, ProbeOpen, ProbeLock, ProbeClose, Scanned, NextCandidate,
                Summarize, Goto
  <2>2. /\ \A a \in Actors \ {q} : pc'[a] = pc[a]
        /\ \A p \in Cleaners \ {q} : hand'[p] = hand[p]
    BY <1>9 DEF Look, Scan, ProbeOpen, ProbeLock, ProbeClose, Scanned, NextCandidate,
                Summarize, Goto, clean
  <2>3. \A a \in Actors \ {q} : Hand(a)' = Hand(a)
    BY <2>2 DEF Hand
  <2> QED BY <1>4, <2>1, <2>2, <2>3
<1> QED BY <1>5, <1>6, <1>7, <1>8, <1>9 DEF Next

-----------------------------------------------------------------------------
(* Types.                                                                  *)

\* Whatever an actor removes is a run.
LEMMA HandIsRun ==
  ASSUME ProcessTypeOK, NEW a \in Actors, Removal(a)
  PROVE  /\ Hand(a) \in Runs
         /\ a \in Runs => Hand(a) = a
         /\ a \in Cleaners => Hand(a) = hand[a]
BY StageAssumption
DEF StageAssumption, ProcessTypeOK, Actors, Removal, TakeOpen, TakeLock, TakeRefused,
    RemovePayload, UnlinkLease, RemoveDir, Hand, Taking, Removing

LEMMA DiskTypeStep ==
  ASSUME DiskTypeOK, ProcessTypeOK, [Next]_vars
  PROVE  DiskTypeOK'
<1>. Runs \subseteq Actors
  BY DEF Actors
<1>1. CASE UNCHANGED vars
  BY <1>1 DEF vars, onDisk, scratch, DiskTypeOK
<1>2. ASSUME NEW r \in Runs,
             Install(r) \/ ScratchUnopened(r) \/ Fork(r) \/ ChildExits(r)
      PROVE  DiskTypeOK'
  <2>1. CASE MakeDir(r) \/ Publish(r) \/ Demolish(r)
    BY <2>1 DEF MakeDir, Publish, Demolish, Mishap, scratch, DiskTypeOK
  <2>2. CASE MakeStage(r) \/ StageFails(r)
    BY <2>2 DEF MakeStage, StageFails, Mishap, DiskTypeOK
  <2>3. CASE WaitFails(r) \/ ScratchUnopened(r) \/ RemoveScratch(r)
    BY <2>3 DEF WaitFails, ScratchUnopened, RemoveScratch, Mishap, onDisk, scratch,
                DiskTypeOK
  <2>4. CASE UNCHANGED <<onDisk, tmp, mishap>>
    BY <2>4 DEF onDisk, DiskTypeOK
  <2> QED
    BY <1>2, <2>1, <2>2, <2>3, <2>4
    DEF Install, Prepare, Spawn, Reap, ScratchGranted, Vetoed, Judge, StartHelper,
        Place, Release, Fork, ChildExits, onDisk, scratch
<1>3. ASSUME NEW a \in Actors, Removal(a) PROVE DiskTypeOK'
  <2>1. Hand(a) \in Runs
    BY <1>3, HandIsRun
  <2> QED
    BY <1>3, <2>1 DEF Removal, TakeOpen, TakeLock, TakeRefused, RemovePayload,
         UnlinkLease, RemoveDir, Mishap, onDisk, scratch, DiskTypeOK
<1>4. ASSUME NEW a \in Actors, Crash(a) PROVE DiskTypeOK'
  BY <1>4 DEF Crash, onDisk, DiskTypeOK
<1>5. ASSUME NEW q \in Cleaners, Look(q) PROVE DiskTypeOK'
  BY <1>5 DEF Look, Scan, ProbeOpen, ProbeLock, ProbeClose, Scanned, NextCandidate,
              Summarize, onDisk, scratch, DiskTypeOK
<1> QED BY <1>1, <1>2, <1>3, <1>4, <1>5 DEF Next

LEMMA LockTypeStep ==
  ASSUME LockTypeOK, ProcessTypeOK, [Next]_vars
  PROVE  LockTypeOK'
<1>. Cargo \in Family /\ Descendants \subseteq Family
  BY DEF Family
<1>1. CASE UNCHANGED vars
  BY <1>1 DEF vars, locks, scratch, LockTypeOK
<1>2. ASSUME NEW r \in Runs,
             Install(r) \/ ScratchUnopened(r) \/ Fork(r) \/ ChildExits(r)
      PROVE  LockTypeOK'
  <2>1. CASE Prepare(r) \/ Publish(r) \/ Demolish(r)
    BY <2>1 DEF Prepare, Publish, Demolish, scratch, LockTypeOK
  <2>2. CASE MakeStage(r) \/ StageFails(r) \/ WaitFails(r)
    BY <2>2 DEF MakeStage, StageFails, WaitFails, Keep, locks, LockTypeOK
  <2>3. CASE Spawn(r) \/ Reap(r) \/ StartHelper(r)
    BY <2>3 DEF Spawn, Reap, StartHelper, locks, scratch, LockTypeOK
  <2>4. CASE Judge(r) \/ Place(r) \/ Release(r)
    BY <2>4 DEF Judge, Place, Release, Keep, scratch, LockTypeOK
  <2>5. CASE Fork(r) \/ ChildExits(r)
    BY <2>5 DEF Fork, ChildExits, LockTypeOK
  <2>6. CASE UNCHANGED <<locks, writers, alive>>
    BY <2>6 DEF locks, LockTypeOK
  <2> QED
    BY <1>2, <2>1, <2>2, <2>3, <2>4, <2>5, <2>6
    DEF Install, MakeDir, ScratchGranted, Vetoed, RemoveScratch, ScratchUnopened, locks,
        scratch
<1>3. ASSUME NEW a \in Actors, Removal(a) PROVE LockTypeOK'
  <2>1. Hand(a) \in Runs
    BY <1>3, HandIsRun
  <2> QED
    BY <1>3, <2>1 DEF Removal, TakeOpen, TakeLock, TakeRefused, RemovePayload,
         UnlinkLease, RemoveDir, LetGo, locks, scratch, LockTypeOK
<1>4. ASSUME NEW a \in Actors, Crash(a) PROVE LockTypeOK'
  BY <1>4 DEF Crash, LockTypeOK
<1>5. ASSUME NEW q \in Cleaners, Look(q) PROVE LockTypeOK'
  <2>1. CASE ProbeLock(q) \/ ProbeClose(q)
    BY <2>1 DEF ProbeLock, ProbeClose, scratch, LockTypeOK, ProcessTypeOK
  <2>2. CASE ~(ProbeLock(q) \/ ProbeClose(q))
    BY <1>5, <2>2 DEF Look, Scan, ProbeOpen, Scanned, NextCandidate, Summarize, locks,
                      scratch, LockTypeOK
  <2> QED BY <2>1, <2>2
<1> QED BY <1>1, <1>2, <1>3, <1>4, <1>5 DEF Next

LEMMA ProcessTypeStep ==
  ASSUME ProcessTypeOK, [Next]_vars
  PROVE  ProcessTypeOK'
<1>. /\ Actors = Runs \cup Cleaners /\ Runs \cap Cleaners = {}
     /\ Taking \subseteq Steps /\ Working \subseteq Steps
     /\ {"idle", "over", "scan", "probe", "shared", "clean"} \subseteq Steps
     /\ {"removed", "deferred", "gone", "failed"} \subseteq Outcomes
  BY StageAssumption DEF StageAssumption, Actors, Steps, Outcomes
<1>1. CASE UNCHANGED vars
  BY <1>1 DEF vars, clean, ProcessTypeOK
<1>2. ASSUME NEW r \in Runs,
             Install(r) \/ ScratchUnopened(r) \/ Fork(r) \/ ChildExits(r)
      PROVE  ProcessTypeOK'
  <2>1. UNCHANGED <<hand, list, cand, outcome>>
    BY <1>2 DEF Install, MakeDir, Prepare, Publish, Demolish, MakeStage, StageFails,
         Spawn, Reap, WaitFails, ScratchGranted, Vetoed, RemoveScratch, Judge,
         StartHelper, Place, Release, ScratchUnopened, Fork, ChildExits, clean
  <2>2. pc' = pc \/ \E step \in Steps : pc' = [pc EXCEPT ![r] = step]
    BY <1>2 DEF Install, MakeDir, Prepare, Publish, Demolish, MakeStage, StageFails,
         Spawn, Reap, WaitFails, ScratchGranted, Vetoed, RemoveScratch, Judge,
         StartHelper, Place, Release, ScratchUnopened, Fork, ChildExits, Keep, Goto,
         Working, Taking
  <2> QED BY <2>1, <2>2 DEF ProcessTypeOK
<1>3. ASSUME NEW a \in Actors, Removal(a) PROVE ProcessTypeOK'
  <2>1. Hand(a) \in Runs
    BY <1>3, HandIsRun
  <2>2. /\ UNCHANGED <<hand, list, cand>> /\ pc[a] \in Taking
        /\ \E step \in {"over", "clean"} \cup Taking : pc' = [pc EXCEPT ![a] = step]
    BY <1>3 DEF Removal, TakeOpen, TakeLock, TakeRefused, RemovePayload, UnlinkLease,
         RemoveDir, Done, Goto, clean, Taking, Removing
  <2>3. outcome' = outcome \/ \E what \in {"removed", "deferred", "gone", "failed"} :
                                outcome' = [outcome EXCEPT ![a][Hand(a)] = what]
    BY <1>3 DEF Removal, TakeOpen, TakeLock, TakeRefused, RemovePayload, UnlinkLease,
         RemoveDir, Done, clean
  <2>4. outcome' \in [Cleaners -> [Runs -> Outcomes]]
    BY <2>1, <2>3 DEF ProcessTypeOK
  <2>5. pc' \in [Actors -> Steps]
    BY <2>2 DEF ProcessTypeOK
  <2>6. \A q \in Cleaners : pc'[q] \in {"probe", "shared"} \cup Taking => hand[q] \in Runs
    BY <2>2 DEF ProcessTypeOK, Taking, Removing
  <2> QED BY <2>2, <2>4, <2>5, <2>6 DEF ProcessTypeOK
<1>4. ASSUME NEW a \in Actors, Crash(a) PROVE ProcessTypeOK'
  BY <1>4 DEF Crash, Goto, clean, ProcessTypeOK, Taking, Removing
<1>5. ASSUME NEW q \in Cleaners, Look(q) PROVE ProcessTypeOK'
  <2>1. CASE Scan(q)
    BY <2>1 DEF Scan, Goto, ProcessTypeOK, Taking, Removing, Outcomes
  <2>2. CASE ProbeOpen(q)
    <3>1. PICK r \in list[q] :
            /\ list' = [list EXCEPT ![q] = @ \ {r}]
            /\ \/ hand' = [hand EXCEPT ![q] = r] /\ pc' = [pc EXCEPT ![q] = "probe"]
               \/ UNCHANGED <<hand, pc>>
      BY <2>2 DEF ProbeOpen, Goto
    <3>2. r \in Runs /\ UNCHANGED <<cand, outcome>>
      BY <2>2, <3>1 DEF ProbeOpen, ProcessTypeOK
    <3>3. CASE UNCHANGED <<hand, pc>>
      BY <3>1, <3>2, <3>3 DEF ProcessTypeOK
    <3>4. CASE hand' = [hand EXCEPT ![q] = r] /\ pc' = [pc EXCEPT ![q] = "probe"]
      <4>1. /\ pc' \in [Actors -> Steps] /\ hand' \in [Cleaners -> Runs \cup {NoRun}]
            /\ list' \in [Cleaners -> SUBSET Runs]
        BY <3>1, <3>2, <3>4 DEF ProcessTypeOK
      <4>2. \A p \in Cleaners : pc'[p] \in {"probe", "shared"} \cup Taking =>
              hand'[p] \in Runs
        BY <3>2, <3>4 DEF ProcessTypeOK
      <4> QED BY <3>2, <4>1, <4>2 DEF ProcessTypeOK
    <3> QED BY <3>1, <3>3, <3>4
  <2>3. CASE ProbeLock(q)
    <3>1. UNCHANGED clean /\ pc[q] = "probe"
          /\ \E step \in {"shared", "scan"} : pc' = [pc EXCEPT ![q] = step]
      BY <2>3 DEF ProbeLock, Goto
    <3> QED BY <3>1 DEF clean, ProcessTypeOK, Taking, Removing
  <2>4. CASE ProbeClose(q)
    BY <2>4 DEF ProbeClose, Goto, ProcessTypeOK, Taking, Removing
  <2>5. CASE Scanned(q) \/ Summarize(q)
    BY <2>5 DEF Scanned, Summarize, Goto, clean, ProcessTypeOK, Taking, Removing
  <2>6. CASE NextCandidate(q)
    BY <2>6 DEF NextCandidate, Goto, ProcessTypeOK, Taking
  <2> QED BY <1>5, <2>1, <2>2, <2>3, <2>4, <2>5, <2>6 DEF Look
<1> QED BY <1>1, <1>2, <1>3, <1>4, <1>5 DEF Next

LEMMA TypeStep ==
  ASSUME TypeOK, [Next]_vars
  PROVE  TypeOK'
BY DiskTypeStep, LockTypeStep, ProcessTypeStep DEF TypeOK

-----------------------------------------------------------------------------
(* The theorems.                                                           *)

LEMMA InitIInv == Init => IInv
<1> SUFFICES ASSUME Init PROVE IInv
  OBVIOUS
<1>. Runs \cap Cleaners = {}
  BY StageAssumption DEF StageAssumption
<1>1. TypeOK
  <2>1. DiskTypeOK /\ LockTypeOK
    BY DEF Init, DiskTypeOK, LockTypeOK
  <2>2. ProcessTypeOK
    <3>1. /\ pc \in [Actors -> Steps] /\ hand \in [Cleaners -> Runs \cup {NoRun}]
          /\ list \in [Cleaners -> SUBSET Runs] /\ cand \in [Cleaners -> SUBSET Runs]
          /\ outcome \in [Cleaners -> [Runs -> Outcomes]]
      BY DEF Init, Steps, Outcomes
    <3>2. \A q \in Cleaners : pc[q] \notin {"probe", "shared"} \cup Taking
      BY DEF Init, Actors, Taking, Removing
    <3> QED BY <3>1, <3>2 DEF ProcessTypeOK
  <2> QED BY <2>1, <2>2 DEF TypeOK
<1>2. StepInv /\ LeaseInv /\ ScratchInv /\ BirthInv
  BY DEF Init, StepInv, LeaseInv, ScratchInv, BirthInv, Actors, Working, Early
<1>3. GrantInv
  BY DEF Init, GrantInv, Actors, Taking, Removing
<1>4. EmptyInv
  BY DEF Init, EmptyInv, PayloadVisible, SummaryTrue, Actors
<1> QED BY <1>1, <1>2, <1>3, <1>4 DEF IInv

LEMMA StepIInv == IInv /\ [Next]_vars => IInv'
BY TypeStep, StepStep, LeaseStep, ScratchStep, BirthStep, GrantStep, EmptyStep DEF IInv

\* IInv holds whatever is killed, fails or races, for any installs and cleans.
THEOREM InductiveInvariant == Spec => []IInv
BY InitIInv, StepIInv, PTL DEF Spec

\* Every variable keeps its type, so no removal is at a run that is not there.
THEOREM TypeCorrect == Spec => []TypeOK
<1>1. IInv => TypeOK
  BY DEF IInv
<1> QED BY InductiveInvariant, <1>1, PTL

\* No run is removed while its install is under way or anything of its build
\* lives (take_lease_for_removal, release_and_remove_run).
THEOREM RemovalSafe == Spec => []NoRemovalUnderWriter
<1>1. IInv => NoRemovalUnderWriter
  BY DEF IInv, GrantInv, NoRemovalUnderWriter, Ownerless
<1> QED BY InductiveInvariant, <1>1, PTL

\* The TMPDIR goes only when the last inheritor is gone (BuildTmp::try_remove).
THEOREM ScratchSafe == Spec => []ScratchUnderNobody
<1>1. IInv => ScratchUnderNobody
  BY DEF IInv, ScratchInv, ScratchUnderNobody
<1> QED BY InductiveInvariant, <1>1, PTL

\* A run the scan names has no owner, then or later (scan_stale_stages).
THEOREM ScanTruthful == Spec => []FoundOwnerless
<1>1. IInv => FoundOwnerless
  BY DEF IInv, TypeOK, ProcessTypeOK, GrantInv, FoundOwnerless, Ownerless
<1> QED BY InductiveInvariant, <1>1, PTL

\* A run that holds anything keeps its lease (remove_leased_run).
THEOREM DebrisVisible == Spec => []PayloadVisible
<1>1. IInv => PayloadVisible
  BY DEF IInv, EmptyInv
<1> QED BY InductiveInvariant, <1>1, PTL

\* What clean says of a run is so, and stays so (remove_stale_stage).
THEOREM CleanTruthful == Spec => []SummaryTrue
<1>1. IInv => SummaryTrue
  BY DEF IInv, EmptyInv
<1> QED BY InductiveInvariant, <1>1, PTL

=============================================================================
