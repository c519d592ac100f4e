------------------------------ MODULE AppProofs ------------------------------
(***************************************************************************)
(* Proofs about the interface's event loop, for any crates, any plans and  *)
(* any two prefixes: what is on screen and what runs belongs to where the  *)
(* interface is, a plan is never confirmed unread, nothing is changed in   *)
(* place beside a build or a run, a queue told to stop starts nobody else, *)
(* and every member of a run is accounted for in its summary.              *)
(***************************************************************************)
EXTENDS AppProps, FiniteSetTheorems, TLAPS

Slot == ToSet(Slots)

LEMMA SlotSet ==
  Slot = {"terminal", "inPlace", "updateSweep", "reinstallSweep", "installBatch", "build"}
<1>1. DOMAIN Slots = 1 .. 6
  BY DEF Slots
<1>2. Slot = {Slots[i] : i \in 1 .. 6}
  BY <1>1 DEF Slot, ToSet
<1>3. 1 .. 6 = {1, 2, 3, 4, 5, 6}
  OBVIOUS
<1>4. /\ Slots[1] = "terminal" /\ Slots[2] = "inPlace" /\ Slots[3] = "updateSweep"
      /\ Slots[4] = "reinstallSweep" /\ Slots[5] = "installBatch" /\ Slots[6] = "build"
  BY DEF Slots
<1> QED BY <1>2, <1>3, <1>4

LEMMA OtherPrefix ==
  ASSUME prefix \in Pair
  PROVE  Other \in Pair
<1>1. \E p \in Pair : p # prefix
  BY AppAssumption DEF AppAssumption
<1> QED BY <1>1 DEF Other

LEMMA JobTyped ==
  ASSUME prefix \in Pair, NEW kind \in OneShots \cup Builds, NEW crate \in Crates \cup {NoCrate}
  PROVE  Job(kind, crate) \in Jobs /\ Job(kind, crate).kind = kind
         /\ Job(kind, crate).crate = crate
BY DEF Job, Jobs

LEMMA JobMarked ==
  ASSUME NEW j \in Jobs
  PROVE  /\ [j EXCEPT !.cancel = TRUE] \in Jobs /\ [j EXCEPT !.cancel = TRUE].kind = j.kind
         /\ [j EXCEPT !.cancel = TRUE].crate = j.crate
         /\ [j EXCEPT !.over = TRUE] \in Jobs /\ [j EXCEPT !.over = TRUE].kind = j.kind
         /\ [j EXCEPT !.over = TRUE].crate = j.crate
BY DEF Jobs

LEMMA QuestionTyped ==
  ASSUME prefix \in Pair, NEW ask \in Asks, NEW plan \in Seq(Crates)
  PROVE  Question(ask, prefix, plan) \in Questions
         /\ Question(ask, prefix, plan).ask = ask
         /\ Question(ask, prefix, plan).plan = plan
BY DEF Question, Questions

LEMMA LedgerStepped ==
  ASSUME NEW b \in Ledgers
  PROVE  /\ [b EXCEPT !.current = TRUE, !.attempted = @ + 1] \in Ledgers
         /\ [b EXCEPT !.current = TRUE, !.attempted = @ + 1].attempted = b.attempted + 1
         /\ [b EXCEPT !.current = TRUE, !.attempted = @ + 1].total = b.total
         /\ [b EXCEPT !.current = FALSE] \in Ledgers
         /\ [b EXCEPT !.current = FALSE].attempted = b.attempted
         /\ [b EXCEPT !.current = FALSE].total = b.total
         /\ \A o \in {"installed", "failed", "refused", "skipped"} :
              /\ [b EXCEPT ![o] = @ + 1] \in Ledgers
              /\ [b EXCEPT ![o] = @ + 1].attempted = b.attempted
              /\ [b EXCEPT ![o] = @ + 1].total = b.total
<1>1. b.attempted \in Nat /\ b.total \in Nat /\ b.installed \in Nat /\ b.failed \in Nat
      /\ b.refused \in Nat /\ b.skipped \in Nat
  BY DEF Ledgers
<1>2. /\ [b EXCEPT !.current = TRUE, !.attempted = @ + 1] \in Ledgers
      /\ [b EXCEPT !.current = TRUE, !.attempted = @ + 1].attempted = b.attempted + 1
      /\ [b EXCEPT !.current = TRUE, !.attempted = @ + 1].total = b.total
  <2> DEFINE c == [b EXCEPT !.current = TRUE]
  <2>1. c \in Ledgers /\ c.attempted = b.attempted /\ c.total = b.total
    BY <1>1 DEF Ledgers
  <2>2. /\ [c EXCEPT !.attempted = @ + 1] \in Ledgers
        /\ [c EXCEPT !.attempted = @ + 1].attempted = c.attempted + 1
        /\ [c EXCEPT !.attempted = @ + 1].total = c.total
    <3> HIDE DEF c
    <3> QED BY <2>1 DEF Ledgers
  <2>3. [b EXCEPT !.current = TRUE, !.attempted = @ + 1] = [c EXCEPT !.attempted = @ + 1]
    OBVIOUS
  <2> QED BY <2>1, <2>2, <2>3
<1>3. /\ [b EXCEPT !.current = FALSE] \in Ledgers
      /\ [b EXCEPT !.current = FALSE].attempted = b.attempted
      /\ [b EXCEPT !.current = FALSE].total = b.total
  BY <1>1 DEF Ledgers
<1>4. ASSUME NEW o \in {"installed", "failed", "refused", "skipped"}
      PROVE  /\ [b EXCEPT ![o] = @ + 1] \in Ledgers
             /\ [b EXCEPT ![o] = @ + 1].attempted = b.attempted
             /\ [b EXCEPT ![o] = @ + 1].total = b.total
  <2>1. CASE o = "installed"
    BY <1>1, <2>1 DEF Ledgers
  <2>2. CASE o = "failed"
    BY <1>1, <2>2 DEF Ledgers
  <2>3. CASE o = "refused"
    BY <1>1, <2>3 DEF Ledgers
  <2>4. CASE o = "skipped"
    BY <1>1, <2>4 DEF Ledgers
  <2> QED BY <2>1, <2>2, <2>3, <2>4
<1> QED BY <1>2, <1>3, <1>4

\* The worker of a list or a sweep has a ledger: only then are its messages read.
LEMMA LedgerThere ==
  ASSUME TypeOK, RunHeld, Poll, Building, job.kind \in Batches
  PROVE  batch \in Ledgers /\ batch.attempted <= batch.total
BY DEF TypeOK, LoopTypes, RunTypes, RunHeld, Poll, Past, Building

\* A member that is done leaves a ledger.
LEMMA MemberFinished ==
  ASSUME TypeOK, RunHeld, FinishMember
  PROVE  batch' \in Ledgers /\ batch'.attempted <= batch'.total
<1>1. batch \in Ledgers /\ batch.attempted <= batch.total
  BY LedgerThere DEF FinishMember, Draining
<1>2. \A o \in MemberOutcomes \ {"cancelled"} :
        o \in {"installed", "failed", "refused", "skipped"}
  BY DEF MemberOutcomes
<1> DEFINE done == [batch EXCEPT !.current = FALSE]
<1>3. done \in Ledgers /\ done.attempted = batch.attempted /\ done.total = batch.total
  BY <1>1, LedgerStepped
<1>4. \/ batch' = done
      \/ \E o \in {"installed", "failed", "refused", "skipped"} :
           batch' = [done EXCEPT ![o] = @ + 1]
  BY <1>2 DEF FinishMember
<1> HIDE DEF done
<1>5. CASE batch' = done
  BY <1>1, <1>3, <1>5
<1>6. ASSUME NEW o \in {"installed", "failed", "refused", "skipped"},
             batch' = [done EXCEPT ![o] = @ + 1]
      PROVE  batch' \in Ledgers /\ batch'.attempted <= batch'.total
  <2>1. batch' \in Ledgers /\ batch'.attempted = done.attempted
        /\ batch'.total = done.total
    BY <1>3, <1>6, LedgerStepped
  <2> QED BY <1>1, <1>3, <2>1
<1> QED BY <1>4, <1>5, <1>6

\* A queue whose member is done ends, or asks for the next one where it was asked.
LEMMA QueueStepped ==
  ASSUME TypeOK, queue # NoQueue, job # NoJob, job.kind = "migrate",
         NEW outcome \in Outcomes, FinishQueueStep(outcome)
  PROVE  \/ queue' = NoQueue /\ UNCHANGED pendMigrate
         \/ /\ queue' \in Queues /\ queue'.at = queue.at
            /\ pendMigrate' \in Migrations /\ pendMigrate'.at = queue.at
<1> DEFINE q == IF outcome = "cancelled" THEN queue ELSE File(queue, outcome, job.crate)
<1>1. queue \in Queues /\ job.crate \in Crates
  BY DEF TypeOK, RunTypes
<1>2. q \in Queues /\ q.at = queue.at
  BY <1>1 DEF File, Queues, Outcomes, Batches, Sections
<1> HIDE DEF q
<1>3. \/ queue' = NoQueue /\ UNCHANGED pendMigrate
      \/ /\ q.left # <<>> /\ queue' = [q EXCEPT !.left = Tail(@)]
         /\ pendMigrate' = [crate |-> Head(q.left), at |-> q.at]
  BY DEF FinishQueueStep, Finalize, Advance, q
<1>4. ASSUME q.left # <<>>
      PROVE  /\ [q EXCEPT !.left = Tail(@)] \in Queues
             /\ [q EXCEPT !.left = Tail(@)].at = q.at
             /\ [crate |-> Head(q.left), at |-> q.at] \in Migrations
             /\ [crate |-> Head(q.left), at |-> q.at].at = q.at
  <2>1. q.left \in Seq(Crates) /\ q.at \in Pair
    BY <1>2 DEF Queues
  <2>2. Tail(q.left) \in Seq(Crates) /\ Head(q.left) \in Crates
    BY <1>4, <2>1
  <2> QED BY <1>2, <2>1, <2>2 DEF Queues, Migrations
<1>5. CASE queue' = NoQueue /\ UNCHANGED pendMigrate
  BY <1>5
<1>6. CASE /\ q.left # <<>> /\ queue' = [q EXCEPT !.left = Tail(@)]
           /\ pendMigrate' = [crate |-> Head(q.left), at |-> q.at]
  <2>1. queue' \in Queues /\ queue'.at = q.at
    BY <1>4, <1>6
  <2>2. pendMigrate' \in Migrations /\ pendMigrate'.at = q.at
    BY <1>4, <1>6
  <2> QED BY <1>2, <2>1, <2>2
<1> QED BY <1>3, <1>5, <1>6

-----------------------------------------------------------------------------
(* Types.                                                                  *)

LEMMA LoopStep ==
  ASSUME LoopTypes, Next
  PROVE  LoopTypes'
<1> USE DEF LoopTypes, here, leaving, Reload, Reread
<1>1. CASE TakeRequest
  BY <1>1 DEF TakeRequest, RunInTerminal, RunInPlace, Take, Mutate, StartConfirmedUpdateSweep,
              StartConfirmedSweep, StartInstallBatch, StartBatch, StartBuild
<1>2. CASE NoKey \/ CtrlC \/ DismissReport \/ AnswerNo \/ AnswerSweep \/ AnswerRemove
             \/ AnswerMigrate \/ AnswerMigrateAll \/ LeaveInput \/ SubmitInstall
             \/ SubmitSearch
  BY <1>2 DEF NoKey, CtrlC, Key, DismissReport, Answer, AnswerNo, AnswerSweep, AnswerRemove,
              Mutate, AnswerMigrate, AnswerMigrateAll, LeaveInput, Typing, SubmitInstall,
              SubmitSearch
<1>3. CASE RetryLoad \/ Quit \/ Escape \/ Cancel \/ StartCheck \/ StartVerify \/ OpenInput
             \/ PickDowngrade \/ PickHit \/ StartReinstall \/ PinSelected
  BY <1>3 DEF RetryLoad, Quit, Escape, Cancel, StartCheck, StartVerify, OpenInput, Mutate,
              PickDowngrade, PickHit, StartReinstall, PinSelected, Sound, ListKey, Key
<1>4. CASE StartUpdate \/ StartUpdateSweep \/ StartReinstallSweep \/ StartDowngrade
             \/ RemoveSelected \/ MigrateSelected \/ MigrateEverything
  BY <1>4 DEF StartUpdate, StartUpdateSweep, StartReinstallSweep, StartDowngrade,
              StartLookup, RemoveSelected, MigrateSelected, MigrateEverything, Sound,
              ListKey, Key
<1>5. CASE Jump
  BY <1>5, OtherPrefix DEF Jump, ListKey, Key
<1>6. CASE StartMember
  BY <1>6 DEF StartMember, StopQueue, StartMigrate
<1>7. CASE CollectNothing \/ CollectAborted \/ CollectWarning \/ BeginMember
             \/ FinishMember \/ Leave
  BY <1>7 DEF CollectNothing, CollectAborted, CollectWarning, BeginMember, FinishMember,
              Leave
<1>8. CASE CollectOneShot
  BY <1>8 DEF CollectOneShot, CollectUseless, CollectCheck, CollectSweepCheck,
              CollectReinstallPlan, CollectUpdatePlan, CollectDowngrade, CollectSearch,
              CollectVerify, Collected
<1>9. CASE FinishBuild
  <2>1. degraded' \in BOOLEAN
    BY <1>9 DEF FinishBuild, FinishQueueStep, FinishInstallBatch, FinishOne
  <2> QED BY <1>9, <2>1 DEF FinishBuild, QuitDue
<1> QED BY <1>1, <1>2, <1>3, <1>4, <1>5, <1>6, <1>7, <1>8, <1>9 DEF Next, Press, CollectBuild

LEMMA ScreenStep ==
  ASSUME TypeOK, Next
  PROVE  ScreenTypes'
<1> USE AppAssumption
    DEF TypeOK, LoopTypes, ScreenTypes, AppAssumption, panels, asked, Asks, Questions, Pins, Reload, Pinned
<1>1. CASE TakeRequest
  <2>1. CASE RunInTerminal \/ RunInPlace
    BY <2>1 DEF RunInTerminal, RunInPlace, Mutate
  <2>2. CASE StartConfirmedUpdateSweep \/ StartConfirmedSweep \/ StartInstallBatch
    BY <2>2 DEF StartConfirmedUpdateSweep, StartConfirmedSweep, StartInstallBatch,
                StartBatch
  <2>3. CASE StartBuild
    BY <2>3 DEF StartBuild
  <2> QED BY <1>1, <2>1, <2>2, <2>3 DEF TakeRequest
<1>2. CASE NoKey \/ CtrlC \/ DismissReport \/ AnswerNo \/ AnswerSweep \/ AnswerRemove
             \/ AnswerMigrate \/ AnswerMigrateAll \/ LeaveInput \/ SubmitInstall
             \/ SubmitSearch
  BY <1>2 DEF NoKey, CtrlC, DismissReport, Answer, AnswerNo, AnswerSweep, AnswerRemove,
              Mutate, AnswerMigrate, AnswerMigrateAll, LeaveInput, Typing, SubmitInstall,
              SubmitSearch
<1>3. CASE RetryLoad \/ Quit \/ Escape \/ Cancel \/ StartCheck \/ StartVerify \/ OpenInput
             \/ PickDowngrade \/ PickHit \/ StartReinstall \/ PinSelected
  BY <1>3 DEF RetryLoad, Quit, Escape, Cancel, StartCheck, StartVerify, OpenInput, Mutate,
              PickDowngrade, PickHit, StartReinstall, PinSelected
<1>4. CASE StartUpdate \/ StartUpdateSweep \/ StartReinstallSweep \/ StartDowngrade
             \/ Jump
  BY <1>4 DEF StartUpdate, StartUpdateSweep, StartReinstallSweep, StartDowngrade,
              StartLookup, Jump
<1>5. CASE RemoveSelected \/ MigrateSelected
  <2>1. <<>> \in Seq(Crates) /\ \A c \in Crates : <<c>> \in Seq(Crates) /\ <<c>> # <<>>
    OBVIOUS
  <2>2. \/ confirm' = Question("remove", prefix, <<>>)
        \/ \E c \in Crates : confirm' = Question("migrate", prefix, <<c>>)
    BY <1>5 DEF RemoveSelected, MigrateSelected
  <2>3. /\ confirm' \in Questions
        /\ confirm'.ask \in {"migrate", "migrateAll"} => confirm'.plan # <<>>
    <3>1. CASE confirm' = Question("remove", prefix, <<>>)
      BY <2>1, <3>1, QuestionTyped
    <3>2. ASSUME NEW plan \in Seq(Crates), plan # <<>>,
                 confirm' = Question("migrate", prefix, plan)
          PROVE  /\ confirm' \in Questions
                 /\ confirm'.plan # <<>>
      BY <3>2, QuestionTyped
    <3> QED BY <2>1, <2>2, <3>1, <3>2
  <2> QED BY <1>5, <2>3 DEF RemoveSelected, MigrateSelected
<1>6. CASE MigrateEverything
  BY <1>6 DEF MigrateEverything, Question
<1>7. CASE StartMember
  BY <1>7 DEF StartMember, StopQueue, StartMigrate, Finalize, RefuseMigration,
              BeginMigration
<1>8. CASE CollectNothing \/ CollectAborted \/ BeginMember \/ FinishMember \/ Leave
  BY <1>8 DEF CollectNothing, CollectAborted, BeginMember, FinishMember, Leave
<1>9. CASE CollectWarning
  BY <1>9 DEF CollectWarning, Draining, Building, RunTypes, Jobs
<1>10. CASE CollectUseless \/ CollectCheck \/ CollectSearch \/ CollectDowngrade
              \/ CollectVerify
  BY <1>10 DEF CollectUseless, CollectCheck, CollectDowngrade, CollectSearch,
               CollectVerify, Collected, RunTypes, Jobs
<1>11. CASE CollectUpdatePlan
  BY <1>11 DEF CollectUpdatePlan, Collected, Question, RunTypes, Jobs
<1>12. CASE CollectReinstallPlan
  BY <1>12 DEF CollectReinstallPlan, Collected, Question, RunTypes, Jobs
<1>13. CASE CollectSweepCheck
  BY <1>13 DEF CollectSweepCheck, Collected, Question, RunTypes, Jobs
<1>14. CASE FinishBuild
  <2>1. /\ UNCHANGED <<confirm, input>>
        /\ hits' \in {hits, Nowhere} /\ choice' \in {choice, Nowhere}
    BY <1>14 DEF FinishBuild, FinishQueueStep, FinishInstallBatch, FinishOne
  <2>2. report' = NoReport \/ report' = Pinned("result", prefix)
    BY <1>14 DEF FinishBuild, FinishQueueStep, Finalize, Advance, FinishInstallBatch, FinishOne
  <2> QED BY <2>1, <2>2
<1> QED BY <1>1, <1>2, <1>3, <1>4, <1>5, <1>6, <1>7, <1>8, <1>9, <1>10, <1>11, <1>12,
           <1>13, <1>14 DEF Next, Press, CollectOneShot, CollectBuild

LEMMA RequestStep ==
  ASSUME TypeOK, Next
  PROVE  RequestTypes'
<1> USE SlotSet DEF TypeOK, LoopTypes, RequestTypes, Migrations, queued, Slot
<1>1. CASE TakeRequest
  <2>1. CASE RunInTerminal
    BY <2>1 DEF RunInTerminal
  <2>2. CASE RunInPlace
    BY <2>2 DEF RunInPlace, Take, Taken, WorkOf, Singles
  <2>3. CASE StartConfirmedUpdateSweep
    BY <2>3 DEF StartConfirmedUpdateSweep, StartBatch, Take, Taken, WorkOf, Singles
  <2>4. CASE StartConfirmedSweep
    BY <2>4 DEF StartConfirmedSweep, StartBatch, Take, Taken, WorkOf, Singles
  <2>5. CASE StartInstallBatch
    BY <2>5 DEF StartInstallBatch, StartBatch, Take, Taken, WorkOf, Singles
  <2>6. CASE StartBuild
    <3>1. pend["build"] \in Requests /\ pend["build"].what \in WorkOf["build"]
      BY <2>6 DEF StartBuild, Take, Taken
    <3>2. WorkOf["build"] \subseteq WorkOf["terminal"]
      BY DEF WorkOf
    <3>3. /\ pend' \in [Slot -> Requests \cup {NoRequest}]
          /\ \A s \in Slot : pend'[s] \in {pend[s], NoRequest}
                               \/ (s = "terminal" /\ pend'[s] = pend["build"])
          /\ UNCHANGED pendMigrate
      BY <2>6, <3>1 DEF StartBuild
    <3> QED BY <3>1, <3>2, <3>3
  <2> QED BY <1>1, <2>1, <2>2, <2>3, <2>4, <2>5, <2>6 DEF TakeRequest
<1>2. CASE NoKey \/ CtrlC \/ DismissReport \/ AnswerNo \/ LeaveInput \/ SubmitSearch
             \/ RetryLoad \/ Quit \/ Escape \/ Cancel \/ StartCheck \/ StartVerify
             \/ OpenInput \/ PickHit
  BY <1>2 DEF NoKey, CtrlC, DismissReport, AnswerNo, LeaveInput, SubmitSearch, RetryLoad,
              Quit, Escape, Cancel, StartCheck, StartVerify, OpenInput, PickHit
<1>3. CASE StartUpdate \/ StartUpdateSweep \/ StartReinstallSweep \/ StartDowngrade
             \/ RemoveSelected \/ MigrateSelected \/ MigrateEverything \/ Jump
  BY <1>3 DEF StartUpdate, StartUpdateSweep, StartReinstallSweep, StartDowngrade,
              StartLookup, RemoveSelected, MigrateSelected, MigrateEverything, Jump
<1>4. CASE AnswerSweep
  <2>1. confirm.plan \in Seq(Crates) /\ Len(confirm.plan) \in Nat
    BY <1>4 DEF AnswerSweep, Answer, ScreenTypes, Questions
  <2>2. /\ Request("rebuild", Len(confirm.plan)) \in Requests
        /\ Request("updates", Len(confirm.plan)) \in Requests
        /\ Request("update", 1) \in Requests
    BY <2>1 DEF Request, Requests, WorkOf, Singles
  <2>3. /\ Request("rebuild", Len(confirm.plan)).what \in WorkOf["reinstallSweep"]
        /\ Request("updates", Len(confirm.plan)).what \in WorkOf["updateSweep"]
        /\ Request("update", 1).what \in WorkOf["build"]
    BY DEF Request, WorkOf, Singles
  <2> QED BY <1>4, <2>2, <2>3 DEF AnswerSweep, Answer
<1>5. CASE AnswerRemove
  BY <1>5 DEF AnswerRemove, Answer, Request, Requests, WorkOf, Singles
<1>6. CASE AnswerMigrate \/ AnswerMigrateAll
  <2>1. confirm.plan \in Seq(Crates) /\ confirm.plan # <<>>
    BY <1>6 DEF AnswerMigrate, AnswerMigrateAll, Answer, ScreenTypes, Questions
  <2>2. Head(confirm.plan) \in Crates
    BY <2>1
  <2> QED BY <1>6, <2>2 DEF AnswerMigrate, AnswerMigrateAll
<1>7. CASE SubmitInstall
  <2>1. \A k \in 2 .. Cardinality(Crates) : k \in Nat
    OBVIOUS
  <2> HIDE DEF RequestTypes
  <2>2. CASE pend' = [pend EXCEPT !["build"] = Request("install", 1)]
    BY <1>7, <2>2 DEF RequestTypes, SubmitInstall, Typing, Request, Requests, WorkOf, Singles
  <2>3. ASSUME NEW k \in 2 .. Cardinality(Crates),
               pend' = [pend EXCEPT !["installBatch"] = Request("install", k)]
        PROVE  RequestTypes'
    BY <1>7, <2>1, <2>3 DEF RequestTypes, SubmitInstall, Typing, Request, Requests, WorkOf, Singles
  <2> QED BY <1>7, <2>2, <2>3 DEF SubmitInstall
<1>8. CASE PickDowngrade
  BY <1>8 DEF PickDowngrade, ScreenTypes, Request, Requests, WorkOf, Singles
<1>9. CASE StartReinstall \/ PinSelected
  BY <1>9 DEF StartReinstall, PinSelected, Request, Requests, WorkOf, Singles
<1>10. CASE StartMember
  BY <1>10 DEF StartMember, StopQueue, StartMigrate
<1>11. CASE CollectNothing \/ CollectAborted \/ CollectWarning \/ BeginMember
              \/ FinishMember \/ Leave
  BY <1>11 DEF CollectNothing, CollectAborted, CollectWarning, BeginMember, FinishMember,
               Leave
<1>12. CASE CollectOneShot
  BY <1>12 DEF CollectOneShot, CollectUseless, CollectCheck, CollectSweepCheck,
               CollectReinstallPlan, CollectUpdatePlan, CollectDowngrade, CollectSearch,
               CollectVerify, Collected
<1>13. CASE FinishBuild
  <2>1. UNCHANGED pend
    BY <1>13 DEF FinishBuild
  <2>2. CASE UNCHANGED pendMigrate
    BY <2>1, <2>2
  <2>3. CASE ~UNCHANGED pendMigrate
    <3>1. \E outcome \in Outcomes :
            queue # NoQueue /\ job.kind = "migrate" /\ FinishQueueStep(outcome)
      BY <1>13, <2>3 DEF FinishBuild
    <3>2. pendMigrate' \in Migrations
      BY <1>13, <2>3, <3>1, QueueStepped DEF FinishBuild, Draining, Building
    <3> QED BY <2>1, <3>2
  <2> QED BY <2>2, <2>3
<1> QED BY <1>1, <1>2, <1>3, <1>4, <1>5, <1>6, <1>7, <1>8, <1>9, <1>10, <1>11, <1>12,
           <1>13 DEF Next, Press, CollectBuild

LEMMA RunStep ==
  ASSUME TypeOK, RunHeld, Next
  PROVE  RunTypes'
<1> USE DEF TypeOK, RunTypes, running, OneShots, Singles, Batches, Builds
<1> DEFINE JobOK == job' = NoJob \/ (job' \in Jobs /\ (job'.kind = "migrate" => job'.crate \in Crates))
           DropOK == dropped' \in {"no"} \cup OneShots \cup Builds
<1>1. CASE TakeRequest
  <2>1. CASE RunInTerminal \/ RunInPlace
    BY <2>1 DEF RunInTerminal, RunInPlace
  <2>2. ASSUME NEW s \in {"updateSweep", "reinstallSweep", "installBatch"},
               NEW kind \in Batches, StartBatch(s, kind)
        PROVE  RunTypes'
    <3>1. pend[s] # NoRequest /\ pend[s] \in Requests
      BY <2>2, SlotSet DEF StartBatch, Take, Taken, RequestTypes, Slot
    <3>2. NewBatch(pend[s].total) \in Ledgers
          /\ NewBatch(pend[s].total).attempted <= NewBatch(pend[s].total).total
      BY <3>1 DEF Requests, NewBatch, Ledgers
    <3>3. batch' = batch \/ batch' = NewBatch(pend[s].total)
      BY <2>2 DEF StartBatch
    <3>4. JobOK /\ DropOK /\ UNCHANGED queue
      BY <2>2, JobTyped DEF StartBatch, Occupy, LoopTypes
    <3> QED BY <3>2, <3>3, <3>4
  <2>3. CASE StartBuild
    <3>1. pend["build"].what \in Singles
      BY <2>3, SlotSet DEF StartBuild, Take, Taken, RequestTypes, Slot, WorkOf
    <3> QED BY <2>3, <3>1, JobTyped DEF StartBuild, Occupy, LoopTypes
  <2> QED BY <1>1, <2>1, <2>2, <2>3 DEF TakeRequest, StartConfirmedUpdateSweep,
                                        StartConfirmedSweep, StartInstallBatch
<1>2. CASE NoKey \/ DismissReport \/ AnswerNo \/ AnswerSweep \/ AnswerRemove \/ LeaveInput
             \/ SubmitInstall \/ RetryLoad \/ Quit \/ Escape \/ OpenInput \/ PickDowngrade
             \/ PickHit
  BY <1>2 DEF NoKey, DismissReport, Answer, AnswerNo, AnswerSweep, AnswerRemove, LeaveInput,
              SubmitInstall, RetryLoad, Quit, Escape, OpenInput, PickDowngrade, PickHit
<1>3. CASE StartReinstall \/ PinSelected \/ RemoveSelected \/ MigrateSelected
             \/ MigrateEverything \/ Jump
  BY <1>3 DEF StartReinstall, PinSelected, RemoveSelected, MigrateSelected,
              MigrateEverything, Jump
<1>4. CASE CtrlC
  BY <1>4 DEF CtrlC, CancelJob, Jobs
<1>5. CASE Cancel
  <2>1. queue' = NoQueue \/ queue' \in Queues
    BY <1>5 DEF Cancel, Queues
  <2>2. JobOK
    BY <1>5 DEF Cancel, CancelJob, Jobs
  <2> QED BY <1>5, <2>1, <2>2 DEF Cancel
<1>6. CASE AnswerMigrate
  <2>1. queue' = NoQueue \/ queue' \in Queues
    BY <1>6 DEF AnswerMigrate, Queues
  <2> QED BY <1>6, <2>1 DEF AnswerMigrate, Answer
<1>7. CASE AnswerMigrateAll
  <2>1. confirm.plan \in Seq(Crates) /\ confirm.plan # <<>>
    BY <1>7 DEF AnswerMigrateAll, Answer, ScreenTypes, Questions
  <2>2. Tail(confirm.plan) \in Seq(Crates)
    BY <2>1
  <2>3. \A crossed \in BOOLEAN : NewQueue(confirm.plan, crossed) \in Queues
    BY <2>1, <2>2 DEF NewQueue, Queues, LoopTypes
  <2> QED BY <1>7, <2>3 DEF AnswerMigrateAll, Answer
<1>8. CASE SubmitSearch \/ StartCheck \/ StartVerify
  BY <1>8, JobTyped DEF SubmitSearch, StartCheck, StartVerify, Occupy, LoopTypes
<1>9. CASE StartUpdate \/ StartUpdateSweep \/ StartReinstallSweep \/ StartDowngrade
  BY <1>9, JobTyped DEF StartUpdate, StartUpdateSweep, StartReinstallSweep, StartDowngrade,
                        StartLookup, Occupy, LoopTypes
<1>10. CASE StopQueue
  BY <1>10 DEF StopQueue, Finalize
<1>11. CASE StartMigrate
  <2>1. CASE job # NoJob
    BY <1>11, <2>1 DEF StartMigrate, RefuseMigration, Finalize
  <2>2. ASSUME NEW pf \in Preflights, job = NoJob,
               IF pf = "ready" THEN BeginMigration(pendMigrate.crate)
                               ELSE RefuseMigration(pendMigrate.crate, NoReport)
        PROVE  RunTypes'
    <3>1. pendMigrate.crate \in Crates
      BY <1>11 DEF StartMigrate, RequestTypes, Migrations
    <3>2. CASE BeginMigration(pendMigrate.crate)
      <4>1. queue' = NoQueue \/ queue' \in Queues
        BY <3>1, <3>2 DEF BeginMigration, Queues
      <4> QED BY <1>11, <3>1, <3>2, <4>1 DEF StartMigrate, BeginMigration, Occupy, Job, Jobs,
                                             LoopTypes
    <3>3. CASE RefuseMigration(pendMigrate.crate, NoReport)
      BY <1>11, <3>3 DEF StartMigrate, RefuseMigration, Finalize
    <3> QED BY <2>2, <3>2, <3>3
  <2> QED BY <1>11, <2>1, <2>2 DEF StartMigrate
<1>12. CASE CollectNothing \/ CollectAborted \/ CollectWarning \/ Leave
  BY <1>12 DEF CollectNothing, CollectAborted, CollectWarning, Leave
<1>13. CASE CollectOneShot
  BY <1>13 DEF CollectOneShot, CollectUseless, CollectCheck, CollectSweepCheck,
               CollectReinstallPlan, CollectUpdatePlan, CollectDowngrade, CollectSearch,
               CollectVerify, Collected
<1>14. CASE BeginMember
  <2>1. batch \in Ledgers /\ batch.attempted < batch.total
    BY <1>14, LedgerThere DEF BeginMember, Draining, AnotherMember
  <2>2. batch' \in Ledgers /\ batch'.attempted = batch.attempted + 1
        /\ batch'.total = batch.total
    BY <1>14, <2>1, LedgerStepped DEF BeginMember
  <2>3. batch'.attempted <= batch'.total
    BY <2>1, <2>2 DEF Ledgers
  <2> QED BY <1>14, <2>2, <2>3 DEF BeginMember
<1>15. CASE FinishMember
  <2>1. batch' \in Ledgers /\ batch'.attempted <= batch'.total
    BY <1>15, MemberFinished
  <2>2. JobOK
    BY <1>15, JobMarked DEF FinishMember, Draining, Building
  <2> QED BY <1>15, <2>1, <2>2 DEF FinishMember
<1>16. CASE FinishBuild
  <2>1. job' = NoJob /\ UNCHANGED dropped
    BY <1>16 DEF FinishBuild
  <2>2. batch' = batch \/ batch' = NoBatch
    BY <1>16 DEF FinishBuild, FinishInstallBatch
  <2>3. queue' = NoQueue \/ queue' \in Queues
    BY <1>16, QueueStepped DEF FinishBuild, Draining, Building
  <2> QED BY <2>1, <2>2, <2>3
<1> QED BY <1>1, <1>2, <1>3, <1>4, <1>5, <1>6, <1>7, <1>8, <1>9, <1>10, <1>11, <1>12,
           <1>13, <1>14, <1>15, <1>16 DEF Next, Press, StartMember, CollectBuild

LEMMA TypeStep ==
  ASSUME TypeOK, RunHeld, [Next]_vars
  PROVE  TypeOK'
<1>1. CASE Next
  BY <1>1, LoopStep, ScreenStep, RequestStep, RunStep DEF TypeOK
<1>2. CASE UNCHANGED vars
  BY <1>2 DEF vars, here, panels, asked, queued, running, leaving, TypeOK, LoopTypes,
              ScreenTypes, RequestTypes, RunTypes
<1> QED BY <1>1, <1>2

-----------------------------------------------------------------------------
(* Everything transient is about where the interface is.                   *)

\* Marking a job or a queue does not move it.
LEMMA MarkedHere ==
  ASSUME TypeOK
  PROVE  /\ job # NoJob => [job EXCEPT !.cancel = TRUE].at = job.at
                           /\ [job EXCEPT !.over = TRUE].at = job.at
         /\ queue # NoQueue =>
              /\ [queue EXCEPT !.stopping = TRUE].at = queue.at
              /\ [queue EXCEPT !.crossed = TRUE].at = queue.at
              /\ \A c : [queue EXCEPT !.begun = @ \cup {c}].at = queue.at
BY DEF TypeOK, RunTypes, Jobs, Queues

\* A request made here replaces one slot and is here.
LEMMA RequestHere ==
  ASSUME TypeOK, AllHere, NEW s \in Slot, NEW what, NEW total,
         pend' = [pend EXCEPT ![s] = Request(what, total)]
  PROVE  \A t \in Slot : pend'[t] # NoRequest => pend'[t].at = prefix
<1>1. Request(what, total).at = prefix
  BY DEF Request
<1>2. pend \in [Slot -> Requests \cup {NoRequest}]
  BY DEF TypeOK, RequestTypes, Slot
<1> QED BY <1>1, <1>2 DEF AllHere, Slot

LEMMA HereStep ==
  ASSUME TypeOK, AllHere, Next
  PROVE  AllHere'
<1> USE DEF AllHere, here, panels, asked, queued, running, Reload, Slot
<1>1. CASE TakeRequest
  <2>1. pend \in [Slot -> Requests \cup {NoRequest}]
    BY DEF TypeOK, RequestTypes
  <2>2. CASE RunInTerminal
    BY <2>1, <2>2 DEF RunInTerminal
  <2>3. CASE RunInPlace
    BY <2>1, <2>3, SlotSet DEF RunInPlace, Take, Taken, Mutate
  <2>4. ASSUME NEW s \in Slot, NEW kind, StartBatch(s, kind)
        PROVE  AllHere'
    <3>1. \A t \in Slot : pend'[t] # NoRequest => pend'[t].at = prefix
      BY <2>1, <2>4, SlotSet DEF StartBatch, Take, Taken
    <3>2. job' # NoJob => job'.at = prefix
      BY <2>4 DEF StartBatch, Occupy, Job
    <3> QED BY <2>4, <3>1, <3>2 DEF StartBatch
  <2>5. CASE StartBuild
    <3>1. \A t \in Slot : pend'[t] # NoRequest => pend'[t].at = prefix
      BY <2>1, <2>5, SlotSet DEF StartBuild, Take, Taken
    <3>2. job' # NoJob => job'.at = prefix
      BY <2>5 DEF StartBuild, Occupy, Job
    <3> QED BY <2>5, <3>1, <3>2 DEF StartBuild
  <2> QED BY <1>1, <2>2, <2>3, <2>4, <2>5, SlotSet
          DEF TakeRequest, StartConfirmedUpdateSweep, StartConfirmedSweep, StartInstallBatch
<1>2. CASE NoKey \/ DismissReport \/ AnswerNo \/ LeaveInput \/ RetryLoad \/ Quit \/ Escape
             \/ OpenInput \/ PickHit
  BY <1>2 DEF NoKey, DismissReport, AnswerNo, Answer, LeaveInput, RetryLoad, Quit, Escape,
              OpenInput, PickHit
<1>3. CASE CtrlC \/ Cancel
  <2>1. job' # NoJob => job'.at = prefix
    <3>1. CancelJob # NoJob => CancelJob.at = prefix
      BY MarkedHere DEF CancelJob
    <3> QED BY <1>3, <3>1 DEF CtrlC, Cancel
  <2>2. queue' # NoQueue => queue'.at = prefix
    BY <1>3, MarkedHere DEF CtrlC, Cancel
  <2> QED BY <1>3, <2>1, <2>2 DEF CtrlC, Cancel
<1>4. CASE AnswerSweep
  <2>1. \A t \in Slot : pend'[t] # NoRequest => pend'[t].at = prefix
    BY <1>4, RequestHere, SlotSet DEF AnswerSweep
  <2> QED BY <1>4, <2>1 DEF AnswerSweep, Answer
<1>5. CASE AnswerRemove
  <2>1. \A t \in Slot : pend'[t] # NoRequest => pend'[t].at = prefix
    BY <1>5, RequestHere, SlotSet DEF AnswerRemove
  <2> QED BY <1>5, <2>1 DEF AnswerRemove, Answer, Mutate
<1>6. CASE AnswerMigrate
  <2>1. queue' # NoQueue => queue'.at = prefix
    BY <1>6, MarkedHere DEF AnswerMigrate
  <2>2. pendMigrate'.at = prefix
    BY <1>6 DEF AnswerMigrate
  <2> QED BY <1>6, <2>1, <2>2 DEF AnswerMigrate, Answer
<1>7. CASE AnswerMigrateAll
  <2>1. queue'.at = prefix /\ pendMigrate'.at = prefix
    BY <1>7 DEF AnswerMigrateAll, NewQueue
  <2> QED BY <1>7, <2>1 DEF AnswerMigrateAll, Answer
<1>8. CASE SubmitInstall
  <2>1. \A t \in Slot : pend'[t] # NoRequest => pend'[t].at = prefix
    BY <1>8, RequestHere, SlotSet DEF SubmitInstall
  <2> QED BY <1>8, <2>1 DEF SubmitInstall, Typing
<1>9. CASE PickDowngrade
  <2>1. pend \in [Slot -> Requests \cup {NoRequest}]
    BY DEF TypeOK, RequestTypes
  <2>2. [Request("downgradeTo", 1) EXCEPT !.at = choice].at = prefix
    <3>1. choice = prefix
      BY <1>9 DEF PickDowngrade
    <3> QED BY <3>1 DEF Request
  <2> QED BY <1>9, <2>1, <2>2 DEF PickDowngrade
<1>10. CASE StartReinstall \/ PinSelected
  <2>1. \A t \in Slot : pend'[t] # NoRequest => pend'[t].at = prefix
    BY <1>10, RequestHere, SlotSet DEF StartReinstall, PinSelected
  <2> QED BY <1>10, <2>1 DEF StartReinstall, PinSelected, Mutate
<1>11. CASE SubmitSearch \/ StartCheck \/ StartVerify \/ StartUpdate \/ StartUpdateSweep
              \/ StartReinstallSweep \/ StartDowngrade
  <2>1. job' # NoJob => job'.at = prefix
    BY <1>11 DEF SubmitSearch, StartCheck, StartVerify, StartUpdate, StartUpdateSweep,
                 StartReinstallSweep, StartDowngrade, StartLookup, Occupy, Job
  <2> QED BY <1>11, <2>1 DEF SubmitSearch, StartCheck, StartVerify, StartUpdate,
                 StartUpdateSweep, StartReinstallSweep, StartDowngrade, StartLookup
<1>12. CASE RemoveSelected \/ MigrateSelected \/ MigrateEverything
  <2>1. confirm' # NoQuestion => confirm'.at = prefix
    BY <1>12 DEF RemoveSelected, MigrateSelected, MigrateEverything, Question
  <2> QED BY <1>12, <2>1 DEF RemoveSelected, MigrateSelected, MigrateEverything
<1>13. CASE Jump
  BY <1>13 DEF Jump, ListKey, Busy, NothingPending
<1>14. CASE StopQueue
  BY <1>14 DEF StopQueue, Finalize, Pinned
<1>15. CASE StartMigrate
  <2>1. /\ report' # NoReport => report'.at = prefix
        /\ job' # NoJob => job'.at = prefix
    BY <1>15 DEF StartMigrate, RefuseMigration, Finalize, BeginMigration, Occupy, Job, Pinned
  <2>2. queue' # NoQueue => queue'.at = prefix
    BY <1>15, MarkedHere DEF StartMigrate, RefuseMigration, Finalize, BeginMigration
  <2> QED BY <1>15, <2>1, <2>2 DEF StartMigrate
<1>16. CASE CollectNothing \/ CollectAborted \/ CollectWarning \/ BeginMember \/ Leave
  BY <1>16 DEF CollectNothing, CollectAborted, CollectWarning, Draining, Building,
               BeginMember, Leave, Pinned
<1>17. CASE FinishMember
  <2>1. job' # NoJob => job'.at = prefix
    BY <1>17, MarkedHere DEF FinishMember, Draining, Building
  <2> QED BY <1>17, <2>1 DEF FinishMember
<1>18. CASE CollectUseless \/ CollectCheck \/ CollectDowngrade \/ CollectSearch \/ CollectVerify
  BY <1>18 DEF CollectUseless, CollectCheck, CollectDowngrade, CollectSearch, CollectVerify,
               Collected, Pinned
<1>19. CASE CollectSweepCheck \/ CollectReinstallPlan \/ CollectUpdatePlan
  <2>1. /\ confirm' # NoQuestion => confirm'.at = prefix
        /\ report' # NoReport => report'.at = prefix
    BY <1>19 DEF CollectSweepCheck, CollectReinstallPlan, CollectUpdatePlan, Collected,
                 Question, Pinned
  <2> QED BY <1>19, <2>1 DEF CollectSweepCheck, CollectReinstallPlan, CollectUpdatePlan,
                             Collected
<1>20. CASE FinishBuild
  <2>1. /\ UNCHANGED <<confirm, pend, prefix>> /\ job' = NoJob
        /\ hits' \in {hits, Nowhere} /\ choice' \in {choice, Nowhere}
    BY <1>20 DEF FinishBuild, FinishQueueStep, FinishInstallBatch, FinishOne
  <2>2. report' = NoReport \/ report' = Pinned("result", prefix)
    BY <1>20 DEF FinishBuild, FinishQueueStep, Finalize, Advance, FinishInstallBatch, FinishOne
  <2>3. /\ queue' # NoQueue => queue'.at = prefix
        /\ pendMigrate' # NoRequest => pendMigrate'.at = prefix
    <3>1. CASE UNCHANGED <<queue, pendMigrate>>
      BY <2>1, <3>1
    <3>2. ASSUME NEW outcome \in Outcomes, queue # NoQueue, job.kind = "migrate",
                 FinishQueueStep(outcome)
          PROVE  /\ queue' # NoQueue => queue'.at = prefix
                 /\ pendMigrate' # NoRequest => pendMigrate'.at = prefix
      BY <1>20, <2>1, <3>2, QueueStepped DEF FinishBuild, Draining, Building
    <3> QED BY <1>20, <3>1, <3>2 DEF FinishBuild
  <2> QED BY <2>1, <2>2, <2>3 DEF Pinned
<1> QED BY <1>1, <1>2, <1>3, <1>4, <1>5, <1>6, <1>7, <1>8, <1>9, <1>10, <1>11, <1>12,
           <1>13, <1>14, <1>15, <1>16, <1>17, <1>18, <1>19, <1>20
        DEF Next, Press, StartMember, CollectOneShot, CollectBuild

-----------------------------------------------------------------------------
(* A run in progress has somebody who will continue it.                    *)

\* A job of any other kind over an empty slot changes nobody's run; over a worker it
\* is where the model stops.
LEMMA OccupyHeld ==
  ASSUME RunHeld, Live, pc # "out",
         NEW kind \in (OneShots \cup Builds) \ (Batches \cup {"migrate"}),
         Occupy(Job(kind, NoCrate)), UNCHANGED <<queue, batch, pendMigrate>>
  PROVE  RunHeld'
<1>1. Job(kind, NoCrate).kind = kind
  BY DEF Job
<1>2. CASE job = NoJob
  BY <1>1, <1>2 DEF RunHeld, Live, Occupy
<1>3. CASE job # NoJob
  <2>1. dropped' # "no"
    BY <1>1, <1>3 DEF Occupy, OneShots, Builds, Singles, Batches
  <2> QED BY <2>1 DEF RunHeld, Live
<1> QED BY <1>2, <1>3

LEMMA HeldStep ==
  ASSUME TypeOK, RunHeld, Next
  PROVE  RunHeld'
<1> USE AppAssumption DEF queued, running, AppAssumption
<1>1. CASE TakeRequest
  <2>1. CASE RunInTerminal \/ RunInPlace
    BY <2>1 DEF RunInTerminal, RunInPlace, RunHeld, Live
  <2>2. ASSUME NEW s \in {"updateSweep", "reinstallSweep", "installBatch"},
               NEW kind \in Batches, StartBatch(s, kind)
        PROVE  RunHeld'
    <3>1. CASE UNCHANGED <<job, batch, dropped>>
      BY <2>2, <3>1 DEF StartBatch, RunHeld, Live
    <3>2. CASE batch' = NewBatch(pend[s].total) /\ Occupy(Job(kind, NoCrate))
      <4>1. Job(kind, NoCrate) \in Jobs /\ Job(kind, NoCrate).kind = kind
        BY JobTyped DEF TypeOK, LoopTypes, Builds
      <4>2. CASE job = NoJob
        <5>1. pend[s] \in Requests
          BY <2>2, SlotSet DEF StartBatch, Take, Taken, TypeOK, RequestTypes, Slot
        <5>2. NewBatch(pend[s].total) \in Ledgers
          BY <5>1 DEF Requests, NewBatch, Ledgers
        <5>3. batch' # NoBatch
          BY <3>2, <5>2
        <5>4. job' # NoJob /\ job'.kind \in Batches
          BY <3>2, <4>1 DEF Occupy
        <5>5. UNCHANGED <<queue, pendMigrate>> /\ pc = "top" /\ Live
          BY <2>2 DEF StartBatch, Take
        <5> QED BY <4>2, <5>3, <5>4, <5>5 DEF RunHeld, Live
      <4>3. CASE job # NoJob
        BY <3>2, <4>1, <4>3 DEF Occupy, RunHeld, Live, Batches
      <4> QED BY <4>2, <4>3
    <3> QED BY <2>2, <3>1, <3>2 DEF StartBatch
  <2>3. CASE StartBuild
    <3>1. pend["build"].what \in (OneShots \cup Builds) \ (Batches \cup {"migrate"})
      BY <2>3, SlotSet DEF StartBuild, Take, Taken, TypeOK, RequestTypes, Slot, WorkOf,
                           Singles, Builds, Batches
    <3>2. CASE UNCHANGED <<job, dropped>>
      BY <2>3, <3>2 DEF StartBuild, RunHeld, Live
    <3>3. CASE Occupy(Job(pend["build"].what, NoCrate))
      BY <2>3, <3>1, <3>3, OccupyHeld DEF StartBuild, Take
    <3> QED BY <2>3, <3>2, <3>3 DEF StartBuild
  <2> QED BY <1>1, <2>1, <2>2, <2>3
          DEF TakeRequest, StartConfirmedUpdateSweep, StartConfirmedSweep,
              StartInstallBatch, Batches
<1>2. CASE NoKey \/ DismissReport \/ AnswerNo \/ AnswerSweep \/ AnswerRemove \/ LeaveInput
             \/ SubmitInstall \/ RetryLoad \/ Quit \/ Escape \/ OpenInput \/ PickDowngrade
             \/ PickHit
  BY <1>2 DEF NoKey, DismissReport, AnswerNo, AnswerSweep, AnswerRemove, Answer, LeaveInput,
              Typing, SubmitInstall, RetryLoad, Quit, Escape, OpenInput, PickDowngrade, PickHit,
              Sound, ListKey, Key, RunHeld, Live
<1>3. CASE StartReinstall \/ PinSelected \/ RemoveSelected \/ MigrateSelected
             \/ MigrateEverything \/ Jump
  BY <1>3 DEF StartReinstall, PinSelected, RemoveSelected, MigrateSelected,
              MigrateEverything, Jump, Sound, ListKey, Key, RunHeld, Live
<1>4. CASE CtrlC \/ Cancel
  <2>1. job' = job \/ (job # NoJob /\ job' = [job EXCEPT !.cancel = TRUE])
    BY <1>4 DEF CtrlC, Cancel, CancelJob
  <2>2. (job' = NoJob <=> job = NoJob) /\ (job # NoJob => job'.kind = job.kind)
    BY <2>1, JobMarked DEF TypeOK, RunTypes
  <2>3. queue = NoQueue => queue' = NoQueue
    BY <1>4 DEF CtrlC, Cancel
  <2>4. UNCHANGED <<batch, pendMigrate, dropped>> /\ pc # "out"
    BY <1>4 DEF CtrlC, Cancel, ListKey, Key
  <2> QED BY <2>2, <2>3, <2>4 DEF RunHeld, Live
<1>5. CASE AnswerMigrate \/ AnswerMigrateAll
  <2>1. confirm.plan \in Seq(Crates) /\ confirm.plan # <<>>
    BY <1>5 DEF AnswerMigrate, AnswerMigrateAll, Answer, TypeOK, ScreenTypes, Questions
  <2>2. Head(confirm.plan) \in Crates
    BY <2>1
  <2>3. pendMigrate' \in Migrations
    BY <1>5, <2>2 DEF AnswerMigrate, AnswerMigrateAll, Migrations, TypeOK, LoopTypes
  <2>4. UNCHANGED <<batch, job, dropped>> /\ pc # "out"
    BY <1>5 DEF AnswerMigrate, AnswerMigrateAll, Answer, Key
  <2> QED BY <2>3, <2>4 DEF RunHeld, Live
<1>6. CASE SubmitSearch \/ StartCheck \/ StartVerify \/ StartUpdate \/ StartUpdateSweep
             \/ StartReinstallSweep \/ StartDowngrade
  <2>1. Live /\ pc # "out" /\ UNCHANGED <<queue, batch, pendMigrate>>
    BY <1>6 DEF SubmitSearch, StartCheck, StartVerify, StartUpdate, StartUpdateSweep,
                StartReinstallSweep, StartDowngrade, StartLookup, Typing, Sound, ListKey, Key
  <2>2. \/ UNCHANGED <<job, dropped>>
        \/ \E kind \in OneShots : Occupy(Job(kind, NoCrate))
    BY <1>6 DEF SubmitSearch, StartCheck, StartVerify, StartUpdate, StartUpdateSweep,
                StartReinstallSweep, StartDowngrade, StartLookup, OneShots
  <2>3. OneShots \subseteq (OneShots \cup Builds) \ (Batches \cup {"migrate"})
    BY DEF OneShots, Builds, Batches, Singles
  <2>4. CASE UNCHANGED <<job, dropped>>
    BY <2>1, <2>4 DEF RunHeld, Live
  <2> QED BY <2>1, <2>2, <2>3, <2>4, OccupyHeld
<1>7. CASE StopQueue
  BY <1>7 DEF StopQueue, Finalize, Past, RunHeld, Live
<1>8. CASE StartMigrate
  <2>1. Live /\ pc # "out" /\ UNCHANGED batch
    BY <1>8 DEF StartMigrate, Past
  <2>2. ASSUME NEW crate, NEW shown, RefuseMigration(crate, shown)
        PROVE  queue' = NoQueue /\ UNCHANGED <<job, dropped>>
    BY <2>2 DEF RefuseMigration, Finalize
  <2>3. CASE BeginMigration(pendMigrate.crate) /\ job = NoJob
    <3>1. pendMigrate.crate \in Crates
      BY <1>8 DEF StartMigrate, TypeOK, RequestTypes, Migrations
    <3>2. Job("migrate", pendMigrate.crate) \in Jobs
          /\ Job("migrate", pendMigrate.crate).kind = "migrate"
      BY <3>1, JobTyped DEF TypeOK, LoopTypes, Builds
    <3>3. job' # NoJob /\ job'.kind = "migrate"
      BY <2>3, <3>2 DEF BeginMigration, Occupy
    <3> QED BY <2>1, <2>3, <3>3 DEF RunHeld, Live, Batches
  <2>4. CASE queue' = NoQueue /\ UNCHANGED <<job, dropped>>
    BY <2>1, <2>4 DEF RunHeld, Live
  <2> QED BY <1>8, <2>2, <2>3, <2>4 DEF StartMigrate
<1>9. CASE CollectNothing \/ CollectAborted \/ CollectWarning \/ Leave
  BY <1>9 DEF CollectNothing, CollectAborted, CollectWarning, Draining, Poll, Past, Leave,
              RunHeld, Live
<1>10. CASE CollectOneShot
  <2>1. \E kind \in OneShots : Collected(kind)
    BY <1>10 DEF CollectOneShot, CollectUseless, CollectCheck, CollectSweepCheck,
                 CollectReinstallPlan, CollectUpdatePlan, CollectDowngrade, CollectSearch,
                 CollectVerify, OneShots
  <2> QED BY <2>1 DEF Collected, Poll, Past, RunHeld, Live, OneShots, Batches
<1>11. CASE BeginMember
  <2>1. batch' \in Ledgers
    BY <1>11, LedgerThere, LedgerStepped DEF BeginMember, Draining
  <2>2. job # NoJob /\ job.kind \in Batches
    BY <1>11 DEF BeginMember, Draining, Building
  <2>3. UNCHANGED <<job, queue, pendMigrate>> /\ Live /\ pc # "out"
    BY <1>11 DEF BeginMember, Draining, Poll, Past
  <2> QED BY <2>1, <2>2, <2>3 DEF RunHeld, Live
<1>12. CASE FinishMember
  <2>1. batch' \in Ledgers
    BY <1>12, MemberFinished
  <2>2. job # NoJob /\ job.kind \in Batches /\ job \in Jobs
    BY <1>12 DEF FinishMember, Draining, Building, TypeOK, RunTypes
  <2>3. job' # NoJob /\ job'.kind \in Batches
    BY <1>12, <2>2, JobMarked DEF FinishMember
  <2>4. UNCHANGED <<queue, pendMigrate, dropped>> /\ Live /\ pc # "out"
    BY <1>12 DEF FinishMember, Draining, Poll, Past
  <2>5. queue # NoQueue => pendMigrate # NoRequest
    BY <2>2, <2>4 DEF RunHeld, Batches
  <2> QED BY <2>1, <2>3, <2>4, <2>5 DEF RunHeld, Live
<1>13. CASE FinishBuild
  <2>1. job' = NoJob /\ UNCHANGED dropped /\ Live /\ pc # "out" /\ job # NoJob
    BY <1>13 DEF FinishBuild, Draining, Building, Poll, Past
  <2>2. CASE queue # NoQueue /\ job.kind = "migrate"
    <3>1. UNCHANGED batch /\ \E outcome \in Outcomes : FinishQueueStep(outcome)
      BY <1>13, <2>2 DEF FinishBuild
    <3>2. queue' = NoQueue \/ pendMigrate' \in Migrations
      BY <2>1, <2>2, <3>1, QueueStepped
    <3>3. batch = NoBatch
      BY <2>1, <2>2 DEF RunHeld, Batches
    <3> QED BY <2>1, <3>1, <3>2, <3>3 DEF RunHeld
  <2>3. CASE ~(queue # NoQueue /\ job.kind = "migrate")
    <3>1. UNCHANGED <<queue, pendMigrate>> /\ batch' = NoBatch
      BY <1>13, <2>3 DEF FinishBuild, FinishInstallBatch
    <3> QED BY <2>1, <2>3, <3>1 DEF RunHeld, Batches
  <2> QED BY <2>2, <2>3
<1> QED BY <1>1, <1>2, <1>3, <1>4, <1>5, <1>6, <1>7, <1>8, <1>9, <1>10, <1>11, <1>12,
           <1>13 DEF Next, Press, StartMember, CollectBuild

-----------------------------------------------------------------------------
(* What is asked for while something runs.                                 *)

Lookups == {"sweepCheck", "reinstallPlan", "updatePlan"}

\* Nothing runs and nothing else is waiting; or the program is about to end, and then
\* nothing will be started.
Alone ==
  /\ job = NoJob /\ batch = NoBatch
  /\ shouldQuit \/ (queue = NoQueue /\ pendMigrate = NoRequest)

\* There is never more than one request, so the order of the slots never matters.
OneRequest ==
  \A s, t \in Slot : pend[s] # NoRequest /\ pend[t] # NoRequest => s = t

\* Only an install that somebody typed is asked for beside a job.
RequestInv ==
  \A s \in Slot : pend[s] # NoRequest /\ pend[s].what # "install" => Alone

\* While a sweep or an update is looked up, whatever could start something else
\* is closed.
LookupInv ==
  job # NoJob /\ job.kind \in Lookups =>
    /\ NothingPending /\ input = "none" /\ hits = Nowhere /\ choice = Nowhere
    /\ batch = NoBatch /\ (queue # NoQueue => pendMigrate # NoRequest)
    /\ confirm # NoQuestion => confirm.ask \in {"remove", "migrate", "migrateAll"}

\* And its question is asked of an interface that does nothing else.
AskInv ==
  confirm # NoQuestion /\ confirm.ask \in {"update", "updateAll", "reinstallAll"}
    => NothingPending /\ Alone

LEMMA IdleAlone ==
  ASSUME ~Busy
  PROVE  Alone /\ job = NoJob /\ queue = NoQueue /\ pendMigrate = NoRequest
         /\ batch = NoBatch /\ NothingPending
BY DEF Busy, Alone

\* A request made while none is waiting is the only one.
LEMMA RequestMade ==
  ASSUME TypeOK, NothingPending, NEW s \in Slot, NEW r,
         pend' = [pend EXCEPT ![s] = r],
         r # NoRequest /\ r.what # "install" => Alone'
  PROVE  OneRequest' /\ RequestInv'
<1>1. pend \in [Slot -> Requests \cup {NoRequest}]
  BY DEF TypeOK, RequestTypes, Slot
<1>2. \A t \in Slot : pend[t] = NoRequest
  BY DEF NothingPending, Slot
<1>3. \A t \in Slot : pend'[t] # NoRequest => t = s /\ pend'[t] = r
  BY <1>1, <1>2
<1> QED BY <1>3 DEF OneRequest, RequestInv

LEMMA RequestTaken ==
  ASSUME TypeOK, OneRequest, RequestInv, NEW s \in Slot, pend[s] # NoRequest,
         \/ pend' = [pend EXCEPT ![s] = NoRequest]
         \/ pend' = [pend EXCEPT ![s] = NoRequest, !["terminal"] = pend[s]]
            /\ UNCHANGED <<job, batch, queue, pendMigrate, shouldQuit>>
  PROVE  OneRequest' /\ RequestInv'
<1>1. pend \in [Slot -> Requests \cup {NoRequest}]
  BY DEF TypeOK, RequestTypes, Slot
<1>2. \A t \in Slot : t # s => pend[t] = NoRequest
  BY DEF OneRequest
<1>3. CASE pend' = [pend EXCEPT ![s] = NoRequest]
  <2>1. \A t \in Slot : pend'[t] = NoRequest
    BY <1>1, <1>2, <1>3
  <2> QED BY <2>1 DEF OneRequest, RequestInv
<1>4. CASE pend' = [pend EXCEPT ![s] = NoRequest, !["terminal"] = pend[s]]
           /\ UNCHANGED <<job, batch, queue, pendMigrate, shouldQuit>>
  <2>1. \A t \in Slot : pend'[t] # NoRequest => t = "terminal" /\ pend'[t] = pend[s]
    BY <1>1, <1>2, <1>4, SlotSet
  <2>2. pend[s].what # "install" => Alone'
    BY <1>4 DEF RequestInv, Alone
  <2> QED BY <2>1, <2>2 DEF OneRequest, RequestInv
<1> QED BY <1>3, <1>4

LEMMA RequestInvStep ==
  ASSUME TypeOK, OneRequest, RequestInv, AskInv, Next
  PROVE  OneRequest' /\ RequestInv'
<1> USE DEF queued, running, leaving
<1>1. CASE TakeRequest
  <2>1. CASE RunInTerminal
    BY <2>1, RequestTaken, SlotSet DEF RunInTerminal, Take, Taken
  <2>2. CASE RunInPlace
    <3>1. pend \in [Slot -> Requests \cup {NoRequest}]
      BY DEF TypeOK, RequestTypes, Slot
    <3>2. \/ pend' = [pend EXCEPT !["inPlace"] = NoRequest]
          \/ pend' = [pend EXCEPT !["inPlace"] = NoRequest, !["terminal"] = pend["inPlace"]]
      BY <2>2, <3>1, SlotSet DEF RunInPlace
    <3> QED BY <2>2, <3>2, RequestTaken, SlotSet DEF RunInPlace, Take, Taken
  <2>3. ASSUME NEW s \in {"updateSweep", "reinstallSweep", "installBatch"},
               NEW kind \in Batches, StartBatch(s, kind)
        PROVE  OneRequest' /\ RequestInv'
    <3>1. pend \in [Slot -> Requests \cup {NoRequest}]
      BY DEF TypeOK, RequestTypes, Slot
    <3>2. \/ pend' = [pend EXCEPT ![s] = NoRequest]
          \/ pend' = [pend EXCEPT ![s] = NoRequest, !["terminal"] = pend[s]]
             /\ UNCHANGED <<batch, job>>
      BY <2>3, <3>1, SlotSet DEF StartBatch
    <3> QED BY <2>3, <3>2, RequestTaken, SlotSet DEF StartBatch, Take, Taken
  <2>4. CASE StartBuild
    <3>1. pend \in [Slot -> Requests \cup {NoRequest}]
      BY DEF TypeOK, RequestTypes, Slot
    <3>2. \/ pend' = [pend EXCEPT !["build"] = NoRequest]
          \/ pend' = [pend EXCEPT !["build"] = NoRequest, !["terminal"] = pend["build"]]
             /\ UNCHANGED job
      BY <2>4, <3>1, SlotSet DEF StartBuild
    <3> QED BY <2>4, <3>2, RequestTaken, SlotSet DEF StartBuild, Take, Taken
  <2> QED BY <1>1, <2>1, <2>2, <2>3, <2>4
          DEF TakeRequest, StartConfirmedUpdateSweep, StartConfirmedSweep,
              StartInstallBatch, Batches
<1>2. CASE NothingPending /\ UNCHANGED pend
  BY <1>2 DEF NothingPending, OneRequest, RequestInv, Slot
<1>3. CASE NoKey \/ CtrlC \/ DismissReport \/ AnswerNo \/ AnswerMigrate \/ AnswerMigrateAll
             \/ LeaveInput \/ SubmitSearch \/ RetryLoad \/ Quit \/ Escape \/ Cancel
             \/ StartCheck \/ StartVerify \/ OpenInput \/ PickHit
  <2>1. NothingPending /\ UNCHANGED pend
    BY <1>3 DEF NoKey, CtrlC, DismissReport, AnswerNo, AnswerMigrate, AnswerMigrateAll,
                LeaveInput, SubmitSearch, RetryLoad, Quit, Escape, Cancel, StartCheck,
                StartVerify, OpenInput, PickHit, Answer, Typing, Sound, ListKey, Key
  <2> QED BY <1>2, <2>1
<1>4. CASE StartUpdate \/ StartUpdateSweep \/ StartReinstallSweep \/ StartDowngrade
             \/ RemoveSelected \/ MigrateSelected \/ MigrateEverything \/ Jump
  <2>1. NothingPending /\ UNCHANGED pend
    BY <1>4 DEF StartUpdate, StartUpdateSweep, StartReinstallSweep, StartDowngrade,
                StartLookup, RemoveSelected, MigrateSelected, MigrateEverything, Jump,
                Sound, ListKey, Key
  <2> QED BY <1>2, <2>1
<1>5. CASE AnswerSweep
  <2>1. NothingPending /\ Alone'
    BY <1>5 DEF AnswerSweep, Answer, Key, AskInv, Alone
  <2> QED BY <1>5, <2>1, RequestMade, SlotSet DEF AnswerSweep
<1>6. CASE AnswerRemove
  <2>1. NothingPending
    BY <1>6 DEF AnswerRemove, Answer, Key
  <2>2. CASE UNCHANGED pend
    BY <1>2, <2>1, <2>2
  <2>3. CASE ~Busy /\ pend' = [pend EXCEPT !["inPlace"] = Request("remove", 1)]
    <3>1. Alone'
      BY <1>6, <2>3, IdleAlone DEF AnswerRemove, Answer, Alone
    <3> QED BY <2>1, <2>3, <3>1, RequestMade, SlotSet
  <2> QED BY <1>6, <2>2, <2>3 DEF AnswerRemove
<1>7. CASE SubmitInstall
  <2>1. \A k : Request("install", k).what = "install"
    BY DEF Request
  <2> QED BY <1>7, <2>1, RequestMade, SlotSet DEF SubmitInstall, Typing, Key
<1>8. CASE PickDowngrade \/ StartReinstall \/ PinSelected
  <2>1. NothingPending /\ Alone'
    BY <1>8, IdleAlone DEF PickDowngrade, StartReinstall, PinSelected, Alone
  <2>2. CASE PickDowngrade \/ StartReinstall
    BY <2>1, <2>2, RequestMade, SlotSet DEF PickDowngrade, StartReinstall
  <2>3. CASE PinSelected /\ UNCHANGED pend
    BY <1>2, <2>1, <2>3
  <2>4. CASE PinSelected /\ ~UNCHANGED pend
    BY <2>1, <2>4, RequestMade, SlotSet DEF PinSelected
  <2> QED BY <1>8, <2>2, <2>3, <2>4
<1>9. CASE UNCHANGED pend /\ (Alone => Alone')
  BY <1>9 DEF OneRequest, RequestInv
<1>10. CASE StartMember \/ CollectNothing \/ CollectAborted \/ CollectWarning \/ BeginMember
              \/ FinishMember \/ FinishBuild \/ Leave
  <2>1. UNCHANGED pend
    BY <1>10 DEF StartMember, StopQueue, StartMigrate, CollectNothing, CollectAborted,
                 CollectWarning, BeginMember, FinishMember, FinishBuild, Leave
  <2>2. Alone => Alone'
    BY <1>10 DEF Alone, StartMember, StopQueue, StartMigrate, CollectNothing, CollectAborted,
                 CollectWarning, BeginMember, FinishMember, FinishBuild, Leave, Draining,
                 Building
  <2> QED BY <1>9, <2>1, <2>2
<1>11. CASE CollectOneShot
  <2>1. \E kind \in OneShots : Collected(kind)
    BY <1>11 DEF CollectOneShot, CollectUseless, CollectCheck, CollectSweepCheck,
                 CollectReinstallPlan, CollectUpdatePlan, CollectDowngrade, CollectSearch,
                 CollectVerify, OneShots
  <2>2. UNCHANGED pend /\ ~Alone
    BY <2>1 DEF Collected, Alone
  <2> QED BY <1>9, <2>2
<1> QED BY <1>1, <1>3, <1>4, <1>5, <1>6, <1>7, <1>8, <1>10, <1>11
        DEF Next, Press, CollectBuild

\* Whatever is put into the slot by a line, a check or a verify is no lookup.
LEMMA OtherJob ==
  ASSUME NEW kind \in (OneShots \cup Builds) \ Lookups, NEW crate, Occupy(Job(kind, crate))
  PROVE  job'.kind \notin Lookups
BY DEF Occupy, Job

LEMMA LookupStep ==
  ASSUME TypeOK, LookupInv, Next
  PROVE  LookupInv'
<1> USE DEF panels, asked, queued, running
<1>1. CASE TakeRequest
  <2>1. ~NothingPending
    BY <1>1, SlotSet DEF TakeRequest, RunInTerminal, RunInPlace, StartConfirmedUpdateSweep,
          StartConfirmedSweep, StartInstallBatch, StartBatch, StartBuild, Take, Taken,
          NothingPending, Slot
  <2>2. CASE UNCHANGED job
    BY <2>1, <2>2 DEF LookupInv
  <2>3. CASE ~UNCHANGED job
    <3>1. \E kind \in Batches \cup {pend["build"].what} : Occupy(Job(kind, NoCrate))
      BY <1>1, <2>3 DEF TakeRequest, RunInTerminal, RunInPlace, StartConfirmedUpdateSweep,
         StartConfirmedSweep, StartInstallBatch, StartBatch, StartBuild, Batches
    <3>2. StartBuild => pend["build"].what \in Singles
      BY SlotSet DEF StartBuild, Take, Taken, TypeOK, RequestTypes, Slot, WorkOf
    <3>3. \E kind \in Batches \cup Singles : Occupy(Job(kind, NoCrate))
      BY <1>1, <2>3, <3>2 DEF TakeRequest, RunInTerminal, RunInPlace,
         StartConfirmedUpdateSweep, StartConfirmedSweep, StartInstallBatch, StartBatch,
         StartBuild, Batches
    <3>4. Batches \cup Singles \subseteq (OneShots \cup Builds) \ Lookups
      BY DEF Batches, Singles, OneShots, Builds, Lookups
    <3> QED BY <3>3, <3>4, OtherJob DEF LookupInv
  <2> QED BY <2>2, <2>3
<1>2. CASE NoKey \/ DismissReport \/ AnswerNo \/ LeaveInput \/ RetryLoad \/ Quit \/ Escape
             \/ RemoveSelected \/ MigrateSelected \/ MigrateEverything
  <2>1. UNCHANGED <<job, pend, pendMigrate, queue, batch>>
    BY <1>2 DEF NoKey, DismissReport, AnswerNo, Answer, LeaveInput, RetryLoad, Quit, Escape,
                RemoveSelected, MigrateSelected, MigrateEverything
  <2>2. /\ input' \in {input, "none"} /\ hits' \in {hits, Nowhere}
        /\ choice' \in {choice, Nowhere}
        /\ \/ confirm' \in {confirm, NoQuestion}
           \/ confirm'.ask \in {"remove", "migrate", "migrateAll"}
    BY <1>2 DEF NoKey, DismissReport, AnswerNo, Answer, LeaveInput, Typing, RetryLoad, Quit,
                Escape, RemoveSelected, MigrateSelected, MigrateEverything, Reload, Question
  <2> QED BY <2>1, <2>2 DEF LookupInv, NothingPending
<1>3. CASE CtrlC \/ Cancel
  <2>1. job' # NoJob => job # NoJob /\ job'.kind = job.kind
    <3>1. job' = job \/ (job # NoJob /\ job' = [job EXCEPT !.cancel = TRUE])
      BY <1>3 DEF CtrlC, Cancel, CancelJob
    <3>2. CASE job' = job
      BY <3>2
    <3>3. CASE job # NoJob /\ job' = [job EXCEPT !.cancel = TRUE]
      <4>1. job \in Jobs
        BY <3>3 DEF TypeOK, RunTypes
      <4> QED BY <3>3, <4>1, JobMarked
    <3> QED BY <3>1, <3>2, <3>3
  <2>2. /\ UNCHANGED <<pend, pendMigrate, batch, input, hits, choice, confirm>>
        /\ queue = NoQueue => queue' = NoQueue
    BY <1>3 DEF CtrlC, Cancel
  <2> QED BY <2>1, <2>2 DEF LookupInv, NothingPending
<1>4. CASE AnswerSweep \/ SubmitInstall \/ OpenInput \/ PickDowngrade \/ PickHit
             \/ StartReinstall \/ PinSelected \/ Jump
  <2>1. UNCHANGED job
    BY <1>4 DEF AnswerSweep, Answer, SubmitInstall, OpenInput, PickDowngrade, PickHit,
                StartReinstall, PinSelected, Jump
  <2>2. ~(job # NoJob /\ job.kind \in Lookups)
    BY <1>4 DEF AnswerSweep, Answer, SubmitInstall, Typing, OpenInput, PickDowngrade, PickHit,
                StartReinstall, PinSelected, Jump, Busy, LookupInv
  <2> QED BY <2>1, <2>2 DEF LookupInv
<1>5. CASE AnswerRemove
  <2>1. CASE Busy
    BY <1>5, <2>1 DEF AnswerRemove, Answer, LookupInv, NothingPending, Mutate
  <2>2. CASE ~Busy
    BY <1>5, <2>2, IdleAlone DEF AnswerRemove, Answer, LookupInv
  <2> QED BY <2>1, <2>2
<1>6. CASE AnswerMigrate \/ AnswerMigrateAll
  <2>1. confirm.plan \in Seq(Crates) /\ confirm.plan # <<>>
    BY <1>6 DEF AnswerMigrate, AnswerMigrateAll, Answer, TypeOK, ScreenTypes, Questions
  <2>2. Head(confirm.plan) \in Crates
    BY <2>1
  <2>3. pendMigrate' \in Migrations
    BY <1>6, <2>2 DEF AnswerMigrate, AnswerMigrateAll, Migrations, TypeOK, LoopTypes
  <2>4. pendMigrate' # NoRequest
    BY <2>3, AppAssumption DEF AppAssumption
  <2> QED BY <1>6, <2>4 DEF AnswerMigrate, AnswerMigrateAll, Answer, LookupInv, NothingPending
<1>7. CASE SubmitSearch \/ StartCheck \/ StartVerify \/ StartDowngrade
  <2>1. CASE UNCHANGED job
    BY <1>7, <2>1 DEF SubmitSearch, Typing, StartCheck, StartVerify, StartDowngrade,
                      StartLookup, Busy, LookupInv
  <2>2. CASE \E kind \in {"search", "check", "verify", "downgrade"} :
               Occupy(Job(kind, NoCrate))
    BY <2>2, OtherJob DEF LookupInv, OneShots, Lookups
  <2> QED BY <1>7, <2>1, <2>2 DEF SubmitSearch, StartCheck, StartVerify, StartDowngrade,
                                  StartLookup
<1>8. CASE StartUpdate \/ StartUpdateSweep \/ StartReinstallSweep
  BY <1>8, IdleAlone DEF StartUpdate, StartUpdateSweep, StartReinstallSweep, StartLookup,
                         Sound, ListKey, LookupInv, NothingPending
<1>9. CASE StopQueue
  BY <1>9 DEF StopQueue, Finalize, LookupInv, NothingPending
<1>10. CASE StartMigrate
  <2>1. CASE job # NoJob
    <3>1. UNCHANGED <<job, pend, batch, input, hits, choice, confirm>> /\ queue' = NoQueue
      BY <1>10, <2>1 DEF StartMigrate, RefuseMigration, Finalize
    <3> QED BY <3>1 DEF LookupInv, NothingPending
  <2>2. CASE job = NoJob
    <3>1. job' = NoJob \/ Occupy(Job("migrate", pendMigrate.crate))
      BY <1>10, <2>2 DEF StartMigrate, RefuseMigration, BeginMigration
    <3> QED BY <3>1, OtherJob DEF LookupInv, Builds, Lookups
  <2> QED BY <2>1, <2>2
<1>11. CASE CollectNothing \/ CollectAborted \/ Leave
  BY <1>11 DEF CollectNothing, CollectAborted, Leave, LookupInv, NothingPending
<1>12. CASE CollectWarning \/ BeginMember \/ FinishMember
  <2>1. job.kind \in Builds /\ job \in Jobs
    BY <1>12 DEF CollectWarning, BeginMember, FinishMember, Draining, Building, TypeOK,
                 RunTypes
  <2>2. job'.kind = job.kind
    BY <1>12, <2>1, JobMarked DEF CollectWarning, BeginMember, FinishMember
  <2> QED BY <2>1, <2>2 DEF LookupInv, Builds, Singles, Batches, Lookups
<1>13. CASE CollectOneShot \/ FinishBuild
  BY <1>13 DEF CollectOneShot, CollectUseless, CollectCheck, CollectSweepCheck,
               CollectReinstallPlan, CollectUpdatePlan, CollectDowngrade, CollectSearch,
               CollectVerify, Collected, FinishBuild, LookupInv
<1> QED BY <1>1, <1>2, <1>3, <1>4, <1>5, <1>6, <1>7, <1>8, <1>9, <1>10, <1>11, <1>12,
           <1>13 DEF Next, Press, StartMember, CollectBuild

LEMMA AskStep ==
  ASSUME TypeOK, LookupInv, AskInv, Next
  PROVE  AskInv'
<1> USE DEF panels, asked, queued, running, leaving
<1>1. CASE TakeRequest
  <2>1. ~NothingPending /\ UNCHANGED confirm
    BY <1>1, SlotSet DEF TakeRequest, RunInTerminal, RunInPlace, StartConfirmedUpdateSweep,
          StartConfirmedSweep, StartInstallBatch, StartBatch, StartBuild, Take, Taken,
          NothingPending, Slot
  <2> QED BY <2>1 DEF AskInv
<1>2. CASE NoKey \/ CtrlC
  BY <1>2 DEF NoKey, CtrlC, CancelJob, AskInv, Alone, NothingPending
<1>3. CASE AnswerNo \/ AnswerSweep \/ AnswerRemove \/ AnswerMigrate \/ AnswerMigrateAll
  BY <1>3 DEF AnswerNo, AnswerSweep, AnswerRemove, AnswerMigrate, AnswerMigrateAll, Answer,
              AskInv
<1>4. CASE DismissReport \/ LeaveInput \/ SubmitInstall \/ SubmitSearch \/ RetryLoad \/ Quit
             \/ Escape \/ Cancel \/ StartCheck \/ StartVerify \/ OpenInput \/ PickDowngrade
             \/ PickHit \/ StartReinstall \/ PinSelected \/ Jump
  BY <1>4 DEF DismissReport, LeaveInput, SubmitInstall, SubmitSearch, Typing, RetryLoad, Quit,
              Escape, Cancel, StartCheck, StartVerify, OpenInput, PickDowngrade, PickHit,
              StartReinstall, PinSelected, Jump, Sound, ListKey, AskInv
<1>5. CASE StartUpdate \/ StartUpdateSweep \/ StartReinstallSweep \/ StartDowngrade
             \/ RemoveSelected \/ MigrateSelected \/ MigrateEverything
  BY <1>5 DEF StartUpdate, StartUpdateSweep, StartReinstallSweep, StartDowngrade,
              StartLookup, RemoveSelected, MigrateSelected, MigrateEverything, Question,
              Sound, ListKey, AskInv
<1>6. CASE StartMember
  BY <1>6 DEF StartMember, StopQueue, StartMigrate, AskInv, Alone
<1>7. CASE CollectNothing \/ Leave
  BY <1>7 DEF CollectNothing, Leave, AskInv, Alone, NothingPending
<1>8. CASE CollectAborted \/ CollectWarning \/ BeginMember \/ FinishMember \/ FinishBuild
  BY <1>8 DEF CollectAborted, CollectWarning, BeginMember, FinishMember, FinishBuild,
              Draining, Building, AskInv, Alone
<1>9. CASE CollectUseless \/ CollectCheck \/ CollectDowngrade \/ CollectSearch \/ CollectVerify
  BY <1>9 DEF CollectUseless, CollectCheck, CollectDowngrade, CollectSearch, CollectVerify,
               Collected, AskInv, Alone
<1>10. CASE CollectSweepCheck \/ CollectReinstallPlan \/ CollectUpdatePlan
  <2>1. \E kind \in Lookups : Collected(kind)
    BY <1>10 DEF CollectSweepCheck, CollectReinstallPlan, CollectUpdatePlan, Lookups
  <2>2. /\ NothingPending /\ batch = NoBatch
        /\ shouldQuit \/ (queue = NoQueue /\ pendMigrate = NoRequest)
    BY <2>1 DEF Collected, Poll, LookupInv
  <2>3. job' = NoJob /\ UNCHANGED <<pend, pendMigrate, queue, batch, shouldQuit>>
    BY <2>1 DEF Collected
  <2> QED BY <2>2, <2>3 DEF AskInv, Alone, NothingPending
<1> QED BY <1>1, <1>2, <1>3, <1>4, <1>5, <1>6, <1>7, <1>8, <1>9, <1>10
        DEF Next, Press, CollectOneShot, CollectBuild

-----------------------------------------------------------------------------
(* The properties.                                                         *)

LEMMA ShownStep ==
  ASSUME AskInv, PlanShown, Next
  PROVE  PlanShown'
<1> USE DEF panels, asked, running, OwnsReport
<1>1. CASE TakeRequest
  <2>1. ~NothingPending /\ UNCHANGED confirm
    BY <1>1, SlotSet DEF TakeRequest, RunInTerminal, RunInPlace, StartConfirmedUpdateSweep,
          StartConfirmedSweep, StartInstallBatch, StartBatch, StartBuild, Take, Taken,
          NothingPending, Slot
  <2> QED BY <2>1 DEF AskInv, PlanShown
<1>2. CASE NoKey \/ CtrlC
  BY <1>2 DEF NoKey, CtrlC, PlanShown
<1>3. CASE AnswerNo \/ AnswerSweep \/ AnswerRemove \/ AnswerMigrate \/ AnswerMigrateAll
  BY <1>3 DEF AnswerNo, AnswerSweep, AnswerRemove, AnswerMigrate, AnswerMigrateAll, Answer,
              PlanShown
<1>4. CASE DismissReport \/ LeaveInput \/ SubmitInstall \/ SubmitSearch \/ RetryLoad \/ Quit
             \/ Escape \/ Cancel \/ StartCheck \/ StartVerify \/ OpenInput \/ PickDowngrade
             \/ PickHit \/ StartReinstall \/ PinSelected \/ Jump
  BY <1>4 DEF DismissReport, LeaveInput, SubmitInstall, SubmitSearch, Typing, RetryLoad, Quit,
              Escape, Cancel, StartCheck, StartVerify, OpenInput, PickDowngrade, PickHit,
              StartReinstall, PinSelected, Jump, Sound, ListKey, PlanShown
<1>5. CASE StartUpdate \/ StartUpdateSweep \/ StartReinstallSweep \/ StartDowngrade
             \/ RemoveSelected \/ MigrateSelected \/ MigrateEverything
  BY <1>5 DEF StartUpdate, StartUpdateSweep, StartReinstallSweep, StartDowngrade,
              StartLookup, RemoveSelected, MigrateSelected, MigrateEverything, Question,
              Sound, ListKey, PlanShown
<1>6. CASE StartMember
  BY <1>6 DEF StartMember, StopQueue, StartMigrate, AskInv, Alone, PlanShown
<1>7. CASE CollectNothing \/ CollectAborted \/ BeginMember \/ FinishMember \/ Leave
  BY <1>7 DEF CollectNothing, CollectAborted, BeginMember, FinishMember, Leave, PlanShown
<1>8. CASE CollectWarning \/ FinishBuild
  BY <1>8 DEF CollectWarning, FinishBuild, Draining, Building, AskInv, Alone, PlanShown
<1>9. CASE CollectUseless \/ CollectCheck \/ CollectDowngrade \/ CollectSearch \/ CollectVerify
  BY <1>9 DEF CollectUseless, CollectCheck, CollectDowngrade, CollectSearch, CollectVerify,
              Collected, AskInv, Alone, PlanShown
<1>10. CASE CollectSweepCheck
  BY <1>10 DEF CollectSweepCheck, Collected, Question, AskInv, Alone, PlanShown
<1>11. CASE CollectReinstallPlan \/ CollectUpdatePlan
  BY <1>11 DEF CollectReinstallPlan, CollectUpdatePlan, Question, PlanShown
<1> QED BY <1>1, <1>2, <1>3, <1>4, <1>5, <1>6, <1>7, <1>8, <1>9, <1>10, <1>11
        DEF Next, Press, CollectOneShot, CollectBuild

\* The part of MutationAlone that is about the worker let go of.
LEMMA SlotKept ==
  ASSUME TypeOK, RequestInv, dropped \in {"no", "install", "list", "search"}, Next
  PROVE  dropped' \in {"no", "install", "list", "search"}
<1> USE DEF running
<1>1. CASE TakeRequest
  <2>1. ASSUME NEW s \in {"updateSweep", "reinstallSweep", "installBatch"},
               NEW kind \in Batches, StartBatch(s, kind),
               s = "installBatch" => kind = "list"
        PROVE  dropped' \in {"no", "install", "list", "search"}
    <3>1. pend[s] # NoRequest /\ ~shouldQuit
      BY <2>1 DEF StartBatch, Take, Taken
    <3>2. CASE s = "installBatch"
      BY <2>1, <3>2 DEF StartBatch, Occupy, Job
    <3>3. CASE s # "installBatch"
      <4>1. pend[s].what # "install"
        BY <3>1, <3>3, SlotSet DEF TypeOK, RequestTypes, Slot, WorkOf
      <4>2. job = NoJob
        BY <3>1, <4>1, SlotSet DEF RequestInv, Alone
      <4> QED BY <2>1, <4>2 DEF StartBatch, Occupy
    <3> QED BY <3>2, <3>3
  <2>2. CASE StartBuild
    <3>1. pend["build"] # NoRequest
      BY <2>2 DEF StartBuild, Take, Taken
    <3>2. CASE pend["build"].what = "install"
      BY <2>2, <3>2 DEF StartBuild, Occupy, Job
    <3>3. CASE pend["build"].what # "install"
      <4>1. job = NoJob
        BY <3>1, <3>3, SlotSet DEF RequestInv, Alone
      <4> QED BY <2>2, <4>1 DEF StartBuild, Occupy
    <3> QED BY <3>2, <3>3
  <2>3. CASE RunInTerminal \/ RunInPlace
    BY <2>3 DEF RunInTerminal, RunInPlace
  <2> QED BY <1>1, <2>1, <2>2, <2>3
          DEF TakeRequest, StartConfirmedUpdateSweep, StartConfirmedSweep,
              StartInstallBatch, Batches
<1>2. CASE SubmitSearch \/ StartCheck \/ StartVerify \/ StartUpdate \/ StartUpdateSweep
             \/ StartReinstallSweep \/ StartDowngrade \/ StartMigrate
  BY <1>2 DEF SubmitSearch, StartCheck, StartVerify, StartUpdate, StartUpdateSweep,
              StartReinstallSweep, StartDowngrade, StartLookup, StartMigrate, RefuseMigration,
              BeginMigration, Finalize, Occupy, Job, Busy
<1>3. CASE NoKey \/ CtrlC \/ DismissReport \/ AnswerNo \/ AnswerSweep \/ AnswerRemove
             \/ AnswerMigrate \/ AnswerMigrateAll \/ LeaveInput \/ SubmitInstall
             \/ RetryLoad \/ Quit \/ Escape \/ Cancel \/ OpenInput \/ PickDowngrade
             \/ PickHit
  BY <1>3 DEF NoKey, CtrlC, DismissReport, AnswerNo, AnswerSweep, AnswerRemove,
              AnswerMigrate, AnswerMigrateAll, Answer, LeaveInput, SubmitInstall, RetryLoad,
              Quit, Escape, Cancel, OpenInput, PickDowngrade, PickHit
<1>4. CASE StartReinstall \/ PinSelected \/ RemoveSelected \/ MigrateSelected
             \/ MigrateEverything \/ Jump \/ StopQueue \/ CollectNothing \/ CollectAborted
             \/ CollectWarning \/ CollectBuild \/ CollectOneShot \/ Leave
  BY <1>4 DEF StartReinstall, PinSelected, RemoveSelected, MigrateSelected,
              MigrateEverything, Jump, StopQueue, CollectNothing, CollectAborted,
              CollectWarning, CollectBuild, BeginMember, FinishMember, FinishBuild, Leave,
              CollectOneShot, CollectUseless, CollectCheck, CollectSweepCheck,
              CollectReinstallPlan, CollectUpdatePlan, CollectDowngrade, CollectSearch,
              CollectVerify, Collected
<1> QED BY <1>1, <1>2, <1>3, <1>4 DEF Next, Press, StartMember

LEMMA AloneStep ==
  ASSUME TypeOK, RequestInv, MutationAlone, Next
  PROVE  MutationAlone'
<1> USE DEF queued, running, leaving
<1>1. dropped' \in {"no", "install", "list", "search"}
  BY SlotKept DEF MutationAlone
<1> DEFINE Still == job' = NoJob /\ queue' = NoQueue /\ batch' = NoBatch
                      /\ pendMigrate' = NoRequest
\* A step that records neither a change in place nor a command has nothing to show.
<1>2. CASE event' = NoEvent
  BY <1>1, <1>2 DEF MutationAlone, Did
<1>3. CASE Still
  BY <1>1, <1>3 DEF MutationAlone
<1>4. CASE event'.what \in {"migrated", "batch"}
  BY <1>1, <1>4 DEF MutationAlone, Did
<1>5. CASE TakeRequest
  <2>1. CASE StartConfirmedUpdateSweep \/ StartConfirmedSweep \/ StartInstallBatch \/ StartBuild
    BY <1>2, <2>1 DEF StartConfirmedUpdateSweep, StartConfirmedSweep, StartInstallBatch,
                      StartBatch, StartBuild, Quiet
  <2>2. CASE RunInPlace
    <3>1. pend["inPlace"] # NoRequest /\ ~shouldQuit
      BY <2>2 DEF RunInPlace, Take, Taken
    <3>2. pend["inPlace"].what # "install"
      BY <3>1, SlotSet DEF TypeOK, RequestTypes, Slot, WorkOf
    <3>3. Still
      BY <2>2, <3>1, <3>2, SlotSet DEF RunInPlace, RequestInv, Alone
    <3> QED BY <1>3, <3>3
  <2>3. CASE RunInTerminal
    <3>1. pend["terminal"] # NoRequest /\ ~shouldQuit
      BY <2>3 DEF RunInTerminal, Take, Taken
    <3>2. CASE pend["terminal"].what = "install"
      <4>1. event'.what = "terminal" /\ event'.work = "install"
        BY <2>3, <3>2 DEF RunInTerminal
      <4> QED BY <1>1, <4>1 DEF MutationAlone, Did
    <3>3. CASE pend["terminal"].what # "install"
      <4>1. Still
        BY <2>3, <3>1, <3>3, SlotSet DEF RunInTerminal, RequestInv, Alone
      <4> QED BY <1>3, <4>1
    <3> QED BY <3>2, <3>3
  <2> QED BY <1>5, <2>1, <2>2, <2>3 DEF TakeRequest
<1>6. CASE AnswerRemove
  <2>1. CASE Busy
    BY <1>2, <1>6, <2>1 DEF AnswerRemove, Quiet
  <2>2. CASE ~Busy
    BY <1>3, <1>6, <2>2, IdleAlone DEF AnswerRemove, Answer
  <2> QED BY <2>1, <2>2
<1>7. CASE PinSelected
  BY <1>3, <1>7, IdleAlone DEF PinSelected
<1>8. CASE NoKey \/ CtrlC \/ DismissReport \/ AnswerNo \/ AnswerSweep \/ AnswerMigrate
             \/ AnswerMigrateAll \/ LeaveInput \/ SubmitInstall \/ SubmitSearch \/ RetryLoad
             \/ Quit \/ Escape \/ Cancel \/ StartCheck \/ StartVerify \/ OpenInput
             \/ PickDowngrade \/ PickHit
  BY <1>2, <1>8 DEF NoKey, CtrlC, DismissReport, AnswerNo, AnswerSweep, AnswerMigrate,
     AnswerMigrateAll, LeaveInput, SubmitInstall, SubmitSearch, Typing, RetryLoad, Quit,
     Escape, Cancel, StartCheck, StartVerify, OpenInput, PickDowngrade, PickHit, Quiet
<1>9. CASE StartUpdate \/ StartUpdateSweep \/ StartReinstallSweep \/ StartDowngrade
             \/ StartReinstall \/ RemoveSelected \/ MigrateSelected \/ MigrateEverything
             \/ Jump
  BY <1>2, <1>9 DEF StartUpdate, StartUpdateSweep, StartReinstallSweep, StartDowngrade,
     StartLookup, StartReinstall, RemoveSelected, MigrateSelected, MigrateEverything, Jump,
     Quiet
<1>10. CASE StartMember
  <2>1. event' = NoEvent \/ event'.what = "migrated"
    BY <1>10 DEF StartMember, StopQueue, StartMigrate, RefuseMigration, BeginMigration,
                 Finalize, Quiet
  <2> QED BY <1>2, <1>4, <2>1
<1>11. CASE CollectNothing \/ CollectAborted \/ CollectWarning \/ BeginMember
              \/ FinishMember \/ Leave \/ CollectOneShot
  BY <1>2, <1>11 DEF CollectNothing, CollectAborted, CollectWarning, BeginMember,
     FinishMember, Leave, CollectOneShot, CollectUseless, CollectCheck, CollectSweepCheck,
     CollectReinstallPlan, CollectUpdatePlan, CollectDowngrade, CollectSearch,
     CollectVerify, Collected, Quiet
<1>12. CASE FinishBuild
  <2>1. event' = NoEvent \/ event'.what \in {"migrated", "batch"}
    BY <1>12 DEF FinishBuild, FinishQueueStep, Finalize, Advance, FinishInstallBatch,
                 FinishOne, Quiet
  <2> QED BY <1>2, <1>4, <2>1
<1> QED BY <1>5, <1>6, <1>7, <1>8, <1>9, <1>10, <1>11, <1>12 DEF Next, Press, CollectBuild

IInv ==
  /\ TypeOK /\ AllHere /\ RunHeld
  /\ OneRequest /\ RequestInv /\ LookupInv /\ AskInv
  /\ PlanShown /\ MutationAlone

LEMMA InitIInv ==
  ASSUME Init
  PROVE  IInv
<1> USE DEF Init
<1>1. TypeOK
  BY DEF TypeOK, LoopTypes, ScreenTypes, RequestTypes, RunTypes
<1>2. AllHere
  BY DEF AllHere
<1>3. RunHeld
  BY DEF RunHeld
<1>4. OneRequest /\ RequestInv
  BY DEF OneRequest, RequestInv, Slot
<1>5. LookupInv /\ AskInv /\ PlanShown
  BY DEF LookupInv, AskInv, PlanShown, OwnsReport
<1>6. MutationAlone
  BY DEF MutationAlone, Did
<1> QED BY <1>1, <1>2, <1>3, <1>4, <1>5, <1>6 DEF IInv

LEMMA IInvStep ==
  ASSUME IInv, [Next]_vars
  PROVE  IInv'
<1> USE DEF IInv
<1>1. CASE Next
  <2>1. TypeOK'
    BY TypeStep
  <2>2. AllHere' /\ RunHeld'
    BY <1>1, HereStep, HeldStep
  <2>3. OneRequest' /\ RequestInv'
    BY <1>1, RequestInvStep
  <2>4. LookupInv' /\ AskInv' /\ PlanShown' /\ MutationAlone'
    BY <1>1, LookupStep, AskStep, ShownStep, AloneStep
  <2> QED BY <2>1, <2>2, <2>3, <2>4
<1>2. CASE UNCHANGED vars
  <2> USE <1>2 DEF vars, here, panels, asked, queued, running, leaving
  <2>1. TypeOK'
    BY TypeStep
  <2>2. AllHere' /\ RunHeld'
    BY DEF AllHere, RunHeld, Live
  <2>3. OneRequest' /\ RequestInv' /\ LookupInv' /\ AskInv'
    BY DEF OneRequest, RequestInv, LookupInv, AskInv, Alone, NothingPending
  <2>4. PlanShown' /\ MutationAlone'
    BY DEF PlanShown, OwnsReport, MutationAlone, Did
  <2> QED BY <2>1, <2>2, <2>3, <2>4
<1> QED BY <1>1, <1>2

\* What holds always of the loop, whatever is pressed and whatever the workers answer
\* (App::run).
THEOREM InductiveInvariant == Spec => []IInv
<1>1. Init => IInv
  BY InitIInv
<1>2. IInv /\ [Next]_vars => IInv'
  BY IInvStep
<1> QED BY <1>1, <1>2, PTL DEF Spec

\* Every job, question, request, queue and ledger is of its kind, and a queue's worker
\* is about one of the crates (Job, BatchRunner, InstallBatch).
THEOREM TypeCorrect == Spec => []TypeOK
<1>1. IInv => TypeOK
  BY DEF IInv
<1> QED BY <1>1, InductiveInvariant, PTL

\* Whatever is on screen, running or waiting is about the prefix the interface is at,
\* and never about the other one (jump_to_prefix, anything_running).
THEOREM EverythingHere == Spec => []AllHere
<1>1. IInv => AllHere
  BY DEF IInv
<1> QED BY <1>1, InductiveInvariant, PTL

\* No sweep is confirmed unread (owns_report).
THEOREM NeverUnread == Spec => []PlanShown
<1>1. IInv => PlanShown
  BY DEF IInv
<1> QED BY <1>1, InductiveInvariant, PTL

\* A removal or a pin runs with nothing else, and only a typed line puts a job over
\* one still running (remove_confirmed, run_in_place).
THEOREM MutatesAlone == Spec => []MutationAlone
<1>1. IInv => MutationAlone
  BY DEF IInv
<1> QED BY <1>1, InductiveInvariant, PTL

\* A queue always has its next member asked for or building, a ledger its worker
\* (start_migrate, finish_batch_step).
THEOREM RunsHeld == Spec => []RunHeld
<1>1. IInv => RunHeld
  BY DEF IInv
<1> QED BY <1>1, InductiveInvariant, PTL

-----------------------------------------------------------------------------
(* What a step may never do.                                               *)

\* A migration is only ever put into an empty slot past the key, at the door that asks
\* whether the queue was told to stop.
LEMMA HeededStep ==
  ASSUME TypeOK, Next, queue # NoQueue, queue.stopping, job = NoJob, job' # NoJob
  PROVE  job'.kind # "migrate"
<1> USE DEF running
<1>1. CASE TakeRequest
  <2>1. StartBuild => pend["build"].what \in Singles
    BY SlotSet DEF StartBuild, Take, Taken, TypeOK, RequestTypes, Slot, WorkOf
  <2>2. \E kind \in Batches \cup Singles : Occupy(Job(kind, NoCrate))
    BY <1>1, <2>1 DEF TakeRequest, RunInTerminal, RunInPlace, StartConfirmedUpdateSweep,
       StartConfirmedSweep, StartInstallBatch, StartBatch, StartBuild, Batches
  <2> QED BY <2>2 DEF Occupy, Job, Batches, Singles
<1>2. CASE SubmitSearch \/ StartCheck \/ StartVerify
  BY <1>2 DEF SubmitSearch, StartCheck, StartVerify, Occupy, Job
<1>3. CASE StartUpdate \/ StartUpdateSweep \/ StartReinstallSweep \/ StartDowngrade
  BY <1>3 DEF StartUpdate, StartUpdateSweep, StartReinstallSweep, StartDowngrade,
              StartLookup, Occupy, Job
<1>4. CASE StartMember
  BY <1>4 DEF StartMember, StopQueue, StartMigrate, MayStart
<1>5. CASE NoKey \/ CtrlC \/ DismissReport \/ AnswerNo \/ AnswerSweep \/ AnswerRemove
             \/ AnswerMigrate \/ AnswerMigrateAll \/ LeaveInput \/ SubmitInstall
  BY <1>5 DEF NoKey, CtrlC, CancelJob, DismissReport, Answer, AnswerNo, AnswerSweep,
              AnswerRemove, AnswerMigrate, AnswerMigrateAll, LeaveInput, SubmitInstall
<1>6. CASE RetryLoad \/ Quit \/ Escape \/ Cancel \/ OpenInput \/ PickDowngrade \/ PickHit
             \/ StartReinstall \/ PinSelected \/ RemoveSelected
  BY <1>6 DEF RetryLoad, Quit, Escape, Cancel, CancelJob, OpenInput, PickDowngrade, PickHit,
              StartReinstall, PinSelected, RemoveSelected
<1>7. CASE MigrateSelected \/ MigrateEverything \/ Jump \/ CollectNothing \/ CollectAborted
             \/ CollectOneShot \/ Leave
  BY <1>7 DEF MigrateSelected, MigrateEverything, Jump, CollectNothing, CollectAborted,
              CollectOneShot, CollectUseless, CollectCheck, CollectSweepCheck,
              CollectReinstallPlan, CollectUpdatePlan, CollectDowngrade, CollectSearch,
              CollectVerify, Collected, Leave
<1>8. CASE CollectWarning \/ CollectBuild
  BY <1>8 DEF CollectWarning, CollectBuild, BeginMember, FinishMember, FinishBuild, Draining,
              Building
<1> QED BY <1>1, <1>2, <1>3, <1>4, <1>5, <1>6, <1>7, <1>8 DEF Next, Press

\* The two halves of AnswersWanted.
UselessStays ==
  job # NoJob /\ job.kind \in OneShots /\ job.cancel /\ job' = NoJob
    => UNCHANGED <<confirm, panels, degraded>>

AskedStays ==
  pc = "tail" /\ confirm # NoQuestion /\ confirm' # confirm
    => /\ job # NoJob /\ ~job.cancel
       /\ job.kind \in {"sweepCheck", "reinstallPlan", "updatePlan"}

\* A job that is there goes away only when it is collected.
LEMMA Collecting ==
  ASSUME TypeOK, Next, job # NoJob, job' = NoJob
  PROVE  CollectAborted \/ CollectOneShot \/ FinishBuild
<1> USE DEF running
<1>1. \A kind \in OneShots \cup Builds, crate \in Crates \cup {NoCrate} :
        Job(kind, crate) # NoJob
  BY JobTyped, AppAssumption DEF AppAssumption, TypeOK, LoopTypes
<1>2. CancelJob # NoJob /\ [job EXCEPT !.over = TRUE] # NoJob
  BY JobMarked, AppAssumption DEF AppAssumption, TypeOK, RunTypes, CancelJob
<1>3. ~TakeRequest
  <2>1. StartBuild => pend["build"].what \in Singles
    BY SlotSet DEF StartBuild, Take, Taken, TypeOK, RequestTypes, Slot, WorkOf
  <2>2. TakeRequest =>
          UNCHANGED job \/ \E kind \in Batches \cup Singles : job' = Job(kind, NoCrate)
    BY <2>1 DEF TakeRequest, RunInTerminal, RunInPlace, StartConfirmedUpdateSweep,
       StartConfirmedSweep, StartInstallBatch, StartBatch, StartBuild, Batches, Occupy
  <2> QED BY <1>1, <2>2 DEF Builds
<1>4. ~(SubmitSearch \/ StartCheck \/ StartVerify \/ StartUpdate \/ StartUpdateSweep
          \/ StartReinstallSweep \/ StartDowngrade)
  BY <1>1 DEF SubmitSearch, StartCheck, StartVerify, StartUpdate, StartUpdateSweep,
     StartReinstallSweep, StartDowngrade, StartLookup, Busy, Occupy, OneShots
<1>5. ~(NoKey \/ CtrlC \/ DismissReport \/ AnswerNo \/ AnswerSweep \/ AnswerRemove
          \/ AnswerMigrate \/ AnswerMigrateAll \/ LeaveInput \/ SubmitInstall)
  BY <1>2 DEF NoKey, CtrlC, DismissReport, Answer, AnswerNo, AnswerSweep, AnswerRemove,
              AnswerMigrate, AnswerMigrateAll, LeaveInput, SubmitInstall
<1>6. ~(RetryLoad \/ Quit \/ Escape \/ Cancel \/ OpenInput \/ PickDowngrade \/ PickHit
          \/ StartReinstall \/ PinSelected \/ RemoveSelected)
  BY <1>2 DEF RetryLoad, Quit, Escape, Cancel, OpenInput, PickDowngrade, PickHit,
              StartReinstall, PinSelected, RemoveSelected
<1>7. ~(MigrateSelected \/ MigrateEverything \/ Jump \/ CollectNothing \/ Leave
          \/ StartMember)
  BY DEF MigrateSelected, MigrateEverything, Jump, CollectNothing, Leave, StartMember,
         StopQueue, StartMigrate, RefuseMigration
<1>8. ~(CollectWarning \/ BeginMember \/ FinishMember)
  BY <1>2 DEF CollectWarning, BeginMember, FinishMember
<1> QED BY <1>3, <1>4, <1>5, <1>6, <1>7, <1>8 DEF Next, Press, CollectBuild

\* Past the key a question is touched by the three lookups alone.
LEMMA Asking ==
  ASSUME Next, pc = "tail", confirm' # confirm
  PROVE  CollectSweepCheck \/ CollectReinstallPlan \/ CollectUpdatePlan
<1> USE DEF asked
<1>1. ~TakeRequest
  BY DEF TakeRequest, RunInTerminal, RunInPlace, StartConfirmedUpdateSweep,
     StartConfirmedSweep, StartInstallBatch, StartBatch, StartBuild, Take
<1>2. ~NoKey /\ ~Leave
  BY DEF NoKey, Key, Leave
<1>3. ~Press
  BY DEF Press, CtrlC, DismissReport, AnswerNo, AnswerSweep, AnswerRemove, AnswerMigrate,
     AnswerMigrateAll, Answer, LeaveInput, SubmitInstall, SubmitSearch, Typing, RetryLoad,
     Quit, Escape, Cancel, StartCheck, StartVerify, OpenInput, PickDowngrade, PickHit,
     StartUpdate, StartUpdateSweep, StartReinstallSweep, StartDowngrade, StartLookup,
     StartReinstall, PinSelected, RemoveSelected, MigrateSelected, MigrateEverything, Jump,
     Sound, ListKey, Key
<1>4. ~(StartMember \/ CollectNothing \/ CollectAborted \/ CollectWarning \/ CollectBuild)
  BY DEF StartMember, StopQueue, StartMigrate, CollectNothing, CollectAborted,
     CollectWarning, CollectBuild, BeginMember, FinishMember, FinishBuild
<1>5. ~(CollectUseless \/ CollectCheck \/ CollectDowngrade \/ CollectSearch
          \/ CollectVerify)
  BY DEF CollectUseless, CollectCheck, CollectDowngrade, CollectSearch, CollectVerify
<1> QED BY <1>1, <1>2, <1>3, <1>4, <1>5 DEF Next, CollectOneShot

LEMMA WantedStep ==
  ASSUME TypeOK, Next
  PROVE  UselessStays /\ AskedStays
<1>1. UselessStays
  <2> SUFFICES ASSUME job # NoJob, job.kind \in OneShots, job.cancel, job' = NoJob
               PROVE  UNCHANGED <<confirm, panels, degraded>>
    BY DEF UselessStays
  <2>1. CASE CollectAborted
    BY <2>1 DEF CollectAborted, here, asked
  <2>2. CASE CollectOneShot
    BY <2>2 DEF CollectOneShot, CollectUseless, CollectCheck, CollectSweepCheck,
       CollectReinstallPlan, CollectUpdatePlan, CollectDowngrade, CollectSearch,
       CollectVerify
  <2>3. ~FinishBuild
    BY DEF FinishBuild, Draining, Building, OneShots, Builds, Singles, Batches
  <2> QED BY <2>1, <2>2, <2>3, Collecting
<1>2. AskedStays
  BY Asking DEF AskedStays, CollectSweepCheck, CollectReinstallPlan, CollectUpdatePlan,
     Collected
<1> QED BY <1>1, <1>2

\* A queue told to stop puts no further migration into the slot, whatever its member
\* answers and whatever is asked meanwhile (next_migrate_to_start).
THEOREM StopsHeeded == Spec => StopHeeded
<1>1. IInv /\ [Next]_vars
        => [queue # NoQueue /\ queue.stopping /\ job = NoJob /\ job' # NoJob
              => job'.kind # "migrate"]_vars
  BY HeededStep DEF IInv
<1> QED BY <1>1, InductiveInvariant, PTL DEF Spec, StopHeeded

\* A cancelled lookup changes nothing on screen, and a question goes only by a key or
\* because the next one, still wanted, takes its place (poll_job).
THEOREM OnlyWanted == Spec => AnswersWanted
<1>1. IInv /\ [Next]_vars
        => [/\ job # NoJob /\ job.kind \in OneShots /\ job.cancel /\ job' = NoJob
                 => UNCHANGED <<confirm, panels, degraded>>
            /\ pc = "tail" /\ confirm # NoQuestion /\ confirm' # confirm
                 => /\ job # NoJob /\ ~job.cancel
                    /\ job.kind \in {"sweepCheck", "reinstallPlan", "updatePlan"}]_vars
  BY WantedStep DEF IInv, UselessStays, AskedStays
<1> QED BY <1>1, InductiveInvariant, PTL DEF Spec, AnswersWanted

-----------------------------------------------------------------------------
(* Where every member of a list or a sweep is.                             *)

\* What a ledger has recorded of the members it got to.
Told(b) == b.installed + b.failed + b.refused + b.skipped

\* Everybody the worker got to is counted once, but for the member it is at and the one
\* a cancel took away from it; only the worker of such a run is ever over.
BatchInv ==
  /\ job # NoJob /\ job.kind \notin Batches => ~job.over
  /\ batch # NoBatch /\ Live /\ pc # "out" =>
       /\ ~(batch.current /\ job.over)
       /\ batch.attempted = Told(batch) + (IF batch.current \/ job.over THEN 1 ELSE 0)

LEMMA LedgerFields ==
  ASSUME NEW b \in Ledgers
  PROVE  /\ b.attempted \in Nat /\ b.total \in Nat /\ b.installed \in Nat /\ b.failed \in Nat
         /\ b.refused \in Nat /\ b.skipped \in Nat /\ b.current \in BOOLEAN
         /\ Told(b) \in Nat
BY DEF Ledgers, Told

LEMMA BeginTold ==
  ASSUME NEW b \in Ledgers
  PROVE  LET c == [b EXCEPT !.current = TRUE, !.attempted = @ + 1]
         IN c.current /\ c.attempted = b.attempted + 1 /\ Told(c) = Told(b)
<1> DEFINE d == [b EXCEPT !.current = TRUE]
           c == [d EXCEPT !.attempted = @ + 1]
<1>1. d \in Ledgers /\ d.current /\ d.attempted = b.attempted /\ Told(d) = Told(b)
  BY DEF Ledgers, Told
<1>2. c.current /\ c.attempted = d.attempted + 1 /\ Told(c) = Told(d)
  <2> HIDE DEF d
  <2> QED BY <1>1 DEF Ledgers, Told
<1>3. [b EXCEPT !.current = TRUE, !.attempted = @ + 1] = c
  OBVIOUS
<1> QED BY <1>1, <1>2, <1>3

LEMMA DoneTold ==
  ASSUME NEW b \in Ledgers
  PROVE  LET c == [b EXCEPT !.current = FALSE]
         IN c \in Ledgers /\ ~c.current /\ c.attempted = b.attempted /\ Told(c) = Told(b)
BY DEF Ledgers, Told

LEMMA OutcomeTold ==
  ASSUME NEW b \in Ledgers, NEW o \in {"installed", "failed", "refused", "skipped"}
  PROVE  LET c == [b EXCEPT ![o] = @ + 1]
         IN c.current = b.current /\ c.attempted = b.attempted /\ Told(c) = Told(b) + 1
<1>1. /\ b.attempted \in Nat /\ b.installed \in Nat /\ b.failed \in Nat
      /\ b.refused \in Nat /\ b.skipped \in Nat
  BY LedgerFields
<1>2. CASE o = "installed"
  BY <1>1, <1>2 DEF Ledgers, Told
<1>3. CASE o = "failed"
  BY <1>1, <1>3 DEF Ledgers, Told
<1>4. CASE o = "refused"
  BY <1>1, <1>4 DEF Ledgers, Told
<1>5. CASE o = "skipped"
  BY <1>1, <1>5 DEF Ledgers, Told
<1> QED BY <1>2, <1>3, <1>4, <1>5

LEMMA FreshOver ==
  ASSUME NEW kind, NEW crate
  PROVE  ~Job(kind, crate).over /\ Job(kind, crate).kind = kind
BY DEF Job

\* Marking a job does not end its run.
LEMMA MarkedOver ==
  ASSUME TypeOK, job # NoJob
  PROVE  CancelJob # NoJob /\ CancelJob.over = job.over /\ CancelJob.kind = job.kind
         /\ [job EXCEPT !.over = TRUE].over
BY AppAssumption DEF TypeOK, RunTypes, CancelJob, Jobs, AppAssumption

\* A job of another kind put into the slot leaves no ledger to account for.
LEMMA OccupiedTold ==
  ASSUME TypeOK, RunHeld, BatchInv, Live, pc # "out",
         NEW kind \in (OneShots \cup Builds) \ Batches, NEW crate,
         Occupy(Job(kind, crate)), UNCHANGED batch
  PROVE  BatchInv'
<1>1. job' # NoJob => ~job'.over
  BY FreshOver DEF Occupy
<1>2. CASE job = NoJob
  BY <1>1, <1>2 DEF BatchInv, RunHeld
<1>3. CASE job # NoJob
  <2>1. dropped' # "no"
    BY <1>3, FreshOver DEF Occupy, OneShots, Builds, Singles, Batches
  <2> QED BY <1>1, <2>1 DEF BatchInv, Live
<1> QED BY <1>2, <1>3

\* Nothing about the ledger's worker or its ledger moves.
LEMMA ToldKept ==
  ASSUME TypeOK, BatchInv, Live, pc # "out", UNCHANGED <<job, batch>>
  PROVE  BatchInv'
BY DEF BatchInv, Told

LEMMA BatchStep ==
  ASSUME TypeOK, RunHeld, BatchInv, Next
  PROVE  BatchInv'
<1> USE DEF running
<1>1. CASE TakeRequest
  <2>1. CASE RunInTerminal \/ RunInPlace
    BY <2>1, ToldKept DEF RunInTerminal, RunInPlace, Take
  <2>2. ASSUME NEW s \in Slot, NEW kind \in Batches, StartBatch(s, kind)
        PROVE  BatchInv'
    <3>1. Live /\ pc # "out"
      BY <2>2 DEF StartBatch, Take
    <3>2. CASE UNCHANGED <<job, batch>>
      BY <3>1, <3>2, ToldKept
    <3>3. CASE batch' = NewBatch(pend[s].total) /\ Occupy(Job(kind, NoCrate))
      <4>1. ~job'.over /\ job'.kind = kind
        BY <3>3, FreshOver DEF Occupy
      <4>2. ~batch'.current /\ batch'.attempted = 0 /\ Told(batch') = 0
        BY <3>3 DEF NewBatch, Told
      <4> QED BY <4>1, <4>2 DEF BatchInv, Told
    <3> QED BY <2>2, <3>2, <3>3 DEF StartBatch
  <2>3. CASE StartBuild
    <3>1. pend["build"].what \in (OneShots \cup Builds) \ Batches
      BY <2>3, SlotSet DEF StartBuild, Take, Taken, TypeOK, RequestTypes, Slot, WorkOf,
                           Singles, Builds, Batches
    <3>2. Live /\ pc # "out" /\ UNCHANGED batch
      BY <2>3 DEF StartBuild, Take
    <3> QED BY <2>3, <3>1, <3>2, OccupiedTold, ToldKept DEF StartBuild
  <2> QED BY <1>1, <2>1, <2>2, <2>3, SlotSet
          DEF TakeRequest, StartConfirmedUpdateSweep, StartConfirmedSweep,
              StartInstallBatch, Batches
<1>2. CASE NoKey \/ DismissReport \/ AnswerNo \/ AnswerSweep \/ AnswerRemove \/ AnswerMigrate
             \/ AnswerMigrateAll \/ LeaveInput \/ SubmitInstall
  <2>1. Live /\ pc # "out" /\ UNCHANGED <<job, batch>>
    BY <1>2 DEF NoKey, DismissReport, AnswerNo, AnswerSweep, AnswerRemove, AnswerMigrate,
       AnswerMigrateAll, Answer, LeaveInput, SubmitInstall, Typing, Key
  <2> QED BY <2>1, ToldKept
<1>3. CASE RetryLoad \/ Quit \/ Escape \/ OpenInput \/ PickDowngrade \/ PickHit
             \/ StartReinstall \/ PinSelected \/ RemoveSelected \/ MigrateSelected
             \/ MigrateEverything \/ Jump
  <2>1. Live /\ pc # "out" /\ UNCHANGED <<job, batch>>
    BY <1>3 DEF RetryLoad, Quit, Escape, OpenInput, PickDowngrade, PickHit, StartReinstall,
       PinSelected, RemoveSelected, MigrateSelected, MigrateEverything, Jump, Sound,
       ListKey, Key
  <2> QED BY <2>1, ToldKept
<1>4. CASE CtrlC \/ Cancel
  <2>1. Live /\ pc # "out" /\ UNCHANGED batch /\ (job' = job \/ job' = CancelJob)
    BY <1>4 DEF CtrlC, Cancel, ListKey, Key
  <2>2. CASE job = NoJob
    BY <2>1, <2>2, ToldKept DEF CancelJob
  <2>3. CASE job # NoJob
    BY <2>1, <2>3, MarkedOver DEF BatchInv, Told
  <2> QED BY <2>2, <2>3
<1>5. CASE SubmitSearch \/ StartCheck \/ StartVerify \/ StartUpdate \/ StartUpdateSweep
             \/ StartReinstallSweep \/ StartDowngrade
  <2>1. Live /\ pc # "out" /\ UNCHANGED batch
    BY <1>5 DEF SubmitSearch, StartCheck, StartVerify, StartUpdate, StartUpdateSweep,
                StartReinstallSweep, StartDowngrade, StartLookup, Typing, Sound, ListKey, Key
  <2>2. \/ UNCHANGED job
        \/ \E kind \in OneShots : Occupy(Job(kind, NoCrate))
    BY <1>5 DEF SubmitSearch, StartCheck, StartVerify, StartUpdate, StartUpdateSweep,
                StartReinstallSweep, StartDowngrade, StartLookup, OneShots
  <2>3. OneShots \subseteq (OneShots \cup Builds) \ Batches
    BY DEF OneShots, Batches
  <2> QED BY <2>1, <2>2, <2>3, ToldKept, OccupiedTold
<1>6. CASE StartMember
  <2>1. Live /\ pc # "out" /\ UNCHANGED batch
    BY <1>6 DEF StartMember, StopQueue, StartMigrate, Past
  <2>2. UNCHANGED job \/ Occupy(Job("migrate", pendMigrate.crate))
    BY <1>6 DEF StartMember, StopQueue, StartMigrate, RefuseMigration, BeginMigration
  <2>3. "migrate" \in (OneShots \cup Builds) \ Batches
    BY DEF Builds, Batches
  <2> QED BY <2>1, <2>2, <2>3, ToldKept, OccupiedTold
<1>7. CASE CollectNothing \/ CollectWarning \/ Leave
  BY <1>7 DEF CollectNothing, CollectWarning, Draining, Poll, Past, Leave, BatchInv, Told, Live
<1>8. CASE CollectAborted
  BY <1>8 DEF CollectAborted, BatchInv
<1>9. CASE CollectOneShot
  <2>1. \E kind \in OneShots : Collected(kind)
    BY <1>9 DEF CollectOneShot, CollectUseless, CollectCheck, CollectSweepCheck,
                CollectReinstallPlan, CollectUpdatePlan, CollectDowngrade, CollectSearch,
                CollectVerify, OneShots
  <2>2. batch = NoBatch
    BY <2>1 DEF Collected, Poll, Past, RunHeld, OneShots, Batches
  <2>3. job' = NoJob /\ batch' = NoBatch
    BY <2>1, <2>2 DEF Collected
  <2> QED BY <2>3 DEF BatchInv
<1>10. CASE BeginMember
  <2>1. /\ Live /\ pc # "out" /\ job # NoJob /\ job.kind \in Batches /\ ~job.over
        /\ ~batch.current /\ UNCHANGED job
        /\ batch' = [batch EXCEPT !.current = TRUE, !.attempted = @ + 1]
    BY <1>10 DEF BeginMember, AnotherMember, Draining, Building, Poll, Past
  <2>2. batch \in Ledgers /\ batch # NoBatch
    BY <1>10, LedgerThere, AppAssumption DEF BeginMember, Draining, AppAssumption
  <2>3. batch'.current /\ batch'.attempted = batch.attempted + 1 /\ Told(batch') = Told(batch)
    BY <2>1, <2>2, BeginTold
  <2>4. batch.attempted = Told(batch) /\ Told(batch) \in Nat
    BY <2>1, <2>2, LedgerFields DEF BatchInv
  <2> QED BY <2>1, <2>3, <2>4 DEF BatchInv, Told
<1>11. CASE FinishMember
  <2>1. /\ Live /\ pc # "out" /\ job # NoJob /\ job.kind \in Batches /\ batch.current
    BY <1>11 DEF FinishMember, Draining, Building, Poll, Past
  <2>2. batch \in Ledgers /\ batch # NoBatch
    BY <1>11, LedgerThere, AppAssumption DEF FinishMember, Draining, AppAssumption
  <2> DEFINE done == [batch EXCEPT !.current = FALSE]
  <2>3. done \in Ledgers /\ ~done.current /\ done.attempted = batch.attempted
        /\ Told(done) = Told(batch)
    BY <2>2, DoneTold
  <2>4. /\ batch.attempted = Told(batch) + 1 /\ Told(batch) \in Nat /\ ~job.over
    BY <2>1, <2>2, LedgerFields DEF BatchInv
  <2>5. \A o \in MemberOutcomes \ {"cancelled"} :
          o \in {"installed", "failed", "refused", "skipped"}
    BY DEF MemberOutcomes
  <2>6. \/ batch' = done /\ job' = [job EXCEPT !.over = TRUE]
        \/ /\ UNCHANGED job
           /\ \E o \in {"installed", "failed", "refused", "skipped"} :
                batch' = [done EXCEPT ![o] = @ + 1]
    BY <1>11, <2>5 DEF FinishMember
  <2> HIDE DEF done
  <2>7. CASE batch' = done /\ job' = [job EXCEPT !.over = TRUE]
    <3>1. job'.over /\ job'.kind = job.kind
      BY <2>1, <2>7, JobMarked, MarkedOver DEF TypeOK, RunTypes
    <3> QED BY <2>1, <2>3, <2>4, <2>7, <3>1 DEF BatchInv, Told
  <2>8. ASSUME NEW o \in {"installed", "failed", "refused", "skipped"},
               batch' = [done EXCEPT ![o] = @ + 1], UNCHANGED job
        PROVE  BatchInv'
    <3>1. /\ batch'.current = done.current /\ batch'.attempted = done.attempted
          /\ Told(batch') = Told(done) + 1
      BY <2>3, <2>8, OutcomeTold
    <3> QED BY <2>1, <2>3, <2>4, <2>8, <3>1 DEF BatchInv, Told
  <2> QED BY <2>6, <2>7, <2>8
<1>12. CASE FinishBuild
  <2>1. job' = NoJob /\ Live /\ pc # "out" /\ job # NoJob
    BY <1>12 DEF FinishBuild, Draining, Building, Poll, Past
  <2>2. batch' = NoBatch \/ (batch' = batch /\ job.kind = "migrate")
    BY <1>12 DEF FinishBuild, FinishInstallBatch
  <2>3. batch' = NoBatch
    BY <2>1, <2>2 DEF RunHeld, Batches
  <2> QED BY <2>1, <2>3 DEF BatchInv
<1> QED BY <1>1, <1>2, <1>3, <1>4, <1>5, <1>6, <1>7, <1>8, <1>9, <1>10, <1>11, <1>12
        DEF Next, Press, CollectBuild

-----------------------------------------------------------------------------
(* Where every member of a queue is.                                       *)

\* Everybody filed so far.
FiledIn(q) == UNION {q.filed[s] : s \in Sections}

\* A queue with one member in hand: the others are filed in one section each, after
\* they were begun, or left; and nobody is there twice.
Outstanding(q, crate, begun) ==
  /\ ToSet(q.plan) = FiledIn(q) \cup {crate} \cup ToSet(q.left)
  /\ crate \notin FiledIn(q) \cup ToSet(q.left)
  /\ FiledIn(q) \cap ToSet(q.left) = {}
  /\ IsInjective(q.left)
  /\ \A s, t \in Sections : s # t => q.filed[s] \cap q.filed[t] = {}
  /\ q.begun = FiledIn(q) \cup begun

\* The member in hand of a queue nobody crossed is the one asked for or, once that is
\* begun, the one building; and a plan asked about names nobody twice.
QueueInv ==
  /\ confirm # NoQuestion => IsInjective(confirm.plan)
  /\ queue # NoQueue /\ ~queue.crossed /\ Live /\ pc # "out" =>
       IF pendMigrate # NoRequest
         THEN /\ Outstanding(queue, pendMigrate.crate, {})
              /\ ~(job # NoJob /\ job.kind = "migrate")
         ELSE Outstanding(queue, job.crate, {job.crate})

\* A list that names nobody twice: its first, and the others.
LEMMA FirstAndRest ==
  ASSUME NEW S, NEW s \in Seq(S), s # <<>>, IsInjective(s)
  PROVE  /\ ToSet(s) = {Head(s)} \cup ToSet(Tail(s))
         /\ Head(s) \notin ToSet(Tail(s))
         /\ IsInjective(Tail(s))
<1>1. Len(s) \in Nat \ {0} /\ DOMAIN s = 1 .. Len(s) /\ Head(s) = s[1]
  OBVIOUS
<1>2. /\ Tail(s) \in Seq(S) /\ Len(Tail(s)) = Len(s) - 1
      /\ \A i \in 1 .. Len(s) - 1 : Tail(s)[i] = s[i + 1]
  OBVIOUS
<1>3. DOMAIN Tail(s) = 1 .. Len(s) - 1
  BY <1>2
<1>4. ASSUME NEW i \in DOMAIN s
      PROVE  s[i] \in {Head(s)} \cup ToSet(Tail(s))
  <2>1. CASE i = 1
    BY <1>1, <2>1
  <2>2. CASE i # 1
    <3>1. i - 1 \in 1 .. Len(s) - 1 /\ (i - 1) + 1 = i
      BY <1>1, <1>4, <2>2
    <3>2. Tail(s)[i - 1] = s[i]
      BY <1>2, <3>1
    <3> QED BY <1>3, <3>1, <3>2 DEF ToSet
  <2> QED BY <2>1, <2>2
<1>5. ASSUME NEW x \in ToSet(Tail(s))
      PROVE  x \in ToSet(s) /\ x # Head(s)
  <2>1. PICK i \in 1 .. Len(s) - 1 : x = Tail(s)[i]
    BY <1>3, <1>5 DEF ToSet
  <2>2. i + 1 \in DOMAIN s /\ i + 1 # 1 /\ 1 \in DOMAIN s
    BY <1>1, <2>1
  <2>3. x = s[i + 1]
    BY <1>2, <2>1
  <2> QED BY <1>1, <2>2, <2>3 DEF IsInjective, ToSet
<1>6. Head(s) \in ToSet(s)
  BY <1>1 DEF ToSet
<1>7. ToSet(s) = {Head(s)} \cup ToSet(Tail(s))
  <2>1. ToSet(s) \subseteq {Head(s)} \cup ToSet(Tail(s))
    BY <1>4 DEF ToSet
  <2> QED BY <1>5, <1>6, <2>1
<1>8. IsInjective(Tail(s))
  <2> SUFFICES ASSUME NEW i \in 1 .. Len(s) - 1, NEW k \in 1 .. Len(s) - 1,
                      Tail(s)[i] = Tail(s)[k]
               PROVE  i = k
    BY <1>3 DEF IsInjective
  <2>1. i + 1 \in DOMAIN s /\ k + 1 \in DOMAIN s /\ s[i + 1] = s[k + 1]
    BY <1>1, <1>2
  <2>2. i + 1 = k + 1
    BY <2>1 DEF IsInjective
  <2> QED BY <2>2
<1> QED BY <1>5, <1>7, <1>8

LEMMA PutInFront ==
  ASSUME NEW S, NEW s \in Seq(S), NEW c \in S
  PROVE  ToSet(<<c>> \o s) = {c} \cup ToSet(s)
<1>1. <<c>> \o s \in Seq(S) /\ Len(<<c>> \o s) = Len(s) + 1 /\ Len(s) \in Nat
  OBVIOUS
<1>2. DOMAIN (<<c>> \o s) = 1 .. Len(s) + 1 /\ DOMAIN s = 1 .. Len(s)
  BY <1>1
<1>3. (<<c>> \o s)[1] = c
  OBVIOUS
<1>4. \A i \in 1 .. Len(s) : (<<c>> \o s)[i + 1] = s[i]
  OBVIOUS
<1>5. ToSet(<<c>> \o s) \subseteq {c} \cup ToSet(s)
  <2> SUFFICES ASSUME NEW i \in 1 .. Len(s) + 1
               PROVE  (<<c>> \o s)[i] \in {c} \cup ToSet(s)
    BY <1>2 DEF ToSet
  <2>1. CASE i = 1
    BY <1>3, <2>1
  <2>2. CASE i # 1
    <3>1. i - 1 \in 1 .. Len(s) /\ (i - 1) + 1 = i
      BY <1>1, <2>2
    <3> QED BY <1>2, <1>4, <3>1 DEF ToSet
  <2> QED BY <2>1, <2>2
<1>6. c \in ToSet(<<c>> \o s)
  <2>1. 1 \in 1 .. Len(s) + 1
    BY <1>1
  <2> QED BY <1>2, <1>3, <2>1 DEF ToSet
<1>7. ToSet(s) \subseteq ToSet(<<c>> \o s)
  <2> SUFFICES ASSUME NEW i \in 1 .. Len(s)
               PROVE  s[i] \in ToSet(<<c>> \o s)
    BY <1>2 DEF ToSet
  <2>1. i + 1 \in 1 .. Len(s) + 1
    BY <1>1
  <2> QED BY <1>2, <1>4, <2>1 DEF ToSet
<1> QED BY <1>5, <1>6, <1>7

\* Filing the member in hand puts it with those filed, in one section.
LEMMA FiledThere ==
  ASSUME NEW q \in Queues, NEW crate \in Crates, NEW begun, NEW section \in Sections,
         Outstanding(q, crate, begun), NEW r, r = File(q, section, crate)
  PROVE  /\ r \in Queues /\ r.left = q.left /\ r.plan = q.plan /\ r.begun = q.begun
         /\ r.stopping = q.stopping /\ r.crossed = q.crossed /\ r.at = q.at
         /\ FiledIn(r) = FiledIn(q) \cup {crate}
         /\ \A s, t \in Sections : s # t => r.filed[s] \cap r.filed[t] = {}
<1>1. /\ r \in Queues /\ r.left = q.left /\ r.plan = q.plan /\ r.begun = q.begun
      /\ r.stopping = q.stopping /\ r.crossed = q.crossed /\ r.at = q.at
  BY DEF File, Queues
<1>2. \A s \in Sections :
        r.filed[s] = IF s = section THEN q.filed[s] \cup {crate} ELSE q.filed[s]
  BY DEF File, Queues
<1>3. FiledIn(r) = FiledIn(q) \cup {crate}
  <2>1. \A x : x \in FiledIn(r) <=> \E s \in Sections : x \in r.filed[s]
    BY DEF FiledIn
  <2>2. \A x : x \in FiledIn(q) <=> \E s \in Sections : x \in q.filed[s]
    BY DEF FiledIn
  <2>3. \A x : x \in FiledIn(r) <=> x \in FiledIn(q) \cup {crate}
    BY <1>2, <2>1, <2>2
  <2> QED BY <2>3
<1>4. \A s \in Sections : crate \notin q.filed[s]
  BY DEF Outstanding, FiledIn
<1>5. \A s, t \in Sections : s # t => r.filed[s] \cap r.filed[t] = {}
  <2> SUFFICES ASSUME NEW s \in Sections, NEW t \in Sections, s # t, NEW x,
                      x \in r.filed[s], x \in r.filed[t]
               PROVE  FALSE
    OBVIOUS
  <2>1. q.filed[s] \cap q.filed[t] = {}
    BY DEF Outstanding
  <2> QED BY <1>2, <1>4, <2>1
<1> QED BY <1>1, <1>3, <1>5

\* The next one is taken in hand.
LEMMA NextInHand ==
  ASSUME NEW q \in Queues, NEW crate \in Crates, NEW section \in Sections,
         Outstanding(q, crate, {crate}), q.left # <<>>,
         NEW r, r = File(q, section, crate), NEW n, n = [r EXCEPT !.left = Tail(@)]
  PROVE  Outstanding(n, Head(r.left), {}) /\ n.crossed = q.crossed
<1>1. /\ r \in Queues /\ r.left = q.left /\ r.plan = q.plan /\ r.begun = q.begun
      /\ FiledIn(r) = FiledIn(q) \cup {crate} /\ r.crossed = q.crossed
      /\ \A s, t \in Sections : s # t => r.filed[s] \cap r.filed[t] = {}
  BY FiledThere
<1>2. /\ n.left = Tail(r.left) /\ n.plan = r.plan /\ n.begun = r.begun /\ n.filed = r.filed
      /\ n.crossed = r.crossed
  BY <1>1 DEF Queues
<1>3. FiledIn(n) = FiledIn(r)
  BY <1>2 DEF FiledIn
<1>4. q.left \in Seq(Crates) /\ IsInjective(q.left)
  BY DEF Queues, Outstanding
<1>5. /\ ToSet(q.left) = {Head(q.left)} \cup ToSet(Tail(q.left))
      /\ Head(q.left) \notin ToSet(Tail(q.left))
      /\ IsInjective(Tail(q.left))
  BY <1>4, FirstAndRest
<1>6. /\ ToSet(q.plan) = FiledIn(q) \cup {crate} \cup ToSet(q.left)
      /\ crate \notin ToSet(q.left) /\ FiledIn(q) \cap ToSet(q.left) = {}
      /\ q.begun = FiledIn(q) \cup {crate}
  BY DEF Outstanding
<1>7. /\ FiledIn(n) = FiledIn(q) \cup {crate} /\ n.left = Tail(q.left)
      /\ Head(r.left) = Head(q.left) /\ n.plan = q.plan /\ n.begun = q.begun
  BY <1>1, <1>2, <1>3
<1>8. /\ ToSet(n.plan) = FiledIn(n) \cup {Head(r.left)} \cup ToSet(n.left)
      /\ n.begun = FiledIn(n)
  BY <1>5, <1>6, <1>7
<1>9. Head(r.left) \notin FiledIn(n) \cup ToSet(n.left)
  <2>1. Head(q.left) \in ToSet(q.left)
    BY <1>5
  <2> QED BY <1>5, <1>6, <1>7, <2>1
<1>10. FiledIn(n) \cap ToSet(n.left) = {}
  <2>1. ToSet(n.left) \subseteq ToSet(q.left)
    BY <1>5, <1>7
  <2> QED BY <1>6, <1>7, <2>1
<1>11. IsInjective(n.left)
  BY <1>5, <1>7
<1>12. \A s, t \in Sections : s # t => n.filed[s] \cap n.filed[t] = {}
  BY <1>1, <1>2
<1> QED BY <1>1, <1>2, <1>8, <1>9, <1>10, <1>11, <1>12 DEF Outstanding

\* What a queue is told, and that it was begun, moves nobody.
LEMMA NobodyMoved ==
  ASSUME NEW q, NEW r, NEW crate, NEW begun, Outstanding(q, crate, begun),
         r.plan = q.plan, r.left = q.left, r.filed = q.filed, r.begun = q.begun
  PROVE  Outstanding(r, crate, begun)
BY DEF Outstanding, FiledIn

LEMMA FirstInHand ==
  ASSUME NEW plan \in Seq(Crates), plan # <<>>, IsInjective(plan), NEW crossed
  PROVE  Outstanding(NewQueue(plan, crossed), Head(plan), {})
<1> DEFINE q == NewQueue(plan, crossed)
<1>1. /\ q.plan = plan /\ q.left = Tail(plan) /\ q.begun = {}
      /\ \A s \in Sections : q.filed[s] = {}
  BY DEF NewQueue
<1> HIDE DEF q
<1>2. FiledIn(q) = {}
  BY <1>1 DEF FiledIn
<1>3. /\ ToSet(plan) = {Head(plan)} \cup ToSet(Tail(plan))
      /\ Head(plan) \notin ToSet(Tail(plan))
      /\ IsInjective(Tail(plan))
  BY FirstAndRest
<1>4. Outstanding(q, Head(plan), {})
  BY <1>1, <1>2, <1>3 DEF Outstanding
<1> QED BY <1>4 DEF q

\* What the summary of a queue says is true of it.
QueueTold(q, ended) ==
  LET filed == UNION {q.filed[s] : s \in Sections}
      missing == ToSet(q.plan) \ (filed \cup ToSet(q.left))
  IN /\ filed \cup ToSet(q.left) \subseteq ToSet(q.plan)
     /\ \A s, t \in Sections : s # t => q.filed[s] \cap q.filed[t] = {}
     /\ ToSet(q.left) \cap (filed \cup q.begun) = {}
     /\ missing \subseteq q.begun
     /\ missing # {} => ended = "cancelled" /\ Cardinality(missing) = 1
     /\ q.left # <<>> => ended # "completed"

\* It is told to stop between two members: the one asked for is left after all.
LEMMA PutBackTold ==
  ASSUME NEW q \in Queues, NEW crate \in Crates, Outstanding(q, crate, {}),
         NEW r, r = PutBack(q, crate)
  PROVE  QueueTold(r, "cancelled")
<1>1. q.left \in Seq(Crates)
  BY DEF Queues
<1>2. /\ r.left = <<crate>> \o q.left /\ r.plan = q.plan /\ r.begun = q.begun
      /\ r.filed = q.filed
  BY DEF PutBack, Queues
<1>3. ToSet(r.left) = {crate} \cup ToSet(q.left)
  BY <1>1, <1>2, PutInFront
<1>4. FiledIn(r) = FiledIn(q)
  BY <1>2 DEF FiledIn
<1>5. /\ ToSet(r.plan) = FiledIn(r) \cup ToSet(r.left) /\ r.begun = FiledIn(r)
      /\ ToSet(r.left) \cap FiledIn(r) = {}
  BY <1>2, <1>3, <1>4 DEF Outstanding
<1>6. \A s, t \in Sections : s # t => r.filed[s] \cap r.filed[t] = {}
  BY <1>2 DEF Outstanding
<1> QED BY <1>5, <1>6 DEF QueueTold, FiledIn

\* The member in hand is filed and the queue ends: nobody is missing.
LEMMA FiledTold ==
  ASSUME NEW q \in Queues, NEW crate \in Crates, NEW begun \in {{}, {crate}},
         NEW section \in Sections, Outstanding(q, crate, begun), NEW ended,
         q.left # <<>> => ended # "completed",
         NEW r, r = File(q, section, crate)
  PROVE  QueueTold(r, ended)
<1>1. /\ r.left = q.left /\ r.plan = q.plan /\ r.begun = q.begun
      /\ FiledIn(r) = FiledIn(q) \cup {crate}
      /\ \A s, t \in Sections : s # t => r.filed[s] \cap r.filed[t] = {}
  BY FiledThere
<1>2. /\ ToSet(q.plan) = FiledIn(q) \cup {crate} \cup ToSet(q.left)
      /\ crate \notin ToSet(q.left) /\ FiledIn(q) \cap ToSet(q.left) = {}
      /\ q.begun = FiledIn(q) \cup begun
  BY DEF Outstanding
<1>3. /\ ToSet(r.plan) = FiledIn(r) \cup ToSet(r.left) /\ r.begun \subseteq FiledIn(r)
      /\ ToSet(r.left) \cap FiledIn(r) = {}
  BY <1>1, <1>2
<1> QED BY <1>1, <1>3 DEF QueueTold, FiledIn

\* The member in hand was cancelled while it was building: it is the one missing.
LEMMA CancelledTold ==
  ASSUME NEW q \in Queues, NEW crate \in Crates, Outstanding(q, crate, {crate})
  PROVE  QueueTold(q, "cancelled")
<1>1. /\ ToSet(q.plan) = FiledIn(q) \cup {crate} \cup ToSet(q.left)
      /\ crate \notin FiledIn(q) \cup ToSet(q.left)
      /\ FiledIn(q) \cap ToSet(q.left) = {} /\ q.begun = FiledIn(q) \cup {crate}
      /\ \A s, t \in Sections : s # t => q.filed[s] \cap q.filed[t] = {}
  BY DEF Outstanding
<1>2. ToSet(q.plan) \ (FiledIn(q) \cup ToSet(q.left)) = {crate}
  BY <1>1
<1>3. Cardinality({crate}) = 1
  BY FS_Singleton
<1> QED BY <1>1, <1>2, <1>3 DEF QueueTold, FiledIn

-----------------------------------------------------------------------------
(* The queue, step by step.                                                *)

\* What a summary is about: a queue that ends says of its own members what is true.
EndsTold ==
  event' # NoEvent /\ event'.what = "migrated" /\ ~event'.q.crossed
    => QueueTold(event'.q, event'.ended)

\* The queue and its member in hand stay, and so does what the worker is about.
LEMMA QueueKept ==
  ASSUME QueueInv, Live, pc # "out", UNCHANGED <<queue, pendMigrate>>,
         \/ job' = job
         \/ job # NoJob /\ job'.kind = job.kind /\ job'.crate = job.crate,
         confirm' # NoQuestion => IsInjective(confirm'.plan)
  PROVE  QueueInv'
<1>1. confirm' # NoQuestion => IsInjective(confirm.plan)'
  OBVIOUS
<1>2. ASSUME queue # NoQueue, ~queue.crossed
      PROVE  IF pendMigrate # NoRequest
               THEN /\ Outstanding(queue, pendMigrate.crate, {})
                    /\ ~(job # NoJob /\ job.kind = "migrate")
               ELSE Outstanding(queue, job.crate, {job.crate})
  BY <1>2 DEF QueueInv
<1> QED BY <1>1, <1>2 DEF QueueInv, Outstanding, FiledIn

\* The slot goes to other work, or is emptied of it: the queue still has its next
\* member asked for.
LEMMA QueueWaits ==
  ASSUME RunHeld, QueueInv, Live, pc # "out", UNCHANGED <<queue, pendMigrate>>,
         ~(job # NoJob /\ job.kind = "migrate"),
         ~(job' # NoJob /\ job'.kind = "migrate"),
         confirm' # NoQuestion => IsInjective(confirm'.plan)
  PROVE  QueueInv'
<1>1. queue # NoQueue => pendMigrate # NoRequest
  BY DEF RunHeld
<1> QED BY <1>1 DEF QueueInv, Outstanding, FiledIn

\* What is asked about names nobody twice.
LEMMA AskedOnce ==
  ASSUME confirm # NoQuestion => IsInjective(confirm.plan), Next
  PROVE  confirm' # NoQuestion => IsInjective(confirm'.plan)
<1> USE DEF asked
<1>1. \A ask, at : IsInjective(Question(ask, at, <<>>).plan)
  BY DEF Question, IsInjective
<1>2. \A ask, at, c : IsInjective(Question(ask, at, <<c>>).plan)
  BY DEF Question, IsInjective
<1>3. \A ask, at : \A plan \in Plans : IsInjective(Question(ask, at, plan).plan)
  BY AppAssumption DEF AppAssumption, Question
<1>4. CASE UNCHANGED confirm
  BY <1>4
<1>5. CASE AnswerNo \/ AnswerSweep \/ AnswerRemove \/ AnswerMigrate \/ AnswerMigrateAll
  BY <1>5 DEF AnswerNo, AnswerSweep, AnswerRemove, AnswerMigrate, AnswerMigrateAll, Answer
<1>6. CASE RemoveSelected \/ CollectUpdatePlan
  BY <1>1, <1>6 DEF RemoveSelected, CollectUpdatePlan
<1>7. CASE MigrateSelected
  BY <1>2, <1>7 DEF MigrateSelected
<1>8. CASE MigrateEverything \/ CollectSweepCheck \/ CollectReinstallPlan
  BY <1>3, <1>4, <1>8 DEF MigrateEverything, CollectSweepCheck, CollectReinstallPlan
<1>9. CASE TakeRequest
  BY <1>9 DEF TakeRequest, RunInTerminal, RunInPlace, StartConfirmedUpdateSweep,
     StartConfirmedSweep, StartInstallBatch, StartBatch, StartBuild
<1>10. CASE NoKey \/ CtrlC \/ DismissReport \/ LeaveInput \/ SubmitInstall \/ SubmitSearch
              \/ RetryLoad \/ Quit \/ Escape \/ Cancel
  BY <1>10 DEF NoKey, CtrlC, DismissReport, LeaveInput, Typing, SubmitInstall, SubmitSearch,
     RetryLoad, Quit, Escape, Cancel
<1>11. CASE StartCheck \/ StartVerify \/ OpenInput \/ PickDowngrade \/ PickHit \/ StartUpdate
              \/ StartUpdateSweep \/ StartReinstallSweep \/ StartDowngrade
              \/ StartReinstall \/ PinSelected \/ Jump
  BY <1>11 DEF StartCheck, StartVerify, OpenInput, PickDowngrade, PickHit, StartUpdate,
     StartUpdateSweep, StartReinstallSweep, StartDowngrade, StartLookup, StartReinstall,
     PinSelected, Jump
<1>12. CASE StartMember \/ CollectNothing \/ CollectAborted \/ CollectWarning \/ CollectBuild
              \/ Leave
  BY <1>12 DEF StartMember, StopQueue, StartMigrate, CollectNothing, CollectAborted,
     CollectWarning, CollectBuild, BeginMember, FinishMember, FinishBuild, Leave
<1>13. CASE CollectUseless \/ CollectCheck \/ CollectDowngrade \/ CollectSearch
              \/ CollectVerify
  BY <1>13 DEF CollectUseless, CollectCheck, CollectDowngrade, CollectSearch, CollectVerify
<1> QED BY <1>5, <1>6, <1>7, <1>8, <1>9, <1>10, <1>11, <1>12, <1>13
        DEF Next, Press, CollectOneShot

\* The queue's member is done, and it ends or goes on to the next one.
LEMMA MemberDone ==
  ASSUME TypeOK, RunHeld, QueueInv, Live, pc # "out", queue # NoQueue, job # NoJob,
         job.kind = "migrate", NEW outcome \in Outcomes, FinishQueueStep(outcome),
         job' = NoJob, confirm' # NoQuestion => IsInjective(confirm'.plan)
  PROVE  QueueInv' /\ EndsTold
<1>1. queue \in Queues /\ job.crate \in Crates
  BY DEF TypeOK, RunTypes
<1>2. outcome = "cancelled" \/ outcome \in Sections
  BY DEF Outcomes, Batches, Sections
<1>3. ASSUME ~queue.crossed
      PROVE  Outstanding(queue, job.crate, {job.crate})
  BY <1>3 DEF QueueInv
<1>4. CASE outcome = "cancelled"
  <2>1. queue' = NoQueue /\ event'.what = "migrated" /\ event'.q = queue
        /\ event'.ended = "cancelled"
    BY <1>4 DEF FinishQueueStep, Finalize
  <2>2. ~queue.crossed => QueueTold(queue, "cancelled")
    BY <1>1, <1>3, CancelledTold
  <2> QED BY <2>1, <2>2 DEF QueueInv, EndsTold
<1>5. CASE outcome # "cancelled"
  <2>1. PICK q : q = File(queue, outcome, job.crate)
    OBVIOUS
  <2>2. q.left = queue.left /\ q.crossed = queue.crossed /\ q \in Queues
    BY <1>1, <1>2, <1>5, <2>1 DEF File, Queues
  <2>3. \/ /\ queue' = NoQueue /\ event'.what = "migrated" /\ event'.q = q
           /\ q.left # <<>> => event'.ended = "cancelled"
        \/ q.left # <<>> /\ Advance(q)
    BY <1>5, <2>1 DEF FinishQueueStep, Finalize
  <2>4. CASE /\ queue' = NoQueue /\ event'.what = "migrated" /\ event'.q = q
             /\ q.left # <<>> => event'.ended = "cancelled"
    <3>1. PICK ended : ended = event'.ended
      OBVIOUS
    <3>2. queue.left # <<>> => ended # "completed"
      BY <2>2, <2>4, <3>1
    <3>3. ~queue.crossed => QueueTold(q, ended)
      BY <1>1, <1>2, <1>3, <1>5, <2>1, <3>2, FiledTold
    <3> QED BY <2>2, <2>4, <3>1, <3>3 DEF QueueInv, EndsTold
  <2>5. CASE q.left # <<>> /\ Advance(q)
    <3>1. PICK n : n = [q EXCEPT !.left = Tail(@)]
      OBVIOUS
    <3>2. /\ queue' = n /\ pendMigrate' = [crate |-> Head(q.left), at |-> q.at]
          /\ event' = NoEvent
      BY <2>5, <3>1 DEF Advance, Quiet
    <3>3. n.crossed = q.crossed
      BY <2>2, <3>1 DEF Queues
    <3>4. ~queue.crossed => Outstanding(n, Head(q.left), {})
      BY <1>1, <1>2, <1>3, <1>5, <2>1, <2>2, <2>5, <3>1, NextInHand
    <3>5. pendMigrate' # NoRequest /\ pendMigrate'.crate = Head(q.left)
      <4>1. q.left \in Seq(Crates) /\ q.at \in Pair
        BY <2>2 DEF Queues
      <4>2. Head(q.left) \in Crates
        BY <2>5, <4>1
      <4>3. [crate |-> Head(q.left), at |-> q.at] \in Migrations
        BY <4>1, <4>2 DEF Migrations
      <4> QED BY <3>2, <4>3, AppAssumption DEF AppAssumption
    <3>6. ~queue'.crossed => Outstanding(queue', pendMigrate'.crate, {})
      BY <2>2, <3>2, <3>3, <3>4, <3>5
    <3> QED BY <3>2, <3>5, <3>6 DEF QueueInv, EndsTold, Outstanding, FiledIn
  <2> QED BY <2>3, <2>4, <2>5
<1> QED BY <1>4, <1>5

\* A start is refused: a queue ends with the member filed.
LEMMA RefusedTold ==
  ASSUME TypeOK, RunHeld, QueueInv, Live, pc # "out", pendMigrate # NoRequest, NEW shown,
         RefuseMigration(pendMigrate.crate, shown),
         confirm' # NoQuestion => IsInjective(confirm'.plan)
  PROVE  QueueInv' /\ EndsTold
<1>1. CASE queue = NoQueue
  BY <1>1 DEF RefuseMigration, QueueInv, EndsTold, Quiet
<1>2. CASE queue # NoQueue
  <2>1. queue \in Queues /\ pendMigrate.crate \in Crates
    BY <1>2 DEF TypeOK, RunTypes, RequestTypes, Migrations
  <2>2. PICK q : q = File(queue, "failed", pendMigrate.crate)
    OBVIOUS
  <2>3. queue' = NoQueue /\ event'.what = "migrated" /\ event'.q = q
        /\ event'.ended = "aborted"
    BY <1>2, <2>2 DEF RefuseMigration, Finalize
  <2>4. q.crossed = queue.crossed
    BY <2>1, <2>2 DEF File, Queues
  <2>5. ~queue.crossed => QueueTold(q, "aborted")
    <3>1. ~queue.crossed => Outstanding(queue, pendMigrate.crate, {})
      BY <1>2 DEF QueueInv
    <3> QED BY <2>1, <2>2, <3>1, FiledTold DEF Sections
  <2> QED BY <2>3, <2>4, <2>5 DEF QueueInv, EndsTold
<1> QED BY <1>1, <1>2

\* Work of another kind is put into the slot.
LEMMA QueueOccupied ==
  ASSUME RunHeld, QueueInv, Live, pc # "out", UNCHANGED <<queue, pendMigrate>>,
         NEW kind \in (OneShots \cup Builds) \ {"migrate"}, NEW crate,
         Occupy(Job(kind, crate)),
         confirm' # NoQuestion => IsInjective(confirm'.plan)
  PROVE  QueueInv'
<1>1. job' = Job(kind, crate) /\ Job(kind, crate).kind = kind
  BY DEF Occupy, Job
<1>2. CASE job = NoJob
  BY <1>1, <1>2, QueueWaits
<1>3. CASE job # NoJob
  <2>1. dropped' # "no"
    BY <1>1, <1>3 DEF Occupy, OneShots, Builds, Singles, Batches
  <2> QED BY <2>1 DEF QueueInv, Live
<1> QED BY <1>2, <1>3

LEMMA QueueInvStep ==
  ASSUME TypeOK, RunHeld, QueueInv, Next
  PROVE  QueueInv'
<1> USE DEF queued, running
<1>1. confirm' # NoQuestion => IsInjective(confirm'.plan)
  BY AskedOnce DEF QueueInv
<1> DEFINE Going == Live /\ pc # "out"
           Stays == Going /\ UNCHANGED <<queue, pendMigrate>>
\* What most steps do to the queue and to the slot.
<1>2. CASE Stays /\ (\/ job' = job
                     \/ job # NoJob /\ job'.kind = job.kind /\ job'.crate = job.crate)
  BY <1>1, <1>2, QueueKept
<1>3. CASE TakeRequest
  <2>1. Stays
    BY <1>3 DEF TakeRequest, RunInTerminal, RunInPlace, StartConfirmedUpdateSweep,
       StartConfirmedSweep, StartInstallBatch, StartBatch, StartBuild, Take
  <2>2. StartBuild => pend["build"].what \in Singles
    BY SlotSet DEF StartBuild, Take, Taken, TypeOK, RequestTypes, Slot, WorkOf
  <2>3. UNCHANGED job \/ \E kind \in Batches \cup Singles : Occupy(Job(kind, NoCrate))
    BY <1>3, <2>2 DEF TakeRequest, RunInTerminal, RunInPlace, StartConfirmedUpdateSweep,
       StartConfirmedSweep, StartInstallBatch, StartBatch, StartBuild, Batches
  <2>4. Batches \cup Singles \subseteq (OneShots \cup Builds) \ {"migrate"}
    BY DEF Batches, Singles, Builds
  <2> QED BY <1>1, <1>2, <2>1, <2>3, <2>4, QueueOccupied
<1>4. CASE NoKey \/ DismissReport \/ AnswerNo \/ AnswerSweep \/ AnswerRemove \/ LeaveInput
             \/ SubmitInstall \/ RetryLoad \/ Quit \/ Escape
  <2>1. Stays /\ job' = job
    BY <1>4 DEF NoKey, DismissReport, AnswerNo, AnswerSweep, AnswerRemove, Answer,
       LeaveInput, SubmitInstall, Typing, RetryLoad, Quit, Escape, Sound, ListKey, Key
  <2> QED BY <1>2, <2>1
<1>5. CASE OpenInput \/ PickDowngrade \/ PickHit \/ StartReinstall \/ PinSelected
             \/ RemoveSelected \/ MigrateSelected \/ MigrateEverything \/ Jump
  <2>1. Stays /\ job' = job
    BY <1>5 DEF OpenInput, PickDowngrade, PickHit, StartReinstall, PinSelected,
       RemoveSelected, MigrateSelected, MigrateEverything, Jump, Sound, ListKey, Key
  <2> QED BY <1>2, <2>1
<1>6. CASE CtrlC \/ Cancel
  <2>1. \/ job' = job
        \/ job # NoJob /\ job'.kind = job.kind /\ job'.crate = job.crate
    BY <1>6, JobMarked DEF CtrlC, Cancel, CancelJob, TypeOK, RunTypes
  <2>2. Going /\ UNCHANGED pendMigrate
    BY <1>6 DEF CtrlC, Cancel, ListKey, Key
  <2>3. CASE UNCHANGED queue
    BY <1>2, <2>1, <2>2, <2>3
  <2>4. CASE queue # NoQueue /\ queue' = [queue EXCEPT !.stopping = TRUE]
    <3>1. queue \in Queues
      BY <2>4 DEF TypeOK, RunTypes
    <3>2. /\ queue'.plan = queue.plan /\ queue'.left = queue.left
          /\ queue'.filed = queue.filed /\ queue'.begun = queue.begun
          /\ queue'.crossed = queue.crossed
      BY <2>4, <3>1 DEF Queues
    <3>3. ASSUME ~queue.crossed
          PROVE  IF pendMigrate # NoRequest
                   THEN /\ Outstanding(queue', pendMigrate.crate, {})
                        /\ ~(job # NoJob /\ job.kind = "migrate")
                   ELSE Outstanding(queue', job.crate, {job.crate})
      <4>1. CASE pendMigrate # NoRequest
        BY <2>2, <2>4, <3>2, <3>3, <4>1, NobodyMoved DEF QueueInv
      <4>2. CASE pendMigrate = NoRequest
        <5>1. Outstanding(queue, job.crate, {job.crate})
          BY <2>2, <2>4, <3>3, <4>2 DEF QueueInv
        <5>2. Outstanding(queue', job.crate, {job.crate})
          BY <3>2, <5>1, NobodyMoved
        <5> QED BY <4>2, <5>2
      <4> QED BY <4>1, <4>2
    <3>4. job = NoJob => job' = NoJob
      BY <1>6 DEF CtrlC, Cancel, CancelJob
    <3>5. pendMigrate = NoRequest => job # NoJob
      BY <2>2, <2>4 DEF RunHeld
    <3> QED BY <1>1, <2>1, <2>2, <2>4, <3>2, <3>3, <3>4, <3>5 DEF QueueInv, Outstanding, FiledIn
  <2> QED BY <1>6, <2>3, <2>4 DEF CtrlC, Cancel
<1>7. CASE AnswerMigrate
  <2>1. queue' = NoQueue \/ queue'.crossed
    BY <1>7 DEF AnswerMigrate, TypeOK, RunTypes, Queues
  <2> QED BY <1>1, <2>1 DEF QueueInv
<1>8. CASE AnswerMigrateAll
  <2>1. confirm.plan \in Seq(Crates) /\ confirm.plan # <<>> /\ IsInjective(confirm.plan)
    BY <1>8 DEF AnswerMigrateAll, Answer, TypeOK, ScreenTypes, Questions, QueueInv
  <2>2. PICK crossed : /\ crossed = (queue # NoQueue \/ pendMigrate # NoRequest \/ job # NoJob)
                       /\ queue' = NewQueue(confirm.plan, crossed)
    BY <1>8 DEF AnswerMigrateAll
  <2>3. pendMigrate' = [crate |-> Head(confirm.plan), at |-> prefix] /\ UNCHANGED job
    BY <1>8 DEF AnswerMigrateAll, Answer
  <2>4. pendMigrate' # NoRequest /\ pendMigrate'.crate = Head(confirm.plan)
    <3>1. Head(confirm.plan) \in Crates
      BY <2>1
    <3>2. [crate |-> Head(confirm.plan), at |-> prefix] \in Migrations
      BY <3>1 DEF Migrations, TypeOK, LoopTypes
    <3> QED BY <2>3, <3>2, AppAssumption DEF AppAssumption
  <2>5. Outstanding(queue', pendMigrate'.crate, {})
    BY <2>1, <2>2, <2>4, FirstInHand
  <2>6. ~queue'.crossed => job' = NoJob
    BY <2>2, <2>3 DEF NewQueue
  <2> QED BY <1>1, <2>4, <2>5, <2>6 DEF QueueInv, Outstanding, FiledIn
<1>9. CASE SubmitSearch \/ StartCheck \/ StartVerify \/ StartUpdate \/ StartUpdateSweep
             \/ StartReinstallSweep \/ StartDowngrade
  <2>1. Stays
    BY <1>9 DEF SubmitSearch, StartCheck, StartVerify, StartUpdate, StartUpdateSweep,
                StartReinstallSweep, StartDowngrade, StartLookup, Typing, Sound, ListKey, Key
  <2>2. \/ UNCHANGED job
        \/ \E kind \in OneShots : Occupy(Job(kind, NoCrate))
    BY <1>9 DEF SubmitSearch, StartCheck, StartVerify, StartUpdate, StartUpdateSweep,
                StartReinstallSweep, StartDowngrade, StartLookup, OneShots
  <2>3. OneShots \subseteq (OneShots \cup Builds) \ {"migrate"}
    BY DEF OneShots
  <2> QED BY <1>1, <1>2, <2>1, <2>2, <2>3, QueueOccupied
<1>10. CASE StopQueue
  BY <1>1, <1>10 DEF StopQueue, Finalize, QueueInv
<1>11. CASE StartMigrate
  <2>1. Going /\ pendMigrate # NoRequest /\ pendMigrate' = NoRequest
    BY <1>11 DEF StartMigrate, Past
  <2>2. ASSUME NEW shown, RefuseMigration(pendMigrate.crate, shown)
        PROVE  QueueInv'
    BY <1>1, <2>1, <2>2, RefusedTold
  <2>3. CASE job = NoJob /\ BeginMigration(pendMigrate.crate)
    <3>1. CASE queue = NoQueue
      BY <1>1, <2>3, <3>1 DEF BeginMigration, QueueInv
    <3>2. CASE queue # NoQueue
      <4>1. queue \in Queues
        BY <3>2 DEF TypeOK, RunTypes
      <4>2. PICK crate : crate = pendMigrate.crate
        OBVIOUS
      <4>3. queue' = [queue EXCEPT !.begun = @ \cup {crate}] /\ job'.crate = crate
        BY <2>3, <3>2, <4>2 DEF BeginMigration, Occupy, Job
      <4>4. /\ queue'.plan = queue.plan /\ queue'.left = queue.left
            /\ queue'.filed = queue.filed /\ queue'.begun = queue.begun \cup {crate}
            /\ queue'.crossed = queue.crossed
        BY <4>1, <4>3 DEF Queues
      <4>5. ASSUME ~queue.crossed
            PROVE  Outstanding(queue', job'.crate, {job'.crate})
        <5>1. Outstanding(queue, crate, {})
          BY <2>1, <3>2, <4>2, <4>5 DEF QueueInv
        <5> QED BY <4>3, <4>4, <5>1 DEF Outstanding, FiledIn
      <4> QED BY <1>1, <2>1, <4>4, <4>5 DEF QueueInv, Outstanding, FiledIn
    <3> QED BY <3>1, <3>2
  <2> QED BY <1>11, <2>2, <2>3 DEF StartMigrate
<1>12. CASE CollectNothing \/ CollectWarning \/ BeginMember
  <2>1. Stays /\ job' = job
    BY <1>12 DEF CollectNothing, CollectWarning, BeginMember, Draining, Poll, Past
  <2> QED BY <1>2, <2>1
<1>13. CASE CollectAborted \/ Leave
  BY <1>1, <1>13 DEF CollectAborted, Leave, QueueInv
<1>14. CASE CollectOneShot
  <2>1. \E kind \in OneShots : Collected(kind)
    BY <1>14 DEF CollectOneShot, CollectUseless, CollectCheck, CollectSweepCheck,
                 CollectReinstallPlan, CollectUpdatePlan, CollectDowngrade, CollectSearch,
                 CollectVerify, OneShots
  <2>2. Stays /\ job' = NoJob /\ job.kind # "migrate"
    BY <2>1 DEF Collected, Poll, Past, OneShots
  <2> QED BY <1>1, <2>2, QueueWaits
<1>15. CASE FinishMember
  <2>1. Stays /\ job # NoJob
    BY <1>15 DEF FinishMember, Draining, Building, Poll, Past
  <2>2. job' = job \/ job' = [job EXCEPT !.over = TRUE]
    BY <1>15 DEF FinishMember
  <2>3. job'.kind = job.kind /\ job'.crate = job.crate
    BY <2>1, <2>2, JobMarked DEF TypeOK, RunTypes
  <2> QED BY <1>2, <2>1, <2>3
<1>16. CASE FinishBuild
  <2>1. Going /\ job # NoJob /\ job' = NoJob
    BY <1>16 DEF FinishBuild, Draining, Building, Poll, Past
  <2>2. CASE queue # NoQueue /\ job.kind = "migrate"
    <3>1. \E outcome \in Outcomes : FinishQueueStep(outcome)
      BY <1>16, <2>2 DEF FinishBuild
    <3> QED BY <1>1, <2>1, <2>2, <3>1, MemberDone
  <2>3. CASE queue # NoQueue /\ job.kind # "migrate"
    <3>1. UNCHANGED <<queue, pendMigrate>>
      BY <1>16, <2>3 DEF FinishBuild
    <3> QED BY <1>1, <2>1, <2>3, <3>1, QueueWaits
  <2>4. CASE queue = NoQueue
    <3>1. queue' = NoQueue
      BY <1>16, <2>4 DEF FinishBuild
    <3> QED BY <1>1, <3>1 DEF QueueInv
  <2> QED BY <2>2, <2>3, <2>4
<1> QED BY <1>3, <1>4, <1>5, <1>6, <1>7, <1>8, <1>9, <1>10, <1>11, <1>12, <1>13, <1>14,
           <1>15, <1>16 DEF Next, Press, StartMember, CollectBuild

-----------------------------------------------------------------------------
(* What a summary says.                                                    *)

\* Only a queue or a list that ends has a summary.
LEMMA OthersSilent ==
  ASSUME Next, event' # NoEvent, event'.what \in {"migrated", "batch"}
  PROVE  StartMember \/ FinishBuild
<1>1. ~TakeRequest
  BY DEF TakeRequest, RunInTerminal, RunInPlace, Mutate, StartConfirmedUpdateSweep,
     StartConfirmedSweep, StartInstallBatch, StartBatch, StartBuild, Quiet
<1>2. ~(AnswerRemove \/ PinSelected)
  BY DEF AnswerRemove, PinSelected, Mutate, Quiet
<1>3. ~(NoKey \/ CtrlC \/ DismissReport \/ AnswerNo \/ AnswerSweep \/ AnswerMigrate
          \/ AnswerMigrateAll \/ LeaveInput \/ SubmitInstall \/ SubmitSearch \/ RetryLoad
          \/ Quit \/ Escape \/ Cancel \/ StartCheck \/ StartVerify \/ OpenInput
          \/ PickDowngrade \/ PickHit)
  BY DEF NoKey, CtrlC, DismissReport, AnswerNo, AnswerSweep, AnswerMigrate,
     AnswerMigrateAll, LeaveInput, SubmitInstall, SubmitSearch, Typing, RetryLoad, Quit,
     Escape, Cancel, StartCheck, StartVerify, OpenInput, PickDowngrade, PickHit, Quiet
<1>4. ~(StartUpdate \/ StartUpdateSweep \/ StartReinstallSweep \/ StartDowngrade
          \/ StartReinstall \/ RemoveSelected \/ MigrateSelected \/ MigrateEverything
          \/ Jump)
  BY DEF StartUpdate, StartUpdateSweep, StartReinstallSweep, StartDowngrade, StartLookup,
     StartReinstall, RemoveSelected, MigrateSelected, MigrateEverything, Jump, Quiet
<1>5. ~(CollectNothing \/ CollectAborted \/ CollectWarning \/ BeginMember \/ FinishMember
          \/ Leave \/ CollectOneShot)
  BY DEF CollectNothing, CollectAborted, CollectWarning, BeginMember, FinishMember, Leave,
     CollectOneShot, CollectUseless, CollectCheck, CollectSweepCheck, CollectReinstallPlan,
     CollectUpdatePlan, CollectDowngrade, CollectSearch, CollectVerify, Collected, Quiet
<1> QED BY <1>1, <1>2, <1>3, <1>4, <1>5 DEF Next, Press, CollectBuild

LEMMA EndsStep ==
  ASSUME TypeOK, RunHeld, QueueInv, Next
  PROVE  EndsTold
<1>1. confirm' # NoQuestion => IsInjective(confirm'.plan)
  BY AskedOnce DEF QueueInv
<1>2. CASE StopQueue
  <2>1. /\ Live /\ pc # "out" /\ pendMigrate # NoRequest /\ queue # NoQueue
        /\ Finalize(PutBack(queue, pendMigrate.crate), "cancelled", report)
    BY <1>2 DEF StopQueue, Past, MayStart
  <2>2. queue \in Queues /\ pendMigrate.crate \in Crates
    BY <2>1 DEF TypeOK, RunTypes, RequestTypes, Migrations
  <2>3. PICK q : q = PutBack(queue, pendMigrate.crate)
    OBVIOUS
  <2>4. event'.q = q /\ event'.ended = "cancelled"
    BY <2>1, <2>3 DEF Finalize
  <2>5. q.crossed = queue.crossed
    BY <2>2, <2>3 DEF PutBack, Queues
  <2>6. ~queue.crossed => QueueTold(q, "cancelled")
    <3>1. ~queue.crossed => Outstanding(queue, pendMigrate.crate, {})
      BY <2>1 DEF QueueInv
    <3> QED BY <2>2, <2>3, <3>1, PutBackTold
  <2> QED BY <2>4, <2>5, <2>6 DEF EndsTold
<1>3. CASE StartMigrate
  <2>1. Live /\ pc # "out" /\ pendMigrate # NoRequest
    BY <1>3 DEF StartMigrate, Past
  <2>2. ASSUME NEW shown, RefuseMigration(pendMigrate.crate, shown)
        PROVE  EndsTold
    BY <1>1, <2>1, <2>2, RefusedTold
  <2>3. CASE BeginMigration(pendMigrate.crate)
    BY <2>3 DEF BeginMigration, Quiet, EndsTold
  <2> QED BY <1>3, <2>2, <2>3 DEF StartMigrate
<1>4. CASE FinishBuild
  <2>1. Live /\ pc # "out" /\ job # NoJob /\ job' = NoJob
    BY <1>4 DEF FinishBuild, Draining, Building, Poll, Past
  <2>2. CASE queue # NoQueue /\ job.kind = "migrate"
    <3>1. \E outcome \in Outcomes : FinishQueueStep(outcome)
      BY <1>4, <2>2 DEF FinishBuild
    <3> QED BY <1>1, <2>1, <2>2, <3>1, MemberDone
  <2>3. CASE ~(queue # NoQueue /\ job.kind = "migrate")
    <3>1. event' = NoEvent \/ event'.what = "batch"
      BY <1>4, <2>3 DEF FinishBuild, FinishInstallBatch, FinishOne, Quiet
    <3> QED BY <3>1 DEF EndsTold
  <2> QED BY <2>2, <2>3
<1> QED BY <1>2, <1>3, <1>4, OthersSilent DEF EndsTold, StartMember

\* A ledger that is closed: who is in none of its counts was never got to, or is the
\* one member a cancel took.
ListTold ==
  event' # NoEvent /\ event'.what = "batch" =>
    LET b == event'.b
        told == b.installed + b.failed + b.refused + b.skipped + event'.left
    IN /\ told = b.total \/ (event'.stopped /\ told + 1 = b.total)
       /\ ~event'.stopped => event'.left = 0

LEMMA ListStep ==
  ASSUME TypeOK, RunHeld, BatchInv, Next
  PROVE  ListTold
<1>1. CASE StartMember
  <2>1. event' = NoEvent \/ event'.what = "migrated"
    BY <1>1 DEF StartMember, StopQueue, StartMigrate, RefuseMigration, BeginMigration,
                Finalize, Quiet
  <2> QED BY <2>1 DEF ListTold
<1>2. CASE FinishBuild
  <2>1. Live /\ pc # "out" /\ job # NoJob
    BY <1>2 DEF FinishBuild, Draining, Building, Poll, Past
  <2>2. ASSUME NEW outcome \in Outcomes, batch # NoBatch, FinishInstallBatch(outcome)
        PROVE  ListTold
    <3>1. job.kind \in Batches /\ batch \in Ledgers /\ batch.attempted <= batch.total
      BY <2>1, <2>2 DEF RunHeld, TypeOK, RunTypes
    <3>2. ~batch.current
      BY <2>2, <3>1 DEF Outcomes
    <3>3. batch.attempted = Told(batch) + (IF job.over THEN 1 ELSE 0)
      BY <2>1, <2>2, <3>2 DEF BatchInv
    <3>4. [batch EXCEPT !.failed = IF outcome \in {"failed", "incomplete"} /\ batch.current
                                     THEN @ + 1 ELSE @] = batch
      BY <3>1, <3>2 DEF Ledgers
    <3>5. /\ event'.b = batch /\ event'.left = batch.total - batch.attempted
          /\ event'.stopped = (outcome # "moved")
      BY <2>2, <3>4 DEF FinishInstallBatch
    <3>6. outcome = "moved" => batch.attempted = batch.total /\ ~job.over
      BY <2>2, <3>1, <3>2 DEF Outcomes
    <3>7. batch.attempted \in Nat /\ batch.total \in Nat /\ Told(batch) \in Nat
      BY <3>1, LedgerFields
    <3>8. /\ \/ Told(batch) + (batch.total - batch.attempted) = batch.total
             \/ /\ outcome # "moved"
                /\ Told(batch) + (batch.total - batch.attempted) + 1 = batch.total
          /\ outcome = "moved" => batch.total - batch.attempted = 0
      <4>1. CASE job.over
        BY <3>3, <3>6, <3>7, <4>1
      <4>2. CASE ~job.over
        BY <3>3, <3>6, <3>7, <4>2
      <4> QED BY <4>1, <4>2
    <3>9. /\ event'.b.total = batch.total
          /\ event'.b.installed + event'.b.failed + event'.b.refused + event'.b.skipped
               + event'.left = Told(batch) + (batch.total - batch.attempted)
      BY <3>5 DEF Told
    <3> QED BY <3>5, <3>8, <3>9 DEF ListTold
  <2>3. \/ \E outcome \in Outcomes : batch # NoBatch /\ FinishInstallBatch(outcome)
        \/ event' = NoEvent \/ event'.what = "migrated"
    BY <1>2 DEF FinishBuild, FinishQueueStep, Finalize, Advance, FinishOne, Quiet
  <2> QED BY <2>2, <2>3 DEF ListTold
<1> QED BY <1>1, <1>2, OthersSilent DEF ListTold

SummaryInv == IInv /\ QueueInv /\ BatchInv /\ SummaryTrue

LEMMA SummaryStep ==
  ASSUME SummaryInv, [Next]_vars
  PROVE  SummaryInv'
<1>1. IInv'
  BY IInvStep DEF SummaryInv
<1>2. TypeOK /\ RunHeld /\ QueueInv /\ BatchInv /\ SummaryTrue
  BY DEF SummaryInv, IInv
<1>3. CASE Next
  <2>1. QueueInv' /\ BatchInv'
    BY <1>2, <1>3, QueueInvStep, BatchStep
  <2>2. EndsTold /\ ListTold
    BY <1>2, <1>3, EndsStep, ListStep
  <2>3. SummaryTrue'
    BY <2>2 DEF SummaryTrue, Did, EndsTold, QueueTold, ListTold
  <2> QED BY <1>1, <2>1, <2>3 DEF SummaryInv
<1>4. CASE UNCHANGED vars
  <2> USE <1>4 DEF vars, here, panels, asked, queued, running, leaving
  <2>1. QueueInv' /\ BatchInv'
    BY <1>2 DEF QueueInv, BatchInv, Outstanding, FiledIn, Told, Live
  <2>2. SummaryTrue'
    BY <1>2 DEF SummaryTrue, Did
  <2> QED BY <1>1, <2>1, <2>2 DEF SummaryInv
<1> QED BY <1>3, <1>4

\* Every member of a confirmed run is in exactly one place of its summary, and what is
\* said of it there is so (finish_batch_step, finish_install_batch,
\* finalize_migrate_batch).
THEOREM SummariesTrue == Spec => []SummaryTrue
<1>1. Init => SummaryInv
  <2>1. Init => QueueInv /\ BatchInv /\ SummaryTrue
    BY DEF Init, QueueInv, BatchInv, SummaryTrue, Did
  <2> QED BY <2>1, InitIInv DEF SummaryInv
<1>2. SummaryInv /\ [Next]_vars => SummaryInv'
  BY SummaryStep
<1>3. SummaryInv => SummaryTrue
  BY DEF SummaryInv
<1> QED BY <1>1, <1>2, <1>3, PTL DEF Spec

-----------------------------------------------------------------------------
(* Leaving.                                                                *)

\* Once the program is to end no build is in the slot, nor when it has ended.
LeaveInv == shouldQuit \/ pc = "out" => ~Building

LEMMA LeaveStep ==
  ASSUME TypeOK, LeaveInv, Next
  PROVE  LeaveInv'
<1> USE DEF LeaveInv, Building, running, leaving
<1>1. CASE TakeRequest
  BY <1>1 DEF TakeRequest, RunInTerminal, RunInPlace, StartConfirmedUpdateSweep,
     StartConfirmedSweep, StartInstallBatch, StartBatch, StartBuild, Take
<1>2. CASE NoKey \/ DismissReport \/ AnswerNo \/ AnswerSweep \/ AnswerRemove \/ AnswerMigrate
             \/ AnswerMigrateAll \/ LeaveInput \/ SubmitInstall
  BY <1>2 DEF NoKey, DismissReport, AnswerNo, AnswerSweep, AnswerRemove, AnswerMigrate,
     AnswerMigrateAll, Answer, LeaveInput, SubmitInstall, Typing, Key
<1>3. CASE CtrlC \/ Quit
  BY <1>3 DEF CtrlC, Quit, ListKey, Key
<1>4. CASE SubmitSearch \/ RetryLoad \/ Escape \/ Cancel \/ StartCheck \/ StartVerify
             \/ OpenInput \/ PickDowngrade \/ PickHit
  BY <1>4 DEF SubmitSearch, Typing, RetryLoad, Escape, Cancel, StartCheck, StartVerify,
     OpenInput, PickDowngrade, PickHit, Sound, ListKey, Key
<1>5. CASE StartUpdate \/ StartUpdateSweep \/ StartReinstallSweep \/ StartDowngrade
             \/ StartReinstall \/ PinSelected \/ RemoveSelected \/ MigrateSelected
             \/ MigrateEverything \/ Jump
  BY <1>5 DEF StartUpdate, StartUpdateSweep, StartReinstallSweep, StartDowngrade,
     StartLookup, StartReinstall, PinSelected, RemoveSelected, MigrateSelected,
     MigrateEverything, Jump, Sound, ListKey, Key
<1>6. CASE StartMember
  BY <1>6 DEF StartMember, StopQueue, StartMigrate
<1>7. CASE CollectNothing \/ CollectAborted \/ CollectWarning \/ Leave
  BY <1>7 DEF CollectNothing, CollectAborted, CollectWarning, Leave
<1>8. CASE CollectOneShot
  BY <1>8 DEF CollectOneShot, CollectUseless, CollectCheck, CollectSweepCheck,
     CollectReinstallPlan, CollectUpdatePlan, CollectDowngrade, CollectSearch,
     CollectVerify, Collected
<1>9. CASE CollectBuild
  BY <1>9 DEF CollectBuild, BeginMember, FinishMember, FinishBuild, Draining, Poll, Past
<1> QED BY <1>1, <1>2, <1>3, <1>4, <1>5, <1>6, <1>7, <1>8, <1>9 DEF Next, Press

\* The safety half of QuitWaits: the program never ends with a build in its job slot
\* (on_key, poll_job).
THEOREM BuildNeverLeft == Spec => [](pc = "out" => ~Building)
<1>1. Init => LeaveInv
  BY DEF Init, LeaveInv, Building
<1>2. IInv /\ LeaveInv /\ [Next]_vars => LeaveInv'
  <2> SUFFICES ASSUME IInv, LeaveInv, [Next]_vars
               PROVE  LeaveInv'
    OBVIOUS
  <2>1. CASE Next
    BY <2>1, LeaveStep DEF IInv
  <2>2. CASE UNCHANGED vars
    BY <2>2 DEF vars, running, leaving, LeaveInv, Building
  <2> QED BY <2>1, <2>2
<1>3. LeaveInv => (pc = "out" => ~Building)
  BY DEF LeaveInv
<1> QED BY <1>1, <1>2, <1>3, InductiveInvariant, PTL DEF Spec

=============================================================================
