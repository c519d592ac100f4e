----------------------------- MODULE BatchProofs -----------------------------
(***************************************************************************)
(* Proofs about a batch of captured builds, for any number of members: who *)
(* wins between a cancel and the placement, what the batch's end says, when *)
(* a password is asked for, and that a stopped batch begins nothing more.  *)
(***************************************************************************)
EXTENDS BatchProps, TLAPS

-----------------------------------------------------------------------------
(* What a step of the system can touch.                                    *)

LEMMA ControlFrame ==
  ASSUME [Next]_vars
  PROVE  \/ UNCHANGED control
         \/ TryBeginMember \/ Announce \/ Withdraw \/ Door \/ FinishMember
         \/ RequestCancel \/ Swap
<1> USE DEF control
<1>1. CASE Worker
  BY <1>1 DEF Worker, Working, PlanReady, PlanFails, Skip, Courtesy, Spawn, SpawnFails, Recheck,
     DrainSweep, DrainEof, DrainBreaks, Wait, Sweep, Classify, Gate, Answered, Place
<1>2. CASE Interface \/ Press
  BY <1>2 DEF Interface, Press, Escalate, Load, Term, Kill, AnswerAuth, Prompted, Collect
<1>3. ASSUME NEW i \in Members, CargoEnds(i) \/ ChildEnds(i) \/ Obey(i)
      PROVE  UNCHANGED control
  BY <1>3 DEF CargoEnds, ChildEnds, Obey
<1>4. CASE UNCHANGED vars
  BY <1>4 DEF vars
<1> QED BY <1>1, <1>2, <1>3, <1>4 DEF Next

LEMMA GroupFrame ==
  ASSUME [Next]_vars
  PROVE  \/ UNCHANGED group
         \/ Spawn \/ Recheck \/ DrainSweep \/ DrainBreaks \/ Sweep \/ Term \/ Kill
         \/ \E i \in Members : CargoEnds(i) \/ ChildEnds(i) \/ Obey(i)
<1>1. CASE Worker
  <2> USE DEF group
  <2>1. PlanReady \/ PlanFails \/ TryBeginMember \/ Skip \/ Courtesy => UNCHANGED group
    BY DEF PlanReady, PlanFails, TryBeginMember, Skip, Courtesy
  <2>2. SpawnFails \/ Announce \/ DrainEof \/ Wait \/ Withdraw => UNCHANGED group
    BY DEF SpawnFails, Announce, DrainEof, Wait, Withdraw
  <2>3. Classify \/ Gate \/ Answered \/ Door \/ Place \/ FinishMember => UNCHANGED group
    BY DEF Classify, Gate, Answered, Door, Place, FinishMember
  <2> QED BY <1>1, <2>1, <2>2, <2>3 DEF Worker, Working
<1>2. CASE Interface \/ Press
  BY <1>2 DEF Interface, Press, Escalate, RequestCancel, Swap, Load, AnswerAuth, Prompted, Collect,
     group
<1>3. CASE UNCHANGED vars
  BY <1>3 DEF vars, group
<1> QED BY <1>1, <1>2, <1>3 DEF Next

LEMMA WorkerFrame ==
  ASSUME [Next]_vars
  PROVE  \/ UNCHANGED worker
         \/ Worker \/ Collect
<1>1. CASE Interface \/ Press
  BY <1>1 DEF Interface, Press, Escalate, RequestCancel, Swap, Load, Term, Kill, AnswerAuth,
     Prompted
<1>2. ASSUME NEW i \in Members, CargoEnds(i) \/ ChildEnds(i) \/ Obey(i)
      PROVE  UNCHANGED worker
  BY <1>2 DEF CargoEnds, ChildEnds, Obey
<1>3. CASE UNCHANGED vars
  BY <1>3 DEF vars
<1> QED BY <1>1, <1>2, <1>3 DEF Next

LEMMA InterfaceFrame ==
  ASSUME [Next]_vars
  PROVE  UNCHANGED ui \/ Interface \/ Press
<1>1. CASE Worker
  BY <1>1 DEF Worker, Working, PlanReady, PlanFails, TryBeginMember, Skip, Courtesy, Spawn,
     SpawnFails, Announce, Recheck, DrainSweep, DrainEof, DrainBreaks, Wait, Sweep, Withdraw,
     Classify, Gate, Answered, Door, Place, FinishMember
<1>2. ASSUME NEW i \in Members, CargoEnds(i) \/ ChildEnds(i) \/ Obey(i)
      PROVE  UNCHANGED ui
  BY <1>2 DEF CargoEnds, ChildEnds, Obey
<1>3. CASE UNCHANGED vars
  BY <1>3 DEF vars
<1> QED BY <1>1, <1>2, <1>3 DEF Next

LEMMA AuthFrame ==
  ASSUME [Next]_vars
  PROVE  UNCHANGED auth \/ Gate \/ Answered \/ AnswerAuth \/ Prompted
<1>1. CASE Worker
  BY <1>1 DEF Worker, Working, PlanReady, PlanFails, TryBeginMember, Skip, Courtesy, Spawn,
     SpawnFails, Announce, Recheck, DrainSweep, DrainEof, DrainBreaks, Wait, Sweep, Withdraw,
     Classify, Door, Place, FinishMember
<1>2. CASE Interface \/ Press
  BY <1>2 DEF Interface, Press, Escalate, RequestCancel, Swap, Load, Term, Kill, Collect
<1>3. ASSUME NEW i \in Members, CargoEnds(i) \/ ChildEnds(i) \/ Obey(i)
      PROVE  UNCHANGED auth
  BY <1>3 DEF CargoEnds, ChildEnds, Obey
<1>4. CASE UNCHANGED vars
  BY <1>4 DEF vars
<1> QED BY <1>1, <1>2, <1>3, <1>4 DEF Next

-----------------------------------------------------------------------------
(* Each part of the inductive invariant is kept by every step.             *)

LEMMA TypeStep ==
  ASSUME TypeOK, CancelInv, [Next]_vars
  PROVE  TypeOK'
<1>1. m \in 0 .. N /\ (m < N => m + 1 \in Members)
  BY BatchAssumption DEF BatchAssumption, TypeOK, WorkerOK, Members
<1>2. ControlOK'
  <2> USE DEF TypeOK, ControlOK
  <2>1. CASE UNCHANGED control
    BY <2>1 DEF control
  <2>2. CASE TryBeginMember \/ Announce \/ Withdraw \/ Door
    BY <1>1, <2>2 DEF TryBeginMember, Announce, Withdraw, Door
  <2>3. CASE FinishMember
    BY BatchAssumption, <2>3 DEF BatchAssumption, FinishMember, Report
  <2>4. CASE RequestCancel \/ Swap
    BY <2>4 DEF RequestCancel, Swap
  <2> QED BY <2>1, <2>2, <2>3, <2>4, ControlFrame
<1>3. GroupOK'
  <2> USE DEF TypeOK, GroupOK
  <2>1. CASE UNCHANGED group
    BY <2>1 DEF group
  <2>2. CASE Spawn
    <3>1. PICK k \in Kinds :
            /\ kind' = [kind EXCEPT ![m] = k]
            /\ alive' = [alive EXCEPT ![m] =
                 {"cargo"} \cup (IF k = "none" THEN {} ELSE {"child"})]
      BY <2>2 DEF Spawn
    <3> QED BY <2>2, <3>1 DEF Spawn
  <2>3. ASSUME NEW i \in Members, Sigterm(i) PROVE GroupOK'
    BY <2>3 DEF Sigterm
  <2>4. ASSUME NEW i, Sigkill(i) PROVE GroupOK'
    BY <2>4 DEF Sigkill
  <2>5. CASE Recheck \/ DrainSweep \/ DrainBreaks \/ Sweep
    BY <2>1, <2>3, <2>4, <2>5 DEF Recheck, DrainSweep, DrainBreaks, Sweep, WorkerOK
  <2>6. CASE Term \/ Kill
    <3>1. Sigterm(target) => GroupOK'
      BY DEF Sigterm
    <3> QED BY <2>1, <2>4, <2>6, <3>1 DEF Term, Kill
  <2>7. ASSUME NEW i \in Members, CargoEnds(i) \/ ChildEnds(i) \/ Obey(i) PROVE GroupOK'
    BY <2>7 DEF CargoEnds, ChildEnds, Obey
  <2> QED BY <2>1, <2>2, <2>5, <2>6, <2>7, GroupFrame
<1>4. WorkerOK'
  <2> USE DEF TypeOK, WorkerOK, WorkerSteps, Results, At, Goto, Over
  <2>1. CASE UNCHANGED worker
    BY <2>1 DEF worker
  <2>2. CASE PlanReady \/ PlanFails \/ Skip
    BY <2>2 DEF PlanReady, PlanFails, Skip
  <2>3. CASE TryBeginMember \/ Courtesy
    BY <2>3 DEF TryBeginMember, Courtesy
  <2>4. CASE Spawn \/ SpawnFails \/ Announce \/ Recheck
    BY <2>4 DEF Spawn, SpawnFails, Announce, Recheck
  <2>5. CASE DrainSweep \/ DrainEof \/ DrainBreaks \/ Wait \/ Sweep
    BY <2>5 DEF DrainSweep, DrainEof, DrainBreaks, Wait, Sweep
  <2>6. CASE Withdraw \/ Classify \/ Gate
    BY <2>6 DEF Withdraw, Classify, Gate
  <2>7. CASE Answered
    BY <2>7 DEF Answered
  <2>8. CASE Door \/ Place
    BY <2>8 DEF Door, Place
  <2>9. CASE FinishMember
    BY <1>1, <2>9 DEF FinishMember, Report
  <2>10. CASE Collect
    BY <2>10 DEF Collect
  <2> QED
    BY <2>1, <2>2, <2>3, <2>4, <2>5, <2>6, <2>7, <2>8, <2>9, <2>10, WorkerFrame DEF Worker, Working
<1>5. InterfaceOK'
  <2> USE DEF TypeOK, InterfaceOK
  <2>1. CASE UNCHANGED ui
    BY <2>1 DEF ui
  <2>2. CASE Press \/ Escalate
    BY <2>2 DEF Press, Escalate, RequestCancel, ControlOK
  <2>3. 0 \in 0 .. N
    BY BatchAssumption DEF BatchAssumption
  <2>4. CASE Swap
    BY <2>3, <2>4 DEF Swap, Return, Tell
  <2>5. CASE Load
    <3>1. pgid[target] \in BOOLEAN
      BY <2>5 DEF Load, ControlOK, CancelInv, Members
    <3> QED BY <2>5, <3>1 DEF Load
  <2>6. CASE Term \/ Kill
    BY <2>3, <2>6 DEF Term, Kill, Return, Tell
  <2>7. CASE AnswerAuth \/ Prompted \/ Collect
    BY <2>7 DEF AnswerAuth, Prompted, Collect
  <2> QED BY <2>1, <2>2, <2>4, <2>5, <2>6, <2>7, InterfaceFrame DEF Interface
<1>6. AuthOK'
  BY AuthFrame DEF TypeOK, AuthOK, auth, Gate, Answered, AnswerAuth, Prompted
<1> QED BY <1>2, <1>3, <1>4, <1>5, <1>6 DEF TypeOK

LEMMA MemberStep ==
  ASSUME TypeOK, MemberInv, [Next]_vars
  PROVE  MemberInv'
<1> USE DEF At, Goto, Over, MemberInv, InHand, WorkerSteps
<1>1. m \in Members /\ \A i \in Members : i \in Nat
  BY BatchAssumption DEF BatchAssumption, TypeOK, WorkerOK, Members
<1>2. CASE PlanReady \/ PlanFails \/ TryBeginMember \/ Skip \/ Courtesy \/ Spawn \/ SpawnFails
  BY <1>2 DEF PlanReady, PlanFails, TryBeginMember, Skip, Courtesy, Spawn, SpawnFails, control
<1>3. CASE Announce \/ Recheck \/ DrainSweep \/ DrainEof \/ DrainBreaks \/ Wait \/ Sweep
  BY <1>3 DEF Announce, Recheck, DrainSweep, DrainEof, DrainBreaks, Wait, Sweep, control
<1>4. CASE Withdraw \/ Classify \/ Gate \/ Answered \/ Door \/ Place
  BY <1>4 DEF Withdraw, Classify, Gate, Answered, Door, Place, control
<1>5. CASE FinishMember
  <2>1. /\ \A i \in Members : outcome'[i] = IF i = m THEN result ELSE outcome[i]
        /\ current' = 0 /\ result' = "none" /\ result # "none" /\ wpc = "finish"
    BY <1>5 DEF FinishMember, Report, TypeOK, WorkerOK
  <2>2. CASE m' = m /\ wpc' = "over"
    BY <1>1, <2>1, <2>2
  <2>3. CASE m' = m + 1 /\ wpc' = "begin" /\ result # "cancelled"
    <3>1. m + 1 \in Members /\ m + 1 > m
      BY <1>1, <1>5, <2>3, BatchAssumption DEF BatchAssumption, FinishMember, Members
    <3>2. \A i \in Members : i < m + 1 => i < m \/ i = m
      BY <1>1
    <3>3. \A i \in Members : i > m + 1 => i > m /\ i # m
      BY <1>1
    <3> QED BY <2>1, <2>3, <3>1, <3>2, <3>3
  <2> QED BY <1>5, <2>2, <2>3 DEF FinishMember
<1>6. CASE Press \/ Escalate \/ Swap \/ Load \/ Term \/ Kill
  BY <1>6 DEF Press, Escalate, RequestCancel, Swap, Load, Term, Kill, control, worker
<1>7. CASE AnswerAuth \/ Prompted \/ Collect
  BY <1>7 DEF AnswerAuth, Prompted, Collect, control, worker
<1>8. ASSUME NEW i \in Members, CargoEnds(i) \/ ChildEnds(i) \/ Obey(i)
      PROVE  MemberInv'
  BY <1>8 DEF CargoEnds, ChildEnds, Obey, control, worker
<1>9. CASE UNCHANGED vars
  BY <1>9 DEF vars, control, worker
<1> QED
  BY <1>2, <1>3, <1>4, <1>5, <1>6, <1>7, <1>8, <1>9 DEF Next, Worker, Working, Interface

\* A member in hand is not fresh, so nobody touches a fresh one.
LEMMA FreshStep ==
  ASSUME TypeOK, TypeOK', MemberInv, FreshInv, CancelInv, [Next]_vars
  PROVE  FreshInv'
<1> USE DEF At, Goto, Over
<1>1. m \in Nat /\ Members \subseteq Nat /\ m \in Members /\ 0 \notin Members
  BY BatchAssumption DEF BatchAssumption, TypeOK, WorkerOK, Members
<1>2. current # 0 => ~Fresh(current)
  BY <1>1 DEF MemberInv, Fresh, InHand
<1>3. target # 0 => ~Fresh(target) /\ target \in Members
  BY DEF FreshInv, TypeOK, InterfaceOK, Members
<1>4. \A i \in Members : alive[i] # {} => ~Fresh(i)
  BY DEF FreshInv
<1>5. \A i \in Members : Fresh(i)' => Fresh(i)
  <2> SUFFICES ASSUME NEW i \in Members, Fresh(i)' PROVE Fresh(i)
    OBVIOUS
  <2> USE DEF Fresh, InHand, WorkerSteps, worker
  <2>1. CASE ~(Worker \/ Collect)
    <3>1. UNCHANGED worker
      BY <2>1 DEF Next, Interface, Press, Escalate, RequestCancel, Swap, Load, Term, Kill,
         AnswerAuth, Prompted, CargoEnds, ChildEnds, Obey, vars
    <3> QED BY <3>1
  <2>2. CASE FinishMember
    BY <1>1, <2>2 DEF FinishMember, Report, MemberInv, TypeOK, WorkerOK
  <2>3. CASE PlanReady \/ PlanFails \/ TryBeginMember \/ Skip \/ Courtesy \/ Spawn \/ SpawnFails
    BY <2>3 DEF PlanReady, PlanFails, TryBeginMember, Skip, Courtesy, Spawn, SpawnFails
  <2>4. CASE Announce \/ Recheck \/ DrainSweep \/ DrainEof \/ DrainBreaks \/ Wait \/ Sweep
    BY <2>4 DEF Announce, Recheck, DrainSweep, DrainEof, DrainBreaks, Wait, Sweep
  <2>5. CASE Withdraw \/ Classify \/ Gate \/ Answered \/ Door \/ Place
    BY <2>5 DEF Withdraw, Classify, Gate, Answered, Door, Place
  <2>6. CASE Collect
    BY <2>6 DEF Collect
  <2> QED BY <2>1, <2>2, <2>3, <2>4, <2>5, <2>6 DEF Worker, Working
\* Neither its phase nor its processes, nor what was said of it, is touched.
<1>6. ASSUME NEW i \in Members, Fresh(i)
      PROVE  /\ phase'[i] = phase[i] /\ told'[i] = told[i] /\ alive'[i] = alive[i]
             /\ status'[i] = status[i] /\ target' # i
  <2>1. i # current /\ i # target /\ alive[i] = {} /\ i # 0 /\ (i = m => wpc \notin InHand)
    BY <1>1, <1>2, <1>3, <1>6 DEF FreshInv, Fresh
  <2> USE DEF InHand, WorkerSteps, control, group, ui
  <2>2. ASSUME NEW j, Sigkill(j), j # i
        PROVE  alive'[i] = alive[i] /\ status'[i] = status[i]
    BY <2>2 DEF Sigkill, TypeOK, GroupOK
  <2>3. CASE PlanReady \/ PlanFails \/ TryBeginMember \/ Skip \/ Courtesy
    BY <2>1, <2>3 DEF PlanReady, PlanFails, TryBeginMember, Skip, Courtesy
  <2>4. CASE Spawn \/ SpawnFails \/ Announce \/ DrainEof \/ Wait
    BY <2>1, <2>4 DEF Spawn, SpawnFails, Announce, DrainEof, Wait, TypeOK, GroupOK
  <2>5. CASE Recheck \/ DrainSweep \/ DrainBreaks \/ Sweep
    BY <2>1, <2>2, <2>5 DEF Recheck, DrainSweep, DrainBreaks, Sweep, Sigterm
  <2>6. CASE Withdraw \/ Classify \/ Gate \/ Answered \/ Place \/ FinishMember
    BY <2>1, <2>6 DEF Withdraw, Classify, Gate, Answered, Place, FinishMember, Report
  <2>7. CASE Door
    BY <2>1, <2>7 DEF Door, TypeOK, ControlOK
  <2>8. ASSUME NEW j \in Members, CargoEnds(j) \/ ChildEnds(j) \/ Obey(j)
        PROVE  /\ alive'[i] = alive[i] /\ status'[i] = status[i]
               /\ UNCHANGED control /\ UNCHANGED ui
    <3>1. j # i
      BY <2>1, <2>8 DEF CargoEnds, ChildEnds, Obey
    <3> QED BY <2>8, <3>1 DEF CargoEnds, ChildEnds, Obey, TypeOK, GroupOK
  <2>9. CASE Press \/ Escalate
    BY <2>1, <2>9 DEF Press, Escalate, RequestCancel
  <2>10. CASE Swap
    BY <2>1, <2>10 DEF Swap, Return, Tell, TypeOK, ControlOK, InterfaceOK
  <2>11. CASE Load \/ AnswerAuth \/ Prompted \/ Collect
    BY <2>1, <2>11 DEF Load, AnswerAuth, Prompted, Collect
  <2>12. CASE Term
    BY <2>1, <2>12 DEF Term, Return, Tell, Sigterm, TypeOK, InterfaceOK
  <2>13. CASE Kill
    BY <2>1, <2>2, <2>13 DEF Kill, Return
  <2>14. CASE UNCHANGED vars
    BY <2>1, <2>14 DEF vars
  <2> QED
    BY <2>1, <2>3, <2>4, <2>5, <2>6, <2>7, <2>8, <2>9, <2>10, <2>11, <2>12, <2>13, <2>14
    DEF Next, Worker, Working, Interface
<1> QED BY <1>5, <1>6 DEF FreshInv

LEMMA CargoStep ==
  ASSUME TypeOK, MemberInv, FreshInv, CancelInv, CargoInv, [Next]_vars
  PROVE  CargoInv'
<1> USE DEF At, Goto, Over, CargoInv
<1>1. m \in Members /\ \A i \in Members : i \in Nat
  BY BatchAssumption DEF BatchAssumption, TypeOK, WorkerOK, Members
<1>2. \A i \in Members : Fresh(i) => alive[i] = {} /\ status[i] = "none"
  BY DEF FreshInv
<1>3. \A i \in Members : alive[i] # {} => i <= m
  BY <1>1, <1>2 DEF Fresh
<1>4. ASSUME NEW i \in Members, Sigkill(i), UNCHANGED <<wpc, m>>
      PROVE  CargoInv'
  <2>1. \A j \in Members : alive'[j] = IF j = i THEN {} ELSE alive[j]
    BY <1>4 DEF Sigkill, TypeOK, GroupOK
  <2>2. status'[m] = IF m = i /\ "cargo" \in alive[m] THEN "signal" ELSE status[m]
    BY <1>1, <1>4 DEF Sigkill, TypeOK, GroupOK
  <2> QED BY <1>1, <1>4, <2>1, <2>2
<1>5. CASE PlanReady \/ PlanFails \/ Skip \/ Courtesy \/ SpawnFails \/ Announce \/ Withdraw
  BY <1>5 DEF PlanReady, PlanFails, Skip, Courtesy, SpawnFails, Announce, Withdraw, group
<1>6. CASE TryBeginMember
  <2>1. Fresh(m)
    BY <1>6 DEF TryBeginMember, Fresh, InHand, MemberInv
  <2> QED BY <1>1, <1>2, <1>6, <2>1 DEF TryBeginMember, group
<1>7. CASE Spawn
  BY <1>1, <1>7 DEF Spawn, TypeOK, GroupOK
<1>8. CASE Recheck
  BY <1>8 DEF Recheck, Sigterm, group
<1>9. CASE DrainSweep
  BY <1>1, <1>4, <1>9 DEF DrainSweep
<1>10. CASE DrainBreaks
  BY <1>1, <1>10 DEF DrainBreaks, Sigkill, TypeOK, GroupOK
<1>11. CASE DrainEof \/ Wait
  BY <1>11 DEF DrainEof, Wait, group
<1>12. CASE Sweep
  BY <1>1, <1>12 DEF Sweep, Sigkill, TypeOK, GroupOK, group
<1>13. CASE Classify \/ Gate \/ Answered \/ Door \/ Place
  BY <1>13 DEF Classify, Gate, Answered, Door, Place, group
<1>14. CASE FinishMember
  <2>1. "cargo" \notin alive[m]
    BY <1>14 DEF FinishMember
  <2>2. CASE m' = m
    BY <1>14, <2>1, <2>2 DEF FinishMember, group
  <2>3. CASE m' = m + 1 /\ m < N
    <3>1. m + 1 \in Members /\ m + 1 > m
      BY <1>1, <2>3, BatchAssumption DEF BatchAssumption, Members
    <3>2. alive[m + 1] = {} /\ status[m + 1] = "none"
      BY <1>2, <3>1 DEF Fresh
    <3>3. \A i \in Members : i < m + 1 => i < m \/ i = m
      BY <1>1
    <3> QED BY <1>14, <2>1, <2>3, <3>2, <3>3 DEF FinishMember, group
  <2> QED BY <1>14, <2>2, <2>3 DEF FinishMember
<1>15. ASSUME NEW i \in Members, CargoEnds(i) \/ ChildEnds(i) \/ Obey(i)
       PROVE  CargoInv'
  <2>1. \A j \in Members : alive'[j] \subseteq alive[j]
    BY <1>15 DEF CargoEnds, ChildEnds, Obey, TypeOK, GroupOK
  <2>2. status' = status \/ ("cargo" \in alive[i] /\ \A j \in Members \ {i} : status'[j] = status[j])
    BY <1>15 DEF CargoEnds, ChildEnds, Obey, TypeOK, GroupOK
  <2>3. UNCHANGED <<wpc, m>>
    BY <1>15 DEF CargoEnds, ChildEnds, Obey, worker
  <2>4. status'[m] = status[m] \/ "cargo" \in alive[m]
    BY <1>1, <2>2
  <2> QED BY <1>1, <2>1, <2>3, <2>4
<1>16. CASE Press \/ Escalate \/ Swap \/ Load \/ AnswerAuth \/ Prompted \/ Collect
  BY <1>16 DEF Press, Escalate, RequestCancel, Swap, Load, AnswerAuth, Prompted, Collect, group,
     worker
<1>17. CASE Term
  BY <1>17 DEF Term, Sigterm, group, worker
<1>18. CASE Kill
  <2>1. target \in Members /\ UNCHANGED <<wpc, m>>
    BY <1>18 DEF Kill, CancelInv, TypeOK, InterfaceOK, Members, worker
  <2> QED BY <1>4, <1>18, <2>1 DEF Kill, group
<1>19. CASE UNCHANGED vars
  BY <1>19 DEF vars, worker, group
<1> QED
  BY <1>5, <1>6, <1>7, <1>8, <1>9, <1>10, <1>11, <1>12, <1>13, <1>14, <1>15, <1>16, <1>17,
     <1>18, <1>19 DEF Next, Worker, Working, Interface

LEMMA CancelStep ==
  ASSUME TypeOK, MemberInv, FreshInv, CancelInv, [Next]_vars
  PROVE  CancelInv'
<1> USE DEF At, Goto, Over, CancelInv
<1>1. m \in Members /\ (target # 0 => target \in Members)
  BY DEF TypeOK, WorkerOK, InterfaceOK, Members
<1>2. CASE PlanReady \/ PlanFails \/ TryBeginMember \/ Skip \/ Courtesy \/ Spawn \/ SpawnFails
  BY <1>2 DEF PlanReady, PlanFails, TryBeginMember, Skip, Courtesy, Spawn, SpawnFails, control, ui
<1>3. CASE Announce \/ Recheck \/ DrainSweep \/ DrainEof \/ DrainBreaks \/ Wait \/ Sweep
  BY <1>3 DEF Announce, Recheck, DrainSweep, DrainEof, DrainBreaks, Wait, Sweep, control, ui
<1>4. CASE Withdraw \/ Classify \/ Gate \/ Answered \/ Place \/ FinishMember
  BY <1>4 DEF Withdraw, Classify, Gate, Answered, Place, FinishMember, Report, control, ui
<1>5. CASE Door
  BY <1>1, <1>5 DEF Door, Cancelled, ui, TypeOK, ControlOK
<1>6. ASSUME NEW i \in Members, CargoEnds(i) \/ ChildEnds(i) \/ Obey(i)
      PROVE  CancelInv'
  BY <1>6 DEF CargoEnds, ChildEnds, Obey, control, ui
<1>7. CASE Press \/ Escalate
  BY <1>7 DEF Press, Escalate, RequestCancel
<1>8. CASE Swap
  <2>1. target \in Members /\ stopping
    BY <1>1, <1>8 DEF Swap
  <2>2. CASE phase[target] = "building"
    BY <1>8, <2>1, <2>2 DEF Swap, TypeOK, ControlOK
  <2>3. CASE phase[target] = "cancelling"
    BY <1>8, <2>1, <2>3 DEF Swap
  <2>4. CASE phase[target] = "placement"
    BY <1>8, <2>1, <2>4 DEF Swap, Return, Tell, TypeOK, InterfaceOK
  <2> QED BY <1>8, <2>2, <2>3, <2>4 DEF Swap
<1>9. CASE Load
  BY <1>9 DEF Load, control
<1>10. CASE Term
  BY <1>1, <1>10 DEF Term, Return, Tell, control, TypeOK, InterfaceOK
<1>11. CASE Kill \/ AnswerAuth \/ Prompted \/ Collect
  BY <1>11 DEF Kill, Return, AnswerAuth, Prompted, Collect, control
<1>12. CASE UNCHANGED vars
  BY <1>12 DEF vars, control, ui
<1> QED
  BY <1>2, <1>3, <1>4, <1>5, <1>6, <1>7, <1>8, <1>9, <1>10, <1>11, <1>12
  DEF Next, Worker, Working, Interface

LEMMA DoorStep ==
  ASSUME TypeOK, MemberInv, FreshInv, CargoInv, CancelInv, DoorInv, [Next]_vars
  PROVE  DoorInv'
<1> USE DEF At, Goto, Over, DoorInv
<1>1. m \in Members /\ \A i \in Members : i \in Nat
  BY BatchAssumption DEF BatchAssumption, TypeOK, WorkerOK, Members
\* cargo ends of a member that is in hand only, and no later than its wait.
<1>2. \A i \in Members : "cargo" \in alive[i] =>
        i = m /\ wpc \in {"announce", "recheck", "drain", "wait"} /\ outcome[i] = "none"
  <2> SUFFICES ASSUME NEW i \in Members, "cargo" \in alive[i]
               PROVE  i = m /\ wpc \in {"announce", "recheck", "drain", "wait"}
                        /\ outcome[i] = "none"
    OBVIOUS
  <2>1. ~(i < m) /\ ~Fresh(i)
    BY DEF CargoInv, FreshInv
  <2>2. i = m
    BY <1>1, <2>1 DEF Fresh
  <2> QED BY <2>2 DEF CargoInv, MemberInv
<1>3. ASSUME UNCHANGED <<stopping, phase, wpc, m, outcome, result>>,
             \A i \in Members : status'[i] = status[i] \/ "cargo" \in alive[i]
      PROVE  DoorInv'
  <2>1. \A i \in Members : outcome[i] = "cancelled" => status'[i] = status[i]
    BY <1>2, <1>3
  <2>2. result = "cancelled" => status'[m] = status[m]
    BY <1>1, <1>2, <1>3 DEF MemberInv
  <2> QED BY <1>3, <2>1, <2>2
<1>4. CASE PlanReady \/ PlanFails \/ TryBeginMember \/ Spawn \/ Announce \/ Wait \/ Withdraw
  BY <1>4 DEF PlanReady, PlanFails, TryBeginMember, Spawn, Announce, Wait, Withdraw, control,
     group, MemberInv
<1>5. CASE Skip \/ SpawnFails
  BY <1>5 DEF Skip, SpawnFails, control, group
<1>6. CASE Courtesy
  <2>1. status[m] = "none"
    BY <1>6 DEF Courtesy, CargoInv
  <2> QED BY <1>6, <2>1 DEF Courtesy, Cancelled, control, group
<1>7. CASE Recheck
  BY <1>7 DEF Recheck, Sigterm, control, group
<1>8. ASSUME NEW i \in Members, Sigkill(i)
      PROVE  \A j \in Members : status'[j] = status[j] \/ "cargo" \in alive[j]
  BY <1>8 DEF Sigkill, TypeOK, GroupOK
<1>9. CASE DrainSweep
  BY <1>1, <1>3, <1>8, <1>9 DEF DrainSweep, control
<1>10. CASE DrainBreaks
  BY <1>1, <1>8, <1>10 DEF DrainBreaks, control, Sigkill, MemberInv, TypeOK, GroupOK
<1>11. CASE DrainEof
  BY <1>11 DEF DrainEof, control, group
<1>12. CASE Sweep
  <2>1. "cargo" \notin alive[m]
    BY <1>12 DEF Sweep, CargoInv
  <2>2. \A j \in Members : status'[j] = status[j] \/ "cargo" \in alive[j]
    BY <1>1, <1>8, <1>12 DEF Sweep, group
  <2>3. \A j \in Members : outcome[j] = "cancelled" => status'[j] = status[j]
    BY <1>2, <2>2
  <2> QED BY <1>12, <2>3 DEF Sweep, control, MemberInv
<1>13. CASE Classify
  BY <1>13 DEF Classify, EndedByCancel, Cancelled, control, group
<1>14. CASE Gate
  <2>1. status[m] = "ok"
    BY <1>14 DEF Gate, CargoInv
  <2> QED BY <1>14, <2>1 DEF Gate, Cancelled, control, group
<1>15. CASE Answered
  <2>1. status[m] = "ok"
    BY <1>15 DEF Answered, CargoInv
  <2> QED BY <1>15, <2>1 DEF Answered, Cancelled, control, group
<1>16. CASE Door
  <2>1. status[m] = "ok" /\ outcome[m] = "none"
    BY <1>16 DEF Door, CargoInv, MemberInv
  <2>2. CASE Cancelled(m)
    BY <1>16, <2>1, <2>2 DEF Door, Cancelled, group
  <2>3. CASE ~Cancelled(m)
    BY <1>1, <1>16, <2>1, <2>3 DEF Door, Cancelled, group, MemberInv, TypeOK, ControlOK
  <2> QED BY <2>2, <2>3
<1>17. CASE Place
  BY <1>17 DEF Place, control, group
<1>18. CASE FinishMember
  <2>1. /\ \A i \in Members : outcome'[i] = IF i = m THEN result ELSE outcome[i]
        /\ UNCHANGED <<phase, stopping, status>> /\ wpc = "finish" /\ wpc' # "place"
        /\ result' = "none" /\ wpc' # "finish"
    BY <1>18 DEF FinishMember, Report, TypeOK, WorkerOK, group
  <2>2. outcome[m] = "none"
    BY <2>1 DEF MemberInv
  <2> QED BY <1>1, <2>1, <2>2
<1>19. ASSUME NEW i \in Members, CargoEnds(i) \/ ChildEnds(i) \/ Obey(i)
       PROVE  DoorInv'
  <2>1. \A j \in Members : status'[j] = status[j] \/ "cargo" \in alive[j]
    BY <1>19 DEF CargoEnds, ChildEnds, Obey, TypeOK, GroupOK
  <2> QED BY <1>3, <1>19, <2>1 DEF CargoEnds, ChildEnds, Obey, control, worker
<1>20. CASE Press \/ Escalate
  BY <1>20 DEF Press, Escalate, RequestCancel, group, worker
<1>21. CASE Swap
  <2>1. target \in Members /\ ~Fresh(target)
    BY <1>21 DEF Swap, CancelInv, FreshInv, TypeOK, InterfaceOK, Members
  <2>2. UNCHANGED <<wpc, m, outcome, result, status>>
    BY <1>21 DEF Swap, worker, group
  <2>3. \A i \in Members :
          phase'[i] = phase[i] \/ (phase[i] = "building" /\ phase'[i] = "cancelling")
    BY <1>21, <2>1 DEF Swap, TypeOK, ControlOK
  <2> QED BY <1>1, <2>2, <2>3
<1>22. CASE Load \/ Term \/ AnswerAuth \/ Prompted \/ Collect
  BY <1>22 DEF Load, Term, Sigterm, AnswerAuth, Prompted, Collect, control, group, worker
<1>23. CASE Kill
  <2>1. target \in Members /\ UNCHANGED <<stopping, phase, wpc, m, outcome, result>>
    BY <1>23 DEF Kill, CancelInv, TypeOK, InterfaceOK, Members, control, worker
  <2> QED BY <1>3, <1>8, <1>23, <2>1 DEF Kill, group
<1>24. CASE UNCHANGED vars
  BY <1>24 DEF vars, control, group, worker
<1> QED
  BY <1>4, <1>5, <1>6, <1>7, <1>9, <1>10, <1>11, <1>12, <1>13, <1>14, <1>15, <1>16, <1>17,
     <1>18, <1>19, <1>20, <1>21, <1>22, <1>23, <1>24 DEF Next, Worker, Working, Interface

LEMMA EndStep ==
  ASSUME TypeOK, MemberInv, CancelInv, DoorInv, EndInv, [Next]_vars
  PROVE  EndInv'
<1> USE DEF At, Goto, Over, EndInv
<1>1. m \in Members /\ m \in Nat /\ N \in Nat /\ \A i \in Members : i \in Nat /\ i <= N
  BY BatchAssumption DEF BatchAssumption, TypeOK, WorkerOK, Members
<1>2. CASE PlanReady \/ Skip \/ Courtesy \/ Spawn \/ SpawnFails \/ Announce
  BY <1>2 DEF PlanReady, Skip, Courtesy, Spawn, SpawnFails, Announce, control, ui
<1>3. CASE PlanFails
  <2>1. \A i \in Members : outcome[i] = "none"
    <3>1. m = 1 /\ outcome[m] = "none" /\ \A i \in Members : i > m => outcome[i] = "none"
      BY <1>3 DEF PlanFails, MemberInv
    <3> QED BY <1>1, <3>1 DEF Members
  <2> QED BY <1>1, <1>3, <2>1 DEF PlanFails, control, ui
<1>4. CASE TryBeginMember
  <2>1. outcome[m] = "none"
    BY <1>4 DEF TryBeginMember, MemberInv
  <2> QED BY <1>4, <2>1 DEF TryBeginMember, ui
<1>5. CASE Recheck \/ DrainSweep \/ DrainEof \/ DrainBreaks \/ Wait \/ Sweep
  BY <1>5 DEF Recheck, DrainSweep, DrainEof, DrainBreaks, Wait, Sweep, control, ui
<1>6. CASE Withdraw \/ Classify \/ Gate \/ Answered \/ Door \/ Place
  BY <1>6 DEF Withdraw, Classify, Gate, Answered, Door, Place, control, ui
<1>7. CASE FinishMember
  <2>1. /\ outcome'[m] = result /\ result # "none" /\ wpc = "finish"
        /\ UNCHANGED <<stopping, upc>>
    BY <1>1, <1>7 DEF FinishMember, Report, MemberInv, ui, TypeOK, WorkerOK
  <2>2. end = "none"
    BY <2>1, <1>7
  <2>3. result = "cancelled" => stopping
    BY <1>1 DEF DoorInv, CancelInv
  <2> QED BY <1>7, <2>1, <2>2, <2>3 DEF FinishMember
<1>8. ASSUME NEW i \in Members, CargoEnds(i) \/ ChildEnds(i) \/ Obey(i)
      PROVE  EndInv'
  BY <1>8 DEF CargoEnds, ChildEnds, Obey, control, worker, ui
<1>9. CASE Press \/ Escalate
  BY <1>9 DEF Press, Escalate, RequestCancel, worker
<1>10. CASE Swap \/ Load \/ Term \/ Kill
  BY <1>10 DEF Swap, Load, Term, Kill, Return, control, worker
<1>11. CASE AnswerAuth \/ Prompted
  BY <1>11 DEF AnswerAuth, Prompted, control, worker
<1>12. CASE Collect
  BY <1>1, <1>12 DEF Collect, control
<1>13. CASE UNCHANGED vars
  BY <1>13 DEF vars, control, worker, ui
<1> QED
  BY <1>2, <1>3, <1>4, <1>5, <1>6, <1>7, <1>8, <1>9, <1>10, <1>11, <1>12, <1>13
  DEF Next, Worker, Working, Interface

LEMMA AuthStep ==
  ASSUME TypeOK, AuthInv, [Next]_vars
  PROVE  AuthInv'
<1> USE DEF At, Goto, Over, AuthInv
<1>1. CASE PlanReady \/ PlanFails \/ TryBeginMember \/ Skip \/ Courtesy \/ Spawn \/ SpawnFails
  BY <1>1 DEF PlanReady, PlanFails, TryBeginMember, Skip, Courtesy, Spawn, SpawnFails, control,
     ui, auth
<1>2. CASE Announce \/ Recheck \/ DrainSweep \/ DrainEof \/ DrainBreaks \/ Wait \/ Sweep
  BY <1>2 DEF Announce, Recheck, DrainSweep, DrainEof, DrainBreaks, Wait, Sweep, control, ui, auth
<1>3. CASE Withdraw \/ Classify \/ Door \/ Place \/ FinishMember
  BY <1>3 DEF Withdraw, Classify, Door, Place, FinishMember, Report, control, ui, auth
<1>4. CASE Gate \/ Answered
  BY <1>4 DEF Gate, Answered, control, ui, auth
<1>5. CASE Press \/ Escalate
  BY <1>5 DEF Press, Escalate, RequestCancel, worker, auth
<1>6. CASE Swap \/ Load \/ Term \/ Kill
  BY <1>6 DEF Swap, Load, Term, Kill, Return, control, worker, auth
<1>7. CASE AnswerAuth \/ Prompted \/ Collect
  BY <1>7 DEF AnswerAuth, Prompted, Collect, control, worker, auth, TypeOK, AuthOK
<1>8. ASSUME NEW i \in Members, CargoEnds(i) \/ ChildEnds(i) \/ Obey(i)
      PROVE  AuthInv'
  BY <1>8 DEF CargoEnds, ChildEnds, Obey, control, worker, ui, auth
<1>9. CASE UNCHANGED vars
  BY <1>9 DEF vars, control, worker, ui, auth
<1> QED
  BY <1>1, <1>2, <1>3, <1>4, <1>5, <1>6, <1>7, <1>8, <1>9 DEF Next, Worker, Working, Interface

LEMMA InitInv ==
  ASSUME Init
  PROVE  IInv
<1>1. 1 \in Members /\ N \in Nat /\ \A i \in Members : i \in Nat /\ i >= 1 /\ i # 0
  BY BatchAssumption DEF BatchAssumption, Members
<1>2. TypeOK
  <2>1. 0 \in 0 .. N
    BY <1>1
  <2>2. ControlOK
    BY <2>1 DEF Init, ControlOK
  <2>3. GroupOK
    BY DEF Init, GroupOK, Kinds
  <2>4. WorkerOK
    BY <1>1 DEF Init, WorkerOK, WorkerSteps, Results
  <2>5. InterfaceOK /\ AuthOK
    BY <2>1 DEF Init, InterfaceOK, AuthOK
  <2> QED BY <2>2, <2>3, <2>4, <2>5 DEF TypeOK
<1>3. MemberInv /\ FreshInv /\ CargoInv
  BY <1>1 DEF Init, MemberInv, FreshInv, Fresh, CargoInv, InHand, WorkerSteps
<1>4. CancelInv /\ DoorInv /\ EndInv /\ AuthInv
  BY <1>1 DEF Init, CancelInv, DoorInv, EndInv, AuthInv
<1> QED BY <1>2, <1>3, <1>4 DEF IInv

THEOREM InductiveInvariant == Spec => []IInv
<1>1. IInv /\ [Next]_vars => IInv'
  <2> SUFFICES ASSUME IInv, [Next]_vars PROVE IInv'
    OBVIOUS
  <2> USE DEF IInv
  <2>1. TypeOK'
    BY TypeStep
  <2>2. MemberInv' /\ CargoInv' /\ CancelInv' /\ DoorInv'
    BY MemberStep, CargoStep, CancelStep, DoorStep
  <2>3. FreshInv'
    BY <2>1, FreshStep
  <2>4. EndInv' /\ AuthInv'
    BY EndStep, AuthStep
  <2> QED BY <2>1, <2>2, <2>3, <2>4
<1> QED BY InitInv, <1>1, PTL DEF Spec

-----------------------------------------------------------------------------
(* The properties.                                                         *)

\* Every variable has its type.
THEOREM TypeCorrect == Spec => []TypeOK
<1>1. IInv => TypeOK
  BY DEF IInv
<1> QED BY <1>1, InductiveInvariant, PTL

\* A cancel and the step into placement have one winner, and the person is told
\* which (BuildControl::begin_placement and request_cancel).
THEOREM DoorHasOneWinner == Spec => []OneWinner
<1>1. ASSUME IInv PROVE OneWinner
  <2> SUFFICES ASSUME NEW i \in Members
               PROVE  /\ phase[i] = "cancelling" => outcome[i] # "installed" /\ ~(At("place") /\ m = i)
                      /\ "Accepted" \in told[i] => outcome[i] # "installed"
                      /\ "TooLate" \in told[i] =>
                           outcome[i] \notin {"cancelled", "refused", "skipped"}
                      /\ outcome[i] = "cancelled" => phase[i] = "cancelling" /\ status[i] # "error"
    BY DEF OneWinner
  <2> USE <1>1 DEF IInv
  <2>1. phase[i] = "cancelling" => outcome[i] # "installed" /\ ~(At("place") /\ m = i)
    BY DEF DoorInv, At
  <2>2. "Accepted" \in told[i] => outcome[i] # "installed"
    BY <2>1 DEF CancelInv
  <2>3. "TooLate" \in told[i] => outcome[i] \notin {"cancelled", "refused", "skipped"}
    <3>1. phase[i] = "placement" /\ wpc \in {"place", "finish"} /\ i = m => outcome[i] = "none"
      BY DEF MemberInv
    <3> QED BY <3>1 DEF CancelInv, DoorInv
  <2>4. outcome[i] = "cancelled" => phase[i] = "cancelling" /\ status[i] # "error"
    BY DEF DoorInv
  <2> QED BY <2>1, <2>2, <2>3, <2>4
<1> QED BY <1>1, InductiveInvariant, PTL

\* What the batch's end says is what happened (tui_install_batch, poll_job).
THEOREM EndTruthful == Spec => []EndTrue
<1>1. ASSUME IInv PROVE EndTrue
  <2> USE <1>1 DEF IInv
  <2>1. m \in Members /\ \A i \in Members : i \in Nat /\ i <= N
    BY BatchAssumption DEF BatchAssumption, TypeOK, WorkerOK, Members
  <2>2. ASSUME upc = "done" PROVE wpc = "over" /\ (end = "failed" => ~stopping)
    BY <2>2 DEF EndInv
  <2>3. ASSUME upc = "done" PROVE end \in {"completed", "cancelled", "failed"}
    BY <2>2, <2>3 DEF EndInv, TypeOK, WorkerOK
  <2>4. ASSUME end = "completed", NEW i \in Members
        PROVE  outcome[i] \notin {"none", "cancelled"}
    <3>1. m = N /\ outcome[m] \notin {"none", "cancelled"}
      BY <2>4 DEF EndInv
    <3>2. i < m \/ i = m
      BY <2>1, <3>1
    <3> QED BY <3>1, <3>2 DEF MemberInv
  <2>5. end = "cancelled" => stopping /\ \E i \in Members : outcome[i] \in {"none", "cancelled"}
    BY <2>1 DEF EndInv
  <2>6. end = "failed" => \A i \in Members : outcome[i] = "none"
    BY DEF EndInv
  <2> QED BY <2>2, <2>3, <2>4, <2>5, <2>6 DEF EndTrue
<1> QED BY <1>1, InductiveInvariant, PTL

\* A password is asked for and answered while the worker waits for it, and for a
\* member that can still be placed (auth_gate, answer_auth).
THEOREM PasswordTimely == Spec => []PasswordInTime
<1>1. ASSUME IInv PROVE PasswordInTime
  <2>1. needsAuth \/ upc = "prompt" \/ answer # "none" => At("asked")
    BY <1>1 DEF IInv, AuthInv, At
  <2>2. ASSUME upc = "prompt" PROVE phase[m] = "building" /\ ~stopping
    <3>1. m \in Members /\ ~stopping /\ wpc = "asked"
      BY <1>1, <2>2 DEF IInv, AuthInv, TypeOK, WorkerOK
    <3>2. phase[m] # "cancelling"
      BY <1>1, <3>1 DEF IInv, CancelInv
    <3>3. phase[m] # "placement"
      <4>1. outcome[m] = "none"
        BY <1>1, <3>1 DEF IInv, MemberInv
      <4> QED BY <1>1, <3>1, <4>1 DEF IInv, DoorInv
    <3> QED BY <1>1, <3>1, <3>2, <3>3 DEF IInv, TypeOK, ControlOK
  <2> QED BY <2>1, <2>2 DEF PasswordInTime
<1> QED BY <1>1, InductiveInvariant, PTL

\* Once a stop is recorded, no further member begins (try_begin_member).
THEOREM NothingBeginsAfterStop == Spec => StoppedMeansStopped
<1>1. ASSUME IInv, [Next]_vars, stopping PROVE Begun' = Begun
  <2> USE DEF At, Goto, Over
  <2>1. m \in Members /\ \A i \in Members : i \in Nat
    BY <1>1, BatchAssumption DEF BatchAssumption, IInv, TypeOK, WorkerOK, Members
  <2>2. ASSUME UNCHANGED <<m, current, outcome>> PROVE Begun' = Begun
    BY <2>2 DEF Begun
  <2>3. CASE FinishMember
    <3>1. /\ wpc = "finish" /\ current = m /\ result # "none" /\ outcome[m] = "none"
          /\ \A i \in Members : i > m => outcome[i] = "none"
      BY <1>1, <2>3 DEF FinishMember, IInv, MemberInv, InHand, WorkerSteps
    <3>2. Begun = {i \in Members : i < m \/ i = m}
      BY <3>1 DEF Begun
    <3>3. current' = 0 /\ \A i \in Members : outcome'[i] = IF i = m THEN result ELSE outcome[i]
      BY <1>1, <2>3 DEF FinishMember, Report, IInv, TypeOK, WorkerOK
    <3>4. CASE m' = m
      BY <2>1, <3>1, <3>2, <3>3, <3>4 DEF Begun
    <3>5. CASE m' = m + 1
      <4>1. \A i \in Members : (i < m + 1 <=> i < m \/ i = m) /\ (i = m + 1 => i > m /\ i # m)
        BY <2>1
      <4>2. \A i \in Members : i = m + 1 => outcome'[i] = "none" /\ current' # i
        BY <2>1, <3>1, <3>3, <4>1, BatchAssumption DEF BatchAssumption, Members
      <4> QED BY <3>2, <3>5, <4>1, <4>2 DEF Begun
    <3> QED BY <2>3, <3>4, <3>5 DEF FinishMember
  <2>4. CASE PlanReady \/ PlanFails \/ TryBeginMember \/ Skip \/ Courtesy \/ Spawn \/ SpawnFails
    BY <1>1, <2>2, <2>4 DEF PlanReady, PlanFails, TryBeginMember, Skip, Courtesy, Spawn,
       SpawnFails, control
  <2>5. CASE Announce \/ Recheck \/ DrainSweep \/ DrainEof \/ DrainBreaks \/ Wait \/ Sweep
    BY <2>2, <2>5 DEF Announce, Recheck, DrainSweep, DrainEof, DrainBreaks, Wait, Sweep, control
  <2>6. CASE Withdraw \/ Classify \/ Gate \/ Answered \/ Door \/ Place
    BY <2>2, <2>6 DEF Withdraw, Classify, Gate, Answered, Door, Place, control
  <2>7. CASE Press \/ Interface
    BY <2>2, <2>7 DEF Press, Interface, Escalate, RequestCancel, Swap, Load, Term, Kill, AnswerAuth,
       Prompted, Collect, control, worker
  <2>8. ASSUME NEW i \in Members, CargoEnds(i) \/ ChildEnds(i) \/ Obey(i)
        PROVE  Begun' = Begun
    BY <2>2, <2>8 DEF CargoEnds, ChildEnds, Obey, control, worker
  <2>9. CASE UNCHANGED vars
    BY <2>2, <2>9 DEF vars, control, worker
  <2> QED
    BY <1>1, <2>3, <2>4, <2>5, <2>6, <2>7, <2>8, <2>9 DEF Next, Worker, Working
<1> QED BY <1>1, InductiveInvariant, PTL DEF Spec, StoppedMeansStopped

=============================================================================
