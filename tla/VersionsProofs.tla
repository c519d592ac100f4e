---------------------------- MODULE VersionsProofs ----------------------------
(***************************************************************************)
(* Proofs about which release an operation takes, for any number of        *)
(* releases, any of them pre-releases, and any course of the registry:     *)
(* what is confirmed from a stable version is what is built.               *)
(***************************************************************************)
EXTENDS Versions, WellFoundedInduction, TLAPS

\* The constants: releases are numbered, and no plan is a value of its own.
Numbered == MaxVersion \in Nat /\ NoPlan \notin Plans

\* A non-empty set of releases has a newest one.
LEMMA NewestIn ==
  ASSUME Numbered, NEW S \in SUBSET Versions, S # {}
  PROVE  Newest(S) \in S /\ \A w \in S : w <= Newest(S)
<1> DEFINE gap == {MaxVersion - v : v \in S}
<1>1. MaxVersion \in Nat /\ S \subseteq 1 .. MaxVersion
  BY DEF Numbered, Versions
<1>2. gap \in SUBSET Nat /\ gap # {}
  <2>1. \A v \in S : MaxVersion - v \in Nat
    BY <1>1
  <2>2. PICK v \in S : TRUE
    OBVIOUS
  <2>3. MaxVersion - v \in gap
    OBVIOUS
  <2> QED BY <2>1, <2>3
<1>3. \E g \in gap : \A h \in gap : ~(<<h, g>> \in OpToRel(<, Nat))
  <2> HIDE DEF gap
  <2> QED BY <1>2, NatLessThanWellFounded, WFMin
<1>4. PICK g \in gap : \A h \in gap : g <= h
  <2>1. \A x, y \in Nat : ~(<<y, x>> \in OpToRel(<, Nat)) => x <= y
    BY DEF OpToRel
  <2> HIDE DEF gap
  <2> QED BY <1>2, <1>3, <2>1
<1>5. PICK v \in S : g = MaxVersion - v
  BY <1>4
<1>6. \A w \in S : w <= v
  <2> TAKE w \in S
  <2>1. MaxVersion - v <= MaxVersion - w
    BY <1>4, <1>5
  <2> QED BY <1>1, <2>1
<1>7. \E x \in S : \A w \in S : w <= x
  BY <1>6
<1> HIDE DEF gap
<1> QED BY <1>7 DEF Newest

\* Whatever cargo picks without a version is a live stable release, and no live
\* stable release is newer.
LEMMA NewestStable ==
  ASSUME Numbered, TypeOK, Stable # {}
  PROVE  /\ Newest(Stable) \in Live /\ Newest(Stable) \notin Pre
         /\ Newest(Stable) \in Versions
         /\ \A w \in Live \ Pre : w <= Newest(Stable)
<1>1. Stable \in SUBSET Versions
  BY DEF Stable, Live, TypeOK
<1>2. Newest(Stable) \in Stable /\ \A w \in Stable : w <= Newest(Stable)
  BY <1>1, NewestIn
<1> QED BY <1>1, <1>2 DEF Stable

\* What a plan offers is live, and of a kind its crate's version allows.
LEMMA OfferedIsRelevant ==
  ASSUME Numbered, TypeOK, NEW c \in Versions, Offered(c)
  PROVE  LET n == Newest(Relevant(c)) IN
         n \in Live /\ n \in Versions /\ n > c /\ (n \in Pre => c \in Pre)
<1>1. Relevant(c) \in SUBSET Versions /\ Relevant(c) # {}
  BY DEF Relevant, Live, TypeOK, Offered
<1>2. Newest(Relevant(c)) \in Relevant(c)
  BY <1>1, NewestIn
<1>3. Newest(Relevant(c)) > c
  BY DEF Offered
<1> HIDE DEF Newest
<1> QED BY <1>1, <1>2, <1>3 DEF Relevant

-----------------------------------------------------------------------------
Inv == TypeOK /\ PlanInv

\* The invariant holds at first.
LEMMA InitInv == ASSUME Numbered PROVE Init => Inv
<1>1. MaxVersion \in Nat /\ NoPlan \notin Plans
  BY DEF Numbered
<1>2. Init => TypeOK
  <2> SUFFICES ASSUME Init PROVE TypeOK
    OBVIOUS
  <2>1. published \subseteq Versions /\ yanked \subseteq published
    BY DEF Init
  <2>2. installed \in 0 .. MaxVersion /\ built \in 0 .. MaxVersion
    <3>1. installed = 0 /\ built = 0
      BY DEF Init
    <3> QED BY <1>1, <3>1
  <2>3. plan \in Plans \cup {NoPlan} /\ pinned \in BOOLEAN
    BY DEF Init
  <2> QED BY <2>1, <2>2, <2>3 DEF TypeOK
<1>3. Init => PlanInv
  BY DEF Init, PlanInv
<1> QED BY <1>2, <1>3 DEF Inv

\* A build that is committed keeps the types.
LEMMA CommitType ==
  ASSUME Numbered, TypeOK,
         CommitNewest \/ \E v \in Versions : CommitExact(v)
  PROVE  /\ published' = published /\ yanked' = yanked
         /\ installed' \in 0 .. MaxVersion /\ pinned' \in BOOLEAN
         /\ built' \in 0 .. MaxVersion
<1>1. MaxVersion \in Nat
  BY DEF Numbered
<1>2. CASE CommitNewest
  <2>1. Newest(Stable) \in Versions
    BY <1>2, NewestStable DEF CommitNewest
  <2>2. built' = Newest(Stable) /\ installed' = built'
    BY <1>2 DEF CommitNewest
  <2>3. Versions \subseteq 0 .. MaxVersion
    BY <1>1 DEF Versions
  <2> QED BY <1>2, <2>1, <2>2, <2>3 DEF CommitNewest, registry, TypeOK
<1>3. ASSUME NEW v \in Versions, CommitExact(v)
      PROVE  /\ published' = published /\ yanked' = yanked
             /\ installed' \in 0 .. MaxVersion /\ pinned' \in BOOLEAN
             /\ built' \in 0 .. MaxVersion
  BY <1>1, <1>3 DEF CommitExact, registry, TypeOK, Versions
<1> QED BY <1>2, <1>3

\* Every step keeps it.
LEMMA StepInv ==
  ASSUME Numbered, Inv, [Next]_vars
  PROVE  Inv'
<1> USE DEF Inv
<1>0. MaxVersion \in Nat /\ NoPlan \notin Plans /\ 0 \in 0 .. MaxVersion
  BY DEF Numbered
<1>1. ASSUME TypeOK', plan' = plan, published \subseteq published'
      PROVE  Inv'
  BY <1>1 DEF PlanInv
<1>2. ASSUME TypeOK', plan' = NoPlan
      PROVE  Inv'
  BY <1>2 DEF PlanInv
<1>3. CASE UNCHANGED vars
  <2>1. TypeOK' /\ plan' = plan /\ published' = published
    BY <1>3 DEF vars, registry, entry, TypeOK
  <2> QED BY <1>1, <2>1
<1>4. CASE Publish \/ Yank
  <2>1. TypeOK' /\ plan' = plan /\ published \subseteq published'
    BY <1>0, <1>4 DEF Publish, Yank, entry, Live, TypeOK
  <2> QED BY <1>1, <2>1
<1>5. CASE InstallNewest
  <2>1. CommitNewest /\ plan' = plan
    BY <1>5 DEF InstallNewest
  <2>2. TypeOK' /\ published' = published
    BY <2>1, CommitType DEF TypeOK
  <2> QED BY <1>1, <2>1, <2>2
<1>6. CASE InstallExact
  <2>1. (\E v \in Versions : CommitExact(v)) /\ plan' = plan
    BY <1>6 DEF InstallExact
  <2>2. TypeOK' /\ published' = published
    BY <2>1, CommitType DEF TypeOK
  <2> QED BY <1>1, <2>1, <2>2
<1>7. CASE SetPinned \/ Remove
  <2>1. TypeOK' /\ plan' = plan /\ published' = published
    BY <1>0, <1>7 DEF SetPinned, Remove, registry, TypeOK
  <2> QED BY <1>1, <2>1
<1>8. CASE PlanUpdate
  <2> DEFINE n == Newest(Relevant(installed))
  <2>1. installed \in Versions
    BY <1>0, <1>8 DEF PlanUpdate, TypeOK, Versions
  <2>2. n \in Live /\ n \in Versions /\ n > installed /\ (n \in Pre => installed \in Pre)
    BY <1>8, <2>1, OfferedIsRelevant DEF PlanUpdate
  <2>3. plan' = [verb |-> "update", current |-> installed, shown |-> n]
    BY <1>8 DEF PlanUpdate
  <2> HIDE DEF n
  <2>4. plan' \in Plans /\ n \in published
    BY <2>1, <2>2, <2>3 DEF Plans, Live
  <2>5. TypeOK' /\ published' = published
    BY <1>0, <1>8, <2>4 DEF PlanUpdate, registry, entry, TypeOK
  <2>6. PlanInv'
    BY <2>2, <2>3, <2>4, <2>5 DEF PlanInv
  <2> QED BY <2>5, <2>6
<1>9. CASE PlanDowngrade
  <2>1. installed \in Versions
    BY <1>0, <1>9 DEF PlanDowngrade, TypeOK, Versions
  <2>2. PICK v \in Older(installed) :
          plan' = [verb |-> "downgrade", current |-> installed, shown |-> v]
    BY <1>9 DEF PlanDowngrade
  <2>3. /\ v \in published /\ v \in Versions /\ v < installed
        /\ v \in Pre => installed \in Pre
    BY DEF Older, Relevant, Live, TypeOK
  <2>4. plan' \in Plans
    BY <2>1, <2>2, <2>3 DEF Plans
  <2>5. TypeOK' /\ published' = published
    BY <1>0, <1>9, <2>4 DEF PlanDowngrade, registry, entry, TypeOK
  <2>6. PlanInv'
    BY <2>2, <2>3, <2>5 DEF PlanInv
  <2> QED BY <2>5, <2>6
<1>10. CASE ApplyUpdate
  <2>1. CommitNewest /\ plan' = NoPlan
    BY <1>10 DEF ApplyUpdate
  <2>2. TypeOK'
    BY <2>1, CommitType DEF TypeOK
  <2> QED BY <1>2, <2>1, <2>2
<1>11. CASE ApplyDowngrade
  <2>1. plan.shown \in Versions /\ CommitExact(plan.shown) /\ plan' = NoPlan
    BY <1>11 DEF ApplyDowngrade, TypeOK, Plans
  <2>2. TypeOK'
    BY <2>1, CommitType DEF TypeOK
  <2> QED BY <1>2, <2>1, <2>2
<1>12. CASE Abandon
  <2>1. TypeOK' /\ plan' = NoPlan
    BY <1>0, <1>12 DEF Abandon, registry, entry, TypeOK
  <2> QED BY <1>2, <2>1
<1> QED BY <1>3, <1>4, <1>5, <1>6, <1>7, <1>8, <1>9, <1>10, <1>11, <1>12 DEF Next

\* It holds always.
LEMMA Invariant == ASSUME Numbered PROVE Spec => []Inv
<1>1. Inv /\ [Next]_vars => Inv'
  BY StepInv
<1> QED BY InitInv, <1>1, PTL DEF Spec

\* A step that carries out a plan applies it.
LEMMA OnlyApplied ==
  ASSUME Numbered, Inv, Next, NEW verb, CarriesOut(verb)
  PROVE  \/ ApplyUpdate /\ verb = "update"
         \/ ApplyDowngrade /\ verb = "downgrade"
<1>1. plan # NoPlan /\ plan' = NoPlan /\ built' # 0 /\ plan.verb = verb
  BY DEF CarriesOut
<1>2. ~(Publish \/ Yank \/ SetPinned \/ Remove \/ Abandon)
  BY <1>1 DEF Publish, Yank, SetPinned, Remove, Abandon
<1>3. ~(InstallNewest \/ InstallExact)
  BY <1>1 DEF InstallNewest, InstallExact
<1>4. ~(PlanUpdate \/ PlanDowngrade)
  BY <1>1 DEF PlanUpdate, PlanDowngrade
<1>5. ApplyUpdate => verb = "update"
  BY <1>1 DEF ApplyUpdate
<1>6. ApplyDowngrade => verb = "downgrade"
  BY <1>1 DEF ApplyDowngrade
<1> QED BY <1>2, <1>3, <1>4, <1>5, <1>6 DEF Next

-----------------------------------------------------------------------------
(* The theorems.                                                           *)

\* A confirmed update of a stable version lands on a stable release, the one that
\* was shown or a newer one, unless the shown one was yanked meanwhile
\* (latest_relevant, apply_updates, tui_update_one).
THEOREM StableUpdates == ASSUME Numbered PROVE Spec => StableUpdateLands
<1>1. ASSUME Inv, Next, CarriesOut("update"), plan.current \notin Pre
      PROVE  built' \notin Pre /\ (built' >= plan.shown \/ plan.shown \in yanked)
  <2>1. ApplyUpdate
    BY <1>1, OnlyApplied
  <2>2. Stable # {} /\ built' = Newest(Stable)
    BY <2>1 DEF ApplyUpdate, CommitNewest
  <2>3. /\ Newest(Stable) \notin Pre /\ Newest(Stable) \in Versions
        /\ \A w \in Live \ Pre : w <= Newest(Stable)
    BY <1>1, <2>2, NewestStable DEF Inv
  <2>4. plan.shown \in published /\ plan.shown \notin Pre /\ plan.shown \in Versions
    BY <1>1, <2>1 DEF Inv, PlanInv, TypeOK, ApplyUpdate
  <2>5. plan.shown \in yanked \/ plan.shown <= Newest(Stable)
    BY <2>3, <2>4 DEF Live
  <2>6. \A x, y \in Versions : x <= y => y >= x
    BY DEF Versions
  <2> QED BY <2>2, <2>3, <2>4, <2>5, <2>6
<1>2. Inv /\ [Next]_vars =>
        [CarriesOut("update") /\ plan.current \notin Pre =>
           built' \notin Pre /\ (built' >= plan.shown \/ plan.shown \in yanked)]_vars
  BY <1>1
<1> QED BY Invariant, <1>2, PTL DEF Spec, StableUpdateLands

\* A confirmed downgrade lands on the chosen release, below what is installed, with
\* a pin (cmd_downgrade).
THEOREM Downgrades == ASSUME Numbered PROVE Spec => DowngradeLands
<1>1. ASSUME Inv, Next, CarriesOut("downgrade")
      PROVE  built' = plan.shown /\ built' < installed /\ pinned'
  <2>1. ApplyDowngrade
    BY <1>1, OnlyApplied
  <2>2. built' = plan.shown /\ pinned' = TRUE /\ installed = plan.current
    BY <2>1 DEF ApplyDowngrade, CommitExact, StillPlanned
  <2>3. plan.shown < plan.current
    BY <1>1, <2>1 DEF Inv, PlanInv, ApplyDowngrade
  <2> QED BY <2>2, <2>3
<1>2. Inv /\ [Next]_vars =>
        [CarriesOut("downgrade") =>
           built' = plan.shown /\ built' < installed /\ pinned']_vars
  BY <1>1
<1> QED BY Invariant, <1>2, PTL DEF Spec, DowngradeLands

=============================================================================
