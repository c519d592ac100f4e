----------------------------- MODULE ReportProofs ---------------------------
(***************************************************************************)
(* Proofs about the update report, for any number of crates, releases and  *)
(* checks and any run of the clock: what the list and its age say is true; *)
(* no check under the lock takes knowledge backwards, and what one stored  *)
(* is not forgotten until the interface stores an `r` or a `U` over it.    *)
(***************************************************************************)
EXTENDS ReportProps, WellFoundedInduction, TLAPS

-----------------------------------------------------------------------------
(* Stamps and releases.                                                    *)

\* Stamps are numbers, and every fact has one.
LEMMA StampType ==
  ASSUME NEW r \in Reports
  PROVE  /\ Stamps \subseteq Nat /\ 0 \in Stamps /\ NoFact \notin Facts
         /\ r.baseline \in Nat /\ r.baseline \in Stamps
         /\ \A f \in Facts : f.at \in Nat /\ f.at \in Stamps
         /\ r.facts \in [Crates -> Facts \cup {NoFact}]
         /\ \A c \in Crates : StampOf(r, c) \in Nat /\ StampOf(r, c) \in Stamps
<1>1. Stamps \subseteq Nat /\ 0 \in Stamps /\ NoFact \notin Facts
  BY ReportAssumption DEF ReportAssumption, Stamps
<1>2. r.baseline \in Stamps /\ r.facts \in [Crates -> Facts \cup {NoFact}]
  BY DEF Reports
<1>3. \A f \in Facts : f.at \in Stamps
  BY DEF Facts
<1>4. \A c \in Crates : StampOf(r, c) \in Stamps
  BY <1>1, <1>2, <1>3 DEF StampOf, Effective
<1> QED BY <1>1, <1>2, <1>3, <1>4

\* A set of natural numbers has a least element.
LEMMA NatMin ==
  ASSUME NEW T \in SUBSET Nat, T # {}
  PROVE  \E x \in T : \A y \in T : x <= y
<1>1. \E x \in T : \A y \in T : ~(<<y, x>> \in OpToRel(<, Nat))
  BY NatLessThanWellFounded, WFMin
<1>2. \A x, y \in Nat : ~(<<y, x>> \in OpToRel(<, Nat)) => x <= y
  BY DEF OpToRel
<1> QED BY <1>1, <1>2

\* Once release 1 is out, there is a newest release.
LEMMA NewestExists ==
  ASSUME NEW c \in Crates, NEW t \in Nat \ {0},
         since \in [Crates -> [Versions -> Stamps]], since[c][1] = 1
  PROVE  \E v \in Versions :
           /\ since[c][v] \in 1 .. t
           /\ \A w \in Versions : since[c][w] \in 1 .. t => w <= v
<1> DEFINE out == {v \in Versions : since[c][v] \in 1 .. t}
           gap == {MaxVersion - v : v \in out}
<1>1. MaxVersion \in Nat \ {0} /\ 1 \in Versions
  BY ReportAssumption DEF ReportAssumption, Versions
<1>2. 1 \in out
  BY <1>1
<1>3. \A v \in out : MaxVersion - v \in Nat
  BY <1>1 DEF Versions
<1>4. gap \in SUBSET Nat /\ gap # {}
  <2>1. MaxVersion - 1 \in gap
    BY <1>2
  <2> QED BY <1>3, <2>1
<1>5. PICK g \in gap : \A h \in gap : g <= h
  <2> HIDE DEF gap
  <2> QED BY <1>4, NatMin
<1>6. PICK v \in out : g = MaxVersion - v
  BY <1>5
<1>7. \A w \in out : w <= v
  <2> TAKE w \in out
  <2>1. MaxVersion - v <= MaxVersion - w
    BY <1>5, <1>6
  <2>2. v \in Nat /\ w \in Nat
    BY DEF Versions
  <2> QED BY <1>1, <2>1, <2>2
<1>8. /\ v \in Versions /\ since[c][v] \in 1 .. t
      /\ \A w \in Versions : since[c][w] \in 1 .. t => w <= v
  BY <1>7
<1> QED BY <1>8

\* The newest release at a moment is out then, and no release out by then is newer.
LEMMA NewestIsNewest ==
  ASSUME NEW c \in Crates, NEW t \in Nat \ {0},
         since \in [Crates -> [Versions -> Stamps]], since[c][1] = 1
  PROVE  /\ NewestAt(c, t) \in Versions /\ since[c][NewestAt(c, t)] \in 1 .. t
         /\ \A w \in Versions : since[c][w] \in 1 .. t => w <= NewestAt(c, t)
<1>1. \E v \in Versions :
        /\ since[c][v] \in 1 .. t
        /\ \A w \in Versions : since[c][w] \in 1 .. t => w <= v
  BY NewestExists
<1> QED BY <1>1 DEF NewestAt

-----------------------------------------------------------------------------
(* The report as data.                                                     *)

\* Absorbing facts loses no knowledge, neither the report's nor the facts'.
LEMMA AbsorbStamp ==
  ASSUME NEW r \in Reports, NEW facts \in [Crates -> Facts \cup {NoFact}]
  PROVE  /\ Absorb(r, facts) \in Reports /\ Absorb(r, facts).baseline = r.baseline
         /\ \A c \in Crates :
              /\ StampOf(Absorb(r, facts), c) >= StampOf(r, c)
              /\ facts[c] # NoFact => StampOf(Absorb(r, facts), c) >= facts[c].at
<1> DEFINE a == Absorb(r, facts)
           wins(c) == facts[c] # NoFact /\ (r.facts[c] = NoFact \/ facts[c].at > StampOf(r, c))
<1>1. /\ r.baseline \in Stamps /\ r.facts \in [Crates -> Facts \cup {NoFact}]
      /\ a.baseline = r.baseline
      /\ a.facts = [c \in Crates |-> IF wins(c) THEN facts[c] ELSE r.facts[c]]
  BY DEF Reports, Absorb
<1>2. a \in Reports
  BY <1>1 DEF Reports, Absorb
<1>3. ASSUME NEW c \in Crates
      PROVE  /\ StampOf(a, c) >= StampOf(r, c)
             /\ facts[c] # NoFact => StampOf(a, c) >= facts[c].at
  <2>1. /\ NoFact \notin Facts /\ r.baseline \in Nat
        /\ \A f \in Facts : f.at \in Nat
        /\ StampOf(r, c) \in Nat /\ StampOf(a, c) \in Nat
    BY <1>2, StampType
  <2>2. CASE wins(c)
    <3>1. facts[c] \in Facts /\ a.facts[c] = facts[c] /\ facts[c].at \in Nat
      BY <1>1, <2>1, <2>2
    <3>2. StampOf(a, c) = IF facts[c].at = 0 THEN r.baseline ELSE facts[c].at
      BY <1>1, <2>1, <3>1 DEF StampOf, Effective
    <3>3. \A x, y, z \in Nat :
            x = (IF y = 0 THEN r.baseline ELSE y) => x >= y /\ (z = 0 \/ y > z => x >= z)
      BY <2>1
    <3>4. StampOf(r, c) = 0 \/ facts[c].at > StampOf(r, c)
      BY <2>2 DEF StampOf
    <3> HIDE DEF wins, a
    <3> QED BY <2>1, <3>1, <3>2, <3>3, <3>4
  <2>3. CASE ~wins(c)
    <3>1. StampOf(a, c) = StampOf(r, c)
      BY <1>1, <2>3 DEF StampOf, Effective
    <3>2. \A x, y \in Nat : x >= x /\ (~(y > x) => x >= y)
      OBVIOUS
    <3>3. facts[c] # NoFact => facts[c].at \in Nat /\ ~(facts[c].at > StampOf(r, c))
      <4>1. facts[c] # NoFact => facts[c] \in Facts
        OBVIOUS
      <4> QED BY <2>1, <2>3, <4>1
    <3> HIDE DEF wins, a
    <3> QED BY <2>1, <3>1, <3>2, <3>3
  <2> QED BY <2>2, <2>3
<1> QED BY <1>1, <1>2, <1>3

\* A report's facts keep the stamps they had there.
LEMMA MaterializedStamp ==
  ASSUME NEW r \in Reports
  PROVE  /\ Materialized(r) \in [Crates -> Facts \cup {NoFact}]
         /\ \A c \in Crates :
              /\ r.facts[c] = NoFact => StampOf(r, c) = 0
              /\ r.facts[c] # NoFact =>
                   Materialized(r)[c] # NoFact /\ Materialized(r)[c].at = StampOf(r, c)
<1>1. /\ r.facts \in [Crates -> Facts \cup {NoFact}] /\ NoFact \notin Facts
      /\ \A c \in Crates : StampOf(r, c) \in Stamps
  BY StampType
<1>2. \A f \in Facts, t \in Stamps :
        [f EXCEPT !.at = t] \in Facts /\ [f EXCEPT !.at = t].at = t
  BY DEF Facts
<1>3. \A c \in Crates : Materialized(r)[c] =
        IF r.facts[c] = NoFact THEN NoFact ELSE [r.facts[c] EXCEPT !.at = StampOf(r, c)]
  BY DEF Materialized
<1>4. ASSUME NEW c \in Crates, r.facts[c] # NoFact
      PROVE  Materialized(r)[c] \in Facts /\ Materialized(r)[c].at = StampOf(r, c)
  <2>1. r.facts[c] \in Facts /\ StampOf(r, c) \in Stamps
    BY <1>1, <1>4
  <2>2. /\ [r.facts[c] EXCEPT !.at = StampOf(r, c)] \in Facts
        /\ [r.facts[c] EXCEPT !.at = StampOf(r, c)].at = StampOf(r, c)
    BY <1>2, <2>1
  <2>3. Materialized(r)[c] = [r.facts[c] EXCEPT !.at = StampOf(r, c)]
    BY <1>3, <1>4
  <2> QED BY <2>2, <2>3
<1>5. Materialized(r) \in [Crates -> Facts \cup {NoFact}]
  BY <1>3, <1>4 DEF Materialized
<1> QED BY <1>1, <1>4, <1>5 DEF StampOf

\* Folding one report into another keeps the newer of what the two know.
LEMMA FoldStamp ==
  ASSUME NEW base \in Reports, NEW other \in Reports
  PROVE  LET m == Absorb(base, Materialized(other)) IN
         /\ m \in Reports /\ m.baseline = base.baseline
         /\ \A c \in Crates : StampOf(m, c) >= StampOf(base, c)
                            /\ StampOf(m, c) >= StampOf(other, c)
<1> DEFINE m == Absorb(base, Materialized(other))
<1>1. Materialized(other) \in [Crates -> Facts \cup {NoFact}]
  BY MaterializedStamp
<1>2. /\ m \in Reports /\ m.baseline = base.baseline
      /\ \A c \in Crates :
           /\ StampOf(m, c) >= StampOf(base, c)
           /\ Materialized(other)[c] # NoFact => StampOf(m, c) >= Materialized(other)[c].at
  BY <1>1, AbsorbStamp
<1>3. \A c \in Crates : StampOf(m, c) \in Nat
  <2> HIDE DEF m
  <2> QED BY <1>2, StampType
<1>4. ASSUME NEW c \in Crates PROVE StampOf(m, c) >= StampOf(other, c)
  <2>1. CASE other.facts[c] = NoFact
    <3>1. StampOf(other, c) = 0 /\ StampOf(m, c) \in Nat
      BY <1>3, <2>1, MaterializedStamp
    <3> HIDE DEF m
    <3> QED BY <3>1
  <2>2. CASE other.facts[c] # NoFact
    BY <1>2, <2>2, MaterializedStamp
  <2> QED BY <2>1, <2>2
<1> QED BY <1>2, <1>4

\* merged_with keeps the newer of what the two reports know, of every crate.
LEMMA MergedStamp ==
  ASSUME NEW new \in Reports, NEW current \in Reports
  PROVE  /\ Merged(new, current) \in Reports
         /\ Merged(new, current).baseline >= current.baseline
         /\ \A c \in Crates :
              /\ StampOf(Merged(new, current), c) >= StampOf(current, c)
              /\ StampOf(Merged(new, current), c) >= StampOf(new, c)
<1>1. new.baseline \in Nat /\ current.baseline \in Nat
  BY StampType
<1>2. CASE current.baseline >= new.baseline
  <2>1. Merged(new, current) = Absorb(current, Materialized(new))
    BY <1>2 DEF Merged
  <2>2. Merged(new, current).baseline = current.baseline
    BY <2>1, FoldStamp
  <2>3. Merged(new, current).baseline >= current.baseline
    BY <1>1, <2>2
  <2> QED BY <2>1, <2>3, FoldStamp
<1>3. CASE ~(current.baseline >= new.baseline)
  <2>1. Merged(new, current) = Absorb(new, Materialized(current))
    BY <1>3 DEF Merged
  <2>2. Merged(new, current).baseline = new.baseline
    BY <2>1, FoldStamp
  <2>3. Merged(new, current).baseline >= current.baseline
    BY <1>1, <1>3, <2>2
  <2> QED BY <2>1, <2>3, FoldStamp
<1> QED BY <1>2, <1>3

-----------------------------------------------------------------------------
(* The inductive invariant.                                                *)

\* It holds at first.
LEMMA InitIInv == Init => IInv
<1> SUFFICES ASSUME Init PROVE IInv
  OBVIOUS
<1>1. /\ 0 \in Stamps /\ 1 \in Stamps /\ 1 \in Times /\ 1 \in Versions
      /\ NoFact \notin Facts /\ Stamps \subseteq Nat
  BY ReportAssumption DEF ReportAssumption, Stamps, Times, Versions
<1>2. [current |-> 1, latest |-> 1, at |-> 0] \in Facts
  BY <1>1 DEF Facts
<1>3. Nothing \in Reports /\ Nothing.facts = [c \in Crates |-> NoFact]
  BY <1>1 DEF Nothing, Reports
<1>4. report \in Reports
  <2>1. PICK covered \in SUBSET Crates :
          report = IF covered = {} THEN Nothing
                   ELSE [baseline |-> 1,
                         facts |-> [c \in Crates |->
                            IF c \in covered THEN [current |-> 1, latest |-> 1, at |-> 0]
                            ELSE NoFact]]
    BY DEF Init
  <2>2. CASE covered = {}
    BY <1>3, <2>1, <2>2
  <2>3. CASE covered # {}
    BY <1>1, <1>2, <2>1, <2>3 DEF Reports
  <2> QED BY <2>2, <2>3
<1>5. \A c \in Crates : StampOf(report, c) \in Stamps /\ StampOf(report, c) \in Nat
  BY <1>4, StampType
<1>6. [c \in Crates |-> 1] \in Manifests
  <2>1. 1 \in 0 .. MaxVersion
    BY ReportAssumption DEF ReportAssumption
  <2> QED BY <2>1 DEF Manifests
<1>7. TypeOK
  <2>1. now \in Times /\ since \in [Crates -> [Versions -> Stamps]]
    BY <1>1 DEF Init
  <2>2. settled \in [Crates -> Stamps] /\ overtaken \in BOOLEAN
    BY <1>5 DEF Init
  <2>3. /\ lock \in Procs \cup {NoProc} /\ pc \in [Procs -> Steps] /\ kind \in [Procs -> Kinds]
        /\ todo \in [Procs -> SUBSET Crates] /\ baseline \in [Procs -> Stamps]
    BY <1>1 DEF Init, Steps, Kinds
  <2>4. /\ snap \in [Procs -> Manifests] /\ loaded \in [Procs -> Reports]
        /\ installed \in Manifests
    BY <1>3, <1>6 DEF Init
  <2>5. /\ learned \in [Procs -> [Crates -> Facts \cup {NoFact}]]
        /\ \A p \in Procs, c \in Crates : learned[p][c] = NoFact
    BY <1>3 DEF Init
  <2> QED BY <1>4, <2>1, <2>2, <2>3, <2>4, <2>5 DEF TypeOK
<1>8. AskInv
  BY <1>1 DEF Init, AskInv
<1>9. StoreInv
  BY DEF Init, StoreInv
<1>10. NothingForgotten
  <2>1. \A c \in Crates : settled[c] = StampOf(report, c) /\ StampOf(report, c) \in Nat
    BY <1>5 DEF Init
  <2>2. \A x \in Nat : x >= x
    OBVIOUS
  <2> QED BY <2>1, <2>2 DEF NothingForgotten
<1> QED BY <1>7, <1>8, <1>9, <1>10 DEF IInv

\* What a check's last step leaves of its memory is well typed: nothing, or the
\* answers of a `U` for the interface.
LEMMA EndType ==
  ASSUME TypeOK, AskInv, NEW p \in Procs, Stored(p) \/ Forget(p)
  PROVE  /\ pc' \in [Procs -> Steps] /\ kind' \in [Procs -> Kinds]
         /\ snap' \in [Procs -> Manifests] /\ todo' \in [Procs -> SUBSET Crates]
         /\ learned' \in [Procs -> [Crates -> Facts \cup {NoFact}]]
         /\ baseline' \in [Procs -> Stamps] /\ loaded' \in [Procs -> Reports]
         /\ \A q \in Procs, c \in Crates :
              learned'[q][c] # NoFact =>
                learned'[q][c] = learned[q][c] /\ learned'[q][c].at # 0
         /\ \A q \in Procs : \A c \in todo'[q] : snap'[q][c] # 0
         /\ pc'[p] \in {"idle", "collect"} /\ loaded'[p] = Nothing
         /\ \A q \in Procs \ {p} : pc'[q] = pc[q] /\ loaded'[q] = loaded[q]
<1>1. /\ Nothing \in Reports /\ Nothing.facts = [c \in Crates |-> NoFact] /\ 0 \in Stamps
      /\ [c \in Crates |-> 1] \in Manifests
  BY ReportAssumption DEF ReportAssumption, Nothing, Reports, Stamps, Manifests
<1>2. CASE Forget(p)
  <2>1. /\ pc' \in [Procs -> Steps] /\ kind' \in [Procs -> Kinds]
        /\ todo' \in [Procs -> SUBSET Crates] /\ baseline' \in [Procs -> Stamps]
    BY <1>1, <1>2 DEF TypeOK, Forget, Goto, Steps, Kinds
  <2>2. /\ snap' \in [Procs -> Manifests] /\ loaded' \in [Procs -> Reports]
    BY <1>1, <1>2 DEF TypeOK, Forget
  <2>3. /\ learned' \in [Procs -> [Crates -> Facts \cup {NoFact}]]
        /\ \A q \in Procs, c \in Crates :
             learned'[q][c] # NoFact =>
               learned'[q][c] = learned[q][c] /\ learned'[q][c].at # 0
    BY <1>1, <1>2 DEF TypeOK, Forget
  <2>4. \A q \in Procs : \A c \in todo'[q] : snap'[q][c] # 0
    BY <1>1, <1>2 DEF TypeOK, Forget, AskInv
  <2>5. /\ pc'[p] = "idle" /\ loaded'[p] = Nothing
        /\ \A q \in Procs \ {p} : pc'[q] = pc[q] /\ loaded'[q] = loaded[q]
    BY <1>2 DEF TypeOK, Forget, Goto
  <2> QED BY <2>1, <2>2, <2>3, <2>4, <2>5
<1>3. CASE HandOver(p)
  <2>1. /\ pc' \in [Procs -> Steps] /\ baseline' \in [Procs -> Stamps]
        /\ loaded' \in [Procs -> Reports]
    BY <1>1, <1>3 DEF TypeOK, HandOver, Goto, Steps
  <2>2. UNCHANGED <<kind, snap, todo, learned>>
    BY <1>3 DEF HandOver
  <2>3. /\ pc'[p] = "collect" /\ loaded'[p] = Nothing
        /\ \A q \in Procs \ {p} : pc'[q] = pc[q] /\ loaded'[q] = loaded[q]
    BY <1>3 DEF TypeOK, HandOver, Goto
  <2> QED BY <2>1, <2>2, <2>3 DEF TypeOK, AskInv
<1> QED BY <1>2, <1>3 DEF Stored

\* What a check that goes through the lock stores: nothing older than what it
\* read, and nothing older than what it learned.
LEMMA StoreStamps ==
  ASSUME TypeOK, NEW p \in Procs, Store(p)
  PROVE  /\ report' \in Reports /\ report'.baseline >= loaded[p].baseline
         /\ \A c \in Crates :
              /\ StampOf(report', c) >= StampOf(loaded[p], c)
              /\ learned[p][c] # NoFact => StampOf(report', c) >= learned[p][c].at
<1>1. /\ loaded[p] \in Reports
      /\ learned[p] \in [Crates -> Facts \cup {NoFact}]
      /\ \A c \in Crates : learned[p][c] # NoFact => learned[p][c].at # 0
      /\ baseline[p] \in Stamps
  BY DEF TypeOK
<1> DEFINE base  == loaded[p]
           fresh == [baseline |-> baseline[p], facts |-> learned[p]]
<1>2. base \in Reports /\ base.baseline \in Nat
  BY <1>1, StampType
<1> HIDE DEF base
<1>3. CASE kind[p] = "partial"
  <2>1. report' = Absorb(base, learned[p])
    BY <1>3 DEF Store, base
  <2>2. report'.baseline = base.baseline /\ report' \in Reports
    BY <1>1, <1>2, <2>1, AbsorbStamp
  <2>3. report'.baseline >= base.baseline
    BY <1>2, <2>2
  <2>4. \A c \in Crates :
          /\ StampOf(report', c) >= StampOf(base, c)
          /\ learned[p][c] # NoFact => StampOf(report', c) >= learned[p][c].at
    BY <1>1, <1>2, <2>1, AbsorbStamp
  <2> QED BY <2>2, <2>3, <2>4 DEF base
<1>4. CASE kind[p] # "partial"
  <2>1. report' = Merged(fresh, base)
    BY <1>4 DEF Store, base
  <2>2. fresh \in Reports
    BY <1>1 DEF Reports
  <2>3. \A c \in Crates : learned[p][c] # NoFact => StampOf(fresh, c) = learned[p][c].at
    BY <1>1 DEF StampOf, Effective
  <2>4. /\ report' \in Reports /\ report'.baseline >= base.baseline
        /\ \A c \in Crates : /\ StampOf(report', c) >= StampOf(base, c)
                            /\ StampOf(report', c) >= StampOf(fresh, c)
    <3> HIDE DEF fresh
    <3> QED BY <1>2, <2>1, <2>2, MergedStamp
  <2> HIDE DEF fresh
  <2> QED BY <2>3, <2>4 DEF base
<1> QED BY <1>3, <1>4

\* And what is settled by it is in the report.
LEMMA StoreSettles ==
  ASSUME IInv, NEW p \in Procs, Store(p)
  PROVE  settled' \in [Crates -> Stamps] /\ NothingForgotten'
<1>1. /\ learned[p] \in [Crates -> Facts \cup {NoFact}]
      /\ settled \in [Crates -> Stamps] /\ report \in Reports
  BY DEF IInv, TypeOK
<1>2. /\ Stamps \subseteq Nat /\ \A f \in Facts : f.at \in Nat /\ f.at \in Stamps
      /\ \A c \in Crates : learned[p][c] # NoFact => learned[p][c] \in Facts
  BY <1>1, StampType
<1>3. settled' = [c \in Crates |->
        IF learned[p][c] = NoFact THEN settled[c]
        ELSE Larger(settled[c], learned[p][c].at)]
  BY DEF Store, Settle
<1>4. settled' \in [Crates -> Stamps]
  BY <1>1, <1>2, <1>3 DEF Larger
<1>5. ASSUME NEW c \in Crates PROVE StampOf(report', c) >= settled'[c]
  <2>1. /\ StampOf(report, c) \in Nat /\ StampOf(report', c) \in Nat /\ settled[c] \in Nat
    BY <1>1, <1>2, StampType, StoreStamps DEF IInv
  <2>2. StampOf(report', c) >= settled[c]
    <3>1. CASE overtaken
      <4>1. settled[c] = 0
        BY <3>1 DEF IInv, StoreInv, Store
      <4> QED BY <2>1, <4>1
    <3>2. CASE ~overtaken
      <4>1. loaded[p] = report /\ StampOf(report, c) >= settled[c]
        BY <3>2 DEF IInv, StoreInv, NothingForgotten, Store
      <4>2. StampOf(report', c) >= StampOf(report, c)
        BY <4>1, StoreStamps DEF IInv
      <4>3. \A x, y, z \in Nat : x >= y /\ y >= z => x >= z
        OBVIOUS
      <4> QED BY <2>1, <4>1, <4>2, <4>3
    <3> QED BY <3>1, <3>2
  <2>3. settled'[c] = settled[c] \/ (learned[p][c] # NoFact /\ settled'[c] = learned[p][c].at)
    BY <1>3 DEF Larger
  <2> QED BY <2>2, <2>3, StoreStamps DEF IInv
<1> QED BY <1>4, <1>5 DEF NothingForgotten

\* The steps that leave the report alone keep the memory of every check well
\* typed, and what it is about to store up to date.
LEMMA CheckStep ==
  ASSUME IInv, NEW p \in Procs, Work(p), ~Store(p), ~Collect(p)
  PROVE  IInv' /\ UNCHANGED report
<1> USE DEF IInv
<1>0. UNCHANGED <<report, settled, since, now, installed>>
  BY DEF Work, Start, Query, GiveUp, Answered, WriteLock, Load, Fail, world, history
<1>9. overtaken' \in BOOLEAN
  BY DEF TypeOK, Work, Start, Query, GiveUp, Answered, WriteLock, Load, Fail, history
<1>1. NothingForgotten'
  BY <1>0 DEF NothingForgotten, StampOf, Effective
<1>2. ASSUME NEW q \in Procs
      PROVE  lock = q \/ pc[q] \notin {"load", "store"}
  BY DEF StoreInv
<1>3. CASE Start(p)
  <2>1. PICK k \in Menu, targets \in SUBSET Listed :
          /\ kind' = [kind EXCEPT ![p] = k]
          /\ todo' = [todo EXCEPT ![p] = targets]
    BY <1>3 DEF Start
  <2>2. k \in Kinds
    BY ReportAssumption DEF ReportAssumption
  <2>3. targets \subseteq Crates /\ \A c \in targets : installed[c] # 0
    BY DEF Listed
  <2>4. TypeOK'
    BY <1>0, <1>9, <1>3, <2>1, <2>2, <2>3 DEF TypeOK, Start, Goto, Steps
  <2>5. AskInv'
    BY <1>0, <1>3, <2>1, <2>2, <2>3 DEF AskInv, Start, TypeOK
  <2>6. StoreInv'
    BY <1>0, <1>3 DEF StoreInv, Start, Goto, TypeOK, history
  <2> QED BY <1>0, <1>1, <2>4, <2>5, <2>6
<1>4. CASE Query(p)
  <2>1. PICK c \in todo[p] :
          /\ todo' = [todo EXCEPT ![p] = @ \ {c}]
          /\ learned' = [learned EXCEPT ![p][c] =
               [current |-> snap[p][c],
                latest  |-> Larger(NewestAt(c, now), snap[p][c]), at |-> now]]
    BY <1>4 DEF Query
  <2>2. /\ c \in Crates /\ snap[p][c] \in 0 .. MaxVersion /\ snap[p][c] # 0
        /\ now \in Times /\ since[c][1] = 1
    BY DEF TypeOK, AskInv, Manifests
  <2>3. now \in Nat \ {0} /\ now \in Stamps
    BY <2>2, ReportAssumption DEF ReportAssumption, Times, Stamps
  <2>4. NewestAt(c, now) \in Versions
    BY <2>2, <2>3, NewestIsNewest DEF TypeOK
  <2>5. snap[p][c] \in Versions
    BY <2>2, ReportAssumption DEF ReportAssumption, Versions
  <2> DEFINE f == [current |-> snap[p][c],
                   latest  |-> Larger(NewestAt(c, now), snap[p][c]), at |-> now]
  <2>6. f \in Facts /\ f.at # 0
    BY <2>3, <2>4, <2>5 DEF Facts, Larger
  <2>7. learned' = [learned EXCEPT ![p] = [learned[p] EXCEPT ![c] = f]]
    BY <2>1
  <2>8. /\ learned' \in [Procs -> [Crates -> Facts \cup {NoFact}]]
        /\ \A q \in Procs, d \in Crates : learned'[q][d] # NoFact => learned'[q][d].at # 0
    <3> HIDE DEF f
    <3> QED BY <2>2, <2>6, <2>7 DEF TypeOK
  <2>9. todo' \in [Procs -> SUBSET Crates] /\ \A q \in Procs : todo'[q] \subseteq todo[q]
    BY <2>1 DEF TypeOK
  <2>10. TypeOK'
    BY <1>0, <1>9, <1>4, <2>8, <2>9 DEF TypeOK, Query
  <2>11. AskInv' /\ StoreInv'
    BY <1>0, <1>4, <2>9 DEF AskInv, StoreInv, Query, history
  <2> QED BY <1>0, <1>1, <2>10, <2>11
<1>5. CASE Answered(p)
  <2>1. now \in Stamps /\ 0 \in Stamps
    BY ReportAssumption DEF ReportAssumption, TypeOK, Times, Stamps
  <2>2. TypeOK'
    BY <1>0, <1>9, <1>5, <2>1 DEF TypeOK, Answered, Goto, Steps
  <2>3. AskInv' /\ StoreInv'
    BY <1>0, <1>5 DEF AskInv, StoreInv, TypeOK, Answered, Goto, history
  <2> QED BY <1>0, <1>1, <2>2, <2>3
<1>6. CASE WriteLock(p)
  <2>1. TypeOK'
    BY <1>0, <1>9, <1>6 DEF TypeOK, WriteLock, Goto, Steps
  <2>2. \A q \in Procs : pc[q] \notin {"load", "store"}
    BY <1>2, <1>6, ReportAssumption DEF ReportAssumption, WriteLock
  <2>3. AskInv' /\ StoreInv'
    BY <1>0, <1>6, <2>2 DEF AskInv, StoreInv, TypeOK, WriteLock, Goto, history
  <2> QED BY <1>0, <1>1, <2>1, <2>3
<1>7. CASE Load(p)
  <2>1. TypeOK'
    BY <1>0, <1>9, <1>7 DEF TypeOK, Load, Goto, Steps
  <2>2. AskInv' /\ StoreInv'
    BY <1>0, <1>7 DEF AskInv, StoreInv, TypeOK, Load, Goto, history
  <2> QED BY <1>0, <1>1, <2>1, <2>2
<1>8. CASE GiveUp(p) \/ Fail(p)
  <2>1. Stored(p) \/ Forget(p)
    BY <1>8 DEF GiveUp, Fail
  <2>2. lock' \in Procs \cup {NoProc} /\ \A q \in Procs \ {p} : lock = q => lock' = q
    BY <1>8 DEF GiveUp, Fail, Unlock, TypeOK
  <2>3. TypeOK' /\ AskInv'
    BY <1>0, <1>9, <2>1, <2>2, EndType DEF TypeOK, AskInv
  <2>4. UNCHANGED overtaken
    BY <1>8 DEF GiveUp, Fail, history
  <2>5. StoreInv'
    BY <1>0, <2>1, <2>2, <2>4, EndType DEF StoreInv
  <2> QED BY <1>0, <1>1, <2>3, <2>5
<1> QED BY <1>3, <1>4, <1>5, <1>6, <1>7, <1>8 DEF Work

\* Every step keeps the invariant and, unless the interface stores or stored under
\* a check's eyes, the knowledge of the report.
LEMMA Step ==
  ASSUME IInv, [Next]_vars
  PROVE  /\ IInv'
         /\ ~overtaken' =>
              /\ report'.baseline >= report.baseline
              /\ \A c \in Crates : StampOf(report', c) >= StampOf(report, c)
<1> USE DEF IInv
<1>1. /\ report.baseline \in Nat /\ \A c \in Crates : StampOf(report, c) \in Nat
  BY StampType DEF TypeOK
<1>2. \A x \in Nat : x >= x
  OBVIOUS
<1>3. UNCHANGED report =>
        /\ report'.baseline >= report.baseline
        /\ \A c \in Crates : StampOf(report', c) >= StampOf(report, c)
  BY <1>1, <1>2
<1>4. ASSUME UNCHANGED <<report, lock, check, history>>, now' \in Times,
             since' \in [Crates -> [Versions -> Stamps]], \A c \in Crates : since'[c][1] = 1,
             installed' \in Manifests
      PROVE  IInv'
  <2>1. TypeOK'
    BY <1>4 DEF TypeOK, check, history
  <2>2. StoreInv' /\ AskInv'
    BY <1>4 DEF StoreInv, AskInv, check, history
  <2>3. NothingForgotten'
    BY <1>4 DEF NothingForgotten, StampOf, Effective, history
  <2> QED BY <2>1, <2>2, <2>3
<1>5. CASE UNCHANGED vars
  BY <1>3, <1>4, <1>5 DEF vars, world, TypeOK, AskInv
<1>6. CASE Tick
  <2>1. now' \in Times
    BY <1>6, ReportAssumption DEF ReportAssumption, Tick, TypeOK, Times
  <2> QED BY <1>3, <1>4, <1>6, <2>1 DEF Tick, TypeOK, AskInv
<1>7. CASE PublishRelease
  <2>1. PICK c \in Crates, v \in Versions :
          since[c][v] = 0 /\ since' = [since EXCEPT ![c][v] = now]
    BY <1>7 DEF PublishRelease
  <2>2. now \in Stamps /\ v # 1
    BY <2>1, ReportAssumption DEF ReportAssumption, TypeOK, AskInv, Times, Stamps
  <2>3. since' \in [Crates -> [Versions -> Stamps]] /\ \A d \in Crates : since'[d][1] = 1
    BY <2>1, <2>2 DEF TypeOK, AskInv
  <2> QED BY <1>3, <1>4, <1>7, <2>3 DEF PublishRelease, TypeOK
<1>8. CASE Reinstall
  <2>1. installed' \in Manifests
    BY <1>8 DEF Reinstall, TypeOK, Manifests
  <2> QED BY <1>3, <1>4, <1>8, <2>1 DEF Reinstall, TypeOK, AskInv
<1>9. ASSUME NEW p \in Procs, Store(p)
      PROVE  /\ IInv'
             /\ ~overtaken' =>
                  /\ report'.baseline >= report.baseline
                  /\ \A c \in Crates : StampOf(report', c) >= StampOf(report, c)
  <2>1. Stored(p) /\ UNCHANGED <<world, overtaken>> /\ lock = p /\ lock' = NoProc
    BY <1>9 DEF Store, Unlock, StoreInv
  <2>2. TypeOK' /\ AskInv'
    BY <1>9, <2>1, EndType, StoreStamps, StoreSettles DEF TypeOK, AskInv, world
  <2>3. StoreInv'
    <3>1. \A q \in Procs : pc'[q] \notin {"load", "store"}
      BY <2>1, EndType, ReportAssumption DEF StoreInv, ReportAssumption
    <3> QED BY <3>1 DEF StoreInv
  <2>4. NothingForgotten'
    BY <1>9, StoreSettles
  <2>5. ~overtaken => loaded[p] = report
    BY <1>9 DEF Store, StoreInv
  <2> QED BY <1>9, <2>1, <2>2, <2>3, <2>4, <2>5, StoreStamps
<1>10. ASSUME NEW p \in Procs, Collect(p)
       PROVE  IInv' /\ overtaken'
  <2>1. /\ Forget(p) /\ UNCHANGED <<world, lock>> /\ overtaken' = TRUE
        /\ settled' = [c \in Crates |-> 0]
    BY <1>10 DEF Collect
  <2>2. report' \in Reports /\ settled' \in [Crates -> Stamps]
    <3>1. now \in Stamps /\ 0 \in Stamps
      BY ReportAssumption DEF ReportAssumption, TypeOK, Times, Stamps
    <3> QED BY <1>10, <2>1, <3>1 DEF Collect, TypeOK, Reports
  <2>3. TypeOK' /\ AskInv'
    BY <2>1, <2>2, EndType DEF TypeOK, AskInv, world
  <2>4. StoreInv'
    BY <2>1, EndType DEF StoreInv
  <2>5. NothingForgotten'
    <3>1. \A c \in Crates : StampOf(report, c)' \in Nat
      BY <2>2, StampType DEF StampOf, Effective
    <3> QED BY <2>1, <3>1 DEF NothingForgotten
  <2> QED BY <2>1, <2>3, <2>4, <2>5
<1>11. ASSUME NEW p \in Procs, Work(p), ~Store(p), ~Collect(p)
       PROVE  IInv' /\ UNCHANGED report
  BY <1>11, CheckStep
<1> QED BY <1>3, <1>5, <1>6, <1>7, <1>8, <1>9, <1>10, <1>11 DEF Next

-----------------------------------------------------------------------------
(* What the report says is true.                                           *)

\* Two facts that say the same of a crate.
Same(f, g) == f.current = g.current /\ f.latest = g.latest

\* A fact that is absorbed keeps what it says and when it was so; so does one that
\* stays.
LEMMA AbsorbKeeps ==
  ASSUME NEW r \in Reports, NEW facts \in [Crates -> Facts \cup {NoFact}], NEW c \in Crates,
         facts[c] # NoFact => facts[c].at # 0
  PROVE  LET a == Absorb(r, facts) IN
         a.facts[c] # NoFact =>
           \/ /\ r.facts[c] # NoFact /\ a.facts[c] = r.facts[c]
              /\ StampOf(a, c) = StampOf(r, c)
           \/ /\ facts[c] # NoFact /\ a.facts[c] = facts[c]
              /\ StampOf(a, c) = facts[c].at
<1> DEFINE a == Absorb(r, facts)
<1>1. /\ a.baseline = r.baseline
      /\ a.facts[c] = IF facts[c] # NoFact /\ (r.facts[c] = NoFact \/ facts[c].at > StampOf(r, c))
                      THEN facts[c] ELSE r.facts[c]
  BY DEF Reports, Absorb
<1>2. CASE a.facts[c] = r.facts[c]
  BY <1>1, <1>2 DEF StampOf, Effective
<1>3. CASE facts[c] # NoFact /\ a.facts[c] = facts[c]
  <2>1. StampOf(a, c) = facts[c].at
    BY <1>3 DEF StampOf, Effective
  <2> QED BY <1>3, <2>1
<1> HIDE DEF a
<1>4. a.facts[c] = r.facts[c] \/ (facts[c] # NoFact /\ a.facts[c] = facts[c])
  BY <1>1
<1> QED BY <1>2, <1>3, <1>4 DEF a

\* Every fact of two reports folded together is a fact of one of them, with the
\* stamp it has there.
LEMMA FoldKeeps ==
  ASSUME NEW base \in Reports, NEW other \in Reports, NEW c \in Crates,
         other.facts[c] # NoFact => StampOf(other, c) # 0
  PROVE  LET m == Absorb(base, Materialized(other)) IN
         m.facts[c] # NoFact =>
           \E r \in {base, other} :
             r.facts[c] # NoFact /\ Same(m.facts[c], r.facts[c])
             /\ StampOf(m, c) = StampOf(r, c)
<1> DEFINE lent == Materialized(other)
           m == Absorb(base, lent)
<1>1. /\ lent \in [Crates -> Facts \cup {NoFact}]
      /\ lent[c] # NoFact => other.facts[c] # NoFact
      /\ lent[c] # NoFact => lent[c].at = StampOf(other, c)
  BY MaterializedStamp DEF Materialized
<1>2. lent[c] # NoFact => lent[c].at # 0
  BY <1>1
<1>3. lent[c] # NoFact => Same(lent[c], other.facts[c])
  <2>1. lent[c] = IF other.facts[c] = NoFact THEN NoFact
                  ELSE [other.facts[c] EXCEPT !.at = StampOf(other, c)]
    BY DEF Materialized
  <2>2. other.facts[c] # NoFact => other.facts[c] \in Facts
    BY DEF Reports
  <2>3. \A f \in Facts : \A t : Same([f EXCEPT !.at = t], f)
    BY DEF Facts, Same
  <2> QED BY <2>1, <2>2, <2>3
<1>4. ASSUME m.facts[c] # NoFact
      PROVE  \/ /\ base.facts[c] # NoFact /\ m.facts[c] = base.facts[c]
                /\ StampOf(m, c) = StampOf(base, c)
             \/ /\ lent[c] # NoFact /\ m.facts[c] = lent[c]
                /\ StampOf(m, c) = lent[c].at
  <2> HIDE DEF lent
  <2> QED BY <1>1, <1>2, <1>4, AbsorbKeeps
<1>5. \A f : Same(f, f)
  BY DEF Same
<1> HIDE DEF m, lent
<1>6. m.facts[c] # NoFact =>
        \E r \in {base, other} :
          r.facts[c] # NoFact /\ Same(m.facts[c], r.facts[c]) /\ StampOf(m, c) = StampOf(r, c)
  BY <1>1, <1>3, <1>4, <1>5
<1> QED BY <1>6 DEF m, lent

\* A store leaves facts that its check read on disk or learned, each with the
\* stamp it had.
LEMMA StoreKeeps ==
  ASSUME TypeOK, TruthInv, NEW p \in Procs, Store(p), NEW c \in Crates,
         report'.facts[c] # NoFact
  PROVE  \/ /\ loaded[p].facts[c] # NoFact /\ Same(report'.facts[c], loaded[p].facts[c])
            /\ StampOf(report', c) = StampOf(loaded[p], c)
         \/ /\ learned[p][c] # NoFact /\ Same(report'.facts[c], learned[p][c])
            /\ StampOf(report', c) = learned[p][c].at
<1> DEFINE base  == loaded[p]
           fresh == [baseline |-> baseline[p], facts |-> learned[p]]
<1>1. /\ base \in Reports
      /\ learned[p] \in [Crates -> Facts \cup {NoFact}]
      /\ learned[p][c] # NoFact => learned[p][c].at # 0
      /\ baseline[p] \in Stamps
  BY DEF TypeOK
<1>2. \A f : Same(f, f)
  BY DEF Same
<1>3. base.facts[c] # NoFact => StampOf(base, c) # 0
  BY DEF TruthInv, TrueReport, TrueAt
<1>0. report' = IF kind[p] = "partial" THEN Absorb(base, learned[p]) ELSE Merged(fresh, base)
  BY DEF Store
<1>6. base = loaded[p]
  OBVIOUS
<1> HIDE DEF base
<1>4. CASE kind[p] = "partial"
  <2>1. report' = Absorb(base, learned[p])
    BY <1>0, <1>4
  <2> QED BY <1>1, <1>2, <1>6, <2>1, AbsorbKeeps
<1>5. CASE kind[p] # "partial"
  <2>1. report' = Merged(fresh, base)
    BY <1>0, <1>5
  <2>2. fresh \in Reports
    BY <1>1 DEF Reports
  <2>3. /\ fresh.facts[c] = learned[p][c]
        /\ learned[p][c] # NoFact => StampOf(fresh, c) = learned[p][c].at
    BY <1>1 DEF StampOf, Effective
  <2>4. fresh.facts[c] # NoFact => StampOf(fresh, c) # 0
    BY <1>1, <2>3
  <2> HIDE DEF fresh
  <2>5. report' = Absorb(base, Materialized(fresh)) \/ report' = Absorb(fresh, Materialized(base))
    BY <2>1 DEF Merged
  <2>6. \E r \in {base, fresh} :
          r.facts[c] # NoFact /\ Same(report'.facts[c], r.facts[c])
          /\ StampOf(report', c) = StampOf(r, c)
    <3>1. CASE report' = Absorb(base, Materialized(fresh))
      BY <1>1, <2>2, <2>4, <3>1, FoldKeeps
    <3>2. CASE report' = Absorb(fresh, Materialized(base))
      BY <1>1, <1>3, <2>2, <3>2, FoldKeeps
    <3> QED BY <2>5, <3>1, <3>2
  <2> QED BY <1>6, <2>3, <2>6
<1> QED BY <1>4, <1>5

\* What was true when it was stamped stays so, while time passes and releases come.
LEMMA TruthLasts ==
  ASSUME NEW out \in [Versions -> Stamps], NEW later \in [Versions -> Stamps],
         NEW n \in Nat, NEW m \in Nat, m >= n,
         \A v \in Versions : later[v] = out[v] \/ (out[v] = 0 /\ later[v] = n),
         NEW f \in Facts, NEW g, Same(g, f), NEW t, TrueAt(out, n, f, t)
  PROVE  TrueAt(later, m, g, t)
<1>1. /\ t \in 1 .. n /\ f.latest \in Versions
      /\ f.latest = f.current \/ (f.latest > f.current /\ out[f.latest] \in 1 .. t)
      /\ \A v \in Versions : out[v] # 0 /\ out[v] < t => v <= f.latest
  BY DEF TrueAt, Facts
<1>2. t \in 1 .. m
  BY <1>1
<1>3. out[f.latest] \in 1 .. t => later[f.latest] \in 1 .. t
  BY <1>1
<1>4. ASSUME NEW v \in Versions, later[v] # 0, later[v] < t
      PROVE  v <= f.latest
  BY <1>1, <1>4
<1> QED BY <1>1, <1>2, <1>3, <1>4 DEF TrueAt, Same

\* A report is as true as the facts it has from a true report or a check's hands.
LEMMA TruthTold ==
  ASSUME TypeOK, TruthInv, TypeOK', now' >= now,
         \A c \in Crates, v \in Versions :
           since'[c][v] = since[c][v] \/ (since[c][v] = 0 /\ since'[c][v] = now),
         NEW r,
         \A c \in Crates : r.facts[c] # NoFact =>
           \/ \E old \in {report} \cup {loaded[p] : p \in Procs} :
                /\ old.facts[c] # NoFact /\ Same(r.facts[c], old.facts[c])
                /\ StampOf(r, c) = StampOf(old, c)
           \/ \E p \in Procs :
                /\ learned[p][c] # NoFact /\ Same(r.facts[c], learned[p][c])
                /\ StampOf(r, c) = learned[p][c].at
  PROVE  \A c \in Crates : r.facts[c] # NoFact =>
           TrueAt(since'[c], now', r.facts[c], StampOf(r, c))
<1> SUFFICES ASSUME NEW c \in Crates, r.facts[c] # NoFact
             PROVE  TrueAt(since'[c], now', r.facts[c], StampOf(r, c))
  OBVIOUS
<1>1. /\ since[c] \in [Versions -> Stamps] /\ since'[c] \in [Versions -> Stamps]
      /\ now \in Nat /\ now' \in Nat
      /\ \A v \in Versions :
           since'[c][v] = since[c][v] \/ (since[c][v] = 0 /\ since'[c][v] = now)
  BY DEF TypeOK, Times
<1>2. ASSUME NEW f \in Facts, NEW g, Same(g, f), NEW t, TrueAt(since[c], now, f, t)
      PROVE  TrueAt(since'[c], now', g, t)
  BY <1>1, <1>2, TruthLasts
<1>3. CASE \E old \in {report} \cup {loaded[p] : p \in Procs} :
             /\ old.facts[c] # NoFact /\ Same(r.facts[c], old.facts[c])
             /\ StampOf(r, c) = StampOf(old, c)
  <2>1. PICK old \in {report} \cup {loaded[p] : p \in Procs} :
             /\ old.facts[c] # NoFact /\ Same(r.facts[c], old.facts[c])
             /\ StampOf(r, c) = StampOf(old, c)
    BY <1>3
  <2>2. old \in Reports /\ TrueReport(old)
    BY DEF TypeOK, TruthInv
  <2>3. old.facts[c] \in Facts /\ TrueAt(since[c], now, old.facts[c], StampOf(old, c))
    BY <2>1, <2>2 DEF Reports, TrueReport
  <2> QED BY <1>2, <2>1, <2>3
<1>4. CASE \E p \in Procs :
             /\ learned[p][c] # NoFact /\ Same(r.facts[c], learned[p][c])
             /\ StampOf(r, c) = learned[p][c].at
  <2>1. PICK p \in Procs :
             /\ learned[p][c] # NoFact /\ Same(r.facts[c], learned[p][c])
             /\ StampOf(r, c) = learned[p][c].at
    BY <1>4
  <2>2. learned[p][c] \in Facts /\ TrueAt(since[c], now, learned[p][c], learned[p][c].at)
    BY <2>1 DEF TypeOK, TruthInv
  <2> QED BY <1>2, <2>1, <2>2
<1> QED BY <1>3, <1>4

\* The invariant stays while the facts do, or some of them go.
LEMMA TruthKept ==
  ASSUME TypeOK, TruthInv, TypeOK', now' >= now,
         \A c \in Crates, v \in Versions :
           since'[c][v] = since[c][v] \/ (since[c][v] = 0 /\ since'[c][v] = now),
         \A c \in Crates : report'.facts[c] # NoFact =>
           \/ \E old \in {report} \cup {loaded[p] : p \in Procs} :
                /\ old.facts[c] # NoFact /\ Same(report'.facts[c], old.facts[c])
                /\ StampOf(report', c) = StampOf(old, c)
           \/ \E p \in Procs :
                /\ learned[p][c] # NoFact /\ Same(report'.facts[c], learned[p][c])
                /\ StampOf(report', c) = learned[p][c].at,
         \A p \in Procs : loaded'[p] \in {report, loaded[p], Nothing},
         \A p \in Procs, c \in Crates : learned'[p][c] # NoFact =>
           learned'[p][c] = learned[p][c]
  PROVE  TruthInv'
<1>1. \A f : Same(f, f)
  BY DEF Same
<1>2. \A c \in Crates : report'.facts[c] # NoFact =>
        TrueAt(since'[c], now', report'.facts[c], StampOf(report', c))
  BY TruthTold
<1>3. ASSUME NEW p \in Procs
      PROVE  \A c \in Crates : loaded'[p].facts[c] # NoFact =>
               TrueAt(since'[c], now', loaded'[p].facts[c], StampOf(loaded'[p], c))
  <2> DEFINE r == loaded'[p]
  <2>1. \A c \in Crates : r.facts[c] # NoFact =>
          \E old \in {report} \cup {loaded[q] : q \in Procs} :
            /\ old.facts[c] # NoFact /\ Same(r.facts[c], old.facts[c])
            /\ StampOf(r, c) = StampOf(old, c)
    <3>1. CASE r = Nothing
      BY <3>1 DEF Nothing
    <3>2. CASE r \in {report, loaded[p]}
      BY <1>1, <3>2
    <3> QED BY <3>1, <3>2
  <2> HIDE DEF r
  <2>2. \A c \in Crates : r.facts[c] # NoFact =>
          TrueAt(since'[c], now', r.facts[c], StampOf(r, c))
    BY <2>1, TruthTold
  <2> QED BY <2>2 DEF r
<1>4. ASSUME NEW p \in Procs, NEW c \in Crates, learned'[p][c] # NoFact
      PROVE  TrueAt(since'[c], now', learned'[p][c], learned'[p][c].at)
  <2>1. learned'[p][c] = learned[p][c]
    BY <1>4
  <2>2. learned[p][c] \in Facts /\ TrueAt(since[c], now, learned[p][c], learned[p][c].at)
    BY <1>4, <2>1 DEF TypeOK, TruthInv
  <2>3. /\ since[c] \in [Versions -> Stamps] /\ since'[c] \in [Versions -> Stamps]
        /\ now \in Nat /\ now' \in Nat
    BY DEF TypeOK, Times
  <2>4. Same(learned'[p][c], learned[p][c])
    BY <1>1, <2>1
  <2>5. TrueAt(since'[c], now', learned'[p][c], learned[p][c].at)
    BY <2>2, <2>3, <2>4, TruthLasts
  <2> QED BY <2>1, <2>5
<1> QED BY <1>2, <1>3, <1>4 DEF TruthInv, TrueReport, StampOf, Effective

\* It holds at first: an old report says of release 1 that nothing newer was out.
LEMMA InitTruth == Init => TruthInv
<1> SUFFICES ASSUME Init PROVE TruthInv
  OBVIOUS
<1>1. \A p \in Procs, c \in Crates : learned[p][c] = NoFact
  BY DEF Init, Nothing
<1>2. ASSUME NEW c \in Crates, report.facts[c] # NoFact
      PROVE  TrueAt(since[c], now, report.facts[c], StampOf(report, c))
  <2>1. PICK covered \in SUBSET Crates :
          report = IF covered = {} THEN Nothing
                   ELSE [baseline |-> 1,
                         facts |-> [d \in Crates |->
                            IF d \in covered THEN [current |-> 1, latest |-> 1, at |-> 0]
                            ELSE NoFact]]
    BY DEF Init
  <2>2. covered # {}
    BY <1>2, <2>1 DEF Nothing
  <2>3. /\ report.baseline = 1
        /\ report.facts[c] = [current |-> 1, latest |-> 1, at |-> 0]
    BY <1>2, <2>1, <2>2
  <2>4. StampOf(report, c) = 1
    BY <1>2, <2>3 DEF StampOf, Effective
  <2>5. now = 1 /\ \A v \in Versions : since[c][v] \in {0, 1}
    BY DEF Init
  <2> QED BY <2>3, <2>4, <2>5 DEF TrueAt
<1>3. \A p \in Procs, c \in Crates : loaded[p].facts[c] = NoFact
  BY DEF Init, Nothing
<1> QED BY <1>1, <1>2, <1>3 DEF TruthInv, TrueReport

\* An answer is true at the moment it comes.
LEMMA AnswerTrue ==
  ASSUME TypeOK, AskInv, NEW p \in Procs, NEW c \in todo[p],
         NEW f, f = [current |-> snap[p][c],
                     latest  |-> Larger(NewestAt(c, now), snap[p][c]), at |-> now]
  PROVE  TrueAt(since[c], now, f, f.at)
<1> DEFINE n == NewestAt(c, now)
<1>1. /\ c \in Crates /\ snap[p][c] \in Nat
      /\ now \in Nat \ {0} /\ since[c][1] = 1
      /\ since \in [Crates -> [Versions -> Stamps]]
  BY DEF TypeOK, AskInv, Manifests, Times
<1>2. /\ n \in Versions /\ since[c][n] \in 1 .. now
      /\ \A w \in Versions : since[c][w] \in 1 .. now => w <= n
  BY <1>1, NewestIsNewest
<1>3. n \in Nat
  BY <1>2 DEF Versions
<1> HIDE DEF n
<1>4. f.current = snap[p][c] /\ f.at = now /\ f.latest = Larger(n, snap[p][c])
  BY DEF n
<1>5. f.latest = f.current \/ (f.latest > f.current /\ f.latest = n)
  <2>1. \A a, b \in Nat : Larger(a, b) = b \/ (Larger(a, b) = a /\ a > b)
    BY DEF Larger
  <2> QED BY <1>1, <1>3, <1>4, <2>1
<1>6. n <= f.latest /\ f.latest \in Nat
  BY <1>1, <1>3, <1>4 DEF Larger
<1>7. ASSUME NEW v \in Versions, since[c][v] # 0, since[c][v] < now
      PROVE  v <= f.latest
  <2>1. since[c][v] \in 1 .. now
    BY <1>1, <1>7, ReportAssumption DEF ReportAssumption, Stamps
  <2>2. v <= n /\ v \in Nat
    BY <1>2, <2>1 DEF Versions
  <2> QED BY <1>3, <1>6, <2>2
<1>8. now \in 1 .. now
  BY <1>1
<1> QED BY <1>2, <1>4, <1>5, <1>7, <1>8 DEF TrueAt

\* Every step keeps what is said true, also the interface's store.
LEMMA TruthStep ==
  ASSUME TypeOK, AskInv, TruthInv, TypeOK', [Next]_vars
  PROVE  TruthInv'
<1>0. now \in Nat /\ now' \in Nat /\ \A x \in Nat : x >= x
  BY DEF TypeOK, Times
<1>1. \A f : Same(f, f)
  BY DEF Same
<1>2. UNCHANGED report =>
        \A c \in Crates : report'.facts[c] # NoFact =>
          \E old \in {report} \cup {loaded[p] : p \in Procs} :
            /\ old.facts[c] # NoFact /\ Same(report'.facts[c], old.facts[c])
            /\ StampOf(report', c) = StampOf(old, c)
  <2> SUFFICES ASSUME UNCHANGED report, NEW c \in Crates, report'.facts[c] # NoFact
               PROVE  /\ report.facts[c] # NoFact /\ Same(report'.facts[c], report.facts[c])
                      /\ StampOf(report', c) = StampOf(report, c)
    OBVIOUS
  <2> QED BY <1>1 DEF StampOf, Effective
<1>3. ASSUME UNCHANGED <<now, since, report, learned>>,
             \A p \in Procs : loaded'[p] \in {report, loaded[p], Nothing}
      PROVE  TruthInv'
  BY <1>0, <1>2, <1>3, TruthKept
<1>4. CASE Tick
  <2>1. now' >= now /\ UNCHANGED <<since, report, learned, loaded>>
    BY <1>0, <1>4 DEF Tick, check
  <2> QED BY <1>2, <2>1, TruthKept
<1>5. CASE PublishRelease
  <2>1. PICK c \in Crates, v \in Versions :
          since[c][v] = 0 /\ since' = [since EXCEPT ![c][v] = now]
    BY <1>5 DEF PublishRelease
  <2>2. UNCHANGED <<now, report, learned, loaded>>
    BY <1>5 DEF PublishRelease, check
  <2>3. \A d \in Crates, w \in Versions :
          since'[d][w] = since[d][w] \/ (since[d][w] = 0 /\ since'[d][w] = now)
    BY <2>1 DEF TypeOK
  <2> QED BY <1>0, <1>2, <2>2, <2>3, TruthKept
<1>6. ASSUME NEW p \in Procs, Query(p)
      PROVE  TruthInv'
  <2>1. PICK c \in todo[p] :
          learned' = [learned EXCEPT ![p][c] =
               [current |-> snap[p][c],
                latest  |-> Larger(NewestAt(c, now), snap[p][c]), at |-> now]]
    BY <1>6 DEF Query
  <2>2. UNCHANGED <<now, since, report, loaded>>
    BY <1>6 DEF Query, world
  <2> DEFINE f == [current |-> snap[p][c],
                   latest  |-> Larger(NewestAt(c, now), snap[p][c]), at |-> now]
  <2>3. TrueAt(since[c], now, f, f.at)
    BY AnswerTrue
  <2> HIDE DEF f
  <2>4. \A q \in Procs, d \in Crates :
          learned'[q][d] = learned[q][d] \/ (d = c /\ learned'[q][d] = f)
    BY <2>1 DEF TypeOK, f
  <2>5. \A q \in Procs, d \in Crates : learned'[q][d] # NoFact =>
          TrueAt(since[d], now, learned'[q][d], learned'[q][d].at)
    BY <2>3, <2>4 DEF TruthInv
  <2>6. TrueReport(report)' /\ \A q \in Procs : TrueReport(loaded[q])'
    BY <2>2 DEF TruthInv, TrueReport, StampOf, Effective
  <2> QED BY <2>2, <2>5, <2>6 DEF TruthInv
<1>7. ASSUME NEW p \in Procs, Stored(p) \/ Forget(p), UNCHANGED <<now, since>>,
             UNCHANGED report \/ Store(p) \/ Collect(p)
      PROVE  TruthInv'
  <2>1. \A q \in Procs, c \in Crates : learned'[q][c] # NoFact => learned'[q][c] = learned[q][c]
    BY <1>7, EndType
  <2>2. \A q \in Procs : loaded'[q] \in {report, loaded[q], Nothing}
    BY <1>7, EndType
  <2>3. CASE UNCHANGED report
    BY <1>0, <1>2, <1>7, <2>1, <2>2, <2>3, TruthKept
  <2>4. CASE Store(p)
    <3>1. \A c \in Crates : report'.facts[c] # NoFact =>
            \/ \E old \in {report} \cup {loaded[q] : q \in Procs} :
                 /\ old.facts[c] # NoFact /\ Same(report'.facts[c], old.facts[c])
                 /\ StampOf(report', c) = StampOf(old, c)
            \/ \E q \in Procs :
                 /\ learned[q][c] # NoFact /\ Same(report'.facts[c], learned[q][c])
                 /\ StampOf(report', c) = learned[q][c].at
      BY <2>4, StoreKeeps
    <3> QED BY <1>0, <1>7, <2>1, <2>2, <3>1, TruthKept
  <2>5. CASE Collect(p)
    <3>1. report' = [baseline |-> now, facts |-> learned[p]]
      BY <2>5 DEF Collect
    <3>2. \A c \in Crates : learned[p][c] # NoFact => learned[p][c].at # 0
      BY DEF TypeOK
    <3>3. \A c \in Crates : report'.facts[c] # NoFact =>
            /\ learned[p][c] # NoFact /\ Same(report'.facts[c], learned[p][c])
            /\ StampOf(report', c) = learned[p][c].at
      BY <1>1, <3>1, <3>2 DEF StampOf, Effective
    <3> QED BY <1>0, <1>7, <2>1, <2>2, <3>3, TruthKept
  <2> QED BY <1>7, <2>3, <2>4, <2>5
<1>8. ASSUME NEW p \in Procs, Work(p), ~Query(p)
      PROVE  TruthInv'
  <2>1. CASE GiveUp(p) \/ Fail(p) \/ Store(p) \/ Collect(p)
    BY <1>7, <2>1 DEF GiveUp, Fail, Store, Collect, world
  <2>2. CASE Start(p) \/ Answered(p) \/ WriteLock(p) \/ Load(p)
    <3>1. UNCHANGED <<now, since, report, learned>>
      BY <2>2 DEF Start, Answered, WriteLock, Load, world
    <3>2. \A q \in Procs : loaded'[q] \in {report, loaded[q], Nothing}
      BY <2>2 DEF Start, Answered, WriteLock, Load, TypeOK
    <3> QED BY <1>3, <3>1, <3>2
  <2> QED BY <1>8, <2>1, <2>2 DEF Work
<1>9. Reinstall \/ UNCHANGED vars => UNCHANGED <<now, since, report, learned, loaded>>
  BY DEF Reinstall, vars, world, check
<1> QED BY <1>3, <1>4, <1>5, <1>6, <1>8, <1>9 DEF Next

\* What is true when stamped makes the list's words true.
LEMMA TruthSuffices ==
  ASSUME IInv, TruthInv
  PROVE  StatusTrue
<1> SUFFICES ASSUME NEW c \in Listed, Speaks(report, c, installed[c])
             PROVE  LET known == {v \in Versions : since[c][v] # 0 /\ since[c][v] < StampOf(report, c)}
                    IN  IF ShowsUpdate(report, c, installed[c])
                        THEN /\ since[c][report.facts[c].latest] \in 1 .. StampOf(report, c)
                             /\ \A v \in known : v <= report.facts[c].latest
                        ELSE \A v \in known : v <= installed[c]
  BY DEF StatusTrue
<1> DEFINE f == report.facts[c]
<1>1. c \in Crates /\ f # NoFact /\ f \in Facts
  BY DEF Listed, Speaks, IInv, TypeOK, Reports
<1>2. TrueAt(since[c], now, f, StampOf(report, c))
  BY <1>1 DEF TruthInv, TrueReport
<1>3. f.latest \in Nat /\ f.current \in Nat
  BY <1>1 DEF Facts, Versions
<1>4. CASE ShowsUpdate(report, c, installed[c])
  <2>1. f.latest > f.current
    BY <1>4 DEF ShowsUpdate, Outdated
  <2>2. f.latest # f.current
    BY <1>3, <2>1
  <2> QED BY <1>2, <1>4, <2>2 DEF TrueAt
<1>5. CASE ~ShowsUpdate(report, c, installed[c])
  <2>1. f.current = installed[c] \/ (Outdated(f) /\ f.latest = installed[c])
    BY DEF Speaks
  <2>2. f.latest = f.current \/ f.latest > f.current
    BY <1>2 DEF TrueAt
  <2>3. f.latest = installed[c]
    BY <1>5, <2>1, <2>2 DEF ShowsUpdate, Outdated
  <2> QED BY <1>2, <1>5, <2>3 DEF TrueAt
<1> QED BY <1>4, <1>5

\* The watermark is the stamp of a crate on display, and no crate's is older.
LEMMA WatermarkLeast ==
  ASSUME IInv, Covers(report)
  PROVE  /\ Watermark(report) \in Stamps
         /\ \A c \in Listed : Watermark(report) <= StampOf(report, c)
<1> DEFINE T == {StampOf(report, c) : c \in Listed}
<1>1. \A c \in Listed : StampOf(report, c) \in Nat /\ StampOf(report, c) \in Stamps
  BY StampType DEF IInv, TypeOK, Listed
<1>2. T \in SUBSET Nat /\ T # {}
  BY <1>1 DEF Covers
<1>3. PICK t \in T : \A u \in T : t <= u
  <2> HIDE DEF T
  <2> QED BY <1>2, NatMin
<1>4. \E x \in Stamps : /\ \E c \in Listed : x = StampOf(report, c)
                        /\ \A c \in Listed : x <= StampOf(report, c)
  BY <1>1, <1>3
<1> QED BY <1>4 DEF Watermark

\* Words that are true of each crate make the age true of the list.
LEMMA StatusMakesWatermark ==
  ASSUME IInv, StatusTrue
  PROVE  WatermarkTrue
<1> SUFFICES ASSUME Covers(report), NEW c \in Listed, NEW v \in Versions,
                    since[c][v] # 0, since[c][v] < Watermark(report), v > installed[c]
             PROVE  ShowsUpdate(report, c, installed[c])
  BY DEF WatermarkTrue
<1>1. Speaks(report, c, installed[c])
  BY DEF Covers
<1>2. /\ Watermark(report) \in Nat /\ StampOf(report, c) \in Nat /\ since[c][v] \in Nat
      /\ Watermark(report) <= StampOf(report, c)
      /\ v \in Nat /\ installed[c] \in Nat
  <2>1. c \in Crates /\ Stamps \subseteq Nat /\ StampOf(report, c) \in Nat
    BY StampType DEF IInv, TypeOK, Listed
  <2>2. Watermark(report) \in Stamps /\ Watermark(report) <= StampOf(report, c)
    BY WatermarkLeast
  <2>3. since[c][v] \in Stamps
    BY <2>1 DEF IInv, TypeOK
  <2>4. v \in Nat /\ installed[c] \in Nat
    BY <2>1 DEF IInv, TypeOK, Versions, Manifests
  <2> QED BY <2>1, <2>2, <2>3, <2>4
<1>3. since[c][v] < StampOf(report, c)
  BY <1>2
<1>4. ~(v <= installed[c])
  BY <1>2
<1> QED BY <1>1, <1>3, <1>4 DEF StatusTrue

-----------------------------------------------------------------------------
(* The theorems.                                                           *)

\* The parts of the invariant hold together always, whatever checks people run.
THEOREM InductiveInvariant ==
  Spec => []IInv
<1>1. IInv /\ [Next]_vars => IInv'
  BY Step
<1> QED BY InitIInv, <1>1, PTL DEF Spec

\* Type correctness; a stored answer always has a stamp of its own.
THEOREM TypeCorrect ==
  Spec => []TypeOK
<1>1. IInv => TypeOK
  BY DEF IInv
<1> QED BY InductiveInvariant, <1>1, PTL

\* No completed check is forgotten: of every crate, the report knows at least
\* what the latest answer stored under the lock said (absorb_and_store,
\* store_full), until the interface stores an `r` or a `U` over it (finish_check).
THEOREM NothingLost ==
  Spec => []NothingForgotten
<1>1. IInv => NothingForgotten
  BY DEF IInv
<1> QED BY InductiveInvariant, <1>1, PTL

\* Neither the stamp of the last full check nor what is known of any crate is
\* replaced by something older, in whatever order checks end, except by the
\* interface's store at the end of an `r` or a `U`, and by the check that had read
\* the report when it came.
THEOREM KnowledgeMonotone ==
  Spec => NeverBackwards
<1>1. IInv /\ [Next]_vars =>
        [\/ overtaken'
         \/ /\ report'.baseline >= report.baseline
            /\ \A c \in Crates : StampOf(report', c) >= StampOf(report, c)]_vars
  BY Step
<1> QED BY InductiveInvariant, <1>1, PTL DEF Spec, NeverBackwards

\* What the list says of a crate was so when it was asked, in whatever order checks
\* end, however reports are merged and whatever the interface overwrites (merged_with,
\* record_for).
THEOREM ListTruthful ==
  Spec => []StatusTrue
<1>1. Init => TruthInv
  BY InitTruth
<1>2. IInv /\ TruthInv /\ IInv' /\ [Next]_vars => TruthInv'
  BY TruthStep DEF IInv
<1>3. IInv /\ TruthInv => StatusTrue
  BY TruthSuffices
<1> QED BY InductiveInvariant, <1>1, <1>2, <1>3, PTL DEF Spec

\* The age in the footer covers the whole list, however long it is
\* (knowledge_watermark).
THEOREM AgeTruthful ==
  Spec => []WatermarkTrue
<1>1. IInv /\ StatusTrue => WatermarkTrue
  BY StatusMakesWatermark
<1> QED BY InductiveInvariant, ListTruthful, <1>1, PTL

=============================================================================
