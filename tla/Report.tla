-------------------------------- MODULE Report --------------------------------
(***************************************************************************)
(* The update report of one prefix: what the registry answered about each  *)
(* installed crate, and when.  A full check (`checkupdate`, `r` and `U` in *)
(* the interface) asks about every crate and re-stamps the baseline; every *)
(* narrower question (`update NAME`, a bare install, `pinned --check`)     *)
(* adds the facts it learned.  The questions are asked without a lock and  *)
(* may end in any order; the report is a cache file that is read, merged   *)
(* and written back under a lock of its own - but for the interface, which *)
(* ends `r` and `U` by storing the answers as they are, without the lock   *)
(* and the merge, those of `U` after its worker has stored them with both. *)
(***************************************************************************)
EXTENDS Naturals

CONSTANTS
  Crates, Procs,
  MaxVersion,  \* bound: releases are numbered 1..MaxVersion
  MaxNow,      \* bound: the clock, in seconds; 0 stands for no stamp
  Menu,        \* the kinds of checks people run
  NoProc, NoFact

Versions == 1 .. MaxVersion
Manifests == [Crates -> 0 .. MaxVersion]
Times    == 1 .. MaxNow
Stamps   == 0 .. MaxNow

\* `checkupdate`; a narrower question; `r`; `U`.
Kinds    == {"full", "partial", "refresh", "sweep"}

\* One crate's result (Checked); at = 0 inherits the report's baseline.
Facts == [current : Versions, latest : Versions, at : Stamps]

ASSUME ReportAssumption ==
  /\ MaxVersion \in Nat \ {0} /\ MaxNow \in Nat \ {0}
  /\ Menu \subseteq Kinds
  /\ NoFact \notin Facts /\ NoProc \notin Procs

\* A report; the one without baseline and facts stands for no file.
Reports == [baseline : Stamps, facts : [Crates -> Facts \cup {NoFact}]]
Nothing == [baseline |-> 0, facts |-> [c \in Crates |-> NoFact]]

VARIABLES
  now,        \* the clock
  since,      \* when each release was published, 0 if it was not
  installed,  \* the version of each crate in the manifest, 0 if it is not there
  report,     \* the report on disk
  lock,       \* holder of the report's write lock
  pc, kind,   \* where each check is, and what it is
  snap,       \* the versions its manifest snapshot names
  todo,       \* crates it has yet to ask about
  learned,    \* the answers so far
  baseline,   \* the stamp of its Report::new, 0 for a partial check
  loaded,     \* the report as it read it under the lock
  settled,    \* history: the newest answer about each crate stored under the
              \* lock since the interface last stored its own
  overtaken   \* history: the interface has stored since the report was last
              \* read under the lock

world == <<now, since, installed>>
check == <<pc, kind, snap, todo, learned, baseline, loaded>>
history == <<settled, overtaken>>
vars  == <<world, report, lock, check, history>>

Steps == {"idle", "query", "ready", "load", "store", "collect"}

Larger(a, b) == IF a >= b THEN a ELSE b

\* The newest release out at a moment (every crate has release 1 from the start).
NewestAt(c, t) ==
  CHOOSE v \in Versions :
    /\ since[c][v] \in 1 .. t
    /\ \A w \in Versions : since[c][w] \in 1 .. t => w <= v

-----------------------------------------------------------------------------
(* The report as data.                                                     *)

Outdated(f) == f.latest > f.current

\* effective_checked_at: a fact's own stamp, or the baseline of its report.
Effective(f, base) == IF f.at = 0 THEN base ELSE f.at

\* The stamp of what a report knows of a crate, 0 if nothing.
StampOf(r, c) == IF r.facts[c] = NoFact THEN 0 ELSE Effective(r.facts[c], r.baseline)

\* Mutant: the newcomer always wins.
AbsorbAll(r, facts) ==
  [r EXCEPT !.facts = [c \in Crates |-> IF facts[c] = NoFact THEN @[c] ELSE facts[c]]]

\* Report::absorb: a fact replaces only knowledge older than itself.
Absorb(r, facts) ==
  [r EXCEPT !.facts =
     [c \in Crates |->
        IF facts[c] # NoFact /\ (@[c] = NoFact \/ facts[c].at > StampOf(r, c))
        THEN facts[c] ELSE @[c]]]

\* A report's facts, each with the stamp it has there made its own.
Materialized(r) ==
  [c \in Crates |->
     IF r.facts[c] = NoFact THEN NoFact ELSE [r.facts[c] EXCEPT !.at = StampOf(r, c)]]

\* Mutant: the facts of the other report taken as they stand.
MergedBare(new, current) ==
  LET base  == IF current.baseline >= new.baseline THEN current ELSE new
      other == IF current.baseline >= new.baseline THEN new ELSE current
  IN  [base EXCEPT !.facts =
         [c \in Crates |->
            IF other.facts[c] # NoFact
               /\ (@[c] = NoFact \/ StampOf(other, c) > StampOf(base, c))
            THEN other.facts[c] ELSE @[c]]]

\* Report::merged_with: the later baseline is kept, on a tie the stored one, and
\* the other report's facts are folded in.
Merged(new, current) ==
  LET base  == IF current.baseline >= new.baseline THEN current ELSE new
      other == IF current.baseline >= new.baseline THEN new ELSE current
  IN  Absorb(base, Materialized(other))

\* record_for: a report speaks about the version it checked and the update it
\* named.
Speaks(r, c, v) ==
  /\ r.facts[c] # NoFact
  /\ \/ r.facts[c].current = v
     \/ Outdated(r.facts[c]) /\ r.facts[c].latest = v

\* The annotation: is an update shown for the crate as installed?
ShowsUpdate(r, c, v) == r.facts[c].current = v /\ Outdated(r.facts[c])

\* The crates on display.
Listed == {c \in Crates : installed[c] # 0}

\* knowledge_watermark: one crate that is not covered voids it, and so does an
\* empty list.
Covers(r) == Listed # {} /\ \A c \in Listed : Speaks(r, c, installed[c])

\* Mutant: the age of the last full check.
WatermarkBaseline(r) == r.baseline

\* The age of the oldest answer behind the list.
Watermark(r) ==
  CHOOSE t \in Stamps :
    /\ \E c \in Listed : t = StampOf(r, c)
    /\ \A c \in Listed : t <= StampOf(r, c)

-----------------------------------------------------------------------------
\* There may be a report already: one that a version without per-fact stamps
\* wrote, covering some of the crates.
Init ==
  /\ now = 1
  /\ since = [c \in Crates |-> [v \in Versions |-> IF v = 1 THEN 1 ELSE 0]]
  /\ installed = [c \in Crates |-> 1]
  /\ \E covered \in SUBSET Crates :
       report = IF covered = {} THEN Nothing
                ELSE [baseline |-> 1,
                      facts |-> [c \in Crates |->
                         IF c \in covered THEN [current |-> 1, latest |-> 1, at |-> 0]
                         ELSE NoFact]]
  /\ settled = [c \in Crates |-> StampOf(report, c)] /\ overtaken = FALSE
  /\ lock = NoProc
  /\ pc = [p \in Procs |-> "idle"] /\ kind = [p \in Procs |-> "full"]
  /\ snap = [p \in Procs |-> [c \in Crates |-> 1]]
  /\ todo = [p \in Procs |-> {}]
  /\ learned = [p \in Procs |-> Nothing.facts]
  /\ baseline = [p \in Procs |-> 0]
  /\ loaded = [p \in Procs |-> Nothing]

Goto(p, step) == pc' = [pc EXCEPT ![p] = step]

\* A check ends and keeps nothing in memory.
Forget(p) ==
  /\ Goto(p, "idle")
  /\ kind' = [kind EXCEPT ![p] = "full"]
  /\ snap' = [snap EXCEPT ![p] = [c \in Crates |-> 1]]
  /\ todo' = [todo EXCEPT ![p] = {}]
  /\ learned' = [learned EXCEPT ![p] = Nothing.facts]
  /\ baseline' = [baseline EXCEPT ![p] = 0]
  /\ loaded' = [loaded EXCEPT ![p] = Nothing]

\* A check starts: it reads the manifest under the shared lock, lets go, and
\* will ask about every crate there, or about the ones in question.
Start(p) ==
  /\ pc[p] = "idle"
  /\ \E k \in Menu, targets \in SUBSET Listed :
       /\ IF k = "partial" THEN targets # {} ELSE targets = Listed
       /\ kind' = [kind EXCEPT ![p] = k]
       /\ todo' = [todo EXCEPT ![p] = targets]
  /\ snap' = [snap EXCEPT ![p] = installed]
  /\ Goto(p, "query")
  /\ UNCHANGED <<world, report, lock, learned, baseline, loaded, history>>

\* check_versions: one answer, stamped as it arrives; what is not newer than the
\* installed version counts as current.
Query(p) ==
  /\ pc[p] = "query"
  /\ \E c \in todo[p] :
       /\ todo' = [todo EXCEPT ![p] = @ \ {c}]
       /\ learned' = [learned EXCEPT ![p][c] =
            [current |-> snap[p][c],
             latest  |-> Larger(NewestAt(c, now), snap[p][c]), at |-> now]]
  /\ UNCHANGED <<world, report, lock, pc, kind, snap, baseline, loaded, history>>

\* A request fails; or the person cancels, which the interface heeds until it
\* collects the answers; or it cannot store them, or is left: nothing more of them
\* is recorded.
GiveUp(p) ==
  /\ pc[p] \in {"query", "collect"}
  /\ Forget(p)
  /\ UNCHANGED <<world, report, lock, history>>

\* All answers are in: Report::new stamps a full check with this moment; those of
\* `r` wait for the interface.
Answered(p) ==
  /\ pc[p] = "query" /\ todo[p] = {}
  /\ baseline' = [baseline EXCEPT ![p] = IF kind[p] \in {"full", "sweep"} THEN now ELSE 0]
  /\ Goto(p, IF kind[p] = "refresh" THEN "collect" ELSE "ready")
  /\ UNCHANGED <<world, report, lock, kind, snap, todo, learned, loaded, history>>

\* Mutant: the lock is not waited for.
WriteLockAnyway(p) ==
  /\ pc[p] = "ready"
  /\ lock' = p
  /\ Goto(p, "load")
  /\ UNCHANGED <<world, report, kind, snap, todo, learned, baseline, loaded, history>>

\* write_lock.
WriteLock(p) ==
  /\ pc[p] = "ready" /\ lock = NoProc
  /\ lock' = p
  /\ Goto(p, "load")
  /\ UNCHANGED <<world, report, kind, snap, todo, learned, baseline, loaded, history>>

\* Report::load; a file that is not there is an empty report.
Load(p) ==
  /\ pc[p] = "load"
  /\ loaded' = [loaded EXCEPT ![p] = report]
  /\ overtaken' = FALSE
  /\ Goto(p, "store")
  /\ UNCHANGED <<world, report, lock, kind, snap, todo, learned, baseline, settled>>

\* The write lock goes with the function that took it.
Unlock(p) == lock' = IF lock = p THEN NoProc ELSE lock

\* What is stored now is settled.
Settle(p) ==
  settled' = [c \in Crates |->
    IF learned[p][c] = NoFact THEN settled[c]
    ELSE Larger(settled[c], learned[p][c].at)]

\* The worker of `U` hands its answers to the interface.
HandOver(p) ==
  /\ Goto(p, "collect")
  /\ loaded' = [loaded EXCEPT ![p] = Nothing]
  /\ baseline' = [baseline EXCEPT ![p] = 0]
  /\ UNCHANGED <<kind, snap, todo, learned>>

\* A command ends with its store; a `U` goes on, whether it succeeded or not.
Stored(p) == IF kind[p] = "sweep" THEN HandOver(p) ELSE Forget(p)

\* absorb_and_store, or store_full; the file is renamed into place.
Store(p) ==
  /\ pc[p] = "store"
  /\ report' = IF kind[p] = "partial" THEN Absorb(loaded[p], learned[p])
               ELSE Merged([baseline |-> baseline[p], facts |-> learned[p]], loaded[p])
  /\ Settle(p) /\ Unlock(p) /\ Stored(p)
  /\ UNCHANGED <<world, overtaken>>

\* finish_check, for `r` and for `U`: the interface's loop collects the answers,
\* stamps them with this moment and stores them as they are, without the lock and
\* without a look at what is there.  Nothing is settled any more.
Collect(p) ==
  /\ pc[p] = "collect"
  /\ report' = [baseline |-> now, facts |-> learned[p]]
  /\ overtaken' = TRUE /\ settled' = [c \in Crates |-> 0]
  /\ Forget(p)
  /\ UNCHANGED <<world, lock>>

\* The lock, the load or the store fails, with a warning; or the process dies.
\* The temporary file is not the report.
Fail(p) ==
  /\ pc[p] \in {"ready", "load", "store"}
  /\ Unlock(p)
  /\ Stored(p) \/ Forget(p)
  /\ UNCHANGED <<world, report, history>>

\* Time passes, a release comes out, a crate is installed at another version or
\* removed.
Tick ==
  /\ now < MaxNow /\ now' = now + 1
  /\ UNCHANGED <<since, installed, report, lock, check, history>>

PublishRelease ==
  /\ \E c \in Crates, v \in Versions :
       /\ since[c][v] = 0 /\ since[c][v - 1] # 0
       /\ since' = [since EXCEPT ![c][v] = now]
  /\ UNCHANGED <<now, installed, report, lock, check, history>>

Reinstall ==
  /\ \E c \in Crates, v \in 0 .. MaxVersion :
       /\ v # installed[c] /\ v # 0 => since[c][v] # 0
       /\ installed' = [installed EXCEPT ![c] = v]
  /\ UNCHANGED <<now, since, report, lock, check, history>>

Work(p) ==
  \/ Start(p) \/ Query(p) \/ GiveUp(p) \/ Answered(p)
  \/ WriteLock(p) \/ Load(p) \/ Store(p) \/ Collect(p) \/ Fail(p)

Next == Tick \/ PublishRelease \/ Reinstall \/ \E p \in Procs : Work(p)

Spec == Init /\ [][Next]_vars
=============================================================================
