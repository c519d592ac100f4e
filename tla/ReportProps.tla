----------------------------- MODULE ReportProps -----------------------------
(***************************************************************************)
(* The properties of the update report, stated over module Report.         *)
(***************************************************************************)
EXTENDS Report

TypeOK ==
  /\ now \in Times
  /\ since \in [Crates -> [Versions -> Stamps]]
  /\ installed \in Manifests
  /\ report \in Reports
  /\ lock \in Procs \cup {NoProc}
  /\ pc \in [Procs -> Steps] /\ kind \in [Procs -> Kinds]
  /\ snap \in [Procs -> Manifests]
  /\ todo \in [Procs -> SUBSET Crates]
  /\ learned \in [Procs -> [Crates -> Facts \cup {NoFact}]]
  /\ baseline \in [Procs -> Stamps]
  /\ loaded \in [Procs -> Reports]
  /\ settled \in [Crates -> Stamps] /\ overtaken \in BOOLEAN
  /\ \A p \in Procs, c \in Crates :
       learned[p][c] # NoFact => learned[p][c].at # 0

\* In whatever order checks end, knowledge never travels backwards: neither the
\* stamp of the last full check nor what is known of any crate is replaced by
\* something older (report.rs, write_lock and merged_with) - except by the
\* interface, whose store at the end of an `r` or a `U` looks at nothing, and by
\* the one check that had read the report when it did.
NeverBackwards ==
  [][\/ overtaken'
     \/ /\ report'.baseline >= report.baseline
        /\ \A c \in Crates : StampOf(report', c) >= StampOf(report, c)]_vars

\* No fact of any crate is replaced by an older one, whatever full check ends: it
\* "may only replace knowledge older than itself" (report.rs, merged_with).
ReplacesOnlyOlder ==
  [][\A c \in Crates : report.facts[c] # NoFact /\ report'.facts[c] # NoFact =>
       StampOf(report', c) >= StampOf(report, c)]_vars

\* A check that stored its answers under the lock is not forgotten, whoever stores
\* there next and whatever they had read: the report knows of every crate at least
\* as recently, until the interface stores the answers of an `r` or a `U` over it.
NothingForgotten == \A c \in Crates : StampOf(report, c) >= settled[c]

\* What the list says of a crate was so when it was asked: it shows no update
\* only if none was out, and it shows the newest that was - also after a merge,
\* where a fact without a stamp of its own changes its report, and after the
\* update it named was installed.
StatusTrue ==
  \A c \in Listed : Speaks(report, c, installed[c]) =>
    LET known == {v \in Versions : since[c][v] # 0 /\ since[c][v] < StampOf(report, c)}
    IN  IF ShowsUpdate(report, c, installed[c])
        THEN /\ since[c][report.facts[c].latest] \in 1 .. StampOf(report, c)
             /\ \A v \in known : v <= report.facts[c].latest
        ELSE \A v \in known : v <= installed[c]

\* The age in the footer covers the whole list: of every release that was out
\* before that moment, the list knows.
WatermarkTrue ==
  Covers(report) =>
    \A c \in Listed, v \in Versions :
      since[c][v] # 0 /\ since[c][v] < Watermark(report) /\ v > installed[c] =>
        ShowsUpdate(report, c, installed[c])

-----------------------------------------------------------------------------
(* What these rest on.                                                     *)

\* Whoever has read the report in order to replace it has the lock, so what it
\* read is what is there, unless the interface has stored since; then nothing is
\* settled that it could undo.
StoreInv ==
  \A p \in Procs :
    /\ pc[p] \in {"load", "store"} => lock = p
    /\ pc[p] = "store" =>
         IF overtaken THEN \A c \in Crates : settled[c] = 0 ELSE loaded[p] = report

\* Release 1 of every crate is out, and a check asks about crates its manifest
\* names.
AskInv ==
  /\ \A c \in Crates : since[c][1] = 1
  /\ \A p \in Procs : \A c \in todo[p] : snap[p][c] # 0

IInv == TypeOK /\ StoreInv /\ AskInv /\ NothingForgotten

\* A fact was true when it was stamped, of a crate whose releases came `out` when
\* they did: its latest release was out by then unless it is the installed one, and
\* every release out before is at most that.
TrueAt(out, n, f, t) ==
  /\ t \in 1 .. n
  /\ f.latest = f.current \/ (f.latest > f.current /\ out[f.latest] \in 1 .. t)
  /\ \A v \in Versions : out[v] # 0 /\ out[v] < t => v <= f.latest

TrueReport(r) ==
  \A c \in Crates : r.facts[c] # NoFact => TrueAt(since[c], now, r.facts[c], StampOf(r, c))

\* Every fact is true so: the ones on disk, or read from there, at the stamp they
\* have in their report, the ones a check learned at their own.
TruthInv ==
  /\ TrueReport(report) /\ \A p \in Procs : TrueReport(loaded[p])
  /\ \A p \in Procs, c \in Crates : learned[p][c] # NoFact =>
       TrueAt(since[c], now, learned[p][c], learned[p][c].at)

=============================================================================
