# A TLA+ model of cargo-lbin

cargo-lbin installs crates' binaries under a prefix, keeps a manifest of what
it installed, and lets several of its processes - command lines and terminal
interfaces, of several people - work on the same prefixes and the same cache at
the same time. This directory models that program, checks the models with TLC
and proves some of the results with TLAPS. Paths below are relative to the
repository (`src/build.rs`), names in `code` are either the program's or a
module's.

## 1. The system

| component | code | state | operations |
|---|---|---|---|
| state lock | `src/lock.rs` | an flock on `share/cargo-lbin/lock` of each prefix | shared, exclusive, non-blocking; a reader of a prefix without the file reads without it |
| manifest | `src/manifest.rs`, `src/validate.rs` | per prefix: crate -> version, binaries, `--locked`, pin, rustc | load, validate, store by rename |
| install pipeline | `src/build.rs`, `src/stage.rs` | a run in the cache, the files under `bin/`, a rollback set | build into a stage, collision check, placement door, place, drop obsolete names, commit, roll back |
| commands | `src/main.rs` | a manifest in memory, a plan | install, reinstall, reinstall `--all`, update, downgrade, remove, pin, unpin, verify, migrate, clean, checkupdate |
| migration | `src/main.rs` (`migrate_one`) | two prefixes, one lock at a time | rebuild at the destination, commit, retire the source |
| captured builds | `src/tui_ops.rs`, `BuildControl` in `src/build.rs`, `build_captured` in `src/stage.rs` | a worker thread, cargo's process group, an atomic phase | spawn, drain, sweep, reap, cancel, escalate |
| authorization | `src/tui/job.rs` (`auth_gate`), `answer_auth` | a question and an answer in channels | the worker asks at the placement door, the interface prompts |
| stage runs | `src/stage.rs`, `src/verify.rs` | run directories with a lease each, the build's TMPDIR | acquire, probe, take, remove; the scan of `verify` and `clean` |
| update report | `src/report.rs` | a cache file per prefix: baseline and per-crate facts | absorb, merge, watermark, status |
| versions | `src/index.rs`, `src/shadow.rs` | the registry's answer | which release is newest, which are downgrade candidates |
| interface: loop | `src/tui/mod.rs`, `src/tui/state.rs`, `src/tui/job.rs` | where it is, one job, one question, one line, one report, one slot for each kind of request | a turn: a request taken, a key, the next member of a queue, a message collected |
| interface: bookkeeping | `src/tui/batch.rs`, `src/tui_ops.rs` | a queue of migrations with its sections, the ledger of a list or a sweep | begin, file, stop, summarise |
| privileges | `src/privileged.rs`, `src/prefixes.rs` | sudo's timestamp | place, remove, create through sudo, from verified descriptors |
| rendering | `src/tui/ui.rs`, `src/json.rs`, `src/text.rs`, `src/hints.rs`, `src/progress.rs`, `src/install_warnings.rs` | none | formatting |

How they interact: a command takes a prefix's state lock, loads the manifest
into memory, runs the pipeline for each of its crates and commits the manifest
crate by crate. Plans (`update`, `downgrade`, `reinstall --all`, `migrate`) are
made without the exclusive lock, shown, confirmed, and carried out later under
it. Builds write only to a run directory in the cache, which other processes'
`clean` and `verify` look at; files move from there to `bin/` at the placement,
which may need a password. In the interface a worker thread runs the same
pipeline, controlled by an atomic phase, a process group and two channels; the loop sees it
only through the messages it collects, and what a key may start depends on what is
running, asked or queued then. Every query of the registry ends in the prefix's report, which has a lock of its own.

What is hard: several processes on one prefix, and on two (migrations in both
directions); what was read before a confirmation, a build or a password and is
used after it; a failure or a kill between any two file operations; a cancel that
races the spawn, the end and the placement of a build; processes that outlive
their parents; answers that arrive in another order than they were asked; a keyboard
that may press anything at any turn of a loop with a dozen slots. The
`hazards` list of PROJECT.json names each with its line and the properties that
watch it.

What makes each component correct:

* one prefix: no commit is lost, a binary has one owner, a pin holds, a confirmed
  plan is carried out as shown or not at all, foreign files are spared, verify's
  report is true, and the lock is given back;
* migration: never without a complete installation, one lock at a time, only what
  was confirmed is retired, the report tells how far it came;
* captured builds: cancel and placement have one winner, cancelled means stopped,
  nothing goes on running, no password is asked for a dead build;
* stage runs: nothing is removed under a writer, nothing becomes invisible;
* report: knowledge stored under the lock does not travel backwards, and the list is
  true of the moment its age names;
* versions: what is confirmed is what is built, or newer when that was said;
* interface: what is on screen and what runs belongs to where the interface is, a
  plan is read before it is confirmed, nothing is changed in place beside a build, a
  run always has somebody to continue it and ends with a true summary, a stop and a
  quit are heeded.

## 2. Modules

| module | models | proofs |
|---|---|---|
| `ManifestSpec` | what a prefix promises: a manifest that changes one statement at a time (a commit, a removal, a change of pins), all under unique ownership and with pins that hold | |
| `Prefix`, `PrefixProps` | one prefix, its lock, its files, and processes running all its commands | `PrefixProofs`, `PrefixFilesProofs` |
| `Migrate`, `MigrateProps` | several prefixes and migrations between them | `MigrateProofs` |
| `Batch`, `BatchProps` | one captured batch: worker, cargo and its group, and the interface | `BatchProofs` |
| `Stage`, `StageProps` | run directories and leases: installs, their processes, and cleaners | `StageProofs` |
| `Report`, `ReportProps` | the update report and the checks that write it | `ReportProofs` |
| `App`, `AppProps` | the interface's event loop: every key, every answer, every queue | `AppProofs` |
| `Versions` | which release an update, a downgrade and an install show and build | `VersionsProofs` |

How they fit. `Prefix` and `Migrate` both implement `ManifestSpec`, each prefix of
`Migrate` by itself; `Migrate` takes the commands of `Prefix` as single steps of other
people, which is what their exclusive lock makes of them. `Batch` is what `App` holds
as one job of a list or a sweep, looked at from inside; `App` sees of it the ends that
`Batch` shows it may have. `Stage` is what `Prefix` calls `build`, on the disk of the
cache. `Versions` says what `Prefix` leaves open: which release "the newest" is.

`MC*` modules give the constants their values for TLC. A definition that starts
with "Mutant:" in its comment is a plausible bug of the definition after it; it is
used in no specification, and PROJECT.json says which property finds it out.

### Prefix

A file is which release of which crate its bytes are; a name under `bin/` holds
such a file, a foreign one or nothing. Releases are numbered, and `Provides` says
which binaries a release brings - it may drop and add names, take over another
crate's name, or be a library without any. `pc[p]` is where a process stands:
`plan` and `confirm` without the exclusive lock, `gate` (the checks made right
after it is taken: `refuse_pinned`, `refuse_diagonal`, the snapshots of
`cmd_downgrade` and `apply_reinstalls`), `pick` (the loop over the batch),
`build`, `door`, `place` (one file per step, through the rename of
`install_atomic`), `obsolete`, `rollback`, `rm`, `pin`, `read` and `audit`
(verify). `mem[p]` is its manifest in memory, `snap[p]` the one its plan was made
from, `placed[p]` the `RollbackSet`. Every step after the door may fail, and a
process may be killed anywhere. `Menu[p]` is what people run as process `p`. Two
history variables, `torn` and `orphaned`, say which crates and names an unfinished
operation left behind.

Other programs may create files under `bin/` at any time, the lock means nothing to
them. A third history variable, `late`, holds the names they took after the collision
check of the member in hand: `NoCollision` is evaluated once, at the end of the build,
and `Place` renames over whatever is there by then.

Abstracted: what a build produces beyond its version and binaries; the spelling
of names; `sudo` (a privileged step may fail); the choice of a release by
`update` (the newest; see `Versions`). A prefix that is read without a lock file is modelled:
`Read` passes without a lock while `lockExists` is FALSE.

### Migrate

Each prefix is a manifest, a lock and a set of complete files. A migration plans
(`plan_migration`), is confirmed, and moves crate by crate: lock the destination,
check that the crate is absent there, probe the source without waiting, build the
pinned version or the newest, place, commit, let go; then lock the source,
revalidate its entry against the snapshot, remove files and entry. The other
commands are there as the steps `Install`, `Remove`, `SetPinned` by other people,
the registry publishes, the toolchain is upgraded (an entry records the rustc it
was built with, and a rebuild changes it). `landed` and `outcome` record how far a
migration came and what it reports.

### Batch

The worker's program counter follows `tui_install_batch`, `install_and_commit`,
`build_captured` and `drain_stderr`; the interface's follows the loop of
`App::run`: a press of `c`, the escalation of an overdue cancel, the answer to a
pending authorization, the job's message. `BuildControl`'s phase and process
group are two variables, and each atomic access to them is a step: `Swap` then
`Load` then `Term` or `Kill` on the interface's side, `Announce` then `Recheck`
on the worker's. cargo and one descendant run, ignore or obey SIGTERM, hold or
close the pipe; the kernel delivers.

### Stage

One install per run directory, under a fresh name. The lease is an flock on the
inode of `.lease`: `lease[r]` are the holders of the creator's descriptor
(processes that inherited it included), `ex[r]` a remover's own exclusive lock,
`sh[r]` the probes'. Opening and locking are two steps, so a lock may be granted
on a file that has lost its name. The TMPDIR of the build follows the same
protocol with `writers`. A kill closes the descriptors of one process and leaves
the others. Removal goes payload, lease, directory, with a failure possible at
each. The order of `remove_leased_run`, the rename in `Lease::acquire` and the
second take in `release_and_remove_run` are what the properties are about.

### Report

A fact is the version asked about, the newest release then, and a stamp in
seconds; a fact without a stamp (0) inherits its report's baseline, and a report
without a full check has none (0), which sorts below all others as `None` does.
Checks read the manifest, ask crate by crate without a lock, and then lock, load,
fold in and store. The interface does without the three: at the end of `r`
(`refresh`), and at the end of `U` (`sweep`) after its worker has stored the same
answers with them, `App::finish_check` stamps the answers anew and stores them over
what is there (`Collect`). Two history variables go with it: `settled`, the newest
answer stored under the lock since the interface last stored, and `overtaken`, whether
the interface has stored since the report was last read under the lock. Initially
there may be a report of the format before per-fact stamps. The registry is the time
at which each release came out.

### App

A turn of the loop (`App::run`) is: take one pending request, in the order of the
slots (`pc = "top"`); read at most one key; then (`pc = "tail"`) start the next member
of a migration queue, or collect from the job. Each handler of a key and each arm of
`poll_job` is an action with everything it calls. `job` is the background work with
what it is for and where it was asked; `confirm` the question; `input` the line being
typed; `hits` and `choice` the panels that belong to a prefix; `report` the sticky
report; `pend` one request per slot; `queue` a running `M` (`BatchRunner`) with its
sections; `batch` the ledger of a list or a sweep (`InstallBatch`). A handler's guards
are the code's, in the code's order: which keys a question, a line, a report or a
running job swallows, and what `anything_running` covers where it is asked.

What a worker does is chosen when its message is collected, since nobody can tell
before: it answers, answers nothing, refuses, fails, begins or ends a member, or dies.
`event` is a history of the step: the summary shown, the work done in place, the start
that let go of a worker. The loop is followed until a running worker is let go
(`dropped`, the finding of run `app_flight`); after that the properties say nothing.
Left out: wording, scrolling, filtering, selection (a key that acts on the selected
row may act on any crate) and the rows' contents.

### Versions

One crate in one prefix. Releases are numbered in SemVer order, some of them
pre-releases; they are published and yanked at any time. A plan of an update or a
downgrade is made, shown, and applied later if the entry is still the plan's. What the
plan shows is `latest_relevant` or a pick of `downgrade_candidates`; what is built is
cargo's choice, with `--version` or without.

## 3. Runs

| run | asks | instance |
|---|---|---|
| `prefix` | lost commits, refused stores, pins, confirmed plans, what stands under `bin/` after overlapping operations, failures, kills and other programs' files, verify, refinement of `ManifestSpec`, the exclusive lock given back | 2 processes (one plans, one overtakes), 2 crates, 2 binaries, 2 releases |
| `prefix_foreign` | does a placement overwrite another program's file? (it does) | the same |
| `migrate` | copies, locks, retirement, policy, report | 2 migrations of one crate between 2 prefixes, 2 releases, 2 toolchains |
| `migrate_cross` | migrations of up to two crates that want one binary, in opposite directions too: they end, and both prefixes keep `ManifestSpec`'s promises | 2 migrations, 2 crates, 1 release, removals by hand |
| `batch` | cancel, door, password and end of a batch; a cancelled build ends and leaves nobody behind | 2 members, any number of presses |
| `stage` | leases, removal under writers, visible debris, the summary of `clean`, a descendant that never exits | 1 install, 2 descendants, 2 cleaners |
| `stage_race` | does `clean` report a failure that is none? (it does) | 1 install, 2 cleaners |
| `report` | monotonic knowledge, true annotations, the age in the footer | 1 crate, 2 checks of any of four kinds, 2 seconds |
| `report_refresh` | does `r` or `U` revert newer knowledge? (it does) | 1 crate, 2 checks, 3 seconds |
| `app` | what is on screen and runs, questions, summaries, stops, quits and the end of queues | 3 crates, the known pair of prefixes |
| `app_flight` | is there ever one job at most? (no) | the same |
| `versions` | does an update land on what was shown or newer? (not from a pre-release) | 4 releases, 2 of them pre-releases |

Why these bounds. Two processes are what a race needs: the exclusive lock admits
one writer, and a third process only repeats what the second can do to the first. In
`prefix` the two run different commands (`MCMenu`): one plans updates and downgrades,
rebuilds and verifies, the other one installs, removes, pins and unpins at once, and
plans a rebuild of everything, which the first can overtake with an update or a
downgrade; that any two processes may run any commands is left to the proofs. Two
crates give a batch a failed and a following member, and each a binary the other one
may own; two binaries give an update of one crate a name to keep and one to retire, its
downgrade one to keep and one to introduce, and an update of the other crate one to
introduce and one to retire (`MCProvides`); two releases give a plan something to be
overtaken by. Nothing bounds how often commands are run: memory is dropped when a
command ends, so the state spaces are finite without counters. Named bounds are
`MaxVersion` (releases), `MaxRustc` (toolchains), `MaxNow` (the report's clock), `N`
(members of a batch) and `Plans` (what a run over everything installed is about). In
`report`, two seconds give an older and a newer stamp, and any number of steps fit in
a second, so ties happen as well; what more seconds, crates or checks could add is
covered by the theorems of `ReportProofs`, which prove all four properties of that run
for every value. `app` has one plan of three members, so that a queue has one that is
done, one in hand and one left over; an interface knows exactly two prefixes (`Pair`).
Symmetry is used for processes, prefixes and crates where their constants do not tell
them apart, and in no run with a liveness property.

Deadlock is checked in `Prefix`, `Migrate` and `Stage`. It is not in `Batch`, where a
batch ends; in `App`, which is left; in `Report`, where the clock stops at its bound;
and in `Versions`, where every release may be out and yanked.

### Fairness

* `Prefix` and `Migrate`: weak fairness of each process's own steps (`Work(p)`):
  cargo ends, prompts are answered, a process in possession of the lock is
  scheduled. A process is never promised that a new command starts or that a kill
  happens. `LockReleased` then says that no sequence of skips, failures and
  rollbacks keeps a prefix, and in `migrate_cross` that the wait for the second
  prefix cannot be mutual.
* `Batch`: weak fairness of the worker's steps, except that its pipe breaks, and of
  the kernel's delivery of signals; strong fairness of the three things the
  interface's loop does in each turn between two keys - answer an authorization,
  collect the job's message, escalate an overdue cancel (`App::run`) - because a
  person who keeps pressing keys only delays a turn. cargo and its children need
  not do anything at all: `GroupEmptied` and `StopEnds` hold without their help.
* `Stage`: weak fairness of the installing process only. Its children owe nothing.
* `App`: the loop turns without keys, because `event::poll` times out: weak fairness
  of the steps of a turn (a request taken, no key, the next member started, nothing to
  collect, the loop left). A worker that is asked for an answer gives one in the end:
  strong fairness of collecting an answer and of a build's messages, because a turn
  may find nothing any number of times before. No key is ever promised.

### Violated statements

Each of these runs checks a statement of the repository, quoted with its line in
PROJECT.json, that the program does not keep.

* `stage_race`: a `clean` that opened a lease just before another `clean` unlinked
  it gets a lock on a nameless file, finds no directory, and reports a failed
  removal - although a run that a racing clean took first "counts as done".
* `prefix_foreign`: the destinations are checked once, before the wait for a password;
  a file another program creates after that is overwritten by the rename of
  `install_atomic`, although "existing files are not silently overwritten".
* `report_refresh`: the interface ends `r` and `U` by storing their answers with
  `Report::store`, not `store_full`, and replaces newer facts - those of `U` although
  its worker has just merged them under the lock.
* `app_flight`: a line opened between two members of an `M`, or over search hits,
  starts its worker over the one that is running, although there is "at most one".
* `versions`: a pre-release is offered the newest pre-release, and cargo, asked for no
  version, builds the newest stable one, which may be older than what is installed.

### Limits that are not violations

* A migration's destination lock is let go before the source is retired. Someone
  who removes the new copy in between, while an old one exists, ends with none. The
  code promises this for failures and crashes only; `NeverWithout` is checked
  without that removal.
* `ForeignSpared` is what the code keeps of `ForeignUntouched`: a foreign file that the
  collision check could see is safe from the placement, and every one from rollbacks,
  obsolete names, removals and cleanups. Other programs create files only under names
  that are free and that no entry claims: a file another program puts under a managed
  name is a managed binary to the code, which looks at names only.
* `verify` of a prefix without a lock file reads without a lock, so the first writer may
  start under it; `VerifyTruthful` speaks of readers that have the lock.
* A hard kill between placement and commit leaves files nobody owns; they are in
  `orphaned`, and `FilesAccounted` says that nothing else is.
* `m` or `M` may be confirmed over a queue that is still running, from a question
  opened before it or between two members. The one pending slot and the ledger are
  then overwritten, and nothing says what the summary of such a queue should be: the
  model takes the step and marks the queue `crossed`, and `SummaryTrue` and
  `QueueEnds` leave it out.
* `PlanHonoured` speaks of an update by "the newest release", as `Prefix` does; that
  this is what was shown is a question for `Versions`, and not always so.
* `Stage` does not cover a process that closes the descriptors it inherited; the
  code names it as having left the contract. `Batch` does not cover the reuse of a
  process group's number, nor a descendant that leaves the group and holds the
  pipe; `src/build.rs` names both.

## 4. Proofs

`PrefixProofs` proves, for any crates, releases, binaries, processes and any menu
of commands, of every behaviour of `Prefix!Spec`:

* `TypeCorrect`: `[]TypeOK`;
* `InductiveInvariant`: `[]IInv`;
* `NoLostCommit`: `[]MemoryFresh`, what a process would store is what is on disk;
* `StoresAccepted`: `[]StoreAccepted`;
* `PinsHold`: the action property `PinHolds`;
* `Refinement`: `Prefix` implements `ManifestSpec`.

They assume `PrefixAssumption` and `SentinelAssumption` of module `Prefix`: at
least one release, each with a set of binaries, and sentinels that are no
processes, crates, entries or files.

The argument. None of these properties is inductive. Whether a store loses a
commit depends on who could have stored since the load, so `LockInv` ties control
states to the lock, and `MemoryInv` says that memory and disk agree at every
control state at which a store may still follow, but for the crate a removal has
taken out. Whether a store gives a binary two owners depends on the check made
after the build: `PendingInv` carries its result, for the manifest on disk, up to
the commit; it survives the other processes because they lack the lock. Whether a
pin holds depends on what a command knew when it started: `PlanInv` carries the
gate's answer for the members still to do, `BuildInv` specialises it to the one in
hand, and `MemberInv` (a member is worked on once) keeps a batch's own commits out
of it. `IInv` is the conjunction; each action is proved to preserve it in a lemma
of its own, on groups of conjuncts it can disturb. The refinement maps each commit
to the abstract step that matches it, and every other step to a stutter.

`PrefixFilesProofs` builds on it, with the same assumptions, and proves of every
behaviour of `Prefix!Spec`:

* `FilesMatch` (`FilesAccounted`), `CratesWhole` (`WholeUnlessTorn`), `VerifyTrue`
  (`VerifyTruthful`);
* `ForeignSafe` (`ForeignSpared`), for files that come at any time; `ForeignUntouched`,
  which has no such exception, is false, as section 3 says;
* `PlansHonoured` (`PlanHonoured`).

The argument. `FilesInv` says of every process how far its operation has come on disk:
`Placing` that what is off its list is placed, that the rollback set is exactly what is
new of it, and, after the placement, that the obsolete names off the list are gone;
`Removing` the same of a rollback and a removal. A process's own step moves its list
and one file together (`OwnPlacing`, `OwnRemoving`); a step of
another one is kept out by the lock while files move (`Frame`, `OneMoves`, `Alone`),
and other programs create a file only where there is none and no entry claims the name. `IInv` is needed at every turn: a file placed belongs to no
other crate because of `PendingInv`, and a commit makes the new entry true of the files
because of `MemoryInv`. `FreeInv` carries the collision check's answer from the build
to each placement: the name is free, or in `late`, which while a member is placed only
grows (`LateFrame`). `ReaderInv` says that a reader keeps writers out and read what is on disk.
`PlansInv` carries a confirmed plan from the gate to the commit: `Shown` that what was
shown is still so of the members to come (a batch's own commits do not concern them,
`MemberInv`), `Settled` that the entry in hand is the one agreed to, version, pin and
`--locked`; `ReleaseInv` that a rebuild of a version brings the binaries it had, which
is why it changes no entry. TLC checked these invariants on the instance of run
`prefix`.

`StageProofs` proves, for any number of installs, cleaners and descendants, of
every behaviour of `Stage!Spec`:

* `TypeCorrect`: `[]TypeOK`; `InductiveInvariant`: `[]IInv`;
* `RemovalSafe` (`NoRemovalUnderWriter`), `ScratchSafe` (`ScratchUnderNobody`);
* `ScanTruthful` (`FoundOwnerless`), `CleanTruthful` (`SummaryTrue`);
* `DebrisVisible` (`PayloadVisible`).

They assume `StageAssumption`: no install is a cleaner, and the sentinels are
neither. The argument: `LeaseInv` says that whoever lives of an install, and the
install itself while it is at work, is among the holders of the lease; an exclusive
lock is granted only when there are none. So a grant after publication means that
nobody is left - and `Ownerless` is stable, since descendants descend from the living
and an install never begins twice (`EarlyOnce`, `OwnerlessForGood`). `GrantInv`
carries this from the grant through the steps of the removal, `BirthInv` covers the
run between its creation and the publication of its lease, `ScratchInv` is the same
argument for the TMPDIR, and `EmptyInv` says that the lease is unlinked only when
nothing is left for it to announce. `IInv` holds on the instance of run `stage`; the
run itself checks the conjuncts a reader asks about.

`MigrateProofs` proves, for any prefixes, crates, releases, toolchains and binaries
and any number of migrations, with or without people who remove, of every behaviour
of `Migrate!Spec`:

* `TypeCorrect`: `[]TypeOK`; `InductiveInvariant`: `[]IInv`;
* `PolicyKept` (`PolicyTravels`), `ReportTruthful` (`ReportTrue`);
* `OnlyConfirmedRetired` (`RetiresAsConfirmed`);
* `Refinement` (`EachPrefix`): every prefix makes only the steps of `ManifestSpec`;
* `NeverWithoutACopy` (`NeverWithout`), for finitely many prefixes and migrations and
  people who do not run `remove`.

They assume `MigrateAssumption`. The argument: `LockInv` makes locks and control
states agree, so (`ManifestMoves`, `Undisturbed`) a manifest changes only at a commit
of its lock's holder, or by a person's command while nobody holds it. What was seen
under a lock is therefore true until it is let go: at the destination that the crate
is absent and the names free (`BuildInv`), at the source that the entry is the plan's
(`RemoveInv`). `OwnersInv`, which needs the collision check's result carried up to the
commit, makes a removed file the file of one crate; `LandedInv` ties the history of
commits to the control states, for the report.

`NeverWithout` is not about one migration: the copy one of them leaves behind may be the
copy another one is about to retire. `CopiesInv` counts the complete copies of a crate
(`Copies`) against the migrations that have yet to retire one of them (`Threats`). A
landing adds one to either (`LandingMoves`), a retirement takes one from either
(`TakingMoves`), everything else only adds copies or takes threats away
(`OtherMoves`), so there are never fewer copies than threats; and they are as many only
where there is no copy at all, or where some migration is going to find its source
already broken and take nothing (`Harmless`), which keeps the last copy out of reach.
`SourceInv` starts the count: a crate with no copy still has the entry its migration
set out from.

`BatchProofs` proves, for any number of members, of every behaviour of `Batch!Spec`:

* `TypeCorrect`: `[]TypeOK`; `InductiveInvariant`: `[]IInv`;
* `DoorHasOneWinner` (`OneWinner`), `EndTruthful` (`EndTrue`);
* `PasswordTimely` (`PasswordInTime`), `NothingBeginsAfterStop` (`StoppedMeansStopped`).

They assume nothing but that there is a member. The argument: `Fresh` and `FreshInv`
say that nobody, interface included, touches a member before it is begun; `MemberInv`
and `InHand` tie the worker's place to the member in hand and its outcome; `CancelInv`
ties what the interface believes of its target, and what it told the person of the
others, to the phases; `DoorInv` says that only what went through the door is placed and
only what a cancel reached first is cancelled, since of the two swaps of one phase one
loses; `AuthInv` says that a request for a password is in one place at a time.

`AppProofs` proves, for any crates, any plans and any two prefixes, of every behaviour
of `App!Spec`:

* `TypeCorrect`: `[]TypeOK`; `InductiveInvariant`: `[]IInv`; `RunsHeld`: `[]RunHeld`;
* `EverythingHere` (`AllHere`), `NeverUnread` (`PlanShown`), `MutatesAlone`
  (`MutationAlone`), `SummariesTrue` (`SummaryTrue`);
* the action properties `StopsHeeded` (`StopHeeded`) and `OnlyWanted` (`AnswersWanted`);
* `BuildNeverLeft`, the safety half of `QuitWaits`: the program never ends with a build
  in its job slot.

They assume `AppAssumption`: the pair has two prefixes, no plan is empty or names a
crate twice (the rows come from the manifest, a map by name), and sentinels are no
values. The argument: `OneRequest` (there is never more than one
request, so the order of the slots never matters), `RequestInv` (only a typed install is
requested beside a job or a queue), `LookupInv` (while a sweep or an update is looked up,
whatever could start something else is closed) and `AskInv` (the question of a sweep is asked of an interface
that does nothing else). With them, a jump to the other prefix finds nothing
transient; without them each of the thirty handlers would have to be read against all
the others.

`SummaryTrue` speaks of the moment a run ends, so `QueueInv` and `BatchInv` account for
its members all along. A queue that nobody crossed has exactly one member in hand
(`Outstanding`): the one asked for or, once it is begun, the one building; the others
are filed in one section each, or left, and those begun are those filed and the one
building. Every way a queue can end (told to stop between two members, a start refused,
its member cancelled, filed, or the last) then has its lemma (`PutBackTold`,
`FiledTold`, `CancelledTold`), and only a member cancelled while it was building is
missing. A ledger has counted everybody its worker got to, but for the one it is at and
the one a cancel took (`Told`), and a run is over only between members. Both invariants
hold on the instance of run `app`. `StopHeeded` and `AnswersWanted` follow from the
types and the guards: a migration is put into the slot at one door only, and a job
leaves it only where it is collected (`Collecting`).

`VersionsProofs` proves, for any number of releases, any of them pre-releases, and any
course of the registry: `StableUpdates` (`StableUpdateLands`: an update confirmed from
a stable version lands on a stable release, the one shown or a newer one, unless that
was yanked) and `Downgrades` (`DowngradeLands`: the release chosen, below what is
installed, with a pin). They assume `Numbered`: the number of releases is a natural
number and "no plan" is no plan. They mark the border of the finding of run
`versions`.

`ReportProofs` proves, for any number of crates, releases and checks, any menu of
commands and any bound of the clock, of every behaviour of `Report!Spec`:

* `TypeCorrect`: `[]TypeOK`; `InductiveInvariant`: `[]IInv`;
* `NothingLost` (`NothingForgotten`) and `KnowledgeMonotone` (`NeverBackwards`);
* `ListTruthful` (`StatusTrue`) and `AgeTruthful` (`WatermarkTrue`).

They assume `ReportAssumption`: at least one release and one second, and sentinels
that are no facts and no processes. The first two properties speak of what is stored
under the lock, and begin again whenever the interface stores an `r` or a `U` past it:
`NothingForgotten` with nothing settled, `NeverBackwards` with the first load after
that. Without these exceptions both are false (run `report_refresh`). The last two hold
through the interface's stores as well. The argument:
`StoreInv` says that a check between its load and its store has the write lock, so what
it read is what is there, unless the interface has stored since, when nothing is
settled that it could undo; the lemmas about the data (`AbsorbStamp`,
`MaterializedStamp`, `MergedStamp`) say that absorbing and merging keep, of each crate,
the newer of two stamps; `TruthInv` says of every fact, wherever it is carried, that it
was the registry's answer at the moment of its stamp, and `StatusMakesWatermark` that
the age shown is the oldest of those moments. The one thing needed of the registry is
that a newest release exists (`NewestIsARelease`), from the well-foundedness of the
natural numbers.

Only model-checked: the liveness properties (`LockReleased`, `GroupEmptied`,
`StopEnds`, `ScratchBounded`, `QueueEnds`, and of `QuitWaits` that a quit comes), since
liveness under fairness, and anything about ENABLED, is out of the prover's reach. Every
invariant and every action property of a passing run is proved.

## 5. Not modelled

Rendering, JSON and wording, which hold no state; the registry client (the network)
and the parsing and caching of its index; the command line's listings; packaging; what
sudo and the verified copy through `/proc` do within one privileged step; the
privileged creation of the lock file; `verify`'s warnings about foreign files, PATH and
damaged manifests; the shadow check of `src/shadow.rs`; the pre-lease stage layout
`stage/<pid>`, whose `/proc` heuristic the code documents as unreliable, dry runs and
old logs; of the interface, scrolling, filtering, selection and the rows' contents.

## 6. Plan

Done, in this order: `ManifestSpec`, `Prefix`, `Migrate`, `Batch`, `Stage`, `Report`,
`Versions`, `App`, each with its proofs. What is left:

1. Proofs of what the liveness properties rest on: that a process, a queue or a
   cancelled build always comes nearer to its end.
2. `Verify`: the findings of the audit on a prefix in any state, with the read-only
   rules about what it may conclude from errors.
3. The composition of `App` with two `Prefix`es, to check `AllHere` against what the
   workers do rather than where they were asked.
