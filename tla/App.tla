--------------------------------- MODULE App ---------------------------------
(***************************************************************************)
(* The interface's event loop.  One thread draws, takes what is pending,   *)
(* reads at most one key and then either starts the next member of a       *)
(* migration queue or collects from the one background job; workers run    *)
(* beside it and are seen only through what they have sent.  A step of     *)
(* this module is one arm of that loop: a queued request taken, a key      *)
(* handled with everything its handler calls, a message collected.         *)
(*                                                                         *)
(* What a worker does is chosen when its message is collected: until then  *)
(* nobody can tell.  Wording, scrolling, selection and the rows' contents  *)
(* are left out: a key that acts on the selected crate may act on any.     *)
(***************************************************************************)
EXTENDS Naturals, FiniteSets, SequencesExt

CONSTANTS
  Crates,    \* the crates there may be
  Plans,     \* bound: what a run over everything installed may be about, in order
  Pair,      \* the known pair the interface can jump between
  Nowhere,   \* no prefix: the panel is not shown
  NoJob, NoQuestion, NoRequest, NoCrate, NoQueue, NoBatch, NoReport, NoEvent

---------------------------------------------------------------------------
(* What the state is made of. *)

\* Jobs that only ask (Job, all but Build), and builds by what they build towards.
OneShots == {"check", "verify", "search", "sweepCheck", "reinstallPlan",
             "updatePlan", "downgrade"}
Singles  == {"install", "update", "reinstall", "downgradeTo"}
Batches  == {"list", "rebuild", "updates"}
Builds   == Singles \cup Batches \cup {"migrate"}

\* The background work (Job): what it is for, where and about what it was asked, and
\* whether it was told to stop; `over` is a cancelled member's end of its run.
Jobs == [kind : OneShots \cup Builds, at : Pair,
         crate : Crates \cup {NoCrate}, cancel : BOOLEAN, over : BOOLEAN]

\* The slots, in the order the loop takes them.
Slots == <<"terminal", "inPlace", "updateSweep", "reinstallSweep", "installBatch",
           "build">>

\* The work a slot may hold; what needs a password the terminal may hold as well.
WorkOf ==
  [terminal       |-> Singles \cup {"updates", "rebuild", "remove", "pin"},
   inPlace        |-> {"remove", "pin"},
   updateSweep    |-> {"updates"},
   reinstallSweep |-> {"rebuild"},
   installBatch   |-> {"install"},
   build          |-> Singles]

Requests == [what : WorkOf["terminal"], at : Pair, total : Nat]

Migrations == [crate : Crates, at : Pair]

\* Where a finished member of a queue is filed (BatchOutcome).
Sections == {"moved", "refused", "incomplete", "failed"}

\* A running `M` (BatchRunner): its plan, who is left, who is filed where.
Queues ==
  [at : Pair, plan : Seq(Crates), left : Seq(Crates),
   filed : [Sections -> SUBSET Crates], stopping : BOOLEAN,
   begun : SUBSET Crates, crossed : BOOLEAN]

\* The ledger of a list or a sweep (InstallBatch).
Ledgers ==
  [total : Nat, attempted : Nat, current : BOOLEAN,
   installed : Nat, failed : Nat, refused : Nat, skipped : Nat]

\* What is asked, and where the answer's plan came from.
Asks == {"update", "updateAll", "reinstallAll", "remove", "migrate", "migrateAll"}

Questions == [ask : Asks, at : Pair, plan : Seq(Crates)]

\* What a sticky report tells: a build as it goes, a result, or a plan asked about.
Pins == [what : {"live", "result", "plan"}, at : Pair]

ASSUME AppAssumption ==
  /\ Plans \subseteq Seq(Crates) /\ <<>> \notin Plans
  /\ \A plan \in Plans : IsInjective(plan)  \* the manifest names a crate once
  /\ \E p, q \in Pair : p # q /\ Pair = {p, q}
  /\ Nowhere \notin Pair
  /\ NoJob \notin Jobs /\ NoQuestion \notin Questions /\ NoReport \notin Pins
  /\ NoRequest \notin Requests \cup Migrations
  /\ NoQueue \notin Queues /\ NoBatch \notin Ledgers

---------------------------------------------------------------------------
VARIABLES
  pc,        \* the loop: at the top of a turn, past the key, or left
  prefix,    \* where the interface is
  degraded,  \* the manifest there could not be loaded (manifest_error)
  job,       \* the background work in flight
  confirm,   \* the question on screen
  input,     \* what the line being typed is for
  hits,      \* the prefix a search result's marks describe
  choice,    \* the prefix a downgrade offer is about
  report,    \* the sticky report
  pend,      \* the requests the loop takes at the top of a turn
  pendMigrate, \* the migration it starts after the key
  queue,     \* a running `M` (migrate_batch)
  batch,     \* the ledger of a list or a sweep (install_batch)
  quitAfterBuild, shouldQuit,
  dropped,   \* history: the start that let go of a worker still running
  event      \* history: what this step did that has to be accounted for

here    == <<prefix, degraded>>
panels  == <<hits, choice, report>>
asked   == <<confirm, input>>
queued  == <<pend, pendMigrate>>
running == <<job, queue, batch, dropped>>
leaving == <<quitAfterBuild, shouldQuit>>
vars    == <<pc, here, panels, asked, queued, running, leaving, event>>

---------------------------------------------------------------------------
(* What the state holds. *)

Job(kind, crate) ==
  [kind |-> kind, at |-> prefix, crate |-> crate, cancel |-> FALSE, over |-> FALSE]

Building == job # NoJob /\ job.kind \in Builds

\* A request: asked at a prefix, for a kind of work, over so many crates.
Request(what, total) == [what |-> what, at |-> prefix, total |-> total]

NothingPending == \A s \in ToSet(Slots) : pend[s] = NoRequest

\* The slot the loop takes now: the first that is filled.
Taken(s) ==
  /\ pend[s] # NoRequest
  /\ \A i, k \in DOMAIN Slots : Slots[i] = s /\ k < i => pend[Slots[k]] = NoRequest

\* Mutant: only the job slot is asked, which a queue between members leaves empty.
BusyJobOnly == job # NoJob

\* Anything running or queued (anything_running).
Busy ==
  \/ job # NoJob \/ queue # NoQueue \/ batch # NoBatch
  \/ ~NothingPending \/ pendMigrate # NoRequest

\* The questions that pin a plan of their own above themselves (owns_report).
OwnsReport == confirm # NoQuestion /\ confirm.ask \in {"updateAll", "reinstallAll"}

Question(ask, at, plan) == [ask |-> ask, at |-> at, plan |-> plan]

Pinned(what, at) == [what |-> what, at |-> at]

\* The other prefix of the pair (known_pair_dest).
Other == CHOOSE p \in Pair : p # prefix

\* A confirmed `M`: BatchRunner::new and its first next_member.
NewQueue(plan, crossed) ==
  [at |-> prefix, plan |-> plan, left |-> Tail(plan),
   filed |-> [s \in Sections |-> {}], stopping |-> FALSE,
   begun |-> {}, crossed |-> crossed]

\* The ledger of a list or a sweep before its first member.
NewBatch(total) ==
  [total |-> total, attempted |-> 0, current |-> FALSE,
   installed |-> 0, failed |-> 0, refused |-> 0, skipped |-> 0]

\* Something is put into the job slot, whoever holds it.
Occupy(j) ==
  /\ job' = j
  /\ dropped' = IF job = NoJob THEN dropped ELSE j.kind

\* A reload drops both panels first; then the list loads, is degraded, or is as it was.
Reloads == {"loaded", "degraded", "failed"}

Reread(r) ==
  degraded' = IF r = "failed" THEN degraded ELSE r = "degraded"

\* Mutant: the downgrade offer survives a reload.
ReloadKeepsOffer(r) == Reread(r) /\ hits' = Nowhere /\ choice' = choice

Reload(r) == Reread(r) /\ hits' = Nowhere /\ choice' = Nowhere

\* What a preflight finds: privilege is at hand, sudo caches nothing, or an error.
Preflights == {"ready", "noCache", "reported"}

Quiet == event' = NoEvent

Init ==
  /\ pc = "top" /\ prefix \in Pair /\ degraded \in BOOLEAN
  /\ job = NoJob /\ queue = NoQueue /\ batch = NoBatch /\ dropped = "no"
  /\ confirm = NoQuestion /\ input = "none"
  /\ hits = Nowhere /\ choice = Nowhere /\ report = NoReport
  /\ pend = [s \in ToSet(Slots) |-> NoRequest] /\ pendMigrate = NoRequest
  /\ quitAfterBuild = FALSE /\ shouldQuit = FALSE /\ event = NoEvent

---------------------------------------------------------------------------
(* The top of a turn: one pending request is taken, and the turn begins     *)
(* again.  The model follows the loop until a worker has been let go.       *)

Live == dropped = "no"

Take(s) == pc = "top" /\ ~shouldQuit /\ Live /\ Taken(s)

\* The command runs as the CLI would, the interface out of the way.
RunInTerminal ==
  /\ Take("terminal")
  /\ pend' = [pend EXCEPT !["terminal"] = NoRequest]
  /\ \E r \in Reloads : Reload(r)
  /\ event' = [what |-> "terminal", work |-> pend["terminal"].what]
  /\ UNCHANGED <<pc, prefix, report, asked, pendMigrate, running, leaving>>

\* The mutation itself (apply_remove, apply_set_pinned): done and reloaded, or
\* refused by a busy lock or an error, and then nothing is read again.
Mutate ==
  /\ \/ \E r \in Reloads : Reload(r)
     \/ UNCHANGED <<hits, choice, degraded>>
  /\ event' = [what |-> "inPlace"]

RunInPlace ==
  /\ Take("inPlace")
  /\ \E pf \in Preflights :
       /\ pend' = [pend EXCEPT !["inPlace"] = NoRequest,
                     !["terminal"] = IF pf = "noCache" THEN pend["inPlace"] ELSE @]
       /\ IF pf = "ready" THEN Mutate ELSE Quiet /\ UNCHANGED <<hits, choice, degraded>>
  /\ UNCHANGED <<pc, prefix, report, asked, pendMigrate, running, leaving>>

\* A confirmed run over several crates: one worker, one ledger.
StartBatch(s, kind) ==
  /\ Take(s)
  /\ \E pf \in Preflights :
       /\ pend' = [pend EXCEPT ![s] = NoRequest,
                     !["terminal"] = IF pf = "noCache" THEN pend[s] ELSE @]
       /\ IF pf = "ready"
            THEN /\ report' = NoReport /\ batch' = NewBatch(pend[s].total)
                 /\ Occupy(Job(kind, NoCrate))
            ELSE UNCHANGED <<report, batch, job, dropped>>
  /\ Quiet
  /\ UNCHANGED <<pc, here, hits, choice, asked, pendMigrate, queue, leaving>>

StartConfirmedUpdateSweep == StartBatch("updateSweep", "updates")
StartConfirmedSweep       == StartBatch("reinstallSweep", "rebuild")
StartInstallBatch         == StartBatch("installBatch", "list")

\* One build.  A bad spec or an advisory pin refusal (an install's only) ends it
\* with the sticky report in place; the preflight's answer comes after it is gone.
StartBuild ==
  /\ Take("build")
  /\ LET what == pend["build"].what IN
     \/ /\ what = "install"
        /\ pend' = [pend EXCEPT !["build"] = NoRequest]
        /\ UNCHANGED <<report, job, dropped>>
     \/ \E pf \in Preflights :
          /\ report' = NoReport
          /\ pend' = [pend EXCEPT !["build"] = NoRequest,
                        !["terminal"] = IF pf = "noCache" THEN pend["build"] ELSE @]
          /\ IF pf = "ready" THEN Occupy(Job(what, NoCrate))
                             ELSE UNCHANGED <<job, dropped>>
  /\ Quiet
  /\ UNCHANGED <<pc, here, hits, choice, asked, pendMigrate, queue, batch, leaving>>

---------------------------------------------------------------------------
(* One look at the keyboard. *)

Key == pc = "top" /\ ~shouldQuit /\ Live /\ NothingPending /\ pc' = "tail"

\* No key, or one that changes nothing here: a scroll, a refusal, the help.
NoKey ==
  /\ Key /\ Quiet
  /\ UNCHANGED <<here, panels, asked, queued, running, leaving>>

\* What a cancel marks: the flag of a one-shot, the control of a build.
CancelJob == IF job = NoJob THEN job ELSE [job EXCEPT !.cancel = TRUE]

\* Ctrl-C, in every mode: a build is cancelled and waited for.
CtrlC ==
  /\ Key /\ Quiet
  /\ IF Building
       THEN quitAfterBuild' = TRUE /\ job' = CancelJob /\ UNCHANGED shouldQuit
       ELSE shouldQuit' = TRUE /\ UNCHANGED <<quitAfterBuild, job>>
  /\ UNCHANGED <<here, panels, asked, queued, queue, batch, dropped>>

\* Mutant: the report is dismissed under the question that pinned it.
DismissReportAsked ==
  /\ Key /\ Quiet
  /\ report # NoReport /\ input = "none"
  /\ report' = NoReport
  /\ UNCHANGED <<here, hits, choice, asked, queued, running, leaving>>

\* Esc or Enter dismiss a report nobody is asking about or typing over.
DismissReport ==
  /\ Key /\ Quiet
  /\ report # NoReport /\ input = "none" /\ confirm = NoQuestion
  /\ report' = NoReport
  /\ UNCHANGED <<here, hits, choice, asked, queued, running, leaving>>

---------------------------------------------------------------------------
(* A question is answered (on_key_confirm). *)

Answer ==
  /\ Key /\ confirm # NoQuestion
  /\ confirm' = NoQuestion
  /\ report' = IF OwnsReport THEN NoReport ELSE report
  /\ UNCHANGED <<prefix, input, leaving, batch, job, dropped>>

AnswerNo ==
  /\ Answer /\ Quiet
  /\ UNCHANGED <<hits, choice, degraded, queued, queue>>

\* `y` to `T`, `U` and `u`: the run loop starts the work.
AnswerSweep ==
  /\ Answer /\ Quiet
  /\ \/ /\ confirm.ask = "reinstallAll"
        /\ pend' = [pend EXCEPT !["reinstallSweep"] = Request("rebuild", Len(confirm.plan))]
     \/ /\ confirm.ask = "updateAll"
        /\ pend' = [pend EXCEPT !["updateSweep"] = Request("updates", Len(confirm.plan))]
     \/ /\ confirm.ask = "update"
        /\ pend' = [pend EXCEPT !["build"] = Request("update", 1)]
  /\ UNCHANGED <<hits, choice, degraded, pendMigrate, queue>>

\* `y` to `x` (remove_confirmed): refused while anything runs, else now or, where it
\* needs a password, by the run loop.
AnswerRemove ==
  /\ Answer /\ confirm.ask = "remove"
  /\ \/ Busy /\ Quiet /\ UNCHANGED <<hits, choice, degraded, pend>>
     \/ ~Busy /\ Mutate /\ UNCHANGED pend
     \/ /\ ~Busy /\ Quiet
        /\ pend' = [pend EXCEPT !["inPlace"] = Request("remove", 1)]
        /\ UNCHANGED <<hits, choice, degraded>>
  /\ UNCHANGED <<pendMigrate, queue>>

\* `y` to `m`: the single slot is written, whatever it held.
AnswerMigrate ==
  /\ Answer /\ Quiet /\ confirm.ask = "migrate"
  /\ pendMigrate' = [crate |-> Head(confirm.plan), at |-> prefix]
  /\ queue' = IF queue = NoQueue THEN queue ELSE [queue EXCEPT !.crossed = TRUE]
  /\ UNCHANGED <<hits, choice, degraded, pend>>

\* `y` to `M`: a new queue, whatever there was.
AnswerMigrateAll ==
  /\ Answer /\ Quiet /\ confirm.ask = "migrateAll"
  /\ queue' = NewQueue(confirm.plan,
                       queue # NoQueue \/ pendMigrate # NoRequest \/ job # NoJob)
  /\ pendMigrate' = [crate |-> Head(confirm.plan), at |-> prefix]
  /\ UNCHANGED <<hits, choice, degraded, pend>>

---------------------------------------------------------------------------
(* A line is typed (on_key_input, submit_input). *)

Typing == Key /\ Quiet /\ confirm = NoQuestion /\ input # "none" /\ input' = "none"

\* Esc, or Enter on a line that does not parse.
LeaveInput ==
  /\ Typing
  /\ UNCHANGED <<here, panels, confirm, queued, running, leaving>>

SubmitInstall ==
  /\ Typing /\ input = "install"
  /\ \/ pend' = [pend EXCEPT !["build"] = Request("install", 1)]
     \/ \E k \in 2 .. Cardinality(Crates) : pend' = [pend EXCEPT !["installBatch"] = Request("install", k)]
  /\ UNCHANGED <<here, panels, confirm, pendMigrate, running, leaving>>

\* The search starts at once, over whatever is running (start_search).
SubmitSearch ==
  /\ Typing /\ input = "search"
  /\ hits' = Nowhere /\ choice' = Nowhere
  /\ Occupy(Job("search", NoCrate))
  /\ UNCHANGED <<here, report, confirm, queued, queue, batch, leaving>>

---------------------------------------------------------------------------
(* The list's keys (on_key_list).                                           *)

ListKey == Key /\ confirm = NoQuestion /\ input = "none"

\* The keys a degraded prefix refuses need a manifest that loads.
Sound == ListKey /\ ~degraded

\* `r` there is a plain retry of the load.
RetryLoad ==
  /\ ListKey /\ degraded /\ Quiet
  /\ \E r \in Reloads : Reload(r)
  /\ UNCHANGED <<prefix, report, asked, queued, running, leaving>>

\* `q`, and Esc with no panel to dismiss: never while a build runs.
Quit ==
  /\ ListKey /\ Quiet /\ ~Building
  /\ shouldQuit' = TRUE
  /\ UNCHANGED <<here, panels, asked, queued, running, quitAfterBuild>>

\* Esc drops the offer first, else the hits.
Escape ==
  /\ ListKey /\ Quiet /\ report = NoReport
  /\ choice # Nowhere \/ hits # Nowhere
  /\ choice' = Nowhere
  /\ hits' = IF choice # Nowhere THEN hits ELSE Nowhere
  /\ UNCHANGED <<here, report, asked, queued, running, leaving>>

\* `c`: the queue is told to stop before the member's own door is asked.
Cancel ==
  /\ ListKey /\ Quiet
  /\ degraded => job # NoJob /\ job.kind \in OneShots
  /\ queue' = IF queue = NoQueue THEN queue ELSE [queue EXCEPT !.stopping = TRUE]
  /\ job' = CancelJob
  /\ UNCHANGED <<here, panels, asked, queued, batch, dropped, leaving>>

\* `r`: the list is read afresh and, if anything is installed, asked about.
StartCheck ==
  /\ Sound /\ Quiet /\ job = NoJob
  /\ \E r \in Reloads :
       /\ Reload(r)
       /\ \/ r = "loaded" /\ Occupy(Job("check", NoCrate))
          \/ UNCHANGED <<job, dropped>>
  /\ UNCHANGED <<prefix, report, asked, queued, queue, batch, leaving>>

\* `v`, also where the manifest does not load; the hits stay on screen.
StartVerify ==
  /\ ListKey /\ Quiet /\ job = NoJob
  /\ report' = NoReport /\ choice' = Nowhere
  /\ Occupy(Job("verify", NoCrate))
  /\ UNCHANGED <<here, hits, asked, queued, queue, batch, leaving>>

\* `s` and `i`: only an empty job slot opens a line.
OpenInput ==
  /\ Sound /\ Quiet /\ job = NoJob
  /\ input' \in {"search", "install"}
  /\ UNCHANGED <<here, panels, confirm, queued, running, leaving>>

\* A digit with an offer up: the build is asked for, if nothing runs.
PickDowngrade ==
  /\ Sound /\ Quiet /\ choice # Nowhere /\ ~Busy
  /\ choice' = Nowhere
  /\ pend' = [pend EXCEPT !["build"] = [Request("downgradeTo", 1) EXCEPT !.at = choice]]
  /\ UNCHANGED <<here, hits, report, asked, pendMigrate, running, leaving>>

\* A digit with hits up opens the install line, whatever runs.
PickHit ==
  /\ Sound /\ Quiet /\ choice = Nowhere /\ hits # Nowhere
  /\ input' = "install"
  /\ UNCHANGED <<here, panels, confirm, queued, running, leaving>>

\* A lookup takes the slot, and the panel: `u`, `U`, `T`, `D`.
StartLookup(kind) ==
  /\ Sound /\ Quiet /\ ~Busy
  /\ hits' = Nowhere /\ choice' = Nowhere
  /\ Occupy(Job(kind, NoCrate))
  /\ UNCHANGED <<here, report, asked, queued, queue, batch, leaving>>

StartUpdate         == StartLookup("updatePlan")
StartUpdateSweep    == StartLookup("sweepCheck")
StartReinstallSweep == StartLookup("reinstallPlan")
StartDowngrade      == StartLookup("downgrade")

\* `t`: a rebuild needs no answer.
StartReinstall ==
  /\ Sound /\ Quiet /\ ~Busy
  /\ pend' = [pend EXCEPT !["build"] = Request("reinstall", 1)]
  /\ UNCHANGED <<here, panels, asked, pendMigrate, running, leaving>>

\* `p`: the flip happens now or, where it needs a password, by the run loop.
PinSelected ==
  /\ Sound /\ ~Busy
  /\ \/ Mutate /\ UNCHANGED pend
     \/ /\ Quiet
        /\ pend' = [pend EXCEPT !["inPlace"] = Request("pin", 1)]
        /\ UNCHANGED <<hits, choice, degraded>>
  /\ UNCHANGED <<prefix, report, asked, pendMigrate, running, leaving>>

RemoveSelected ==
  /\ Sound /\ Quiet
  /\ confirm' = Question("remove", prefix, <<>>)
  /\ UNCHANGED <<here, panels, input, queued, running, leaving>>

MigrateSelected ==
  /\ Sound /\ Quiet
  /\ \E c \in Crates : confirm' = Question("migrate", prefix, <<c>>)
  /\ UNCHANGED <<here, panels, input, queued, running, leaving>>

\* `M`: the plan is everything installed now, so the list is read first.
MigrateEverything ==
  /\ Sound /\ Quiet
  /\ \E r \in Reloads :
       /\ Reload(r)
       /\ \/ r = "loaded" /\ \E plan \in Plans : confirm' = Question("migrateAll", prefix, plan)
          \/ UNCHANGED confirm
  /\ UNCHANGED <<prefix, report, input, queued, running, leaving>>

\* `B`: a hard failure rolls back, and the hits with it; a degraded arrival stays.
Jump ==
  /\ ListKey /\ Quiet /\ ~Busy
  /\ \/ /\ \E r \in {"loaded", "degraded"} : Reload(r)
        /\ prefix' = Other /\ report' = NoReport
     \/ /\ \E r \in Reloads : Reread(r)
        /\ choice' = Nowhere /\ UNCHANGED <<prefix, report, hits>>
  /\ UNCHANGED <<asked, queued, running, leaving>>

---------------------------------------------------------------------------
(* Past the key: the queue's next member, or a look at the job.             *)

Past == pc = "tail" /\ Live

\* The queue ends with one summary; anything filed is pinned with it.
Finalize(q, ended, shown) ==
  /\ queue' = NoQueue
  /\ event' = [what |-> "migrated", q |-> q, ended |-> ended]
  /\ LET pinned == Pinned("result", prefix) IN
     IF \E s \in Sections \ {"moved"} : q.filed[s] # {}
       THEN report' = pinned
       ELSE report' \in {shown, pinned}

File(q, section, crate) == [q EXCEPT !.filed[section] = @ \cup {crate}]

\* Mutant: the member popped but never started is not put back.
PutBackNothing(q, crate) == q

PutBack(q, crate) == [q EXCEPT !.left = <<crate>> \o @]

\* Mutant: the queue's door does not ask whether it was told to stop.
MayStartAnyway == TRUE

MayStart == queue # NoQueue => ~queue.stopping

\* Told to stop in the gap: the member goes back and the queue ends
\* (next_migrate_to_start).
StopQueue ==
  /\ Past /\ ~shouldQuit /\ pendMigrate # NoRequest /\ ~MayStart
  /\ pendMigrate' = NoRequest /\ pc' = "top"
  /\ Finalize(PutBack(queue, pendMigrate.crate), "cancelled", report)
  /\ UNCHANGED <<here, hits, choice, asked, pend, job, batch, dropped, leaving>>

\* Mutant: a refused start is only shown, and the queue waits for a worker that
\* never existed.
RefuseMigrationQuietly(crate, shown) ==
  Quiet /\ report' = shown /\ UNCHANGED <<queue, job, dropped>>

\* A start is refused because the slot is taken or its preflight says no; a refused
\* member of a queue is filed and ends the queue.
RefuseMigration(crate, shown) ==
  /\ IF queue # NoQueue
       THEN Finalize(File(queue, "failed", crate), "aborted", shown)
       ELSE Quiet /\ report' = shown /\ UNCHANGED queue
  /\ UNCHANGED <<job, dropped>>

BeginMigration(crate) ==
  /\ Quiet /\ report' = NoReport
  /\ Occupy(Job("migrate", crate))
  /\ queue' = IF queue = NoQueue THEN queue ELSE [queue EXCEPT !.begun = @ \cup {crate}]

\* A migration is started or refused (start_migrate), past the key and never once
\* the program is to end.
StartMigrate ==
  /\ Past /\ ~shouldQuit /\ pendMigrate # NoRequest /\ MayStart
  /\ pendMigrate' = NoRequest /\ pc' = "top"
  /\ IF job # NoJob
       THEN RefuseMigration(pendMigrate.crate, report)
       ELSE \E pf \in Preflights :
              IF pf = "ready" THEN BeginMigration(pendMigrate.crate)
                              ELSE RefuseMigration(pendMigrate.crate, NoReport)
  /\ UNCHANGED <<here, hits, choice, asked, pend, batch, leaving>>

\* A look at the job; a quit already asked for starts nobody.
Poll == Past /\ (shouldQuit \/ pendMigrate = NoRequest)

\* Nothing there, or nothing sent.
CollectNothing ==
  /\ Poll /\ Quiet /\ pc' = "top"
  /\ UNCHANGED <<here, panels, asked, queued, running, leaving>>

\* The worker died: the loop returns the error.
CollectAborted ==
  /\ Poll /\ Quiet /\ job # NoJob /\ job' = NoJob /\ pc' = "out"
  /\ UNCHANGED <<here, panels, asked, queued, queue, batch, dropped, leaving>>

\* A one-shot's answer empties the slot.
Collected(kind) ==
  /\ Poll /\ Quiet /\ job # NoJob /\ job.kind = kind
  /\ job' = NoJob /\ pc' = "top"
  /\ UNCHANGED <<prefix, input, queued, queue, batch, dropped, leaving>>

\* An answer nobody wants any more, or an error, or one with nothing to show.
CollectUseless ==
  /\ \E kind \in OneShots : Collected(kind)
  /\ UNCHANGED <<degraded, panels, confirm>>

\* The check's report is applied to a list read afresh (finish_check).
CollectCheck ==
  /\ Collected("check") /\ ~job.cancel
  /\ \E r \in Reloads : Reread(r)
  /\ UNCHANGED <<panels, confirm>>

\* `U`: the fresh rows, less the pins, are the plan, shown and asked about.
CollectSweepCheck ==
  /\ Collected("sweepCheck") /\ ~job.cancel
  /\ \E r \in Reloads :
       /\ Reread(r)
       /\ \/ /\ r = "loaded"
             /\ report' = Pinned("plan", job.at)
             /\ \E plan \in Plans : confirm' = Question("updateAll", job.at, plan)
          \/ UNCHANGED <<report, confirm>>
  /\ UNCHANGED <<hits, choice>>

CollectReinstallPlan ==
  /\ Collected("reinstallPlan") /\ ~job.cancel
  /\ report' = Pinned("plan", job.at)
  /\ \E plan \in Plans : confirm' = Question("reinstallAll", job.at, plan)
  /\ UNCHANGED <<degraded, hits, choice>>

CollectUpdatePlan ==
  /\ Collected("updatePlan") /\ ~job.cancel
  /\ confirm' = Question("update", job.at, <<>>)
  /\ UNCHANGED <<degraded, panels>>

CollectDowngrade ==
  /\ Collected("downgrade") /\ ~job.cancel
  /\ choice' = job.at
  /\ UNCHANGED <<degraded, hits, report, confirm>>

\* Hits are marked from a list read afresh; one that does not load shows none.
CollectSearch ==
  /\ Collected("search") /\ ~job.cancel
  /\ \E r \in Reloads :
       /\ Reread(r) /\ choice' = Nowhere
       /\ hits' = IF r = "loaded" THEN prefix ELSE Nowhere
  /\ UNCHANGED <<report, confirm>>

\* Mutant: findings the person cancelled are pinned all the same.
CollectVerifyAnyway ==
  /\ Collected("verify")
  /\ report' = Pinned("result", job.at)
  /\ UNCHANGED <<degraded, hits, choice, confirm>>

CollectVerify ==
  /\ Collected("verify") /\ ~job.cancel
  /\ report' = Pinned("result", job.at)
  /\ UNCHANGED <<degraded, hits, choice, confirm>>

---------------------------------------------------------------------------
(* A build's messages: the drain goes on until its channel is empty.        *)

Draining == Poll /\ Building

\* A warning is shown as it arrives (show_live_warnings).
CollectWarning ==
  /\ Draining /\ Quiet /\ ~job.over
  /\ report' = Pinned("live", job.at)
  /\ UNCHANGED <<pc, here, hits, choice, asked, queued, running, leaving>>

AnotherMember == ~batch.current /\ batch.attempted < batch.total

\* The worker moves to its next member (begin_member).
BeginMember ==
  /\ Draining /\ Quiet /\ job.kind \in Batches /\ ~job.over /\ AnotherMember
  /\ batch' = [batch EXCEPT !.current = TRUE, !.attempted = @ + 1]
  /\ UNCHANGED <<pc, here, panels, asked, queued, job, queue, dropped, leaving>>

\* What can become of a member: only a sweep skips one that changed since its plan,
\* only a cancel that was asked for cancels one.
MemberOutcomes ==
  {"installed", "failed", "refused"}
    \cup (IF job.kind = "list" THEN {} ELSE {"skipped"})
    \cup (IF job.cancel THEN {"cancelled"} ELSE {})

\* It says what became of it (finish_member): a cancelled member is recorded nowhere
\* and ends the run.
FinishMember ==
  /\ Draining /\ Quiet /\ job.kind \in Batches /\ batch.current
  /\ LET done == [batch EXCEPT !.current = FALSE] IN
     \E o \in MemberOutcomes :
       IF o = "cancelled"
         THEN batch' = done /\ job' = [job EXCEPT !.over = TRUE]
         ELSE batch' = [done EXCEPT ![o] = @ + 1] /\ UNCHANGED job
  /\ UNCHANGED <<pc, here, panels, asked, queued, queue, dropped, leaving>>

\* How a build can end: a run over several crates fails as a whole only before its
\* first member, completes after its last, and is cancelled in between; "failed"
\* is the queue's own word for what is neither refused nor incomplete.
Outcomes ==
  IF job.kind \notin Batches
    THEN (IF job.cancel THEN {"cancelled"} ELSE {}) \cup {"moved", "failed"}
         \cup (IF job.kind = "migrate" THEN {"refused", "incomplete"} ELSE {})
    ELSE IF batch.current THEN {}
    ELSE (IF job.cancel /\ (job.over \/ batch.attempted < batch.total)
            THEN {"cancelled"} ELSE {})
         \cup (IF batch.attempted = 0 THEN {"failed"} ELSE {})
         \cup (IF batch.attempted = batch.total /\ ~job.over THEN {"moved"} ELSE {})

Advance(q) ==
  /\ pendMigrate' = [crate |-> Head(q.left), at |-> q.at]
  /\ queue' = [q EXCEPT !.left = Tail(@)]
  /\ report' = NoReport /\ Quiet

\* A member of the queue is done (finish_batch_step): filed, and the next one
\* asked for, unless the person stopped it or nobody is left.
FinishQueueStep(outcome) ==
  LET q == IF outcome = "cancelled" THEN queue ELSE File(queue, outcome, job.crate)
      early == outcome = "cancelled" \/ (q.stopping /\ q.left # <<>>)
  IN /\ \E r \in Reloads : Reload(r)
     /\ IF early \/ q.left = <<>>
          THEN Finalize(q, IF early THEN "cancelled" ELSE "completed", NoReport)
               /\ UNCHANGED pendMigrate
          ELSE Advance(q)

\* A run over several crates is over (finish_install_batch): one reload, one summary.
FinishInstallBatch(outcome) ==
  LET failedInFlight == outcome \in {"failed", "incomplete"} /\ batch.current
      b == [batch EXCEPT !.failed = IF failedInFlight THEN @ + 1 ELSE @]
      stopped == outcome # "moved"
  IN /\ batch' = NoBatch
     /\ \E r \in Reloads : Reload(r)
     /\ event' = [what |-> "batch", b |-> b, stopped |-> stopped,
                  left |-> b.total - b.attempted]
     /\ IF outcome = "failed" \/ b.failed + b.refused + b.skipped > 0
          THEN report' = Pinned("result", prefix)
          ELSE report' \in {NoReport, Pinned("result", prefix)}

\* One build is over: a cancel says so and reads nothing again.
FinishOne(outcome) ==
  /\ Quiet
  /\ IF outcome = "cancelled"
       THEN report' = NoReport /\ UNCHANGED <<hits, choice, degraded>>
       ELSE /\ \E r \in Reloads : Reload(r)
            /\ IF outcome = "moved"
                 THEN report' \in {NoReport, Pinned("result", prefix)}
                 ELSE report' = Pinned("result", prefix)

\* Mutant: a quit asked for under a list or a sweep is forgotten.
QuitDueSingle == shouldQuit \/ (quitAfterBuild /\ batch = NoBatch)

QuitDue == shouldQuit \/ quitAfterBuild

\* The last message: the slot is free, and a quit that waited for it comes.
FinishBuild ==
  /\ Draining
  /\ \E outcome \in Outcomes :
       IF queue # NoQueue /\ job.kind = "migrate"
         THEN FinishQueueStep(outcome) /\ UNCHANGED batch
         ELSE /\ UNCHANGED <<queue, pendMigrate>>
              /\ IF batch # NoBatch THEN FinishInstallBatch(outcome)
                 ELSE FinishOne(outcome) /\ UNCHANGED batch
  /\ job' = NoJob /\ pc' = "top"
  /\ shouldQuit' = QuitDue
  /\ UNCHANGED <<prefix, asked, pend, dropped, quitAfterBuild>>

\* The loop's condition fails and the program ends.
Leave ==
  /\ pc = "top" /\ shouldQuit /\ pc' = "out" /\ Quiet
  /\ UNCHANGED <<here, panels, asked, queued, running, leaving>>

---------------------------------------------------------------------------
TakeRequest ==
  RunInTerminal \/ RunInPlace \/ StartConfirmedUpdateSweep \/ StartConfirmedSweep
    \/ StartInstallBatch \/ StartBuild

Press ==
  \/ CtrlC \/ DismissReport
  \/ AnswerNo \/ AnswerSweep \/ AnswerRemove \/ AnswerMigrate \/ AnswerMigrateAll
  \/ LeaveInput \/ SubmitInstall \/ SubmitSearch
  \/ RetryLoad \/ Quit \/ Escape \/ Cancel \/ StartCheck \/ StartVerify \/ OpenInput
  \/ PickDowngrade \/ PickHit
  \/ StartUpdate \/ StartUpdateSweep \/ StartReinstallSweep \/ StartDowngrade
  \/ StartReinstall \/ PinSelected \/ RemoveSelected \/ MigrateSelected
  \/ MigrateEverything \/ Jump

StartMember == StopQueue \/ StartMigrate

CollectOneShot ==
  CollectUseless \/ CollectCheck \/ CollectSweepCheck \/ CollectReinstallPlan
    \/ CollectUpdatePlan \/ CollectDowngrade \/ CollectSearch \/ CollectVerify

CollectBuild == BeginMember \/ FinishMember \/ FinishBuild

Next ==
  TakeRequest \/ NoKey \/ Press \/ StartMember \/ CollectNothing \/ CollectAborted
    \/ CollectOneShot \/ CollectWarning \/ CollectBuild \/ Leave

Spec == Init /\ [][Next]_vars

\* The loop turns without keys, since its look at the keyboard times out; a worker
\* that is asked for an answer gives one in the end.
Fairness ==
  /\ WF_vars(TakeRequest) /\ WF_vars(NoKey) /\ WF_vars(StartMember)
  /\ WF_vars(CollectNothing) /\ WF_vars(Leave)
  /\ SF_vars(CollectOneShot) /\ SF_vars(CollectBuild)

FairSpec == Spec /\ Fairness

=============================================================================
