------------------------------ MODULE AppProps ------------------------------
(***************************************************************************)
(* The properties of the interface's event loop.                           *)
(***************************************************************************)
EXTENDS App

LoopTypes ==
  /\ pc \in {"top", "tail", "out"} /\ prefix \in Pair
  /\ degraded \in BOOLEAN /\ quitAfterBuild \in BOOLEAN /\ shouldQuit \in BOOLEAN

ScreenTypes ==
  /\ confirm = NoQuestion \/ confirm \in Questions
  /\ confirm # NoQuestion /\ confirm.ask \in {"migrate", "migrateAll"}
       => confirm.plan # <<>>
  /\ input \in {"none", "install", "search"}
  /\ hits \in Pair \cup {Nowhere} /\ choice \in Pair \cup {Nowhere}
  /\ report = NoReport \/ report \in Pins

RequestTypes ==
  /\ pend \in [ToSet(Slots) -> Requests \cup {NoRequest}]
  /\ \A s \in ToSet(Slots) : pend[s] # NoRequest => pend[s].what \in WorkOf[s]
  /\ pendMigrate = NoRequest \/ pendMigrate \in Migrations

RunTypes ==
  /\ job = NoJob \/ job \in Jobs
  /\ job # NoJob /\ job.kind = "migrate" => job.crate \in Crates
  /\ queue = NoQueue \/ queue \in Queues
  /\ batch = NoBatch \/ (batch \in Ledgers /\ batch.attempted <= batch.total)
  /\ dropped \in {"no"} \cup OneShots \cup Builds

TypeOK == LoopTypes /\ ScreenTypes /\ RequestTypes /\ RunTypes

\* What the last step did that has to be accounted for.
Did(what) == event # NoEvent /\ event.what = what

---------------------------------------------------------------------------
(* What is on screen and what runs. *)

\* Everything transient is anchored to the prefix it was asked at: the jump never
\* happens under a job, a question, a queued request or an offer of the other prefix
\* (jump_to_prefix, anything_running).
AllHere ==
  /\ job # NoJob => job.at = prefix
  /\ confirm # NoQuestion => confirm.at = prefix
  /\ queue # NoQueue => queue.at = prefix
  /\ pendMigrate # NoRequest => pendMigrate.at = prefix
  /\ \A s \in ToSet(Slots) : pend[s] # NoRequest => pend[s].at = prefix
  /\ {hits, choice} \subseteq {prefix, Nowhere}
  /\ report # NoReport => report.at = prefix

\* A sweep is never confirmed unread: while its question is open, the plan pinned
\* with it is the report on screen (owns_report, finish_update_sweep_check,
\* finish_reinstall_plan).
PlanShown ==
  OwnsReport => report = Pinned("plan", confirm.at)

\* A question or a panel that a worker's answer puts up was wanted: the lookup was
\* not cancelled in the meantime; and a question on screen goes away only by a key
\* or when such an answer brings the next one (poll_job, the last cancel boundary).
AnswersWanted ==
  [][/\ job # NoJob /\ job.kind \in OneShots /\ job.cancel /\ job' = NoJob
        => UNCHANGED <<confirm, panels, degraded>>
     /\ pc = "tail" /\ confirm # NoQuestion /\ confirm' # confirm
        => /\ job # NoJob /\ ~job.cancel
           /\ job.kind \in {"sweepCheck", "reinstallPlan", "updatePlan"}]_vars

\* A removal or a pin, and a command that takes the terminal, never runs beside a
\* build or between the members of a run; only an install somebody typed may take
\* the terminal then (remove_confirmed: a removal could win the lock and be silently
\* undone by the worker's placement).  Nor does anything but a typed line ever put a
\* job over one still running.
MutationAlone ==
  /\ dropped \in {"no", "install", "list", "search"}
  /\ Did("inPlace") \/ (Did("terminal") /\ event.work \notin {"install", "list"})
    => job = NoJob /\ queue = NoQueue /\ batch = NoBatch /\ pendMigrate = NoRequest

\* The job slot is single-flight: no start lets go of a worker still running.
SingleFlight == Live

---------------------------------------------------------------------------
(* Runs over several crates. *)

\* A run in progress always has somebody who will continue it: a queue its next
\* member asked for or building, a ledger its worker.
RunHeld ==
  Live /\ pc # "out" =>
    /\ queue # NoQueue => pendMigrate # NoRequest \/ (job # NoJob /\ job.kind = "migrate")
    /\ batch # NoBatch <=> job # NoJob /\ job.kind \in Batches

\* Every member of a confirmed run is in exactly one place of its summary: moved,
\* refused, incomplete, failed or not attempted, and not attempted is true of it;
\* only a member cancelled while it was building is in none.  Unless another
\* migration was confirmed over the queue, whose members then mix.
SummaryTrue ==
  /\ Did("migrated") /\ ~event.q.crossed =>
       LET q == event.q
           filed == UNION {q.filed[s] : s \in Sections}
           missing == ToSet(q.plan) \ (filed \cup ToSet(q.left))
       IN /\ filed \cup ToSet(q.left) \subseteq ToSet(q.plan)
          /\ \A s, t \in Sections : s # t => q.filed[s] \cap q.filed[t] = {}
          /\ ToSet(q.left) \cap (filed \cup q.begun) = {}
          /\ missing \subseteq q.begun
          /\ missing # {} => event.ended = "cancelled" /\ Cardinality(missing) = 1
          /\ q.left # <<>> => event.ended # "completed"
  /\ Did("batch") =>
       LET b == event.b
           told == b.installed + b.failed + b.refused + b.skipped + event.left
       IN /\ told = b.total \/ (event.stopped /\ told + 1 = b.total)
          /\ ~event.stopped => event.left = 0

\* A queue told to stop starts nobody else, whatever its member answers and
\* whatever is asked meanwhile (next_migrate_to_start, finish_batch_step).
StopHeeded ==
  [][queue # NoQueue /\ queue.stopping /\ job = NoJob /\ job' # NoJob
     => job'.kind # "migrate"]_vars

---------------------------------------------------------------------------
(* Leaving. *)

\* A quit waits for the build and is not forgotten: the interface never leaves a
\* build behind, and once the build has stopped a quit asked for meanwhile comes.
QuitWaits ==
  /\ [](pc = "out" => ~Building)
  /\ quitAfterBuild ~> pc = "out" \/ ~Live

\* A queue ends, with its summary or with the program, unless a second one is
\* confirmed over it.
QueueEnds ==
  queue # NoQueue /\ ~queue.crossed
    ~> queue = NoQueue \/ queue.crossed \/ pc = "out" \/ ~Live

=============================================================================
