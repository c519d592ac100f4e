------------------------------- MODULE Versions -------------------------------
(***************************************************************************)
(* Which release of a crate an operation takes: what the index says is     *)
(* eligible, what the plan shows, and what cargo then builds.  One crate   *)
(* in one prefix; its releases are numbered in SemVer order.  A plan is    *)
(* made without a lock and confirmed later, while the registry and other   *)
(* commands go on; everything else happens in one step, under the          *)
(* exclusive lock.  A rebuild keeps the version and is left out.           *)
(***************************************************************************)
EXTENDS Naturals

CONSTANTS
  MaxVersion,  \* bound: releases are numbered 1..MaxVersion
  Pre,         \* the pre-releases among them
  NoPlan

Versions == 1 .. MaxVersion

\* What a question on screen shows: from which version to which.
Plans == [verb : {"update", "downgrade"}, current : Versions, shown : Versions]

VARIABLES
  published, yanked,  \* the releases in the index, and the yanked among them
  installed, pinned,  \* the manifest's entry; version 0 when there is none
  plan,               \* the plan waiting for an answer
  built               \* the release the last step built and committed, or 0

registry == <<published, yanked>>
entry    == <<installed, pinned>>
vars     == <<registry, entry, plan, built>>

-----------------------------------------------------------------------------
(* What is eligible.                                                       *)

\* non_yanked: what can still be installed.
Live == published \ yanked

\* Pre-releases count only for someone on a pre-release.
Relevant(current) == {v \in Live : current \in Pre \/ v \notin Pre}

Newest(S) == CHOOSE v \in S : \A w \in S : w <= v

\* An update is offered when the newest relevant release is newer.
Offered(current) ==
  Relevant(current) # {} /\ Newest(Relevant(current)) > current

\* What a downgrade may pick.
Older(current) == {v \in Relevant(current) : v < current}

\* cargo, asked for no version, takes the newest release that is neither yanked
\* nor a pre-release.
Stable == Live \ Pre

\* A bare install that would rebuild what is there: the newest relevant release is
\* installed.
Diagonal == Relevant(installed) # {} /\ Newest(Relevant(installed)) = installed

-----------------------------------------------------------------------------
Init ==
  /\ published \in SUBSET Versions /\ yanked \in SUBSET published
  /\ installed = 0 /\ pinned = FALSE
  /\ plan = NoPlan /\ built = 0

Publish ==
  /\ \E v \in Versions \ published : published' = published \cup {v}
  /\ built' = 0
  /\ UNCHANGED <<yanked, entry, plan>>

Yank ==
  /\ \E v \in Live : yanked' = yanked \cup {v}
  /\ built' = 0
  /\ UNCHANGED <<published, entry, plan>>

\* A build is committed at the version cargo built; with an exact version asked
\* for it pins, otherwise the pin bit is carried over (PinPolicy::Infer).
CommitNewest ==
  /\ Stable # {}
  /\ built' = Newest(Stable) /\ installed' = built'
  /\ UNCHANGED <<registry, pinned>>

CommitExact(v) ==
  /\ v \in Live
  /\ built' = v /\ installed' = v /\ pinned' = TRUE
  /\ UNCHANGED registry

\* `install NAME`: refused when pinned or when it would change nothing, unless
\* `--locked` flips.
InstallNewest ==
  /\ ~pinned
  /\ \E flip \in BOOLEAN : installed = 0 \/ flip \/ (Live # {} /\ ~Diagonal)
  /\ CommitNewest
  /\ UNCHANGED plan

\* `install NAME@VERSION`.
InstallExact ==
  /\ ~pinned
  /\ \E v \in Versions, flip \in BOOLEAN :
       (installed = 0 \/ flip \/ v # installed) /\ CommitExact(v)
  /\ UNCHANGED plan

\* `pin` and `unpin`.
SetPinned ==
  /\ installed # 0
  /\ pinned' = ~pinned /\ built' = 0
  /\ UNCHANGED <<registry, installed, plan>>

Remove ==
  /\ installed # 0
  /\ installed' = 0 /\ pinned' = FALSE /\ built' = 0
  /\ UNCHANGED <<registry, plan>>

\* The plan of an update: looked up, shown, and left for an answer.
PlanUpdate ==
  /\ plan = NoPlan /\ installed # 0 /\ ~pinned /\ Offered(installed)
  /\ plan' = [verb |-> "update", current |-> installed,
              shown |-> Newest(Relevant(installed))]
  /\ built' = 0
  /\ UNCHANGED <<registry, entry>>

\* The offer of a downgrade, and the choice from it.
PlanDowngrade ==
  /\ plan = NoPlan /\ installed # 0 /\ ~pinned
  /\ \E v \in Older(installed) :
       plan' = [verb |-> "downgrade", current |-> installed, shown |-> v]
  /\ built' = 0
  /\ UNCHANGED <<registry, entry>>

\* Under the exclusive lock: the entry is still what the plan was made from.
StillPlanned == installed = plan.current /\ ~pinned

\* The confirmed update: cargo is asked for no version.
ApplyUpdate ==
  /\ plan # NoPlan /\ plan.verb = "update" /\ StillPlanned
  /\ CommitNewest
  /\ plan' = NoPlan

\* The chosen downgrade: cargo is asked for that version, which pins.
ApplyDowngrade ==
  /\ plan # NoPlan /\ plan.verb = "downgrade" /\ StillPlanned
  /\ CommitExact(plan.shown)
  /\ plan' = NoPlan

\* No, or stale, or the build fails.
Abandon ==
  /\ plan # NoPlan
  /\ plan' = NoPlan /\ built' = 0
  /\ UNCHANGED <<registry, entry>>

Next ==
  \/ Publish \/ Yank
  \/ InstallNewest \/ InstallExact \/ SetPinned \/ Remove
  \/ PlanUpdate \/ PlanDowngrade \/ ApplyUpdate \/ ApplyDowngrade \/ Abandon

Spec == Init /\ [][Next]_vars

-----------------------------------------------------------------------------
(* Properties.                                                             *)

TypeOK ==
  /\ published \subseteq Versions /\ yanked \subseteq published
  /\ installed \in 0 .. MaxVersion /\ pinned \in BOOLEAN
  /\ plan \in Plans \cup {NoPlan} /\ built \in 0 .. MaxVersion

\* What a plan rests on: it goes the way its verb says and shows a published
\* release that its crate's kind of version allows.
PlanInv ==
  plan # NoPlan =>
    /\ plan.shown \in published
    /\ plan.shown \in Pre => plan.current \in Pre
    /\ plan.verb = "update" => plan.shown > plan.current
    /\ plan.verb = "downgrade" => plan.shown < plan.current

\* The step carries out the plan.
CarriesOut(verb) ==
  plan # NoPlan /\ plan.verb = verb /\ plan' = NoPlan /\ built' # 0

\* A confirmed update lands on the release its plan showed or a newer one, unless
\* that release was yanked while the question was open (README, "Update rules":
\* "An installed pre-release may move to a newer pre-release"; apply_updates: "The
\* build may land newer than `latest`").
UpdateLands ==
  [][CarriesOut("update") => built' >= plan.shown \/ plan.shown \in yanked]_vars

\* From a stable version that is so: an update never lowers it and never lands on
\* a pre-release, whatever was published or done meanwhile (latest_relevant).
StableUpdateLands ==
  [][CarriesOut("update") /\ plan.current \notin Pre =>
       /\ built' \notin Pre
       /\ built' >= plan.shown \/ plan.shown \in yanked]_vars

\* A confirmed downgrade lands on the very release that was chosen, below the one
\* that is still installed, and is kept there by a pin (cmd_downgrade).
DowngradeLands ==
  [][CarriesOut("downgrade") =>
       built' = plan.shown /\ built' < installed /\ pinned']_vars

=============================================================================
