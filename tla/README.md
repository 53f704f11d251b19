# TLA+ models of the Polst customer-success platform

TLA+ modules, TLC configurations and TLAPS proofs for the ingest, the scoring,
the nightly jobs and the approval API of this repository. Everything is
translated from the Python source; `PROJECT.json` maps each definition to the
lines it stands for.

    tlc -workers 2 -config RenewalPlay.cfg RenewalPlay.tla
    tlapm RenewalPlayProofs.tla

- [The system](#the-system)
- [Modules](#modules)
- [Runs](#runs)
- [Fairness](#fairness)
- [Proofs](#proofs)
- [Divergences from the documents](#divergences-from-the-documents)
- [What is not modelled](#what-is-not-modelled)
- [Plan](#plan)

## The system

A Postgres schema is the only channel between the parts. Batch jobs, started
once a night by a scheduler (or by hand), each open one session, loop over
accounts or open plays, and commit once at the end; any exception rolls the
whole job back. The FastAPI service reads the same tables and writes only when a
reviewer decides an action. Postgres runs at READ COMMITTED; no code locks a row
before it decides on it, there is no version column, and neither open plays nor
open signals have a unique index (current account versions and external ids have
one). Pure functions (triggers, the orchestrator, agents, scoring) compute, and
`jobs/` modules bridge them to the database.

| Component | State | Operations | Correct when |
|---|---|---|---|
| Trigger evaluation and orchestrator (`signals/`) | `signals`, `play_runs` | visit each account, deduplicate candidates, open at most one play, one commit | one play per account; each play explained by a signal; decay first; what fires is recorded |
| Coverage elevations (`signals/coverage.py`) | `coverage_elevations` | six checks, open, then close expired or resolved rows | one active row per trigger; rows end; Critical tracks the band |
| Renewal agent (`agents/renewal/`) | `play_runs.exit_test_results`, `actions` | readiness, value review, growth proposal, objection check, debrief | stages in order, once, none skipped; judged after the term; closes |
| Onboarding agent (`agents/onboarding/`) | same | hand-off review, kickoff, value confirmation, exit test, stall | no customer draft after a refused hand-off; closes |
| Decay agent (`agents/decay/`) | same | diagnosis once, then the recovery verdict, in two commits | diagnosed once across crashes; judged only after its window |
| Expansion agent (`agents/expansion/`) | same | gate, champion case, pilot tracking, exit test, hand-over to onboarding | nothing drafted ungated; one onboarding behind it |
| Second creator (`agents/second_creator/`) | `actions` | scan single-creator departments, 30-day cooldown | each such department written to, never twice within the cooldown |
| Portfolio analyst (`agents/portfolio_analyst/`) | `reports` | weekly to quarterly reviews when due, for today or a past date | no day reviewed twice, gaps accounted for, nothing left stale |
| VoC router (`agents/voc_router/`) | `feedback_items` | tag once, deduplicate, rank | tags are final, frequencies count accounts |
| Approval queue (`api/routers/actions.py`) | `actions` | list, approve, reject with a mandatory category | decisions final and complete |
| Autonomy and guardrails (`agents/autonomy.py`, `agents/guardrails.py`) | matrix file | resolve a level, cap promotion, gate flagged drafts | auto is earned and never flagged |
| Health model (`metrics/`) | `health_scores` | dimensions, renormalised composite, overrides, band | no way around the caps; agrees with triggers and calibration |
| Calibration (`evals/`) | none | events, lead times, risk episodes over stored rows | episodes are maximal; a churn was visible before it is counted |
| Ingest and reconciliation (`ingest/`) | all fact tables | upsert, version accounts, compare billing | one chain of versions; CS's fields survive; the alarm has a cause; the source arrives |
| Read API, console, LLM providers, seed data, migrations, infrastructure | | reads, rendering, text, declarations | |

How they interact. Ingest and people change the facts; scoring derives a band a
night from them, which trigger evaluation, coverage, the reviews and the
calibration harness read; trigger evaluation turns facts into signals and opens
plays; each agent's job advances its open plays by at most one stage a night and
adds rows to `actions`; a reviewer decides those rows; the number of approvals
feeds back into the autonomy level of the next draft. A closed expansion play
opens an onboarding play, the only play opened outside trigger evaluation. The
open plays of an account block every new one.

What is hard. A session decides on what it read and publishes at its commit, and
nothing serialises sessions; one bad account aborts a whole night; signals are
never resolved; most plays keep no stage and derive it each night from flags and
a date that may have moved; time-boxed rows are re-opened by checks that look at
permanent facts; reviewers race each other and the jobs that count their
approvals; a load copies what CS decided from what it read; the score, the
triggers and the calibration compute the same ratios three times, each with its
own thresholds and guards; a review's cadence mixes the date it is for with the
clock. `PROJECT.json` lists these hazards by line.

## Modules

| Module | What it is |
|---|---|
| `Orchestrator` | `decide`, priorities and type mapping, as operators |
| `PlayLifecycle` | abstract specification: at most one play per account, opened on an idle account, closed by an agent or handed from expansion to onboarding |
| `TriggerEvaluation` | the evaluation sessions, the agents that close plays, the expansion hand-over |
| `TriggerEvaluationProofs` | its theorems, the refinement of `PlayLifecycle` among them |
| `Coverage` | the elevations of one account, day by day |
| `PlayRun` | abstract specification of one play_run row: opened once, closed once with an outcome, no action added before or after |
| `RenewalPlay`, `RenewalPlayProofs` | one renewal play from T-20 to its debrief, and its theorems |
| `DecayPlay`, `DecayPlayProofs` | the decay job over a batch of plays, its two commits, and its theorems |
| `OnboardingPlay`, `OnboardingPlayProofs` | one onboarding play from the hand-off review to its exit test, and its theorems |
| `ExpansionPlay`, `ExpansionPlayProofs` | one expansion play from the gate to the hand-over, and its theorems |
| `Autonomy` | the matrix, `resolve_autonomy`, the guardrail gate |
| `ApprovalQueue` | jobs staging actions, concurrent requests deciding them |
| `Usage` | windows, ratios, single-threading, pace (`metrics/derived.py`), as operators |
| `HealthModel` | dimensions, overrides, composite, cap and band, as operators |
| `Triggers` | the account-wide triggers, as operators over the same facts |
| `Calibration` | events, first amber date and risk episodes, as operators |
| `AccountHealth` | one account's days: campaigns, nightly scores, second-creator drafts |
| `AccountHealthProofs` | the theorems about one account: its days and its elevations (`Coverage`) |
| `Ingest`, `IngestProofs` | overlapping loads of one account, CS's edits, the reconciliation, and the theorems |
| `Reporting` | the cadenced reviews |
| `ReviewProofs` | the theorems about the approval queue and the reviews |
| `MCTriggerEvaluation`, `MCApprovalQueue`, `MCAccountHealth`, `MCIngest`, `MCReporting` | instances for TLC |

How they build on each other: `Triggers` EXTENDS `HealthModel` and
`Orchestrator`, `HealthModel` and `Calibration` EXTEND `Usage`, and
`AccountHealth` composes them; `TriggerEvaluation` EXTENDS `Orchestrator` and
implements `PlayLifecycle`; the four plays implement `PlayRun`; `ApprovalQueue`
EXTENDS `Autonomy`. Each proof module EXTENDS what it is about;
`AccountHealthProofs` and `ReviewProofs` take two specifications each, whose
names are disjoint (`CoverageSpec` and `Spec`, `QueueSpec` and `Spec`).

**TriggerEvaluation.** `firing[a]` is what the trigger functions would return
for account `a` now: usage, dates and stakeholders are one arbitrary change,
`FactsChange`. `StartRun`, `ProcessAccount` and `Commit` are the opening of the
session, one iteration of its loop and its only commit; until then everything is
in `stagedSignals` and `stagedPlay`. `AbortOnTier` is the `ValueError` of
`SignalSeverity("T4")`, `Crash` any other loss of the session (`MaxCrashes`
bounds it). Signals have no removing action because no code writes
`resolved_at`. `CloseByAgent` is any agent's job reaching an outcome;
`ExpansionReads` and `ExpansionCommits` split the expansion job at the point
where it has asked whether another play is open and not yet committed.

**Coverage.** Dates are counted relative to today, so the days go on for ever in
a finite model. `Job` is one account's part of a run: `Opened` against the rows
that were active, then closing from the list fetched before. An expiry compares
timestamps, so a row expiring today may or may not be closed by today's run
(`MayClose`). The facts in `Volatile` change at any time. Two rows with the same
trigger and the same days left are one element of `active`.

**RenewalPlay.** One action per branch of `run_renewal_agent`, guarded as its
if-chain is: the earliest stage that is due and not flagged. `queued` counts the
`Action` rows ever added per stage, an auxiliary variable the code does not
keep. `openOut` is the distance to `reference_date_at_open`, `daysOut` to the
current date; they part when `SetReference` fires. `rated` guards every branch,
as each resolves an autonomy level before it returns, which raises for a T4
account. A night the job does not run, or fails for another account, is a
`Midnight` without a `ProcessRun`; more than one `ProcessRun` in a day is a
rerun by hand.

**DecayPlay.** Unlike the other agents' jobs this one is modelled as a session,
because it commits twice and its two halves share plays: `StartJob` reads the
plays without an action row, `DiagnoseSeasonal` and `Diagnose` stage what the
loop decides on each, `CommitDiagnoses` publishes it and reads the plays to
judge, `Judge` and `CommitVerdicts` are the second half. `elapsed` is the job's
`as_of`: what had passed its window when the job began. A null `baseline` is the
missing `onset_date` both queries go by. `AbortOnTier` is `resolve_autonomy`
raising for a T4 account, `Crash` any other loss of the session. Which cause the
model names and how many campaigns there are is arbitrary.

**OnboardingPlay, ExpansionPlay.** One action per return of `run_*_agent`, in
the order of its if-chain, `rated` guarding those that resolve an autonomy
level. An accepted hand-off goes on to the kickoff, and a met gate to the
champion's case, in the same action, as the code falls through. `flags` are the
keys of `exit_test_results` that decide a branch, `recorded` the exit test as
last written there, `queued` an auxiliary count of `Action` rows. The account
changes at will between two runs; `deptAge` is the age of the department the
plan names now, so `SetTarget` is a department that starts or is renamed as well
as a plan that names another. Other sessions that open or close plays around the
expansion hand-over are in `TriggerEvaluation`; here `HandOver` may find a play
open or not.

**PlayRun.** Each of the four play modules implements it (`RecordSpec`), the
action count of the play being the sum of what it queued; `DecayPlay` does so
for each play of the batch.

**ApprovalQueue.** `StageAction` counts committed approvals, resolves and gates
the level as the agents do, and holds the row in the session until `CommitJob`
or `AbortJob`; one job's session is open at a time. `OpenRequest` is the read
and the 409 check, `Decide` the write at commit, `DropRequest` every failure in
between. `Handlers` is the number of requests in flight: one handler is the
serial API, two show the race.

**Usage, HealthModel, Triggers, Calibration.** The pure functions, translated
one to one. A ratio is kept as its two counts and compared by
cross-multiplication, so the arithmetic is exact where the code's is in floats;
the score under a cap is given by the marks it reaches (`Reaches`,
`DeriveBand`). The weights, scores, caps and ratio thresholds are the numbers of
`health_model_v1.yaml` and of the triggers; windows of days are constants.
`NoDate` is a missing date and `NoScore` a null dimension. The escalation
dimension is always null, since no job passes any.

**AccountHealth.** `ScorePortfolio` appends the row of the day, once;
`SeedSecondCreators` is one run of its job, any number of times a day;
`IngestCampaign` may come before or after either, so a night's row may not know
of a campaign of its day. `Midnight` after neither job is a missed night; one job without the other is not
modelled. At
most one campaign a day arrives, and the account's other facts are chosen once:
no scorer remembers an earlier value, so a change is the same as having had the
new value all along. `TonightsSignals` and `PlayToOpen` are what the evaluation
would then do on an account with nothing open.

**Ingest.** One account of an export. `ReadRow` is the select of an upsert and
`WriteRow` its UPDATE or INSERT: between the two anything may be committed.
`Holders` is the row lock a session keeps until its end, `Collides` the unique
indexes (`ux_accounts_current`, external ids), `Apply` what a commit makes
visible. `Rollback` is a refused write, a dangling reference (`ValueError`) or,
in `FailLoad`, any other loss. `SourceChanges` and `Classify` are outside the
code: the product, and the people who own tier and quadrant. Fields that move
together are one: `plan` for the product's fields, `tier` for CS's.
`CountCampaigns` and `CompareBilled` are the reconciliation's two selects.
`judged`, `mixed` and `crossed` are history variables for the properties.

**Reporting.** `StartRun` fixes the date of a run, today's or a past one,
`ReviewNext` is the job's block for its next report type, with the select of the
latest report then, `CommitRun` and `FailRun` end the session; `Midnight` may
come at any point of it. `generated` is the clock's date (`generated_at`),
`asOf` the run's. `began`, `commit`, `ran` and `rivals` are history variables.
`ReviewNext` stamps a draft in the step that finds it due; a midnight during the
model call is one between two blocks.

**One session per job.** Overlapping sessions of the same job are modelled for
the loads and the reviews; `TriggerEvaluation` admits them and is run with one
(see the divergences). The jobs of the four plays and the
second-creator job are one session each: `DecayPlay` splits it at its reads and
commits, the others take a run as one step. Two at once would read the same
rows before either commits and draft twice; nothing in the code prevents it and
nothing here claims otherwise. The schedule is nightly.

## Runs

| Run | Question | Result |
|---|---|---|
| `TriggerEvaluation` | Do plays stay exclusive and explained by a signal, does decay win, is every trigger that keeps firing recorded, and do commits implement `PlayLifecycle`, with crashes, an unrated account, closing agents and the hand-over interleaved? | holds |
| `Coverage` | One active row per trigger, Critical in step with the band, first-90-days and renewal elevations end (`ElevationsEnd`)? | holds |
| `RenewalPlay` | Stages in order, none skipped, not judged early, a dated run closes, `PlayRun` kept? | holds |
| `DecayPlay` | Diagnosed once, verdicts grounded, every play closed, `PlayRun` kept, through lost sessions and T4 accounts? | holds |
| `OnboardingPlay` | Nothing after a refusal, nobody given up on unasked, closed in the end? | holds |
| `ExpansionPlay` | Nothing past a refusing gate, hand-over earned, closed in the end? | holds |
| `ApprovalQueue_serial` | With one request at a time, are decisions final and is auto earned? | holds |
| `AccountHealth` | Is a churn of the harness critical and a decay play, and amber days before; is Healthy out of reach around the caps; do triggers and score agree; are episodes maximal; does seeding keep its pace? | holds |
| `Ingest` | With two loads that overlap, fail and repeat: do versions form a chain, do CS's decisions survive, does the billing alarm have a cause, does the source arrive? | holds |
| `Reporting` | Does a run begun after another's commit review none of its days again, is every gap between serial runs accounted for, is nothing due after a run, with fill-ins, overlaps, failures and midnights? | holds |
| `TriggerEvaluation_tier` | Is a firing trigger recorded if some account is T4? | violated |
| `ApprovalQueue_decided_twice` | Is a decision final with two requests in flight? | violated |

Bounds, and why they are enough:

- *Accounts.* The only coupling between accounts is the shared commit, so two
  show it: one that stages and one that aborts. Candidates are two or three per
  instance, with two subjects of one department-level type and a type of another
  play; the theorems remove both bounds.
- *Plays.* The decay job couples its plays by the shared commit and by the abort
  of one ending the work on all, so two are enough; the other jobs are modelled
  on one play, on which a failed batch is a night without a run. `Counts` of 0
  and 1 separate the zero baseline, a recovery and none.
- *Crashes.* One lost session reaches the rollback, at each point of the
  session; the liveness runs need it finite, since a job that crashes every
  night records nothing.
- *Days.* The windows shrink to zero or one day (`Coverage`), to stages on
  consecutive days (`RenewalPlay`) and to one to five days (the other plays), in
  the order the real ones have, with one extra day beyond where a check tells it
  apart. The code only compares dates with these thresholds, so what matters is
  before, at and after each; the theorems on the plays hold for every choice of
  the days. `Coverage` has one run a day: reruns change nothing but the time of
  day, which `MayClose` leaves open.
- *Classes of data.* `Coverage` keeps T1 for T1 and T2, T3 for T3 and T4, and
  `watch` for every band that is neither healthy nor critical. Renewal volumes
  are two numbers and NULL: enough for held, grown and shrunk.
- *AccountHealth.* A quarter is three days, the other windows shrink in the
  order of the real ones, and the run covers more than a quarter of days after
  starts that reach back two quarters and a (six-day) year: a new account, one
  long Healthy, one waking up after a silence, one signed again without a
  sponsor. So every window fills, empties and is compared with the one before.
  Three creators in two departments are the least with a single-threaded
  department beside another. `missed <= 2` lets lead time shrink to nothing.
- *Ingest.* Two loads show every race of two, the write after a stale read
  included; three loads add only more of them (the theorems are for any number).
  One campaign beside the account and the billed count makes an export whose
  half can be told; two plans and two tiers tell old from new. Two outside
  events reach a change that falls between two loads; the liveness property
  needs them finite.
- *Reporting.* Two cadences, of two and three days, three runs and five days:
  enough for three reviews in a row, a fill-in between two and a run across
  midnight beside another.
- *Queue.* Four rows, two types of different categories and a threshold of 2
  reach auto, approvals that are enough only if both types are counted, and a
  row staged while another is being decided; two rows and two requests reach every race on a row.

`ApprovalQueue`, `AccountHealth` and `Reporting` runs set `CHECK_DEADLOCK
FALSE`: with a bounded number of rows, all decided, or on the last day, nothing
is left to do. Every other run checks for deadlock.

Each property of a passing run has a mutant, a plausible bug written beside the
definition it replaces (`Resolve_OffByOne`, `Opened_NoDedup`, ...), under
which TLC finds the property violated.

## Fairness

- The evaluation job is scheduled nightly and a started run ends, so
  `WF(Evaluation(e))`; crashes are separate, unfair actions. Each play's job
  runs nightly too: `WF(Agents(a))`, without saying which play closes. Nothing
  is assumed of `FactsChange`.
- `Coverage` and the plays: days pass (`WF(DayPasses)` for
  `Coverage`, `WF(Midnight)` for the plays) and the job does not stay
  down for ever (`WF(Job)`, `WF(ProcessRun)`, `WF(JobStep)`). This does not
  force a run every day: several midnights may pass between two runs, which is
  the missed night. Customers, reviewers and dates have no fairness. Where
  closing depends on them, the property states the premise itself: the reference
  date or the contract start is eventually no longer moved later
  (`DatedRunCloses`, `OnboardingCloses`, `ElevationsEnd`), the
  expansion's target settles on one department or on none (`TargetSettles`), and
  the account, for the decay job every account of the batch, is eventually not
  T4 any more.
- Loads are scheduled for ever and each comes to its end: `WF(StartLoad(l))`,
  `WF(LoadStep(l))`. A failed load is an outside event without fairness,
  bounded, since a loader that is always lost loads nothing. `SourceArrives`
  states its own premise, that exports become intact for good.
- The approval queue has no liveness property: nobody has to review.

## Proofs

All statements are for every value of the constants that satisfies the named
assumptions: any set of accounts and candidates of known types, any number of
crashes (`CandidatesAssumption`, `MaxCrashesAssumption`); stage days in
descending order (`RenewalAssumption`); any set of decay plays, campaign counts
and lost sessions (`DecayAssumption`); any windows in the order of the code's
(`OnboardingAssumption`, `ExpansionAssumption`); any finite set of rows, any set
of requests, any threshold (`QueueAssumption`); any loads, campaigns, plans and
tiers (`IngestAssumption`); any runs, report types and positive cadences
(`ReportingAssumption`); any accounts, campaigns and horizon
(`AccountHealthAssumption`), and any windows and thresholds in the order of the
model file and the trigger config (`WindowsAssumption`, `ThresholdsAssumption`,
`TriggersAssumption`); any durations of elevations (`CoverageAssumption`). TLC
checked each invariant on the small instances
first. Not all that is proved is also run: most type invariants, `NoRepeatedSignal`,
`DraftedOnce`, `QueuedOnce`, `DecisionComplete` and `RecordSpec` of onboarding
and expansion are properties with a theorem and no run.

**TriggerEvaluation**, one evaluation session at a time (`SerialEvaluators`, the
schedule). `OneOpenPlay` is not inductive: a commit adds to rows other sessions
may have changed since the decision was made. `StagedStillValid` says what
remains true of a staged decision: its account has no open play, its signal
types are still not open, and the staged play belongs to a staged signal. It
survives because, while the session is open, agents only close plays, or hand
over on an account whose expansion play is open, and on such an account nothing
was staged. `HandoverHoldsRun` says that an expansion session that has read
still has its play to close. With these, `TypeCorrect`, `OneOpenPlayHolds`,
`PlayHasItsSignalHolds`, `NoRepeatedSignalHolds`; and `RefinesLifecycle` maps
each commit to `OpenPlays`, a closing to `Close`, a hand-over to `HandOver`, and
every other step to a stutter. `DecayWinsHolds` needs `StagedByRank`: a staged
play ranks first among the plays of the signals staged with it.

**RenewalPlay.** `StageOrder` is inductive with the lemma that a stage being due
makes every earlier stage due (the thresholds descend). `DraftedOnce` needs
`QueueMatchesFlags` (a stage has one row exactly if its flag is set),
`NothingSkipped` needs `ClosedIsComplete`, and `NotJudgedEarly` needs
`ExtendedIsLater`: an extended run's current date lies beyond the recorded one,
both counting down together, so the debrief's test on the first implies the
second.

**DecayPlay.** Neither `DiagnosedOnce` nor `VerdictIsGrounded` is inductive: a
commit publishes what was decided earlier. `SessionIsSound` says what a session
may hold: before the first commit, decisions about open plays without a row;
after it, verdicts on open, diagnosed plays in `elapsed`, each with its full
window (`ElapsedHadTheirWindow`). It survives because only this job adds rows to
these plays or closes them, and a lost session drops everything it held. With
`RowsMatchBaseline`, one row exactly for a diagnosed play, both follow, and
`DiagnosesOne` and `JudgesOne` say what a commit makes of one play, from which
each play implements `PlayRun`.

**OnboardingPlay, ExpansionPlay.** `RowsMatchFlags` ties every count of rows to
a flag or an outcome and `FlagsAreOrdered` the flags to each other and to the
refusals. `ClosedForAReason` is preserved because the confirmation stage comes
before the exit test and `ConfirmationDay <= StallDays`; the mutant that stops
asking at the stall day breaks it. For expansion `OnlyCompletedHandsOver` makes
`HandOverIsEarned` inductive.

**PlayRun.** In all four plays every action maps to `Open`, `Work`, `Close` or a
stutter (`NextRefines`, `StepRefines`), given the types; the theorems are the
four `RefinesPlayRun`.

**ApprovalQueue.** `DecisionCompleteHolds` is for any number of racing requests.
`AutoIsEarnedHolds` and `DecidedOnceHolds` assume `SerialHandlers`; their
invariant adds `RequestStillPending`, that the row a request read is still
pending, from which approvals are never taken back and the counts a draft was
promoted on only grow. That a job counted the right rows is
`AutoCountsItsCategory`: only the row of the budget cases counts another
category, and no tier of it is auto.

**AccountHealth.** What a day's properties say is arithmetic over finite sets
once the facts are typed. `HealthyIsEarned` splits on the dimensions that are
null: each silence, sponsor or pace the property excludes puts the capped
composite below the band's edge (`CapBounds`, `BandUnderCap`), and an account
without any campaign has only its value documents and its relationship, at most
half of the weight that counts (`EmptyIsNotHealthy`). `ChurnIsNeverMissed` follows from the order of the
thresholds, `CriticalSilence <= Quarter`, and from the decay play ranking first
(`DecayRanksFirst`); `TriggersAgreeWithScore` compares both sides' ratios as
products (`AgreementStep`).
`ChurnHasLeadTime` is not inductive: it speaks of rows written long ago. `HInv`
adds that the row of a day that was silent for `AtRiskSilence` days is amber
(`SilenceIsAmber`), which a campaign arriving later cannot undo because the
model's campaigns arrive on the day they have, that `missed` counts the nights
without a row (`MissedIsCounted`), and `DraftsApart`. The days between the two
silence caps less the missed ones then leave an amber row early enough
(`LeadTimeStep`). `SeedingKeepsPaceHolds` is the action property: what one run
of the job reaches (`SeedReachesAll`) and `DraftsApart`.
`EpisodesAreMaximalHolds` is for any stored history. The scan is a recursive
function; that it has the values its recursion says is proved from the existence
and agreement of its finite beginnings (`FollowersExist`, `FollowersAgree`,
`ScannedSteps`), and `ScanOK` is its invariant: the closed episodes lie before
the day reached and one behind the other, the open one behind them, and together
they hold exactly the flagged rows. The induction over days is by the least
counterexample (`LeastNat`, `EveryNat`), as are the extremes of finite sets
(`MaxOfInts`).

**Coverage.** `CoverageTypeOK /\ OneActivePerTrigger` is inductive: a run opens
a row only for a trigger without an active one, and a day's end only removes
rows or shortens them. `CriticalTracksBandHolds` follows from what one run makes
of the facts (`JobTracksBand`).

**Ingest.** `VersionsChain` is not inductive: what a commit appends was made
from a row read long before. `Extends` says that the version a session has
written and not committed follows the last committed one and differs from it; it
lasts until the commit because one session at a time holds the row
(`OneHolder`), so no other commit appends a version meanwhile and CS cannot
reach the row. `Copies` says that a row read and not yet copied is some
committed version, with the judgment of the day unless CS has crossed it;
whether it is still the last one is decided at the write, which the index
refuses otherwise (`OpenedExtends`). With `Judged`, the last version carries the
last judgment, both theorems follow. `AlarmMeansOverlapHolds` has an invariant
of its own, `AInv`: what a load that is alone has written is what its export
says (`Tells`), the stored count is that of the stored campaigns as long as no
two loads were mixed (`CountsAgree`), and so is the count a reconciliation has
taken (`CountIsCurrent`).

**Reporting.** `Due` says that a draft is due against every review committed
before its run began, `Fresh` that each type a run has passed has a review or a
draft within its cadence. A commit by another run may add a review no draft was
compared with, but not one committed before this run began; so `Due` survives it
and `PeriodsAreDisjoint` follows at the commit. `GapsAreExplainedHolds` is about
runs that do not overlap, and needs what only those have (`Serial`): no review
was committed since the open run began, its drafts and the committed reviews
follow each other without a gap, and every day with a run had a fresh review of
each type (`RanIsFresh`).

Model-checked only: all liveness (`FiringIsRecorded`, `ElevationsEnd`, that each
kind of play closes, `SourceArrives`), which the prover does not do. Every
invariant and every action property of the runs that pass has a theorem, and so
have the two refinements. The serial runs of the queue and the evaluation prove
what they check under the same assumption, `SerialHandlers` or the schedule.

## Divergences from the documents

Shown by a run (see `findings` in `PROJECT.json`): the T4 account that rolls
back every evaluation, the row decided twice.

Met while modelling, with no run of their own:

- *The debrief moves with the date* (`agents/renewal/agent.py:84`): `days_out`
  is taken to the account's current reference date, so a renewal recommitted
  before T+7 is debriefed after the next term and its play stays open till then,
  while `README.md:131` has T+7 always close the play. `DatedRunCloses`
  therefore asks for a date that stops moving.
- *Two requests that decide one row* leave the columns its status needs, the
  first decision's comment or rejection category beside them.
- *A suppressed signal* never opens its play. A trigger that fires while another
  play is open is stored, no play opens, and as no code sets `resolved_at` its
  type is never new again (`signals/orchestrator.py:45`). `BUILD-PROMPT.md:163`
  gives every renewal its play 20 days ahead.
- *A champion's departure* elevates for 30 days again after every expiry
  (`signals/coverage.py:49`): `departed_at` stays set.
  `core/models/coverage.py:22` says that accounts can never stay elevated
  forever by accident.
- *An extension at a lower volume* with no campaign since is recorded as `lost`
  (`agents/renewal/agent.py:236`); `README.md:333-336` asks for a term that was
  not extended.
- *A decay play diagnosed late* is judged the same night: the window counts from
  `opened_at` (`agents/jobs/run_decay_agent.py:151`), while the function's
  docstring speaks of a diagnosis 90 days old.
- *One T4 account* with an open play stops the whole decay job while it stays
  T4: the diagnoses of the night roll back and the verdicts are never reached.
  The premise of `EveryPlayCloses` is this; the other agents' batches fail
  likewise.
- *An onboarding handed over by an expansion* counts from the account's
  `contract_start` (`agents/onboarding/agent.py:105`). On an account older than
  120 days it is kicked off, asks once for a confirmation unless one is on file,
  and is closed as stalled on the next run unless its test is met.
- *A pilot whose department is renamed*, or whose plan names another target, is
  closed as never launched, its live message notwithstanding
  (`agents/expansion/agent.py:171`); a target that already existed for 270 days
  is closed as "did not stick" the night after the champion was asked, against
  the "real chance" of `agents/expansion/agent.py:34-36`.
- *Two overlapping evaluations* open two plays on one account, against
  `README.md:241-243`: the check at `signals/jobs/evaluate_triggers.py:119` is a
  plain read. `OneOpenPlay` therefore holds for one session at a time, and
  setting `Evaluators = {e1, e2}` shows the violation.
- *Two overlapping runs of the analyst* both find a review due
  (`agents/jobs/run_portfolio_analyst.py:41` is a plain read) and report the
  same days twice, though the job "only generates a report once its own cadence
  has elapsed" (`README.md:151-152`). `PeriodsAreDisjoint` is about a run that
  begins after the other's commit.
- *Two overlapping runs of the second-creator job* both find a department
  outside its cooldown (`agents/jobs/run_second_creator_agent.py:45`) and draft
  twice. `SeedingKeepsPace` is about runs that follow each other.
- *A second dark department* is dropped as a duplicate of the first one's type
  (`signals/orchestrator.py:45`), against `signals/triggers.py:80-81`, "still a
  decay event per department".
- *The first 90 days* of elevation count from the night the check first fires,
  so a row opened on day 90 lasts to day 180 (`signals/coverage.py:35`).
- *An account that was never active* goes critical by silence
  (`metrics/overrides.py`) without a decay signal: `trigger_zero_campaigns_30d`
  needs a last campaign (`signals/triggers.py:62`). `ChurnIsNeverMissed` is
  about accounts with volume a quarter ago.
- *The pace trigger* fires for any account with a committed volume, the
  utilisation cap only for `commercial_model` committed; they agree on the
  latter in terms long enough (`TriggersAgreeWithScore`).
- *Silence alone never flags a churn a quarter ahead* on the day the harness
  first sees it, which it counts as a surprise (`evals/calibration.py:115`): the
  caps come 45 and 90 days after the last campaign, the event 90 days after.
  What holds is the 45 days between them, less the missed nights
  (`ChurnHasLeadTime`).
- *A false alarm* is an episode that "recovered with no intervention"
  (`evals/calibration.py:15-16`), but only a play opened within the episode
  counts as one (`agents/jobs/run_portfolio_analyst.py:82`); a play that was
  open before and blocked any new one does not.
- *A monthly review's days* can fall between two periods: the next one starts
  its cadence before its own date, so a night missed or a run past midnight
  leaves days no review covers (`GapsAreExplained` counts them). A fill-in for a
  past date finds nothing due once a later review exists, since the cadence is
  counted from the clock of that one (`agents/portfolio_analyst/agent.py:61`).
- *A withdrawn campaign* keeps counting: the loader updates and adds, it never
  deletes (`ingest/loader.py:236`). `Mirrors` asks only for what the export has.
- *An older export committed late* overwrites a newer one until the next load:
  nothing compares the exports' ages. `SourceArrives` asks for the end only.
- *A judgment between a load's read and write* of the account is copied over
  (`ingest/loader.py:98`); `JudgmentSurvives` excludes this window and nothing
  else.
- *human_writes* is "no agent drafting" in `agents/config/autonomy_matrix.yaml`,
  but the renewal agent drafts before it resolves the level
  (`agents/renewal/agent.py:134`), so such a row carries an agent's text.

## What is not modelled

- Wording: what a model writes, prompts, rendering, prose and figures of
  reviews. A draft is flagged or not.
- The Voice-of-customer router: its only state is the tag, written once per item
  in one session; its report is a ranking.
- The two per-department decay triggers (no creator left, a sole creator
  inactive for 14 days): they read users, and are arbitrary candidates in
  `TriggerEvaluation`.
- Floats: the model's arithmetic is exact, so a composite that is a band's edge
  exactly and is computed just below it is not seen.
- Sentiment and escalation, which no job feeds.
- The rates and the median of the calibration report.
- The readiness diagnosis and the feedback item it may log, one draft's data.
- Departments, users and `first_campaign_at` in the loader: upserted as the
  campaigns are.
- The batch of the second-creator job, which a T4 account ends as it does the
  decay job's.
- `sla.py`: due dates for display. `effective_tier`: no caller outside tests.
- LLM providers, read endpoints, console, seed data, migrations, infrastructure:
  calls, reads, rendering, one-off scripts and declarations.

## Plan

Done: the modules above. Next, in order of what matters most:

1. Proofs about operators no theorem names alone: `DeriveBand` and the composite
   between the edges of the bands, the agreement of `Triggers` and `HealthModel` per window.
2. `CsPlatform`: the play modules composed under `PlayLifecycle`, so that the
   plays that wait and the signals they suppress are seen together, with one
   batch of several plays per job.
3. The per-department triggers over users, with a dark department beside a live
   one.

A new module gets one passing run; runs that show one divergence give way to it
when the list grows long, and move to the section above.
