---------------------------- MODULE RenewalPlay ----------------------------
(***************************************************************************)
(* One renewal play from T-20 to its debrief: agents/renewal/agent.py, run *)
(* once a night by agents/jobs/run_renewal_agent.py, against an account    *)
(* whose dates, committed volume and usage move on their own.  The stage   *)
(* is nowhere stored; each run derives it from the flags in                *)
(* exit_test_results and the account's CURRENT reference date, which is    *)
(* not the date the play was opened for once somebody moves it.            *)
(*                                                                         *)
(* Dates are relative: `daysOut' days to the reference date, `openOut'     *)
(* days to the one recorded at open.  Both stop at -DebriefLag, below      *)
(* which the code tells no two days apart.                                 *)
(***************************************************************************)
EXTENDS Integers

CONSTANTS
    WindowDays,                                   \* trigger_renewal_window, 20
    ValueReviewDay, GrowthProposalDay, ObjectionsDay,  \* 15, 10, 5
    DebriefLag,                                   \* -DEBRIEF_DAY, 7
    MaxOut,                                       \* bound: farthest new date
    Volumes                                       \* committed volumes

ASSUME RenewalAssumption ==
    /\ WindowDays \in Nat /\ ValueReviewDay \in Nat /\ DebriefLag \in Nat
    /\ GrowthProposalDay \in Nat /\ ObjectionsDay \in Nat
    /\ ObjectionsDay <= GrowthProposalDay
    /\ GrowthProposalDay <= ValueReviewDay
    /\ MaxOut \in Nat /\ WindowDays <= MaxOut
    /\ Volumes \subseteq Nat \ {0}

VARIABLES
    dated,         \* the account has a commitment_end or a next_review_date
    daysOut,       \* days to it (meaningless while ~dated)
    volume,        \* committed_volume, NoVolume for NULL
    usedSince,     \* a billable campaign ran after the date at open
    rated,         \* the account's tier has a column in the matrix
    status,        \* of the play_run
    outcome,
    drafted,       \* the stage flags set in exit_test_results
    openOut,       \* days to reference_date_at_open, once recorded
    extended,      \* the reference date is (at close: was) later than at open
    volumeAtOpen,  \* committed_volume_at_open
    queued         \* queued[s]: Action rows of stage s ever added

accountVars == <<dated, daysOut, volume, usedSince, rated>>
runVars == <<status, outcome, drafted, openOut, extended, volumeAtOpen, queued>>
vars == <<accountVars, runVars>>

NoVolume == 0
NoOutcome == "none"
Outcomes == {"recommitment_secured", "lost", "undetermined"}

\* The stages that only add a draft, in the order the code tries them.
Stages == {"readiness", "value_review", "growth_proposal", "objections"}
Rank == [readiness |-> 1, value_review |-> 2, growth_proposal |-> 3, objections |-> 4]

Init ==
    /\ dated \in BOOLEAN
    /\ daysOut \in 0..MaxOut
    /\ volume \in Volumes \cup {NoVolume}
    /\ usedSince = FALSE
    /\ rated = TRUE
    /\ status = "none"
    /\ outcome = NoOutcome
    /\ drafted = {}
    /\ openOut = MaxOut
    /\ extended = FALSE
    /\ volumeAtOpen = NoVolume
    /\ queued = [s \in Stages \cup {"debrief"} |-> 0]

-----------------------------------------------------------------------------
(* The nightly evaluation opens the play (see TriggerEvaluation). *)

OpenRun ==
    /\ status = "none"
    /\ dated
    /\ daysOut \in 0..WindowDays
    /\ status' = "open"
    /\ UNCHANGED <<accountVars, outcome, drafted, openOut, extended,
                   volumeAtOpen, queued>>

-----------------------------------------------------------------------------
(* One invocation of run_renewal_agent on the open play *)

\* Mutant: a run that starts late skips what is no longer on time.
Due_OnTime(stage) ==
    CASE stage = "readiness"       -> TRUE
      [] stage = "value_review"    -> daysOut \in GrowthProposalDay..ValueReviewDay
      [] stage = "growth_proposal" -> daysOut \in ObjectionsDay..GrowthProposalDay
      [] stage = "objections"      -> daysOut <= ObjectionsDay

Due(stage) ==
    CASE stage = "readiness"       -> TRUE
      [] stage = "value_review"    -> daysOut <= ValueReviewDay
      [] stage = "growth_proposal" -> daysOut <= GrowthProposalDay
      [] stage = "objections"      -> daysOut <= ObjectionsDay

\* Mutant: the job fetches closed plays as well.
CanProcess_AnyStatus == status # "none" /\ dated /\ rated

\* process_play_run returns early when the date has been cleared; whatever
\* queues a draft resolves an autonomy level, which raises for a T4 account.
CanProcess == status = "open" /\ dated /\ rated

DueStages == {stage \in Stages : Due(stage) /\ stage \notin drafted}

\* Mutants: any due stage, not the earliest; no stage after the date.
IsNext_Any(stage) == stage \in DueStages
IsNext_BeforeTheDate(stage) ==
    /\ stage \in DueStages
    /\ daysOut > 0
    /\ \A other \in DueStages : Rank[stage] <= Rank[other]

\* At most one stage per invocation: the first in the if-chain.
IsNext(stage) ==
    /\ stage \in DueStages
    /\ \A other \in DueStages : Rank[stage] <= Rank[other]

CheckReadiness ==
    /\ CanProcess
    /\ IsNext("readiness")
    /\ drafted' = drafted \cup {"readiness"}
    /\ openOut' = daysOut
    /\ extended' = FALSE
    /\ usedSince' = FALSE
    /\ volumeAtOpen' = volume
    /\ queued' = [queued EXCEPT !["readiness"] = @ + 1]
    /\ UNCHANGED <<dated, daysOut, volume, rated, status, outcome>>

\* Value review, growth proposal and objection check: one draft, one flag.
DraftStage(stage) ==
    /\ CanProcess
    /\ stage # "readiness"
    /\ IsNext(stage)
    /\ drafted' = drafted \cup {stage}
    /\ queued' = [queued EXCEPT ![stage] = @ + 1]
    /\ UNCHANGED <<accountVars, status, outcome, openOut, extended, volumeAtOpen>>

\* volume_held_or_grew
VolumeHeld ==
    \/ volumeAtOpen = NoVolume
    \/ volume = NoVolume
    \/ volume >= volumeAtOpen

Classification ==
    CASE extended /\ VolumeHeld                   -> "recommitment_secured"
      [] ~(extended /\ VolumeHeld) /\ ~usedSince  -> "lost"
      [] ~(extended /\ VolumeHeld) /\ usedSince   -> "undetermined"

\* Mutant: the debrief comes on the reference date itself.
DebriefDue_OnTheDay == daysOut <= 0

DebriefDue == daysOut <= -DebriefLag

Debrief ==
    /\ CanProcess
    /\ DueStages = {}
    /\ DebriefDue
    /\ outcome' = Classification
    /\ status' = "closed"
    /\ queued' = [queued EXCEPT !["debrief"] = @ + 1]
    /\ UNCHANGED <<accountVars, drafted, openOut, extended, volumeAtOpen>>

ProcessRun ==
    \/ CheckReadiness
    \/ \E stage \in Stages : DraftStage(stage)
    \/ Debrief

-----------------------------------------------------------------------------
(* Time and the customer *)

CountDown(n) == IF n > -DebriefLag THEN n - 1 ELSE n

Midnight ==
    /\ daysOut' = CountDown(daysOut)
    /\ openOut' = IF "readiness" \in drafted THEN CountDown(openOut) ELSE openOut
    /\ UNCHANGED <<dated, volume, usedSince, rated, status, outcome, drafted, extended,
                   volumeAtOpen, queued>>

\* A new account version with another commitment_end or next_review_date.
SetReference ==
    /\ dated' = TRUE
    /\ daysOut' \in 0..MaxOut
    /\ extended' = IF status = "closed" THEN extended
                   ELSE "readiness" \in drafted /\ daysOut' > openOut
    /\ UNCHANGED <<volume, usedSince, rated, status, outcome, drafted, openOut,
                   volumeAtOpen, queued>>

ClearReference ==
    /\ dated
    /\ dated' = FALSE
    /\ UNCHANGED <<daysOut, volume, usedSince, rated, runVars>>

SetVolume ==
    /\ volume' \in Volumes \cup {NoVolume}
    /\ UNCHANGED <<dated, daysOut, usedSince, rated, runVars>>

RunCampaign ==
    /\ "readiness" \in drafted
    /\ openOut < 0
    /\ usedSince' = TRUE
    /\ UNCHANGED <<dated, daysOut, volume, rated, runVars>>

SetTier ==
    /\ rated' = ~rated
    /\ UNCHANGED <<dated, daysOut, volume, usedSince, runVars>>

Customer == SetReference \/ ClearReference \/ SetVolume \/ RunCampaign \/ SetTier

Next == OpenRun \/ ProcessRun \/ Midnight \/ Customer

Spec == Init /\ [][Next]_vars

\* Days pass, and the agent's job runs again after any failed night.
FairSpec == Spec /\ WF_vars(Midnight) /\ WF_vars(ProcessRun)

-----------------------------------------------------------------------------
(* Properties *)

TypeOK ==
    /\ dated \in BOOLEAN /\ usedSince \in BOOLEAN /\ extended \in BOOLEAN
    /\ rated \in BOOLEAN
    /\ daysOut \in (-DebriefLag)..MaxOut
    /\ openOut \in (-DebriefLag)..MaxOut
    /\ volume \in Volumes \cup {NoVolume}
    /\ volumeAtOpen \in Volumes \cup {NoVolume}
    /\ status \in {"none", "open", "closed"}
    /\ outcome \in Outcomes \cup {NoOutcome}
    /\ outcome \in Outcomes <=> status = "closed"
    /\ drafted \subseteq Stages
    /\ extended => "readiness" \in drafted
    /\ queued \in [Stages \cup {"debrief"} -> Nat]

\* The buyer hears the value review before the commercial ask and the ask
\* before the objection check ("value review with the economic buyer, before
\* any commercial ask"), however late the play opened and however the date
\* moved in between.
StageOrder ==
    \A stage \in drafted : \A earlier \in Stages :
        Rank[earlier] < Rank[stage] => earlier \in drafted

\* Nobody is written to twice about the same stage ("T-15, once").
DraftedOnce == \A stage \in Stages \cup {"debrief"} : queued[stage] <= 1

\* "Falls through every already-due stage across successive runs rather
\* than skipping them": a closed renewal asked everything it had to ask.
NothingSkipped ==
    status = "closed" =>
        drafted = Stages /\ \A stage \in Stages \cup {"debrief"} : queued[stage] >= 1

\* A recommitment is judged only DebriefLag days after the date the play
\* was opened for, although the debrief looks at the current date alone.
NotJudgedEarly ==
    status = "closed" /\ extended => openOut <= -DebriefLag

\* A play whose date stays put, on an account within the matrix's tiers, is
\* closed, whatever was late or moved before.
DatedRunCloses ==
    <>[]rated /\ <>[][dated' /\ daysOut' <= daysOut]_<<dated, daysOut>> =>
        (status = "open" ~> (status = "closed" \/ ~dated))

\* The play_run keeps the promises of PlayRun: in particular no night adds
\* an action to a closed play, and none closes it again.
Record == INSTANCE PlayRun WITH
    rows <- queued["readiness"] + queued["value_review"] + queued["growth_proposal"]
                + queued["objections"] + queued["debrief"]
RecordSpec == Record!Spec

=============================================================================
