--------------------------- MODULE OnboardingPlay ---------------------------
(***************************************************************************)
(* One onboarding play: agents/onboarding/agent.py, run once a night by    *)
(* agents/jobs/run_onboarding_agent.py.  The first run reviews the         *)
(* hand-off and, if it is complete, goes on to the kickoff in the same     *)
(* invocation.  Later runs recompute the exit test from current data, ask  *)
(* the buyer once to confirm a result, and close the play when the test is *)
(* met or the account has grown older than StallDays.                      *)
(*                                                                         *)
(* The clock is days since contract_start, not since the play was opened:  *)
(* an expansion may hand over to an onboarding play on an account of any   *)
(* age, and ingest may move the start.                                     *)
(***************************************************************************)
EXTENDS Naturals

CONSTANTS
    ConfirmationDay,   \* VALUE_CONFIRMATION_DAY, 40
    StallDays          \* STALL_DAYS, 120

ASSUME OnboardingAssumption ==
    /\ ConfirmationDay \in Nat /\ StallDays \in Nat
    /\ ConfirmationDay <= StallDays

VARIABLES
    age,        \* days since contract_start, up to StallDays
    complete,   \* review_handoff would accept the hand-off
    confirmed,  \* some value doc is confirmed
    othersMet,  \* the other three exit-test conditions hold
    rated,      \* the account's tier has a column in the matrix
    status,     \* of the play_run
    outcome,
    flags,      \* the stage flags set in exit_test_results
    recorded,   \* the conditions last written to exit_test_results
    queued      \* queued[type]: Action rows of this play ever added

accountVars == <<age, complete, confirmed, othersMet, rated>>
runVars == <<status, outcome, flags, recorded, queued>>
vars == <<accountVars, runVars>>

NoOutcome == "none"
Outcomes == {"handoff_rejected", "completed_successfully", "stalled"}

\* The action types; "kickoff" stands for the brief and the success
\* criteria, which are queued together.
ActionTypes == {"handoff_returned_to_sales", "kickoff", "value_confirmation_request"}

Conditions == [result_confirmed |-> confirmed, others |-> othersMet]
AllMet == confirmed /\ othersMet

Init ==
    /\ age \in 0..StallDays
    /\ complete \in BOOLEAN
    /\ confirmed \in BOOLEAN
    /\ othersMet \in BOOLEAN
    /\ rated = TRUE
    /\ status = "none"
    /\ outcome = NoOutcome
    /\ flags = {}
    /\ recorded = [result_confirmed |-> FALSE, others |-> FALSE]
    /\ queued = [type \in ActionTypes |-> 0]

-----------------------------------------------------------------------------
(* The contract trigger, or an expansion's hand-over, opens the play. *)

OpenRun ==
    /\ status = "none"
    /\ status' = "open"
    /\ UNCHANGED <<accountVars, outcome, flags, recorded, queued>>

-----------------------------------------------------------------------------
(* One invocation of run_onboarding_agent on the open play *)

Close(result) ==
    /\ status' = "closed"
    /\ outcome' = result

Queue(type) == queued' = [queued EXCEPT ![type] = @ + 1]

\* Resolving an autonomy level raises for a T4 account, so the three stages
\* that queue something need a rated one.
RefuseHandoff ==
    /\ status = "open"
    /\ "handoff_reviewed" \notin flags
    /\ ~complete
    /\ rated
    /\ flags' = flags \cup {"handoff_reviewed"}
    /\ Queue("handoff_returned_to_sales")
    /\ Close("handoff_rejected")
    /\ UNCHANGED <<accountVars, recorded>>

\* Mutant: a refused hand-off is reported but does not stop the kickoff.
Kickoff_Anyway ==
    /\ status = "open"
    /\ "kickoff_brief_prepared" \notin flags
    /\ rated
    /\ flags' = flags \cup {"handoff_reviewed", "kickoff_brief_prepared"}
    /\ queued' = [queued EXCEPT !["kickoff"] = @ + 1,
                      !["handoff_returned_to_sales"] = IF complete THEN @ ELSE @ + 1]
    /\ UNCHANGED <<accountVars, status, outcome, recorded>>

\* An accepted hand-off and the kickoff behind it.
Kickoff ==
    /\ status = "open"
    /\ "kickoff_brief_prepared" \notin flags
    /\ "handoff_reviewed" \in flags \/ complete
    /\ rated
    /\ flags' = flags \cup {"handoff_reviewed", "kickoff_brief_prepared"}
    /\ Queue("kickoff")
    /\ UNCHANGED <<accountVars, status, outcome, recorded>>

\* Mutant: the buyer is only asked while the stall window is open.
ConfirmationDue_BeforeStall ==
    /\ age \in ConfirmationDay..(StallDays - 1)
    /\ "value_confirmation_requested" \notin flags
    /\ ~confirmed

ConfirmationDue ==
    /\ age >= ConfirmationDay
    /\ "value_confirmation_requested" \notin flags
    /\ ~confirmed

RequestConfirmation ==
    /\ status = "open"
    /\ "kickoff_brief_prepared" \in flags
    /\ ConfirmationDue
    /\ rated
    /\ flags' = flags \cup {"value_confirmation_requested"}
    /\ recorded' = Conditions
    /\ Queue("value_confirmation_request")
    /\ UNCHANGED <<accountVars, status, outcome>>

\* Mutant: the stall window is not looked at.
TestExit_Never ==
    /\ status = "open"
    /\ "kickoff_brief_prepared" \in flags
    /\ ~ConfirmationDue
    /\ recorded' = Conditions
    /\ \/ AllMet /\ Close("completed_successfully")
       \/ ~AllMet /\ UNCHANGED <<status, outcome>>
    /\ UNCHANGED <<accountVars, flags, queued>>

\* The exit test: met, stalled, or still waiting.
TestExit ==
    /\ status = "open"
    /\ "kickoff_brief_prepared" \in flags
    /\ ~ConfirmationDue
    /\ recorded' = Conditions
    /\ \/ AllMet /\ Close("completed_successfully")
       \/ ~AllMet /\ age >= StallDays /\ Close("stalled")
       \/ ~AllMet /\ age < StallDays /\ UNCHANGED <<status, outcome>>
    /\ UNCHANGED <<accountVars, flags, queued>>

ProcessRun == RefuseHandoff \/ Kickoff \/ RequestConfirmation \/ TestExit

-----------------------------------------------------------------------------
(* Time and the account *)

Midnight ==
    /\ age' = IF age < StallDays THEN age + 1 ELSE age
    /\ UNCHANGED <<complete, confirmed, othersMet, rated, runVars>>

\* Ingest writes a version with another contract_start; one still to come
\* counts as day 0, which no threshold tells from an earlier day.
SetContractStart ==
    /\ age' \in 0..StallDays
    /\ UNCHANGED <<complete, confirmed, othersMet, rated, runVars>>

\* The plan, the stakeholders, usage, value docs and the tier change.
AccountChanges ==
    /\ complete' \in BOOLEAN
    /\ confirmed' \in BOOLEAN
    /\ othersMet' \in BOOLEAN
    /\ rated' \in BOOLEAN
    /\ UNCHANGED <<age, runVars>>

Next == OpenRun \/ ProcessRun \/ Midnight \/ SetContractStart \/ AccountChanges

Spec == Init /\ [][Next]_vars

\* Days pass, and the job runs again after any failed night.
FairSpec == Spec /\ WF_vars(Midnight) /\ WF_vars(ProcessRun)

-----------------------------------------------------------------------------
(* Properties *)

TypeOK ==
    /\ age \in 0..StallDays
    /\ complete \in BOOLEAN /\ confirmed \in BOOLEAN /\ othersMet \in BOOLEAN
    /\ rated \in BOOLEAN
    /\ status \in {"none", "open", "closed"}
    /\ outcome \in Outcomes \cup {NoOutcome}
    /\ outcome \in Outcomes <=> status = "closed"
    /\ flags \subseteq {"handoff_reviewed", "kickoff_brief_prepared",
                        "value_confirmation_requested"}
    /\ recorded \in [result_confirmed : BOOLEAN, others : BOOLEAN]
    /\ queued \in [ActionTypes -> Nat]

\* "Refuse an incomplete one back to Sales -- build this as a real workflow
\* state, not a warning" (agents/onboarding/handoff.py): a play whose
\* hand-off was returned is over and has written nothing to the customer.
RefusedMeansStopped ==
    queued["handoff_returned_to_sales"] > 0 =>
        /\ outcome = "handoff_rejected"
        /\ queued["kickoff"] = 0
        /\ queued["value_confirmation_request"] = 0

\* Each stage once, however many nights the play stays open and however its
\* facts flip meanwhile.
QueuedOnce == \A type \in ActionTypes : queued[type] <= 1

\* Nobody is given up on unasked: a stalled play had its kickoff, and its
\* buyer was asked to confirm a result unless one was on file; a completed
\* one met the whole test the night it was closed.
ClosedForAReason ==
    /\ outcome = "stalled" =>
          /\ queued["kickoff"] = 1
          /\ \/ queued["value_confirmation_request"] = 1
             \/ recorded.result_confirmed
    /\ outcome = "completed_successfully" => recorded.result_confirmed /\ recorded.others

\* "Every play run records an outcome" (agents/onboarding/agent.py): an
\* onboarding whose account stays within the matrix's tiers, and whose
\* contract start is not moved later for ever, is closed.
OnboardingCloses ==
    <>[]rated /\ <>[][age' >= age]_age => (status = "open" ~> status = "closed")

\* The play_run keeps the promises of PlayRun: in particular no night adds
\* an action to a closed play, and none closes it again.
Record == INSTANCE PlayRun WITH
    rows <- queued["handoff_returned_to_sales"] + queued["kickoff"]
                + queued["value_confirmation_request"]
RecordSpec == Record!Spec

=============================================================================
