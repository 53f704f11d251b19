------------------------ MODULE OnboardingPlayProofs ------------------------
(***************************************************************************)
(* Proofs about OnboardingPlay for every choice of the two day counts.     *)
(* All properties follow from tying the rows queued to the flags and the   *)
(* outcome (RowsMatchFlags).                                               *)
(***************************************************************************)
EXTENDS OnboardingPlay, TLAPS

RowsMatchFlags ==
    /\ queued["kickoff"] = IF "kickoff_brief_prepared" \in flags THEN 1 ELSE 0
    /\ queued["value_confirmation_request"] =
           IF "value_confirmation_requested" \in flags THEN 1 ELSE 0
    /\ queued["handoff_returned_to_sales"] = IF outcome = "handoff_rejected" THEN 1 ELSE 0

FlagsAreOrdered ==
    /\ "value_confirmation_requested" \in flags => "kickoff_brief_prepared" \in flags
    /\ "handoff_reviewed" \in flags <=>
           "kickoff_brief_prepared" \in flags \/ outcome = "handoff_rejected"
    /\ outcome = "handoff_rejected" => "kickoff_brief_prepared" \notin flags
    /\ status = "none" => flags = {}

IInv == TypeOK /\ RowsMatchFlags /\ FlagsAreOrdered /\ ClosedForAReason

-----------------------------------------------------------------------------

LEMMA InitIInv == Init => IInv
  <1> SUFFICES ASSUME Init PROVE IInv
    OBVIOUS
  <1>1. TypeOK
    BY DEF Init, TypeOK, Outcomes, NoOutcome
  <1>2. RowsMatchFlags /\ FlagsAreOrdered /\ ClosedForAReason
    BY DEF Init, RowsMatchFlags, FlagsAreOrdered, ClosedForAReason, NoOutcome, ActionTypes
  <1>3. QED  BY <1>1, <1>2 DEF IInv

LEMMA OpenRunIInv == IInv /\ OpenRun => IInv'
  <1> SUFFICES ASSUME IInv, OpenRun PROVE IInv'
    OBVIOUS
  <1>1. TypeOK'
    BY DEF IInv, TypeOK, OpenRun, accountVars
  <1>2. (RowsMatchFlags /\ FlagsAreOrdered /\ ClosedForAReason)'
    BY DEF IInv, RowsMatchFlags, FlagsAreOrdered, ClosedForAReason, OpenRun
  <1>3. QED  BY <1>1, <1>2 DEF IInv

LEMMA RefuseHandoffIInv == IInv /\ RefuseHandoff => IInv'
  <1> SUFFICES ASSUME IInv, RefuseHandoff PROVE IInv'
    OBVIOUS
  <1>1. TypeOK'
    BY DEF IInv, TypeOK, RefuseHandoff, Queue, Close, accountVars, ActionTypes, Outcomes
  <1>2. /\ outcome # "handoff_rejected" /\ "kickoff_brief_prepared" \notin flags
        /\ "value_confirmation_requested" \notin flags
    BY DEF IInv, FlagsAreOrdered, RefuseHandoff
  <1>3. (RowsMatchFlags /\ FlagsAreOrdered /\ ClosedForAReason)'
    BY <1>2 DEF IInv, TypeOK, RowsMatchFlags, FlagsAreOrdered, ClosedForAReason,
                RefuseHandoff, Queue, Close, ActionTypes
  <1>4. QED  BY <1>1, <1>3 DEF IInv

LEMMA KickoffIInv == IInv /\ Kickoff => IInv'
  <1> SUFFICES ASSUME IInv, Kickoff PROVE IInv'
    OBVIOUS
  <1>1. TypeOK'
    BY DEF IInv, TypeOK, Kickoff, Queue, accountVars, ActionTypes
  <1>2. outcome \notin Outcomes
    BY DEF IInv, TypeOK, Kickoff
  <1>3. (RowsMatchFlags /\ FlagsAreOrdered)'
    BY <1>2 DEF IInv, TypeOK, RowsMatchFlags, FlagsAreOrdered, Kickoff, Queue,
                ActionTypes, Outcomes
  <1>4. ClosedForAReason'
    BY <1>2 DEF ClosedForAReason, Kickoff, Outcomes
  <1>5. QED  BY <1>1, <1>3, <1>4 DEF IInv

LEMMA RequestConfirmationIInv == IInv /\ RequestConfirmation => IInv'
  <1> SUFFICES ASSUME IInv, RequestConfirmation PROVE IInv'
    OBVIOUS
  <1>1. TypeOK'
    BY DEF IInv, TypeOK, RequestConfirmation, Conditions, Queue, accountVars, ActionTypes
  <1>2. outcome \notin Outcomes
    BY DEF IInv, TypeOK, RequestConfirmation
  <1>3. (RowsMatchFlags /\ FlagsAreOrdered)'
    BY <1>2 DEF IInv, TypeOK, RowsMatchFlags, FlagsAreOrdered, RequestConfirmation,
                ConfirmationDue, Queue, ActionTypes, Outcomes
  <1>4. ClosedForAReason'
    BY <1>2 DEF ClosedForAReason, RequestConfirmation, Outcomes
  <1>5. QED  BY <1>1, <1>3, <1>4 DEF IInv

\* What makes the test of ClosedForAReason true when the play is closed:
\* the confirmation stage comes before the exit test in the if-chain.
LEMMA TestExitIInv == IInv /\ TestExit => IInv'
  <1> SUFFICES ASSUME IInv, TestExit PROVE IInv'
    OBVIOUS
  <1>1. TypeOK'
    BY DEF IInv, TypeOK, TestExit, Conditions, Close, accountVars, Outcomes
  <1>2. outcome \notin Outcomes
    BY DEF IInv, TypeOK, TestExit
  <1>3. outcome' \in {outcome, "completed_successfully", "stalled"}
    BY DEF TestExit, Close
  <1>4. (RowsMatchFlags /\ FlagsAreOrdered)'
    BY <1>2, <1>3 DEF IInv, RowsMatchFlags, FlagsAreOrdered, TestExit, Close, Outcomes
  <1>5. ClosedForAReason'
    <2>1. CASE outcome' = "stalled"
      <3>1. age >= ConfirmationDay
        BY <1>2, <2>1, OnboardingAssumption
        DEF IInv, TypeOK, TestExit, Close, Outcomes
      <3>2. "value_confirmation_requested" \in flags \/ confirmed
        BY <3>1 DEF TestExit, ConfirmationDue
      <3>3. QED
        BY <2>1, <3>2 DEF IInv, RowsMatchFlags, ClosedForAReason, TestExit, Conditions
    <2>2. CASE outcome' = "completed_successfully"
      <3>1. AllMet
        BY <1>2, <2>2 DEF TestExit, Close, Outcomes
      <3>2. QED
        BY <2>2, <3>1 DEF ClosedForAReason, TestExit, Conditions, AllMet
    <2>3. CASE outcome' = outcome
      BY <1>2, <2>3 DEF ClosedForAReason, Outcomes
    <2>4. QED  BY <1>3, <2>1, <2>2, <2>3
  <1>6. QED  BY <1>1, <1>4, <1>5 DEF IInv

LEMMA EnvironmentIInv == IInv /\ (Midnight \/ SetContractStart \/ AccountChanges) => IInv'
  <1> SUFFICES ASSUME IInv, Midnight \/ SetContractStart \/ AccountChanges PROVE IInv'
    OBVIOUS
  <1>1. UNCHANGED runVars
    BY DEF Midnight, SetContractStart, AccountChanges
  <1>2. TypeOK'
    BY <1>1, OnboardingAssumption DEF IInv, TypeOK, Midnight, SetContractStart, AccountChanges, runVars
  <1>3. (RowsMatchFlags /\ FlagsAreOrdered /\ ClosedForAReason)'
    BY <1>1 DEF IInv, RowsMatchFlags, FlagsAreOrdered, ClosedForAReason, runVars
  <1>4. QED  BY <1>2, <1>3 DEF IInv

LEMMA NextIInv == IInv /\ [Next]_vars => IInv'
  <1> SUFFICES ASSUME IInv, [Next]_vars PROVE IInv'
    OBVIOUS
  <1>1. CASE OpenRun \/ ProcessRun
    BY <1>1, OpenRunIInv, RefuseHandoffIInv, KickoffIInv, RequestConfirmationIInv,
       TestExitIInv DEF ProcessRun
  <1>2. CASE Midnight \/ SetContractStart \/ AccountChanges
    BY <1>2, EnvironmentIInv
  <1>3. CASE UNCHANGED vars
    <2>1. TypeOK'
      BY <1>3 DEF IInv, TypeOK, vars, accountVars, runVars
    <2>2. (RowsMatchFlags /\ FlagsAreOrdered /\ ClosedForAReason)'
      BY <1>3 DEF IInv, RowsMatchFlags, FlagsAreOrdered, ClosedForAReason, vars, runVars
    <2>3. QED  BY <2>1, <2>2 DEF IInv
  <1>4. QED  BY <1>1, <1>2, <1>3 DEF Next

-----------------------------------------------------------------------------

\* The inductive invariant holds in every reachable state.
THEOREM IInvHolds == Spec => []IInv
  BY InitIInv, NextIInv, PTL DEF Spec

\* An onboarding play_run keeps its types and has an outcome exactly when
\* it is closed.
THEOREM TypeCorrect == Spec => []TypeOK
  <1>1. IInv => TypeOK
    BY DEF IInv
  <1>2. QED  BY <1>1, IInvHolds, PTL

\* A hand-off returned to Sales ends the play without a word to the customer.
THEOREM RefusedMeansStoppedHolds == Spec => []RefusedMeansStopped
  <1>1. IInv => RefusedMeansStopped
    BY DEF IInv, RowsMatchFlags, FlagsAreOrdered, RefusedMeansStopped
  <1>2. QED  BY <1>1, IInvHolds, PTL

\* No stage of an onboarding is queued twice.
THEOREM QueuedOnceHolds == Spec => []QueuedOnce
  <1>1. IInv => QueuedOnce
    BY DEF IInv, RowsMatchFlags, QueuedOnce, ActionTypes
  <1>2. QED  BY <1>1, IInvHolds, PTL

\* A stalled onboarding asked for a confirmation it did not have; a
\* completed one met its test.
THEOREM ClosedForAReasonHolds == Spec => []ClosedForAReason
  <1>1. IInv => ClosedForAReason
    BY DEF IInv
  <1>2. QED  BY <1>1, IInvHolds, PTL

-----------------------------------------------------------------------------
(* The play_run keeps the promises of PlayRun. *)

Rows == queued["handoff_returned_to_sales"] + queued["kickoff"]
            + queued["value_confirmation_request"]

LEMMA RowsType == TypeOK => Rows \in Nat
  BY DEF TypeOK, Rows, ActionTypes

LEMMA QueueGrows ==
    ASSUME TypeOK, NEW type \in ActionTypes, Queue(type)
    PROVE  Rows' \in Nat /\ Rows' >= Rows
  BY DEF TypeOK, Rows, Queue, ActionTypes

LEMMA NextRefines == TypeOK /\ TypeOK' /\ [Next]_vars => Record!Step
  <1> SUFFICES ASSUME TypeOK, TypeOK', [Next]_vars PROVE Record!Step
    OBVIOUS
  <1> USE DEF Record!Step, Record!Next
  <1>1. CASE OpenRun
    BY <1>1 DEF OpenRun, Record!Open
  <1>2. CASE RefuseHandoff
    <2>1. Rows' \in Nat /\ Rows' >= Rows
      BY <1>2, QueueGrows DEF RefuseHandoff, ActionTypes
    <2>2. QED
      BY <1>2, <2>1 DEF RefuseHandoff, Close, Outcomes, Rows, Record!Close, Record!RowsGrow
  <1>3. CASE Kickoff \/ RequestConfirmation
    <2>1. Rows' \in Nat /\ Rows' >= Rows
      BY <1>3, QueueGrows DEF Kickoff, RequestConfirmation, ActionTypes
    <2>2. QED
      BY <1>3, <2>1
      DEF Kickoff, RequestConfirmation, Rows, Record!Work, Record!RowsGrow
  <1>4. CASE TestExit
    <2>1. Rows' = Rows /\ Rows' \in Nat
      BY <1>4, RowsType DEF TestExit, Rows
    <2>2. CASE UNCHANGED <<status, outcome>>
      BY <1>4, <2>2 DEF TestExit
    <2>3. CASE Close("completed_successfully") \/ Close("stalled")
      BY <1>4, <2>1, <2>3
      DEF TestExit, Close, Outcomes, Rows, Record!Close, Record!RowsGrow
    <2>4. QED  BY <1>4, <2>2, <2>3 DEF TestExit
  <1>5. CASE Midnight \/ SetContractStart \/ AccountChanges \/ UNCHANGED vars
    BY <1>5 DEF Midnight, SetContractStart, AccountChanges, vars, runVars
  <1>6. QED  BY <1>1, <1>2, <1>3, <1>4, <1>5 DEF Next, ProcessRun

\* Every onboarding play_run is opened once, closed once with an outcome,
\* and gains no action afterwards.
THEOREM RefinesPlayRun == Spec => RecordSpec
  <1>1. Init => Record!Init
    BY DEF Init, Record!Init, NoOutcome, Record!NoOutcome, ActionTypes
  <1>2. TypeOK /\ TypeOK' /\ [Next]_vars =>
            [Record!Next]_<<status, outcome,
                            queued["handoff_returned_to_sales"] + queued["kickoff"]
                                + queued["value_confirmation_request"]>>
    BY NextRefines DEF Record!Step
  <1>3. QED
    BY <1>1, <1>2, TypeCorrect, PTL DEF Spec, RecordSpec, Record!Spec

=============================================================================
