------------------------ MODULE ExpansionPlayProofs ------------------------
(***************************************************************************)
(* Proofs about ExpansionPlay for every choice of the three windows.  As   *)
(* in the other plays, the properties follow from tying the rows queued to *)
(* the flags and the outcome, and here the onboarding plays opened to the  *)
(* one outcome that may open one.                                          *)
(***************************************************************************)
EXTENDS ExpansionPlay, TLAPS

EndedAtTheGate == outcome \in {"gate_not_met", "routed_to_sales"}

RowsMatchFlags ==
    /\ queued["expansion_champion_case"] =
           IF "champion_case_drafted" \in flags THEN 1 ELSE 0
    /\ queued["expansion_department_live"] =
           IF "department_live_logged" \in flags THEN 1 ELSE 0
    /\ queued["expansion_gate_not_met"] = IF outcome = "gate_not_met" THEN 1 ELSE 0
    /\ queued["expansion_route_to_sales"] = IF outcome = "routed_to_sales" THEN 1 ELSE 0

FlagsAreOrdered ==
    /\ "department_live_logged" \in flags => "champion_case_drafted" \in flags
    /\ "gate_checked" \in flags <=> "champion_case_drafted" \in flags \/ EndedAtTheGate
    /\ EndedAtTheGate => "champion_case_drafted" \notin flags
    /\ status = "none" => flags = {}

OnlyCompletedHandsOver == outcome # "completed_successfully" => onboardings = 0

IInv ==
    TypeOK /\ RowsMatchFlags /\ FlagsAreOrdered /\ OnlyCompletedHandsOver /\ HandOverIsEarned

-----------------------------------------------------------------------------

LEMMA InitIInv == Init => IInv
  <1> SUFFICES ASSUME Init PROVE IInv
    OBVIOUS
  <1>1. TypeOK
    BY ExpansionAssumption DEF Init, TypeOK, Outcomes, NoOutcome
  <1>2. RowsMatchFlags /\ FlagsAreOrdered
    BY DEF Init, RowsMatchFlags, FlagsAreOrdered, EndedAtTheGate, NoOutcome, ActionTypes
  <1>3. OnlyCompletedHandsOver /\ HandOverIsEarned
    BY DEF Init, OnlyCompletedHandsOver, HandOverIsEarned
  <1>4. QED  BY <1>1, <1>2, <1>3 DEF IInv

\* While the play is open nothing was handed over: no outcome yet.
LEMMA OpenHasNoOutcome ==
    IInv /\ status # "closed" => outcome \notin Outcomes /\ onboardings = 0
  BY DEF IInv, TypeOK, OnlyCompletedHandsOver, Outcomes

LEMMA OpenRunIInv == IInv /\ OpenRun => IInv'
  <1> SUFFICES ASSUME IInv, OpenRun PROVE IInv'
    OBVIOUS
  <1>1. TypeOK'
    BY DEF IInv, TypeOK, OpenRun, accountVars
  <1>2. (RowsMatchFlags /\ FlagsAreOrdered)'
    BY DEF IInv, RowsMatchFlags, FlagsAreOrdered, EndedAtTheGate, OpenRun
  <1>3. (OnlyCompletedHandsOver /\ HandOverIsEarned)'
    BY DEF IInv, OnlyCompletedHandsOver, HandOverIsEarned, OpenRun
  <1>4. QED  BY <1>1, <1>2, <1>3 DEF IInv

\* The two ways the gate ends the play.
LEMMA GateIInv == IInv /\ (RefuseGate \/ RouteToSales) => IInv'
  <1> SUFFICES ASSUME IInv, RefuseGate \/ RouteToSales PROVE IInv'
    OBVIOUS
  <1>0. status = "open" /\ "gate_checked" \notin flags /\ onboardings' = onboardings
    BY DEF RefuseGate, RouteToSales
  <1>1. /\ outcome \notin Outcomes /\ onboardings = 0 /\ onboardings' = 0
        /\ "champion_case_drafted" \notin flags /\ "department_live_logged" \notin flags
    <2>1. outcome \notin Outcomes /\ onboardings = 0
      BY <1>0, OpenHasNoOutcome
    <2>2. "champion_case_drafted" \notin flags /\ "department_live_logged" \notin flags
      BY <1>0 DEF IInv, FlagsAreOrdered
    <2>3. QED  BY <1>0, <2>1, <2>2
  <1>2. TypeOK'
    <2>1. CASE RefuseGate
      BY <1>1, <2>1 DEF IInv, TypeOK, RefuseGate, Queue, Close, accountVars, ActionTypes,
                        Outcomes
    <2>2. CASE RouteToSales
      BY <1>1, <2>2 DEF IInv, TypeOK, RouteToSales, Queue, Close, accountVars, ActionTypes,
                        Outcomes
    <2>3. QED  BY <2>1, <2>2
  <1>3. RowsMatchFlags'
    BY <1>1 DEF IInv, TypeOK, RowsMatchFlags, RefuseGate, RouteToSales, Queue, Close,
                ActionTypes, Outcomes
  <1>4. FlagsAreOrdered'
    BY <1>1 DEF IInv, FlagsAreOrdered, EndedAtTheGate, RefuseGate, RouteToSales, Close
  <1>5. (OnlyCompletedHandsOver /\ HandOverIsEarned)'
    BY <1>1 DEF OnlyCompletedHandsOver, HandOverIsEarned
  <1>6. QED  BY <1>2, <1>3, <1>4, <1>5 DEF IInv

LEMMA DraftChampionCaseIInv == IInv /\ DraftChampionCase => IInv'
  <1> SUFFICES ASSUME IInv, DraftChampionCase PROVE IInv'
    OBVIOUS
  <1>1. outcome \notin Outcomes /\ onboardings = 0
    BY OpenHasNoOutcome DEF DraftChampionCase, MayDraftCase
  <1>2. TypeOK'
    BY ExpansionAssumption
    DEF IInv, TypeOK, DraftChampionCase, Queue, accountVars, ActionTypes
  <1>3. (RowsMatchFlags /\ FlagsAreOrdered)'
    BY <1>1 DEF IInv, TypeOK, RowsMatchFlags, FlagsAreOrdered, EndedAtTheGate,
                DraftChampionCase, MayDraftCase, Queue, ActionTypes, Outcomes
  <1>4. (OnlyCompletedHandsOver /\ HandOverIsEarned)'
    BY <1>1 DEF OnlyCompletedHandsOver, HandOverIsEarned, DraftChampionCase
  <1>5. QED  BY <1>2, <1>3, <1>4 DEF IInv

LEMMA AwaitLaunchIInv == IInv /\ AwaitLaunch => IInv'
  <1> SUFFICES ASSUME IInv, AwaitLaunch PROVE IInv'
    OBVIOUS
  <1>1. outcome \notin Outcomes /\ onboardings = 0
    BY OpenHasNoOutcome DEF AwaitLaunch
  <1>2. TypeOK'
    BY DEF IInv, TypeOK, AwaitLaunch, Close, accountVars, Outcomes
  <1>3. (RowsMatchFlags /\ FlagsAreOrdered)'
    BY <1>1 DEF IInv, RowsMatchFlags, FlagsAreOrdered, EndedAtTheGate, AwaitLaunch, Close,
                Outcomes
  <1>4. (OnlyCompletedHandsOver /\ HandOverIsEarned)'
    BY <1>1 DEF OnlyCompletedHandsOver, HandOverIsEarned, AwaitLaunch, Close
  <1>5. QED  BY <1>2, <1>3, <1>4 DEF IInv

\* A completed pilot was logged live that night or before, and its test was
\* just written with both parts met.
LEMMA TrackPilotIInv == IInv /\ TrackPilot => IInv'
  <1> SUFFICES ASSUME IInv, TrackPilot PROVE IInv'
    OBVIOUS
  <1>1. outcome \notin Outcomes /\ onboardings = 0
    BY OpenHasNoOutcome DEF TrackPilot
  <1>2. /\ flags' = flags \cup {"department_live_logged"}
        /\ queued' = IF "department_live_logged" \in flags THEN queued
                     ELSE [queued EXCEPT !["expansion_department_live"] = @ + 1]
    BY DEF TrackPilot, LogLive, Queue
  <1>3. \/ /\ outcome' = "completed_successfully" /\ status' = "closed"
           /\ ExitTestMet /\ onboardings' \in {0, 1}
        \/ /\ outcome' = "stalled_department_did_not_stick" /\ status' = "closed"
           /\ onboardings' = 0
        \/ outcome' = outcome /\ status' = status /\ onboardings' = 0
    BY <1>1 DEF TrackPilot, Close, HandOver
  <1>4. recorded' = [facts |-> factsMet, sustained |-> Sustained] /\ UNCHANGED sinceCase
    BY DEF TrackPilot
  <1>5. TypeOK'
    <2>1. queued' \in [ActionTypes -> Nat]
      BY <1>2 DEF IInv, TypeOK, ActionTypes
    <2>2. (outcome \in Outcomes \cup {NoOutcome} /\ (outcome \in Outcomes <=> status = "closed"))'
          /\ status' \in {"none", "open", "closed"}
      BY <1>3 DEF IInv, TypeOK, Outcomes
    <2>3. recorded' \in [facts : BOOLEAN, sustained : BOOLEAN] /\ onboardings' \in Nat
      BY <1>3, <1>4 DEF IInv, TypeOK, Sustained
    <2>4. QED
      BY <1>2, <1>4, <2>1, <2>2, <2>3 DEF IInv, TypeOK, TrackPilot, accountVars
  <1>6. RowsMatchFlags'
    BY <1>1, <1>2, <1>3 DEF IInv, TypeOK, RowsMatchFlags, ActionTypes, Outcomes
  <1>7. FlagsAreOrdered'
    BY <1>1, <1>2, <1>3 DEF IInv, FlagsAreOrdered, EndedAtTheGate, TrackPilot, Outcomes
  <1>8. OnlyCompletedHandsOver'
    BY <1>3 DEF OnlyCompletedHandsOver
  <1>9. HandOverIsEarned'
    BY <1>2, <1>3, <1>4, <1>6 DEF HandOverIsEarned, RowsMatchFlags, ExitTestMet
  <1>10. QED  BY <1>5, <1>6, <1>7, <1>8, <1>9 DEF IInv

LEMMA EnvironmentIInv == IInv /\ (Midnight \/ SetTarget \/ AccountChanges) => IInv'
  <1> SUFFICES ASSUME IInv, Midnight \/ SetTarget \/ AccountChanges PROVE IInv'
    OBVIOUS
  <1>1. UNCHANGED <<status, outcome, flags, recorded, queued, onboardings>>
    BY DEF Midnight, SetTarget, AccountChanges, runVars
  <1>2. deptAge' \in {NoDept} \cup 0..StickDays /\ sinceCase' \in 0..NoLaunchDays
    BY ExpansionAssumption
    DEF IInv, TypeOK, Midnight, SetTarget, AccountChanges, runVars, NoDept
  <1>3. TypeOK'
    BY <1>1, <1>2 DEF IInv, TypeOK, Midnight, SetTarget, AccountChanges
  <1>4. (RowsMatchFlags /\ FlagsAreOrdered /\ OnlyCompletedHandsOver /\ HandOverIsEarned)'
    BY <1>1 DEF IInv, RowsMatchFlags, FlagsAreOrdered, EndedAtTheGate,
                OnlyCompletedHandsOver, HandOverIsEarned
  <1>5. QED  BY <1>3, <1>4 DEF IInv

LEMMA NextIInv == IInv /\ [Next]_vars => IInv'
  <1> SUFFICES ASSUME IInv, [Next]_vars PROVE IInv'
    OBVIOUS
  <1>1. CASE OpenRun \/ ProcessRun
    BY <1>1, OpenRunIInv, GateIInv, DraftChampionCaseIInv, AwaitLaunchIInv, TrackPilotIInv
    DEF ProcessRun
  <1>2. CASE Midnight \/ SetTarget \/ AccountChanges
    BY <1>2, EnvironmentIInv
  <1>3. CASE UNCHANGED vars
    <2>1. TypeOK'
      BY <1>3 DEF IInv, TypeOK, vars, accountVars, runVars
    <2>2. (RowsMatchFlags /\ FlagsAreOrdered /\ OnlyCompletedHandsOver /\ HandOverIsEarned)'
      BY <1>3 DEF IInv, RowsMatchFlags, FlagsAreOrdered, EndedAtTheGate,
                  OnlyCompletedHandsOver, HandOverIsEarned, vars, runVars
    <2>3. QED  BY <2>1, <2>2 DEF IInv
  <1>4. QED  BY <1>1, <1>2, <1>3 DEF Next

-----------------------------------------------------------------------------

\* The inductive invariant holds in every reachable state.
THEOREM IInvHolds == Spec => []IInv
  BY InitIInv, NextIInv, PTL DEF Spec

\* An expansion play_run keeps its types and has an outcome exactly when it
\* is closed.
THEOREM TypeCorrect == Spec => []TypeOK
  <1>1. IInv => TypeOK
    BY DEF IInv
  <1>2. QED  BY <1>1, IInvHolds, PTL

\* Nobody is contacted, tracked or handed over past a gate that refused.
THEOREM NothingUngatedHolds == Spec => []NothingUngated
  <1>1. IInv => NothingUngated
    BY DEF IInv, TypeOK, RowsMatchFlags, FlagsAreOrdered, EndedAtTheGate, HandOverIsEarned,
           NothingUngated
  <1>2. QED  BY <1>1, IInvHolds, PTL

\* No message of an expansion is queued twice.
THEOREM QueuedOnceHolds == Spec => []QueuedOnce
  <1>1. IInv => QueuedOnce
    BY DEF IInv, RowsMatchFlags, QueuedOnce, ActionTypes
  <1>2. QED  BY <1>1, IInvHolds, PTL

\* One onboarding at most, and only behind a completed pilot.
THEOREM HandOverIsEarnedHolds == Spec => []HandOverIsEarned
  <1>1. IInv => HandOverIsEarned
    BY DEF IInv
  <1>2. QED  BY <1>1, IInvHolds, PTL

-----------------------------------------------------------------------------
(* The play_run keeps the promises of PlayRun. *)

Rows == queued["expansion_gate_not_met"] + queued["expansion_route_to_sales"]
            + queued["expansion_champion_case"] + queued["expansion_department_live"]

LEMMA RowsGrow ==
    ASSUME TypeOK, NEW type \in ActionTypes, queued' = queued \/ Queue(type)
    PROVE  Rows' \in Nat /\ Rows' >= Rows
  BY DEF TypeOK, Rows, Queue, ActionTypes

LEMMA NextRefines == TypeOK /\ TypeOK' /\ [Next]_vars => Record!Step
  <1> SUFFICES ASSUME TypeOK, TypeOK', [Next]_vars PROVE Record!Step
    OBVIOUS
  <1> USE DEF Record!Step, Record!Next
  <1>1. CASE OpenRun
    BY <1>1 DEF OpenRun, Record!Open
  <1>2. CASE RefuseGate \/ RouteToSales
    <2>1. Rows' \in Nat /\ Rows' >= Rows
      BY <1>2, RowsGrow DEF RefuseGate, RouteToSales, ActionTypes
    <2>2. QED
      BY <1>2, <2>1
      DEF RefuseGate, RouteToSales, Close, Outcomes, Rows, Record!Close, Record!RowsGrow
  <1>3. CASE DraftChampionCase
    <2>1. Rows' \in Nat /\ Rows' >= Rows
      BY <1>3, RowsGrow DEF DraftChampionCase, ActionTypes
    <2>2. QED
      BY <1>3, <2>1 DEF DraftChampionCase, MayDraftCase, Rows, Record!Work, Record!RowsGrow
  <1>4. CASE AwaitLaunch
    <2>1. Rows' \in Nat /\ Rows' >= Rows
      BY <1>4, RowsGrow DEF AwaitLaunch, ActionTypes
    <2>2. QED
      BY <1>4, <2>1 DEF AwaitLaunch, Close, Outcomes, Rows, Record!Close, Record!RowsGrow
  <1>5. CASE TrackPilot
    <2>1. Rows' \in Nat /\ Rows' >= Rows
      BY <1>5, RowsGrow DEF TrackPilot, LogLive, ActionTypes
    <2>2. CASE UNCHANGED <<status, outcome>>
      BY <1>5, <2>1, <2>2 DEF TrackPilot, Rows, Record!Work, Record!RowsGrow
    <2>3. CASE Close("completed_successfully") \/ Close("stalled_department_did_not_stick")
      BY <1>5, <2>1, <2>3
      DEF TrackPilot, Close, Outcomes, Rows, Record!Close, Record!RowsGrow
    <2>4. QED  BY <1>5, <2>2, <2>3 DEF TrackPilot
  <1>6. CASE Midnight \/ SetTarget \/ AccountChanges \/ UNCHANGED vars
    BY <1>6 DEF Midnight, SetTarget, AccountChanges, vars, runVars
  <1>7. QED  BY <1>1, <1>2, <1>3, <1>4, <1>5, <1>6 DEF Next, ProcessRun

\* Every expansion play_run is opened once, closed once with an outcome, and
\* gains no action afterwards.
THEOREM RefinesPlayRun == Spec => RecordSpec
  <1>1. Init => Record!Init
    BY DEF Init, Record!Init, NoOutcome, Record!NoOutcome, ActionTypes
  <1>2. TypeOK /\ TypeOK' /\ [Next]_vars =>
            [Record!Next]_<<status, outcome,
                            queued["expansion_gate_not_met"]
                                + queued["expansion_route_to_sales"]
                                + queued["expansion_champion_case"]
                                + queued["expansion_department_live"]>>
    BY NextRefines DEF Record!Step
  <1>3. QED
    BY <1>1, <1>2, TypeCorrect, PTL DEF Spec, RecordSpec, Record!Spec

=============================================================================
