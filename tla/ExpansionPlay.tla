--------------------------- MODULE ExpansionPlay ---------------------------
(***************************************************************************)
(* One expansion play: agents/expansion/agent.py, run once a night by      *)
(* agents/jobs/run_expansion_agent.py.  The first run re-checks the full   *)
(* qualification gate and, if it is met without a new budget holder, asks  *)
(* the champion in the same invocation.  From then on each run looks the   *)
(* target department up by the name the plan carries NOW, and closes the   *)
(* play when its exit test is met or one of two windows has passed.        *)
(***************************************************************************)
EXTENDS Integers

CONSTANTS
    NoLaunchDays,   \* NO_LAUNCH_STALL_DAYS, 180, since the champion's case
    SustainDays,    \* SUSTAIN_WINDOW_DAYS, 90, since the department began
    StickDays       \* DID_NOT_STICK_STALL_DAYS, 270, since it began

ASSUME ExpansionAssumption ==
    /\ NoLaunchDays \in Nat /\ SustainDays \in Nat /\ StickDays \in Nat
    /\ SustainDays <= StickDays

VARIABLES
    gateMet,    \* check_expansion_gate would qualify the account
    newHolder,  \* expansion_new_budget_holder
    deptAge,    \* days since the target department began, or NoDept
    factsMet,   \* two creators, an early first campaign, a documented result
    rated,      \* the account's tier has a column in the matrix
    status,     \* of the play_run
    outcome,
    flags,      \* the flags set in exit_test_results
    sinceCase,  \* days since champion_case_drafted_at, up to NoLaunchDays
    recorded,   \* the exit test last written to exit_test_results
    queued,     \* queued[type]: Action rows of this play ever added
    onboardings \* onboarding plays this play has opened

accountVars == <<gateMet, newHolder, deptAge, factsMet, rated>>
runVars == <<status, outcome, flags, sinceCase, recorded, queued, onboardings>>
vars == <<accountVars, runVars>>

NoDept == -1
NoOutcome == "none"
Outcomes == {"gate_not_met", "routed_to_sales", "completed_successfully",
             "stalled_department_never_launched", "stalled_department_did_not_stick"}

ActionTypes == {"expansion_gate_not_met", "expansion_route_to_sales",
                "expansion_champion_case", "expansion_department_live"}

Init ==
    /\ gateMet \in BOOLEAN
    /\ newHolder \in BOOLEAN
    /\ deptAge \in {NoDept} \cup 0..StickDays
    /\ factsMet \in BOOLEAN
    /\ rated = TRUE
    /\ status = "none"
    /\ outcome = NoOutcome
    /\ flags = {}
    /\ sinceCase = 0
    /\ recorded = [facts |-> FALSE, sustained |-> FALSE]
    /\ queued = [type \in ActionTypes |-> 0]
    /\ onboardings = 0

-----------------------------------------------------------------------------
(* The nightly evaluation opens the play (see TriggerEvaluation). *)

OpenRun ==
    /\ status = "none"
    /\ status' = "open"
    /\ UNCHANGED <<accountVars, outcome, flags, sinceCase, recorded, queued,
                   onboardings>>

-----------------------------------------------------------------------------
(* One invocation of run_expansion_agent on the open play *)

Close(result) ==
    /\ status' = "closed"
    /\ outcome' = result

Queue(type) == queued' = [queued EXCEPT ![type] = @ + 1]

\* Resolving an autonomy level raises for a T4 account: whatever queues an
\* action needs a rated one.
RefuseGate ==
    /\ status = "open"
    /\ "gate_checked" \notin flags
    /\ ~gateMet
    /\ rated
    /\ flags' = flags \cup {"gate_checked"}
    /\ Queue("expansion_gate_not_met")
    /\ Close("gate_not_met")
    /\ UNCHANGED <<accountVars, sinceCase, recorded, onboardings>>

\* Mutant: routed to Sales, and left open for CS as well.
RouteToSales_StaysOpen ==
    /\ status = "open"
    /\ "gate_checked" \notin flags
    /\ gateMet
    /\ newHolder
    /\ rated
    /\ flags' = flags \cup {"gate_checked", "gate_qualified"}
    /\ Queue("expansion_route_to_sales")
    /\ UNCHANGED <<accountVars, status, outcome, sinceCase, recorded, onboardings>>

RouteToSales ==
    /\ status = "open"
    /\ "gate_checked" \notin flags
    /\ gateMet
    /\ newHolder
    /\ rated
    /\ flags' = flags \cup {"gate_checked", "gate_qualified"}
    /\ Queue("expansion_route_to_sales")
    /\ Close("routed_to_sales")
    /\ UNCHANGED <<accountVars, sinceCase, recorded, onboardings>>

\* The gate is asked once, before the case; the budget holder with it.
MayDraftCase ==
    /\ status = "open"
    /\ "champion_case_drafted" \notin flags
    /\ "gate_checked" \in flags \/ (gateMet /\ ~newHolder)
    /\ rated

DraftChampionCase ==
    /\ MayDraftCase
    /\ flags' = flags \cup {"gate_checked", "gate_qualified", "champion_case_drafted"}
    /\ sinceCase' = 0
    /\ Queue("expansion_champion_case")
    /\ UNCHANGED <<accountVars, status, outcome, recorded, onboardings>>

\* No department of the target's name: wait for it, or give up.
AwaitLaunch ==
    /\ status = "open"
    /\ "champion_case_drafted" \in flags
    /\ deptAge = NoDept
    /\ sinceCase >= NoLaunchDays
    /\ Close("stalled_department_never_launched")
    /\ UNCHANGED <<accountVars, flags, sinceCase, recorded, queued, onboardings>>

\* The first night the department is found.
LogLive ==
    /\ flags' = flags \cup {"department_live_logged"}
    /\ \/ "department_live_logged" \in flags /\ UNCHANGED queued
       \/ "department_live_logged" \notin flags /\ rated
              /\ Queue("expansion_department_live")

\* The one active creator also asked for here is among those of factsMet.
Sustained == deptAge >= SustainDays

\* Mutant: the department is not given its 90 days.
ExitTestMet_AtOnce == factsMet

ExitTestMet == factsMet /\ Sustained

\* Mutant: a department that never meets the test is tracked for ever.
GivenUp_Never == FALSE

GivenUp == deptAge >= StickDays

\* Another open play of the account keeps the onboarding play away.
HandOver == \E otherOpen \in BOOLEAN :
    onboardings' = IF otherOpen THEN onboardings ELSE onboardings + 1

TrackPilot ==
    /\ status = "open"
    /\ "champion_case_drafted" \in flags
    /\ deptAge # NoDept
    /\ LogLive
    /\ recorded' = [facts |-> factsMet, sustained |-> Sustained]
    /\ \/ ExitTestMet /\ Close("completed_successfully") /\ HandOver
       \/ ~ExitTestMet /\ GivenUp /\ Close("stalled_department_did_not_stick")
              /\ UNCHANGED onboardings
       \/ ~ExitTestMet /\ ~GivenUp /\ UNCHANGED <<status, outcome, onboardings>>
    /\ UNCHANGED <<accountVars, sinceCase>>

ProcessRun ==
    RefuseGate \/ RouteToSales \/ DraftChampionCase \/ AwaitLaunch \/ TrackPilot

-----------------------------------------------------------------------------
(* Time and the account *)

Midnight ==
    /\ deptAge' = IF deptAge \in 0..(StickDays - 1) THEN deptAge + 1 ELSE deptAge
    /\ sinceCase' = IF "champion_case_drafted" \in flags /\ sinceCase < NoLaunchDays
                    THEN sinceCase + 1 ELSE sinceCase
    /\ UNCHANGED <<gateMet, newHolder, factsMet, rated, status, outcome, flags,
                   recorded, queued, onboardings>>

\* The department starts or is renamed, or the plan names another one, which
\* may have existed for long.
SetTarget ==
    /\ deptAge' \in {NoDept} \cup 0..StickDays
    /\ UNCHANGED <<gateMet, newHolder, factsMet, rated, runVars>>

\* Health, usage, value docs, the plan's judgment fields and the tier.
AccountChanges ==
    /\ gateMet' \in BOOLEAN
    /\ newHolder' \in BOOLEAN
    /\ factsMet' \in BOOLEAN
    /\ rated' \in BOOLEAN
    /\ UNCHANGED <<deptAge, runVars>>

Next == OpenRun \/ ProcessRun \/ Midnight \/ SetTarget \/ AccountChanges

Spec == Init /\ [][Next]_vars

\* Days pass, and the job runs again after any failed night.
FairSpec == Spec /\ WF_vars(Midnight) /\ WF_vars(ProcessRun)

-----------------------------------------------------------------------------
(* Properties *)

TypeOK ==
    /\ gateMet \in BOOLEAN /\ newHolder \in BOOLEAN /\ factsMet \in BOOLEAN
    /\ rated \in BOOLEAN
    /\ deptAge \in {NoDept} \cup 0..StickDays
    /\ status \in {"none", "open", "closed"}
    /\ outcome \in Outcomes \cup {NoOutcome}
    /\ outcome \in Outcomes <=> status = "closed"
    /\ flags \subseteq {"gate_checked", "gate_qualified", "champion_case_drafted",
                        "department_live_logged"}
    /\ sinceCase \in 0..NoLaunchDays
    /\ recorded \in [facts : BOOLEAN, sustained : BOOLEAN]
    /\ queued \in [ActionTypes -> Nat]
    /\ onboardings \in Nat

\* "Closes immediately, undrafted, if it doesn't clear" and "a new budget
\* holder hands to Sales": the champion is asked only for plays that were
\* neither refused nor routed, and a pilot is only ever tracked, or handed
\* over, behind that one request.
NothingUngated ==
    /\ queued["expansion_champion_case"] > 0 =>
          /\ queued["expansion_gate_not_met"] = 0
          /\ queued["expansion_route_to_sales"] = 0
    /\ queued["expansion_department_live"] > 0 \/ onboardings > 0 =>
          queued["expansion_champion_case"] = 1

\* Each message of the play once, although target, gate and department may
\* come and go between two nights.
QueuedOnce == \A type \in ActionTypes : queued[type] <= 1

\* "A new department triggers a full Play 1 run": the onboarding play comes
\* at most once, from a play that is closed as completed, on a department
\* that was seen live and met the whole exit test.
HandOverIsEarned ==
    onboardings > 0 =>
        /\ onboardings = 1
        /\ outcome = "completed_successfully"
        /\ recorded.facts /\ recorded.sustained
        /\ queued["expansion_department_live"] = 1

\* "Every play run needs a logged outcome": once the target stays what it
\* is, on an account within the matrix's tiers, the play is closed.
TargetSettles ==
    <>[][deptAge # NoDept /\ deptAge' > deptAge]_deptAge
ExpansionCloses ==
    TargetSettles /\ <>[]rated => (status = "open" ~> status = "closed")

\* The play_run keeps the promises of PlayRun: in particular no night adds
\* an action to a closed play, and none closes it again.
Record == INSTANCE PlayRun WITH
    rows <- queued["expansion_gate_not_met"] + queued["expansion_route_to_sales"]
                + queued["expansion_champion_case"] + queued["expansion_department_live"]
RecordSpec == Record!Spec

=============================================================================
