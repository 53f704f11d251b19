------------------------------ MODULE Coverage ------------------------------
(***************************************************************************)
(* Coverage elevations of one account: the six checks of                   *)
(* signals/coverage.py and the open-then-close pass the nightly job makes  *)
(* over coverage_elevations (signals/jobs/evaluate_triggers.py).           *)
(*                                                                         *)
(* Dates are kept relative to today, so time is unbounded: `age' is days   *)
(* since contract start, `deptAge' days since the newest department,       *)
(* `daysOut' days to the renewal reference (-1: past, or none set), and a  *)
(* row's `left' the days to its expires_at (-1: overdue).  Each saturates  *)
(* where no check tells larger values apart.  Two rows that agree on the   *)
(* trigger and on the days left are one element of `active'.               *)
(***************************************************************************)
EXTENDS Integers

CONSTANTS
    FirstDays, ChampionDays, RecentDays, RenewalDays,  \* 90, 30, 14, 90
    DepartmentDays, ReferenceDays,  \* the two *_APPROX_DAYS: 60, 90
    Volatile,        \* bound: the facts that change in this instance
    MaxRunsPerDay    \* bound: 1 is the schedule, more are reruns by hand

ASSUME CoverageAssumption ==
    /\ \A days \in {FirstDays, ChampionDays, RecentDays, RenewalDays,
                    DepartmentDays, ReferenceDays} : days \in Nat
    /\ FirstDays > 0 /\ ChampionDays > 0 /\ DepartmentDays > 0 /\ ReferenceDays > 0
    /\ MaxRunsPerDay \in Nat \ {0}

VARIABLES
    tier, age, band, deptAge, daysOut,
    departed,   \* some champion has departed_at set
    willing,    \* some present champion is reference_willing
    active,     \* the unresolved coverage_elevations rows
    runs        \* job runs so far today

facts == <<tier, age, band, deptAge, daysOut, departed, willing>>
coverageVars == <<facts, active, runs>>

Triggers == {"first_90_days", "health_critical", "champion_departure",
             "new_department_launching", "renewal_within_90_days",
             "reference_candidate"}

\* Classes no check tells apart: T1 stands for T2, T3 for T4, and "watch"
\* for at_risk and for an account without a band.
Tiers == {"T1", "T3"}
HealthBands == {"healthy", "watch", "critical"}

CoverageInit ==
    /\ tier \in Tiers
    /\ age \in -1..(FirstDays + 1)
    /\ band = "healthy"
    /\ deptAge = RecentDays + 1
    /\ daysOut = -1
    /\ departed = FALSE
    /\ willing = FALSE
    /\ active = {}
    /\ runs = 0

-----------------------------------------------------------------------------
(* The nightly job *)

\* Mutant: the renewal check forgets its 90-day window.
Fires_AnyRenewalDate == [
    first_90_days            |-> tier = "T1" /\ age \in 0..FirstDays,
    health_critical          |-> band = "critical",
    champion_departure       |-> departed,
    new_department_launching |-> deptAge \in 0..RecentDays,
    renewal_within_90_days   |-> daysOut >= 0,
    reference_candidate      |-> band = "healthy" /\ willing]

\* The six check_* functions.
Fires == [
    first_90_days            |-> tier = "T1" /\ age \in 0..FirstDays,
    health_critical          |-> band = "critical",
    champion_departure       |-> departed,
    new_department_launching |-> deptAge \in 0..RecentDays,
    renewal_within_90_days   |-> daysOut \in 0..RenewalDays,
    reference_candidate      |-> band = "healthy" /\ willing]

\* Days to expires_at of a row opened today; a health_critical row has no
\* expires_at, and its 0 is never counted down or looked at.
Duration == [
    first_90_days            |-> FirstDays,
    health_critical          |-> 0,
    champion_departure       |-> ChampionDays,
    new_department_launching |-> DepartmentDays,
    renewal_within_90_days   |-> daysOut,
    reference_candidate      |-> ReferenceDays]

OnCalendar(row) == row.trigger # "health_critical"

ActiveTriggers == {row.trigger : row \in active}

\* Mutants: the condition is not checked; neither is the calendar.
MustClose_CalendarOnly == {row \in active : OnCalendar(row) /\ row.left < 0}
MustClose_ConditionOnly == {row \in active : ~OnCalendar(row) /\ band # "critical"}

\* Rows closed whatever the time of day: overdue, or no longer critical.
MustClose ==
    {row \in active : IF OnCalendar(row) THEN row.left < 0 ELSE band # "critical"}

\* Rows expiring today, at the time of day of the run that opened them.
MayClose == {row \in active : OnCalendar(row) /\ row.left <= 0}

\* Mutant: nothing is deduplicated.
Opened_NoDedup ==
    {[trigger |-> t, left |-> Duration[t]] : t \in {u \in Triggers : Fires[u]}}

\* _maybe_open, for each check: no second active row of a trigger.
Opened ==
    LET fires == Fires
        days  == Duration
        held  == ActiveTriggers
    IN  {[trigger |-> t, left |-> days[t]] :
            t \in {u \in Triggers : fires[u] /\ u \notin held}}

\* The close loop runs over the rows fetched before anything was opened.
Job ==
    /\ runs < MaxRunsPerDay
    /\ runs' = runs + 1
    /\ UNCHANGED facts
    /\ \E closed \in SUBSET MayClose :
           active' = (active \ (MustClose \cup closed)) \cup Opened

-----------------------------------------------------------------------------
(* Time and the account *)

Capped(n, cap) == IF n < cap THEN n + 1 ELSE cap
CountDown(n) == IF n > 0 THEN n - 1 ELSE -1

DayPasses ==
    /\ age' = Capped(age, FirstDays + 1)
    /\ deptAge' = Capped(deptAge, RecentDays + 1)
    /\ daysOut' = CountDown(daysOut)
    /\ active' = {IF OnCalendar(row) THEN [row EXCEPT !.left = CountDown(@)]
                                     ELSE row : row \in active}
    /\ runs' = 0
    /\ UNCHANGED <<tier, band, departed, willing>>

\* Ingest writes a version with another contract_start.
SetContractStart ==
    /\ "contract" \in Volatile
    /\ age' \in -1..(FirstDays + 1)
    /\ UNCHANGED <<tier, band, deptAge, daysOut, departed, willing, active, runs>>

SetTier ==
    /\ "tier" \in Volatile
    /\ tier' \in Tiers
    /\ UNCHANGED <<age, band, deptAge, daysOut, departed, willing, active, runs>>

SetBand ==
    /\ "band" \in Volatile
    /\ band' \in HealthBands
    /\ UNCHANGED <<tier, age, deptAge, daysOut, departed, willing, active, runs>>

ChampionDeparts ==
    /\ "departed" \in Volatile
    /\ departed' = TRUE
    /\ UNCHANGED <<tier, age, band, deptAge, daysOut, willing, active, runs>>

SetReferenceWilling ==
    /\ "willing" \in Volatile
    /\ willing' \in BOOLEAN
    /\ UNCHANGED <<tier, age, band, deptAge, daysOut, departed, active, runs>>

LaunchDepartment ==
    /\ "department" \in Volatile
    /\ deptAge' = 0
    /\ UNCHANGED <<tier, age, band, daysOut, departed, willing, active, runs>>

SetReference ==
    /\ "reference" \in Volatile
    /\ daysOut' \in -1..(RenewalDays + 1)
    /\ UNCHANGED <<tier, age, band, deptAge, departed, willing, active, runs>>

FactsChange == SetContractStart \/ SetTier \/ SetBand \/ ChampionDeparts
                   \/ SetReferenceWilling \/ LaunchDepartment \/ SetReference

CoverageNext == Job \/ DayPasses \/ FactsChange

CoverageSpec == CoverageInit /\ [][CoverageNext]_coverageVars

\* Days pass and the scheduled task does not stay down for ever.
FairSpec == CoverageSpec /\ WF_coverageVars(DayPasses) /\ WF_coverageVars(Job)

-----------------------------------------------------------------------------
(* Properties *)

MaxLeft ==
    CHOOSE m \in {FirstDays, ChampionDays, DepartmentDays, ReferenceDays, RenewalDays} :
        \A n \in {FirstDays, ChampionDays, DepartmentDays, ReferenceDays, RenewalDays} :
            n <= m

CoverageTypeOK ==
    /\ tier \in Tiers /\ band \in HealthBands /\ departed \in BOOLEAN /\ willing \in BOOLEAN
    /\ age \in -1..(FirstDays + 1)
    /\ deptAge \in 0..(RecentDays + 1)
    /\ daysOut \in -1..(RenewalDays + 1)
    /\ active \subseteq [trigger : Triggers, left : -1..MaxLeft]
    /\ runs \in 0..MaxRunsPerDay

\* However opening, expiring and re-firing interleave over the days, an
\* account never carries two active elevations for one trigger.
OneActivePerTrigger ==
    \A row, other \in active : row.trigger = other.trigger => row = other

\* core/models/coverage.py: the condition-based rows "are closed out by the
\* nightly job checking the condition directly": after a run the account is
\* elevated for Critical health exactly if it is Critical.
CriticalTracksBand ==
    [][runs' > runs =>
            ("health_critical" \in ActiveTriggers' <=> band = "critical")]_coverageVars

ElevatedFor(t) == t \in ActiveTriggers

\* "Accounts can never stay elevated forever by accident"
\* (core/models/coverage.py): unless the contract start is moved for ever,
\* the first-90-days elevation is over one day, for good, even if it was
\* opened late or twice; and a renewal elevation opened against one date
\* never outlives all later dates: however often the date moves, there are
\* nights without it.
ElevationsEnd ==
    /\ <>[][age' >= age]_age => <>[]~ElevatedFor("first_90_days")
    /\ []<>~ElevatedFor("renewal_within_90_days")

=============================================================================
