------------------------------ MODULE Reporting ------------------------------
(***************************************************************************)
(* The cadenced reviews of the portfolio analyst: report_due in            *)
(* agents/portfolio_analyst/agent.py and the job around it,                *)
(* agents/jobs/run_portfolio_analyst.py.  A run is for a date (as_of),     *)
(* today's unless it fills in for a past one; what it writes is stamped    *)
(* with the clock, and drafting takes long enough for midnight to pass.    *)
(* One commit at the end keeps every report of the run or none; runs may   *)
(* overlap.  What a review says of its period is left out.                 *)
(***************************************************************************)
EXTENDS Integers, FiniteSetsExt, SequencesExt

CONSTANTS
    Runs,           \* sessions of the job that may be open at once
    ReportTypes,    \* sequence of the report types, in the job's order
    Cadence,        \* CADENCE_DAYS: 7, 14, 30 and 90
    MaxRuns,        \* bound: runs altogether
    Horizon         \* bound: the last day

\* The job has one block for each type.
ASSUME ReportingAssumption ==
    /\ ReportTypes \in Seq(Range(ReportTypes)) /\ IsInjective(ReportTypes)
    /\ Cadence \in [Range(ReportTypes) -> Nat \ {0}]
    /\ MaxRuns \in Nat /\ Horizon \in Nat

VARIABLES
    today,          \* the clock's date
    reports,        \* committed: [type, asOf, generated, began, commit]
    run,            \* the session of each run: [at, asOf, onTime, began, drafts]
    starts,         \* runs so far
    commits,        \* history: commits that brought reports
    ran,            \* history: the dates whose run committed, fill-ins apart
    rivals          \* history: two runs have been open at once

vars == <<today, reports, run, starts, commits, ran, rivals>>

Closed == [at |-> 0]
Open == {r \in Runs : run[r] # Closed}

Init ==
    /\ today = 0
    /\ reports = {}
    /\ run = [r \in Runs |-> Closed]
    /\ starts = 0
    /\ commits = 0
    /\ ran = {}
    /\ rivals = FALSE

-----------------------------------------------------------------------------

Of(type) == {p \in reports : p.type = type}

\* Mutant: due only once the cadence has passed.
ReportDue_Exclusive(type, asOf) ==
    \A p \in Of(type) : asOf - p.generated > Cadence[type]

\* Mutant: compares with some report of the type, not with the latest.
ReportDue_AnyReport(type, asOf) ==
    \/ Of(type) = {}
    \/ \E p \in Of(type) : asOf - p.generated >= Cadence[type]

\* report_due on the latest report of the type, if there is any: its cadence
\* has passed since that one, so since all of them.
ReportDue(type, asOf) ==
    \A p \in Of(type) : asOf - p.generated >= Cadence[type]

PeriodStart(p) == p.asOf - (Cadence[p.type] - 1)

StartRun(r) ==
    /\ run[r] = Closed
    /\ starts < MaxRuns /\ starts' = starts + 1
    /\ \E asOf \in 0..today :
           run' = [run EXCEPT ![r] = [at |-> 1, asOf |-> asOf,
                                      onTime |-> asOf = today,
                                      began |-> commits, drafts |-> {}]]
    /\ rivals' = (rivals \/ Open # {})
    /\ UNCHANGED <<today, reports, commits, ran>>

\* The job's block for its next report type: the latest report is read now,
\* what has been committed meanwhile included.
ReviewNext(r) ==
    LET type  == ReportTypes[run[r].at]
        draft == [type |-> type, asOf |-> run[r].asOf, generated |-> today]
    IN  /\ run[r] # Closed /\ run[r].at \in DOMAIN ReportTypes
        /\ run' = [run EXCEPT
                      ![r].at = @ + 1,
                      ![r].drafts = IF ReportDue(type, run[r].asOf)
                                    THEN @ \cup {draft} ELSE @]
        /\ UNCHANGED <<today, reports, starts, commits, ran, rivals>>

CommitRun(r) ==
    LET new == {[type |-> d.type, asOf |-> d.asOf, generated |-> d.generated,
                 began |-> run[r].began, commit |-> commits + 1] :
                   d \in run[r].drafts}
    IN  /\ run[r] # Closed /\ run[r].at > Len(ReportTypes)
        /\ reports' = reports \cup new
        /\ commits' = IF new = {} THEN commits ELSE commits + 1
        /\ ran' = IF run[r].onTime THEN ran \cup {run[r].asOf} ELSE ran
        /\ run' = [run EXCEPT ![r] = Closed]
        /\ UNCHANGED <<today, starts, rivals>>

\* The process, a model call or the connection fails: nothing is kept.
FailRun(r) ==
    /\ run[r] # Closed
    /\ run' = [run EXCEPT ![r] = Closed]
    /\ UNCHANGED <<today, reports, starts, commits, ran, rivals>>

Midnight ==
    /\ today < Horizon
    /\ today' = today + 1
    /\ UNCHANGED <<reports, run, starts, commits, ran, rivals>>

Next ==
    \/ \E r \in Runs : StartRun(r) \/ ReviewNext(r) \/ CommitRun(r) \/ FailRun(r)
    \/ Midnight

Spec == Init /\ [][Next]_vars

-----------------------------------------------------------------------------
(* Properties *)

TypeOK ==
    /\ today \in 0..Horizon
    /\ \A p \in reports :
           /\ p.type \in Range(ReportTypes)
           /\ p.asOf \in 0..p.generated /\ p.generated <= today
           /\ p.began < p.commit /\ p.commit <= commits
    /\ \A r \in Open :
           /\ run[r].at \in 1..Len(ReportTypes) + 1
           /\ run[r].asOf \in 0..today /\ run[r].began \in 0..commits
    /\ starts \in 0..MaxRuns
    /\ ran \subseteq 0..today

\* A review made by a run that began after another review was committed
\* covers only later days: no day is reported twice, whatever dates are
\* filled in and however often midnight passes during a run.
PeriodsAreDisjoint ==
    \A p, q \in reports :
        p.type = q.type /\ p.commit <= q.began => p.asOf < PeriodStart(q)

\* As long as runs do not overlap, the days between the periods of two
\* consecutive reviews are no more than the nights on which no run was made
\* for the day once the second was due, and the midnights the first took.
GapsAreExplained ==
    \A p, q \in reports :
        /\ ~rivals /\ p.type = q.type /\ p.commit < q.commit
        /\ \A between \in Of(p.type) :
               between.commit <= p.commit \/ q.commit <= between.commit
        => PeriodStart(q) - 1 - p.asOf
               <= (p.generated - p.asOf)
                  + Cardinality((p.generated + Cadence[p.type])..(q.asOf - 1) \ ran)

\* When a run for a date has committed, no type is due for that date: each
\* has a review made less than a cadence before it, by this run or another.
\* One made long after the date of a fill-in counts as well, as it does in
\* report_due.
FreshAfterRun ==
    [][\A r \in Runs : CommitRun(r) =>
           \A i \in DOMAIN ReportTypes :
               \E p \in reports' :
                   /\ p.type = ReportTypes[i]
                   /\ run[r].asOf - p.generated < Cadence[p.type]]_vars

=============================================================================
