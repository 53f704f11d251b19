----------------------------- MODULE DecayPlay -----------------------------
(***************************************************************************)
(* The decay plays of a portfolio (agents/decay/agent.py) and their one    *)
(* nightly job (agents/jobs/run_decay_agent.py).  The job is one session   *)
(* with two commits: it diagnoses every open play that has no action row   *)
(* yet, commits, then judges every diagnosed play whose recovery window    *)
(* has passed, and commits again.  An exception anywhere ends the session; *)
(* what was not committed is lost, for every play of the batch.            *)
(***************************************************************************)
EXTENDS Integers

CONSTANTS
    Plays,         \* bound: the decay play_runs that can exist
    RecoveryDays,  \* recovery_window_days, 90
    Counts,        \* 90-day campaign counts
    MaxCrashes     \* bound: sessions lost other than to a T4 account

ASSUME DecayAssumption ==
    /\ RecoveryDays \in Nat \ {0}
    /\ Counts \subseteq Nat
    /\ MaxCrashes \in Nat

VARIABLES
    status,    \* status[p] of the play_run
    outcome,
    age,       \* age[p]: days since opened_at, up to RecoveryDays
    baseline,  \* baseline[p]: baseline_prior_90d_count, once diagnosed
    rows,      \* rows[p]: Action rows that name p
    rated,     \* rated[p]: its account's tier has a column in the matrix
    phase,     \* of the job: "idle", "diagnosing", "judging"
    elapsed,   \* the plays past their window on the job's as_of
    todo,      \* the plays the current query returned, not visited yet
    staged,    \* staged[p]: what the session decided on p, or Nothing
    crashes

playVars == <<status, outcome, age, baseline, rows>>
jobVars == <<phase, elapsed, todo, staged>>
vars == <<playVars, rated, jobVars, crashes>>

NoOutcome == "none"
Outcomes == {"no_intervention_seasonal", "recovered", "unrecovered"}

NotDiagnosed == -1

Nothing == [result |-> "none", baseline |-> NotDiagnosed]
Seasonal == [result |-> "no_intervention_seasonal", baseline |-> NotDiagnosed]
ActionCreated(count) == [result |-> "action_created", baseline |-> count]

Init ==
    /\ status = [p \in Plays |-> "none"]
    /\ outcome = [p \in Plays |-> NoOutcome]
    /\ age = [p \in Plays |-> 0]
    /\ baseline = [p \in Plays |-> NotDiagnosed]
    /\ rows = [p \in Plays |-> 0]
    /\ rated = [p \in Plays |-> TRUE]
    /\ phase = "idle"
    /\ elapsed = {}
    /\ todo = {}
    /\ staged = [p \in Plays |-> Nothing]
    /\ crashes = 0

-----------------------------------------------------------------------------
(* The queries *)

\* Mutant: the plays with an action row are not left out.
Unprocessed_AllOpen == {p \in Plays : status[p] = "open"}

\* _unprocessed_open_decay_play_runs
Unprocessed == {p \in Plays : status[p] = "open" /\ rows[p] = 0}

\* Mutant: the closed_at filter is missing.
Judgeable_Closed == {p \in Plays : baseline[p] # NotDiagnosed}

\* The candidates of close_recovered_or_stale_play_runs: open, onset known.
Judgeable == {p \in Plays : status[p] = "open" /\ baseline[p] # NotDiagnosed}

-----------------------------------------------------------------------------
(* The job *)

\* Mutant: a job with nothing to diagnose returns at once.
StartJob_NothingToDo ==
    /\ phase = "idle"
    /\ Unprocessed # {}
    /\ phase' = "diagnosing"
    /\ elapsed' = {p \in Plays : age[p] >= RecoveryDays}
    /\ todo' = Unprocessed
    /\ UNCHANGED <<playVars, rated, staged, crashes>>

StartJob ==
    /\ phase = "idle"
    /\ phase' = "diagnosing"
    /\ elapsed' = {p \in Plays : age[p] >= RecoveryDays}
    /\ todo' = Unprocessed
    /\ UNCHANGED <<playVars, rated, staged, crashes>>

\* The seasonal branch closes the play, leaves the onset unrecorded and
\* resolves no autonomy level, so a T4 account does not disturb it.
DiagnoseSeasonal(p) ==
    /\ phase = "diagnosing"
    /\ p \in todo
    /\ todo' = todo \ {p}
    /\ staged' = [staged EXCEPT ![p] = Seasonal]
    /\ UNCHANGED <<playVars, rated, phase, elapsed, crashes>>

\* Every other cause adds one action row and records the baseline.
Diagnose(p) ==
    /\ phase = "diagnosing"
    /\ p \in todo
    /\ rated[p]
    /\ todo' = todo \ {p}
    /\ \E count \in Counts : staged' = [staged EXCEPT ![p] = ActionCreated(count)]
    /\ UNCHANGED <<playVars, rated, phase, elapsed, crashes>>

\* At least 90% of a positive baseline.
Verdict(count, base) ==
    [result |-> IF base > 0 /\ 10 * count >= 9 * base THEN "recovered" ELSE "unrecovered",
     baseline |-> base]

\* Mutant: the window is not looked at.
Judge_AnyAge(p) ==
    /\ phase = "judging"
    /\ p \in todo
    /\ todo' = todo \ {p}
    /\ \E count \in Counts : staged' = [staged EXCEPT ![p] = Verdict(count, baseline[p])]
    /\ UNCHANGED <<playVars, rated, phase, elapsed, crashes>>

\* Without its window a play counts as still open and nothing is staged.
Judge(p) ==
    /\ phase = "judging"
    /\ p \in todo
    /\ todo' = todo \ {p}
    /\ \/ /\ p \in elapsed
          /\ \E count \in Counts :
                 staged' = [staged EXCEPT ![p] = Verdict(count, baseline[p])]
       \/ p \notin elapsed /\ UNCHANGED staged
    /\ UNCHANGED <<playVars, rated, phase, elapsed, crashes>>

EndSession ==
    /\ phase' = "idle"
    /\ elapsed' = {}
    /\ todo' = {}
    /\ staged' = [p \in Plays |-> Nothing]

\* What a commit writes to the rows of each play.
Publish ==
    LET Closes(p)    == staged[p].result \in Outcomes
        Diagnosed(p) == staged[p].result = "action_created"
    IN  /\ status' = [p \in Plays |-> IF Closes(p) THEN "closed" ELSE status[p]]
        /\ outcome' = [p \in Plays |-> IF Closes(p) THEN staged[p].result ELSE outcome[p]]
        /\ baseline' = [p \in Plays |-> IF Diagnosed(p) THEN staged[p].baseline
                                                       ELSE baseline[p]]
        /\ rows' = [p \in Plays |-> IF Diagnosed(p) THEN rows[p] + 1 ELSE rows[p]]

\* The first commit, and the query of the second half behind it.
CommitDiagnoses ==
    /\ phase = "diagnosing"
    /\ todo = {}
    /\ Publish
    /\ phase' = "judging"
    /\ todo' = Judgeable'
    /\ staged' = [p \in Plays |-> Nothing]
    /\ UNCHANGED <<age, rated, elapsed, crashes>>

CommitVerdicts ==
    /\ phase = "judging"
    /\ todo = {}
    /\ Publish
    /\ EndSession
    /\ UNCHANGED <<age, rated, crashes>>

\* resolve_autonomy raises: the whole batch of diagnoses rolls back, and
\* the second half is not reached.
AbortOnTier(p) ==
    /\ phase = "diagnosing"
    /\ p \in todo
    /\ ~rated[p]
    /\ EndSession
    /\ UNCHANGED <<playVars, rated, crashes>>

\* A failed model call, a lost connection, a killed task.
Crash ==
    /\ phase # "idle"
    /\ crashes < MaxCrashes
    /\ crashes' = crashes + 1
    /\ EndSession
    /\ UNCHANGED <<playVars, rated>>

-----------------------------------------------------------------------------
(* Time, CS, and the trigger evaluation that opens the plays *)

OpenRun(p) ==
    /\ status[p] = "none"
    /\ status' = [status EXCEPT ![p] = "open"]
    /\ UNCHANGED <<outcome, age, baseline, rows, rated, jobVars, crashes>>

Midnight ==
    /\ age' = [p \in Plays |-> IF status[p] = "open" /\ age[p] < RecoveryDays
                               THEN age[p] + 1 ELSE age[p]]
    /\ UNCHANGED <<status, outcome, baseline, rows, rated, jobVars, crashes>>

SetTier(p) ==
    /\ rated' = [rated EXCEPT ![p] = ~@]
    /\ UNCHANGED <<playVars, jobVars, crashes>>

-----------------------------------------------------------------------------

JobStep ==
    \/ StartJob
    \/ \E p \in Plays : \/ DiagnoseSeasonal(p)
                        \/ Diagnose(p)
                        \/ Judge(p)
                        \/ AbortOnTier(p)
    \/ CommitDiagnoses
    \/ CommitVerdicts

Next ==
    \/ JobStep
    \/ Crash
    \/ \E p \in Plays : OpenRun(p) \/ SetTier(p)
    \/ Midnight

Spec == Init /\ [][Next]_vars

\* The job starts every night and a run that is not lost ends.
FairSpec == Spec /\ WF_vars(JobStep) /\ WF_vars(Midnight)

-----------------------------------------------------------------------------
(* Properties *)

Results == Outcomes \cup {"none", "action_created"}

TypeOK ==
    /\ status \in [Plays -> {"none", "open", "closed"}]
    /\ outcome \in [Plays -> Outcomes \cup {NoOutcome}]
    /\ age \in [Plays -> 0..RecoveryDays]
    /\ baseline \in [Plays -> Counts \cup {NotDiagnosed}]
    /\ rows \in [Plays -> Nat]
    /\ rated \in [Plays -> BOOLEAN]
    /\ phase \in {"idle", "diagnosing", "judging"}
    /\ elapsed \subseteq Plays
    /\ todo \subseteq Plays
    /\ staged \in [Plays -> [result : Results, baseline : Counts \cup {NotDiagnosed}]]
    /\ crashes \in 0..MaxCrashes

\* "Stops the job from re-diagnosing (and re-drafting) an account it already
\* processed": through crashes between and before the two commits, a
\* customer is contacted at most once per decay play.
DiagnosedOnce == \A p \in Plays : rows[p] <= 1

\* A play judged by its volume was diagnosed, has its action, had its whole
\* window, and recovered only from a decline: a zero baseline cannot
\* recover.  A seasonal play was left alone: no action stands behind it.
VerdictIsGrounded ==
    \A p \in Plays :
        /\ outcome[p] \in {"recovered", "unrecovered"} =>
              /\ rows[p] > 0
              /\ age[p] >= RecoveryDays
        /\ outcome[p] = "recovered" => baseline[p] > 0
        /\ outcome[p] = "no_intervention_seasonal" => rows[p] = 0

\* "The play's exit test requires one or the other, not an indefinitely open
\* play_run": every decay play is closed, whatever runs were lost, once no
\* account of the batch is T4 any more.
EveryPlayCloses ==
    (<>[]\A p \in Plays : rated[p]) =>
        \A p \in Plays : status[p] = "open" ~> status[p] = "closed"

\* Each play_run keeps the promises of PlayRun: in particular no commit adds
\* an action to a closed play, and none changes its outcome.
Record(p) == INSTANCE PlayRun WITH
    status <- status[p], outcome <- outcome[p], rows <- rows[p]
RecordSpec ==
    /\ \A p \in Plays : Record(p)!Init
    /\ [][\A p \in Plays : Record(p)!Step]_vars

=============================================================================
