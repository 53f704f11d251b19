------------------------- MODULE TriggerEvaluation -------------------------
(***************************************************************************)
(* The nightly trigger evaluation (signals/jobs/evaluate_triggers.py) over *)
(* the signals and play_runs tables.  One run is one database session: it  *)
(* visits every account, reads that account's committed rows, stages new   *)
(* signals and at most one play, and publishes everything in one commit.   *)
(* Postgres runs it at READ COMMITTED with no row locks and no uniqueness  *)
(* on open signals or open plays, so what a session read may be stale by   *)
(* the time it commits.                                                    *)
(*                                                                         *)
(* The agents' jobs run in sessions of their own.  Here they only close    *)
(* plays, and the expansion job may hand over to a fresh onboarding play.  *)
(*                                                                         *)
(* Nothing in the code ever sets Signal.resolved_at, so `signals' has no   *)
(* action that removes a row.                                              *)
(***************************************************************************)
EXTENDS Orchestrator

CONSTANTS
    Accounts,
    Candidates,      \* what the triggers can return: [type, subject] records
    Evaluators,      \* evaluation sessions that may be running at once
    MaxCrashes       \* bound: sessions lost to an exception or a killed task

ASSUME CandidatesAssumption ==
    \A candidate \in Candidates : candidate.type \in AllSignalTypes

ASSUME MaxCrashesAssumption == MaxCrashes \in Nat

VARIABLES
    firing,         \* firing[a]: what the triggers would return on a now
    rated,          \* rated[a]: the tier of a has a SignalSeverity (T4 has none)
    signals,        \* signals[a]: committed, unresolved signal rows
    openPlays,      \* openPlays[a][p]: committed open play_runs of play p
    running,        \* running[e]: session e has begun and not ended
    todo,           \* todo[e]: accounts e has not visited yet
    stagedSignals,  \* stagedSignals[e][a]: signal rows e has added
    stagedPlay,     \* stagedPlay[e][a]: the play e will open, or NoPlay
    handover,       \* handover[a]: what an open expansion session read
    crashes

sessionVars == <<running, todo, stagedSignals, stagedPlay>>
vars == <<firing, rated, signals, openPlays, sessionVars, handover, crashes>>

\* The answers of the expansion job's _has_open_play_run.
HandoverStates == {"idle", "open_onboarding", "close_only"}

Init ==
    /\ firing = [a \in Accounts |-> {}]
    /\ rated = [a \in Accounts |-> TRUE]
    /\ signals = [a \in Accounts |-> {}]
    /\ openPlays = [a \in Accounts |-> [p \in PlayTypes |-> 0]]
    /\ running = [e \in Evaluators |-> FALSE]
    /\ todo = [e \in Evaluators |-> {}]
    /\ stagedSignals = [e \in Evaluators |-> [a \in Accounts |-> {}]]
    /\ stagedPlay = [e \in Evaluators |-> [a \in Accounts |-> NoPlay]]
    /\ handover = [a \in Accounts |-> "idle"]
    /\ crashes = 0

-----------------------------------------------------------------------------
(* Reads *)

\* _open_signal_types
OpenSignalTypes(a) == TypesOf(signals[a])

\* Mutant: the query is restricted to the plays a trigger opens by rank.
HasOpenPlay_NotOnboarding(a) ==
    \E p \in PlayTypes \ {"onboarding"} : openPlays[a][p] > 0

\* _has_open_play_run
HasOpenPlay(a) == \E p \in PlayTypes : openPlays[a][p] > 0

\* The decision of process_account for the rows committed now.
NewSignalsOf(a) == NewSignals(firing[a], OpenSignalTypes(a))
PlayToOpenOn(a) == PlayToOpen(NewSignalsOf(a), HasOpenPlay(a))

\* SignalSeverity(tier) raises ValueError: T4 is a Tier but no severity.
SeverityUndefined(a) == ~rated[a] /\ NewSignalsOf(a) # {}

-----------------------------------------------------------------------------
(* The environment: usage, stakeholders, dates and documents change. *)

FactsChange(a) ==
    /\ \E found \in SUBSET Candidates : firing' = [firing EXCEPT ![a] = found]
    /\ UNCHANGED <<rated, signals, openPlays, sessionVars, handover, crashes>>

\* CS moves an account to T4 or back.
SetTier(a) ==
    /\ rated' = [rated EXCEPT ![a] = ~@]
    /\ UNCHANGED <<firing, signals, openPlays, sessionVars, handover, crashes>>

-----------------------------------------------------------------------------
(* The evaluation session *)

StartRun(e) ==
    /\ ~running[e]
    /\ running' = [running EXCEPT ![e] = TRUE]
    /\ todo' = [todo EXCEPT ![e] = Accounts]
    /\ UNCHANGED <<firing, rated, signals, openPlays, stagedSignals, stagedPlay,
                   handover, crashes>>

ProcessAccount(e, a) ==
    /\ running[e]
    /\ a \in todo[e]
    /\ ~SeverityUndefined(a)
    /\ todo' = [todo EXCEPT ![e] = @ \ {a}]
    /\ stagedSignals' = [stagedSignals EXCEPT ![e][a] = NewSignalsOf(a)]
    /\ stagedPlay' = [stagedPlay EXCEPT ![e][a] = PlayToOpenOn(a)]
    /\ UNCHANGED <<firing, rated, signals, openPlays, running, handover, crashes>>

\* The session is over and holds nothing.
EndSession(e) ==
    /\ running' = [running EXCEPT ![e] = FALSE]
    /\ todo' = [todo EXCEPT ![e] = {}]
    /\ stagedSignals' = [stagedSignals EXCEPT ![e] = [a \in Accounts |-> {}]]
    /\ stagedPlay' = [stagedPlay EXCEPT ![e] = [a \in Accounts |-> NoPlay]]

\* Mutant: the play is published, its signal rows are not.
Commit_PlaysOnly(e) ==
    /\ running[e]
    /\ todo[e] = {}
    /\ openPlays' = [a \in Accounts |-> [p \in PlayTypes |->
                        IF stagedPlay[e][a] = p THEN openPlays[a][p] + 1
                                                ELSE openPlays[a][p]]]
    /\ EndSession(e)
    /\ UNCHANGED <<firing, rated, signals, handover, crashes>>

\* One commit for the whole portfolio, after the last account.
Commit(e) ==
    /\ running[e]
    /\ todo[e] = {}
    /\ signals' = [a \in Accounts |-> signals[a] \cup stagedSignals[e][a]]
    /\ openPlays' = [a \in Accounts |-> [p \in PlayTypes |->
                        IF stagedPlay[e][a] = p THEN openPlays[a][p] + 1
                                                ELSE openPlays[a][p]]]
    /\ EndSession(e)
    /\ UNCHANGED <<firing, rated, handover, crashes>>

\* The exception leaves run() through its finally: everything rolls back.
AbortOnTier(e, a) ==
    /\ running[e]
    /\ a \in todo[e]
    /\ SeverityUndefined(a)
    /\ EndSession(e)
    /\ UNCHANGED <<firing, rated, signals, openPlays, handover, crashes>>

Crash(e) ==
    /\ running[e]
    /\ crashes < MaxCrashes
    /\ crashes' = crashes + 1
    /\ EndSession(e)
    /\ UNCHANGED <<firing, rated, signals, openPlays, handover>>

-----------------------------------------------------------------------------
(* The agents' sessions *)

\* A play reaches an outcome: its agent's job sets closed_at.
CloseByAgent(a, p) ==
    /\ openPlays[a][p] > 0
    /\ p = "expansion" => handover[a] = "idle"
    /\ openPlays' = [openPlays EXCEPT ![a][p] = @ - 1]
    /\ UNCHANGED <<firing, rated, signals, sessionVars, handover, crashes>>

\* An expansion that met its exit test: its session has closed its own
\* row, uncommitted, when it asks whether any other play is open.
ExpansionReads(a) ==
    /\ handover[a] = "idle"
    /\ openPlays[a]["expansion"] > 0
    /\ LET otherOpen == \E p \in PlayTypes :
               openPlays[a][p] > (IF p = "expansion" THEN 1 ELSE 0)
       IN  handover' = [handover EXCEPT ![a] =
                            IF otherOpen THEN "close_only" ELSE "open_onboarding"]
    /\ UNCHANGED <<firing, rated, signals, openPlays, sessionVars, crashes>>

ExpansionCommits(a) ==
    /\ handover[a] # "idle"
    /\ openPlays' = [openPlays EXCEPT
           ![a]["expansion"] = @ - 1,
           ![a]["onboarding"] = IF handover[a] = "open_onboarding" THEN @ + 1
                                                                   ELSE @]
    /\ handover' = [handover EXCEPT ![a] = "idle"]
    /\ UNCHANGED <<firing, rated, signals, sessionVars, crashes>>

-----------------------------------------------------------------------------

Evaluation(e) ==
    \/ StartRun(e)
    \/ \E a \in Accounts : ProcessAccount(e, a) \/ AbortOnTier(e, a)
    \/ Commit(e)

Agents(a) ==
    \/ \E p \in PlayTypes : CloseByAgent(a, p)
    \/ ExpansionReads(a)
    \/ ExpansionCommits(a)

Next ==
    \/ \E e \in Evaluators : Evaluation(e) \/ Crash(e)
    \/ \E a \in Accounts : FactsChange(a) \/ SetTier(a) \/ Agents(a)

Spec == Init /\ [][Next]_vars

\* The scheduler starts the job every night and a run that does not crash
\* ends; every play's job runs nightly too.  Customers owe us nothing.
Fairness ==
    /\ \A e \in Evaluators : WF_vars(Evaluation(e))
    /\ \A a \in Accounts : WF_vars(Agents(a))

FairSpec == Spec /\ Fairness

-----------------------------------------------------------------------------
(* Properties *)

TypeOK ==
    /\ firing \in [Accounts -> SUBSET Candidates]
    /\ rated \in [Accounts -> BOOLEAN]
    /\ signals \in [Accounts -> SUBSET Candidates]
    /\ openPlays \in [Accounts -> [PlayTypes -> Nat]]
    /\ running \in [Evaluators -> BOOLEAN]
    /\ todo \in [Evaluators -> SUBSET Accounts]
    /\ stagedSignals \in [Evaluators -> [Accounts -> SUBSET Candidates]]
    /\ stagedPlay \in [Evaluators -> [Accounts -> PlayTypes \cup {NoPlay}]]
    /\ handover \in [Accounts -> HandoverStates]
    /\ crashes \in 0..MaxCrashes

\* At most one evaluation session ever exists, the deployment's intent.
SerialEvaluators == \A e, f \in Evaluators : e = f

\* "At most one open play_run per account regardless of play"
\* (README.md, Known scope decisions), in the committed rows.
OneOpenPlay ==
    \A a \in Accounts : \A p, q \in PlayTypes :
        /\ openPlays[a][p] <= 1
        /\ openPlays[a][p] > 0 /\ openPlays[a][q] > 0 => p = q

\* The console can always say why a play is open: a decay, renewal or
\* expansion play never stands on an account without a signal of its own
\* kind, whatever crashed or closed in between.
PlayHasItsSignal ==
    \A a \in Accounts, p \in PlayTypes \ {"onboarding"} :
        openPlays[a][p] > 0 =>
            \E row \in signals[a] : PlayForSignalType(row.type) = p

\* Deduplication across nights: once a type is open on an account no later
\* commit adds a row of that type (decide's already_open_signal_types).
NoRepeatedSignal ==
    [][\A a \in Accounts : \A row \in signals'[a] \ signals[a] :
           row.type \notin OpenSignalTypes(a)]_vars

\* PLAY_PRIORITY through the commit: when a commit records a decay signal
\* and opens a play on that account, the play is the decay play.
DecayWins ==
    [][\A a \in Accounts, p \in PlayTypes :
           /\ openPlays'[a][p] > openPlays[a][p]
           /\ TypesOf(signals'[a] \ signals[a]) \cap DecayTypes # {}
           => p = "decay"]_vars

Recorded(a) ==
    \A type \in TypesOf(Candidates) :
        []<>(type \notin TypesOf(firing[a]) \/ type \in OpenSignalTypes(a))

\* Every trigger that keeps firing is recorded (BUILD-PROMPT.md section 6:
\* "Each fires a typed signal"), despite lost runs, if in the end nobody in
\* the portfolio is T4.
FiringIsRecorded ==
    (\A a \in Accounts : <>[]rated[a]) => \A a \in Accounts : Recorded(a)

\* The same for an account by itself: its own tier should be all it takes.
OwnTierIsEnough ==
    \A a \in Accounts : <>[]rated[a] => Recorded(a)

\* Committed plays implement the abstract life cycle.
Lifecycle == INSTANCE PlayLifecycle WITH
    open <- [a \in Accounts |-> {p \in PlayTypes : openPlays[a][p] > 0}]
LifecycleSpec == Lifecycle!Spec

=============================================================================
