-------------------------- MODULE DecayPlayProofs --------------------------
(***************************************************************************)
(* Proofs about DecayPlay for any set of plays, any window, any campaign   *)
(* counts and any number of lost sessions.  The properties rest on what a  *)
(* session may hold at each phase (SessionIsSound): what it staged and     *)
(* what it still has to visit concern open plays only, not diagnosed yet   *)
(* before the first commit, diagnosed and past their window after it.      *)
(***************************************************************************)
EXTENDS DecayPlay, TLAPS

RowsMatchBaseline ==
    \A p \in Plays : rows[p] = IF baseline[p] = NotDiagnosed THEN 0 ELSE 1

OutcomeMatchesStatus == \A p \in Plays : outcome[p] \in Outcomes <=> status[p] = "closed"

ElapsedHadTheirWindow == \A p \in elapsed : age[p] >= RecoveryDays

DiagnosingIsSound ==
    \A p \in Plays :
        /\ p \in todo => status[p] = "open" /\ rows[p] = 0
        /\ staged[p] # Nothing =>
              /\ status[p] = "open" /\ rows[p] = 0
              /\ staged[p] = Seasonal \/ \E count \in Counts : staged[p] = ActionCreated(count)

JudgingIsSound ==
    \A p \in Plays :
        /\ p \in todo => status[p] = "open" /\ baseline[p] # NotDiagnosed
        /\ staged[p] # Nothing =>
              /\ status[p] = "open" /\ baseline[p] # NotDiagnosed
              /\ p \in elapsed
              /\ staged[p].result \in {"recovered", "unrecovered"}
              /\ staged[p].result = "recovered" => baseline[p] > 0

SessionIsSound ==
    /\ phase = "idle" => staged = [p \in Plays |-> Nothing]
    /\ phase = "diagnosing" => DiagnosingIsSound
    /\ phase = "judging" => JudgingIsSound

\* Everything but the types; the auxiliary parts one step can disturb.
Sound ==
    /\ RowsMatchBaseline
    /\ OutcomeMatchesStatus
    /\ ElapsedHadTheirWindow
    /\ SessionIsSound
    /\ VerdictIsGrounded

IInv == TypeOK /\ Sound

-----------------------------------------------------------------------------
(* The values a session stages *)

LEMMA StagedValues ==
    /\ Nothing.result = "none" /\ Nothing.result \notin Outcomes
    /\ Seasonal.result = "no_intervention_seasonal"
    /\ Nothing \in [result : Results, baseline : Counts \cup {NotDiagnosed}]
    /\ Seasonal \in [result : Results, baseline : Counts \cup {NotDiagnosed}]
    /\ \A count \in Counts :
          /\ ActionCreated(count).result = "action_created"
          /\ ActionCreated(count).result \notin Outcomes
          /\ ActionCreated(count).baseline = count
          /\ ActionCreated(count) \in [result : Results, baseline : Counts \cup {NotDiagnosed}]
  BY DEF Nothing, Seasonal, ActionCreated, Results, Outcomes

LEMMA CountsAreKnown == \A count \in Counts : count \in Nat /\ count # NotDiagnosed
  BY DecayAssumption DEF NotDiagnosed

LEMMA VerdictValues ==
    ASSUME NEW count \in Counts, NEW base \in Counts \cup {NotDiagnosed}
    PROVE  /\ Verdict(count, base) \in [result : Results, baseline : Counts \cup {NotDiagnosed}]
           /\ Verdict(count, base).result \in {"recovered", "unrecovered"}
           /\ Verdict(count, base).result = "recovered" => base > 0
  BY DEF Verdict, Results, Outcomes

-----------------------------------------------------------------------------

LEMMA InitIInv == Init => IInv
  <1> SUFFICES ASSUME Init PROVE IInv
    OBVIOUS
  <1>1. TypeOK
    BY StagedValues, DecayAssumption DEF Init, TypeOK, NoOutcome
  <1>2. Sound
    BY DEF Init, Sound, RowsMatchBaseline, OutcomeMatchesStatus, ElapsedHadTheirWindow,
           SessionIsSound, VerdictIsGrounded, NoOutcome, Outcomes
  <1>3. QED  BY <1>1, <1>2 DEF IInv

\* Steps of a session that write nothing to the plays keep what was already
\* published sound.
LEMMA PublishedIsStable ==
    ASSUME Sound, UNCHANGED playVars
    PROVE  (RowsMatchBaseline /\ OutcomeMatchesStatus /\ VerdictIsGrounded)'
  BY DEF Sound, RowsMatchBaseline, OutcomeMatchesStatus, VerdictIsGrounded, playVars

LEMMA StartJobIInv == IInv /\ StartJob => IInv'
  <1> SUFFICES ASSUME IInv, StartJob PROVE IInv'
    OBVIOUS
  <1>1. TypeOK'
    BY DEF IInv, TypeOK, StartJob, Unprocessed, playVars
  <1>2. ElapsedHadTheirWindow'
    BY DEF StartJob, ElapsedHadTheirWindow, playVars
  <1>3. SessionIsSound'
    <2>1. DiagnosingIsSound'
      BY DEF IInv, Sound, SessionIsSound, StartJob, DiagnosingIsSound, Unprocessed, playVars
    <2>2. QED  BY <2>1 DEF SessionIsSound, StartJob
  <1>4. QED
    BY <1>1, <1>2, <1>3, PublishedIsStable DEF IInv, Sound, StartJob

\* Both ways to diagnose a play stage one decision about it.
LEMMA DiagnoseIInv ==
    ASSUME NEW p \in Plays, IInv, DiagnoseSeasonal(p) \/ Diagnose(p)
    PROVE  IInv'
  <1>1. PICK decision :
            /\ staged' = [staged EXCEPT ![p] = decision]
            /\ decision = Seasonal \/ \E count \in Counts : decision = ActionCreated(count)
    BY DEF DiagnoseSeasonal, Diagnose
  <1>2. /\ phase = "diagnosing" /\ p \in todo /\ todo' = todo \ {p}
        /\ UNCHANGED <<playVars, rated, phase, elapsed, crashes>>
    BY DEF DiagnoseSeasonal, Diagnose
  <1>3. decision \in [result : Results, baseline : Counts \cup {NotDiagnosed}]
    BY <1>1, StagedValues
  <1>4. TypeOK'
    <2>1. staged' \in [Plays -> [result : Results, baseline : Counts \cup {NotDiagnosed}]]
      BY <1>1, <1>3 DEF IInv, TypeOK
    <2>2. QED  BY <1>2, <2>1 DEF IInv, TypeOK, playVars
  <1>5. DiagnosingIsSound'
    <2> SUFFICES ASSUME NEW q \in Plays
                 PROVE  /\ (q \in todo => status[q] = "open" /\ rows[q] = 0)'
                        /\ (staged[q] # Nothing =>
                               /\ status[q] = "open" /\ rows[q] = 0
                               /\ \/ staged[q] = Seasonal
                                  \/ \E count \in Counts : staged[q] = ActionCreated(count))'
      BY DEF DiagnosingIsSound
    <2>1. DiagnosingIsSound
      BY <1>2 DEF IInv, Sound, SessionIsSound
    <2>2. CASE q = p
      BY <1>1, <1>2, <2>1, <2>2 DEF DiagnosingIsSound, IInv, TypeOK, playVars
    <2>3. CASE q # p
      BY <1>1, <1>2, <2>1, <2>3 DEF DiagnosingIsSound, IInv, TypeOK, playVars
    <2>4. QED  BY <2>2, <2>3
  <1>6. SessionIsSound' /\ ElapsedHadTheirWindow'
    BY <1>2, <1>5 DEF IInv, Sound, SessionIsSound, ElapsedHadTheirWindow, playVars
  <1>7. QED
    BY <1>2, <1>4, <1>6, PublishedIsStable DEF IInv, Sound

LEMMA JudgeIInv ==
    ASSUME NEW p \in Plays, IInv, Judge(p)
    PROVE  IInv'
  <1>1. /\ phase = "judging" /\ p \in todo /\ todo' = todo \ {p}
        /\ UNCHANGED <<playVars, rated, phase, elapsed, crashes>>
    BY DEF Judge
  <1>2. JudgingIsSound
    BY <1>1 DEF IInv, Sound, SessionIsSound
  <1>3. CASE p \in elapsed /\ \E count \in Counts :
                 staged' = [staged EXCEPT ![p] = Verdict(count, baseline[p])]
    <2>1. PICK count \in Counts : staged' = [staged EXCEPT ![p] = Verdict(count, baseline[p])]
      BY <1>3
    <2>2. baseline[p] \in Counts \cup {NotDiagnosed}
      BY DEF IInv, TypeOK
    <2>3. TypeOK'
      <3>1. staged' \in [Plays -> [result : Results, baseline : Counts \cup {NotDiagnosed}]]
        BY <2>1, <2>2, VerdictValues DEF IInv, TypeOK
      <3>2. QED  BY <1>1, <3>1 DEF IInv, TypeOK, playVars
    <2>4. JudgingIsSound'
      <3> SUFFICES ASSUME NEW q \in Plays
                   PROVE  /\ (q \in todo => status[q] = "open" /\ baseline[q] # NotDiagnosed)'
                          /\ (staged[q] # Nothing =>
                                 /\ status[q] = "open" /\ baseline[q] # NotDiagnosed
                                 /\ q \in elapsed
                                 /\ staged[q].result \in {"recovered", "unrecovered"}
                                 /\ staged[q].result = "recovered" => baseline[q] > 0)'
        BY DEF JudgingIsSound
      <3>1. CASE q = p
        <4>1. staged'[q] = Verdict(count, baseline[p])
          BY <2>1, <3>1 DEF IInv, TypeOK
        <4>2. QED
          BY <1>1, <1>2, <1>3, <2>2, <3>1, <4>1, VerdictValues DEF JudgingIsSound, playVars
      <3>2. CASE q # p
        BY <1>1, <1>2, <2>1, <3>2 DEF JudgingIsSound, IInv, TypeOK, playVars
      <3>3. QED  BY <3>1, <3>2
    <2>5. SessionIsSound' /\ ElapsedHadTheirWindow'
      BY <1>1, <2>4 DEF IInv, Sound, SessionIsSound, ElapsedHadTheirWindow, playVars
    <2>6. QED
      BY <1>1, <2>3, <2>5, PublishedIsStable DEF IInv, Sound
  <1>4. CASE UNCHANGED staged
    <2>1. TypeOK'
      BY <1>1, <1>4 DEF IInv, TypeOK, playVars
    <2>2. JudgingIsSound'
      BY <1>1, <1>2, <1>4 DEF JudgingIsSound, playVars
    <2>3. SessionIsSound' /\ ElapsedHadTheirWindow'
      BY <1>1, <2>2 DEF IInv, Sound, SessionIsSound, ElapsedHadTheirWindow, playVars
    <2>4. QED
      BY <1>1, <2>1, <2>3, PublishedIsStable DEF IInv, Sound
  <1>5. QED  BY <1>3, <1>4 DEF Judge

-----------------------------------------------------------------------------
(* The two commits *)

LEMMA PublishTypes ==
    ASSUME TypeOK, Publish
    PROVE  /\ status' \in [Plays -> {"none", "open", "closed"}]
           /\ outcome' \in [Plays -> Outcomes \cup {NoOutcome}]
           /\ baseline' \in [Plays -> Counts \cup {NotDiagnosed}]
           /\ rows' \in [Plays -> Nat]
  <1>1. \A p \in Plays : staged[p].baseline \in Counts \cup {NotDiagnosed}
    BY DEF TypeOK
  <1>2. status' \in [Plays -> {"none", "open", "closed"}]
    BY DEF TypeOK, Publish
  <1>3. outcome' \in [Plays -> Outcomes \cup {NoOutcome}]
    BY DEF TypeOK, Publish
  <1>4. baseline' \in [Plays -> Counts \cup {NotDiagnosed}]
    BY <1>1 DEF TypeOK, Publish
  <1>5. rows' \in [Plays -> Nat]
    BY DEF TypeOK, Publish
  <1>6. QED  BY <1>2, <1>3, <1>4, <1>5

\* What a commit makes of one play, read off Publish.
LEMMA PublishOne ==
    ASSUME NEW p \in Plays, Publish
    PROVE  /\ status'[p] = IF staged[p].result \in Outcomes THEN "closed" ELSE status[p]
           /\ outcome'[p] = IF staged[p].result \in Outcomes THEN staged[p].result
                                                             ELSE outcome[p]
           /\ baseline'[p] = IF staged[p].result = "action_created" THEN staged[p].baseline
                                                                    ELSE baseline[p]
           /\ rows'[p] = IF staged[p].result = "action_created" THEN rows[p] + 1 ELSE rows[p]
  BY DEF Publish

\* A play after the commit of the diagnoses: untouched, left alone as
\* seasonal, or diagnosed for the first time.
LEMMA DiagnosesOne ==
    ASSUME NEW p \in Plays, IInv, phase = "diagnosing", Publish
    PROVE  \/ /\ status'[p] = status[p] /\ outcome'[p] = outcome[p]
              /\ baseline'[p] = baseline[p] /\ rows'[p] = rows[p]
           \/ /\ status[p] = "open" /\ status'[p] = "closed"
              /\ outcome'[p] = "no_intervention_seasonal"
              /\ baseline'[p] = baseline[p] /\ rows'[p] = rows[p] /\ rows[p] = 0
           \/ /\ status[p] = "open" /\ status'[p] = status[p] /\ outcome'[p] = outcome[p]
              /\ baseline'[p] \in Counts /\ rows[p] = 0 /\ rows'[p] = 1
  <1>1. DiagnosingIsSound
    BY DEF IInv, Sound, SessionIsSound
  <1>2. CASE staged[p] = Nothing
    BY <1>2, PublishOne, StagedValues
  <1>3. CASE staged[p] = Seasonal
    <2>1. status[p] = "open" /\ rows[p] = 0
      BY <1>1, <1>3 DEF DiagnosingIsSound, Nothing, Seasonal
    <2>2. QED  BY <1>3, <2>1, PublishOne, StagedValues DEF Outcomes
  <1>4. CASE \E count \in Counts : staged[p] = ActionCreated(count)
    <2>1. PICK count \in Counts : staged[p] = ActionCreated(count)
      BY <1>4
    <2>2. status[p] = "open" /\ rows[p] = 0
      BY <1>1, <2>1 DEF DiagnosingIsSound, Nothing, ActionCreated
    <2>3. QED  BY <2>1, <2>2, PublishOne, StagedValues
  <1>5. QED  BY <1>1, <1>2, <1>3, <1>4 DEF DiagnosingIsSound

\* A play after the commit of the verdicts: untouched, or judged.
LEMMA JudgesOne ==
    ASSUME NEW p \in Plays, IInv, phase = "judging", Publish
    PROVE  /\ baseline'[p] = baseline[p] /\ rows'[p] = rows[p]
           /\ \/ status'[p] = status[p] /\ outcome'[p] = outcome[p]
              \/ /\ status[p] = "open" /\ status'[p] = "closed"
                 /\ outcome'[p] \in {"recovered", "unrecovered"}
                 /\ baseline[p] # NotDiagnosed /\ age[p] >= RecoveryDays
                 /\ outcome'[p] = "recovered" => baseline[p] > 0
  <1>1. JudgingIsSound /\ ElapsedHadTheirWindow
    BY DEF IInv, Sound, SessionIsSound
  <1>2. CASE staged[p] = Nothing
    BY <1>2, PublishOne, StagedValues
  <1>3. CASE staged[p] # Nothing
    <2>1. staged[p].result \in {"recovered", "unrecovered"}
      BY <1>1, <1>3 DEF JudgingIsSound
    <2>2. /\ status'[p] = "closed" /\ outcome'[p] = staged[p].result
          /\ baseline'[p] = baseline[p] /\ rows'[p] = rows[p]
      BY <2>1, PublishOne DEF Outcomes
    <2>3. QED  BY <1>1, <1>3, <2>1, <2>2 DEF JudgingIsSound, ElapsedHadTheirWindow
  <1>4. QED  BY <1>2, <1>3

LEMMA CommitDiagnosesIInv == IInv /\ CommitDiagnoses => IInv'
  <1> SUFFICES ASSUME IInv, CommitDiagnoses PROVE IInv'
    OBVIOUS
  <1>1. phase = "diagnosing" /\ Publish /\ UNCHANGED <<age, rated, elapsed, crashes>>
    BY DEF CommitDiagnoses
  <1>2. TypeOK'
    <2>1. staged' \in [Plays -> [result : Results, baseline : Counts \cup {NotDiagnosed}]]
      BY StagedValues DEF CommitDiagnoses
    <2>2. phase' = "judging" /\ todo' \subseteq Plays
      BY DEF CommitDiagnoses, Judgeable
    <2>3. QED  BY <1>1, <2>1, <2>2, PublishTypes DEF IInv, TypeOK
  <1>3. RowsMatchBaseline'
    BY <1>1, DiagnosesOne, CountsAreKnown DEF IInv, Sound, RowsMatchBaseline
  <1>4. OutcomeMatchesStatus'
    BY <1>1, DiagnosesOne DEF IInv, Sound, OutcomeMatchesStatus, Outcomes
  <1>5. VerdictIsGrounded'
    <2> SUFFICES ASSUME NEW p \in Plays
                 PROVE  (/\ outcome[p] \in {"recovered", "unrecovered"} =>
                               rows[p] > 0 /\ age[p] >= RecoveryDays
                         /\ outcome[p] = "recovered" => baseline[p] > 0
                         /\ outcome[p] = "no_intervention_seasonal" => rows[p] = 0)'
      BY DEF VerdictIsGrounded
    <2>1. status[p] = "open" => outcome[p] \notin Outcomes
      BY DEF IInv, Sound, OutcomeMatchesStatus
    <2>2. QED
      BY <1>1, <2>1, DiagnosesOne DEF IInv, Sound, VerdictIsGrounded, Outcomes
  <1>6. ElapsedHadTheirWindow'
    BY <1>1 DEF IInv, Sound, ElapsedHadTheirWindow
  <1>7. SessionIsSound'
    BY DEF CommitDiagnoses, SessionIsSound, JudgingIsSound, Judgeable
  <1>8. QED  BY <1>2, <1>3, <1>4, <1>5, <1>6, <1>7 DEF IInv, Sound

LEMMA CommitVerdictsIInv == IInv /\ CommitVerdicts => IInv'
  <1> SUFFICES ASSUME IInv, CommitVerdicts PROVE IInv'
    OBVIOUS
  <1>1. /\ phase = "judging" /\ Publish /\ UNCHANGED <<age, rated, crashes>>
        /\ phase' = "idle" /\ elapsed' = {} /\ todo' = {}
        /\ staged' = [p \in Plays |-> Nothing]
    BY DEF CommitVerdicts, EndSession
  <1>2. TypeOK'
    <2>1. staged' \in [Plays -> [result : Results, baseline : Counts \cup {NotDiagnosed}]]
      BY <1>1, StagedValues
    <2>2. QED  BY <1>1, <2>1, PublishTypes DEF IInv, TypeOK
  <1>3. RowsMatchBaseline'
    BY <1>1, JudgesOne DEF IInv, Sound, RowsMatchBaseline
  <1>4. OutcomeMatchesStatus'
    BY <1>1, JudgesOne DEF IInv, Sound, OutcomeMatchesStatus, Outcomes
  <1>5. VerdictIsGrounded'
    BY <1>1, JudgesOne DEF IInv, Sound, VerdictIsGrounded, RowsMatchBaseline
  <1>6. SessionIsSound' /\ ElapsedHadTheirWindow'
    BY <1>1 DEF SessionIsSound, ElapsedHadTheirWindow
  <1>7. QED  BY <1>2, <1>3, <1>4, <1>5, <1>6 DEF IInv, Sound

-----------------------------------------------------------------------------

\* A lost session leaves nothing behind.
LEMMA EndSessionIInv ==
    ASSUME IInv, EndSession, UNCHANGED <<playVars, rated>>, crashes' \in 0..MaxCrashes
    PROVE  IInv'
  <1>1. TypeOK'
    BY StagedValues DEF IInv, TypeOK, EndSession, playVars
  <1>2. SessionIsSound' /\ ElapsedHadTheirWindow'
    BY DEF EndSession, SessionIsSound, ElapsedHadTheirWindow
  <1>3. QED  BY <1>1, <1>2, PublishedIsStable DEF IInv, Sound

LEMMA EnvironmentIInv ==
    ASSUME IInv, Midnight \/ \E p \in Plays : OpenRun(p) \/ SetTier(p)
    PROVE  IInv'
  <1>1. /\ UNCHANGED <<outcome, baseline, rows, phase, elapsed, todo, staged, crashes>>
        /\ \A p \in Plays : age'[p] >= age[p]
        /\ \A p \in Plays : status'[p] # status[p] => status[p] = "none" /\ status'[p] = "open"
    <2>1. CASE Midnight
      BY <2>1 DEF IInv, TypeOK, Midnight, jobVars
    <2>2. ASSUME NEW p \in Plays, OpenRun(p) \/ SetTier(p)
          PROVE  /\ UNCHANGED <<outcome, age, baseline, rows, phase, elapsed, todo, staged, crashes>>
                 /\ \A q \in Plays : status'[q] # status[q] =>
                        status[q] = "none" /\ status'[q] = "open"
      BY <2>2 DEF IInv, TypeOK, OpenRun, SetTier, playVars, jobVars
    <2>3. \A q \in Plays : age[q] \in Nat
      BY DecayAssumption DEF IInv, TypeOK
    <2>4. QED  BY <2>1, <2>2, <2>3
  <1>2. TypeOK'
    <2>1. age' \in [Plays -> 0..RecoveryDays]
      BY DecayAssumption DEF IInv, TypeOK, Midnight, OpenRun, SetTier, playVars
    <2>2. status' \in [Plays -> {"none", "open", "closed"}]
      BY DEF IInv, TypeOK, Midnight, OpenRun, SetTier, playVars
    <2>3. rated' \in [Plays -> BOOLEAN]
      BY DEF IInv, TypeOK, Midnight, OpenRun, SetTier
    <2>4. QED  BY <1>1, <2>1, <2>2, <2>3 DEF IInv, TypeOK
  <1>3. RowsMatchBaseline' /\ OutcomeMatchesStatus'
    BY <1>1 DEF IInv, Sound, RowsMatchBaseline, OutcomeMatchesStatus
  <1>4. VerdictIsGrounded' /\ ElapsedHadTheirWindow'
    <2>1. \A p \in Plays : age[p] \in Nat /\ age'[p] \in Nat
      BY <1>2, DecayAssumption DEF IInv, TypeOK
    <2>2. elapsed \subseteq Plays
      BY DEF IInv, TypeOK
    <2>3. QED
      BY <1>1, <2>1, <2>2, DecayAssumption
      DEF IInv, Sound, VerdictIsGrounded, ElapsedHadTheirWindow
  <1>5. SessionIsSound'
    <2>1. CASE phase = "idle"
      BY <1>1, <2>1 DEF IInv, Sound, SessionIsSound
    <2>2. CASE phase = "diagnosing"
      BY <1>1, <2>2 DEF IInv, Sound, SessionIsSound, DiagnosingIsSound
    <2>3. CASE phase = "judging"
      BY <1>1, <2>3 DEF IInv, Sound, SessionIsSound, JudgingIsSound
    <2>4. QED  BY <2>1, <2>2, <2>3 DEF IInv, TypeOK
  <1>6. QED  BY <1>2, <1>3, <1>4, <1>5 DEF IInv, Sound

LEMMA NextIInv == IInv /\ [Next]_vars => IInv'
  <1> SUFFICES ASSUME IInv, [Next]_vars PROVE IInv'
    OBVIOUS
  <1>1. CASE StartJob \/ CommitDiagnoses \/ CommitVerdicts
    BY <1>1, StartJobIInv, CommitDiagnosesIInv, CommitVerdictsIInv
  <1>2. ASSUME NEW p \in Plays, DiagnoseSeasonal(p) \/ Diagnose(p) \/ Judge(p)
        PROVE  IInv'
    BY <1>2, DiagnoseIInv, JudgeIInv
  <1>3. CASE (\E p \in Plays : AbortOnTier(p)) \/ Crash
    <2>1. crashes' \in 0..MaxCrashes
      BY <1>3, DecayAssumption DEF IInv, TypeOK, AbortOnTier, Crash
    <2>2. QED
      BY <1>3, <2>1, EndSessionIInv DEF AbortOnTier, Crash
  <1>4. CASE Midnight \/ \E p \in Plays : OpenRun(p) \/ SetTier(p)
    BY <1>4, EnvironmentIInv
  <1>5. CASE UNCHANGED vars
    <2>1. TypeOK'
      BY <1>5 DEF IInv, TypeOK, vars, playVars, jobVars
    <2>2. SessionIsSound' /\ ElapsedHadTheirWindow'
      BY <1>5 DEF IInv, Sound, SessionIsSound, DiagnosingIsSound, JudgingIsSound,
                  ElapsedHadTheirWindow, vars, playVars, jobVars
    <2>3. QED  BY <1>5, <2>1, <2>2, PublishedIsStable DEF IInv, Sound, vars
  <1>6. QED
    BY <1>1, <1>2, <1>3, <1>4, <1>5 DEF Next, JobStep

-----------------------------------------------------------------------------

\* The inductive invariant holds in every reachable state.
THEOREM IInvHolds == Spec => []IInv
  BY InitIInv, NextIInv, PTL DEF Spec

\* The job and the plays keep their types, whatever is lost.
THEOREM TypeCorrect == Spec => []TypeOK
  <1>1. IInv => TypeOK
    BY DEF IInv
  <1>2. QED  BY <1>1, IInvHolds, PTL

\* No sequence of lost sessions makes the job contact a customer twice for
\* one decay play.
THEOREM DiagnosedOnceHolds == Spec => []DiagnosedOnce
  <1>1. IInv => DiagnosedOnce
    <2> SUFFICES ASSUME IInv, NEW p \in Plays PROVE rows[p] <= 1
      BY DEF DiagnosedOnce
    <2>1. rows[p] = 0 \/ rows[p] = 1
      BY DEF IInv, Sound, RowsMatchBaseline
    <2>2. QED  BY <2>1
  <1>2. QED  BY <1>1, IInvHolds, PTL

\* Every verdict has its diagnosis, its window and, when it says recovered,
\* a decline behind it.
THEOREM VerdictIsGroundedHolds == Spec => []VerdictIsGrounded
  <1>1. IInv => VerdictIsGrounded
    BY DEF IInv, Sound
  <1>2. QED  BY <1>1, IInvHolds, PTL

-----------------------------------------------------------------------------
(* Every play_run keeps the promises of PlayRun. *)

LEMMA StepRefines ==
    ASSUME NEW p \in Plays, IInv, [Next]_vars
    PROVE  Record(p)!Step
  <1>0. rows[p] \in Nat
    BY DEF IInv, TypeOK
  <1>1. CASE UNCHANGED <<status, outcome, rows>>
    BY <1>1 DEF Record!Step
  <1>2. CASE CommitDiagnoses
    <2>1. phase = "diagnosing" /\ Publish
      BY <1>2 DEF CommitDiagnoses
    <2>2. QED
      BY <1>0, <2>1, DiagnosesOne
      DEF Record!Step, Record!Next, Record!Work, Record!Close, Record!RowsGrow, Outcomes
  <1>3. CASE CommitVerdicts
    <2>1. phase = "judging" /\ Publish
      BY <1>3 DEF CommitVerdicts
    <2>2. QED
      BY <1>0, <2>1, JudgesOne
      DEF Record!Step, Record!Next, Record!Close, Record!RowsGrow, Outcomes
  <1>4. ASSUME NEW q \in Plays, OpenRun(q) PROVE Record(p)!Step
    BY <1>4 DEF IInv, TypeOK, OpenRun, Record!Step, Record!Next, Record!Open
  <1>5. QED
    <2>1. CASE StartJob \/ Crash \/ Midnight \/ UNCHANGED vars
      BY <2>1, <1>1 DEF StartJob, Crash, Midnight, vars, playVars
    <2>2. ASSUME NEW q \in Plays,
                 \/ DiagnoseSeasonal(q) \/ Diagnose(q) \/ Judge(q) \/ AbortOnTier(q)
                 \/ SetTier(q)
          PROVE  Record(p)!Step
      BY <2>2, <1>1 DEF DiagnoseSeasonal, Diagnose, Judge, AbortOnTier, SetTier, playVars
    <2>3. QED
      BY <1>2, <1>3, <1>4, <2>1, <2>2 DEF Next, JobStep

\* Every decay play_run is opened once, closed once with an outcome, and
\* gains no action afterwards, lost sessions or not.
THEOREM RefinesPlayRun == Spec => RecordSpec
  <1>1. Init => \A p \in Plays : Record(p)!Init
    BY DEF Init, Record!Init, NoOutcome, Record!NoOutcome
  <1>2. IInv /\ [Next]_vars => [\A p \in Plays : Record(p)!Step]_vars
    BY StepRefines
  <1>3. QED
    BY <1>1, <1>2, IInvHolds, PTL DEF Spec, RecordSpec

=============================================================================
