---------------------- MODULE TriggerEvaluationProofs ----------------------
(***************************************************************************)
(* Proofs about TriggerEvaluation for every set of accounts, candidate     *)
(* signals and changes of tier, every bound on crashes, and one evaluation *)
(* session at a time (SerialEvaluators).  OneOpenPlay is not inductive by  *)
(* itself: a session decides on rows it read earlier, so the invariant     *)
(* must also say that what a session has staged is still justified by the  *)
(* rows committed now (StagedStillValid), and that a hand-over in flight   *)
(* still holds its expansion run (HandoverHoldsRun).                       *)
(***************************************************************************)
EXTENDS TriggerEvaluation, TLAPS

(* A session that staged a play can still open it: no play has been       *)
(* committed on the account since, and the play's own signal goes with it. *)
(* Signals staged are of types still not open.                             *)
StagedStillValid ==
    \A e \in Evaluators, a \in Accounts :
        /\ stagedPlay[e][a] # NoPlay =>
              /\ \A p \in PlayTypes : openPlays[a][p] = 0
              /\ \E row \in stagedSignals[e][a] :
                     PlayForSignalType(row.type) = stagedPlay[e][a]
        /\ \A row \in stagedSignals[e][a] : row.type \notin OpenSignalTypes(a)

HandoverHoldsRun ==
    \A a \in Accounts :
        handover[a] # "idle" => openPlays[a]["expansion"] > 0

IInv == TypeOK /\ OneOpenPlay /\ PlayHasItsSignal /\ StagedStillValid
               /\ HandoverHoldsRun

-----------------------------------------------------------------------------
(* The orchestrator's decision *)

LEMMA PlayForSignalTypeType ==
    ASSUME NEW type \in AllSignalTypes
    PROVE  PlayForSignalType(type) \in PlayTypes
  <1>1. CASE type \in DecayTypes
    BY <1>1 DEF PlayForSignalType, PlayTypes
  <1>2. CASE type \notin DecayTypes
    <2>1. type \in DOMAIN PlayForTrigger
      BY <1>2 DEF AllSignalTypes
    <2>2. type \in {"play1_contract_signed", "play3_renewal_window",
                    "play4_expansion_candidate"}
      BY <2>1 DEF PlayForTrigger
    <2>3. PlayForTrigger[type] \in PlayTypes
      BY <2>2 DEF PlayForTrigger, PlayTypes
    <2>4. QED  BY <1>2, <2>3 DEF PlayForSignalType
  <1>3. QED  BY <1>1, <1>2

LEMMA BestRankExists ==
    ASSUME NEW plays \in SUBSET PlayTypes, plays # {}
    PROVE  \E play \in plays :
               \A other \in plays : PlayRank[play] <= PlayRank[other]
  <1> PICK some \in plays : TRUE
    OBVIOUS
  <1>1. CASE "decay" \in plays
    BY <1>1 DEF PlayTypes, PlayRank
  <1>2. CASE "decay" \notin plays /\ "renewal" \in plays
    BY <1>2 DEF PlayTypes, PlayRank
  <1>3. CASE /\ plays \cap {"decay", "renewal"} = {}
             /\ "onboarding" \in plays
    BY <1>3 DEF PlayTypes, PlayRank
  <1>4. CASE plays \cap {"decay", "renewal", "onboarding"} = {}
    <2>1. \A play \in plays : play = "expansion"
      BY <1>4 DEF PlayTypes
    <2>2. PlayRank["expansion"] <= PlayRank["expansion"]
      BY DEF PlayRank
    <2>3. QED  BY <2>1, <2>2
  <1>5. QED  BY <1>1, <1>2, <1>3, <1>4

\* What decide may answer: nothing, or the play of one of the new signals,
\* and the latter only where no play is open.
LEMMA PlayToOpenAnswer ==
    ASSUME NEW rows, \A row \in rows : row.type \in AllSignalTypes,
           NEW hasOpen \in BOOLEAN
    PROVE  LET play == PlayToOpen(rows, hasOpen)
           IN  /\ play \in PlayTypes \cup {NoPlay}
               /\ play # NoPlay =>
                      /\ ~hasOpen
                      /\ \E row \in rows : PlayForSignalType(row.type) = play
  <1> DEFINE plays == {PlayForSignalType(type) : type \in TypesOf(rows)}
  <1>1. plays \in SUBSET PlayTypes
    BY PlayForSignalTypeType DEF TypesOf
  <1>2. CASE plays = {} \/ hasOpen
    BY <1>2 DEF PlayToOpen
  <1>3. CASE plays # {} /\ ~hasOpen
    <2> DEFINE Best(play) == \A other \in plays : PlayRank[play] <= PlayRank[other]
    <2>1. \E play \in plays : Best(play)
      BY <1>1, <1>3, BestRankExists
    <2>2. PlayToOpen(rows, hasOpen) = CHOOSE play \in plays : Best(play)
      BY <1>3 DEF PlayToOpen
    <2>3. PlayToOpen(rows, hasOpen) \in plays
      BY <2>1, <2>2
    <2>4. \E row \in rows : PlayForSignalType(row.type) = PlayToOpen(rows, hasOpen)
      BY <2>3 DEF TypesOf
    <2>5. QED  BY <1>1, <1>3, <2>3, <2>4
  <1>4. QED  BY <1>2, <1>3

-----------------------------------------------------------------------------
(* What the session reads and decides about one account *)

LEMMA CandidateTypes ==
    ASSUME NEW rows \in SUBSET Candidates
    PROVE  \A row \in rows : row.type \in AllSignalTypes
  BY CandidatesAssumption

LEMMA DecisionOnAccount ==
    ASSUME TypeOK, NEW a \in Accounts
    PROVE  /\ NewSignalsOf(a) \in SUBSET Candidates
           /\ \A row \in NewSignalsOf(a) : row.type \notin OpenSignalTypes(a)
           /\ PlayToOpenOn(a) \in PlayTypes \cup {NoPlay}
           /\ PlayToOpenOn(a) # NoPlay =>
                 /\ \A p \in PlayTypes : openPlays[a][p] = 0
                 /\ \E row \in NewSignalsOf(a) :
                        PlayForSignalType(row.type) = PlayToOpenOn(a)
  <1>1. /\ NewSignalsOf(a) \in SUBSET Candidates
        /\ \A row \in NewSignalsOf(a) : row.type \notin OpenSignalTypes(a)
    BY DEF TypeOK, NewSignalsOf, NewSignals
  <1>2. HasOpenPlay(a) \in BOOLEAN
    BY DEF HasOpenPlay
  <1>3. \A row \in NewSignalsOf(a) : row.type \in AllSignalTypes
    BY <1>1, CandidateTypes
  <1>4. /\ PlayToOpenOn(a) \in PlayTypes \cup {NoPlay}
        /\ PlayToOpenOn(a) # NoPlay =>
              /\ ~HasOpenPlay(a)
              /\ \E row \in NewSignalsOf(a) :
                     PlayForSignalType(row.type) = PlayToOpenOn(a)
    BY <1>2, <1>3, PlayToOpenAnswer DEF PlayToOpenOn
  <1>5. ASSUME ~HasOpenPlay(a), NEW p \in PlayTypes
        PROVE  openPlays[a][p] = 0
    <2>1. openPlays[a][p] \in Nat
      BY DEF TypeOK
    <2>2. ~(openPlays[a][p] > 0)
      BY <1>5 DEF HasOpenPlay
    <2>3. QED  BY <2>1, <2>2
  <1>6. QED  BY <1>1, <1>4, <1>5

-----------------------------------------------------------------------------
(* The invariant holds initially and every action keeps it *)

LEMMA InitIInv == Init => IInv
  <1> SUFFICES ASSUME Init PROVE IInv
    OBVIOUS
  <1>1. TypeOK
    BY MaxCrashesAssumption
    DEF Init, TypeOK, HandoverStates
  <1>2. OneOpenPlay /\ PlayHasItsSignal
    BY DEF Init, OneOpenPlay, PlayHasItsSignal
  <1>3. StagedStillValid /\ HandoverHoldsRun
    BY DEF Init, StagedStillValid, HandoverHoldsRun
  <1>4. QED  BY <1>1, <1>2, <1>3 DEF IInv

LEMMA FactsChangeIInv ==
    ASSUME IInv, NEW a \in Accounts, FactsChange(a)
    PROVE  IInv'
  <1>1. TypeOK'
    BY DEF IInv, TypeOK, FactsChange, sessionVars
  <1>2. (OneOpenPlay /\ PlayHasItsSignal /\ HandoverHoldsRun)'
    BY DEF IInv, OneOpenPlay, PlayHasItsSignal, HandoverHoldsRun, FactsChange
  <1>3. StagedStillValid'
    BY DEF IInv, StagedStillValid, OpenSignalTypes, FactsChange, sessionVars
  <1>4. QED  BY <1>1, <1>2, <1>3 DEF IInv

LEMMA SetTierIInv ==
    ASSUME IInv, NEW a \in Accounts, SetTier(a)
    PROVE  IInv'
  <1>1. TypeOK'
    BY DEF IInv, TypeOK, SetTier, sessionVars
  <1>2. (OneOpenPlay /\ PlayHasItsSignal /\ HandoverHoldsRun)'
    BY DEF IInv, OneOpenPlay, PlayHasItsSignal, HandoverHoldsRun, SetTier
  <1>3. StagedStillValid'
    BY DEF IInv, StagedStillValid, OpenSignalTypes, SetTier, sessionVars
  <1>4. QED  BY <1>1, <1>2, <1>3 DEF IInv

LEMMA StartRunIInv ==
    ASSUME IInv, NEW e \in Evaluators, StartRun(e)
    PROVE  IInv'
  <1>1. TypeOK'
    BY DEF IInv, TypeOK, StartRun
  <1>2. (OneOpenPlay /\ PlayHasItsSignal /\ HandoverHoldsRun)'
    BY DEF IInv, OneOpenPlay, PlayHasItsSignal, HandoverHoldsRun, StartRun
  <1>3. StagedStillValid'
    BY DEF IInv, StagedStillValid, OpenSignalTypes, StartRun
  <1>4. QED  BY <1>1, <1>2, <1>3 DEF IInv

LEMMA ProcessAccountIInv ==
    ASSUME IInv, NEW e \in Evaluators, NEW a \in Accounts, ProcessAccount(e, a)
    PROVE  IInv'
  <1>1. TypeOK'
    BY DecisionOnAccount DEF IInv, TypeOK, ProcessAccount
  <1>2. (OneOpenPlay /\ PlayHasItsSignal /\ HandoverHoldsRun)'
    BY DEF IInv, OneOpenPlay, PlayHasItsSignal, HandoverHoldsRun, ProcessAccount
  <1>3. StagedStillValid'
    <2> SUFFICES ASSUME NEW f \in Evaluators, NEW b \in Accounts
                 PROVE  /\ stagedPlay'[f][b] # NoPlay =>
                              /\ \A p \in PlayTypes : openPlays[b][p] = 0
                              /\ \E row \in stagedSignals'[f][b] :
                                     PlayForSignalType(row.type) = stagedPlay'[f][b]
                        /\ \A row \in stagedSignals'[f][b] :
                               row.type \notin OpenSignalTypes(b)
      BY DEF StagedStillValid, OpenSignalTypes, ProcessAccount
    <2>1. CASE f = e /\ b = a
      <3>1. /\ stagedSignals'[f][b] = NewSignalsOf(a)
            /\ stagedPlay'[f][b] = PlayToOpenOn(a)
        BY <2>1 DEF IInv, TypeOK, ProcessAccount
      <3>2. QED  BY <2>1, <3>1, DecisionOnAccount DEF IInv
    <2>2. CASE ~(f = e /\ b = a)
      <3>1. /\ stagedSignals'[f][b] = stagedSignals[f][b]
            /\ stagedPlay'[f][b] = stagedPlay[f][b]
        BY <2>2 DEF IInv, TypeOK, ProcessAccount
      <3>2. QED  BY <3>1 DEF IInv, StagedStillValid
    <2>3. QED  BY <2>1, <2>2
  <1>4. QED  BY <1>1, <1>2, <1>3 DEF IInv

\* What an ended session leaves behind, whatever ended it.
LEMMA SessionEnds ==
    ASSUME TypeOK, NEW e \in Evaluators, EndSession(e)
    PROVE  /\ running' \in [Evaluators -> BOOLEAN]
           /\ todo' \in [Evaluators -> SUBSET Accounts]
           /\ stagedSignals' \in [Evaluators -> [Accounts -> SUBSET Candidates]]
           /\ stagedPlay' \in [Evaluators -> [Accounts -> PlayTypes \cup {NoPlay}]]
           /\ \A a \in Accounts : /\ stagedSignals'[e][a] = {}
                                  /\ stagedPlay'[e][a] = NoPlay
           /\ \A f \in Evaluators \ {e} : /\ stagedSignals'[f] = stagedSignals[f]
                                          /\ stagedPlay'[f] = stagedPlay[f]
  BY DEF TypeOK, EndSession

LEMMA RollbackIInv ==
    ASSUME IInv, NEW e \in Evaluators, EndSession(e), crashes' \in 0..MaxCrashes,
           UNCHANGED <<firing, rated, signals, openPlays, handover>>
    PROVE  IInv'
  <1>1. TypeOK'
    BY SessionEnds DEF IInv, TypeOK
  <1>2. (OneOpenPlay /\ PlayHasItsSignal /\ HandoverHoldsRun)'
    BY DEF IInv, OneOpenPlay, PlayHasItsSignal, HandoverHoldsRun
  <1>3. StagedStillValid'
    <2> SUFFICES ASSUME NEW f \in Evaluators, NEW a \in Accounts
                 PROVE  /\ stagedPlay'[f][a] # NoPlay =>
                              /\ \A p \in PlayTypes : openPlays[a][p] = 0
                              /\ \E row \in stagedSignals'[f][a] :
                                     PlayForSignalType(row.type) = stagedPlay'[f][a]
                        /\ \A row \in stagedSignals'[f][a] :
                               row.type \notin OpenSignalTypes(a)
      BY DEF StagedStillValid, OpenSignalTypes
    <2>1. CASE f = e
      BY <2>1, SessionEnds DEF IInv
    <2>2. CASE f # e
      BY <2>2, SessionEnds DEF IInv, StagedStillValid
    <2>3. QED  BY <2>1, <2>2
  <1>4. QED  BY <1>1, <1>2, <1>3 DEF IInv

\* The commit is where what was read earlier meets what is committed now.
LEMMA CommitIInv ==
    ASSUME IInv, SerialEvaluators, NEW e \in Evaluators, Commit(e)
    PROVE  IInv'
  <1> USE DEF IInv
  <1>1. EndSession(e) /\ TypeOK
    BY DEF Commit
  <1>2. \A a \in Accounts :
           /\ signals'[a] = signals[a] \cup stagedSignals[e][a]
           /\ \A p \in PlayTypes :
                  openPlays'[a][p] = IF stagedPlay[e][a] = p
                                     THEN openPlays[a][p] + 1
                                     ELSE openPlays[a][p]
    BY DEF Commit
  <1>3. \A a \in Accounts, p \in PlayTypes : openPlays[a][p] \in Nat
    BY DEF TypeOK
  <1>4. TypeOK'
    <2>1. openPlays' \in [Accounts -> [PlayTypes -> Nat]]
      BY <1>3 DEF Commit
    <2>2. signals' \in [Accounts -> SUBSET Candidates]
      BY DEF Commit, TypeOK
    <2>3. QED  BY <1>1, <2>1, <2>2, SessionEnds DEF TypeOK, Commit
  <1>5. OneOpenPlay'
    <2> SUFFICES ASSUME NEW a \in Accounts, NEW p \in PlayTypes, NEW q \in PlayTypes
                 PROVE  /\ openPlays'[a][p] <= 1
                        /\ openPlays'[a][p] > 0 /\ openPlays'[a][q] > 0 => p = q
      BY DEF OneOpenPlay
    <2>1. CASE stagedPlay[e][a] = NoPlay
      <3>1. NoPlay \notin PlayTypes
        BY DEF NoPlay, PlayTypes
      <3>2. openPlays'[a][p] = openPlays[a][p] /\ openPlays'[a][q] = openPlays[a][q]
        BY <1>2, <2>1, <3>1
      <3>3. QED  BY <3>2 DEF OneOpenPlay
    <2>2. CASE stagedPlay[e][a] # NoPlay
      <3>1. openPlays[a][p] = 0 /\ openPlays[a][q] = 0
        BY <2>2 DEF StagedStillValid
      <3>2. QED  BY <1>2, <3>1
    <2>3. QED  BY <2>1, <2>2
  <1>6. PlayHasItsSignal'
    <2> SUFFICES ASSUME NEW a \in Accounts, NEW p \in PlayTypes \ {"onboarding"},
                        openPlays'[a][p] > 0
                 PROVE  \E row \in signals'[a] : PlayForSignalType(row.type) = p
      BY DEF PlayHasItsSignal
    <2>1. CASE stagedPlay[e][a] = p
      <3>1. stagedPlay[e][a] # NoPlay
        BY <2>1 DEF PlayTypes, NoPlay
      <3>2. \E row \in stagedSignals[e][a] : PlayForSignalType(row.type) = p
        BY <2>1, <3>1 DEF StagedStillValid
      <3>3. QED  BY <1>2, <3>2
    <2>2. CASE stagedPlay[e][a] # p
      <3>1. openPlays[a][p] > 0
        BY <1>2, <2>2
      <3>2. QED  BY <1>2, <3>1 DEF PlayHasItsSignal
    <2>3. QED  BY <2>1, <2>2
  <1>7. StagedStillValid'
    <2>1. \A f \in Evaluators, a \in Accounts :
              stagedSignals'[f][a] = {} /\ stagedPlay'[f][a] = NoPlay
      BY <1>1, SessionEnds DEF SerialEvaluators
    <2>2. QED  BY <2>1 DEF StagedStillValid
  <1>8. HandoverHoldsRun'
    <2> SUFFICES ASSUME NEW a \in Accounts, handover[a] # "idle"
                 PROVE  openPlays'[a]["expansion"] > 0
      BY DEF HandoverHoldsRun, Commit
    <2>1. "expansion" \in PlayTypes
      BY DEF PlayTypes
    <2>2. openPlays[a]["expansion"] > 0
      BY DEF HandoverHoldsRun
    <2>3. QED  BY <1>2, <1>3, <2>1, <2>2
  <1>9. QED  BY <1>4, <1>5, <1>6, <1>7, <1>8

\* Agents only ever remove plays, or swap an expansion for an onboarding.
LEMMA CloseByAgentIInv ==
    ASSUME IInv, NEW a \in Accounts, NEW p \in PlayTypes, CloseByAgent(a, p)
    PROVE  IInv'
  <1> USE DEF IInv
  <1>1. \A b \in Accounts, q \in PlayTypes :
           /\ openPlays[b][q] \in Nat
           /\ openPlays'[b][q] = IF b = a /\ q = p THEN openPlays[b][q] - 1
                                                   ELSE openPlays[b][q]
    BY DEF TypeOK, CloseByAgent
  <1>2. openPlays[a][p] > 0
    BY DEF CloseByAgent
  <1>3. TypeOK'
    <2>1. openPlays[a][p] - 1 \in Nat
      BY <1>1, <1>2
    <2>2. openPlays' \in [Accounts -> [PlayTypes -> Nat]]
      BY <2>1 DEF TypeOK, CloseByAgent
    <2>3. QED  BY <2>2 DEF TypeOK, CloseByAgent, sessionVars
  <1>4. OneOpenPlay'
    BY <1>1, <1>2 DEF OneOpenPlay
  <1>5. PlayHasItsSignal'
    <2> SUFFICES ASSUME NEW b \in Accounts, NEW q \in PlayTypes \ {"onboarding"},
                        openPlays'[b][q] > 0
                 PROVE  \E row \in signals[b] : PlayForSignalType(row.type) = q
      BY DEF PlayHasItsSignal, CloseByAgent
    <2>1. openPlays[b][q] > 0
      BY <1>1, <1>2
    <2>2. QED  BY <2>1 DEF PlayHasItsSignal
  <1>6. StagedStillValid'
    <2>1. \A b \in Accounts, q \in PlayTypes :
              openPlays[b][q] = 0 => openPlays'[b][q] = 0
      BY <1>1, <1>2
    <2>2. QED  BY <2>1 DEF StagedStillValid, OpenSignalTypes, CloseByAgent, sessionVars
  <1>7. HandoverHoldsRun'
    BY <1>1 DEF HandoverHoldsRun, CloseByAgent, PlayTypes
  <1>8. QED  BY <1>3, <1>4, <1>5, <1>6, <1>7

LEMMA ExpansionReadsIInv ==
    ASSUME IInv, NEW a \in Accounts, ExpansionReads(a)
    PROVE  IInv'
  <1>1. TypeOK'
    BY DEF IInv, TypeOK, ExpansionReads, HandoverStates, sessionVars
  <1>2. (OneOpenPlay /\ PlayHasItsSignal)'
    BY DEF IInv, OneOpenPlay, PlayHasItsSignal, ExpansionReads
  <1>3. StagedStillValid'
    BY DEF IInv, StagedStillValid, OpenSignalTypes, ExpansionReads, sessionVars
  <1>4. HandoverHoldsRun'
    BY DEF IInv, TypeOK, HandoverHoldsRun, ExpansionReads
  <1>5. QED  BY <1>1, <1>2, <1>3, <1>4 DEF IInv

\* What the hand-over's commit does to the counts of open plays.
LEMMA HandOverPlays ==
    ASSUME TypeOK, NEW a \in Accounts, ExpansionCommits(a),
           openPlays[a]["expansion"] = 1,
           \A p \in PlayTypes \ {"expansion"} : openPlays[a][p] = 0
    PROVE  /\ \A p \in PlayTypes \ {"onboarding"} : openPlays'[a][p] = 0
           /\ openPlays'[a]["onboarding"] \in {0, 1}
           /\ \A b \in Accounts \ {a} : openPlays'[b] = openPlays[b]
  <1> DEFINE onboarding == IF handover[a] = "open_onboarding"
                           THEN openPlays[a]["onboarding"] + 1
                           ELSE openPlays[a]["onboarding"]
             row == [openPlays[a] EXCEPT
                         !["expansion"] = openPlays[a]["expansion"] - 1,
                         !["onboarding"] = onboarding]
  <1>1. "expansion" \in PlayTypes /\ "onboarding" \in PlayTypes
    BY DEF PlayTypes
  <1>2. openPlays \in [Accounts -> [PlayTypes -> Nat]]
    BY DEF TypeOK
  <1>3. openPlays' = [openPlays EXCEPT ![a] = row]
    BY <1>1, <1>2 DEF ExpansionCommits
  <1>4. onboarding \in {0, 1}
    BY <1>1
  <1>5. /\ \A p \in PlayTypes \ {"onboarding"} : row[p] = 0
        /\ row["onboarding"] = onboarding
    <2> HIDE DEF onboarding
    <2>1. QED  BY <1>1, <1>2
  <1> HIDE DEF onboarding, row
  <1>6. openPlays'[a] = row /\ \A b \in Accounts \ {a} : openPlays'[b] = openPlays[b]
    BY <1>2, <1>3
  <1>7. QED  BY <1>4, <1>5, <1>6

LEMMA ExpansionCommitsIInv ==
    ASSUME IInv, NEW a \in Accounts, ExpansionCommits(a)
    PROVE  IInv'
  <1> USE DEF IInv
  <1>1. "expansion" \in PlayTypes /\ "onboarding" \in PlayTypes
    BY DEF PlayTypes
  <1>2. openPlays[a] \in [PlayTypes -> Nat] /\ openPlays[a]["expansion"] > 0
    BY DEF TypeOK, HandoverHoldsRun, ExpansionCommits
  <1>3. /\ openPlays[a]["expansion"] = 1
        /\ \A p \in PlayTypes \ {"expansion"} : openPlays[a][p] = 0
    BY <1>1, <1>2 DEF OneOpenPlay
  <1>4. /\ \A p \in PlayTypes \ {"onboarding"} : openPlays'[a][p] = 0
        /\ openPlays'[a]["onboarding"] \in {0, 1}
        /\ \A b \in Accounts \ {a} : openPlays'[b] = openPlays[b]
    BY <1>1, <1>2, <1>3, HandOverPlays DEF ExpansionCommits
  <1>5. TypeOK'
    <2>1. openPlays' \in [Accounts -> [PlayTypes -> Nat]]
      <3> DEFINE onboarding == IF handover[a] = "open_onboarding"
                               THEN openPlays[a]["onboarding"] + 1
                               ELSE openPlays[a]["onboarding"]
      <3> DEFINE row == [openPlays[a] EXCEPT
                              !["expansion"] = openPlays[a]["expansion"] - 1,
                              !["onboarding"] = onboarding]
      <3>1. openPlays[a]["expansion"] - 1 \in Nat /\ onboarding \in Nat
        BY <1>1, <1>2, <1>3
      <3>2. openPlays' = [openPlays EXCEPT ![a] = row]
        BY <1>1, <1>2 DEF TypeOK, ExpansionCommits
      <3> HIDE DEF onboarding
      <3>3. row \in [PlayTypes -> Nat]
        BY <1>1, <1>2, <3>1
      <3> HIDE DEF row
      <3>4. QED  BY <3>2, <3>3 DEF TypeOK
    <2>2. handover' \in [Accounts -> HandoverStates]
      BY DEF TypeOK, ExpansionCommits, HandoverStates
    <2>3. QED  BY <2>1, <2>2 DEF TypeOK, ExpansionCommits, sessionVars
  <1>6. OneOpenPlay'
    BY <1>4 DEF OneOpenPlay
  <1>7. PlayHasItsSignal'
    <2> SUFFICES ASSUME NEW b \in Accounts, NEW q \in PlayTypes \ {"onboarding"},
                        openPlays'[b][q] > 0
                 PROVE  \E row \in signals[b] : PlayForSignalType(row.type) = q
      BY DEF PlayHasItsSignal, ExpansionCommits
    <2>1. b # a
      BY <1>4
    <2>2. openPlays[b][q] > 0
      BY <1>4, <2>1
    <2>3. QED  BY <2>2 DEF PlayHasItsSignal
  <1>8. StagedStillValid'
    <2>1. \A e \in Evaluators : stagedPlay[e][a] = NoPlay
      BY <1>1, <1>3 DEF StagedStillValid
    <2>2. /\ UNCHANGED <<signals, stagedSignals, stagedPlay>>
          /\ \A b \in Accounts : OpenSignalTypes(b)' = OpenSignalTypes(b)
      BY DEF ExpansionCommits, sessionVars, OpenSignalTypes
    <2> SUFFICES ASSUME NEW e \in Evaluators, NEW b \in Accounts,
                        stagedPlay[e][b] # NoPlay, NEW p \in PlayTypes
                 PROVE  openPlays'[b][p] = 0
      BY <2>2 DEF StagedStillValid
    <2>3. b # a
      BY <2>1
    <2>4. QED  BY <1>4, <2>3 DEF StagedStillValid
  <1>9. HandoverHoldsRun'
    BY <1>4 DEF TypeOK, HandoverHoldsRun, ExpansionCommits
  <1>10. QED  BY <1>5, <1>6, <1>7, <1>8, <1>9

LEMMA NextIInv ==
    ASSUME IInv, SerialEvaluators, [Next]_vars
    PROVE  IInv'
  <1>1. CASE UNCHANGED vars
    BY <1>1
    DEF IInv, TypeOK, OneOpenPlay, PlayHasItsSignal, StagedStillValid,
        OpenSignalTypes, HandoverHoldsRun, vars, sessionVars
  <1>2. ASSUME NEW e \in Evaluators, Evaluation(e)
        PROVE  IInv'
    <2>1. CASE StartRun(e)
      BY <2>1, StartRunIInv
    <2>2. ASSUME NEW a \in Accounts, ProcessAccount(e, a)  PROVE IInv'
      BY <2>2, ProcessAccountIInv
    <2>3. ASSUME NEW a \in Accounts, AbortOnTier(e, a)  PROVE IInv'
      BY <2>3, RollbackIInv DEF AbortOnTier, IInv, TypeOK
    <2>4. CASE Commit(e)
      BY <2>4, CommitIInv
    <2>5. QED  BY <1>2, <2>1, <2>2, <2>3, <2>4 DEF Evaluation
  <1>3. ASSUME NEW e \in Evaluators, Crash(e)
        PROVE  IInv'
    <2>1. crashes' \in 0..MaxCrashes
      BY <1>3, MaxCrashesAssumption DEF Crash, IInv, TypeOK
    <2>2. QED  BY <1>3, <2>1, RollbackIInv DEF Crash
  <1>4. ASSUME NEW a \in Accounts, FactsChange(a)
        PROVE  IInv'
    BY <1>4, FactsChangeIInv
  <1>5. ASSUME NEW a \in Accounts, Agents(a)
        PROVE  IInv'
    <2>1. ASSUME NEW p \in PlayTypes, CloseByAgent(a, p)  PROVE IInv'
      BY <2>1, CloseByAgentIInv
    <2>2. CASE ExpansionReads(a)
      BY <2>2, ExpansionReadsIInv
    <2>3. CASE ExpansionCommits(a)
      BY <2>3, ExpansionCommitsIInv
    <2>4. QED  BY <1>5, <2>1, <2>2, <2>3 DEF Agents
  <1>6. ASSUME NEW a \in Accounts, SetTier(a)
        PROVE  IInv'
    BY <1>6, SetTierIInv
  <1>7. QED  BY <1>1, <1>2, <1>3, <1>4, <1>5, <1>6 DEF Next

-----------------------------------------------------------------------------
(* Theorems *)

\* Every reachable state of the nightly evaluation, with one session at a
\* time, satisfies the inductive invariant.
THEOREM IInvHolds ==
    ASSUME SerialEvaluators
    PROVE  Spec => []IInv
  <1>1. IInv /\ [Next]_vars => IInv'
    BY NextIInv
  <1>2. QED  BY InitIInv, <1>1, PTL DEF Spec

\* The rows and the sessions' copies of them keep their types; no count of
\* open plays ever goes below zero, whoever closes what.
THEOREM TypeCorrect ==
    ASSUME SerialEvaluators
    PROVE  Spec => []TypeOK
  <1>1. IInv => TypeOK
    BY DEF IInv
  <1>2. QED  BY IInvHolds, <1>1, PTL

\* README's "at most one open play_run per account regardless of play": it
\* holds with one evaluation at a time, whatever the agents do meanwhile.
THEOREM OneOpenPlayHolds ==
    ASSUME SerialEvaluators
    PROVE  Spec => []OneOpenPlay
  <1>1. IInv => OneOpenPlay
    BY DEF IInv
  <1>2. QED  BY IInvHolds, <1>1, PTL

\* No commit, crash or hand-over leaves a decay, renewal or expansion play
\* on an account without the signal that explains it.
THEOREM PlayHasItsSignalHolds ==
    ASSUME SerialEvaluators
    PROVE  Spec => []PlayHasItsSignal
  <1>1. IInv => PlayHasItsSignal
    BY DEF IInv
  <1>2. QED  BY IInvHolds, <1>1, PTL

\* The deduplication of decide survives the delay between a session's read
\* and its commit: no step adds a second row of a type already open.
THEOREM NoRepeatedSignalHolds ==
    ASSUME SerialEvaluators
    PROVE  Spec => NoRepeatedSignal
  <1> DEFINE NewTypesOnly ==
          \A a \in Accounts : \A row \in signals'[a] \ signals[a] :
              row.type \notin OpenSignalTypes(a)
  <1>1. IInv /\ [Next]_vars => [NewTypesOnly]_vars
    <2> SUFFICES ASSUME IInv, Next PROVE NewTypesOnly
      BY DEF vars, sessionVars
    <2>1. CASE UNCHANGED signals
      BY <2>1
    <2>2. ASSUME NEW e \in Evaluators, Commit(e)
          PROVE  NewTypesOnly
      <3>1. \A a \in Accounts : signals'[a] \ signals[a] \subseteq stagedSignals[e][a]
        BY <2>2 DEF Commit
      <3>2. QED  BY <3>1 DEF IInv, StagedStillValid
    <2>3. QED
      BY <2>1, <2>2
      DEF Next, Evaluation, StartRun, ProcessAccount, AbortOnTier, Crash,
          FactsChange, SetTier, Agents, CloseByAgent, ExpansionReads, ExpansionCommits
  <1>2. QED  BY IInvHolds, <1>1, PTL DEF Spec, NoRepeatedSignal

-----------------------------------------------------------------------------
(* Priorities *)

\* The play a session has staged ranks first among the plays of the signals
\* it has staged with it.
StagedByRank ==
    \A e \in Evaluators, a \in Accounts :
        stagedPlay[e][a] # NoPlay =>
            \A row \in stagedSignals[e][a] :
                PlayRank[stagedPlay[e][a]] <= PlayRank[PlayForSignalType(row.type)]

LEMMA PlayToOpenRanksFirst ==
    ASSUME NEW rows, \A row \in rows : row.type \in AllSignalTypes,
           NEW hasOpen \in BOOLEAN, PlayToOpen(rows, hasOpen) # NoPlay,
           NEW row \in rows
    PROVE  PlayRank[PlayToOpen(rows, hasOpen)] <= PlayRank[PlayForSignalType(row.type)]
  <1> DEFINE plays == {PlayForSignalType(type) : type \in TypesOf(rows)}
             Best(play) == \A other \in plays : PlayRank[play] <= PlayRank[other]
  <1>1. plays \in SUBSET PlayTypes /\ PlayForSignalType(row.type) \in plays
    BY PlayForSignalTypeType DEF TypesOf
  <1>2. PlayToOpen(rows, hasOpen) = CHOOSE play \in plays : Best(play)
    BY DEF PlayToOpen
  <1>3. \E play \in plays : Best(play)
    BY <1>1, BestRankExists
  <1>4. Best(PlayToOpen(rows, hasOpen))
    BY <1>2, <1>3
  <1>5. QED  BY <1>1, <1>4

LEMMA StagedByRankKept ==
    ASSUME IInv, StagedByRank, [Next]_vars
    PROVE  StagedByRank'
  <1>1. CASE UNCHANGED <<stagedSignals, stagedPlay>>
    BY <1>1 DEF StagedByRank
  <1>2. ASSUME NEW e \in Evaluators, NEW a \in Accounts, ProcessAccount(e, a)
        PROVE  StagedByRank'
    <2> SUFFICES ASSUME NEW f \in Evaluators, NEW b \in Accounts,
                        stagedPlay'[f][b] # NoPlay, NEW row \in stagedSignals'[f][b]
                 PROVE  PlayRank[stagedPlay'[f][b]]
                            <= PlayRank[PlayForSignalType(row.type)]
      BY DEF StagedByRank
    <2>1. CASE f = e /\ b = a
      <3>1. /\ stagedSignals'[f][b] = NewSignalsOf(a)
            /\ stagedPlay'[f][b] = PlayToOpen(NewSignalsOf(a), HasOpenPlay(a))
        BY <1>2, <2>1 DEF IInv, TypeOK, ProcessAccount, PlayToOpenOn
      <3>2. \A r \in NewSignalsOf(a) : r.type \in AllSignalTypes
        BY DecisionOnAccount, CandidateTypes DEF IInv
      <3>3. HasOpenPlay(a) \in BOOLEAN
        BY DEF HasOpenPlay
      <3>4. QED  BY <3>1, <3>2, <3>3, PlayToOpenRanksFirst
    <2>2. CASE ~(f = e /\ b = a)
      <3>1. /\ stagedSignals'[f][b] = stagedSignals[f][b]
            /\ stagedPlay'[f][b] = stagedPlay[f][b]
        BY <1>2, <2>2 DEF IInv, TypeOK, ProcessAccount
      <3>2. QED  BY <3>1 DEF StagedByRank
    <2>3. QED  BY <2>1, <2>2
  <1>3. ASSUME NEW e \in Evaluators, EndSession(e)
        PROVE  StagedByRank'
    <2> SUFFICES ASSUME NEW f \in Evaluators, NEW b \in Accounts,
                        stagedPlay'[f][b] # NoPlay, NEW row \in stagedSignals'[f][b]
                 PROVE  PlayRank[stagedPlay'[f][b]]
                            <= PlayRank[PlayForSignalType(row.type)]
      BY DEF StagedByRank
    <2>1. f # e
      BY <1>3, SessionEnds DEF IInv
    <2>2. /\ stagedSignals'[f][b] = stagedSignals[f][b]
          /\ stagedPlay'[f][b] = stagedPlay[f][b]
      BY <1>3, <2>1, SessionEnds DEF IInv
    <2>3. QED  BY <2>2 DEF StagedByRank
  <1>4. QED
    BY <1>1, <1>2, <1>3
    DEF Next, Evaluation, StartRun, AbortOnTier, Commit, Crash, FactsChange, SetTier,
        Agents, CloseByAgent, ExpansionReads, ExpansionCommits, vars, sessionVars

\* PLAY_PRIORITY survives the delay between decision and commit: of the
\* signals one commit brings to an account, a decay signal has its play.
THEOREM DecayWinsHolds ==
    ASSUME SerialEvaluators
    PROVE  Spec => DecayWins
  <1> DEFINE ByPriority ==
          \A a \in Accounts, p \in PlayTypes :
              /\ openPlays'[a][p] > openPlays[a][p]
              /\ TypesOf(signals'[a] \ signals[a]) \cap DecayTypes # {}
              => p = "decay"
  <1>1. IInv /\ StagedByRank /\ [Next]_vars => [ByPriority]_vars
    <2> SUFFICES ASSUME IInv, StagedByRank, Next PROVE ByPriority
      BY DEF vars, sessionVars
    <2>1. CASE UNCHANGED signals
      BY <2>1 DEF TypesOf
    <2>2. ASSUME NEW e \in Evaluators, Commit(e), NEW a \in Accounts, NEW p \in PlayTypes,
                 openPlays'[a][p] > openPlays[a][p],
                 TypesOf(signals'[a] \ signals[a]) \cap DecayTypes # {}
          PROVE  p = "decay"
      <3>1. stagedPlay[e][a] = p
        <4>1. /\ openPlays[a][p] \in Nat
              /\ openPlays'[a][p] = IF stagedPlay[e][a] = p THEN openPlays[a][p] + 1
                                                            ELSE openPlays[a][p]
          BY <2>2 DEF Commit, IInv, TypeOK
        <4>2. QED  BY <2>2, <4>1
      <3>2. PICK row \in stagedSignals[e][a] : row.type \in DecayTypes
        BY <2>2 DEF Commit, TypesOf
      <3>3. PlayForSignalType(row.type) = "decay"
        BY <3>2 DEF PlayForSignalType
      <3>4. p # NoPlay
        BY DEF PlayTypes, NoPlay
      <3>5. PlayRank[p] <= PlayRank["decay"]
        BY <3>1, <3>2, <3>3, <3>4 DEF StagedByRank
      <3>6. QED  BY <3>5 DEF PlayRank, PlayTypes
    <2>3. QED
      BY <2>1, <2>2
      DEF Next, Evaluation, StartRun, ProcessAccount, AbortOnTier, Crash,
          FactsChange, SetTier, Agents, CloseByAgent, ExpansionReads, ExpansionCommits
  <1>2. Init => StagedByRank
    BY DEF Init, StagedByRank
  <1>3. IInv /\ StagedByRank /\ [Next]_vars => StagedByRank'
    BY StagedByRankKept
  <1>4. QED  BY IInvHolds, <1>1, <1>2, <1>3, PTL DEF Spec, DecayWins

-----------------------------------------------------------------------------
(* The refinement of PlayLifecycle *)

open == [a \in Accounts |-> {p \in PlayTypes : openPlays[a][p] > 0}]

LEMMA CommitRefines ==
    ASSUME IInv, NEW e \in Evaluators, Commit(e)
    PROVE  Lifecycle!OpenPlays \/ open' = open
  <1> DEFINE opened == {a \in Accounts : stagedPlay[e][a] # NoPlay}
             play == [a \in opened |-> stagedPlay[e][a]]
  <1>1. stagedPlay[e] \in [Accounts -> PlayTypes \cup {NoPlay}]
    BY DEF IInv, TypeOK
  <1>2. \A a \in Accounts, p \in PlayTypes :
            /\ openPlays[a][p] \in Nat
            /\ openPlays'[a][p] = IF stagedPlay[e][a] = p THEN openPlays[a][p] + 1
                                                          ELSE openPlays[a][p]
    BY DEF Commit, IInv, TypeOK
  <1>3. \A a \in Accounts \ opened : open'[a] = open[a]
    <2> SUFFICES ASSUME NEW a \in Accounts \ opened
                 PROVE  \A p \in PlayTypes : openPlays'[a][p] = openPlays[a][p]
      BY DEF open
    <2>1. NoPlay \notin PlayTypes
      BY DEF NoPlay, PlayTypes
    <2>2. QED  BY <1>2, <2>1
  <1>4. \A a \in opened : open[a] = {} /\ open'[a] = {play[a]}
    <2> SUFFICES ASSUME NEW a \in opened
                 PROVE  open[a] = {} /\ open'[a] = {stagedPlay[e][a]}
      OBVIOUS
    <2>1. \A p \in PlayTypes : openPlays[a][p] = 0
      BY DEF IInv, StagedStillValid
    <2>2. \A p \in PlayTypes : openPlays'[a][p] > 0 <=> stagedPlay[e][a] = p
      BY <1>2, <2>1
    <2>3. stagedPlay[e][a] \in PlayTypes
      BY <1>1
    <2>4. QED  BY <2>1, <2>2, <2>3 DEF open
  <1>5. open' = [a \in Accounts |-> IF a \in opened THEN {play[a]} ELSE open[a]]
    BY <1>3, <1>4 DEF open
  <1>6. CASE opened = {}
    BY <1>5, <1>6 DEF open
  <1>7. CASE opened # {}
    <2>1. play \in [opened -> PlayTypes]
      BY <1>1
    <2>2. opened \in (SUBSET Accounts) \ {{}}
      BY <1>7
    <2>3. \A a \in opened : open[a] = {}
      BY <1>4
    <2>4. Lifecycle!PlayTypes = PlayTypes
      BY DEF Lifecycle!PlayTypes, PlayTypes
    <2> HIDE DEF opened, play
    <2>5. \E some \in (SUBSET Accounts) \ {{}} :
              /\ \A a \in some : open[a] = {}
              /\ \E chosen \in [some -> PlayTypes] :
                     open' = [a \in Accounts |->
                                  IF a \in some THEN {chosen[a]} ELSE open[a]]
      <3>1. WITNESS opened \in (SUBSET Accounts) \ {{}}
      <3>2. \A a \in opened : open[a] = {}
        BY <2>3
      <3>3. \E chosen \in [opened -> PlayTypes] :
                open' = [a \in Accounts |->
                             IF a \in opened THEN {chosen[a]} ELSE open[a]]
        <4>1. WITNESS play \in [opened -> PlayTypes]
        <4>2. QED  BY <1>5
      <3>4. QED  BY <3>2, <3>3
    <2>6. QED  BY <2>4, <2>5 DEF Lifecycle!OpenPlays, open
  <1>8. QED  BY <1>6, <1>7

LEMMA CloseRefines ==
    ASSUME IInv, NEW a \in Accounts, NEW p \in PlayTypes, CloseByAgent(a, p)
    PROVE  Lifecycle!Close(a)
  <1>1. \A b \in Accounts, q \in PlayTypes :
           /\ openPlays[b][q] \in Nat
           /\ openPlays'[b][q] = IF b = a /\ q = p THEN openPlays[b][q] - 1
                                                   ELSE openPlays[b][q]
    BY DEF IInv, TypeOK, CloseByAgent
  <1>2. openPlays[a][p] = 1 /\ \A q \in PlayTypes \ {p} : openPlays[a][q] = 0
    BY <1>1 DEF IInv, OneOpenPlay, CloseByAgent
  <1>3. open[a] # {} /\ open'[a] = {}
    BY <1>1, <1>2 DEF open
  <1>4. \A b \in Accounts \ {a} : open'[b] = open[b]
    BY <1>1 DEF open
  <1>5. open' = [open EXCEPT ![a] = {}]
    BY <1>3, <1>4 DEF open
  <1>6. QED  BY <1>3, <1>5 DEF Lifecycle!Close, open

LEMMA ExpansionRefines ==
    ASSUME IInv, NEW a \in Accounts, ExpansionCommits(a)
    PROVE  Lifecycle!Close(a) \/ Lifecycle!HandOver(a)
  <1>1. "expansion" \in PlayTypes /\ "onboarding" \in PlayTypes
    BY DEF PlayTypes
  <1>2. openPlays[a] \in [PlayTypes -> Nat] /\ openPlays[a]["expansion"] > 0
    BY DEF IInv, TypeOK, HandoverHoldsRun, ExpansionCommits
  <1>3. /\ openPlays[a]["expansion"] = 1
        /\ \A p \in PlayTypes \ {"expansion"} : openPlays[a][p] = 0
    BY <1>1, <1>2 DEF IInv, OneOpenPlay
  <1>4. /\ \A p \in PlayTypes \ {"onboarding"} : openPlays'[a][p] = 0
        /\ openPlays'[a]["onboarding"] \in {0, 1}
        /\ \A b \in Accounts \ {a} : openPlays'[b] = openPlays[b]
    BY <1>1, <1>2, <1>3, HandOverPlays DEF ExpansionCommits, IInv
  <1>5. open[a] = {"expansion"}
    BY <1>1, <1>3 DEF open
  <1>6. open'[a] = {} \/ open'[a] = {"onboarding"}
    <2>1. CASE openPlays'[a]["onboarding"] = 0
      <3>1. \A p \in PlayTypes : openPlays'[a][p] = 0
        BY <1>4, <2>1
      <3>2. QED  BY <3>1 DEF open
    <2>2. CASE openPlays'[a]["onboarding"] = 1
      <3>1. \A p \in PlayTypes : openPlays'[a][p] > 0 <=> p = "onboarding"
        BY <1>4, <2>2
      <3>2. QED  BY <1>1, <3>1 DEF open
    <2>3. QED  BY <1>4, <2>1, <2>2
  <1>7. \A b \in Accounts \ {a} : open'[b] = open[b]
    BY <1>4 DEF open
  <1>8. open' = [open EXCEPT ![a] = {}] \/ open' = [open EXCEPT ![a] = {"onboarding"}]
    BY <1>6, <1>7 DEF open
  <1>9. QED  BY <1>5, <1>8 DEF Lifecycle!Close, Lifecycle!HandOver, open

\* What the nightly job, the agents and the hand-over do to the plays of the
\* whole portfolio is the abstract life cycle: plays open only on idle
\* accounts, and only an expansion turns straight into another play.
THEOREM RefinesLifecycle ==
    ASSUME SerialEvaluators
    PROVE  Spec => LifecycleSpec
  <1>1. Init => Lifecycle!Init
    BY DEF Init, Lifecycle!Init
  <1>2. IInv /\ [Next]_vars => [Lifecycle!Next]_open
    <2> SUFFICES ASSUME IInv, [Next]_vars PROVE Lifecycle!Next \/ open' = open
      OBVIOUS
    <2>1. CASE UNCHANGED openPlays
      BY <2>1 DEF open
    <2>2. ASSUME NEW e \in Evaluators, Commit(e)
          PROVE  Lifecycle!Next \/ open' = open
      BY <2>2, CommitRefines DEF Lifecycle!Next
    <2>3. ASSUME NEW a \in Accounts, NEW p \in PlayTypes, CloseByAgent(a, p)
          PROVE  Lifecycle!Next
      BY <2>3, CloseRefines DEF Lifecycle!Next
    <2>4. ASSUME NEW a \in Accounts, ExpansionCommits(a)
          PROVE  Lifecycle!Next
      BY <2>4, ExpansionRefines DEF Lifecycle!Next
    <2>5. QED
      BY <2>1, <2>2, <2>3, <2>4
      DEF Next, Evaluation, StartRun, ProcessAccount, AbortOnTier, Crash,
          FactsChange, SetTier, Agents, ExpansionReads, vars
  <1>3. QED
    BY IInvHolds, <1>1, <1>2, PTL DEF Spec, LifecycleSpec, Lifecycle!Spec, open

=============================================================================
