-------------------------- MODULE RenewalPlayProofs --------------------------
(***************************************************************************)
(* Proofs about RenewalPlay for all thresholds ordered as in the code, all *)
(* volumes and all bounds on the dates the customer may move to.  The      *)
(* properties follow from an invariant that ties what the play has queued  *)
(* to its flags (QueueMatchesFlags) and the date it looks at to the date   *)
(* it was opened for (ExtendedIsLater).                                    *)
(***************************************************************************)
EXTENDS RenewalPlay, TLAPS

QueueMatchesFlags ==
    /\ \A stage \in Stages : queued[stage] = IF stage \in drafted THEN 1 ELSE 0
    /\ queued["debrief"] = IF status = "closed" THEN 1 ELSE 0

ClosedIsComplete == status = "closed" => drafted = Stages

ExtendedIsLater ==
    /\ status # "closed" /\ extended => daysOut >= openOut
    /\ status = "closed" /\ extended => openOut <= -DebriefLag

IInv == TypeOK /\ StageOrder /\ QueueMatchesFlags /\ ClosedIsComplete /\ ExtendedIsLater

-----------------------------------------------------------------------------

LEMMA StageFacts ==
    /\ "debrief" \notin Stages
    /\ \A stage \in Stages : Rank[stage] \in Nat
    /\ Rank["readiness"] = 1 /\ Rank["value_review"] = 2
    /\ Rank["growth_proposal"] = 3 /\ Rank["objections"] = 4
  BY DEF Stages, Rank

LEMMA DueMeans ==
    /\ Due("readiness")
    /\ Due("value_review") <=> daysOut <= ValueReviewDay
    /\ Due("growth_proposal") <=> daysOut <= GrowthProposalDay
    /\ Due("objections") <=> daysOut <= ObjectionsDay
  BY DEF Due

\* A stage that is due makes every earlier stage due: the thresholds are
\* ordered.  This is why a late start cannot skip a stage.
LEMMA EarlierIsDue ==
    ASSUME TypeOK, NEW stage \in Stages, NEW earlier \in Stages,
           Due(stage), Rank[earlier] < Rank[stage]
    PROVE  Due(earlier)
  <1>1. daysOut \in Int
    BY RenewalAssumption DEF TypeOK
  <1>2. CASE earlier = "readiness"
    BY <1>2, DueMeans
  <1>3. CASE earlier = "value_review"
    <2>1. stage = "growth_proposal" \/ stage = "objections"
      BY <1>3, StageFacts DEF Stages
    <2>2. QED  BY <1>1, <1>3, <2>1, RenewalAssumption, DueMeans
  <1>4. CASE earlier = "growth_proposal"
    <2>1. stage = "objections"
      BY <1>4, StageFacts DEF Stages
    <2>2. QED  BY <1>1, <1>4, <2>1, RenewalAssumption, DueMeans
  <1>5. CASE earlier = "objections"
    BY <1>5, StageFacts DEF Stages
  <1>6. QED  BY <1>2, <1>3, <1>4, <1>5 DEF Stages

\* Drafting the next stage keeps the order.
LEMMA NextStageOrder ==
    ASSUME TypeOK, StageOrder, NEW stage \in Stages, IsNext(stage)
    PROVE  \A s \in drafted \cup {stage} : \A earlier \in Stages :
               Rank[earlier] < Rank[s] => earlier \in drafted \cup {stage}
  <1> SUFFICES ASSUME NEW s \in drafted \cup {stage}, NEW earlier \in Stages,
                      Rank[earlier] < Rank[s]
               PROVE  earlier \in drafted \cup {stage}
    OBVIOUS
  <1>1. CASE s \in drafted
    BY <1>1 DEF StageOrder
  <1>2. CASE s = stage
    <2>1. Due(earlier)
      BY <1>2, EarlierIsDue DEF IsNext, DueStages
    <2>2. ~(Rank[stage] <= Rank[earlier])
      BY <1>2, StageFacts
    <2>3. earlier \notin DueStages
      BY <2>2 DEF IsNext
    <2>4. QED  BY <2>1, <2>3 DEF DueStages
  <1>3. QED  BY <1>1, <1>2

LEMMA CountDownRange ==
    ASSUME NEW n \in (-DebriefLag)..MaxOut
    PROVE  /\ CountDown(n) \in (-DebriefLag)..MaxOut
           /\ CountDown(n) <= n
           /\ \A m \in (-DebriefLag)..MaxOut : n >= m => CountDown(n) >= CountDown(m)
  BY RenewalAssumption DEF CountDown

-----------------------------------------------------------------------------
(* The invariant *)

LEMMA InitIInv == Init => IInv
  <1> SUFFICES ASSUME Init PROVE IInv
    OBVIOUS
  <1>1. MaxOut \in (-DebriefLag)..MaxOut /\ 0..MaxOut \subseteq (-DebriefLag)..MaxOut
    BY RenewalAssumption
  <1>2. TypeOK
    BY <1>1 DEF Init, TypeOK, NoOutcome, Outcomes
  <1>3. StageOrder /\ ClosedIsComplete /\ ExtendedIsLater
    BY DEF Init, StageOrder, ClosedIsComplete, ExtendedIsLater
  <1>4. QueueMatchesFlags
    BY DEF Init, QueueMatchesFlags
  <1>5. QED  BY <1>2, <1>3, <1>4 DEF IInv

LEMMA OpenRunIInv == IInv /\ OpenRun => IInv'
  <1> SUFFICES ASSUME IInv, OpenRun PROVE IInv'
    OBVIOUS
  <1>1. TypeOK'
    BY DEF IInv, TypeOK, OpenRun, accountVars
  <1>2. (StageOrder /\ ClosedIsComplete)'
    BY DEF IInv, StageOrder, ClosedIsComplete, OpenRun
  <1>3. QueueMatchesFlags'
    BY DEF IInv, QueueMatchesFlags, OpenRun
  <1>4. ExtendedIsLater'
    BY DEF IInv, ExtendedIsLater, OpenRun, accountVars
  <1>5. QED  BY <1>1, <1>2, <1>3, <1>4 DEF IInv

LEMMA CheckReadinessIInv == IInv /\ CheckReadiness => IInv'
  <1> SUFFICES ASSUME IInv, CheckReadiness PROVE IInv'
    OBVIOUS
  <1>1. "readiness" \in Stages /\ IsNext("readiness") /\ "readiness" \notin drafted
    BY DEF CheckReadiness, IsNext, DueStages, Stages
  <1>2. TypeOK'
    <2>1. /\ openOut' \in (-DebriefLag)..MaxOut
          /\ volumeAtOpen' \in Volumes \cup {NoVolume}
          /\ queued' \in [Stages \cup {"debrief"} -> Nat]
      BY <1>1 DEF IInv, TypeOK, CheckReadiness
    <2>2. /\ drafted' \subseteq Stages
          /\ extended' = FALSE /\ usedSince' = FALSE
          /\ UNCHANGED <<dated, daysOut, volume, rated, status, outcome>>
      BY <1>1 DEF IInv, TypeOK, CheckReadiness
    <2>3. QED  BY <2>1, <2>2 DEF IInv, TypeOK
  <1>3. StageOrder'
    BY <1>1, NextStageOrder DEF IInv, StageOrder, CheckReadiness
  <1>4. QueueMatchesFlags'
    BY <1>1, StageFacts DEF IInv, TypeOK, QueueMatchesFlags, CheckReadiness
  <1>5. (ClosedIsComplete /\ ExtendedIsLater)'
    BY DEF ClosedIsComplete, ExtendedIsLater, CheckReadiness, CanProcess
  <1>6. QED  BY <1>2, <1>3, <1>4, <1>5 DEF IInv

LEMMA DraftStageIInv ==
    ASSUME IInv, NEW stage \in Stages, DraftStage(stage)
    PROVE  IInv'
  <1>1. IsNext(stage) /\ stage \notin drafted
    BY DEF DraftStage, IsNext, DueStages
  <1>2. TypeOK'
    BY DEF IInv, TypeOK, DraftStage, accountVars
  <1>3. StageOrder'
    BY <1>1, NextStageOrder DEF IInv, StageOrder, DraftStage
  <1>4. QueueMatchesFlags'
    BY <1>1, StageFacts DEF IInv, TypeOK, QueueMatchesFlags, DraftStage
  <1>5. ClosedIsComplete'
    BY DEF ClosedIsComplete, DraftStage, CanProcess
  <1>6. ExtendedIsLater'
    BY DEF IInv, ExtendedIsLater, DraftStage, accountVars
  <1>7. QED  BY <1>2, <1>3, <1>4, <1>5, <1>6 DEF IInv

\* By the time nothing is due and the date is DebriefLag days gone, every
\* stage is drafted, because a past date makes every stage due.
LEMMA NothingLeft ==
    ASSUME TypeOK, DueStages = {}, DebriefDue
    PROVE  drafted = Stages
  <1>1. daysOut \in Int /\ daysOut <= 0
    BY RenewalAssumption DEF TypeOK, DebriefDue
  <1>2. \A stage \in Stages : Due(stage)
    BY <1>1, RenewalAssumption, DueMeans DEF Stages
  <1>3. QED  BY <1>2 DEF DueStages, TypeOK

LEMMA DebriefIInv == IInv /\ Debrief => IInv'
  <1> SUFFICES ASSUME IInv, Debrief PROVE IInv'
    OBVIOUS
  <1>1. drafted = Stages
    BY NothingLeft DEF IInv, Debrief
  <1>2. Classification \in Outcomes
    BY DEF Classification, Outcomes, IInv, TypeOK
  <1>3. TypeOK'
    BY <1>2 DEF IInv, TypeOK, Debrief, accountVars
  <1>4. StageOrder' /\ ClosedIsComplete'
    BY <1>1 DEF StageOrder, ClosedIsComplete, Debrief
  <1>5. QueueMatchesFlags'
    <2>1. status = "open" /\ queued["debrief"] = 0
      BY DEF Debrief, CanProcess, IInv, QueueMatchesFlags
    <2>2. QED  BY <2>1, StageFacts DEF IInv, TypeOK, QueueMatchesFlags, Debrief
  <1>6. ExtendedIsLater'
    <2>1. daysOut \in Int /\ openOut \in Int
      BY RenewalAssumption DEF IInv, TypeOK
    <2>2. status # "closed"
      BY DEF Debrief, CanProcess
    <2>3. QED
      BY <2>1, <2>2, RenewalAssumption
      DEF IInv, ExtendedIsLater, Debrief, DebriefDue, accountVars
  <1>7. QED  BY <1>3, <1>4, <1>5, <1>6 DEF IInv

LEMMA MidnightIInv == IInv /\ Midnight => IInv'
  <1> SUFFICES ASSUME IInv, Midnight PROVE IInv'
    OBVIOUS
  <1>1. daysOut \in (-DebriefLag)..MaxOut /\ openOut \in (-DebriefLag)..MaxOut
    BY DEF IInv, TypeOK
  <1>2. TypeOK'
    BY <1>1, CountDownRange DEF IInv, TypeOK, Midnight
  <1>3. (StageOrder /\ ClosedIsComplete)'
    BY DEF IInv, StageOrder, ClosedIsComplete, Midnight
  <1>4. QueueMatchesFlags'
    BY DEF IInv, QueueMatchesFlags, Midnight
  <1>5. ExtendedIsLater'
    <2>1. CASE "readiness" \in drafted
      <3>1. daysOut' = CountDown(daysOut) /\ openOut' = CountDown(openOut)
        BY <2>1 DEF Midnight
      <3>2. openOut' <= openOut /\ (daysOut >= openOut => daysOut' >= openOut')
        BY <1>1, <3>1, CountDownRange
      <3>3. openOut' \in Int /\ openOut \in Int /\ DebriefLag \in Int
        BY <1>1, <3>1, CountDownRange, RenewalAssumption
      <3>4. QED  BY <3>2, <3>3 DEF IInv, ExtendedIsLater, Midnight
    <2>2. CASE "readiness" \notin drafted
      <3>1. ~extended
        BY <2>2 DEF IInv, TypeOK
      <3>2. QED  BY <3>1 DEF ExtendedIsLater, Midnight
    <2>3. QED  BY <2>1, <2>2
  <1>6. QED  BY <1>2, <1>3, <1>4, <1>5 DEF IInv

LEMMA CustomerIInv == IInv /\ Customer => IInv'
  <1> SUFFICES ASSUME IInv, Customer PROVE IInv'
    OBVIOUS
  <1>1. UNCHANGED <<status, outcome, drafted, openOut, volumeAtOpen, queued>>
    BY DEF Customer, SetReference, ClearReference, SetVolume, RunCampaign, SetTier, runVars
  <1>2. (StageOrder /\ ClosedIsComplete)'
    BY <1>1 DEF IInv, StageOrder, ClosedIsComplete
  <1>3. QueueMatchesFlags'
    BY <1>1 DEF IInv, QueueMatchesFlags
  <1>4. CASE SetReference
    <2>1. daysOut' \in (-DebriefLag)..MaxOut
      BY <1>4, RenewalAssumption DEF SetReference
    <2>2. extended' \in BOOLEAN /\ (extended' => "readiness" \in drafted')
      BY <1>4 DEF SetReference, IInv, TypeOK
    <2>3. TypeOK'
      BY <1>1, <1>4, <2>1, <2>2 DEF IInv, TypeOK, SetReference
    <2>4. ExtendedIsLater'
      <3>1. daysOut' \in Int /\ openOut \in Int
        BY <2>1, RenewalAssumption DEF IInv, TypeOK
      <3>2. CASE status = "closed"
        <4>1. extended' = extended
          BY <1>4, <3>2 DEF SetReference
        <4>2. QED  BY <1>1, <3>2, <4>1 DEF IInv, ExtendedIsLater
      <3>3. CASE status # "closed"
        <4>1. extended' => daysOut' > openOut
          BY <1>4, <3>3 DEF SetReference
        <4>2. extended' => daysOut' >= openOut
          BY <3>1, <4>1
        <4>3. QED  BY <1>1, <3>3, <4>2 DEF ExtendedIsLater
      <3>4. QED  BY <3>2, <3>3
    <2>5. QED  BY <1>2, <1>3, <2>3, <2>4 DEF IInv
  <1>5. CASE ClearReference \/ SetVolume \/ RunCampaign \/ SetTier
    <2>1. UNCHANGED <<daysOut, extended>>
      BY <1>5 DEF ClearReference, SetVolume, RunCampaign, SetTier, runVars
    <2>2. ExtendedIsLater'
      BY <1>1, <2>1 DEF IInv, ExtendedIsLater
    <2>3. TypeOK'
      BY <1>1, <1>5, <2>1 DEF IInv, TypeOK, ClearReference, SetVolume, RunCampaign, SetTier
    <2>4. QED  BY <1>2, <1>3, <2>2, <2>3 DEF IInv
  <1>6. QED  BY <1>4, <1>5 DEF Customer

LEMMA NextIInv == IInv /\ [Next]_vars => IInv'
  <1> SUFFICES ASSUME IInv, [Next]_vars PROVE IInv'
    OBVIOUS
  <1>1. CASE UNCHANGED vars
    BY <1>1
    DEF IInv, TypeOK, StageOrder, QueueMatchesFlags, ClosedIsComplete,
        ExtendedIsLater, vars, accountVars, runVars
  <1>2. CASE OpenRun
    BY <1>2, OpenRunIInv
  <1>3. CASE ProcessRun
    BY <1>3, CheckReadinessIInv, DraftStageIInv, DebriefIInv DEF ProcessRun
  <1>4. CASE Midnight
    BY <1>4, MidnightIInv
  <1>5. CASE Customer
    BY <1>5, CustomerIInv
  <1>6. QED  BY <1>1, <1>2, <1>3, <1>4, <1>5 DEF Next

-----------------------------------------------------------------------------
(* Theorems *)

\* Every reachable state of a renewal play satisfies the invariant.
THEOREM IInvHolds == Spec => []IInv
  <1>1. QED  BY InitIInv, NextIInv, PTL DEF Spec

\* The play's rows keep their types, and it has an outcome exactly when it
\* is closed.
THEOREM TypeCorrect == Spec => []TypeOK
  <1>1. IInv => TypeOK
    BY DEF IInv
  <1>2. QED  BY IInvHolds, <1>1, PTL

\* Value review, then commercial proposal, then objections, whatever moved.
THEOREM StageOrderHolds == Spec => []StageOrder
  <1>1. IInv => StageOrder
    BY DEF IInv
  <1>2. QED  BY IInvHolds, <1>1, PTL

\* At most one draft per stage and one debrief in the life of the play.
THEOREM DraftedOnceHolds == Spec => []DraftedOnce
  <1>1. IInv => DraftedOnce
    BY DEF IInv, QueueMatchesFlags, DraftedOnce
  <1>2. QED  BY IInvHolds, <1>1, PTL

\* A renewal play closes only after all its stages were drafted, for any
\* thresholds ordered as the code's are.
THEOREM NothingSkippedHolds == Spec => []NothingSkipped
  <1>1. IInv => NothingSkipped
    BY DEF IInv, QueueMatchesFlags, ClosedIsComplete, NothingSkipped
  <1>2. QED  BY IInvHolds, <1>1, PTL

\* A recommitment is never judged before DebriefLag days after the date the
\* play was opened for.
THEOREM NotJudgedEarlyHolds == Spec => []NotJudgedEarly
  <1>1. IInv => NotJudgedEarly
    BY DEF IInv, ExtendedIsLater, NotJudgedEarly
  <1>2. QED  BY IInvHolds, <1>1, PTL

-----------------------------------------------------------------------------
(* The play_run keeps the promises of PlayRun. *)

Rows == queued["readiness"] + queued["value_review"] + queued["growth_proposal"]
            + queued["objections"] + queued["debrief"]

LEMMA RowsGrow ==
    ASSUME TypeOK, NEW stage \in Stages \cup {"debrief"},
           queued' = [queued EXCEPT ![stage] = @ + 1]
    PROVE  Rows' \in Nat /\ Rows' >= Rows
  BY DEF TypeOK, Rows, Stages

LEMMA NextRefines == TypeOK /\ TypeOK' /\ [Next]_vars => Record!Step
  <1> SUFFICES ASSUME TypeOK, TypeOK', [Next]_vars PROVE Record!Step
    OBVIOUS
  <1> USE DEF Record!Step, Record!Next
  <1>1. CASE OpenRun
    BY <1>1 DEF OpenRun, Record!Open
  <1>2. CASE CheckReadiness
    <2>1. Rows' \in Nat /\ Rows' >= Rows
      BY <1>2, RowsGrow DEF CheckReadiness, Stages
    <2>2. QED
      BY <1>2, <2>1 DEF CheckReadiness, CanProcess, Rows, Record!Work, Record!RowsGrow
  <1>3. ASSUME NEW stage \in Stages, DraftStage(stage) PROVE Record!Step
    <2>1. Rows' \in Nat /\ Rows' >= Rows
      BY <1>3, RowsGrow DEF DraftStage
    <2>2. QED
      BY <1>3, <2>1 DEF DraftStage, CanProcess, Rows, Record!Work, Record!RowsGrow
  <1>4. CASE Debrief
    <2>1. Rows' \in Nat /\ Rows' >= Rows
      BY <1>4, RowsGrow DEF Debrief
    <2>2. outcome' \in Outcomes
      BY <1>4 DEF Debrief, TypeOK
    <2>3. QED
      BY <1>4, <2>1, <2>2 DEF Debrief, CanProcess, Rows, Record!Close, Record!RowsGrow
  <1>5. CASE Midnight \/ Customer \/ UNCHANGED vars
    BY <1>5 DEF Midnight, Customer, SetReference, ClearReference, SetVolume, RunCampaign, SetTier,
                vars, runVars
  <1>6. QED  BY <1>1, <1>2, <1>3, <1>4, <1>5 DEF Next, ProcessRun

\* Every renewal play_run is opened once, closed once with an outcome, and
\* gains no action afterwards.
THEOREM RefinesPlayRun == Spec => RecordSpec
  <1>1. Init => Record!Init
    BY DEF Init, Record!Init, NoOutcome, Record!NoOutcome, Stages
  <1>2. TypeOK /\ TypeOK' /\ [Next]_vars =>
            [Record!Next]_<<status, outcome,
                            queued["readiness"] + queued["value_review"]
                                + queued["growth_proposal"] + queued["objections"]
                                + queued["debrief"]>>
    BY NextRefines DEF Record!Step
  <1>3. QED
    BY <1>1, <1>2, TypeCorrect, PTL DEF Spec, RecordSpec, Record!Spec

=============================================================================
