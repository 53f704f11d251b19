----------------------------- MODULE HealthModel -----------------------------
(***************************************************************************)
(* The health score (metrics/dimensions.py, overrides.py, health.py) with  *)
(* the numbers of metrics/config/health_model_v1.yaml.  Pure operators on  *)
(* the campaigns of an account, the day, and the account:                  *)
(*   [contractStart, potential, model, committed, commitmentEnd,           *)
(*    stakeholders: [type, departed, lastContact, willing] records,        *)
(*    valueDocs: the days of confirmation, NoDate for an unconfirmed one]  *)
(* with 0 for a missing volume or target.  No escalation source exists:    *)
(* the jobs always pass an empty list, so that dimension is always null    *)
(* and its override never fires.                                           *)
(***************************************************************************)
EXTENDS Usage, Sequences

CONSTANTS
    AtRiskSilence,      \* no_campaign_days_at_risk: 45
    CriticalSilence,    \* no_campaign_days_critical: 90
    Tenure,             \* tenure_days_before_sponsor_single_creator_caps: 90
    FinalStretch,       \* days_left_in_term_for_utilization_test: 90
    OnboardingAge,      \* onboarding_target.age_days_threshold: 180
    OnboardingTarget    \* target_campaigns_by_day_90: 6

ASSUME ThresholdsAssumption ==
    /\ {AtRiskSilence, CriticalSilence, Tenure, FinalStretch,
        OnboardingAge, OnboardingTarget} \subseteq Nat \ {0}
    /\ AtRiskSilence <= CriticalSilence /\ CriticalSilence <= Quarter
    /\ AtRiskSilence <= RepeatWindow /\ AtRiskSilence <= OnboardingAge

NoDate == -1000     \* earlier than every date
NoScore == -1

Weight == [volume |-> 30, breadth |-> 20, value |-> 20, quality |-> 15,
           relationship |-> 10, sentiment |-> 5]

\* volume_trajectory_bands: [least ratio in percent, score], best first.
VolumeBands == <<<<125, 100>>, <<100, 85>>, <<85, 65>>, <<70, 40>>,
                 <<50, 20>>, <<0, 0>>>>

\* _band_score for the ratio count / base.
BandScore(count, base) ==
    LET met == {i \in DOMAIN VolumeBands :
                    100 * count >= VolumeBands[i][1] * base}
    IN  VolumeBands[Min(met)][2]

Age(account, today) == today - account.contractStart

VolumeScore(account, campaigns, today) ==
    LET age     == Age(account, today)
        elapsed == Max({1, Min({age, Quarter})})
        actual  == BillableInWindow(campaigns, account.contractStart, today)
    IN  IF age < OnboardingAge
        THEN BandScore(Cardinality(actual) * Quarter, OnboardingTarget * elapsed)
        ELSE IF ~HasVolumeRatio(campaigns, today) THEN NoScore
        ELSE BandScore(Cardinality(Last90(campaigns, today)),
                       Cardinality(Prior90(campaigns, today)))

\* Exact while the counts of departments divide 50 (checked in MC modules).
BreadthScore(account, campaigns, today) ==
    LET live  == DepartmentsLive(campaigns, today)
        broad == {d \in live :
                     Cardinality(ActiveCreators(campaigns, today, d)) >= 2}
        reach == Min({Cardinality(live), account.potential})
    IN  IF account.potential = 0 THEN NoScore
        ELSE (50 * reach) \div account.potential
             + (IF live = {} THEN 0
                ELSE (50 * Cardinality(broad)) \div Cardinality(live))

ValueScore(account, today) ==
    LET confirmed == account.valueDocs \ {NoDate}
        age       == today - Max(confirmed)
    IN  IF confirmed = {} THEN (IF account.valueDocs = {} THEN 0 ELSE 40)
        ELSE IF age <= Quarter THEN 100
        ELSE IF age <= 2 * Quarter THEN 70
        ELSE 40

QualityScore(campaigns, today) ==
    LET all    == Cardinality(CreatorsOf(RepeatWindowOf(campaigns, today)))
        repeat == Cardinality(RepeatCreators(campaigns, today))
    IN  IF all = 0 THEN NoScore
        ELSE IF 10 * repeat >= 6 * all THEN 100
        ELSE IF 10 * repeat >= 3 * all THEN 50
        ELSE 0

ActivePeople(account, type) ==
    {s \in account.stakeholders : s.type = type /\ ~s.departed}

RelationshipScore(account, today) ==
    LET checks ==
            <<ActivePeople(account, "economic_buyer") # {},
              ActivePeople(account, "exec_sponsor") # {},
              \E s \in ActivePeople(account, "exec_sponsor") :
                  s.lastContact # NoDate /\ today - s.lastContact <= Quarter,
              Cardinality({s \in account.stakeholders : ~s.departed}) >= 3,
              \E s \in ActivePeople(account, "champion") : s.willing>>
    IN  20 * Cardinality({i \in DOMAIN checks : checks[i]})

DimensionScores(account, campaigns, today) ==
    [volume       |-> VolumeScore(account, campaigns, today),
     breadth      |-> BreadthScore(account, campaigns, today),
     value        |-> ValueScore(account, today),
     quality      |-> QualityScore(campaigns, today),
     relationship |-> RelationshipScore(account, today),
     sentiment    |-> NoScore]

-----------------------------------------------------------------------------
(* The overrides *)

OverrideCap ==
    [champion_departed_no_successor |-> 49,
     zero_campaigns_45d             |-> 49,
     zero_campaigns_90d             |-> 29,
     no_exec_sponsor_after_90_days  |-> 74,
     committed_utilization_floor    |-> 49,
     single_creator_whole_account   |-> 74]

\* check_champion_departed_no_successor, and trigger_champion_departure.
ChampionLost(account) ==
    /\ \E s \in account.stakeholders : s.type = "champion" /\ s.departed
    /\ ActivePeople(account, "champion") = {}

\* Mutant: the silence counts from the contract even after a campaign.
SilentFor_SinceContract(account, campaigns, today, days) ==
    Age(account, today) >= days

SilentFor(account, campaigns, today, days) ==
    DaysSilent(campaigns, account.contractStart, today) >= days

\* The tenure rule is only about a sole creator, so an account where the
\* window holds none at all is left to the zero-campaign caps.
SingleCreator(account, campaigns, today) ==
    /\ Age(account, today) >= Tenure
    /\ Cardinality(CreatorsOf(Last90(campaigns, today))) = 1

NoSponsor(account, today) ==
    /\ Age(account, today) >= Tenure
    /\ ActivePeople(account, "exec_sponsor") = {}

UtilizationFloor(account, campaigns, today) ==
    /\ account.model = "committed"
    /\ account.committed > 0 /\ account.commitmentEnd # NoDate
    /\ account.commitmentEnd - today <= FinalStretch
    /\ 100 * Consumed(campaigns) < 40 * account.committed

FiredOverrides(account, campaigns, today) ==
    LET fires ==
            [champion_departed_no_successor |-> ChampionLost(account),
             zero_campaigns_45d |->
                 SilentFor(account, campaigns, today, AtRiskSilence),
             zero_campaigns_90d |->
                 SilentFor(account, campaigns, today, CriticalSilence),
             no_exec_sponsor_after_90_days |-> NoSponsor(account, today),
             committed_utilization_floor |->
                 UtilizationFloor(account, campaigns, today),
             single_creator_whole_account |->
                 SingleCreator(account, campaigns, today)]
    IN  {name \in DOMAIN fires : fires[name]}

-----------------------------------------------------------------------------
(* The composite, the cap and the band *)

\* Mutant: the caps are applied to nothing.
Cap_Ignored(account, campaigns, today) == 100

\* The lowest cap that fired; 100 stands for none.
Cap(account, campaigns, today) ==
    Min({100} \cup {OverrideCap[name] :
                        name \in FiredOverrides(account, campaigns, today)})

\* A sum over the rows of Weight.
OverDimensions(value) ==
    value.volume + value.breadth + value.value + value.quality
        + value.relationship + value.sentiment

\* The weighted mean over the dimensions that have a score, as the sum of
\* the points and of the weights; some always has (value and relationship
\* are never null).
Composite(account, campaigns, today) ==
    LET score     == DimensionScores(account, campaigns, today)
        weight == [d \in DOMAIN Weight |-> IF score[d] = NoScore THEN 0 ELSE Weight[d]]
        points == [d \in DOMAIN Weight |-> weight[d] * score[d]]
    IN  [points |-> OverDimensions(points), weight |-> OverDimensions(weight)]

\* The final score, the composite under the cap, is at least the mark.
Reaches(composite, cap, mark) ==
    cap >= mark /\ composite.points >= mark * composite.weight

\* derive_band
DeriveBand(composite, cap) ==
    IF Reaches(composite, cap, 75) THEN "healthy"
    ELSE IF Reaches(composite, cap, 50) THEN "watch"
    ELSE IF Reaches(composite, cap, 30) THEN "at_risk"
    ELSE "critical"

Band(account, campaigns, today) ==
    DeriveBand(Composite(account, campaigns, today), Cap(account, campaigns, today))

=============================================================================
