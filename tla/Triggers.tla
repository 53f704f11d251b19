------------------------------ MODULE Triggers ------------------------------
(***************************************************************************)
(* The account-wide triggers of signals/triggers.py over the same facts as *)
(* the health score: which signal types a night's evaluation would raise.  *)
(* The two per-department decay triggers depend on users and are left out; *)
(* single-threading itself is SingleThreaded of Usage.                     *)
(***************************************************************************)
EXTENDS HealthModel, Orchestrator

CONSTANTS
    Dormant,        \* trigger_zero_campaigns_30d: 30 days
    GraceDays,      \* trigger_contract_signed: 3 days
    RenewalWindow,  \* trigger_renewal_window: 20 days
    YearBack,       \* seasonality_flag: 365 days
    MinSample       \* min_campaigns_per_window_for_yoy: 4

ASSUME TriggersAssumption ==
    /\ {Dormant, YearBack, MinSample} \subseteq Nat \ {0}
    /\ {GraceDays, RenewalWindow} \subseteq Nat
    /\ Dormant <= AtRiskSilence

\* seasonality_flag's two windows a year apart, if the data reaches back
\* far enough to cover the older one and both hold enough campaigns.
YearAgo90(campaigns, today) ==
    BillableInWindow(campaigns, today - YearBack - (Quarter - 1), today - YearBack)

YearComparable(campaigns, today) ==
    /\ EverBillable(campaigns) # {}
    /\ Min(EverBillable(campaigns)) <= today - YearBack - (Quarter - 1)
    /\ Cardinality(YearAgo90(campaigns, today)) >= MinSample
    /\ Cardinality(Last90(campaigns, today)) >= MinSample

\* _seasonal_dip_explains_it: the sequential and the yearly ratio differ by
\* more than 0.15 and the yearly one is at least 0.85.
SeasonalDip(campaigns, today) ==
    LET current  == Cardinality(Last90(campaigns, today))
        prior    == Cardinality(Prior90(campaigns, today))
        yearAgo  == Cardinality(YearAgo90(campaigns, today))
        distance == IF prior > yearAgo THEN prior - yearAgo ELSE yearAgo - prior
    IN  /\ YearComparable(campaigns, today)
        /\ prior > 0
        /\ 100 * current * distance > 15 * prior * yearAgo
        /\ 100 * current >= 85 * yearAgo

\* Mutant: the sequential comparison also judges young accounts.
VolumeDecays_AnyAge(account, campaigns, today) ==
    /\ HasVolumeRatio(campaigns, today)
    /\ VolumeRatioBelow(campaigns, today, 85)
    /\ ~SeasonalDip(campaigns, today)

\* trigger_volume_ratio_below_085
VolumeDecays(account, campaigns, today) ==
    /\ Age(account, today) >= OnboardingAge
    /\ HasVolumeRatio(campaigns, today)
    /\ VolumeRatioBelow(campaigns, today, 85)
    /\ ~SeasonalDip(campaigns, today)

\* trigger_zero_campaigns_30d: never about an account that was never active.
GoesDormant(campaigns, today) ==
    /\ EverBillable(campaigns) # {}
    /\ today - Max(EverBillable(campaigns)) >= Dormant

\* trigger_commitment_pace_low
PaceIsLow(account, campaigns, today) ==
    /\ HasPace(account, today)
    /\ PaceBelow(Consumed(campaigns), account, today, 70)

\* The evaluation's decay candidates that speak of the whole account.
DecayCandidates(account, campaigns, today) ==
    LET fires ==
            [decay_volume_ratio_below_085 |-> VolumeDecays(account, campaigns, today),
             decay_zero_campaigns_30d     |-> GoesDormant(campaigns, today),
             decay_commitment_pace_low    |-> PaceIsLow(account, campaigns, today),
             decay_champion_departure     |-> ChampionLost(account)]
    IN  {type \in DOMAIN fires : fires[type]}

\* trigger_expansion_candidate, on the band of the latest stored score.
ExpansionFires(account, campaigns, today, band) ==
    LET confirmed == account.valueDocs \ {NoDate}
    IN  /\ band = "healthy"
        /\ account.potential > Cardinality(DepartmentsLive(campaigns, today))
        /\ confirmed # {}
        /\ today - Max(confirmed) <= 2 * Quarter

\* trigger_contract_signed; trigger_renewal_window on the commitment's end.
PlayCandidates(account, campaigns, today, band) ==
    LET daysOut == account.commitmentEnd - today
        fires ==
            [play1_contract_signed     |-> Age(account, today) \in 0..GraceDays,
             play3_renewal_window      |-> /\ account.commitmentEnd # NoDate
                                           /\ daysOut \in 0..RenewalWindow,
             play4_expansion_candidate |->
                 ExpansionFires(account, campaigns, today, band)]
    IN  {type \in DOMAIN fires : fires[type]}

=============================================================================
