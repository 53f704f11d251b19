------------------------ MODULE AccountHealthProofs ------------------------
(***************************************************************************)
(* Proofs about one account over its days: its campaigns, scores and       *)
(* second-creator drafts (AccountHealth), and its elevations (Coverage).   *)
(*                                                                         *)
(* AccountHealth, for any campaigns, accounts and thresholds in the order  *)
(* of the model file.  What a day's properties say follows from the types  *)
(* of the facts; what the harness finds in the stored rows needs an        *)
(* invariant (HInv): a row of a silent day is amber and stays the row of a *)
(* silent day, whatever arrives later, and the nights without a row are    *)
(* counted.  Two drafts of a department stay a cooldown apart.  The        *)
(* harness's scan has an invariant of its own over the days it has read    *)
(* (ScanOK), and its recursive function is shown to have the values its    *)
(* recursion says (ScannedSteps).                                          *)
(*                                                                         *)
(* Coverage, for any durations and any changes of the facts.               *)
(***************************************************************************)
EXTENDS AccountHealth, Coverage, FiniteSetTheorems, WellFoundedInduction, TLAPS

-----------------------------------------------------------------------------
(* Extremes of sets of numbers *)

BelowNat == {p \in Nat \X Nat : p[1] < p[2]}

\* A set of naturals with an element has a least one.
LEMMA LeastNat ==
    ASSUME NEW S, S \subseteq Nat, S # {}
    PROVE  \E x \in S : \A y \in S : x <= y
  <1>1. IsWellFoundedOn(BelowNat, Nat)
    BY NatLessThanWellFounded DEF OpToRel, BelowNat
  <1>2. PICK x \in S : \A y \in S : <<y, x>> \notin BelowNat
    BY <1>1, WFMin
  <1>3. ASSUME NEW a \in Nat, NEW b \in Nat, a < b PROVE <<a, b>> \in BelowNat
    BY <1>3 DEF BelowNat
  <1>4. x \in Nat /\ \A y \in S : y \in Nat
    OBVIOUS
  <1>5. ASSUME NEW y \in S PROVE x <= y
    <2>1. ~(y < x)
      BY <1>2, <1>3, <1>4
    <2>2. QED
      BY <1>4, <2>1
  <1>6. QED
    BY <1>5

LEMMA MinOfNats ==
    ASSUME NEW S, S \subseteq Nat, S # {}
    PROVE  Min(S) \in S /\ \A y \in S : Min(S) <= y
  BY LeastNat DEF Min

\* The elements above the largest are the fewest: their numbers have a
\* least one.
LEMMA MaxOfInts ==
    ASSUME NEW S, S \subseteq Int, S # {}, IsFiniteSet(S)
    PROVE  Max(S) \in S /\ \A y \in S : y <= Max(S)
  <1> DEFINE Above(x) == {y \in S : y > x}
  <1>1. ASSUME NEW x \in S PROVE IsFiniteSet(Above(x)) /\ Cardinality(Above(x)) \in Nat
    BY FS_Subset, FS_CardinalityType
  <1>2. PICK x \in S : \A y \in S : Cardinality(Above(x)) <= Cardinality(Above(y))
    <2> DEFINE Numbers == {Cardinality(Above(x)) : x \in S}
    <2>1. PICK n \in Numbers : \A m \in Numbers : n <= m
      <3> HIDE DEF Above
      <3>1. Numbers \subseteq Nat /\ Numbers # {}
        BY <1>1
      <3> HIDE DEF Numbers
      <3>2. QED
        BY <3>1, LeastNat
    <2> HIDE DEF Above
    <2>2. QED
      BY <2>1
  <1>3. ASSUME NEW y \in S, y > x PROVE FALSE
    <2>1. Above(y) \in SUBSET Above(x) /\ y \in Above(x) /\ y \notin Above(y)
      <3>1. x \in Int /\ y \in Int /\ \A z \in S : z \in Int
        OBVIOUS
      <3>2. \A z \in S : z > y => z > x
        BY <1>3, <3>1
      <3>3. Above(y) \in SUBSET Above(x)
        BY <3>2
      <3>4. y \in Above(x)
        BY <1>3
      <3>5. y \notin Above(y)
        BY <3>1
      <3>6. QED
        BY <3>3, <3>4, <3>5
    <2>2. Cardinality(Above(y)) < Cardinality(Above(x))
      <3> DEFINE few  == Above(y)
                 many == Above(x)
      <3>1. IsFiniteSet(many) /\ few \in SUBSET many /\ few # many
        BY <1>1, <2>1
      <3>2. Cardinality(few) \in Nat /\ Cardinality(many) \in Nat
        BY <1>1, <1>3
      <3> HIDE DEF few, many
      <3>3. /\ Cardinality(few) <= Cardinality(many)
            /\ Cardinality(few) # Cardinality(many)
        BY <3>1, FS_Subset
      <3>4. Cardinality(few) < Cardinality(many)
        BY <3>2, <3>3
      <3>5. QED
        BY <3>4 DEF few, many
    <2> HIDE DEF Above
    <2>3. QED
      BY <1>1, <1>2, <2>2
  <1>4. \E m \in S : \A y \in S : m >= y
    BY <1>3
  <1>5. QED
    BY <1>4 DEF Max

LEMMA ImageIsFinite ==
    ASSUME NEW S, IsFiniteSet(S), NEW f, DOMAIN f = S, f = [x \in S |-> f[x]]
    PROVE  IsFiniteSet({f[x] : x \in S})
  <1> DEFINE T == {f[x] : x \in S}
  <1>1. f \in Surjection(S, T)
    BY DEF Surjection
  <1>2. QED
    BY <1>1, FS_Surjection

-----------------------------------------------------------------------------
(* The invariant of one account's days *)

CampaignsTyped ==
    /\ IsFiniteSet(campaigns)
    /\ \A c \in campaigns : c.day \in Int /\ c.billable \in BOOLEAN

\* On that day the last campaign was AtRiskSilence days old at least.
SilentOn(day) ==
    /\ \E c \in campaigns : c.billable /\ c.day <= day - AtRiskSilence
    /\ \A c \in campaigns :
           c.billable /\ c.day <= day => c.day <= day - AtRiskSilence

\* What was known when the row was written is what is known of that day now.
SilenceIsAmber ==
    \A day \in DOMAIN history : SilentOn(day) => history[day] \in AmberBands

MissedIsCounted == missed = Cardinality((0..today - 1) \ DOMAIN history)

DraftsApart ==
    \A s, t \in seedings :
        s.department = t.department /\ s # t =>
            s.day - t.day > Cooldown \/ t.day - s.day > Cooldown

HInv == TypeOK /\ CampaignsTyped /\ SilenceIsAmber /\ MissedIsCounted /\ DraftsApart

LEMMA NumbersAreNat ==
    /\ Quarter \in Nat /\ Quarter > 0 /\ RepeatWindow \in 1..Quarter
    /\ AtRiskSilence \in Nat /\ AtRiskSilence > 0 /\ AtRiskSilence <= CriticalSilence
    /\ AtRiskSilence <= RepeatWindow /\ AtRiskSilence <= OnboardingAge
    /\ CriticalSilence \in Nat /\ CriticalSilence <= Quarter
    /\ Tenure \in Nat /\ FinalStretch \in Nat /\ FinalStretch > 0
    /\ OnboardingAge \in Nat /\ OnboardingTarget \in Nat /\ OnboardingTarget > 0
    /\ Dormant \in Nat /\ Dormant > 0 /\ Dormant <= AtRiskSilence
    /\ Cooldown \in Nat /\ MaxMissed \in Nat /\ Horizon \in Nat
  BY WindowsAssumption, ThresholdsAssumption, TriggersAssumption, AccountHealthAssumption

LEMMA AccountTyped ==
    ASSUME TypeOK
    PROVE  /\ account.contractStart \in Int /\ account.commitmentEnd \in Int
           /\ account.committed \in Nat /\ account.potential \in Nat
           /\ today \in Nat
  <1>1. PICK start \in Starts : account = start.account
    BY DEF TypeOK
  <1>2. QED
    BY <1>1, AccountHealthAssumption, NumbersAreNat DEF TypeOK

-----------------------------------------------------------------------------
(* What the campaigns, the caps and the bands say *)

LEMMA LastBillable ==
    ASSUME CampaignsTyped, EverBillable(campaigns) # {}
    PROVE  /\ Max(EverBillable(campaigns)) \in Int
           /\ \E c \in campaigns : c.billable /\ c.day = Max(EverBillable(campaigns))
           /\ \A c \in campaigns : c.billable => c.day <= Max(EverBillable(campaigns))
  <1> DEFINE sold == {c \in campaigns : c.billable}
             day  == [c \in sold |-> c.day]
             days == {day[c] : c \in sold}
  <1>1. IsFiniteSet(sold)
    BY FS_Subset DEF CampaignsTyped
  <1>2. IsFiniteSet(days)
    BY <1>1, ImageIsFinite
  <1>3. EverBillable(campaigns) = days
    BY DEF EverBillable
  <1>4. days \subseteq Int
    BY DEF CampaignsTyped
  <1>5. ASSUME NEW d PROVE d \in days <=> \E c \in campaigns : c.billable /\ c.day = d
    OBVIOUS
  <1> HIDE DEF days
  <1>6. Max(days) \in days /\ \A d \in days : d <= Max(days)
    BY <1>2, <1>3, <1>4, MaxOfInts
  <1>7. QED
    BY <1>3, <1>4, <1>5, <1>6

LEMMA WindowIsFinite ==
    ASSUME CampaignsTyped, NEW first, NEW last
    PROVE  IsFiniteSet(BillableInWindow(campaigns, first, last))
  BY FS_Subset DEF CampaignsTyped, BillableInWindow

LEMMA NothingInWindow ==
    ASSUME CampaignsTyped, EverBillable(campaigns) = {}, NEW first, NEW last
    PROVE  BillableInWindow(campaigns, first, last) = {}
  BY DEF BillableInWindow, EverBillable

LEMMA CreatorsAreFinite ==
    ASSUME NEW window, IsFiniteSet(window)
    PROVE  /\ IsFiniteSet(CreatorsOf(window))
           /\ Cardinality(CreatorsOf(window)) \in Nat
           /\ Cardinality(CreatorsOf(window)) = 0 <=> window = {}
  <1> DEFINE creator == [c \in window |-> c.creator]
  <1>1. CreatorsOf(window) = {creator[c] : c \in window}
    BY DEF CreatorsOf
  <1>2. IsFiniteSet(CreatorsOf(window))
    <2>1. IsFiniteSet({creator[c] : c \in window})
      BY ImageIsFinite
    <2>2. QED
      BY <1>1, <2>1
  <1>3. CreatorsOf(window) = {} <=> window = {}
    BY DEF CreatorsOf
  <1>4. QED
    BY <1>2, <1>3, FS_EmptySet, FS_CardinalityType

Fired == FiredOverrides(account, campaigns, today)
CapNow == Cap(account, campaigns, today)

LEMMA CapBounds ==
    /\ CapNow \in Nat /\ CapNow <= 100
    /\ SilentFor(account, campaigns, today, AtRiskSilence) => CapNow <= 49
    /\ SilentFor(account, campaigns, today, CriticalSilence) => CapNow <= 29
    /\ NoSponsor(account, today) => CapNow <= 74
    /\ SingleCreator(account, campaigns, today) => CapNow <= 74
  <1> DEFINE caps == {100} \cup {OverrideCap[name] : name \in Fired}
  <1>1. Fired \subseteq DOMAIN OverrideCap
    BY DEF Fired, FiredOverrides, OverrideCap
  <1>2. caps \subseteq Nat /\ caps # {}
    BY <1>1 DEF OverrideCap
  <1>3. CapNow \in caps /\ \A n \in caps : CapNow <= n
    BY <1>2, MinOfNats DEF CapNow, Cap, Fired
  <1>4. /\ SilentFor(account, campaigns, today, AtRiskSilence) => "zero_campaigns_45d" \in Fired
        /\ SilentFor(account, campaigns, today, CriticalSilence) => "zero_campaigns_90d" \in Fired
        /\ NoSponsor(account, today) => "no_exec_sponsor_after_90_days" \in Fired
        /\ SingleCreator(account, campaigns, today) => "single_creator_whole_account" \in Fired
    BY DEF Fired, FiredOverrides
  <1>5. ASSUME NEW name \in Fired PROVE CapNow <= OverrideCap[name]
    BY <1>3
  <1>6. 100 \in caps
    OBVIOUS
  <1> HIDE DEF caps
  <1>7. QED
    BY <1>2, <1>3, <1>4, <1>5, <1>6 DEF OverrideCap

LEMMA BandUnderCap ==
    /\ BandNow \in Bands
    /\ CapNow < 75 => BandNow # "healthy" /\ BandNow \in AmberBands
    /\ CapNow < 30 => BandNow = "critical"
    /\ BandNow = "healthy" =>
           LET composite == Composite(account, campaigns, today)
           IN  composite.points >= 75 * composite.weight
  <1>1. CapNow \in Nat
    BY CapBounds
  <1>2. QED
    BY <1>1 DEF BandNow, Band, DeriveBand, Reaches, CapNow, Bands, AmberBands

\* The score of a ratio, by its place among the bands of 65 and more.
LEMMA BandScores ==
    ASSUME NEW count \in Nat, NEW base \in Nat, base > 0
    PROVE  /\ BandScore(count, base) \in {100, 85, 65, 40, 20, 0}
           /\ 100 * count < 85 * base => BandScore(count, base) < 65
           /\ 100 * count >= 85 * base => BandScore(count, base) >= 65
           /\ count = 0 => BandScore(count, base) = 0
  <1> DEFINE met == {i \in 1..6 : 100 * count >= VolumeBands[i][1] * base}
             best == Min(met)
  <1>1. BandScore(count, base) = VolumeBands[best][2]
    BY DEF BandScore, VolumeBands
  <1>2. 6 \in met
    BY DEF VolumeBands
  <1>3. best \in met /\ \A i \in met : best <= i
    BY <1>2, MinOfNats
  <1>4. /\ 100 * count >= 85 * base => 3 \in met
        /\ 100 * count < 85 * base => 1 \notin met /\ 2 \notin met /\ 3 \notin met
        /\ count = 0 => \A i \in 1..5 : i \notin met
    BY DEF VolumeBands
  <1>5. best \in 1..6
    BY <1>3
  <1> HIDE DEF met, best
  <1>6. /\ 100 * count >= 85 * base => best \in 1..3
        /\ 100 * count < 85 * base => best \in 4..6
        /\ count = 0 => best = 6
    BY <1>3, <1>4, <1>5
  <1>7. QED
    BY <1>1, <1>5, <1>6 DEF VolumeBands

LEMMA CountsAreNat ==
    ASSUME CampaignsTyped
    PROVE  /\ Cardinality(Last90(campaigns, today)) \in Nat
           /\ Cardinality(Prior90(campaigns, today)) \in Nat
           /\ Cardinality(Prior90(campaigns, today)) > 0 <=> HasVolumeRatio(campaigns, today)
           /\ Cardinality(Last90(campaigns, today)) = 0 <=> Last90(campaigns, today) = {}
           /\ Consumed(campaigns) \in Nat
  <1>1. IsFiniteSet(Last90(campaigns, today)) /\ IsFiniteSet(Prior90(campaigns, today))
    BY WindowIsFinite DEF Last90, Prior90
  <1>2. IsFiniteSet({c \in campaigns : c.billable})
    BY FS_Subset DEF CampaignsTyped
  <1>3. QED
    BY <1>1, <1>2, FS_EmptySet, FS_CardinalityType DEF HasVolumeRatio, Consumed

\* A churn of the harness: the last campaign is a quarter old.
LEMMA ChurnIsSilence ==
    ASSUME CampaignsTyped, TypeOK, DetectEvent(campaigns, today) = "churned"
    PROVE  /\ EverBillable(campaigns) # {}
           /\ Max(EverBillable(campaigns)) \in Int
           /\ today - Max(EverBillable(campaigns)) >= Quarter
  <1>1. Last90(campaigns, today) = {} /\ Prior90(campaigns, today) # {}
    BY CountsAreNat DEF DetectEvent, HasVolumeRatio
  <1>2. EverBillable(campaigns) # {}
    BY <1>1 DEF Prior90, BillableInWindow, EverBillable
  <1>3. PICK c \in campaigns : c.billable /\ c.day = Max(EverBillable(campaigns))
    BY <1>2, LastBillable
  <1>4. c.day \in Int /\ c.day <= today /\ today \in Nat
    BY AccountTyped DEF TypeOK, CampaignsTyped
  <1>5. ~(today - (Quarter - 1) <= c.day)
    BY <1>1, <1>3, <1>4 DEF Last90, BillableInWindow
  <1>6. QED
    BY <1>2, <1>3, <1>4, <1>5, NumbersAreNat

LEMMA SilentDays ==
    ASSUME EverBillable(campaigns) # {}, NEW days
    PROVE  SilentFor(account, campaigns, today, days)
               <=> today - Max(EverBillable(campaigns)) >= days
  BY DEF SilentFor, DaysSilent

\* Among the plays the night's signals ask for, decay is the best-ranked.
LEMMA DecayRanksFirst ==
    ASSUME GoesDormant(campaigns, today)
    PROVE  PlayToOpen(TonightsSignals, FALSE) = "decay"
  <1> DEFINE types == DecayCandidates(account, campaigns, today)
                      \cup PlayCandidates(account, campaigns, today,
                                          BandAtOrBefore(history, today))
             plays == {PlayForSignalType(type) : type \in TypesOf(TonightsSignals)}
  <1>1. TypesOf(TonightsSignals) = types
    <2>1. TonightsSignals = {[type |-> type] : type \in types}
      BY DEF TonightsSignals
    <2> HIDE DEF types
    <2>2. \A row \in TonightsSignals : row.type \in types
      BY <2>1
    <2>3. ASSUME NEW type \in types PROVE \E row \in TonightsSignals : row.type = type
      <3>1. [type |-> type] \in TonightsSignals
        BY <2>1
      <3>2. QED
        BY <3>1
    <2>4. QED
      BY <2>2, <2>3 DEF TypesOf
  <1>2. "decay_zero_campaigns_30d" \in types
    BY DEF DecayCandidates
  <1>3. types \subseteq AccountDecayTypes \cup DOMAIN PlayForTrigger
    BY DEF DecayCandidates, PlayCandidates, AccountDecayTypes, PlayForTrigger
  <1>4. ASSUME NEW type \in types PROVE PlayForSignalType(type) \in PlayTypes
    BY <1>3 DEF PlayForSignalType, DecayTypes, AccountDecayTypes, PlayForTrigger, PlayTypes
  <1>5. PlayForSignalType("decay_zero_campaigns_30d") = "decay"
    BY DEF PlayForSignalType, DecayTypes, AccountDecayTypes
  <1> HIDE DEF types
  <1>6. "decay" \in plays /\ plays \subseteq PlayTypes
    BY <1>1, <1>2, <1>4, <1>5
  <1> HIDE DEF plays
  <1>7. /\ \A other \in plays : PlayRank["decay"] <= PlayRank[other]
        /\ \A play \in plays : PlayRank[play] <= PlayRank["decay"] => play = "decay"
    BY <1>6 DEF PlayTypes, PlayRank
  <1>8. (CHOOSE play \in plays : \A other \in plays : PlayRank[play] <= PlayRank[other]) = "decay"
    BY <1>6, <1>7
  <1>9. QED
    BY <1>6, <1>8 DEF PlayToOpen, plays

LEMMA ChurnStep ==
    ASSUME CampaignsTyped, TypeOK PROVE ChurnIsNeverMissed
  <1> SUFFICES ASSUME DetectEvent(campaigns, today) = "churned"
               PROVE  /\ BandNow = "critical"
                      /\ PlayToOpen(TonightsSignals, FALSE) = "decay"
    BY DEF ChurnIsNeverMissed
  <1>1. /\ EverBillable(campaigns) # {}
        /\ Max(EverBillable(campaigns)) \in Int /\ today \in Nat
        /\ today - Max(EverBillable(campaigns)) >= Quarter
    BY ChurnIsSilence, AccountTyped
  <1>2. BandNow = "critical"
    <2>1. SilentFor(account, campaigns, today, CriticalSilence)
      BY <1>1, SilentDays, NumbersAreNat
    <2>2. QED
      BY <2>1, CapBounds, BandUnderCap
  <1>3. GoesDormant(campaigns, today)
    BY <1>1, NumbersAreNat DEF GoesDormant
  <1>4. QED
    BY <1>2, <1>3, DecayRanksFirst

LEMMA RelationshipIsPercent == RelationshipScore(account, today) \in 0..100
  <1> DEFINE checks ==
                 <<ActivePeople(account, "economic_buyer") # {},
                   ActivePeople(account, "exec_sponsor") # {},
                   \E s \in ActivePeople(account, "exec_sponsor") :
                       s.lastContact # NoDate /\ today - s.lastContact <= Quarter,
                   Cardinality({s \in account.stakeholders : ~s.departed}) >= 3,
                   \E s \in ActivePeople(account, "champion") : s.willing>>
             met == {i \in DOMAIN checks : checks[i]}
  <1>1. RelationshipScore(account, today) = 20 * Cardinality(met)
    BY DEF RelationshipScore
  <1>2. DOMAIN checks = 1..5
    OBVIOUS
  <1>3. met \in SUBSET (1..5)
    BY <1>2
  <1> HIDE DEF met, checks
  <1>4. Cardinality(met) \in Nat /\ Cardinality(met) <= 5
    <2>1. IsFiniteSet(1..5) /\ Cardinality(1..5) = 5
      <3>1. 1 \in Int /\ 5 \in Int /\ ~(1 > 5) /\ 5 - 1 + 1 = 5
        OBVIOUS
      <3>2. QED
        BY <3>1, FS_Interval
    <2>2. IsFiniteSet(met) /\ Cardinality(met) <= 5
      BY <1>3, <2>1, FS_Subset
    <2>3. QED
      BY <2>2, FS_CardinalityType
  <1>5. QED
    BY <1>1, <1>4

\* Without a campaign, value and relationship are all there is, against a
\* volume that counts and is zero.
LEMMA EmptyIsNotHealthy ==
    ASSUME CampaignsTyped, TypeOK, EverBillable(campaigns) = {},
           Age(account, today) < AtRiskSilence
    PROVE  LET composite == Composite(account, campaigns, today)
           IN  ~(composite.points >= 75 * composite.weight)
  <1> DEFINE score == DimensionScores(account, campaigns, today)
  <1>1. /\ score.volume = VolumeScore(account, campaigns, today)
        /\ score.breadth = BreadthScore(account, campaigns, today)
        /\ score.value = ValueScore(account, today)
        /\ score.quality = QualityScore(campaigns, today)
        /\ score.relationship = RelationshipScore(account, today)
        /\ score.sentiment = NoScore
    BY DEF DimensionScores
  <1>2. score.volume = 0
    <2> DEFINE elapsed == Max({1, Min({Age(account, today), Quarter})})
    <2>1. Age(account, today) \in Int /\ Age(account, today) < OnboardingAge
      BY AccountTyped, NumbersAreNat DEF Age
    <2>2. Min({Age(account, today), Quarter}) \in Int
      BY <2>1, NumbersAreNat DEF Min
    <2>3. elapsed \in Nat /\ elapsed > 0
      BY <2>2 DEF Max
    <2> HIDE DEF elapsed
    <2>4. OnboardingTarget * elapsed \in Nat /\ OnboardingTarget * elapsed > 0
      BY <2>3, NumbersAreNat
    <2>5. Cardinality(BillableInWindow(campaigns, account.contractStart, today)) = 0
      BY NothingInWindow, FS_EmptySet
    <2>6. score.volume = BandScore(0 * Quarter, OnboardingTarget * elapsed)
      BY <1>1, <2>1, <2>5, NumbersAreNat DEF VolumeScore, elapsed
    <2>7. 0 * Quarter = 0
      BY NumbersAreNat
    <2>8. QED
      BY <2>4, <2>6, <2>7, BandScores
  <1>3. score.breadth \in {0, NoScore}
    <2>1. DepartmentsLive(campaigns, today) = {}
      BY NothingInWindow DEF DepartmentsLive, Last90
    <2>2. Min({0, account.potential}) = 0
      BY AccountTyped DEF Min
    <2>3. Cardinality({}) = 0
      BY FS_EmptySet
    <2>4. account.potential \in Nat /\ (account.potential # 0 => 0 \div account.potential = 0)
      BY AccountTyped
    <2>5. account.potential # 0 => score.breadth = (50 * 0) \div account.potential + 0
      BY <1>1, <2>1, <2>2, <2>3 DEF BreadthScore
    <2>6. QED
      BY <1>1, <2>4, <2>5 DEF BreadthScore
  <1>4. score.value \in {0, 40, 70, 100}
    BY <1>1 DEF ValueScore
  <1>5. score.quality = NoScore
    <2>1. RepeatWindowOf(campaigns, today) = {}
      BY NothingInWindow DEF RepeatWindowOf
    <2>2. Cardinality(CreatorsOf(RepeatWindowOf(campaigns, today))) = 0
      BY <2>1, CreatorsAreFinite, FS_EmptySet
    <2>3. QED
      BY <1>1, <2>2 DEF QualityScore
  <1>6. score.relationship \in 0..100
    BY <1>1, RelationshipIsPercent
  <1> HIDE DEF score
  <1>7. Composite(account, campaigns, today) =
            LET weight == [d \in DOMAIN Weight |-> IF score[d] = NoScore THEN 0 ELSE Weight[d]]
                points == [d \in DOMAIN Weight |-> weight[d] * score[d]]
            IN  [points |-> OverDimensions(points), weight |-> OverDimensions(weight)]
    BY DEF Composite, score
  <1>8. QED
    BY <1>1, <1>2, <1>3, <1>4, <1>5, <1>6, <1>7 DEF OverDimensions, Weight, NoScore

LEMMA HealthyStep ==
    ASSUME CampaignsTyped, TypeOK PROVE HealthyIsEarned
  <1> SUFFICES ASSUME BandNow = "healthy"
               PROVE  /\ \E c \in campaigns : c.billable /\ today - c.day < AtRiskSilence
                      /\ QualityScore(campaigns, today) # NoScore
                      /\ Age(account, today) >= Tenure =>
                             /\ ActivePeople(account, "exec_sponsor") # {}
                             /\ Cardinality(CreatorsOf(Last90(campaigns, today))) >= 2
    BY DEF HealthyIsEarned
  <1>1. /\ ~SilentFor(account, campaigns, today, AtRiskSilence)
        /\ ~NoSponsor(account, today) /\ ~SingleCreator(account, campaigns, today)
    BY CapBounds, BandUnderCap
  <1>2. EverBillable(campaigns) # {}
    <2> SUFFICES ASSUME EverBillable(campaigns) = {} PROVE FALSE
      OBVIOUS
    <2>1. Age(account, today) < AtRiskSilence
      BY <1>1, AccountTyped, NumbersAreNat DEF SilentFor, DaysSilent, Age
    <2>2. QED
      BY <2>1, EmptyIsNotHealthy, BandUnderCap
  <1>3. PICK c \in campaigns : c.billable /\ c.day = Max(EverBillable(campaigns))
    BY <1>2, LastBillable
  <1>4. c.day \in Int /\ c.day <= today /\ today \in Nat /\ today - c.day < AtRiskSilence
    BY <1>1, <1>2, <1>3, SilentDays, AccountTyped, NumbersAreNat DEF TypeOK, CampaignsTyped
  <1>5. c \in Last90(campaigns, today) /\ c \in RepeatWindowOf(campaigns, today)
    BY <1>3, <1>4, NumbersAreNat DEF Last90, RepeatWindowOf, BillableInWindow
  <1>6. QualityScore(campaigns, today) # NoScore
    <2>1. Cardinality(CreatorsOf(RepeatWindowOf(campaigns, today))) # 0
      BY <1>5, WindowIsFinite, CreatorsAreFinite DEF RepeatWindowOf
    <2>2. QED
      BY <2>1 DEF QualityScore, NoScore
  <1>7. ASSUME Age(account, today) >= Tenure
        PROVE  Cardinality(CreatorsOf(Last90(campaigns, today))) >= 2
    <2>1. /\ Cardinality(CreatorsOf(Last90(campaigns, today))) \in Nat
          /\ Cardinality(CreatorsOf(Last90(campaigns, today))) # 0
      BY <1>5, WindowIsFinite, CreatorsAreFinite DEF Last90
    <2>2. Cardinality(CreatorsOf(Last90(campaigns, today))) # 1
      BY <1>1, <1>7 DEF SingleCreator
    <2>3. QED
      BY <2>1, <2>2
  <1>8. Age(account, today) >= Tenure => ActivePeople(account, "exec_sponsor") # {}
    BY <1>1 DEF NoSponsor
  <1>9. QED
    BY <1>3, <1>4, <1>6, <1>7, <1>8

\* A commitment under the floor in its last stretch is behind its pace.
LEMMA FloorMeansLowPace ==
    ASSUME CampaignsTyped, TypeOK, UtilizationFloor(account, campaigns, today),
           7 * FinalStretch <= 3 * (account.commitmentEnd - account.contractStart)
    PROVE  PaceIsLow(account, campaigns, today)
  <1> DEFINE total == account.commitmentEnd - account.contractStart
             since == today - account.contractStart
             consumed == Consumed(campaigns)
             gone == ElapsedDays(account, today)
             committed == account.committed
  <1>1. /\ total \in Int /\ since \in Int /\ consumed \in Nat /\ committed \in Nat
        /\ account.commitmentEnd - today = total - since
        /\ account.commitmentEnd > account.contractStart <=> total > 0
    BY AccountTyped, CountsAreNat
  <1>2. /\ committed > 0 /\ total - since <= FinalStretch
        /\ 100 * consumed < 40 * committed
        /\ 7 * FinalStretch <= 3 * total
    BY <1>1 DEF UtilizationFloor
  <1>3. gone = IF since < 0 THEN 0 ELSE IF since > total THEN total ELSE since
    BY DEF ElapsedDays
  <1> HIDE DEF total, since, consumed, gone, committed
  <1>4. total > 0 /\ 4 * total <= 7 * since
    BY <1>1, <1>2, NumbersAreNat
  <1>5. gone \in Nat /\ gone > 0 /\ 4 * total <= 7 * gone
    BY <1>1, <1>3, <1>4
  <1>6. 100 * consumed * total < 70 * committed * gone
    <2>1. (100 * consumed) * total < (40 * committed) * total
      BY <1>1, <1>2, <1>4
    <2>2. (10 * committed) * (4 * total) <= (10 * committed) * (7 * gone)
      BY <1>1, <1>2, <1>5
    <2>3. /\ (40 * committed) * total = (10 * committed) * (4 * total)
          /\ 70 * committed * gone = (10 * committed) * (7 * gone)
      BY <1>1, <1>5
    <2>4. QED
      BY <2>1, <2>2, <2>3, <1>1, <1>5
  <1>7. HasPace(account, today)
    BY <1>1, <1>2, <1>4, <1>5 DEF HasPace, total, gone, committed
  <1>8. PaceBelow(consumed, account, today, 70)
    BY <1>6 DEF PaceBelow, total, gone, committed
  <1>9. QED
    BY <1>7, <1>8 DEF PaceIsLow, consumed

LEMMA AgreementStep ==
    ASSUME CampaignsTyped, TypeOK PROVE TriggersAgreeWithScore
  <1> DEFINE volume == VolumeScore(account, campaigns, today)
             last  == Cardinality(Last90(campaigns, today))
             prior == Cardinality(Prior90(campaigns, today))
  <1>1. last \in Nat /\ prior \in Nat /\ (prior > 0 <=> HasVolumeRatio(campaigns, today))
    BY CountsAreNat
  <1>2. Age(account, today) \in Int
    BY AccountTyped DEF Age
  <1>3. ASSUME Age(account, today) >= OnboardingAge
        PROVE volume = IF HasVolumeRatio(campaigns, today)
                       THEN BandScore(last, prior) ELSE NoScore
    BY <1>2, <1>3, NumbersAreNat DEF VolumeScore
  <1>4. VolumeRatioBelow(campaigns, today, 85) <=> 100 * last < 85 * prior
    BY DEF VolumeRatioBelow
  <1>5. HasVolumeRatio(campaigns, today) =>
            /\ BandScore(last, prior) \in {100, 85, 65, 40, 20, 0}
            /\ 100 * last < 85 * prior <=> BandScore(last, prior) < 65
    BY <1>1, BandScores
  <1> HIDE DEF last, prior, volume
  <1>6. VolumeDecays(account, campaigns, today) => volume # NoScore /\ volume < 65
    BY <1>3, <1>4, <1>5 DEF VolumeDecays, NoScore
  <1>7. Age(account, today) >= OnboardingAge /\ volume \in 0..64 =>
            VolumeDecays(account, campaigns, today) \/ SeasonalDip(campaigns, today)
    BY <1>3, <1>4, <1>5 DEF VolumeDecays, NoScore
  <1>8. QED
    BY <1>6, <1>7, FloorMeansLowPace DEF TriggersAgreeWithScore, volume

-----------------------------------------------------------------------------
(* Every step keeps the invariant *)

LEMMA InitHInv == Init => HInv
  <1> SUFFICES ASSUME Init PROVE HInv
    OBVIOUS
  <1>1. PICK start \in Starts : account = start.account /\ campaigns = start.campaigns
    BY DEF Init
  <1>2. /\ today = 0 /\ DOMAIN history = {} /\ seedings = {} /\ missed = 0
        /\ seeded \in BOOLEAN
    <2>1. history = <<>> => DOMAIN history = {}
      OBVIOUS
    <2>2. seeded \in BOOLEAN
      BY DEF Init
    <2>3. QED
      BY <2>1, <2>2 DEF Init
  <1>3. CampaignsTyped /\ \A c \in campaigns : c.day < 0 /\ c.department \in Departments
    BY <1>1, AccountHealthAssumption DEF CampaignsTyped, Departments
  <1>4. TypeOK
    BY <1>1, <1>2, <1>3, NumbersAreNat DEF TypeOK, CampaignsTyped
  <1>5. MissedIsCounted
    <2>1. (0..today - 1) \ DOMAIN history = {}
      BY <1>2
    <2>2. QED
      BY <1>2, <2>1, FS_EmptySet DEF MissedIsCounted
  <1>6. QED
    BY <1>2, <1>3, <1>4, <1>5 DEF HInv, SilenceIsAmber, DraftsApart

\* A campaign of today touches no earlier day, and today only by ending
\* its silence.
LEMMA IngestKeepsHInv ==
    ASSUME HInv, NEW w \in Work, IngestCampaign(w) PROVE HInv'
  <1> USE DEF HInv
  <1> DEFINE new == [day |-> today, creator |-> w.creator, department |-> w.department,
                     billable |-> w.billable]
  <1>1. /\ campaigns' = campaigns \cup {new}
        /\ UNCHANGED <<today, account, history, seedings, seeded, missed>>
    BY DEF IngestCampaign
  <1>2. /\ new.day = today /\ new.billable \in BOOLEAN
        /\ new.department \in Departments /\ today \in Nat
    BY AccountHealthAssumption, AccountTyped DEF Departments
  <1> HIDE DEF new
  <1>3. CampaignsTyped'
    BY <1>1, <1>2, FS_AddElement DEF CampaignsTyped
  <1>4. TypeOK'
    BY <1>1, <1>2 DEF TypeOK
  <1>5. SilenceIsAmber'
    <2> SUFFICES ASSUME NEW day \in DOMAIN history, SilentOn(day)' PROVE SilentOn(day)
      BY <1>1 DEF SilenceIsAmber
    <2>1. day \in Nat /\ day <= today
      BY <1>2 DEF TypeOK
    <2>2. \A c \in campaigns :
              c.billable /\ c.day <= day => c.day <= day - AtRiskSilence
      BY <1>1 DEF SilentOn
    <2>3. PICK c \in campaigns' : c.billable /\ c.day <= day - AtRiskSilence
      BY DEF SilentOn
    <2>4. c # new
      BY <1>2, <2>1, <2>3, NumbersAreNat
    <2>5. QED
      BY <1>1, <2>2, <2>3, <2>4 DEF SilentOn
  <1>6. QED
    BY <1>1, <1>3, <1>4, <1>5 DEF MissedIsCounted, DraftsApart

\* A row written on a silent day is under the cap of AtRiskSilence.
LEMMA SilentBand ==
    ASSUME CampaignsTyped, TypeOK, SilentOn(today) PROVE BandNow \in AmberBands
  <1>1. EverBillable(campaigns) # {}
    BY DEF SilentOn, EverBillable
  <1>2. PICK c \in campaigns : c.billable /\ c.day = Max(EverBillable(campaigns))
    BY <1>1, LastBillable
  <1>3. c.day \in Int /\ c.day <= today /\ today \in Nat
    BY AccountTyped DEF TypeOK, CampaignsTyped
  <1>4. SilentFor(account, campaigns, today, AtRiskSilence)
    BY <1>1, <1>2, <1>3, SilentDays, NumbersAreNat DEF SilentOn
  <1>5. QED
    BY <1>4, CapBounds, BandUnderCap

LEMMA ScoreKeepsHInv ==
    ASSUME HInv, ScorePortfolio PROVE HInv'
  <1> USE DEF HInv
  <1>1. /\ UNCHANGED <<today, account, campaigns, seedings, seeded, missed>>
        /\ DOMAIN history' = DOMAIN history \cup {today}
        /\ history'[today] = BandNow
        /\ \A day \in DOMAIN history : day # today /\ history'[day] = history[day]
    BY DEF ScorePortfolio, Scored, BandNow
  <1>2. today \in Nat /\ BandNow \in Bands
    BY AccountTyped, BandUnderCap
  <1>3. TypeOK'
    BY <1>1, <1>2 DEF TypeOK
  <1>4. SilenceIsAmber'
    BY <1>1, SilentBand DEF SilenceIsAmber, SilentOn
  <1>5. MissedIsCounted'
    <2>1. today \notin 0..today - 1
      BY <1>2
    <2>2. (0..today - 1) \ DOMAIN history' = (0..today - 1) \ DOMAIN history
      BY <1>1, <2>1
    <2>3. QED
      BY <1>1, <2>2 DEF MissedIsCounted
  <1>6. QED
    BY <1>1, <1>3, <1>4, <1>5 DEF CampaignsTyped, DraftsApart

\* The drafts of a run are all of its day, for departments whose drafts are
\* all older than the cooldown.
LEMMA SeedKeepsHInv ==
    ASSUME HInv, SeedSecondCreators PROVE HInv'
  <1> USE DEF HInv
  <1> DEFINE chosen == SingleThreaded(campaigns, today) \ RecentlyActioned
             new == {[id |-> Cardinality(seedings), department |-> d, day |-> today] :
                        d \in chosen}
  <1>1. /\ seedings' = seedings \cup new
        /\ seeded' = TRUE /\ UNCHANGED <<today, account, campaigns, history, missed>>
    BY DEF SeedSecondCreators, Seed
  <1>2. ASSUME NEW s \in new
        PROVE  /\ s.department \in chosen /\ s.day = today
               /\ \A t \in new : t.department = s.department => t = s
    OBVIOUS
  <1>3. chosen \subseteq Departments
    BY DEF SingleThreaded, DepartmentsLive, Last90, BillableInWindow, TypeOK
  <1>4. today \in Nat /\ seeded' \in BOOLEAN
    BY <1>1, AccountTyped
  <1>5. ASSUME NEW s \in new, NEW t \in seedings, s.department = t.department
        PROVE  s.day - t.day > Cooldown
    <2>1. t.day \in Nat /\ ~(t.day >= today - Cooldown)
      BY <1>2, <1>4, <1>5 DEF RecentlyActioned, TypeOK
    <2>2. QED
      BY <1>2, <1>4, <2>1, NumbersAreNat
  <1> HIDE DEF new, chosen
  <1>6. TypeOK'
    <2>1. \A s \in seedings' : s.department \in Departments /\ s.day \in 0..today
      BY <1>1, <1>2, <1>3, <1>4 DEF TypeOK
    <2>2. QED
      BY <1>1, <1>4, <2>1 DEF TypeOK
  <1>7. DraftsApart'
    <2> SUFFICES ASSUME NEW s \in seedings', NEW t \in seedings',
                        s.department = t.department, s # t
                 PROVE  s.day - t.day > Cooldown \/ t.day - s.day > Cooldown
      BY DEF DraftsApart
    <2>1. CASE s \in seedings /\ t \in seedings
      BY <2>1 DEF DraftsApart
    <2>2. CASE s \in new \/ t \in new
      BY <1>1, <1>2, <1>5, <2>2
    <2>3. QED
      BY <1>1, <2>1, <2>2
  <1>8. QED
    BY <1>1, <1>6, <1>7 DEF CampaignsTyped, SilenceIsAmber, SilentOn, MissedIsCounted

\* The day that ends has a row, or is one more missed night.
LEMMA MidnightKeepsHInv ==
    ASSUME HInv, Midnight PROVE HInv'
  <1> USE DEF HInv
  <1>1. /\ today' = today + 1 /\ seeded' = FALSE /\ today < Horizon
        /\ UNCHANGED <<account, campaigns, history, seedings>>
        /\ \/ Scored /\ missed' = missed
           \/ ~Scored /\ missed < MaxMissed /\ missed' = missed + 1
    BY DEF Midnight
  <1>2. today \in Nat /\ missed \in Nat /\ seeded' \in BOOLEAN
    <2>1. seeded' \in BOOLEAN
      BY <1>1
    <2>2. QED
      BY <2>1, AccountTyped DEF TypeOK
  <1>3. TypeOK'
    <2>1. today' \in 0..Horizon /\ missed' \in 0..MaxMissed
      BY <1>1, <1>2, NumbersAreNat DEF TypeOK
    <2>2. /\ \A c \in campaigns : c.day <= today'
          /\ DOMAIN history \subseteq 0..today'
          /\ \A s \in seedings : s.day \in 0..today'
      BY <1>1, <1>2 DEF TypeOK, CampaignsTyped
    <2>3. QED
      BY <1>1, <1>2, <2>1, <2>2 DEF TypeOK
  <1>4. MissedIsCounted'
    <2> DEFINE gaps == (0..today - 1) \ DOMAIN history
    <2>1. IsFiniteSet(gaps) /\ today \notin gaps
      <3>1. 0 \in Int /\ today - 1 \in Int
        BY <1>2
      <3>2. IsFiniteSet(0..today - 1)
        BY <3>1, FS_Interval
      <3>3. QED
        BY <1>2, <3>2, FS_Subset
    <2>2. (0..today' - 1) \ DOMAIN history' = IF Scored THEN gaps ELSE gaps \cup {today}
      <3>1. 0..today' - 1 = (0..today - 1) \cup {today}
        BY <1>1, <1>2
      <3>2. QED
        BY <1>1, <3>1 DEF Scored
    <2>3. missed = Cardinality(gaps)
      BY DEF MissedIsCounted
    <2> HIDE DEF gaps
    <2>4. Cardinality(gaps \cup {today}) = missed + 1
      BY <2>1, <2>3, FS_AddElement
    <2>5. QED
      BY <1>1, <2>2, <2>3, <2>4 DEF MissedIsCounted
  <1>5. QED
    BY <1>1, <1>3, <1>4 DEF CampaignsTyped, SilenceIsAmber, SilentOn, DraftsApart

LEMMA NextKeepsHInv == HInv /\ [Next]_vars => HInv'
  <1> SUFFICES ASSUME HInv, [Next]_vars PROVE HInv'
    OBVIOUS
  <1>1. CASE \E w \in Work : IngestCampaign(w)
    BY <1>1, IngestKeepsHInv
  <1>2. CASE ScorePortfolio
    BY <1>2, ScoreKeepsHInv
  <1>3. CASE SeedSecondCreators
    BY <1>3, SeedKeepsHInv
  <1>4. CASE Midnight
    BY <1>4, MidnightKeepsHInv
  <1>5. CASE UNCHANGED vars
    BY <1>5 DEF vars, HInv, TypeOK, CampaignsTyped, SilenceIsAmber, SilentOn,
                MissedIsCounted, DraftsApart
  <1>6. QED
    BY <1>1, <1>2, <1>3, <1>4, <1>5 DEF Next

\* The nights since the silence began to show are more than the missed
\* ones, so one of them has a row, and it is amber.
LEMMA LeadTimeStep ==
    ASSUME HInv PROVE ChurnHasLeadTime
  <1> USE DEF HInv
  <1> SUFFICES ASSUME DetectEvent(campaigns, today) = "churned", LastCampaign >= 0,
                      missed < CriticalSilence - AtRiskSilence
               PROVE  /\ FirstAmber(history, today) # NoDay
                      /\ today - FirstAmber(history, today)
                             >= CriticalSilence - AtRiskSilence - missed
    BY DEF ChurnHasLeadTime
  <1> DEFINE from == LastCampaign + AtRiskSilence
             nights == from..from + missed
             amber == {d \in DOMAIN history : d <= today /\ history[d] \in AmberBands}
  <1>1. /\ LastCampaign \in Nat /\ today \in Nat /\ missed \in Nat
        /\ today - LastCampaign >= Quarter /\ EverBillable(campaigns) # {}
    BY ChurnIsSilence, AccountTyped DEF LastCampaign, TypeOK
  <1>2. /\ from \in Nat /\ from + missed \in Nat /\ from + missed <= today - 1
        /\ today - (from + missed) >= CriticalSilence - AtRiskSilence - missed
    BY <1>1, NumbersAreNat
  <1>3. PICK c \in campaigns : c.billable /\ c.day = LastCampaign
    BY <1>1, LastBillable DEF LastCampaign
  <1>4. ASSUME NEW d \in nights PROVE d \in Nat /\ SilentOn(d)
    <2>1. d \in Nat /\ LastCampaign <= d - AtRiskSilence
      BY <1>1, <1>2, NumbersAreNat
    <2>2. \A k \in campaigns : k.billable => k.day <= d - AtRiskSilence
      BY <1>1, <2>1, LastBillable, NumbersAreNat DEF LastCampaign, CampaignsTyped
    <2>3. QED
      BY <1>3, <2>1, <2>2 DEF SilentOn
  <1>5. \E d \in nights : d \in DOMAIN history
    <2> SUFFICES ASSUME \A d \in nights : d \notin DOMAIN history PROVE FALSE
      OBVIOUS
    <2> DEFINE gaps == (0..today - 1) \ DOMAIN history
    <2>1. nights \in SUBSET gaps
      BY <1>1, <1>2
    <2>2. IsFiniteSet(gaps)
      <3>1. 0 \in Int /\ today - 1 \in Int
        BY <1>1
      <3>2. IsFiniteSet(0..today - 1)
        BY <3>1, FS_Interval
      <3>3. QED
        BY <3>2, FS_Subset
    <2>3. Cardinality(nights) = missed + 1
      <3> DEFINE until == from + missed
      <3>1. from \in Int /\ until \in Int /\ ~(from > until)
        BY <1>1, <1>2
      <3> HIDE DEF from, until
      <3>2. Cardinality(from..until) = until - from + 1
        BY <3>1, FS_Interval
      <3>3. QED
        BY <1>1, <1>2, <3>2 DEF until
    <2>4. Cardinality(gaps) = missed
      BY DEF MissedIsCounted
    <2> HIDE DEF gaps, nights
    <2>5. Cardinality(nights) <= Cardinality(gaps)
      BY <2>1, <2>2, FS_Subset
    <2>6. QED
      BY <1>1, <2>3, <2>4, <2>5
  <1>6. PICK d \in nights : d \in DOMAIN history
    BY <1>5
  <1>7. d \in amber /\ d <= from + missed
    BY <1>1, <1>2, <1>4, <1>6 DEF SilenceIsAmber
  <1>8. amber \subseteq Nat
    BY <1>1 DEF TypeOK
  <1>9. FirstAmber(history, today) = Min(amber)
    BY <1>7 DEF FirstAmber
  <1> HIDE DEF amber, nights, from
  <1>10. Min(amber) \in Nat /\ Min(amber) <= from + missed
    <2>1. Min(amber) \in amber /\ Min(amber) <= d
      BY <1>7, <1>8, MinOfNats
    <2>2. d \in Nat /\ Min(amber) \in Nat
      BY <1>7, <1>8, <2>1
    <2>3. QED
      BY <1>2, <1>7, <2>1, <2>2
  <1>11. Min(amber) # NoDay
    BY <1>10 DEF NoDay
  <1>12. today - Min(amber) >= CriticalSilence - AtRiskSilence - missed
    BY <1>1, <1>2, <1>10, NumbersAreNat
  <1>13. QED
    BY <1>9, <1>11, <1>12

\* A department passed over has a draft within the cooldown; every other
\* one is written to today.
LEMMA SeedReachesAll ==
    ASSUME HInv, SeedSecondCreators, NEW d \in SingleThreaded(campaigns, today)
    PROVE  \E s \in seedings' : s.department = d /\ s.day >= today - Cooldown
  <1>1. today \in Nat
    BY AccountTyped DEF HInv
  <1>2. seedings \subseteq seedings'
    BY DEF SeedSecondCreators, Seed
  <1>3. CASE d \in RecentlyActioned
    BY <1>2, <1>3 DEF RecentlyActioned
  <1>4. CASE d \notin RecentlyActioned
    <2> DEFINE s == [id |-> Cardinality(seedings), department |-> d, day |-> today]
    <2>1. s \in seedings'
      BY <1>4 DEF SeedSecondCreators, Seed
    <2>2. s.department = d /\ s.day = today /\ today >= today - Cooldown
      BY <1>1, NumbersAreNat
    <2>3. QED
      BY <2>1, <2>2
  <1>5. QED
    BY <1>3, <1>4

-----------------------------------------------------------------------------
(* The scan over the stored rows *)

\* The loop's state behind one more day.
Advance(state, day) ==
    IF day \in DOMAIN history THEN ScanRow(history, state, day) ELSE state

\* A function that follows the loop up to a day.
Follows(g, day) ==
    /\ g = [k \in 0..day |-> g[k]]
    /\ g[0] = Outside
    /\ \A k \in 1..day : g[k] = Advance(g[k - 1], k - 1)

\* A property of 0 and of each successor is a property of every number.
LEMMA EveryNat ==
    ASSUME NEW S, 0 \in S, \A n \in Nat : n \in S => n + 1 \in S
    PROVE  Nat \subseteq S
  <1> SUFFICES ASSUME Nat \ S # {} PROVE FALSE
    OBVIOUS
  <1>1. PICK n \in Nat \ S : \A m \in Nat \ S : n <= m
    BY LeastNat
  <1>2. n # 0 /\ n \in Nat
    OBVIOUS
  <1>3. n - 1 \in Nat /\ n - 1 + 1 = n /\ ~(n <= n - 1)
    BY <1>2
  <1>4. n - 1 \in S
    BY <1>1, <1>3
  <1>5. QED
    BY <1>1, <1>3, <1>4

LEMMA FollowersExist == \A n \in Nat : \E g : Follows(g, n)
  <1> DEFINE S == {n \in Nat : \E g : Follows(g, n)}
  <1>1. 0 \in S
    <2> DEFINE g == [k \in 0..0 |-> Outside]
    <2>1. g[0] = Outside /\ g = [k \in 0..0 |-> g[k]] /\ 1..0 = {}
      OBVIOUS
    <2> HIDE DEF g
    <2>2. QED
      BY <2>1 DEF Follows
  <1>2. ASSUME NEW n \in Nat, n \in S PROVE n + 1 \in S
    <2>1. PICK g : Follows(g, n)
      BY <1>2
    <2> DEFINE h == [k \in 0..n + 1 |-> IF k = n + 1 THEN Advance(g[n], n) ELSE g[k]]
    <2>2. \A k \in 0..n : h[k] = g[k] /\ k # n + 1
      OBVIOUS
    <2>3. h[n + 1] = Advance(g[n], n) /\ h = [k \in 0..n + 1 |-> h[k]]
      OBVIOUS
    <2> HIDE DEF h
    <2>4. ASSUME NEW k \in 1..n + 1 PROVE h[k] = Advance(h[k - 1], k - 1)
      <3>1. CASE k = n + 1
        <4>1. k - 1 = n /\ n \in 0..n
          BY <3>1
        <4>2. QED
          BY <2>2, <2>3, <3>1, <4>1
      <3>2. CASE k # n + 1
        <4>1. k \in 1..n /\ k \in 0..n /\ k - 1 \in 0..n
          BY <3>2
        <4>2. QED
          BY <2>1, <2>2, <4>1 DEF Follows
      <3>3. QED
        BY <3>1, <3>2
    <2>5. h[0] = Outside
      <3>1. 0 \in 0..n
        OBVIOUS
      <3>2. QED
        BY <2>1, <2>2, <3>1 DEF Follows
    <2>6. Follows(h, n + 1)
      BY <2>3, <2>4, <2>5 DEF Follows
    <2>7. QED
      BY <2>6
  <1> HIDE DEF S
  <1>3. Nat \subseteq S
    BY <1>1, <1>2, EveryNat
  <1>4. QED
    BY <1>3 DEF S

LEMMA FollowersAgree ==
    ASSUME NEW n \in Nat, NEW m \in Nat, NEW g, NEW h, Follows(g, n), Follows(h, m)
    PROVE  \A k \in Nat : k <= n /\ k <= m => g[k] = h[k]
  <1> DEFINE S == {k \in Nat : k <= n /\ k <= m => g[k] = h[k]}
  <1>1. 0 \in S
    BY DEF Follows
  <1>2. ASSUME NEW k \in Nat, k \in S PROVE k + 1 \in S
    <2> SUFFICES ASSUME k + 1 <= n, k + 1 <= m PROVE g[k + 1] = h[k + 1]
      OBVIOUS
    <2> DEFINE next == k + 1
    <2>1. g[k] = h[k]
      BY <1>2
    <2>2. next \in 1..n /\ next \in 1..m /\ next - 1 = k
      OBVIOUS
    <2> HIDE DEF next
    <2>3. /\ g[next] = Advance(g[next - 1], next - 1)
          /\ h[next] = Advance(h[next - 1], next - 1)
      BY <2>2 DEF Follows
    <2>4. g[next] = h[next]
      BY <2>1, <2>2, <2>3
    <2>5. QED
      BY <2>4 DEF next
  <1> HIDE DEF S
  <1>3. Nat \subseteq S
    BY <1>1, <1>2, EveryNat
  <1>4. QED
    BY <1>3 DEF S

\* The recursion of Scanned has a solution, so Scanned is one.
LEMMA ScannedSteps ==
    /\ Scanned(history)[0] = Outside
    /\ \A n \in Nat : Scanned(history)[n + 1] = Advance(Scanned(history)[n], n)
  <1> DEFINE Solves(f) ==
                 f = [day \in Nat |->
                         IF day = 0 THEN Outside
                         ELSE IF day - 1 \in DOMAIN history
                         THEN ScanRow(history, f[day - 1], day - 1)
                         ELSE f[day - 1]]
             Upto(n) == CHOOSE g : Follows(g, n)
             total == [n \in Nat |-> Upto(n)[n]]
  <1>1. ASSUME NEW n \in Nat PROVE Follows(Upto(n), n)
    BY FollowersExist
  <1> HIDE DEF Upto
  <1>2. total[0] = Outside
    BY <1>1 DEF Follows
  <1>3. ASSUME NEW n \in Nat, n # 0 PROVE total[n] = Advance(total[n - 1], n - 1)
    <2>1. n - 1 \in Nat /\ n \in 1..n /\ n - 1 <= n
      BY <1>3
    <2>2. Upto(n)[n - 1] = Upto(n - 1)[n - 1]
      BY <1>1, <2>1, FollowersAgree
    <2>3. Upto(n)[n] = Advance(Upto(n)[n - 1], n - 1)
      BY <1>1, <2>1 DEF Follows
    <2>4. QED
      BY <2>1, <2>2, <2>3
  <1>4. total = [n \in Nat |-> total[n]]
    OBVIOUS
  <1> HIDE DEF total
  <1>5. Solves(total)
    BY <1>2, <1>3, <1>4 DEF Advance
  <1>6. Scanned(history) = CHOOSE f : Solves(f)
    BY DEF Scanned
  <1>7. Solves(Scanned(history))
    BY <1>5, <1>6
  <1>8. ASSUME NEW n \in Nat PROVE n + 1 \in Nat /\ n + 1 # 0 /\ n + 1 - 1 = n
    OBVIOUS
  <1>9. QED
    BY <1>7, <1>8 DEF Advance

\* What the loop knows of the rows before a day: its closed episodes lie
\* before it, one behind the other, each from a row that flags to a row that
\* does not; the open one starts behind them; together they hold exactly the
\* flagged rows.
Episode == [flaggedAt : Nat, band : Bands, recoveredAt : Nat]

ScanState == [flaggedAt : Nat \cup {NoDay}, band : Bands \cup {"none"}, closed : Seq(Episode)]

Ended(e, day) ==
    /\ e.flaggedAt < e.recoveredAt
    /\ e.recoveredAt < day
    /\ e.flaggedAt \in DOMAIN history
    /\ e.recoveredAt \in DOMAIN history
    /\ e.band = history[e.flaggedAt]
    /\ history[e.recoveredAt] \notin FlaggedBands

Holds(e, day) == e.flaggedAt <= day /\ day < e.recoveredAt

Started(state, day) ==
    /\ state.flaggedAt \in DOMAIN history
    /\ state.flaggedAt < day
    /\ state.band = history[state.flaggedAt]
    /\ \A i \in 1..Len(state.closed) : state.closed[i].recoveredAt < state.flaggedAt

InOrder(episodes) ==
    \A i, j \in 1..Len(episodes) :
        i < j => episodes[i].recoveredAt < episodes[j].flaggedAt

Found(state, day) ==
    \/ state.flaggedAt # NoDay /\ state.flaggedAt <= day
    \/ \E i \in 1..Len(state.closed) : Holds(state.closed[i], day)

ScanOK(state, before) ==
    /\ state \in ScanState
    /\ \A i \in 1..Len(state.closed) : Ended(state.closed[i], before)
    /\ InOrder(state.closed)
    /\ state.flaggedAt # NoDay => Started(state, before)
    /\ \A day \in DOMAIN history :
           day < before => (history[day] \in FlaggedBands <=> Found(state, day))

LEMMA EpisodesTyped ==
    ASSUME NEW episodes \in Seq(Episode)
    PROVE  \A i \in 1..Len(episodes) :
               episodes[i].flaggedAt \in Nat /\ episodes[i].recoveredAt \in Nat
  <1>1. \A i \in 1..Len(episodes) : episodes[i] \in Episode
    OBVIOUS
  <1>2. \A e \in Episode : e.flaggedAt \in Nat /\ e.recoveredAt \in Nat
    BY DEF Episode
  <1>3. QED
    BY <1>1, <1>2

LEMMA ScanLater ==
    ASSUME NEW n \in Nat, NEW state, ScanOK(state, n), DOMAIN history \subseteq Nat,
           n \in DOMAIN history => (history[n] \in FlaggedBands <=> Found(state, n))
    PROVE  ScanOK(state, n + 1)
  <1>1. \A i \in 1..Len(state.closed) :
            state.closed[i].recoveredAt \in Nat /\ state.closed[i].flaggedAt \in Nat
    BY EpisodesTyped DEF ScanOK, ScanState
  <1>2. \A i \in 1..Len(state.closed) : Ended(state.closed[i], n + 1)
    BY <1>1 DEF ScanOK, Ended
  <1>3. state.flaggedAt # NoDay => Started(state, n + 1)
    BY DEF ScanOK, ScanState, Started
  <1>4. \A day \in DOMAIN history : day < n + 1 => day < n \/ day = n
    OBVIOUS
  <1>5. QED
    BY <1>2, <1>3, <1>4 DEF ScanOK

LEMMA ScanOpens ==
    ASSUME NEW n \in Nat, NEW state, ScanOK(state, n), DOMAIN history \subseteq Nat,
           n \in DOMAIN history, history[n] \in Bands, history[n] \in FlaggedBands,
           state.flaggedAt = NoDay
    PROVE  ScanOK([state EXCEPT !.flaggedAt = n, !.band = history[n]], n + 1)
  <1> DEFINE next == [state EXCEPT !.flaggedAt = n, !.band = history[n]]
  <1>1. state \in ScanState
    BY DEF ScanOK
  <1>2. /\ next \in ScanState
        /\ next.closed = state.closed
        /\ next.flaggedAt = n
        /\ next.band = history[n]
    BY <1>1 DEF ScanState
  <1> HIDE DEF next
  <1>3. \A i \in 1..Len(state.closed) :
            state.closed[i].recoveredAt \in Nat /\ state.closed[i].flaggedAt \in Nat
    BY <1>1, EpisodesTyped DEF ScanState
  <1>4. \A i \in 1..Len(state.closed) : Ended(state.closed[i], n + 1)
    BY <1>3 DEF ScanOK, Ended
  <1>5. Started(next, n + 1)
    BY <1>2 DEF ScanOK, Started, Ended
  <1>6. ASSUME NEW day \in DOMAIN history, day < n + 1
        PROVE  history[day] \in FlaggedBands <=> Found(next, day)
    <2>1. day \in Nat /\ n # NoDay
      BY DEF NoDay
    <2>2. CASE day = n
      BY <1>2, <2>1, <2>2 DEF Found
    <2>3. CASE day # n
      <3>1. day < n /\ ~(n <= day)
        BY <1>6, <2>1, <2>3
      <3>2. history[day] \in FlaggedBands <=> Found(state, day)
        BY <3>1 DEF ScanOK
      <3>3. QED
        BY <1>2, <3>1, <3>2 DEF Found
    <2>4. QED
      BY <2>2, <2>3
  <1>7. ScanOK(next, n + 1)
    BY <1>2, <1>4, <1>5, <1>6 DEF ScanOK
  <1>8. QED
    BY <1>7 DEF next

LEMMA ScanCloses ==
    ASSUME NEW n \in Nat, NEW state, ScanOK(state, n), DOMAIN history \subseteq Nat,
           n \in DOMAIN history, history[n] \notin FlaggedBands,
           \A day \in DOMAIN history : history[day] \in Bands,
           state.flaggedAt # NoDay
    PROVE  ScanOK([Outside EXCEPT !.closed =
                       Append(state.closed, [flaggedAt |-> state.flaggedAt,
                                             band |-> state.band,
                                             recoveredAt |-> n])], n + 1)
  <1> DEFINE episode == [flaggedAt |-> state.flaggedAt, band |-> state.band, recoveredAt |-> n]
             closed  == Append(state.closed, episode)
             next    == [Outside EXCEPT !.closed = closed]
             last    == Len(state.closed) + 1
  <1>1. state \in ScanState /\ Started(state, n)
    BY DEF ScanOK
  <1>2. /\ episode.flaggedAt = state.flaggedAt
        /\ episode.band = state.band
        /\ episode.recoveredAt = n
    OBVIOUS
  <1>3. state.flaggedAt \in Nat /\ state.closed \in Seq(Episode) /\ Len(state.closed) \in Nat
    BY <1>1 DEF ScanState
  <1>4. episode \in Episode
    BY <1>1, <1>3 DEF Started, Episode
  <1> HIDE DEF episode
  <1>5. /\ closed \in Seq(Episode)
        /\ Len(closed) = last
        /\ closed[last] = episode
        /\ \A i \in 1..Len(state.closed) : closed[i] = state.closed[i]
    BY <1>3, <1>4
  <1> HIDE DEF closed
  <1>6. /\ next \in ScanState
        /\ next.flaggedAt = NoDay
        /\ next.closed = closed
    BY <1>5 DEF Outside, ScanState
  <1> HIDE DEF next
  <1>7. \A i \in 1..Len(state.closed) :
            state.closed[i].recoveredAt \in Nat /\ state.closed[i].flaggedAt \in Nat
    BY <1>3, EpisodesTyped
  <1>8. \A i \in 1..last : i \in 1..Len(state.closed) \/ i = last
    BY <1>3
  <1>9. Ended(episode, n + 1)
    BY <1>1, <1>2, <1>3 DEF Started, Ended
  <1>10. \A i \in 1..last : Ended(closed[i], n + 1)
    <2>1. \A i \in 1..Len(state.closed) : Ended(state.closed[i], n + 1)
      BY <1>7 DEF ScanOK, Ended
    <2>2. QED
      BY <1>5, <1>8, <1>9, <2>1
  <1>11. InOrder(closed)
    <2> SUFFICES ASSUME NEW i \in 1..last, NEW j \in 1..last, i < j
                 PROVE  closed[i].recoveredAt < closed[j].flaggedAt
      BY <1>5 DEF InOrder
    <2>1. i \in 1..Len(state.closed)
      BY <1>3
    <2>2. CASE j = last
      BY <1>1, <1>2, <1>5, <2>1, <2>2 DEF Started
    <2>3. CASE j \in 1..Len(state.closed)
      BY <1>5, <2>1, <2>3 DEF ScanOK, InOrder
    <2>4. QED
      BY <1>8, <2>2, <2>3
  <1>12. ASSUME NEW day \in DOMAIN history, day < n + 1
         PROVE  history[day] \in FlaggedBands <=> Found(next, day)
    <2>1. day \in Nat /\ last \in 1..last
      BY <1>3
    <2>2. Found(next, day) <=> \E i \in 1..last : Holds(closed[i], day)
      BY <1>5, <1>6 DEF Found
    <2>3. CASE day = n
      <3>1. ASSUME NEW i \in 1..last, Holds(closed[i], n) PROVE FALSE
        <4>1. closed[i].recoveredAt < n + 1 /\ closed[i].recoveredAt \in Nat
          BY <1>2, <1>5, <1>7, <1>8, <1>10 DEF Ended
        <4>2. QED
          BY <1>5, <3>1, <4>1 DEF Holds
      <3>2. QED
        BY <2>2, <2>3, <3>1
    <2>4. CASE day # n
      <3>1. day < n
        BY <1>12, <2>1, <2>4
      <3>2. history[day] \in FlaggedBands <=> Found(state, day)
        BY <3>1 DEF ScanOK
      <3>3. Holds(closed[last], day) <=> state.flaggedAt <= day
        BY <1>2, <1>5, <3>1 DEF Holds
      <3>4. Found(state, day) <=> \E i \in 1..last : Holds(closed[i], day)
        <4>1. ASSUME Found(state, day) PROVE \E i \in 1..last : Holds(closed[i], day)
          <5>1. \A i \in 1..Len(state.closed) : i \in 1..last
            BY <1>3
          <5>2. QED
            BY <1>5, <2>1, <3>3, <4>1, <5>1 DEF Found
        <4>2. ASSUME NEW i \in 1..last, Holds(closed[i], day) PROVE Found(state, day)
          BY <1>5, <1>8, <3>3, <4>2 DEF Found
        <4>3. QED
          BY <4>1, <4>2
      <3>5. QED
        BY <2>2, <3>2, <3>4
    <2>5. QED
      BY <2>3, <2>4
  <1>13. ScanOK(next, n + 1)
    BY <1>5, <1>6, <1>10, <1>11, <1>12 DEF ScanOK
  <1>14. QED
    BY <1>13 DEF next, closed, episode

LEMMA ScanStep ==
    ASSUME NEW n \in Nat, NEW state, ScanOK(state, n), DOMAIN history \subseteq Nat,
           \A day \in DOMAIN history : history[day] \in Bands
    PROVE  ScanOK(Advance(state, n), n + 1)
  <1>1. CASE n \notin DOMAIN history
    BY <1>1, ScanLater DEF Advance
  <1>2. CASE n \in DOMAIN history /\ history[n] \in FlaggedBands /\ state.flaggedAt # NoDay
    <2>1. Found(state, n)
      BY <1>2 DEF ScanOK, Started, Found
    <2>2. Advance(state, n) = state
      BY <1>2 DEF Advance, ScanRow
    <2>3. QED
      BY <1>2, <2>1, <2>2, ScanLater
  <1>3. CASE n \in DOMAIN history /\ history[n] \in FlaggedBands /\ state.flaggedAt = NoDay
    <2>1. Advance(state, n) = [state EXCEPT !.flaggedAt = n, !.band = history[n]]
      BY <1>3 DEF Advance, ScanRow
    <2>2. QED
      BY <1>3, <2>1, ScanOpens
  <1>4. CASE n \in DOMAIN history /\ history[n] \notin FlaggedBands /\ state.flaggedAt = NoDay
    <2>1. ASSUME NEW i \in 1..Len(state.closed), Holds(state.closed[i], n) PROVE FALSE
      <3>1. state.closed[i].recoveredAt \in Nat
        BY EpisodesTyped DEF ScanOK, ScanState
      <3>2. QED
        BY <2>1, <3>1 DEF ScanOK, Ended, Holds
    <2>2. ~Found(state, n)
      BY <1>4, <2>1 DEF Found
    <2>3. Advance(state, n) = state
      BY <1>4 DEF Advance, ScanRow
    <2>4. QED
      BY <1>4, <2>2, <2>3, ScanLater
  <1>5. CASE n \in DOMAIN history /\ history[n] \notin FlaggedBands /\ state.flaggedAt # NoDay
    <2>1. Advance(state, n) =
              [Outside EXCEPT !.closed =
                   Append(state.closed, [flaggedAt |-> state.flaggedAt,
                                         band |-> state.band, recoveredAt |-> n])]
      BY <1>5 DEF Advance, ScanRow
    <2>2. QED
      BY <1>5, <2>1, ScanCloses
  <1>6. QED
    BY <1>1, <1>2, <1>3, <1>4, <1>5

LEMMA ScanHolds ==
    ASSUME DOMAIN history \subseteq Nat,
           \A day \in DOMAIN history : history[day] \in Bands
    PROVE  \A n \in Nat : ScanOK(Scanned(history)[n], n)
  <1> DEFINE S == {n \in Nat : ScanOK(Scanned(history)[n], n)}
  <1>1. 0 \in S
    <2>1. /\ Outside \in ScanState
          /\ Outside.flaggedAt = NoDay
          /\ Len(Outside.closed) = 0
      BY DEF Outside, ScanState
    <2>2. 1..0 = {}
      OBVIOUS
    <2>3. ScanOK(Outside, 0)
      BY <2>1, <2>2 DEF ScanOK, InOrder
    <2>4. QED
      BY <2>3, ScannedSteps
  <1>2. ASSUME NEW n \in Nat, n \in S PROVE n + 1 \in S
    BY <1>2, ScannedSteps, ScanStep
  <1> HIDE DEF S
  <1>3. Nat \subseteq S
    BY <1>1, <1>2, EveryNat
  <1>4. QED
    BY <1>3 DEF S

\* Behind the last row, each stored day is flagged if and only if exactly one
\* episode holds it.
LEMMA EpisodesStep == TypeOK => EpisodesAreMaximal
  <1> SUFFICES ASSUME TypeOK PROVE EpisodesAreMaximal
    OBVIOUS
  <1> DEFINE days     == DOMAIN history
             episodes == RiskEpisodes(history)
             end      == Max({-1} \cup days) + 1
             scan     == Scanned(history)[end]
             Covers(e, day) == /\ e.flaggedAt <= day
                               /\ e.recoveredAt = NoDay \/ day < e.recoveredAt
             open     == [flaggedAt |-> scan.flaggedAt, band |-> scan.band,
                          recoveredAt |-> NoDay]
  <1>1. days \subseteq Nat /\ IsFiniteSet(days) /\ \A day \in days : history[day] \in Bands
    <2>1. days \subseteq 0..today /\ today \in Int
      BY NumbersAreNat DEF TypeOK
    <2>2. IsFiniteSet(0..today)
      BY <2>1, FS_Interval
    <2>3. QED
      BY <2>1, <2>2, FS_Subset DEF TypeOK
  <1>2. end \in Nat /\ \A day \in days : day < end
    <2> DEFINE S == {-1} \cup days
    <2>1. IsFiniteSet(S)
      BY <1>1, FS_Singleton, FS_Union
    <2>2. S \subseteq Int /\ S # {} /\ -1 \in S
      BY <1>1
    <2>3. Max(S) \in S /\ \A y \in S : y <= Max(S)
      BY <2>1, <2>2, MaxOfInts
    <2>4. Max(S) \in Int /\ -1 <= Max(S) /\ \A day \in days : day <= Max(S) /\ day \in Nat
      BY <1>1, <2>2, <2>3
    <2> HIDE DEF S
    <2>5. Max(S) + 1 \in Nat /\ \A day \in days : day < Max(S) + 1
      BY <2>4
    <2>6. QED
      BY <2>5 DEF S
  <1> HIDE DEF end
  <1>3. ScanOK(scan, end)
    BY <1>1, <1>2, ScanHolds
  <1>4. episodes = IF scan.flaggedAt = NoDay THEN scan.closed ELSE Append(scan.closed, open)
    BY DEF RiskEpisodes, end
  <1> HIDE DEF scan, episodes, days
  <1>5. /\ scan.closed \in Seq(Episode)
        /\ Len(scan.closed) \in Nat
        /\ scan.flaggedAt \in Nat \cup {NoDay}
    BY <1>3 DEF ScanOK, ScanState
  <1>6. \A i \in 1..Len(scan.closed) :
            /\ scan.closed[i].flaggedAt \in Nat
            /\ scan.closed[i].recoveredAt \in Nat
            /\ scan.closed[i].recoveredAt # NoDay
    BY <1>5, EpisodesTyped DEF NoDay
  <1>7. ASSUME NEW i \in 1..Len(scan.closed), NEW day \in days
        PROVE  Covers(scan.closed[i], day) <=> Holds(scan.closed[i], day)
    BY <1>6 DEF Holds
  <1>8. /\ \A i \in DOMAIN episodes :
               \/ i \in 1..Len(scan.closed) /\ episodes[i] = scan.closed[i]
               \/ /\ scan.flaggedAt # NoDay
                  /\ i = Len(scan.closed) + 1
                  /\ i = Len(episodes)
                  /\ episodes[i] = open
        /\ \A i \in 1..Len(scan.closed) : i \in DOMAIN episodes /\ episodes[i] = scan.closed[i]
        /\ scan.flaggedAt # NoDay =>
               /\ Len(scan.closed) + 1 \in DOMAIN episodes
               /\ episodes[Len(scan.closed) + 1] = open
        /\ DOMAIN episodes \subseteq Nat
    <2>1. CASE scan.flaggedAt = NoDay
      BY <1>4, <1>5, <2>1
    <2>2. CASE scan.flaggedAt # NoDay
      <3> HIDE DEF open
      <3>1. /\ Len(Append(scan.closed, open)) = Len(scan.closed) + 1
            /\ DOMAIN Append(scan.closed, open) = 1..Len(scan.closed) + 1
            /\ Append(scan.closed, open)[Len(scan.closed) + 1] = open
            /\ \A i \in 1..Len(scan.closed) :
                   Append(scan.closed, open)[i] = scan.closed[i]
        BY <1>5
      <3>2. \A i \in 1..Len(scan.closed) + 1 :
                i \in 1..Len(scan.closed) \/ i = Len(scan.closed) + 1
        BY <1>5
      <3>3. \A i \in 1..Len(scan.closed) : i \in 1..Len(scan.closed) + 1
        BY <1>5
      <3>4. Len(scan.closed) + 1 \in 1..Len(scan.closed) + 1
        BY <1>5
      <3>5. QED
        BY <1>4, <2>2, <3>1, <3>2, <3>3, <3>4
    <2>3. QED
      BY <2>1, <2>2
  <1>9. open.flaggedAt = scan.flaggedAt /\ open.band = scan.band /\ open.recoveredAt = NoDay
    OBVIOUS
  <1> HIDE DEF open
  <1>10. ASSUME NEW day \in days, NEW i \in DOMAIN episodes, NEW j \in DOMAIN episodes,
                i < j, Covers(episodes[i], day), Covers(episodes[j], day)
         PROVE  FALSE
    <2>1. day \in Nat /\ i \in Nat /\ j \in Nat
      BY <1>1, <1>8
    <2>2. i \in 1..Len(scan.closed) /\ episodes[i] = scan.closed[i]
      <3>1. CASE i = Len(scan.closed) + 1
        BY <1>5, <1>8, <1>10, <2>1, <3>1
      <3>2. QED
        BY <1>8, <3>1
    <2>3. day < scan.closed[i].recoveredAt /\ scan.closed[i].recoveredAt \in Nat
      BY <1>6, <1>10, <2>2
    <2>4. scan.closed[i].recoveredAt < episodes[j].flaggedAt
      <3>1. CASE j \in 1..Len(scan.closed) /\ episodes[j] = scan.closed[j]
        BY <1>3, <1>10, <2>2, <3>1 DEF ScanOK, InOrder
      <3>2. CASE scan.flaggedAt # NoDay /\ episodes[j] = open
        BY <1>3, <1>9, <2>2, <3>2 DEF ScanOK, Started
      <3>3. QED
        BY <1>8, <3>1, <3>2
    <2>5. episodes[j].flaggedAt \in Nat
      BY <1>5, <1>6, <1>8, <1>9
    <2>6. QED
      BY <1>10, <2>1, <2>3, <2>4, <2>5
  <1>11. ASSUME NEW day \in days
         PROVE  history[day] \in FlaggedBands <=> \E i \in DOMAIN episodes : Covers(episodes[i], day)
    <2>1. history[day] \in FlaggedBands <=> Found(scan, day)
      BY <1>2, <1>3 DEF ScanOK, days
    <2>2. ASSUME Found(scan, day) PROVE \E i \in DOMAIN episodes : Covers(episodes[i], day)
      <3>1. CASE scan.flaggedAt # NoDay /\ scan.flaggedAt <= day
        BY <1>8, <1>9, <3>1
      <3>2. CASE \E i \in 1..Len(scan.closed) : Holds(scan.closed[i], day)
        BY <1>7, <1>8, <3>2
      <3>3. QED
        BY <2>2, <3>1, <3>2 DEF Found
    <2>3. ASSUME NEW i \in DOMAIN episodes, Covers(episodes[i], day) PROVE Found(scan, day)
      BY <1>7, <1>8, <1>9, <2>3 DEF Found
    <2>4. QED
      BY <2>1, <2>2, <2>3
  <1>12. ASSUME NEW day \in days
         PROVE  Cardinality({i \in DOMAIN episodes : Covers(episodes[i], day)})
                    = IF history[day] \in FlaggedBands THEN 1 ELSE 0
    <2> DEFINE covering == {i \in DOMAIN episodes : Covers(episodes[i], day)}
    <2>1. CASE history[day] \in FlaggedBands
      <3>1. PICK i \in DOMAIN episodes : Covers(episodes[i], day)
        BY <1>11, <2>1
      <3>2. ASSUME NEW j \in DOMAIN episodes, Covers(episodes[j], day) PROVE j = i
        <4>1. i \in Nat /\ j \in Nat
          BY <1>8
        <4>2. ~(i < j) /\ ~(j < i)
          BY <1>10, <3>1, <3>2
        <4>3. QED
          BY <4>1, <4>2
      <3>3. covering = {i}
        BY <3>1, <3>2
      <3>4. QED
        BY <2>1, <3>3, FS_Singleton
    <2>2. CASE history[day] \notin FlaggedBands
      <3>1. covering = {}
        BY <1>11, <2>2
      <3>2. QED
        BY <2>2, <3>1, FS_EmptySet
    <2>3. QED
      BY <2>1, <2>2
  <1>13. ASSUME NEW i \in DOMAIN episodes
         PROVE  /\ episodes[i].band = history[episodes[i].flaggedAt]
                /\ episodes[i].recoveredAt = NoDay =>
                       /\ i = Len(episodes)
                       /\ history[Max(DOMAIN history)] \in FlaggedBands
                /\ episodes[i].recoveredAt # NoDay =>
                       history[episodes[i].recoveredAt] \notin FlaggedBands
    <2>1. CASE i \in 1..Len(scan.closed) /\ episodes[i] = scan.closed[i]
      BY <1>3, <1>6, <2>1 DEF ScanOK, Ended
    <2>2. CASE scan.flaggedAt # NoDay /\ i = Len(episodes) /\ episodes[i] = open
      <3>1. scan.flaggedAt \in days /\ scan.band = history[scan.flaggedAt]
        BY <1>3, <2>2 DEF ScanOK, Started, days
      <3>2. days \subseteq Int /\ days # {}
        BY <1>1, <3>1
      <3>3. Max(days) \in days /\ scan.flaggedAt <= Max(days)
        BY <1>1, <3>1, <3>2, MaxOfInts
      <3>4. Found(scan, Max(days))
        BY <2>2, <3>3 DEF Found
      <3>5. history[Max(days)] \in FlaggedBands
        BY <1>2, <1>3, <3>3, <3>4 DEF ScanOK, days
      <3>6. QED
        BY <1>9, <2>2, <3>1, <3>5 DEF days
    <2>3. QED
      BY <1>8, <2>1, <2>2
  <1>14. QED
    BY <1>12, <1>13 DEF EpisodesAreMaximal, episodes, days

-----------------------------------------------------------------------------
(* Theorems on one account's days *)

LEMMA HInvHolds == Spec => []HInv
  BY InitHInv, NextKeepsHInv, PTL DEF Spec

\* Types: a row for no later day than today and with one of the bands, no
\* campaign of the future, drafts for known departments.
THEOREM TypeCorrect == Spec => []TypeOK
  <1>1. HInv => TypeOK
    BY DEF HInv
  <1>2. QED
    BY <1>1, HInvHolds, PTL

\* A churn of the harness (evals/calibration.py) is Critical and opens a
\* decay play on an idle account, whatever else fires.
THEOREM ChurnIsNeverMissedHolds == Spec => []ChurnIsNeverMissed
  <1>1. HInv => ChurnIsNeverMissed
    BY ChurnStep DEF HInv
  <1>2. QED
    BY <1>1, HInvHolds, PTL

\* No way to Healthy around the caps or through null dimensions
\* (metrics/health.py), for all thresholds in the order of the model file.
THEOREM HealthyIsEarnedHolds == Spec => []HealthyIsEarned
  <1>1. HInv => HealthyIsEarned
    BY HealthyStep DEF HInv
  <1>2. QED
    BY <1>1, HInvHolds, PTL

\* The triggers (signals/triggers.py) and the score (metrics/) agree on
\* volume and pace, at every boundary of their two sets of thresholds.
THEOREM TriggersAgreeWithScoreHolds == Spec => []TriggersAgreeWithScore
  <1>1. HInv => TriggersAgreeWithScore
    BY AgreementStep DEF HInv
  <1>2. QED
    BY <1>1, HInvHolds, PTL

\* The harness finds the warning the silence caps promise, less the missed
\* nights, with campaigns before or after each night's scoring.
THEOREM ChurnHasLeadTimeHolds == Spec => []ChurnHasLeadTime
  <1>1. HInv => ChurnHasLeadTime
    BY LeadTimeStep
  <1>2. QED
    BY <1>1, HInvHolds, PTL

\* detect_risk_episodes (evals/calibration.py) on any history with holes in
\* it: one episode for each flagged row, none for another row, and an
\* unflagged row at the end of each but the last.
THEOREM EpisodesAreMaximalHolds == Spec => []EpisodesAreMaximal
  <1>1. HInv => EpisodesAreMaximal
    BY EpisodesStep DEF HInv
  <1>2. QED
    BY <1>1, HInvHolds, PTL

\* Runs and reruns of the second-creator job write to each single-threaded
\* department, and never twice within the cooldown.
THEOREM SeedingKeepsPaceHolds == Spec => SeedingKeepsPace
  <1> DEFINE Kept ==
        /\ SeedSecondCreators =>
               \A d \in SingleThreaded(campaigns, today) :
                   \E s \in seedings' :
                       s.department = d /\ s.day >= today - Cooldown
        /\ \A s, t \in seedings' :
               s.department = t.department /\ s # t =>
                   s.day - t.day > Cooldown \/ t.day - s.day > Cooldown
  <1>1. HInv /\ [Next]_vars => Kept
    <2> SUFFICES ASSUME HInv, [Next]_vars PROVE Kept
      OBVIOUS
    <2>1. DraftsApart'
      BY NextKeepsHInv DEF HInv
    <2>2. QED
      BY <2>1, SeedReachesAll DEF DraftsApart
  <1>2. HInv /\ [Next]_vars => [Kept]_vars
    BY <1>1
  <1>3. QED
    BY <1>2, HInvHolds, PTL DEF Spec, SeedingKeepsPace

-----------------------------------------------------------------------------
(* Elevations (Coverage) *)

Durations == {FirstDays, ChampionDays, DepartmentDays, ReferenceDays, RenewalDays}

LEMMA DaysAreNat ==
    /\ FirstDays \in Nat /\ ChampionDays \in Nat /\ RecentDays \in Nat
    /\ RenewalDays \in Nat /\ DepartmentDays \in Nat /\ ReferenceDays \in Nat
    /\ MaxRunsPerDay \in Nat
  BY CoverageAssumption

\* The longest of the durations exists, so MaxLeft bounds them all.
LEMMA MaxLeftBounds ==
    /\ MaxLeft \in Nat
    /\ FirstDays <= MaxLeft /\ ChampionDays <= MaxLeft /\ RenewalDays <= MaxLeft
    /\ DepartmentDays <= MaxLeft /\ ReferenceDays <= MaxLeft
  <1>1. Durations \subseteq Nat
    BY DaysAreNat DEF Durations
  <1>2. \E m \in Durations : \A n \in Durations : n <= m
    <2> DEFINE Larger(a, b) == IF a <= b THEN b ELSE a
               ab == Larger(FirstDays, ChampionDays)
               cd == Larger(DepartmentDays, ReferenceDays)
               abcd == Larger(ab, cd)
               m == Larger(abcd, RenewalDays)
    <2>1. m \in Durations /\ \A n \in Durations : n <= m
      BY DaysAreNat DEF Durations
    <2>2. QED
      BY <2>1
  <1>3. MaxLeft \in Durations /\ \A n \in Durations : n <= MaxLeft
    BY <1>2 DEF MaxLeft, Durations
  <1>4. QED
    BY <1>1, <1>3 DEF Durations

Rows == [trigger : Triggers, left : -1..MaxLeft]

\* A row opened by the job has its trigger's duration, and nothing had it.
LEMMA OpenedRows ==
    ASSUME CoverageTypeOK
    PROVE  /\ Opened \subseteq Rows
           /\ \A row \in Opened : Fires[row.trigger] /\ row.trigger \notin ActiveTriggers
           /\ \A row, other \in Opened : row.trigger = other.trigger => row = other
           /\ \A t \in Triggers :
                  Fires[t] /\ t \notin ActiveTriggers => \E row \in Opened : row.trigger = t
  <1>1. ASSUME NEW t \in Triggers, Fires[t] PROVE Duration[t] \in -1..MaxLeft
    <2>1. Fires["renewal_within_90_days"] => daysOut \in 0..RenewalDays
      BY DEF Fires
    <2>2. CASE t = "renewal_within_90_days"
      BY <2>1, <2>2, <1>1, MaxLeftBounds, DaysAreNat DEF Duration
    <2>3. CASE t # "renewal_within_90_days"
      BY <2>3, MaxLeftBounds, DaysAreNat DEF Duration, Triggers
    <2>4. QED
      BY <2>2, <2>3
  <1>2. Opened = {[trigger |-> t, left |-> Duration[t]] :
                     t \in {u \in Triggers : Fires[u] /\ u \notin ActiveTriggers}}
    BY DEF Opened
  <1>3. ASSUME NEW row \in Opened
        PROVE  /\ row \in Rows /\ row = [trigger |-> row.trigger, left |-> Duration[row.trigger]]
               /\ Fires[row.trigger] /\ row.trigger \notin ActiveTriggers
    <2>1. PICK t \in Triggers : /\ Fires[t] /\ t \notin ActiveTriggers
                                /\ row = [trigger |-> t, left |-> Duration[t]]
      BY <1>2
    <2>2. QED
      BY <1>1, <2>1 DEF Rows
  <1>4. ASSUME NEW t \in Triggers, Fires[t], t \notin ActiveTriggers
        PROVE  \E row \in Opened : row.trigger = t
    <2>1. [trigger |-> t, left |-> Duration[t]] \in Opened
      BY <1>2, <1>4
    <2>2. QED
      BY <2>1
  <1>5. Opened \subseteq Rows
    BY <1>3
  <1>6. ASSUME NEW row \in Opened, NEW other \in Opened, row.trigger = other.trigger
        PROVE  row = other
    BY <1>3, <1>6
  <1>7. QED
    BY <1>3, <1>4, <1>5, <1>6

LEMMA CoverageInitOK == CoverageInit => CoverageTypeOK /\ OneActivePerTrigger
  <1> SUFFICES ASSUME CoverageInit PROVE CoverageTypeOK /\ OneActivePerTrigger
    OBVIOUS
  <1>1. departed \in BOOLEAN /\ willing \in BOOLEAN
    BY DEF CoverageInit
  <1>2. tier \in Tiers /\ band \in HealthBands /\ active = {}
    BY DEF CoverageInit, HealthBands
  <1>3. /\ age \in -1..(FirstDays + 1) /\ deptAge \in 0..(RecentDays + 1)
        /\ daysOut \in -1..(RenewalDays + 1) /\ runs \in 0..MaxRunsPerDay
    BY DaysAreNat DEF CoverageInit
  <1>4. QED
    BY <1>1, <1>2, <1>3 DEF CoverageTypeOK, OneActivePerTrigger

\* What every change of the facts leaves alone.
LEMMA FactsKeepRows ==
    ASSUME FactsChange PROVE UNCHANGED <<active, runs>>
  BY DEF FactsChange, SetContractStart, SetTier, SetBand, ChampionDeparts,
         SetReferenceWilling, LaunchDepartment, SetReference

\* The rows after midnight.
LEMMA DayPassesRows ==
    ASSUME CoverageTypeOK, OneActivePerTrigger, DayPasses
    PROVE  /\ active' \subseteq Rows
           /\ OneActivePerTrigger'
  <1> DEFINE After(row) == IF OnCalendar(row) THEN [row EXCEPT !.left = CountDown(@)]
                                              ELSE row
  <1>1. active' = {After(row) : row \in active}
    BY DEF DayPasses
  <1>2. ASSUME NEW row \in Rows PROVE After(row) \in Rows /\ After(row).trigger = row.trigger
    BY MaxLeftBounds DEF Rows, CountDown
  <1>3. active \subseteq Rows
    BY DEF CoverageTypeOK, Rows
  <1> HIDE DEF After
  <1>4. QED
    BY <1>1, <1>2, <1>3 DEF OneActivePerTrigger

LEMMA CoverageStep ==
    ASSUME CoverageTypeOK, OneActivePerTrigger, [CoverageNext]_coverageVars
    PROVE  CoverageTypeOK' /\ OneActivePerTrigger'
  <1>1. CASE Job
    <2>1. PICK closed \in SUBSET MayClose :
              active' = (active \ (MustClose \cup closed)) \cup Opened
      BY <1>1 DEF Job
    <2>2. CoverageTypeOK'
      BY <1>1, <2>1, OpenedRows, DaysAreNat
         DEF Job, CoverageTypeOK, Rows, facts
    <2>3. OneActivePerTrigger'
      BY <2>1, OpenedRows DEF OneActivePerTrigger, ActiveTriggers
    <2>4. QED
      BY <2>2, <2>3
  <1>2. CASE DayPasses
    <2>1. /\ age' \in -1..(FirstDays + 1) /\ deptAge' \in 0..(RecentDays + 1)
          /\ daysOut' \in -1..(RenewalDays + 1)
      BY <1>2, DaysAreNat DEF DayPasses, CoverageTypeOK, Capped, CountDown
    <2>2. QED
      BY <1>2, <2>1, DayPassesRows, DaysAreNat
         DEF DayPasses, CoverageTypeOK, Rows
  <1>3. CASE FactsChange
    <2>1. OneActivePerTrigger'
      BY <1>3, FactsKeepRows DEF OneActivePerTrigger
    <2>2. departed' \in BOOLEAN /\ willing' \in BOOLEAN
      BY <1>3 DEF CoverageTypeOK, FactsChange, SetContractStart, SetTier, SetBand,
                  ChampionDeparts, SetReferenceWilling, LaunchDepartment, SetReference
    <2>3. /\ tier' \in Tiers /\ band' \in HealthBands
          /\ age' \in -1..(FirstDays + 1) /\ deptAge' \in 0..(RecentDays + 1)
          /\ daysOut' \in -1..(RenewalDays + 1)
      BY <1>3, DaysAreNat
         DEF CoverageTypeOK, FactsChange, SetContractStart, SetTier, SetBand,
             ChampionDeparts, SetReferenceWilling, LaunchDepartment, SetReference
    <2>4. QED
      BY <1>3, <2>1, <2>2, <2>3, FactsKeepRows DEF CoverageTypeOK
  <1>4. CASE UNCHANGED coverageVars
    BY <1>4 DEF CoverageTypeOK, OneActivePerTrigger, coverageVars, facts
  <1>5. QED
    BY <1>1, <1>2, <1>3, <1>4 DEF CoverageNext

\* A run leaves the row of a Critical account, or opens it, and closes it
\* for every other.
LEMMA JobTracksBand ==
    ASSUME CoverageTypeOK, Job
    PROVE  "health_critical" \in ActiveTriggers' <=> band = "critical"
  <1>1. PICK closed \in SUBSET MayClose :
            active' = (active \ (MustClose \cup closed)) \cup Opened
    BY DEF Job
  <1>2. "health_critical" \in Triggers /\ (Fires["health_critical"] <=> band = "critical")
    BY DEF Triggers, Fires
  <1>3. ActiveTriggers' = {row.trigger : row \in active'}
    BY DEF ActiveTriggers
  <1>4. CASE band # "critical"
    <2>1. ASSUME NEW row \in active' PROVE row.trigger # "health_critical"
      BY <1>1, <1>2, <1>4, OpenedRows DEF MustClose, OnCalendar
    <2>2. QED
      BY <1>3, <1>4, <2>1
  <1>5. CASE band = "critical"
    <2>1. CASE "health_critical" \in ActiveTriggers
      <3>1. PICK row \in active : row.trigger = "health_critical"
        BY <2>1 DEF ActiveTriggers
      <3>2. row \notin MustClose /\ row \notin MayClose
        BY <1>5, <3>1 DEF MustClose, MayClose, OnCalendar
      <3>3. QED
        BY <1>1, <1>3, <1>5, <3>1, <3>2
    <2>2. CASE "health_critical" \notin ActiveTriggers
      BY <1>1, <1>2, <1>3, <1>5, <2>2, OpenedRows
    <2>3. QED
      BY <2>1, <2>2
  <1>6. QED
    BY <1>4, <1>5

\* Types: every elevation has one of the six triggers and a number of days
\* left that its duration allows, however facts and runs interleave.
THEOREM CoverageTypeCorrect == CoverageSpec => []CoverageTypeOK
  <1>1. CoverageTypeOK /\ OneActivePerTrigger /\ [CoverageNext]_coverageVars
            => (CoverageTypeOK /\ OneActivePerTrigger)'
    BY CoverageStep
  <1>2. QED
    BY <1>1, CoverageInitOK, PTL DEF CoverageSpec

\* However opening, expiring, re-firing and changes of the facts interleave
\* (signals/coverage.py and the job's two loops), an account never has two
\* active elevations for one trigger.
THEOREM OneActivePerTriggerHolds == CoverageSpec => []OneActivePerTrigger
  <1>1. CoverageTypeOK /\ OneActivePerTrigger /\ [CoverageNext]_coverageVars
            => (CoverageTypeOK /\ OneActivePerTrigger)'
    BY CoverageStep
  <1>2. QED
    BY <1>1, CoverageInitOK, PTL DEF CoverageSpec

\* After every run the account is elevated for Critical health exactly if
\* its band is Critical, for all durations and any history of rows.
THEOREM CriticalTracksBandHolds == CoverageSpec => CriticalTracksBand
  <1>1. ASSUME CoverageTypeOK, [CoverageNext]_coverageVars, runs' > runs
        PROVE  "health_critical" \in ActiveTriggers' <=> band = "critical"
    <2>1. Job
      BY <1>1, FactsKeepRows, DaysAreNat
         DEF CoverageNext, DayPasses, coverageVars, CoverageTypeOK
    <2>2. QED
      BY <1>1, <2>1, JobTracksBand
  <1>2. CoverageTypeOK /\ [CoverageNext]_coverageVars
            => [runs' > runs =>
                   ("health_critical" \in ActiveTriggers' <=> band = "critical")]_coverageVars
    BY <1>1
  <1>3. QED
    BY <1>2, CoverageTypeCorrect, PTL DEF CoverageSpec, CriticalTracksBand

=============================================================================
