---------------------------- MODULE AccountHealth ----------------------------
(***************************************************************************)
(* One account over its days: campaigns of the day reach the database,     *)
(* before or after the nightly jobs, the scoring job                       *)
(* (core/jobs/score_portfolio.py) appends a row for the day, the           *)
(* second-creator job (run_second_creator_agent.py) seeds its single-      *)
(* threaded departments, and a night may be missed by both.  Scores,       *)
(* triggers and the calibration harness read what is stored then.          *)
(*                                                                         *)
(* The account's other facts are chosen once: no scorer remembers earlier  *)
(* values of them, so a change is the same as having had them all along.   *)
(***************************************************************************)
EXTENDS Triggers, Calibration

CONSTANTS
    Starts,         \* [account, campaigns]: the accounts to begin with, new
                    \* or with campaigns from before day 0
    Work,           \* campaigns a day may bring: [creator, department, billable]
    Cooldown,       \* COOLDOWN_DAYS: 30
    MaxMissed,      \* bound: nights on which the jobs did not run
    Horizon         \* bound: the last day

ASSUME AccountHealthAssumption ==
    /\ {Cooldown, MaxMissed, Horizon} \subseteq Nat
    /\ \A w \in Work : w.billable \in BOOLEAN
    /\ \A start \in Starts :
           /\ start.account.contractStart \in Int /\ start.account.commitmentEnd \in Int
           /\ start.account.committed \in Nat /\ start.account.potential \in Nat
           /\ IsFiniteSet(start.campaigns)
           /\ \A c \in start.campaigns :
                  /\ c.day \in Int /\ c.day < 0 /\ c.billable \in BOOLEAN
                  /\ c.department \in {w.department : w \in Work}

VARIABLES
    today,
    account,        \* the current version's facts
    campaigns,      \* campaigns in the database
    history,        \* history[day]: band of the health_scores row of that day
    seedings,       \* second_creator_seeding actions: [id, department, day]
    seeded,         \* the second-creator job has run today
    missed          \* nights without the jobs so far

vars == <<today, account, campaigns, history, seedings, seeded, missed>>

Init ==
    /\ today = 0
    /\ \E start \in Starts :
           account = start.account /\ campaigns = start.campaigns
    /\ history = <<>>
    /\ seedings = {}
    /\ seeded = FALSE
    /\ missed = 0

Departments == {w.department : w \in Work}
Scored == today \in DOMAIN history

-----------------------------------------------------------------------------

\* Mutant: the day is taken in a zone ahead of the database's.
IngestCampaign_NextDay(w) ==
    /\ \A c \in campaigns : c.day # today + 1
    /\ campaigns' = campaigns \cup
           {[day |-> today + 1, creator |-> w.creator,
             department |-> w.department, billable |-> w.billable]}
    /\ UNCHANGED <<today, account, history, seedings, seeded, missed>>

\* A load brings a campaign of today, before or after the nightly jobs; at
\* most one a day.
IngestCampaign(w) ==
    /\ \A c \in campaigns : c.day # today
    /\ campaigns' = campaigns \cup
           {[day |-> today, creator |-> w.creator, department |-> w.department,
             billable |-> w.billable]}
    /\ UNCHANGED <<today, account, history, seedings, seeded, missed>>

\* score_account for the current day.
ScorePortfolio ==
    /\ ~Scored
    /\ history' = [d \in DOMAIN history \cup {today} |->
                      IF d = today THEN Band(account, campaigns, today)
                                   ELSE history[d]]
    /\ UNCHANGED <<today, account, campaigns, seedings, seeded, missed>>

\* _recently_actioned_department_ids: from midnight Cooldown days ago.
RecentlyActioned ==
    {s.department : s \in {r \in seedings : r.day >= today - Cooldown}}

Seed(departments) ==
    /\ seedings' = seedings \cup
           {[id |-> Cardinality(seedings), department |-> d, day |-> today] :
               d \in departments}
    /\ seeded' = TRUE
    /\ UNCHANGED <<today, account, campaigns, history, missed>>

\* Mutant: the cooldown forgets drafts of earlier days.
SeedSecondCreators_SameDayOnly ==
    /\ Scored
    /\ Seed(SingleThreaded(campaigns, today)
              \ {s.department : s \in {r \in seedings : r.day = today}})

\* A run of the second-creator job, after the night's scores; a retry of
\* the same day is another run.
SeedSecondCreators ==
    /\ Scored
    /\ Seed(SingleThreaded(campaigns, today) \ RecentlyActioned)

\* The jobs have run, or the whole night was missed.
Midnight ==
    /\ today < Horizon
    /\ \/ Scored /\ seeded /\ missed' = missed
       \/ ~Scored /\ missed < MaxMissed /\ missed' = missed + 1
    /\ today' = today + 1
    /\ seeded' = FALSE
    /\ UNCHANGED <<account, campaigns, history, seedings>>

Next ==
    \/ \E w \in Work : IngestCampaign(w)
    \/ ScorePortfolio
    \/ SeedSecondCreators
    \/ Midnight

Spec == Init /\ [][Next]_vars

-----------------------------------------------------------------------------
(* Properties *)

Bands == {"healthy", "watch", "at_risk", "critical"}

TypeOK ==
    /\ today \in 0..Horizon
    /\ \E start \in Starts : account = start.account
    /\ \A c \in campaigns : c.day <= today /\ c.department \in Departments
    /\ DOMAIN history \subseteq 0..today
    /\ \A day \in DOMAIN history : history[day] \in Bands
    /\ \A s \in seedings : s.department \in Departments /\ s.day \in 0..today
    /\ seeded \in BOOLEAN
    /\ missed \in 0..MaxMissed

BandNow == Band(account, campaigns, today)

\* What tonight's evaluation would raise, on the latest band that is stored.
TonightsSignals ==
    LET types == DecayCandidates(account, campaigns, today)
                 \cup PlayCandidates(account, campaigns, today,
                                     BandAtOrBefore(history, today))
    IN  {[type |-> type] : type \in types}

\* When the calibration harness would call an account churned (no volume in
\* a quarter after one with some), the score already says critical and, on
\* an account with nothing open, the orchestrator opens a decay play: no
\* seasonal excuse, onboarding pace or stale healthy band hides it.
ChurnIsNeverMissed ==
    DetectEvent(campaigns, today) = "churned" =>
        /\ BandNow = "critical"
        /\ PlayToOpen(TonightsSignals, FALSE) = "decay"

\* The caps and the null dimensions leave no way around them: a Healthy
\* account used the product within AtRiskSilence days and has its quality
\* scored, and after its first quarter it has a sponsor and at least two
\* creators at work (none is as bad as one).
HealthyIsEarned ==
    BandNow = "healthy" =>
        /\ \E c \in campaigns : c.billable /\ today - c.day < AtRiskSilence
        /\ QualityScore(campaigns, today) # NoScore
        /\ Age(account, today) >= Tenure =>
               /\ ActivePeople(account, "exec_sponsor") # {}
               /\ Cardinality(CreatorsOf(Last90(campaigns, today))) >= 2

\* The triggers and the score compute the same facts twice and must agree:
\* a volume signal is raised only on a volume dimension below its 65 band,
\* and always then unless last year explains it; the utilisation cap comes
\* with a pace signal in every term long enough (7/3 of the last stretch).
TriggersAgreeWithScore ==
    LET volume == VolumeScore(account, campaigns, today)
    IN  /\ VolumeDecays(account, campaigns, today) =>
               volume # NoScore /\ volume < 65
        /\ Age(account, today) >= OnboardingAge /\ volume \in 0..64 =>
               \/ VolumeDecays(account, campaigns, today)
               \/ SeasonalDip(campaigns, today)
        /\ /\ UtilizationFloor(account, campaigns, today)
           /\ 7 * FinalStretch <= 3 * (account.commitmentEnd - account.contractStart)
           => PaceIsLow(account, campaigns, today)

LastCampaign == Max(EverBillable(campaigns))

\* Scored every night but the missed ones, a churn has been amber for the
\* days between the two silence caps before the harness can see it.
ChurnHasLeadTime ==
    /\ DetectEvent(campaigns, today) = "churned"
    /\ LastCampaign >= 0
    /\ missed < CriticalSilence - AtRiskSilence
    =>  /\ FirstAmber(history, today) # NoDay
        /\ today - FirstAmber(history, today)
               >= CriticalSilence - AtRiskSilence - missed

\* The scan over the stored rows yields the maximal runs of flagged days,
\* missed nights included: every flagged row lies in exactly one episode,
\* no other row in any, and an unflagged row ends each but the last.
EpisodesAreMaximal ==
    LET episodes == RiskEpisodes(history)
        Covers(e, day) == /\ e.flaggedAt <= day
                          /\ e.recoveredAt = NoDay \/ day < e.recoveredAt
    IN  /\ \A day \in DOMAIN history :
               Cardinality({i \in DOMAIN episodes : Covers(episodes[i], day)})
                   = IF history[day] \in FlaggedBands THEN 1 ELSE 0
        /\ \A i \in DOMAIN episodes :
               /\ episodes[i].band = history[episodes[i].flaggedAt]
               /\ episodes[i].recoveredAt = NoDay =>
                      /\ i = Len(episodes)
                      /\ history[Max(DOMAIN history)] \in FlaggedBands
               /\ episodes[i].recoveredAt # NoDay =>
                      history[episodes[i].recoveredAt] \notin FlaggedBands

\* After every run of the second-creator job each single-threaded department
\* has a draft no older than the cooldown, and no department ever has two
\* drafts within it, retries and late campaigns included.
SeedingKeepsPace ==
    [][/\ SeedSecondCreators =>
              \A d \in SingleThreaded(campaigns, today) :
                  \E s \in seedings' :
                      s.department = d /\ s.day >= today - Cooldown
       /\ \A s, t \in seedings' :
              s.department = t.department /\ s # t =>
                  s.day - t.day > Cooldown \/ t.day - s.day > Cooldown]_vars

=============================================================================
