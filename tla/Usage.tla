-------------------------------- MODULE Usage --------------------------------
(***************************************************************************)
(* The derived metrics of metrics/derived.py over one account's campaigns. *)
(* A campaign is a record [day, creator, department, billable].  A ratio   *)
(* is kept as its two counts and compared by cross-multiplication, so      *)
(* nothing is rounded; the code divides floats.                            *)
(***************************************************************************)
EXTENDS Integers, FiniteSetsExt

CONSTANTS
    Quarter,        \* 90 days
    RepeatWindow    \* 60 days

ASSUME WindowsAssumption ==
    Quarter \in Nat \ {0} /\ RepeatWindow \in 1..Quarter

\* billable_in_window: both ends count.
BillableInWindow(campaigns, first, last) ==
    {c \in campaigns : c.billable /\ first <= c.day /\ c.day <= last}

Last90(campaigns, today) ==
    BillableInWindow(campaigns, today - (Quarter - 1), today)

Prior90(campaigns, today) ==
    BillableInWindow(campaigns, today - (2 * Quarter - 1), today - Quarter)

\* volume_ratio_90d: undefined without a prior quarter to compare with.
HasVolumeRatio(campaigns, today) == Prior90(campaigns, today) # {}
VolumeRatioBelow(campaigns, today, percent) ==
    100 * Cardinality(Last90(campaigns, today))
        < percent * Cardinality(Prior90(campaigns, today))

CreatorsOf(window) == {c.creator : c \in window}

\* active_creators_by_department, departments_live.
DepartmentsLive(campaigns, today) ==
    {c.department : c \in Last90(campaigns, today)}
ActiveCreators(campaigns, today, department) ==
    CreatorsOf({c \in Last90(campaigns, today) : c.department = department})

\* single_threaded_department_ids, find_single_threaded_departments.
SingleThreaded(campaigns, today) ==
    {d \in DepartmentsLive(campaigns, today) :
        Cardinality(ActiveCreators(campaigns, today, d)) = 1}

\* creator_repeat_rate: the creators of its window, and those among them
\* who created at least twice.
RepeatWindowOf(campaigns, today) ==
    BillableInWindow(campaigns, today - (RepeatWindow - 1), today)
RepeatCreators(campaigns, today) ==
    LET window == RepeatWindowOf(campaigns, today)
    IN  {u \in CreatorsOf(window) :
            Cardinality({c \in window : c.creator = u}) >= 2}

\* Days since the last billable campaign, or since `since' if there is none
\* (both zero-campaign overrides).
EverBillable(campaigns) == {c.day : c \in {k \in campaigns : k.billable}}
DaysSilent(campaigns, since, today) ==
    today - (IF EverBillable(campaigns) = {} THEN since
             ELSE Max(EverBillable(campaigns)))

Consumed(campaigns) == Cardinality({c \in campaigns : c.billable})

\* commitment_pace: consumption against the share of the term gone by,
\* undefined without a commitment, a term or an elapsed day of it.
ElapsedDays(account, today) ==
    LET total == account.commitmentEnd - account.contractStart
        since == today - account.contractStart
    IN  IF since < 0 THEN 0 ELSE IF since > total THEN total ELSE since
HasPace(account, today) ==
    /\ account.committed > 0
    /\ account.commitmentEnd > account.contractStart
    /\ ElapsedDays(account, today) > 0
PaceBelow(consumed, account, today, percent) ==
    100 * consumed * (account.commitmentEnd - account.contractStart)
        < percent * account.committed * ElapsedDays(account, today)

=============================================================================
