------------------------------ MODULE Autonomy ------------------------------
(***************************************************************************)
(* The autonomy matrix (agents/config/autonomy_matrix.yaml), its           *)
(* resolution with the v1 promotion cap (agents/autonomy.py) and the       *)
(* no-volume-pushing gate every drafting agent puts behind it.  Pure.      *)
(*                                                                         *)
(* Agents store an action under a type of its own and resolve it against   *)
(* a row of the matrix; promotion counts approvals of stored types.        *)
(***************************************************************************)
EXTENDS Naturals

\* The tiers the matrix has a column for.  T4 has none: resolving it raises.
Tiers == {"T1", "T2", "T3"}

Levels == {"auto", "draft", "human_writes", "never"}

\* One row of the matrix, by tier.
Row(t1, t2, t3) == [T1 |-> t1, T2 |-> t2, T3 |-> t3]

\* The rows some agent resolves against.
Matrix == [
    internal_brief              |-> Row("auto", "auto", "auto"),
    onboarding_sequence         |-> Row("draft", "auto", "auto"),
    routine_check_in            |-> Row("draft", "draft", "auto"),
    decay_outreach_creator      |-> Row("draft", "draft", "auto"),
    expansion_champion_case     |-> Row("draft", "draft", "auto"),
    value_confirmation_request  |-> Row("human_writes", "draft", "draft"),
    renewal_value_review        |-> Row("human_writes", "draft", "draft"),
    renewal_commercial_proposal |-> Row("human_writes", "human_writes", "draft"),
    exec_to_exec_budget_or_displacement |-> Row("human_writes", "never", "never")]

CustomerFacing(row) == row # "internal_brief"

\* The stored types that hold a customer-facing draft, and their row.
RowOf == [
    onboarding_success_criteria |-> "onboarding_sequence",
    second_creator_seeding      |-> "routine_check_in",
    decay_outreach_creator      |-> "decay_outreach_creator",
    expansion_champion_case     |-> "expansion_champion_case",
    value_confirmation_request  |-> "value_confirmation_request",
    renewal_value_review        |-> "renewal_value_review",
    renewal_growth_proposal     |-> "renewal_commercial_proposal",
    renewal_objection_check     |-> "renewal_commercial_proposal",
    exec_to_exec_budget_or_displacement |-> "exec_to_exec_budget_or_displacement"]

StoredTypes == DOMAIN RowOf

\* Mutant: the count forgets to ask for the type.
CountedFor_AnyType(type) == StoredTypes

\* The stored types whose approvals a job counts towards promoting `type'.
\* The decay job counts outreach to creators whatever it ends up drafting.
CountedFor(type) ==
    IF type = "exec_to_exec_budget_or_displacement"
    THEN {"decay_outreach_creator"}
    ELSE {other \in StoredTypes : RowOf[other] = RowOf[type]}

\* Mutant: the threshold is one approval short.
Resolve_OffByOne(tier, row, approvals, threshold) ==
    LET level == Matrix[row][tier]
    IN  IF level = "auto" /\ CustomerFacing(row) /\ approvals + 1 < threshold
        THEN "draft"
        ELSE level

\* resolve_autonomy
Resolve(tier, row, approvals, threshold) ==
    LET level == Matrix[row][tier]
    IN  IF level = "auto" /\ CustomerFacing(row) /\ approvals < threshold
        THEN "draft"
        ELSE level

\* A flagged draft never keeps auto.
Gate(level, flagged) == IF flagged /\ level = "auto" THEN "draft" ELSE level

=============================================================================
