------------------------------ MODULE PlayRun ------------------------------
(***************************************************************************)
(* What every play_run row promises, whichever agent works on it: it is    *)
(* opened once; while it is open its agent may queue actions for the       *)
(* reviewers, and never takes one back; it is closed once, with an outcome *)
(* from its play's list ("every play run records an outcome"); and nothing *)
(* happens to it afterwards.                                               *)
(***************************************************************************)
EXTENDS Naturals

CONSTANT Outcomes

VARIABLES
    status,   \* "none" before the row exists, then "open", then "closed"
    outcome,
    rows      \* Action rows that name this play_run

NoOutcome == "none"

Init ==
    /\ status = "none"
    /\ outcome = NoOutcome
    /\ rows = 0

Open ==
    /\ status = "none"
    /\ status' = "open"
    /\ UNCHANGED <<outcome, rows>>

RowsGrow == rows' \in Nat /\ rows' >= rows

Work ==
    /\ status = "open"
    /\ RowsGrow
    /\ UNCHANGED <<status, outcome>>

Close ==
    /\ status = "open"
    /\ status' = "closed"
    /\ outcome' \in Outcomes
    /\ RowsGrow

Next == Open \/ Work \/ Close

Step == Next \/ UNCHANGED <<status, outcome, rows>>

Spec == Init /\ [][Next]_<<status, outcome, rows>>

=============================================================================
