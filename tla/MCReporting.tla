---------------------------- MODULE MCReporting ----------------------------
(* A small instance of Reporting: a review every two days, one every three. *)
EXTENDS Reporting

CONSTANTS r1, r2

TwoTypes == <<"at_risk_critical_review", "watch_review">>
ShortCadence == [at_risk_critical_review |-> 2, watch_review |-> 3]
Sessions == Permutations({r1, r2})

=============================================================================
