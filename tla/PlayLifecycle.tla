--------------------------- MODULE PlayLifecycle ---------------------------
(***************************************************************************)
(* What the platform promises about plays, and nothing about how: on any   *)
(* account at most one coordinated intervention is open.  A play opens     *)
(* only on an account with none open, stays until an agent closes it, and  *)
(* the one way to go from a play straight to another is the expansion play *)
(* handing over to a fresh onboarding play.                                *)
(***************************************************************************)
EXTENDS Orchestrator

CONSTANT Accounts

VARIABLE open   \* open[a]: the plays open on account a

Init == open = [a \in Accounts |-> {}]

\* One nightly commit may open a play on several idle accounts.
OpenPlays ==
    \E opened \in (SUBSET Accounts) \ {{}} :
        /\ \A a \in opened : open[a] = {}
        /\ \E play \in [opened -> PlayTypes] :
               open' = [a \in Accounts |->
                            IF a \in opened THEN {play[a]} ELSE open[a]]

Close(a) ==
    /\ open[a] # {}
    /\ open' = [open EXCEPT ![a] = {}]

HandOver(a) ==
    /\ open[a] = {"expansion"}
    /\ open' = [open EXCEPT ![a] = {"onboarding"}]

Next == OpenPlays \/ \E a \in Accounts : Close(a) \/ HandOver(a)

Spec == Init /\ [][Next]_open

=============================================================================
