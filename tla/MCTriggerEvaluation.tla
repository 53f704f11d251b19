------------------------ MODULE MCTriggerEvaluation ------------------------
(* Small instances of TriggerEvaluation for TLC. *)
EXTENDS TriggerEvaluation

CONSTANTS a1, a2

Candidate(type, subject) == [type |-> type, subject |-> subject]

Volume    == Candidate("decay_volume_ratio_below_085", "account")
Expansion == Candidate("play4_expansion_candidate", "account")

\* Every way a play can start but the contract: decay and expansion by a
\* trigger, onboarding by the expansion hand-over.
TwoKinds == {Volume, Expansion}

=============================================================================
