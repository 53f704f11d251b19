---------------------------- MODULE Orchestrator ----------------------------
(***************************************************************************)
(* The non-agent orchestrator (signals/orchestrator.py): which candidate   *)
(* signals are new, and which play, if any, a nightly pass opens on one    *)
(* account.  Pure operators; TriggerEvaluation supplies what is already    *)
(* open and acts on the answer.                                            *)
(***************************************************************************)
EXTENDS Naturals

\* PlayType in core/enums.py.
PlayTypes == {"onboarding", "decay", "renewal", "expansion"}

NoPlay == "none"

\* Signal types of the account-wide decay triggers: one candidate at most.
AccountDecayTypes == {"decay_volume_ratio_below_085", "decay_zero_campaigns_30d",
                      "decay_commitment_pace_low", "decay_champion_departure"}

\* Signal types of the two decay triggers that return one candidate per
\* affected department.
DepartmentDecayTypes == {"decay_dept_zero_creators",
                         "decay_single_creator_inactive_14d"}

DecayTypes == AccountDecayTypes \cup DepartmentDecayTypes

\* PLAY_FOR_TRIGGER.
PlayForTrigger == [play1_contract_signed     |-> "onboarding",
                   play3_renewal_window      |-> "renewal",
                   play4_expansion_candidate |-> "expansion"]

AllSignalTypes == DecayTypes \cup DOMAIN PlayForTrigger

\* play_for_signal_type: every decay_* type maps to the decay play.
PlayForSignalType(type) ==
    IF type \in DecayTypes THEN "decay" ELSE PlayForTrigger[type]

\* Mutant: PLAY_PRIORITY read from the wrong end.
PlayRank_Reversed == [decay |-> 4, renewal |-> 3, onboarding |-> 2, expansion |-> 1]

\* The position of a play in PLAY_PRIORITY; the lowest one wins.
PlayRank == [decay |-> 1, renewal |-> 2, onboarding |-> 3, expansion |-> 4]

TypesOf(rows) == {row.type : row \in rows}

\* Mutant: an account with any open signal is skipped.
NewSignals_SkipsMarked(candidates, openTypes) ==
    IF openTypes = {} THEN candidates ELSE {}

\* decide, first half: the candidates whose type has no open signal.
NewSignals(candidates, openTypes) ==
    {candidate \in candidates : candidate.type \notin openTypes}

\* Mutant: a play opens whatever is open already.
PlayToOpen_NoOpenCheck(newSignals, hasOpenPlay) ==
    LET plays == {PlayForSignalType(type) : type \in TypesOf(newSignals)}
    IN  IF plays = {} THEN NoPlay
        ELSE CHOOSE play \in plays :
                 \A other \in plays : PlayRank[play] <= PlayRank[other]

\* decide, second half: nothing opens without a new signal or beside an
\* open play; otherwise the best-ranked play among the new signals.
PlayToOpen(newSignals, hasOpenPlay) ==
    LET plays == {PlayForSignalType(type) : type \in TypesOf(newSignals)}
    IN  IF plays = {} \/ hasOpenPlay
        THEN NoPlay
        ELSE CHOOSE play \in plays :
                 \A other \in plays : PlayRank[play] <= PlayRank[other]

=============================================================================
