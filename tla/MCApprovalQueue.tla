-------------------------- MODULE MCApprovalQueue --------------------------
(* Small instances of ApprovalQueue for TLC. *)
EXTENDS ApprovalQueue, TLC

Rows == Permutations(Ids)

\* Two types that can be promoted, each by approvals of its own category.
Promotable == {"second_creator_seeding", "decay_outreach_creator"}

=============================================================================
