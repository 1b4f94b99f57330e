---------------------------- MODULE MCApprovals ----------------------------
(***************************************************************************)
(* Instances of Approvals for TLC.                                         *)
(***************************************************************************)
EXTENDS Approvals, TLC

Symmetry ==
    Permutations(Approval) \cup Permutations(Operator) \cup Permutations(Builder)
        \cup Permutations(Consumer)

=============================================================================
