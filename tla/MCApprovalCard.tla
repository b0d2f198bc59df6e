--------------------------- MODULE MCApprovalCard ---------------------------
(* Instances of ApprovalCard for TLC. *)
EXTENDS ApprovalCard, TLC

CONSTANTS c1, c2, f1, f2

Symm == Permutations(Commands) \cup Permutations(Flows)
=============================================================================
