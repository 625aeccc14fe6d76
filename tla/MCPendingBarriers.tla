--------------------------- MODULE MCPendingBarriers ---------------------------
(* Instances of PendingBarriers for TLC. *)
EXTENDS PendingBarriers, TLC

IdSymmetry == Permutations(Ids) \cup Permutations(Variants)
=============================================================================
