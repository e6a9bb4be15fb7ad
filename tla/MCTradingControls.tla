------------------------- MODULE MCTradingControls -------------------------
(* TradingControls on small sets.  Commands, approvals, writers and policies *)
(* are told apart by nothing but their names.                                *)
EXTENDS TradingControls, TLC

Symmetry == Permutations(Commands) \cup Permutations(ApprovalIds)
            \cup Permutations(Writers) \cup Permutations(Policies)
=============================================================================
