---------------------------- MODULE MCFillLedger ----------------------------
(* FillLedger on small sets; orders are told apart by their names alone. *)
EXTENDS FillLedger, TLC

Symmetry == Permutations(Orders) \cup Permutations(Accounts)
=============================================================================
