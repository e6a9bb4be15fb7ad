----------------------------- MODULE MCDispatch -----------------------------
(* Dispatch on small sets; runtimes are told apart by their names alone. *)
EXTENDS Dispatch, TLC

Symmetry == Permutations(Runtimes)
=============================================================================
