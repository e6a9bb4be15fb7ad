---------------------------- MODULE MCCashOrders ----------------------------
(* Two orders of the same terms, written by two tasks of one or two processes. *)
EXTENDS CashOrders, TLC

Alike == Permutations(Orders) \cup Permutations(Workers)
=============================================================================
