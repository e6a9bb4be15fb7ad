------------------------------- MODULE Totals -------------------------------
(* What the ledgers' rows add up to. *)
EXTENDS Integers, FiniteSetsExt

(* The sum of what g gives for every element of its domain. *)
Total(g) == MapThenSumSet(LAMBDA x : g[x], DOMAIN g)
=============================================================================
