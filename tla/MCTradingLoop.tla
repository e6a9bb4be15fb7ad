--------------------------- MODULE MCTradingLoop ---------------------------
(* The trading loop on two entries, or one. *)
EXTENDS TradingLoop
=============================================================================
