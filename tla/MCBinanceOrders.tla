-------------------------- MODULE MCBinanceOrders --------------------------
(* One position, one move of its stop and one restart. *)
EXTENDS BinanceOrders
=============================================================================
