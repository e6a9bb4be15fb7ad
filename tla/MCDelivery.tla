----------------------------- MODULE MCDelivery -----------------------------
(* Delivery of two events, one of which may be refused. *)
EXTENDS Delivery
=============================================================================
