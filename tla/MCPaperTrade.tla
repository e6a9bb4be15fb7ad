---------------------------- MODULE MCPaperTrade ----------------------------
(* The paper trade on three prices and three bars of two moments. *)
EXTENDS PaperTrade

MCFractions == [g \in {"NORMAL", "A"} |-> IF g = "A" THEN 2 ELSE 1]
=============================================================================
