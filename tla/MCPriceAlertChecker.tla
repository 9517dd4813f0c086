------------------------- MODULE MCPriceAlertChecker -------------------------
(* Small instances of PriceAlertChecker for TLC. *)
EXTENDS PriceAlertChecker, TLC

CONSTANTS u1, u2, a1, a2, btc, btc_usd, t1

ExactColumn == [p \in Price |-> p]
==============================================================================
