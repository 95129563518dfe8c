----------------------------- MODULE MCPurchases ----------------------------
(* Purchases on a small instance. *)
EXTENDS Purchases, TLC

CONSTANTS p1, p2, w1, w2

TwoPurchases == {p1, p2}
TwoWorkers == {w1, w2}
=============================================================================
