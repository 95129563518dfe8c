------------------------------ MODULE MCOrders ------------------------------
(* Orders on small instances. *)
EXTENDS Orders, TLC

CONSTANTS c1, c2, t1, t2, w1, w2

OneCart  == {c1}
TwoCarts == {c1, c2}
OneTxn  == {t1}
TwoTxns  == {t1, t2}
OneWorker  == {w1}
TwoWorkers == {w1, w2}
TwoDeliveries == {"self_pickup", "online_payment"}
OneLimit == {1}
HighLimit == {2}

(* Carts, orders and workers are interchangeable. *)
Symmetry == Permutations(TwoCarts) \union Permutations(TwoTxns)
              \union Permutations(TwoWorkers)
=============================================================================
