----------------------------- MODULE MCCashback -----------------------------
(* Cashback on small instances. *)
EXTENDS Cashback, TLC

CONSTANTS o1, o2, o3, d1, d2, d3, w1, w2

OneOrg == {o1}
TwoOrgs == {o1, o2}
ThreeOrgs == {o1, o2, o3}
OneDeal == {d1}
TwoDeals == {d1, d2}
ThreeDeals == {d1, d2, d3}
OneWorker == {w1}
TwoWorkers == {w1, w2}
Direct == {"direct"}
DirectRefunded == {"direct", "refund"}
ByHand == {"direct", "cashier", "offline", "refund"}
Deferred == {"cashier", "gateway"}
AllChannels == {"direct", "cashier", "offline", "gateway", "refund"}
OnlyOne == {1}
OnlyTwo == {2}

(* Organizations, deals and workers are interchangeable. *)
Symmetry == Permutations(ThreeOrgs) \union Permutations(ThreeDeals)
              \union Permutations(TwoWorkers)
=============================================================================
