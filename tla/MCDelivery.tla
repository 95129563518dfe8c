----------------------------- MODULE MCDelivery -----------------------------
(* Delivery on a small instance: two services and three requests at a time.  *)
(* Requests about different orders touch different rows: one order is enough. *)
EXTENDS Delivery, TLC

CONSTANTS o1, s1, s2, w1, w2, w3

OneOrder == {o1}
TwoServices == {s1, s2}
ThreeWorkers == {w1, w2, w3}

Symmetry ==
  Permutations(TwoServices) \union Permutations(ThreeWorkers)
=============================================================================
