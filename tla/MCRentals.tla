----------------------------- MODULE MCRentals ------------------------------
(* Rentals on a small instance: bookings for the same time, for times that  *)
(* only touch, and for one that crosses midnight.                           *)
EXTENDS Rentals, TLC

CONSTANTS b1, b2, b3, w1, w2

ThreeBookings == {b1, b2, b3}
TwoWorkers == {w1, w2}

(* Hours of a calendar of three-hour days. *)
FewSpans == {[start |-> 0, end |-> 2], [start |-> 2, end |-> 3]}

Symmetry == Permutations(ThreeBookings) \union Permutations(TwoWorkers)
=============================================================================
