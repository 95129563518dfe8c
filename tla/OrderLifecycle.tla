--------------------------- MODULE OrderLifecycle ---------------------------
(***************************************************************************)
(* What the shop promises of every order, whatever the handlers that keep  *)
(* the promise: it is placed, accepted by the seller and paid, in one step *)
(* or in two, and once refunded it stays so.                               *)
(***************************************************************************)
CONSTANT Orders
VARIABLE stage

Stages == {"none", "placed", "accepted", "paid", "rejected"}

TypeOK == stage \in [Orders -> Stages]

Init == stage = [o \in Orders |-> "none"]

Move(o, from, to) ==
  /\ stage[o] \in from
  /\ stage' = [stage EXCEPT ![o] = to]

Place(o)  == Move(o, {"none"}, "placed")            \* the client checks out
Sell(o)   == Move(o, {"none", "placed"}, "paid")    \* sold or accepted, paid by hand
Accept(o) == Move(o, {"placed"}, "accepted")        \* accepted, payment asked for
Pay(o)    == Move(o, {"accepted"}, "paid")          \* the client pays
Refund(o) == Move(o, {"placed", "accepted", "paid"}, "rejected")

Next == \E o \in Orders : Place(o) \/ Sell(o) \/ Accept(o) \/ Pay(o) \/ Refund(o)

Spec == Init /\ [][Next]_stage
=============================================================================
