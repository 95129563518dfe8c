--------------------------- MODULE RentalCalendar ---------------------------
(***************************************************************************)
(* What the bookings of an organization promise to its clients: a request  *)
(* becomes an agreed rental, then one that holds its time, and whoever      *)
(* pays first turns away the requests for an overlapping time.  A request   *)
(* that was turned away never comes back.                                   *)
(***************************************************************************)
EXTENDS Integers

CONSTANTS Bookings, Spans, Overlap(_, _)

VARIABLES
  stage,  \* how far each booking has come
  span    \* the time it asks for

Stages == {"none", "asked", "agreed", "held", "gone"}

Init ==
  /\ stage = [b \in Bookings |-> "none"]
  /\ span \in [Bookings -> Spans]

(* A client asks for some time, or walks in and holds it at once: nobody    *)
(* is turned away by that.                                                  *)
Ask(b) ==
  /\ stage[b] = "none"
  /\ stage' = [stage EXCEPT ![b] = "asked"]
  /\ UNCHANGED span

WalkIn(b) ==
  /\ stage[b] = "none"
  /\ stage' = [stage EXCEPT ![b] = "held"]
  /\ UNCHANGED span

Agree(b) ==
  /\ stage[b] = "asked"
  /\ stage' = [stage EXCEPT ![b] = "agreed"]
  /\ UNCHANGED span

(* The client pays an agreed rental: the others who want the time go. *)
Hold(b) ==
  /\ stage[b] = "agreed"
  /\ stage' = [c \in Bookings |->
       CASE c = b -> "held"
         [] c # b /\ stage[c] \in {"asked", "agreed"} /\ Overlap(span[b], span[c]) -> "gone"
         [] OTHER -> stage[c]]
  /\ UNCHANGED span

(* The organization takes a rental back, whatever its stage. *)
Drop(b) ==
  /\ stage[b] # "gone"
  /\ stage' = [stage EXCEPT ![b] = "gone"]
  /\ UNCHANGED span

Next == \E b \in Bookings : Ask(b) \/ WalkIn(b) \/ Agree(b) \/ Hold(b) \/ Drop(b)

Spec == Init /\ [][Next]_<<stage, span>>
=============================================================================
