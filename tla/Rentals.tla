------------------------------ MODULE Rentals -------------------------------
(***************************************************************************)
(* Bookings of one organization's rental items                             *)
(* (shop/services/booking_services.py, shop/views/item_views.py,           *)
(* transactions/services/transaction_services.py).                         *)
(*                                                                         *)
(* A booking comes from a client, who books online; from a seller, who      *)
(* opens a deal for a client at the counter; or from a checkout, paid on    *)
(* the spot.  None of the three is one database transaction: the booking    *)
(* is committed first, the deal next and, online, the link between the two  *)
(* last, so other requests see the steps in between, and a request that     *)
(* dies leaves them there.                                                  *)
(*                                                                         *)
(* What comes later loads the rows of the booking and of its deal without a *)
(* lock and saves them whole, over whatever was committed meanwhile: req    *)
(* holds what each worker has loaded.  Reads and the commit are steps of    *)
(* their own; the row of its own deal is locked from a payment's first      *)
(* UPDATE on.                                                               *)
(*                                                                         *)
(* The item of a booking does not appear: a payment looks for the open      *)
(* bookings of the organization, whatever their item.                       *)
(***************************************************************************)
EXTENDS Integers

CONSTANTS
  Bookings,    \* primary keys
  NoBooking,   \* a worker serves nobody
  Spans,       \* the times that are asked for: [start, end]
  Cycle,       \* units in the calendar's cycle: minutes of the hour, hours of
               \* the day, ...
  Workers,     \* processes that serve requests
  MaxRequests  \* bound: requests that load rows

ASSUME RentalsAssumption ==
  /\ NoBooking \notin Bookings
  /\ Spans \subseteq [start : Nat, end : Nat]
  /\ Cycle \in Nat \ {0}
  /\ MaxRequests \in Nat

VARIABLES
  booking,   \* rows of shop.Booking
  span,      \* start_time and end_time of the bookings
  deal,      \* the transaction of each booking
  req,       \* what each worker has in hand
  begun,     \* auxiliary: how many requests have begun
  overtaken  \* auxiliary: some request saved rows that were no longer as it
             \* had read them

vars == <<booking, span, deal, req, begun, overtaken>>

-----------------------------------------------------------------------------
(* Rows *)

Sources == {"client", "seller", "checkout"}

Booking == [by : Sources \union {"nobody"},  \* the request that creates it
            is_open : BOOLEAN, is_active : BOOLEAN,
            linked : BOOLEAN]                \* booking.transaction is set

Unbooked == [by |-> "nobody", is_open |-> TRUE, is_active |-> FALSE, linked |-> FALSE]

Deal == [status         : {"absent", "in_progress", "accepted", "rejected"},
         payment_status : {"in_progress", "accepted", "rejected", "refunded"},
         is_processed   : BOOLEAN,
         type           : {"online", "offline"},
         amount         : (2 - Cycle)..Cycle \union {0}]  \* in prices of one unit

NoDeal == [status |-> "absent", payment_status |-> "in_progress",
           is_processed |-> FALSE, type |-> "offline", amount |-> 0]

(* A request in hand: the rows as it has loaded them, of its own booking    *)
(* and, for a payment, of its rivals; which rivals it has yet to look at.   *)
Request == [op : {"none", "accept", "complete", "refund", "reject", "activate", "pay"},
            of : Bookings \union {NoBooking},
            next : {"load", "save"},
            deal : [Bookings -> Deal], booking : [Bookings -> Booking],
            rivals : SUBSET Bookings, unseen : SUBSET Bookings]

NoDeals == [c \in Bookings |-> NoDeal]
NoRows == [c \in Bookings |-> Unbooked]

Idle == [op |-> "none", of |-> NoBooking, next |-> "load",
         deal |-> NoDeals, booking |-> NoRows, rivals |-> {}, unseen |-> {}]

TypeOK ==
  /\ booking \in [Bookings -> Booking]
  /\ span \in [Bookings -> Spans]
  /\ deal \in [Bookings -> Deal]
  /\ req \in [Workers -> Request]
  /\ begun \in 0..MaxRequests
  /\ overtaken \in BOOLEAN

Init ==
  /\ booking = [b \in Bookings |-> Unbooked]
  /\ span \in [Bookings -> Spans]
  /\ deal = [b \in Bookings |-> NoDeal]
  /\ req = [w \in Workers |-> Idle]
  /\ begun = 0
  /\ overtaken = FALSE

-----------------------------------------------------------------------------
(* What the handlers compute *)

Exists(b) == deal[b].status # "absent"

(* Mutant: the last unit is not counted. *)
UnitsShort(s) == (s.end % Cycle) - (s.start % Cycle)

(* The difference of one field of the two dates, plus one: the hours of a  *)
(* rental by the hour, and so on.                                          *)
Units(s) == (s.end % Cycle) - (s.start % Cycle) + 1

(* start_time < other end and end_time > other start *)
Overlap(s, t) == t.start < s.end /\ t.end > s.start

(* Other open bookings for a time that overlaps, with an online deal.       *)
Rivals(b) == {c \in Bookings \ {b} :
                /\ booking[c].is_open /\ booking[c].linked
                /\ deal[c].type = "online"
                /\ Overlap(span[b], span[c])}

-----------------------------------------------------------------------------
(* Booking *)

(* Booking.objects.create, the first commit of each of the three requests. *)
CreateBooking(b, by) ==
  /\ booking[b].by = "nobody"
  /\ booking' = [booking EXCEPT ![b].by = by]
  /\ UNCHANGED <<span, deal, req, begun, overtaken>>

(* create_booking_transaction, the second commit of BookRentalView. *)
CreateDeal(b) ==
  /\ booking[b].by = "client" /\ booking[b].is_open
  /\ ~Exists(b)
  /\ deal' = [deal EXCEPT ![b] = [NoDeal EXCEPT !.status = "in_progress", !.type = "online",
                                                !.amount = Units(span[b])]]
  /\ UNCHANGED <<booking, span, req, begun, overtaken>>

(* process_booking saves the booking: the third commit.  Until then the     *)
(* booking is found by nobody else.                                         *)
LinkDeal(b) ==
  /\ booking[b].by = "client" /\ Exists(b) /\ ~booking[b].linked
  /\ booking' = [booking EXCEPT ![b].linked = TRUE]
  /\ UNCHANGED <<span, deal, req, begun, overtaken>>

(* preprocess_booking_transaction: the seller opens a deal for a client. *)
OpenAtCounter(b) ==
  /\ booking[b].by = "seller" /\ ~Exists(b)
  /\ deal' = [deal EXCEPT ![b] = [NoDeal EXCEPT !.status = "in_progress"]]
  /\ booking' = [booking EXCEPT ![b].linked = TRUE]
  /\ UNCHANGED <<span, req, begun, overtaken>>

(* checkout_booking_for_anonymous_client, create_offline_transaction_from_booking: *)
(* the deal is born paid, whoever else holds the time.                     *)
Checkout(b) ==
  /\ booking[b].by = "checkout" /\ booking[b].is_open /\ ~Exists(b)
  /\ deal' = [deal EXCEPT ![b] = [NoDeal EXCEPT !.status = "accepted", !.is_processed = TRUE,
                                                !.payment_status = "accepted",
                                                !.amount = Units(span[b])]]
  /\ booking' = [booking EXCEPT ![b].linked = TRUE, ![b].is_open = FALSE]
  /\ UNCHANGED <<span, req, begun, overtaken>>

-----------------------------------------------------------------------------
(* The requests load rows and check them *)

(* A request that starts with these two rows of a booking. *)
Started(op, b, next, d, k) ==
  [Idle EXCEPT !.op = op, !.of = b, !.next = next,
               !.deal = [NoDeals EXCEPT ![b] = d], !.booking = [NoRows EXCEPT ![b] = k]]

Begin(w, op, b, next, d, k) ==
  /\ req[w] = Idle /\ begun < MaxRequests
  /\ req' = [req EXCEPT ![w] = Started(op, b, next, d, k)]
  /\ begun' = begun + 1
  /\ UNCHANGED <<booking, span, deal, overtaken>>

(* complete_booking_online_transaction *)
BeginAccept(w, b) ==
  /\ deal[b].status = "in_progress" /\ ~deal[b].is_processed /\ deal[b].type = "online"
  /\ booking[b].linked
  /\ Begin(w, "accept", b, "save", deal[b], Unbooked)

(* complete_booking_transaction gets the booking from the view. *)
BeginComplete(w, b) ==
  /\ Exists(b) /\ booking[b].linked
  /\ Begin(w, "complete", b, "load", NoDeal, booking[b])

(* refund_booking_transaction gets the deal from the view; no status is     *)
(* looked at.                                                               *)
BeginRefund(w, b) == Exists(b) /\ Begin(w, "refund", b, "load", deal[b], Unbooked)

(* reject_booking_transaction_by_user: nor here, not even that the rental   *)
(* is paid.                                                                 *)
BeginReject(w, b) == Exists(b) /\ Begin(w, "reject", b, "save", deal[b], Unbooked)

(* Mutant of BeginActivate: any deal is taken. *)
ActivateAny(w, b) == Exists(b) /\ Begin(w, "activate", b, "load", NoDeal, Unbooked)

(* TransactionActivateSerializer takes deals that are processed. *)
BeginActivate(w, b) ==
  deal[b].is_processed /\ Begin(w, "activate", b, "load", NoDeal, Unbooked)

(* Mutant of BeginPay: a rental that was refunded, or is not agreed, is paid. *)
PayAnything(w, b) ==
  /\ Exists(b) /\ ~deal[b].is_processed
  /\ Begin(w, "pay", b, "load", deal[b], Unbooked)

(* accept_paysy_booking_transaction_by_user and its FreedomPay twin, from  *)
(* the client's request, a webhook or a polling task.                      *)
BeginPay(w, b) ==
  /\ deal[b].status = "accepted" /\ ~deal[b].is_processed
  /\ Begin(w, "pay", b, "load", deal[b], Unbooked)

(* A payment that has saved its own deal makes others wait for that row. *)
Unlocked(w, b) ==
  \A v \in Workers \ {w} : req[v].op = "pay" /\ req[v].next = "save" => req[v].of # b

Loads(w, op) == req[w].op = op /\ req[w].next = "load"

(* The counter's handler loads the deal itself, and checks it; it raises    *)
(* for a price below zero.                                                  *)
LoadDeal(w) ==
  LET b == req[w].of IN
  /\ Loads(w, "complete")
  /\ deal[b].status = "in_progress" /\ ~deal[b].is_processed /\ deal[b].type = "offline"
  /\ Units(span[b]) >= 0
  /\ req' = [req EXCEPT ![w] =
       [req[w] EXCEPT !.deal = [req[w].deal EXCEPT ![b] = deal[b]], !.next = "save"]]
  /\ UNCHANGED <<booking, span, deal, begun, overtaken>>

(* A refund serializes the booking first; an activation checks it. *)
LoadBooking(w) ==
  LET b == req[w].of IN
  /\ Loads(w, "refund") \/ (Loads(w, "activate") /\ ~booking[b].is_active)
  /\ booking[b].linked
  /\ req' = [req EXCEPT ![w] =
       [req[w] EXCEPT !.booking = [req[w].booking EXCEPT ![b] = booking[b]], !.next = "save"]]
  /\ UNCHANGED <<booking, span, deal, begun, overtaken>>

(* A payment saves its deal, loads its booking and finds the rivals'. *)
FindRivals(w) ==
  LET b == req[w].of IN
  /\ Loads(w, "pay") /\ booking[b].linked
  /\ Unlocked(w, b)
  /\ req' = [req EXCEPT ![w] =
       [req[w] EXCEPT !.booking = [c \in Bookings |-> IF c \in Rivals(b) \union {b}
                                                      THEN booking[c] ELSE Unbooked],
                       !.rivals = Rivals(b), !.unseen = Rivals(b), !.next = "save"]]
  /\ UNCHANGED <<booking, span, deal, begun, overtaken>>

(* It loads the deal of one rival after the other, to refund it.            *)
LoadRival(w, c) ==
  /\ c \in req[w].unseen
  /\ req' = [req EXCEPT ![w] =
       [req[w] EXCEPT !.deal = [req[w].deal EXCEPT ![c] = deal[c]],
                      !.unseen = req[w].unseen \ {c}]]
  /\ UNCHANGED <<booking, span, deal, begun, overtaken>>

-----------------------------------------------------------------------------
(* They save what they have in hand *)

(* Everything the request has read is still so. *)
Current(w) ==
  LET r == req[w]  b == r.of IN
  /\ r.op # "activate" => r.deal[b] = deal[b]
  /\ r.op \in {"complete", "refund", "activate", "pay"} => r.booking[b] = booking[b]
  /\ r.op = "pay" =>
       /\ r.rivals = Rivals(b)
       /\ \A c \in r.rivals : r.deal[c] = deal[c] /\ r.booking[c] = booking[c]

Saves(w, op) == req[w].op = op /\ req[w].next = "save"

End(w) ==
  /\ req' = [req EXCEPT ![w] = Idle]
  /\ overtaken' = (overtaken \/ ~Current(w))
  /\ UNCHANGED <<span, begun>>

(* What the handlers make of the rows in hand. *)
Agreed(d, s) == [d EXCEPT !.status = "accepted", !.amount = Units(s)]

Completed(d, s) == [d EXCEPT !.status = "accepted", !.is_processed = TRUE,
                             !.payment_status = "accepted", !.amount = Units(s)]

Paid(d) == [d EXCEPT !.is_processed = TRUE, !.payment_status = "accepted"]

Declined(d) == [d EXCEPT !.payment_status = "rejected"]

(* Mutant of Refunded: the money of a deal that was paid stays with it. *)
RefundedUnmarked(d) == [d EXCEPT !.status = "rejected", !.is_processed = FALSE]

Refunded(d) ==
  [d EXCEPT !.status = "rejected", !.is_processed = FALSE,
            !.payment_status = IF d.payment_status = "accepted" THEN "refunded" ELSE @]

Closed(k) == [k EXCEPT !.is_open = FALSE]

Activated(k) == [k EXCEPT !.is_active = TRUE]

(* complete_booking_online_transaction: the request is accepted, and priced *)
(* again.  The booking stays open.                                          *)
Accept(w) ==
  LET r == req[w]  b == r.of IN
  /\ Saves(w, "accept") /\ Unlocked(w, b)
  /\ deal' = [deal EXCEPT ![b] = Agreed(r.deal[b], span[b])]
  /\ UNCHANGED booking
  /\ End(w)

(* complete_booking_transaction, without discount, card and cashback. *)
Complete(w) ==
  LET r == req[w]  b == r.of IN
  /\ Saves(w, "complete") /\ Unlocked(w, b)
  /\ deal' = [deal EXCEPT ![b] = Completed(r.deal[b], span[b])]
  /\ booking' = [booking EXCEPT ![b] = Closed(r.booking[b])]
  /\ End(w)

(* refund_booking_transaction by the organization *)
Refund(w) ==
  LET r == req[w]  b == r.of IN
  /\ Saves(w, "refund") /\ Unlocked(w, b)
  /\ deal' = [deal EXCEPT ![b] = Refunded(r.deal[b])]
  /\ booking' = [booking EXCEPT ![b] = Closed(r.booking[b])]
  /\ End(w)

(* reject_booking_transaction_by_user: the client will not pay. *)
Reject(w) ==
  LET r == req[w]  b == r.of IN
  /\ Saves(w, "reject") /\ Unlocked(w, b)
  /\ deal' = [deal EXCEPT ![b] = Declined(r.deal[b])]
  /\ UNCHANGED booking
  /\ End(w)

(* activate_rental: the rental begins. *)
Activate(w) ==
  LET r == req[w]  b == r.of IN
  /\ Saves(w, "activate")
  /\ booking' = [booking EXCEPT ![b] = Activated(r.booking[b])]
  /\ UNCHANGED deal
  /\ End(w)

(* The rental is held, and its rivals are refunded in the same database     *)
(* transaction.                                                             *)
Pay(w) ==
  LET r == req[w]  b == r.of IN
  /\ Saves(w, "pay") /\ r.unseen = {}
  /\ \A c \in r.rivals : Unlocked(w, c)
  /\ deal' = [c \in Bookings |-> CASE c = b -> Paid(r.deal[b])
                                   [] c \in r.rivals \ {b} -> Refunded(r.deal[c])
                                   [] OTHER -> deal[c]]
  /\ booking' = [c \in Bookings |-> IF c \in r.rivals \union {b} THEN Closed(r.booking[c])
                                    ELSE booking[c]]
  /\ End(w)

(* A check fails, the database ends one of two that wait for each other, or *)
(* the process dies: nothing is committed.                                  *)
Fail(w) ==
  /\ req[w] # Idle
  /\ req' = [req EXCEPT ![w] = Idle]
  /\ UNCHANGED <<booking, span, deal, begun, overtaken>>

-----------------------------------------------------------------------------
Book(b) ==
  \/ \E by \in Sources : CreateBooking(b, by)
  \/ CreateDeal(b) \/ LinkDeal(b) \/ OpenAtCounter(b) \/ Checkout(b)

Load(w) ==
  \/ \E b \in Bookings :
       \/ BeginAccept(w, b) \/ BeginComplete(w, b) \/ BeginRefund(w, b)
       \/ BeginReject(w, b) \/ BeginActivate(w, b) \/ BeginPay(w, b)
       \/ LoadRival(w, b)
  \/ LoadDeal(w) \/ LoadBooking(w) \/ FindRivals(w)

Save(w) == Accept(w) \/ Complete(w) \/ Refund(w) \/ Reject(w) \/ Activate(w) \/ Pay(w)

Next ==
  \/ \E b \in Bookings : Book(b)
  \/ \E w \in Workers : Load(w) \/ Save(w) \/ Fail(w)

Spec == Init /\ [][Next]_vars

-----------------------------------------------------------------------------
(* Properties *)

(* TypeOK bounds the price as well: no rental costs more than one cycle of *)
(* its calendar, and one that crosses into the next may cost less than     *)
(* nothing.                                                                *)

(* However stale the rows that are saved, a rental that is paid for, turned *)
(* away or begun never has an open booking: payments look for rivals by     *)
(* is_open, and would turn away who has paid.  (A closed booking may well   *)
(* have a deal that waits to be paid, once a request was overtaken.)        *)
SettledIsClosed ==
  \A b \in Bookings :
    deal[b].is_processed \/ deal[b].status = "rejected" \/ booking[b].is_active =>
      ~booking[b].is_open

(* A paid rental ceases to be so only when its money is marked as refunded, *)
(* except when the client has rejected the payment he had made, or when a   *)
(* request was overtaken by another.                                        *)
PaidUntilRefunded ==
  [][\A b \in Bookings :
       deal[b].is_processed /\ ~deal'[b].is_processed =>
         \/ deal'[b].status = "rejected" /\ deal'[b].payment_status = "refunded"
         \/ deal[b].payment_status = "rejected"
         \/ overtaken']_vars

(* The price is that of start..end, both included, up to whole cycles of   *)
(* the calendar: a rental from 23:00 to 01:00 costs 24 hours less.         *)
PricedUpToCycles ==
  \A b \in Bookings :
    deal[b].amount # 0 =>
      (deal[b].amount - (span[b].end - span[b].start + 1)) % Cycle = 0

(* How far a booking has come.  Only an online deal asks for its time and   *)
(* can be turned away by a payment; a deal at the counter promises nothing  *)
(* before it is completed.                                                  *)
Stage(b) ==
  IF ~Exists(b) \/ ~booking[b].linked THEN "none"
  ELSE IF deal[b].status = "rejected" THEN "gone"
  ELSE IF deal[b].is_processed THEN "held"
  ELSE IF deal[b].type = "offline" THEN "none"
  ELSE IF deal[b].status = "accepted" THEN "agreed"
  ELSE "asked"

Stages == [b \in Bookings |-> Stage(b)]

Calendar == INSTANCE RentalCalendar WITH stage <- Stages

(* Until a request saves rows that another has changed since it read them,  *)
(* every step is a step of the calendar, or none of its business: a rental  *)
(* is held by paying what was agreed, the payment turns away all who ask    *)
(* for the same time, and who was turned away stays so, whatever arrives    *)
(* late.                                                                    *)
ImplementsCalendar ==
  /\ Calendar!Init
  /\ [][UNCHANGED <<booking, deal, span>> \/ overtaken' \/ Calendar!Next]_<<Stages, span>>
=============================================================================
