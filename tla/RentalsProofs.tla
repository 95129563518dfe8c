--------------------------- MODULE RentalsProofs ----------------------------
(***************************************************************************)
(* Rentals proved for any number of bookings and workers, any times and    *)
(* any cycle of the calendar: what is settled is closed however stale the   *)
(* rows that are saved, and until a request is overtaken a paid rental is   *)
(* given up only against a refund and every step is one of RentalCalendar.  *)
(***************************************************************************)
EXTENDS Rentals, TLAPS

-----------------------------------------------------------------------------
(* The inductive invariant.  A row that a request saves was some time in    *)
(* the table, so whatever holds of every row holds of the rows in hand; and *)
(* what they say of their booking stays so, because bookings are never      *)
(* reopened and links never removed.                                        *)

Settled(d) == d.is_processed \/ d.status = "rejected"

Opened(d) == d.status = "in_progress" /\ ~d.is_processed /\ d.type = "online"

(* A deal, in its table or in hand, for a booking that asks for the time s. *)
Sound(d, s) ==
  /\ d.is_processed => d.status = "accepted" /\ d.payment_status \in {"accepted", "rejected"}
  /\ d.status = "accepted" /\ ~d.is_processed => d.type = "online"
  /\ d.payment_status = "accepted" => d.is_processed
  /\ d.amount \in {0, Units(s)}

(* The two rows of a booking.  A closed booking whose deal is not settled    *)
(* is what a request leaves that was overtaken.                             *)
Agree(k, d, late) ==
  /\ Settled(d) \/ k.is_active => ~k.is_open
  /\ ~k.is_open => Settled(d) \/ late
  /\ d.status = "absent" => d = NoDeal /\ ~k.linked
  /\ ~k.linked => k.is_open
  /\ d.status # "absent" /\ ~k.linked => Opened(d)

(* A deal in hand, and its booking as it is now. *)
Remembered(d, k, s) ==
  /\ Sound(d, s)
  /\ Settled(d) => ~k.is_open
  /\ d.status # "absent" /\ ~k.linked => Opened(d)

(* What the requests have checked before they come to save. *)
Checked(r, bk) ==
  LET d == r.deal[r.of]  k == r.booking[r.of]  saving == r.next = "save" IN
  /\ r.op = "accept" => Opened(d) /\ bk[r.of].linked
  /\ r.op = "complete" =>
       /\ k.linked
       /\ saving => d.status = "in_progress" /\ ~d.is_processed /\ d.type = "offline"
  /\ r.op = "refund" => d.status # "absent" /\ (saving => k.linked)
  /\ r.op = "reject" => d.status # "absent"
  /\ r.op = "activate" => ~bk[r.of].is_open /\ (saving => k.linked /\ ~k.is_open)
  /\ r.op = "pay" =>
       /\ d.status = "accepted" /\ ~d.is_processed
       /\ saving => k.linked
  /\ r.unseen # {} => r.op = "pay" /\ saving

ChecksRivals(r) ==
  /\ r.of \notin r.rivals /\ r.unseen \subseteq r.rivals
  /\ \A c \in r.rivals :
       /\ r.booking[c].linked
       /\ c \notin r.unseen => r.deal[c].status # "absent"

Hand(r, bk, sp) ==
  /\ r.op # "none" => r.of \in Bookings
  /\ \A c \in Bookings :
       /\ Remembered(r.deal[c], bk[c], sp[c])
       /\ r.booking[c].linked => bk[c].linked
  /\ Checked(r, bk)
  /\ ChecksRivals(r)

Inv ==
  /\ TypeOK
  /\ \A b \in Bookings : Agree(booking[b], deal[b], overtaken) /\ Sound(deal[b], span[b])
  /\ \A w \in Workers : Hand(req[w], booking, span)

-----------------------------------------------------------------------------
(* Prices *)

LEMMA RemainderRange ==
  ASSUME NEW n \in Nat, NEW c \in Nat \ {0}
  PROVE  n % c \in 0..(c - 1)
  OBVIOUS

(* A rental costs what a cycle of its calendar costs at the most, and may   *)
(* cost less than nothing.                                                  *)
LEMMA UnitsRange ==
  ASSUME NEW s \in Spans
  PROVE  Units(s) \in (2 - Cycle)..Cycle
  <1>1. s.start \in Nat /\ s.end \in Nat /\ Cycle \in Nat \ {0}
    BY RentalsAssumption
  <1>2. s.start % Cycle \in 0..(Cycle - 1) /\ s.end % Cycle \in 0..(Cycle - 1)
    BY <1>1, RemainderRange
  <1> DEFINE p == s.start % Cycle
             q == s.end % Cycle
  <1>3. p \in 0..(Cycle - 1) /\ q \in 0..(Cycle - 1) /\ Units(s) = q - p + 1
    BY <1>2 DEF Units
  <1> HIDE DEF p, q
  <1> QED BY <1>1, <1>3

LEMMA Quotient ==
  ASSUME NEW n \in Nat, NEW c \in Nat \ {0}
  PROVE  n = c * (n \div c) + (n % c) /\ n \div c \in Int
  OBVIOUS

LEMMA MultipleOfCycle ==
  ASSUME NEW k \in Int, NEW c \in Nat \ {0}
  PROVE  (c * k) % c = 0
  OBVIOUS

(* The difference of two remainders is that of the times, up to cycles.    *)
LEMMA RemaindersDiffer ==
  ASSUME NEW m \in Nat, NEW n \in Nat, NEW c \in Nat \ {0}
  PROVE  (((n % c) - (m % c) + 1) - (n - m + 1)) % c = 0
  <1> DEFINE p == n % c
             q == m % c
             x == n \div c
             y == m \div c
  <1>1. n = c * x + p /\ m = c * y + q /\ x \in Int /\ y \in Int BY Quotient
  <1>2. p \in Int /\ q \in Int OBVIOUS
  <1> HIDE DEF p, q, x, y
  <1>3. (p - q + 1) - (n - m + 1) = c * (y - x)
    <2>1. c * (y - x) = c * y - c * x BY <1>1
    <2>2. c * x \in Int /\ c * y \in Int BY <1>1
    <2> QED BY <1>1, <1>2, <2>1, <2>2
  <1>4. y - x \in Int BY <1>1
  <1>5. ((p - q + 1) - (n - m + 1)) % c = 0 BY <1>3, <1>4, MultipleOfCycle
  <1> QED BY <1>5 DEF p, q

LEMMA UnitsPriced ==
  ASSUME NEW s \in Spans
  PROVE  (Units(s) - (s.end - s.start + 1)) % Cycle = 0
  <1>1. s.start \in Nat /\ s.end \in Nat /\ Cycle \in Nat \ {0}
    BY RentalsAssumption
  <1> QED BY <1>1, RemaindersDiffer DEF Units

-----------------------------------------------------------------------------
(* Rows *)

LEMMA BlankRows ==
  /\ NoDeal \in Deal /\ Unbooked \in Booking
  /\ NoDeals \in [Bookings -> Deal] /\ NoRows \in [Bookings -> Booking]
  /\ \A b \in Bookings : NoDeals[b] = NoDeal /\ NoRows[b] = Unbooked
  /\ NoDeal.status = "absent" /\ ~NoDeal.is_processed /\ NoDeal.amount = 0
  /\ NoDeal.payment_status = "in_progress"
  /\ Unbooked.by = "nobody" /\ Unbooked.is_open /\ ~Unbooked.is_active /\ ~Unbooked.linked
  /\ \A s, k : Remembered(NoDeal, k, s)
  /\ \A late : Agree(Unbooked, NoDeal, late)
  <1>1. Cycle \in Nat \ {0} BY RentalsAssumption
  <1>2. 0 \in (2 - Cycle)..Cycle \union {0} OBVIOUS
  <1> QED
    BY <1>1, <1>2 DEF NoDeal, Deal, Unbooked, Booking, Sources, NoDeals, NoRows, Remembered,
       Sound, Settled, Agree

LEMMA AmountOfUnits ==
  ASSUME NEW s \in Spans
  PROVE  Units(s) \in (2 - Cycle)..Cycle \union {0}
  BY UnitsRange

LEMMA AgreedRow ==
  ASSUME NEW d \in Deal, NEW s \in Spans
  PROVE  /\ Agreed(d, s) \in Deal
         /\ Agreed(d, s).status = "accepted" /\ Agreed(d, s).is_processed = d.is_processed
         /\ Agreed(d, s).payment_status = d.payment_status
         /\ Agreed(d, s).type = d.type /\ Agreed(d, s).amount = Units(s)
  <1>1. Units(s) \in (2 - Cycle)..Cycle \union {0} BY AmountOfUnits
  <1> DEFINE u == Units(s)
  <1> HIDE DEF u
  <1>2. Agreed(d, s) = [d EXCEPT !.status = "accepted", !.amount = u] BY DEF Agreed, u
  <1>3. u \in (2 - Cycle)..Cycle \union {0} BY <1>1 DEF u
  <1>4. [d EXCEPT !.status = "accepted", !.amount = u].amount = u BY DEF Deal
  <1> QED BY <1>2, <1>3, <1>4 DEF Deal, u

LEMMA CompletedRow ==
  ASSUME NEW d \in Deal, NEW s \in Spans
  PROVE  /\ Completed(d, s) \in Deal
         /\ Completed(d, s).status = "accepted" /\ Completed(d, s).is_processed
         /\ Completed(d, s).payment_status = "accepted"
         /\ Completed(d, s).type = d.type /\ Completed(d, s).amount = Units(s)
  <1> DEFINE u == Units(s)
  <1>1. u \in (2 - Cycle)..Cycle \union {0} BY AmountOfUnits
  <1> HIDE DEF u
  <1>2. Completed(d, s) = [d EXCEPT !.status = "accepted", !.is_processed = TRUE,
                                    !.payment_status = "accepted", !.amount = u]
    BY DEF Completed, u
  <1> QED BY <1>1, <1>2 DEF Deal, u

LEMMA PaidRow ==
  ASSUME NEW d \in Deal
  PROVE  /\ Paid(d) \in Deal
         /\ Paid(d).status = d.status /\ Paid(d).is_processed
         /\ Paid(d).payment_status = "accepted"
         /\ Paid(d).type = d.type /\ Paid(d).amount = d.amount
  BY DEF Paid, Deal

LEMMA DeclinedRow ==
  ASSUME NEW d \in Deal
  PROVE  /\ Declined(d) \in Deal
         /\ Declined(d).status = d.status /\ Declined(d).is_processed = d.is_processed
         /\ Declined(d).payment_status = "rejected"
         /\ Declined(d).type = d.type /\ Declined(d).amount = d.amount
  BY DEF Declined, Deal

LEMMA RefundedRow ==
  ASSUME NEW d \in Deal
  PROVE  /\ Refunded(d) \in Deal
         /\ Refunded(d).status = "rejected" /\ ~Refunded(d).is_processed
         /\ Refunded(d).payment_status =
              IF d.payment_status = "accepted" THEN "refunded" ELSE d.payment_status
         /\ Refunded(d).type = d.type /\ Refunded(d).amount = d.amount
  BY DEF Refunded, Deal

LEMMA BookingRows ==
  ASSUME NEW k \in Booking
  PROVE  /\ Closed(k) \in Booking /\ ~Closed(k).is_open /\ Closed(k).linked = k.linked
         /\ Closed(k).is_active = k.is_active
         /\ Activated(k) \in Booking /\ Activated(k).is_active
         /\ Activated(k).linked = k.linked /\ Activated(k).is_open = k.is_open
  BY DEF Closed, Activated, Booking

(* The four columns of a deal that the refinement looks at follow from the  *)
(* handlers' operators, and so do the checks on the pair of rows.           *)
LEMMA SavedSound ==
  ASSUME NEW d \in Deal, NEW s \in Spans, Sound(d, s)
  PROVE  /\ Opened(d) => Sound(Agreed(d, s), s)
         /\ Sound(Completed(d, s), s)
         /\ d.status = "accepted" => Sound(Paid(d), s)
         /\ Sound(Declined(d), s)
         /\ Sound(Refunded(d), s)
  <1> DEFINE u == Units(s)
  <1> HIDE DEF u
  <1>1. Opened(d) => Sound(Agreed(d, s), s)
    BY AgreedRow DEF Sound, Opened
  <1>2. Sound(Completed(d, s), s) BY CompletedRow DEF Sound
  <1>3. d.status = "accepted" => Sound(Paid(d), s) BY PaidRow DEF Sound
  <1>4. Sound(Declined(d), s) BY DeclinedRow DEF Sound
  <1>5. Sound(Refunded(d), s) BY RefundedRow DEF Sound
  <1> QED BY <1>1, <1>2, <1>3, <1>4, <1>5

-----------------------------------------------------------------------------
(* Every step keeps the invariant. *)

LEMMA Types ==
  ASSUME Inv, NEW b \in Bookings
  PROVE  /\ booking[b] \in Booking /\ deal[b] \in Deal /\ span[b] \in Spans
         /\ Agree(booking[b], deal[b], overtaken) /\ Sound(deal[b], span[b])
  BY DEF Inv, TypeOK

LEMMA HandTypes ==
  ASSUME Inv, NEW w \in Workers
  PROVE  /\ req[w] \in Request
         /\ req[w].deal \in [Bookings -> Deal] /\ req[w].booking \in [Bookings -> Booking]
         /\ req[w].rivals \subseteq Bookings /\ req[w].unseen \subseteq Bookings
         /\ Hand(req[w], booking, span)
  BY DEF Inv, TypeOK, Request

LEMMA IdleHand ==
  ASSUME NEW bk, NEW sp
  PROVE  Idle \in Request /\ Hand(Idle, bk, sp)
  <1>1. Idle \in Request BY BlankRows DEF Idle, Request
  <1>2. Idle.op = "none" /\ Idle.unseen = {} /\ Idle.rivals = {} /\ Idle.of = NoBooking
        /\ Idle.deal = NoDeals /\ Idle.booking = NoRows
    BY DEF Idle
  <1>3. Checked(Idle, bk) BY <1>2 DEF Checked
  <1>4. ChecksRivals(Idle) BY <1>2 DEF ChecksRivals
  <1>5. ASSUME NEW c \in Bookings
        PROVE  Remembered(Idle.deal[c], bk[c], sp[c]) /\ (Idle.booking[c].linked => bk[c].linked)
    BY <1>2, BlankRows
  <1> QED BY <1>1, <1>2, <1>3, <1>4, <1>5 DEF Hand

(* What a request knows of its bookings survives what others save. *)
LEMMA HandKept ==
  ASSUME NEW r \in Request, NEW bk, NEW bk2, NEW sp,
         Hand(r, bk, sp),
         \A c \in Bookings : /\ bk2[c].is_open => bk[c].is_open
                             /\ bk[c].linked => bk2[c].linked
  PROVE  Hand(r, bk2, sp)
  <1>1. r.op # "none" => r.of \in Bookings BY DEF Hand
  <1>2. ASSUME NEW c \in Bookings
        PROVE  /\ Remembered(r.deal[c], bk2[c], sp[c])
               /\ r.booking[c].linked => bk2[c].linked
    BY DEF Hand, Remembered
  <1>3. Checked(r, bk2)
    BY <1>1 DEF Hand, Checked
  <1>4. ChecksRivals(r) BY DEF Hand
  <1> QED BY <1>1, <1>2, <1>3, <1>4 DEF Hand

(* It is enough to look at each pair of rows and at the requests that move. *)
LEMMA RowsKeepInv ==
  ASSUME Inv,
         booking' = [b \in Bookings |-> booking'[b]],
         deal' = [b \in Bookings |-> deal'[b]],
         UNCHANGED span,
         begun' \in 0..MaxRequests, overtaken' \in BOOLEAN,
         req' = [w \in Workers |-> req'[w]],
         \A w \in Workers :
           \/ req'[w] = req[w]
           \/ req'[w] \in Request /\ Hand(req'[w], booking, span),
         \A b \in Bookings :
           /\ booking'[b] \in Booking /\ deal'[b] \in Deal
           /\ Agree(booking'[b], deal'[b], overtaken')
           /\ Sound(deal'[b], span[b])
           /\ booking'[b].is_open => booking[b].is_open
           /\ booking[b].linked => booking'[b].linked
  PROVE  Inv'
  <1>1. \A w \in Workers : req'[w] \in Request /\ Hand(req'[w], booking, span)
    BY HandTypes
  <1>2. TypeOK'
    <2>1. booking' \in [Bookings -> Booking] /\ deal' \in [Bookings -> Deal]
          /\ span' \in [Bookings -> Spans] /\ req' \in [Workers -> Request]
      BY <1>1 DEF Inv, TypeOK
    <2> QED BY <2>1 DEF TypeOK
  <1>3. ASSUME NEW w \in Workers PROVE Hand(req'[w], booking', span')
    BY <1>1, HandKept
  <1> QED BY <1>2, <1>3 DEF Inv

(* The same for steps that write the rows of one booking and leave the      *)
(* requests alone.                                                          *)
LEMMA BookKeeps ==
  ASSUME Inv, NEW b \in Bookings, NEW k \in Booking, NEW d \in Deal,
         booking' = [booking EXCEPT ![b] = k],
         deal' = [deal EXCEPT ![b] = d],
         UNCHANGED <<span, req, begun, overtaken>>,
         Agree(k, d, overtaken), Sound(d, span[b]),
         k.is_open => booking[b].is_open,
         booking[b].linked => k.linked
  PROVE  Inv'
  <1>1. /\ booking \in [Bookings -> Booking] /\ deal \in [Bookings -> Deal]
        /\ req \in [Workers -> Request] /\ begun \in 0..MaxRequests /\ overtaken \in BOOLEAN
    BY DEF Inv, TypeOK
  <1>2. /\ booking' = [c \in Bookings |-> booking'[c]]
        /\ deal' = [c \in Bookings |-> deal'[c]]
        /\ req' = [w \in Workers |-> req'[w]]
    BY <1>1
  <1>3. ASSUME NEW c \in Bookings
        PROVE  /\ booking'[c] \in Booking /\ deal'[c] \in Deal
               /\ Agree(booking'[c], deal'[c], overtaken')
               /\ Sound(deal'[c], span[c])
               /\ booking'[c].is_open => booking[c].is_open
               /\ booking[c].linked => booking'[c].linked
    <2>1. CASE c = b
      <3>1. booking'[c] = k /\ deal'[c] = d BY <1>1, <2>1
      <3> QED BY <2>1, <3>1
    <2>2. CASE c # b
      <3>1. booking'[c] = booking[c] /\ deal'[c] = deal[c] BY <1>1, <2>2
      <3> QED BY <3>1, Types
    <2> QED BY <2>1, <2>2
  <1> QED BY <1>1, <1>2, <1>3, RowsKeepInv

(* How far a booking has come, and a step of one booking along the calendar. *)
StageOf(k, d) ==
  IF d.status = "absent" \/ ~k.linked THEN "none"
  ELSE IF d.status = "rejected" THEN "gone"
  ELSE IF d.is_processed THEN "held"
  ELSE IF d.type = "offline" THEN "none"
  ELSE IF d.status = "accepted" THEN "agreed"
  ELSE "asked"

Onward(s, t) ==
  \/ t = s
  \/ s = "none" /\ t \in {"asked", "held"}
  \/ s = "asked" /\ t = "agreed"
  \/ t = "gone"

(* What the commits that make a booking do to its rows. *)
Booked(b) ==
  \E k \in Booking, d \in Deal :
    /\ booking' = [booking EXCEPT ![b] = k]
    /\ deal' = [deal EXCEPT ![b] = d]
    /\ UNCHANGED <<span, req, begun, overtaken>>
    /\ Agree(k, d, overtaken) /\ Sound(d, span[b])
    /\ k.is_open => booking[b].is_open
    /\ booking[b].linked => k.linked
    /\ d = deal[b] \/ deal[b] = NoDeal
    /\ Onward(StageOf(booking[b], deal[b]), StageOf(k, d))

LEMMA BookingSteps ==
  ASSUME Inv, NEW b \in Bookings, Book(b)
  PROVE  Booked(b)
  <1>1. /\ booking[b] \in Booking /\ deal[b] \in Deal /\ span[b] \in Spans
        /\ Agree(booking[b], deal[b], overtaken) /\ Sound(deal[b], span[b])
    BY Types
  <1>2. booking \in [Bookings -> Booking] /\ deal \in [Bookings -> Deal]
    BY DEF Inv, TypeOK
  <1>3. ASSUME NEW by \in Sources, CreateBooking(b, by) PROVE Booked(b)
    <2> DEFINE k == [booking[b] EXCEPT !.by = by]
    <2>1. k \in Booking /\ k.is_open = booking[b].is_open /\ k.linked = booking[b].linked
          /\ k.is_active = booking[b].is_active
      BY <1>1 DEF Booking
    <2>2. booking' = [booking EXCEPT ![b] = k] /\ deal' = [deal EXCEPT ![b] = deal[b]]
          /\ UNCHANGED <<span, req, begun, overtaken>>
      BY <1>2, <1>3 DEF CreateBooking
    <2> HIDE DEF k
    <2>3. Agree(k, deal[b], overtaken) BY <1>1, <2>1 DEF Agree
    <2>4. Onward(StageOf(booking[b], deal[b]), StageOf(k, deal[b]))
      BY <2>1 DEF Onward, StageOf
    <2> QED BY <1>1, <2>1, <2>2, <2>3, <2>4 DEF Booked
  <1>4. CASE CreateDeal(b)
    <2> DEFINE u == Units(span[b])
               d == [NoDeal EXCEPT !.status = "in_progress", !.type = "online", !.amount = u]
    <2>1. u \in (2 - Cycle)..Cycle \union {0} BY <1>1, AmountOfUnits
    <2>2. booking' = [booking EXCEPT ![b] = booking[b]] /\ deal' = [deal EXCEPT ![b] = d]
          /\ UNCHANGED <<span, req, begun, overtaken>>
          /\ deal[b].status = "absent" /\ booking[b].is_open
      BY <1>2, <1>4 DEF CreateDeal, Exists
    <2>3. deal[b] = NoDeal /\ ~booking[b].linked BY <1>1, <2>2 DEF Agree
    <2> HIDE DEF u
    <2>4. /\ d \in Deal /\ d.amount = u /\ d.status = "in_progress" /\ ~d.is_processed
          /\ d.type = "online" /\ d.payment_status = "in_progress"
      BY <2>1, BlankRows DEF Deal, NoDeal
    <2> HIDE DEF d
    <2>5. Sound(d, span[b]) BY <2>4 DEF Sound, u
    <2>6. Agree(booking[b], d, overtaken)
      BY <1>1, <2>2, <2>3, <2>4 DEF Agree, Settled, Opened
    <2>7. Onward(StageOf(booking[b], deal[b]), StageOf(booking[b], d))
      BY <2>2, <2>3 DEF Onward, StageOf
    <2> QED BY <1>1, <2>2, <2>3, <2>4, <2>5, <2>6, <2>7 DEF Booked
  <1>5. CASE LinkDeal(b)
    <2> DEFINE k == [booking[b] EXCEPT !.linked = TRUE]
    <2>1. k \in Booking /\ k.is_open = booking[b].is_open /\ k.linked
          /\ k.is_active = booking[b].is_active
      BY <1>1 DEF Booking
    <2>2. booking' = [booking EXCEPT ![b] = k] /\ deal' = [deal EXCEPT ![b] = deal[b]]
          /\ UNCHANGED <<span, req, begun, overtaken>>
          /\ deal[b].status # "absent" /\ ~booking[b].linked
      BY <1>2, <1>5 DEF LinkDeal, Exists
    <2> HIDE DEF k
    <2>3. Agree(k, deal[b], overtaken) /\ Opened(deal[b]) BY <1>1, <2>1, <2>2 DEF Agree
    <2>4. Onward(StageOf(booking[b], deal[b]), StageOf(k, deal[b]))
      BY <2>1, <2>2, <2>3 DEF Onward, StageOf, Opened
    <2> QED BY <1>1, <2>1, <2>2, <2>3, <2>4 DEF Booked
  <1>6. CASE OpenAtCounter(b)
    <2> DEFINE d == [NoDeal EXCEPT !.status = "in_progress"]
               k == [booking[b] EXCEPT !.linked = TRUE]
    <2>1. /\ d \in Deal /\ d.amount = 0 /\ d.status = "in_progress" /\ ~d.is_processed
          /\ d.type = "offline" /\ d.payment_status = "in_progress"
      BY BlankRows DEF Deal, NoDeal
    <2>2. k \in Booking /\ k.is_open = booking[b].is_open /\ k.linked
          /\ k.is_active = booking[b].is_active
      BY <1>1 DEF Booking
    <2>3. booking' = [booking EXCEPT ![b] = k] /\ deal' = [deal EXCEPT ![b] = d]
          /\ UNCHANGED <<span, req, begun, overtaken>>
          /\ deal[b].status = "absent"
      BY <1>2, <1>6 DEF OpenAtCounter, Exists
    <2> HIDE DEF d, k
    <2>4. deal[b] = NoDeal /\ ~booking[b].linked /\ booking[b].is_open
      BY <1>1, <2>3 DEF Agree
    <2>5. Agree(k, d, overtaken) BY <1>1, <2>1, <2>2, <2>4 DEF Agree, Settled
    <2>6. Sound(d, span[b]) BY <2>1 DEF Sound
    <2>7. Onward(StageOf(booking[b], deal[b]), StageOf(k, d))
      BY <2>1, <2>2, <2>3 DEF Onward, StageOf
    <2> QED BY <2>1, <2>2, <2>3, <2>4, <2>5, <2>6, <2>7 DEF Booked
  <1>7. CASE Checkout(b)
    <2> DEFINE u == Units(span[b])
               d == [NoDeal EXCEPT !.status = "accepted", !.is_processed = TRUE,
                                   !.payment_status = "accepted", !.amount = u]
               k == [booking[b] EXCEPT !.linked = TRUE, !.is_open = FALSE]
    <2>1. u \in (2 - Cycle)..Cycle \union {0} BY <1>1, AmountOfUnits
    <2>2. booking' = [booking EXCEPT ![b] = k] /\ deal' = [deal EXCEPT ![b] = d]
          /\ UNCHANGED <<span, req, begun, overtaken>>
          /\ deal[b].status = "absent"
      BY <1>2, <1>7 DEF Checkout, Exists
    <2> HIDE DEF u
    <2>3. /\ d \in Deal /\ d.amount = u /\ d.status = "accepted" /\ d.is_processed
          /\ d.type = "offline" /\ d.payment_status = "accepted"
      BY <2>1, BlankRows DEF Deal, NoDeal
    <2>4. k \in Booking /\ ~k.is_open /\ k.linked
      BY <1>1 DEF Booking
    <2> HIDE DEF d, k
    <2>5. deal[b] = NoDeal /\ ~booking[b].linked /\ booking[b].is_open
      BY <1>1, <2>2 DEF Agree
    <2>6. Agree(k, d, overtaken) BY <2>3, <2>4 DEF Agree, Settled
    <2>7. Sound(d, span[b]) BY <2>3 DEF Sound, u
    <2>8. Onward(StageOf(booking[b], deal[b]), StageOf(k, d))
      BY <2>2, <2>3, <2>4 DEF Onward, StageOf
    <2> QED BY <2>2, <2>3, <2>4, <2>5, <2>6, <2>7, <2>8 DEF Booked
  <1> QED BY <1>3, <1>4, <1>5, <1>6, <1>7 DEF Book

LEMMA MoveKeeps ==
  ASSUME Inv, NEW w \in Workers, NEW r \in Request,
         Hand(r, booking, span),
         req' = [req EXCEPT ![w] = r],
         UNCHANGED <<booking, span, deal, overtaken>>,
         begun' \in 0..MaxRequests
  PROVE  Inv'
  <1>1. /\ booking \in [Bookings -> Booking] /\ deal \in [Bookings -> Deal]
        /\ req \in [Workers -> Request] /\ overtaken \in BOOLEAN
    BY DEF Inv, TypeOK
  <1>2. /\ booking' = [c \in Bookings |-> booking'[c]]
        /\ deal' = [c \in Bookings |-> deal'[c]]
        /\ req' = [v \in Workers |-> req'[v]]
    BY <1>1
  <1>3. ASSUME NEW v \in Workers
        PROVE  req'[v] = req[v] \/ (req'[v] \in Request /\ Hand(req'[v], booking, span))
    <2>1. CASE v = w
      <3>1. req'[v] = r BY <1>1, <2>1
      <3> QED BY <3>1
    <2>2. CASE v # w BY <1>1, <2>2
    <2> QED BY <2>1, <2>2
  <1> QED BY <1>1, <1>2, <1>3, Types, RowsKeepInv

LEMMA StartedRequest ==
  ASSUME NEW op \in {"accept", "complete", "refund", "reject", "activate", "pay"},
         NEW b \in Bookings, NEW next \in {"load", "save"}, NEW d \in Deal, NEW k \in Booking
  PROVE  /\ Started(op, b, next, d, k) \in Request
         /\ Started(op, b, next, d, k).op = op /\ Started(op, b, next, d, k).of = b
         /\ Started(op, b, next, d, k).next = next
         /\ Started(op, b, next, d, k).deal = [NoDeals EXCEPT ![b] = d]
         /\ Started(op, b, next, d, k).booking = [NoRows EXCEPT ![b] = k]
         /\ Started(op, b, next, d, k).rivals = {} /\ Started(op, b, next, d, k).unseen = {}
  <1> DEFINE ds == [NoDeals EXCEPT ![b] = d]
             ks == [NoRows EXCEPT ![b] = k]
             r == Started(op, b, next, d, k)
  <1>1. ds \in [Bookings -> Deal] /\ ks \in [Bookings -> Booking] BY BlankRows
  <1>2. r = [Idle EXCEPT !.op = op, !.of = b, !.next = next, !.deal = ds, !.booking = ks]
    BY DEF Started
  <1> HIDE DEF ds, ks, r
  <1>3. Idle = [op |-> "none", of |-> NoBooking, next |-> "load",
                deal |-> NoDeals, booking |-> NoRows, rivals |-> {}, unseen |-> {}]
    BY DEF Idle
  <1>4. /\ r \in Request /\ r.op = op /\ r.of = b /\ r.next = next
        /\ r.deal = ds /\ r.booking = ks /\ r.rivals = {} /\ r.unseen = {}
    BY <1>1, <1>2, <1>3 DEF Request
  <1> QED BY <1>4 DEF r, ds, ks

LEMMA BeginKeeps ==
  ASSUME Inv, NEW w \in Workers, NEW b \in Bookings,
         NEW op \in {"accept", "complete", "refund", "reject", "activate", "pay"},
         NEW next \in {"load", "save"}, NEW d \in Deal, NEW k \in Booking,
         Begin(w, op, b, next, d, k),
         Remembered(d, booking[b], span[b]), k.linked => booking[b].linked,
         op = "accept" => Opened(d) /\ booking[b].linked,
         op = "complete" => k.linked /\ next = "load",
         op = "refund" => d.status # "absent" /\ next = "load",
         op = "reject" => d.status # "absent",
         op = "activate" => ~booking[b].is_open /\ next = "load",
         op = "pay" => d.status = "accepted" /\ ~d.is_processed /\ next = "load"
  PROVE  Inv'
  <1> DEFINE r == Started(op, b, next, d, k)
  <1>1. /\ r \in Request /\ r.op = op /\ r.of = b /\ r.next = next
        /\ r.deal = [NoDeals EXCEPT ![b] = d] /\ r.booking = [NoRows EXCEPT ![b] = k]
        /\ r.rivals = {} /\ r.unseen = {}
    BY StartedRequest
  <1>2. /\ req' = [req EXCEPT ![w] = r] /\ UNCHANGED <<booking, span, deal, overtaken>>
        /\ begun < MaxRequests /\ begun' = begun + 1
    BY DEF Begin
  <1> HIDE DEF r
  <1>3. begun' \in 0..MaxRequests BY <1>2, RentalsAssumption DEF Inv, TypeOK
  <1>4. r.deal[b] = d /\ r.booking[b] = k BY <1>1, BlankRows
  <1>5. Hand(r, booking, span)
    <2>1. ASSUME NEW c \in Bookings
          PROVE  /\ Remembered(r.deal[c], booking[c], span[c])
                 /\ r.booking[c].linked => booking[c].linked
      <3>1. CASE c = b BY <1>4, <3>1
      <3>2. CASE c # b
        <4>1. r.deal[c] = NoDeal /\ r.booking[c] = Unbooked BY <1>1, <3>2, BlankRows
        <4> QED BY <4>1, BlankRows
      <3> QED BY <3>1, <3>2
    <2>2. Checked(r, booking) BY <1>1, <1>4 DEF Checked
    <2>3. ChecksRivals(r) BY <1>1 DEF ChecksRivals
    <2> QED BY <1>1, <2>1, <2>2, <2>3 DEF Hand
  <1> QED BY <1>1, <1>2, <1>3, <1>5, MoveKeeps

LEMMA BeginsKeep ==
  ASSUME Inv, NEW w \in Workers, NEW b \in Bookings,
         \/ BeginAccept(w, b) \/ BeginComplete(w, b) \/ BeginRefund(w, b)
         \/ BeginReject(w, b) \/ BeginActivate(w, b) \/ BeginPay(w, b)
  PROVE  Inv'
  <1>1. /\ booking[b] \in Booking /\ deal[b] \in Deal
        /\ Agree(booking[b], deal[b], overtaken) /\ Sound(deal[b], span[b])
    BY Types
  <1>2. Remembered(deal[b], booking[b], span[b]) BY <1>1 DEF Agree, Remembered
  <1>3. Remembered(NoDeal, booking[b], span[b]) /\ NoDeal \in Deal /\ Unbooked \in Booking
        /\ ~Unbooked.linked
    BY BlankRows
  <1>4. CASE BeginAccept(w, b)
    <2>1. Opened(deal[b]) /\ booking[b].linked
          /\ Begin(w, "accept", b, "save", deal[b], Unbooked)
      BY <1>4 DEF BeginAccept, Opened
    <2> QED BY <1>1, <1>2, <1>3, <2>1, BeginKeeps
  <1>5. CASE BeginComplete(w, b)
    <2>1. booking[b].linked /\ Begin(w, "complete", b, "load", NoDeal, booking[b])
      BY <1>5 DEF BeginComplete
    <2> QED BY <1>1, <1>3, <2>1, BeginKeeps
  <1>6. CASE BeginRefund(w, b)
    <2>1. deal[b].status # "absent" /\ Begin(w, "refund", b, "load", deal[b], Unbooked)
      BY <1>6 DEF BeginRefund, Exists
    <2> QED BY <1>1, <1>2, <1>3, <2>1, BeginKeeps
  <1>7. CASE BeginReject(w, b)
    <2>1. deal[b].status # "absent" /\ Begin(w, "reject", b, "save", deal[b], Unbooked)
      BY <1>7 DEF BeginReject, Exists
    <2> QED BY <1>1, <1>2, <1>3, <2>1, BeginKeeps
  <1>8. CASE BeginActivate(w, b)
    <2>1. ~booking[b].is_open /\ Begin(w, "activate", b, "load", NoDeal, Unbooked)
      BY <1>1, <1>8 DEF BeginActivate, Agree, Settled
    <2> QED BY <1>1, <1>3, <2>1, BeginKeeps
  <1>9. CASE BeginPay(w, b)
    <2>1. deal[b].status = "accepted" /\ ~deal[b].is_processed
          /\ Begin(w, "pay", b, "load", deal[b], Unbooked)
      BY <1>9 DEF BeginPay
    <2> QED BY <1>1, <1>2, <1>3, <2>1, BeginKeeps
  <1> QED BY <1>4, <1>5, <1>6, <1>7, <1>8, <1>9

LEMMA LoadDealKeeps ==
  ASSUME Inv, NEW w \in Workers, LoadDeal(w)
  PROVE  Inv'
  <1> DEFINE b == req[w].of
             ds == [req[w].deal EXCEPT ![b] = deal[b]]
             r == [req[w] EXCEPT !.deal = ds, !.next = "save"]
  <1>1. /\ req[w] \in Request /\ Hand(req[w], booking, span) /\ req[w].op = "complete"
        /\ req[w].deal \in [Bookings -> Deal]
    BY HandTypes DEF LoadDeal, Loads
  <1>2. b \in Bookings BY <1>1 DEF Hand
  <1>3. /\ booking[b] \in Booking /\ deal[b] \in Deal
        /\ Agree(booking[b], deal[b], overtaken) /\ Sound(deal[b], span[b])
    BY <1>2, Types
  <1>4. /\ req' = [req EXCEPT ![w] = r] /\ UNCHANGED <<booking, span, deal, begun, overtaken>>
        /\ deal[b].status = "in_progress" /\ ~deal[b].is_processed /\ deal[b].type = "offline"
    BY DEF LoadDeal
  <1>5. ds \in [Bookings -> Deal] /\ ds[b] = deal[b]
        /\ \A c \in Bookings : c # b => ds[c] = req[w].deal[c]
    BY <1>1, <1>2, <1>3
  <1> HIDE DEF ds
  <1>6. /\ r \in Request /\ r.op = "complete" /\ r.of = b /\ r.next = "save" /\ r.deal = ds
        /\ r.booking = req[w].booking /\ r.rivals = req[w].rivals /\ r.unseen = req[w].unseen
    BY <1>1, <1>5 DEF Request
  <1> HIDE DEF r
  <1>7. Hand(r, booking, span)
    <2>1. ASSUME NEW c \in Bookings
          PROVE  /\ Remembered(r.deal[c], booking[c], span[c])
                 /\ r.booking[c].linked => booking[c].linked
      <3>1. CASE c = b BY <1>1, <1>3, <1>5, <1>6, <3>1 DEF Hand, Agree, Remembered
      <3>2. CASE c # b BY <1>1, <1>5, <1>6, <3>2 DEF Hand
      <3> QED BY <3>1, <3>2
    <2>2. req[w].booking[b].linked /\ req[w].unseen = {} BY <1>1 DEF Hand, Checked
    <2>3. Checked(r, booking) BY <1>4, <1>5, <1>6, <2>2 DEF Checked
    <2>4. ChecksRivals(r)
      <3>1. ChecksRivals(req[w]) BY <1>1 DEF Hand
      <3>2. \A c \in Bookings : c # b => r.deal[c] = req[w].deal[c] BY <1>5, <1>6
      <3>3. r.rivals \subseteq Bookings /\ b \notin r.rivals
        BY <1>6, <3>1, HandTypes DEF ChecksRivals
      <3> QED BY <1>6, <3>1, <3>2, <3>3 DEF ChecksRivals
    <2> QED BY <1>2, <1>6, <2>1, <2>3, <2>4 DEF Hand
  <1>8. begun' \in 0..MaxRequests BY <1>4 DEF Inv, TypeOK
  <1> QED BY <1>4, <1>6, <1>7, <1>8, MoveKeeps

LEMMA LoadBookingKeeps ==
  ASSUME Inv, NEW w \in Workers, LoadBooking(w)
  PROVE  Inv'
  <1> DEFINE b == req[w].of
             ks == [req[w].booking EXCEPT ![b] = booking[b]]
             r == [req[w] EXCEPT !.booking = ks, !.next = "save"]
  <1>1. /\ req[w] \in Request /\ Hand(req[w], booking, span)
        /\ req[w].op \in {"refund", "activate"}
        /\ req[w].booking \in [Bookings -> Booking]
    BY HandTypes DEF LoadBooking, Loads
  <1>2. b \in Bookings BY <1>1 DEF Hand
  <1>3. booking[b] \in Booking BY <1>2, Types
  <1>4. /\ req' = [req EXCEPT ![w] = r] /\ UNCHANGED <<booking, span, deal, begun, overtaken>>
        /\ booking[b].linked
    BY DEF LoadBooking
  <1>5. ks \in [Bookings -> Booking] /\ ks[b] = booking[b]
        /\ \A c \in Bookings : c # b => ks[c] = req[w].booking[c]
    BY <1>1, <1>2, <1>3
  <1> HIDE DEF ks
  <1>6. /\ r \in Request /\ r.op = req[w].op /\ r.of = b /\ r.next = "save" /\ r.booking = ks
        /\ r.deal = req[w].deal /\ r.rivals = req[w].rivals /\ r.unseen = req[w].unseen
    BY <1>1, <1>5 DEF Request
  <1> HIDE DEF r
  <1>7. Hand(r, booking, span)
    <2>1. ASSUME NEW c \in Bookings
          PROVE  /\ Remembered(r.deal[c], booking[c], span[c])
                 /\ r.booking[c].linked => booking[c].linked
      <3>1. CASE c = b BY <1>1, <1>5, <1>6, <3>1 DEF Hand
      <3>2. CASE c # b BY <1>1, <1>5, <1>6, <3>2 DEF Hand
      <3> QED BY <3>1, <3>2
    <2>2. /\ req[w].unseen = {}
          /\ req[w].op = "refund" => req[w].deal[b].status # "absent"
          /\ req[w].op = "activate" => ~booking[b].is_open
      BY <1>1 DEF Hand, Checked
    <2>3. Checked(r, booking) BY <1>1, <1>4, <1>5, <1>6, <2>2 DEF Checked
    <2>4. ChecksRivals(r)
      <3>1. ChecksRivals(req[w]) BY <1>1 DEF Hand
      <3>2. \A c \in Bookings : c # b => r.booking[c] = req[w].booking[c] BY <1>5, <1>6
      <3>3. r.rivals \subseteq Bookings /\ b \notin r.rivals
        BY <1>6, <3>1, HandTypes DEF ChecksRivals
      <3> QED BY <1>6, <3>1, <3>2, <3>3 DEF ChecksRivals
    <2> QED BY <1>2, <1>6, <2>1, <2>3, <2>4 DEF Hand
  <1>8. begun' \in 0..MaxRequests BY <1>4 DEF Inv, TypeOK
  <1> QED BY <1>4, <1>6, <1>7, <1>8, MoveKeeps

LEMMA FindRivalsKeeps ==
  ASSUME Inv, NEW w \in Workers, FindRivals(w)
  PROVE  Inv'
  <1> DEFINE b == req[w].of
             R == Rivals(b)
             ks == [c \in Bookings |-> IF c \in R \union {b} THEN booking[c] ELSE Unbooked]
             r == [req[w] EXCEPT !.booking = ks, !.rivals = R, !.unseen = R, !.next = "save"]
  <1>1. /\ req[w] \in Request /\ Hand(req[w], booking, span) /\ req[w].op = "pay"
        /\ req[w].next = "load"
    BY HandTypes DEF FindRivals, Loads
  <1>2. b \in Bookings BY <1>1 DEF Hand
  <1>3. R \subseteq Bookings /\ b \notin R /\ \A c \in R : booking[c].linked
    BY DEF Rivals
  <1>4. /\ req' = [req EXCEPT ![w] = r] /\ UNCHANGED <<booking, span, deal, begun, overtaken>>
        /\ booking[b].linked
    BY DEF FindRivals
  <1> HIDE DEF R
  <1>5. /\ ks \in [Bookings -> Booking]
        /\ \A c \in Bookings : ks[c] = IF c \in R \union {b} THEN booking[c] ELSE Unbooked
    BY Types, BlankRows
  <1> HIDE DEF ks
  <1>6. /\ r \in Request /\ r.op = "pay" /\ r.of = b /\ r.next = "save" /\ r.booking = ks
        /\ r.deal = req[w].deal /\ r.rivals = R /\ r.unseen = R
    BY <1>1, <1>3, <1>5 DEF Request
  <1> HIDE DEF r
  <1>7. Hand(r, booking, span)
    <2>1. ASSUME NEW c \in Bookings
          PROVE  /\ Remembered(r.deal[c], booking[c], span[c])
                 /\ r.booking[c].linked => booking[c].linked
      BY <1>1, <1>5, <1>6, BlankRows DEF Hand
    <2>2. req[w].deal[b].status = "accepted" /\ ~req[w].deal[b].is_processed
      BY <1>1 DEF Hand, Checked
    <2>3. Checked(r, booking) BY <1>2, <1>4, <1>5, <1>6, <2>2 DEF Checked
    <2>4. ChecksRivals(r) BY <1>3, <1>5, <1>6 DEF ChecksRivals
    <2> QED BY <1>2, <1>6, <2>1, <2>3, <2>4 DEF Hand
  <1>8. begun' \in 0..MaxRequests BY <1>4 DEF Inv, TypeOK
  <1> QED BY <1>4, <1>6, <1>7, <1>8, MoveKeeps

LEMMA LoadRivalKeeps ==
  ASSUME Inv, NEW w \in Workers, NEW c \in Bookings, LoadRival(w, c)
  PROVE  Inv'
  <1> DEFINE b == req[w].of
             ds == [req[w].deal EXCEPT ![c] = deal[c]]
             U == req[w].unseen \ {c}
             r == [req[w] EXCEPT !.deal = ds, !.unseen = U]
  <1>1. /\ req[w] \in Request /\ Hand(req[w], booking, span) /\ c \in req[w].unseen
        /\ req[w].deal \in [Bookings -> Deal]
        /\ req[w].unseen \subseteq Bookings
    BY HandTypes DEF LoadRival
  <1>2. req[w].op = "pay" /\ req[w].next = "save" /\ ChecksRivals(req[w])
    BY <1>1 DEF Hand, Checked
  <1>3. b \in Bookings /\ c # b /\ c \in req[w].rivals
    BY <1>1, <1>2 DEF Hand, ChecksRivals
  <1>4. /\ booking[c] \in Booking /\ deal[c] \in Deal
        /\ Agree(booking[c], deal[c], overtaken) /\ Sound(deal[c], span[c])
    BY Types
  <1>5. deal[c].status # "absent"
    <2>1. req[w].booking[c].linked BY <1>2, <1>3 DEF ChecksRivals
    <2>2. booking[c].linked BY <1>1, <2>1 DEF Hand
    <2> QED BY <1>4, <2>2 DEF Agree
  <1>6. req' = [req EXCEPT ![w] = r] /\ UNCHANGED <<booking, span, deal, begun, overtaken>>
    BY DEF LoadRival
  <1>7. ds \in [Bookings -> Deal] /\ ds[c] = deal[c]
        /\ \A e \in Bookings : e # c => ds[e] = req[w].deal[e]
    BY <1>1, <1>4
  <1>8. U \subseteq Bookings BY <1>1
  <1> HIDE DEF ds
  <1>9. /\ r \in Request /\ r.op = "pay" /\ r.of = b /\ r.next = "save" /\ r.deal = ds
        /\ r.booking = req[w].booking /\ r.rivals = req[w].rivals /\ r.unseen = U
    BY <1>1, <1>2, <1>7, <1>8 DEF Request
  <1> HIDE DEF r
  <1>10. Hand(r, booking, span)
    <2>1. ASSUME NEW e \in Bookings
          PROVE  /\ Remembered(r.deal[e], booking[e], span[e])
                 /\ r.booking[e].linked => booking[e].linked
      <3>1. CASE e = c BY <1>1, <1>4, <1>7, <1>9, <3>1 DEF Hand, Agree, Remembered
      <3>2. CASE e # c BY <1>1, <1>7, <1>9, <3>2 DEF Hand
      <3> QED BY <3>1, <3>2
    <2>2. /\ req[w].deal[b].status = "accepted" /\ ~req[w].deal[b].is_processed
          /\ req[w].booking[b].linked
      BY <1>1, <1>2 DEF Hand, Checked
    <2>3. Checked(r, booking) BY <1>3, <1>7, <1>9, <2>2 DEF Checked
    <2>4. ChecksRivals(r)
      <3>1. r.of \notin r.rivals /\ r.unseen \subseteq r.rivals /\ r.rivals \subseteq Bookings
        BY <1>2, <1>9, HandTypes DEF ChecksRivals
      <3>2. ASSUME NEW e \in r.rivals
            PROVE  r.booking[e].linked /\ (e \notin r.unseen => r.deal[e].status # "absent")
        BY <1>2, <1>5, <1>7, <1>9, <3>1 DEF ChecksRivals
      <3> QED BY <3>1, <3>2 DEF ChecksRivals
    <2> QED BY <1>3, <1>9, <2>1, <2>3, <2>4 DEF Hand
  <1>11. begun' \in 0..MaxRequests BY <1>6 DEF Inv, TypeOK
  <1> QED BY <1>6, <1>9, <1>10, <1>11, MoveKeeps

LEMMA FailKeeps ==
  ASSUME Inv, NEW w \in Workers, Fail(w)
  PROVE  Inv'
  <1>1. req' = [req EXCEPT ![w] = Idle] /\ UNCHANGED <<booking, span, deal, begun, overtaken>>
    BY DEF Fail
  <1>2. begun' \in 0..MaxRequests BY <1>1 DEF Inv, TypeOK
  <1> QED BY <1>1, <1>2, IdleHand, MoveKeeps

-----------------------------------------------------------------------------
(* The saves *)

(* A deal ceases to be paid for only against a refund. *)
GivenUp(d, e) ==
  d.is_processed /\ ~e.is_processed =>
    (e.status = "rejected" /\ e.payment_status = "refunded") \/ d.payment_status = "rejected"

(* What a save does to the rows of one booking: while nobody is overtaken,  *)
(* the booking goes on along the calendar.                                  *)
Stored(w, b) ==
  \E k \in Booking, d \in Deal :
    /\ booking' = [booking EXCEPT ![b] = k]
    /\ deal' = [deal EXCEPT ![b] = d]
    /\ End(w)
    /\ Agree(k, d, overtaken') /\ Sound(d, span[b])
    /\ k.is_open => booking[b].is_open
    /\ booking[b].linked => k.linked
    /\ ~overtaken' => /\ Onward(StageOf(booking[b], deal[b]), StageOf(k, d))
                      /\ GivenUp(deal[b], d)

(* While nobody is overtaken, what a request saves is what is in the table. *)
LEMMA InTime ==
  ASSUME Inv, NEW w \in Workers, End(w), ~overtaken'
  PROVE  Current(w) /\ ~overtaken
  BY DEF End

LEMMA EndsWell ==
  ASSUME Inv, NEW w \in Workers, End(w)
  PROVE  /\ UNCHANGED span /\ begun' \in 0..MaxRequests /\ overtaken' \in BOOLEAN
         /\ req' = [v \in Workers |-> req'[v]]
         /\ \A v \in Workers : \/ req'[v] = req[v]
                               \/ req'[v] \in Request /\ Hand(req'[v], booking, span)
         /\ overtaken => overtaken'
  <1>1. req \in [Workers -> Request] /\ begun \in 0..MaxRequests /\ overtaken \in BOOLEAN
    BY DEF Inv, TypeOK
  <1>2. /\ req' = [req EXCEPT ![w] = Idle] /\ UNCHANGED <<span, begun>>
        /\ overtaken' = (overtaken \/ ~Current(w))
    BY DEF End
  <1>3. \A v \in Workers : req'[v] = req[v] \/ req'[v] = Idle BY <1>1, <1>2
  <1>4. overtaken' \in BOOLEAN /\ (overtaken => overtaken') BY <1>1, <1>2
  <1> QED BY <1>1, <1>2, <1>3, <1>4, IdleHand

LEMMA LateAgrees ==
  ASSUME NEW k, NEW d, NEW late \in BOOLEAN, NEW later \in BOOLEAN,
         Agree(k, d, late), late => later
  PROVE  Agree(k, d, later)
  BY DEF Agree

LEMMA StoredKeeps ==
  ASSUME Inv, NEW w \in Workers, NEW b \in Bookings, Stored(w, b)
  PROVE  Inv'
  <1>1. PICK k \in Booking, d \in Deal :
          /\ booking' = [booking EXCEPT ![b] = k]
          /\ deal' = [deal EXCEPT ![b] = d]
          /\ End(w)
          /\ Agree(k, d, overtaken') /\ Sound(d, span[b])
          /\ k.is_open => booking[b].is_open
          /\ booking[b].linked => k.linked
    BY DEF Stored
  <1>2. booking \in [Bookings -> Booking] /\ deal \in [Bookings -> Deal]
        /\ overtaken \in BOOLEAN
    BY DEF Inv, TypeOK
  <1>3. booking' = [c \in Bookings |-> booking'[c]] /\ deal' = [c \in Bookings |-> deal'[c]]
    BY <1>1, <1>2
  <1>4. ASSUME NEW c \in Bookings
        PROVE  /\ booking'[c] \in Booking /\ deal'[c] \in Deal
               /\ Agree(booking'[c], deal'[c], overtaken')
               /\ Sound(deal'[c], span[c])
               /\ booking'[c].is_open => booking[c].is_open
               /\ booking[c].linked => booking'[c].linked
    <2>1. CASE c = b
      <3>1. booking'[c] = k /\ deal'[c] = d BY <1>1, <1>2, <2>1
      <3> QED BY <1>1, <2>1, <3>1
    <2>2. CASE c # b
      <3>1. booking'[c] = booking[c] /\ deal'[c] = deal[c] BY <1>1, <1>2, <2>2
      <3>2. overtaken' \in BOOLEAN /\ (overtaken => overtaken') BY <1>1, EndsWell
      <3>3. Agree(booking[c], deal[c], overtaken') BY <1>2, <3>2, Types, LateAgrees
      <3> QED BY <3>1, <3>3, Types
    <2> QED BY <2>1, <2>2
  <1> QED BY <1>1, <1>3, <1>4, EndsWell, RowsKeepInv

LEMMA SavedRows ==
  ASSUME Inv, NEW w \in Workers, req[w].op # "none"
  PROVE  LET b == req[w].of IN
         /\ b \in Bookings
         /\ booking[b] \in Booking /\ deal[b] \in Deal /\ span[b] \in Spans
         /\ Agree(booking[b], deal[b], overtaken) /\ Sound(deal[b], span[b])
         /\ req[w].deal[b] \in Deal /\ req[w].booking[b] \in Booking
         /\ Remembered(req[w].deal[b], booking[b], span[b])
         /\ req[w].booking[b].linked => booking[b].linked
         /\ Checked(req[w], booking) /\ ChecksRivals(req[w])
         /\ booking = [booking EXCEPT ![b] = booking[b]]
         /\ deal = [deal EXCEPT ![b] = deal[b]]
  <1>1. /\ req[w] \in Request /\ Hand(req[w], booking, span)
        /\ req[w].deal \in [Bookings -> Deal] /\ req[w].booking \in [Bookings -> Booking]
    BY HandTypes
  <1>2. req[w].of \in Bookings BY <1>1 DEF Hand
  <1>3. booking \in [Bookings -> Booking] /\ deal \in [Bookings -> Deal] BY DEF Inv, TypeOK
  <1> QED BY <1>1, <1>2, <1>3, Types DEF Hand

LEMMA AcceptStores ==
  ASSUME Inv, NEW w \in Workers, Accept(w)
  PROVE  req[w].of \in Bookings /\ Stored(w, req[w].of)
  <1> DEFINE b == req[w].of
             e == req[w].deal[b]
             d == Agreed(e, span[b])
  <1>1. /\ req[w].op = "accept" /\ End(w) /\ deal' = [deal EXCEPT ![b] = d]
        /\ booking' = booking
    BY DEF Accept, Saves
  <1>2. /\ b \in Bookings
        /\ booking[b] \in Booking /\ deal[b] \in Deal /\ span[b] \in Spans
        /\ Agree(booking[b], deal[b], overtaken) /\ Sound(deal[b], span[b])
        /\ e \in Deal /\ Remembered(e, booking[b], span[b])
        /\ booking' = [booking EXCEPT ![b] = booking[b]]
    BY <1>1, SavedRows
  <1>3. Opened(e) /\ booking[b].linked BY <1>1, SavedRows DEF Checked
  <1>4. ~overtaken' => e = deal[b] /\ ~overtaken BY <1>1, InTime DEF Current
  <1>5. /\ d \in Deal /\ d.status = "accepted" /\ d.is_processed = e.is_processed
        /\ d.type = e.type
    BY <1>2, AgreedRow
  <1>6. Sound(d, span[b]) BY <1>2, <1>3, SavedSound DEF Remembered
  <1> HIDE DEF d
  <1>7. Agree(booking[b], d, overtaken')
    BY <1>2, <1>3, <1>4, <1>5 DEF Agree, Settled, Opened
  <1>8. ~overtaken' => /\ Onward(StageOf(booking[b], deal[b]), StageOf(booking[b], d))
                      /\ GivenUp(deal[b], d)
    BY <1>3, <1>4, <1>5 DEF Onward, StageOf, Opened, GivenUp
  <1> QED BY <1>1, <1>2, <1>5, <1>6, <1>7, <1>8 DEF Stored

LEMMA CompleteStores ==
  ASSUME Inv, NEW w \in Workers, Complete(w)
  PROVE  req[w].of \in Bookings /\ Stored(w, req[w].of)
  <1> DEFINE b == req[w].of
             e == req[w].deal[b]
             d == Completed(e, span[b])
             k == Closed(req[w].booking[b])
  <1>1. /\ req[w].op = "complete" /\ req[w].next = "save" /\ End(w)
        /\ deal' = [deal EXCEPT ![b] = d] /\ booking' = [booking EXCEPT ![b] = k]
    BY DEF Complete, Saves
  <1>2. /\ b \in Bookings /\ span[b] \in Spans
        /\ e \in Deal /\ Remembered(e, booking[b], span[b])
        /\ req[w].booking[b] \in Booking
    BY <1>1, SavedRows
  <1>3. /\ req[w].booking[b].linked /\ e.status = "in_progress" /\ ~e.is_processed
        /\ e.type = "offline"
    BY <1>1, SavedRows DEF Checked
  <1>4. ~overtaken' => e = deal[b] /\ ~overtaken BY <1>1, InTime DEF Current
  <1>5. d \in Deal /\ d.status = "accepted" /\ d.is_processed BY <1>2, CompletedRow
  <1>6. k \in Booking /\ ~k.is_open /\ k.linked BY <1>2, <1>3, BookingRows
  <1>7. Sound(d, span[b]) BY <1>2, SavedSound DEF Remembered
  <1> HIDE DEF d, k
  <1>8. Agree(k, d, overtaken') BY <1>5, <1>6 DEF Agree, Settled
  <1>9. ~overtaken' => /\ Onward(StageOf(booking[b], deal[b]), StageOf(k, d))
                      /\ GivenUp(deal[b], d)
    BY <1>3, <1>4, <1>5, <1>6 DEF Onward, StageOf, GivenUp
  <1> QED BY <1>1, <1>2, <1>5, <1>6, <1>7, <1>8, <1>9 DEF Stored

LEMMA RefundStores ==
  ASSUME Inv, NEW w \in Workers, Refund(w)
  PROVE  req[w].of \in Bookings /\ Stored(w, req[w].of)
  <1> DEFINE b == req[w].of
             e == req[w].deal[b]
             d == Refunded(e)
             k == Closed(req[w].booking[b])
  <1>1. /\ req[w].op = "refund" /\ req[w].next = "save" /\ End(w)
        /\ deal' = [deal EXCEPT ![b] = d] /\ booking' = [booking EXCEPT ![b] = k]
    BY DEF Refund, Saves
  <1>2. /\ b \in Bookings /\ span[b] \in Spans
        /\ deal[b] \in Deal /\ Sound(deal[b], span[b])
        /\ e \in Deal /\ Remembered(e, booking[b], span[b])
        /\ req[w].booking[b] \in Booking
    BY <1>1, SavedRows
  <1>3. req[w].booking[b].linked BY <1>1, SavedRows DEF Checked
  <1>4. ~overtaken' => e = deal[b] /\ ~overtaken BY <1>1, InTime DEF Current
  <1>5. /\ d \in Deal /\ d.status = "rejected" /\ ~d.is_processed
        /\ d.payment_status = IF e.payment_status = "accepted" THEN "refunded"
                              ELSE e.payment_status
    BY <1>2, RefundedRow
  <1>6. k \in Booking /\ ~k.is_open /\ k.linked BY <1>2, <1>3, BookingRows
  <1>7. Sound(d, span[b]) BY <1>2, SavedSound DEF Remembered
  <1> HIDE DEF d, k
  <1>8. Agree(k, d, overtaken') BY <1>5, <1>6 DEF Agree, Settled
  <1>9. ~overtaken' => Onward(StageOf(booking[b], deal[b]), StageOf(k, d))
    BY <1>5, <1>6 DEF Onward, StageOf
  <1>10. ~overtaken' => GivenUp(deal[b], d)
    BY <1>2, <1>4, <1>5 DEF GivenUp, Sound
  <1> QED BY <1>1, <1>2, <1>5, <1>6, <1>7, <1>8, <1>9, <1>10 DEF Stored

LEMMA RejectStores ==
  ASSUME Inv, NEW w \in Workers, Reject(w)
  PROVE  req[w].of \in Bookings /\ Stored(w, req[w].of)
  <1> DEFINE b == req[w].of
             e == req[w].deal[b]
             d == Declined(e)
  <1>1. /\ req[w].op = "reject" /\ End(w) /\ deal' = [deal EXCEPT ![b] = d]
        /\ booking' = booking
    BY DEF Reject, Saves
  <1>2. /\ b \in Bookings
        /\ booking[b] \in Booking /\ deal[b] \in Deal /\ span[b] \in Spans
        /\ Agree(booking[b], deal[b], overtaken)
        /\ e \in Deal /\ Remembered(e, booking[b], span[b])
        /\ booking' = [booking EXCEPT ![b] = booking[b]]
    BY <1>1, SavedRows
  <1>3. e.status # "absent" BY <1>1, SavedRows DEF Checked
  <1>4. ~overtaken' => e = deal[b] /\ ~overtaken BY <1>1, InTime DEF Current
  <1>5. /\ d \in Deal /\ d.status = e.status /\ d.is_processed = e.is_processed
        /\ d.type = e.type
    BY <1>2, DeclinedRow
  <1>6. Sound(d, span[b]) BY <1>2, SavedSound DEF Remembered
  <1> HIDE DEF d
  <1>7. Settled(d) <=> Settled(e) BY <1>5 DEF Settled
  <1>8. Opened(d) <=> Opened(e) BY <1>5 DEF Opened
  <1>9. Agree(booking[b], d, overtaken')
    BY <1>2, <1>3, <1>4, <1>5, <1>7, <1>8 DEF Agree, Remembered
  <1>10. ~overtaken' => StageOf(booking[b], d) = StageOf(booking[b], deal[b])
    BY <1>4, <1>5 DEF StageOf
  <1>11. ~overtaken' => /\ Onward(StageOf(booking[b], deal[b]), StageOf(booking[b], d))
                       /\ GivenUp(deal[b], d)
    BY <1>4, <1>5, <1>10 DEF Onward, GivenUp
  <1> QED BY <1>1, <1>2, <1>5, <1>6, <1>9, <1>11 DEF Stored

LEMMA ActivateStores ==
  ASSUME Inv, NEW w \in Workers, Activate(w)
  PROVE  req[w].of \in Bookings /\ Stored(w, req[w].of)
  <1> DEFINE b == req[w].of
             k == Activated(req[w].booking[b])
  <1>1. /\ req[w].op = "activate" /\ req[w].next = "save" /\ End(w)
        /\ booking' = [booking EXCEPT ![b] = k] /\ deal' = deal
    BY DEF Activate, Saves
  <1>2. /\ b \in Bookings
        /\ booking[b] \in Booking /\ deal[b] \in Deal /\ span[b] \in Spans
        /\ Agree(booking[b], deal[b], overtaken) /\ Sound(deal[b], span[b])
        /\ req[w].booking[b] \in Booking
        /\ req[w].booking[b].linked => booking[b].linked
        /\ deal' = [deal EXCEPT ![b] = deal[b]]
    BY <1>1, SavedRows
  <1>3. req[w].booking[b].linked /\ ~req[w].booking[b].is_open
    BY <1>1, SavedRows DEF Checked
  <1>4. ~overtaken' => req[w].booking[b] = booking[b] /\ ~overtaken
    BY <1>1, InTime DEF Current
  <1>5. k \in Booking /\ ~k.is_open /\ k.linked
    BY <1>2, <1>3, BookingRows
  <1> HIDE DEF k
  <1>6. Agree(k, deal[b], overtaken')
    BY <1>2, <1>3, <1>4, <1>5 DEF Agree
  <1>7. ~overtaken' => StageOf(k, deal[b]) = StageOf(booking[b], deal[b])
    BY <1>2, <1>3, <1>4, <1>5 DEF StageOf
  <1>8. ~overtaken' => /\ Onward(StageOf(booking[b], deal[b]), StageOf(k, deal[b]))
                      /\ GivenUp(deal[b], deal[b])
    BY <1>7 DEF Onward, GivenUp
  <1> QED BY <1>1, <1>2, <1>5, <1>6, <1>8 DEF Stored

(* A payment writes its own rows and those of its rivals. *)
LEMMA PayRows ==
  ASSUME Inv, NEW w \in Workers, Pay(w), NEW c \in Bookings
  PROVE  LET r == req[w]  b == r.of IN
         /\ b \in Bookings /\ End(w)
         /\ c = b => /\ deal'[c] = Paid(r.deal[c]) /\ booking'[c] = Closed(r.booking[c])
                     /\ r.deal[c].status = "accepted" /\ ~r.deal[c].is_processed
                     /\ r.booking[c].linked
         /\ c \in r.rivals => /\ c # b
                              /\ deal'[c] = Refunded(r.deal[c])
                              /\ booking'[c] = Closed(r.booking[c])
                              /\ r.booking[c].linked /\ r.deal[c].status # "absent"
         /\ c # b /\ c \notin r.rivals => deal'[c] = deal[c] /\ booking'[c] = booking[c]
         /\ r.deal[c] \in Deal /\ r.booking[c] \in Booking
         /\ Remembered(r.deal[c], booking[c], span[c])
         /\ booking' = [e \in Bookings |-> booking'[e]]
         /\ deal' = [e \in Bookings |-> deal'[e]]
  <1> DEFINE r == req[w]
             b == r.of
  <1>1. /\ r.op = "pay" /\ r.next = "save" /\ r.unseen = {} /\ End(w)
        /\ deal' = [e \in Bookings |-> CASE e = b -> Paid(r.deal[b])
                                          [] e \in r.rivals \ {b} -> Refunded(r.deal[e])
                                          [] OTHER -> deal[e]]
        /\ booking' = [e \in Bookings |-> IF e \in r.rivals \union {b}
                                          THEN Closed(r.booking[e]) ELSE booking[e]]
    BY DEF Pay, Saves
  <1>2. b \in Bookings /\ Checked(r, booking) /\ ChecksRivals(r) BY <1>1, SavedRows
  <1>3. /\ r.deal[c] \in Deal /\ r.booking[c] \in Booking
        /\ Remembered(r.deal[c], booking[c], span[c])
    BY HandTypes DEF Hand
  <1>4. r.deal[b].status = "accepted" /\ ~r.deal[b].is_processed /\ r.booking[b].linked
    BY <1>1, <1>2 DEF Checked
  <1>5. c \in r.rivals => c # b /\ r.booking[c].linked /\ r.deal[c].status # "absent"
    BY <1>1, <1>2 DEF ChecksRivals
  <1> HIDE DEF r
  <1>6. /\ booking' = [e \in Bookings |-> booking'[e]]
        /\ deal' = [e \in Bookings |-> deal'[e]]
    BY <1>1
  <1>7. /\ c = b => deal'[c] = Paid(r.deal[c]) /\ booking'[c] = Closed(r.booking[c])
        /\ c \in r.rivals => /\ deal'[c] = Refunded(r.deal[c])
                             /\ booking'[c] = Closed(r.booking[c])
        /\ c # b /\ c \notin r.rivals => deal'[c] = deal[c] /\ booking'[c] = booking[c]
    BY <1>1, <1>5
  <1> QED BY <1>1, <1>2, <1>3, <1>4, <1>5, <1>6, <1>7 DEF r

LEMMA PayKeeps ==
  ASSUME Inv, NEW w \in Workers, Pay(w)
  PROVE  Inv'
  <1>1. End(w) BY DEF Pay
  <1>2. booking' = [c \in Bookings |-> booking'[c]] /\ deal' = [c \in Bookings |-> deal'[c]]
    BY DEF Pay
  <1>3. ASSUME NEW c \in Bookings
        PROVE  /\ booking'[c] \in Booking /\ deal'[c] \in Deal
               /\ Agree(booking'[c], deal'[c], overtaken')
               /\ Sound(deal'[c], span[c])
               /\ booking'[c].is_open => booking[c].is_open
               /\ booking[c].linked => booking'[c].linked
    <2> DEFINE d == req[w].deal[c]
               k == req[w].booking[c]
    <2>1. /\ d \in Deal /\ k \in Booking /\ Remembered(d, booking[c], span[c])
          /\ span[c] \in Spans /\ overtaken \in BOOLEAN
      BY PayRows, Types DEF Inv, TypeOK
    <2>2. CASE c = req[w].of
      <3>1. /\ deal'[c] = Paid(d) /\ booking'[c] = Closed(k) /\ d.status = "accepted"
            /\ k.linked
        BY <2>2, PayRows
      <3>2. Paid(d) \in Deal /\ Paid(d).is_processed /\ Paid(d).status = "accepted"
            /\ Sound(Paid(d), span[c])
        BY <2>1, <3>1, PaidRow, SavedSound DEF Remembered
      <3>3. Closed(k) \in Booking /\ ~Closed(k).is_open /\ Closed(k).linked
        BY <2>1, <3>1, BookingRows
      <3>4. Agree(Closed(k), Paid(d), overtaken') BY <3>2, <3>3 DEF Agree, Settled
      <3> QED BY <3>1, <3>2, <3>3, <3>4
    <2>3. CASE c \in req[w].rivals
      <3>1. deal'[c] = Refunded(d) /\ booking'[c] = Closed(k) /\ k.linked
        BY <2>3, PayRows
      <3>2. Refunded(d) \in Deal /\ Refunded(d).status = "rejected"
            /\ Sound(Refunded(d), span[c])
        BY <2>1, RefundedRow, SavedSound DEF Remembered
      <3>3. Closed(k) \in Booking /\ ~Closed(k).is_open /\ Closed(k).linked
        BY <2>1, <3>1, BookingRows
      <3>4. Agree(Closed(k), Refunded(d), overtaken') BY <3>2, <3>3 DEF Agree, Settled
      <3> QED BY <3>1, <3>2, <3>3, <3>4
    <2>4. CASE c # req[w].of /\ c \notin req[w].rivals
      <3>1. booking'[c] = booking[c] /\ deal'[c] = deal[c] BY <2>4, PayRows
      <3>2. overtaken' \in BOOLEAN /\ (overtaken => overtaken') BY <1>1, EndsWell
      <3>3. Agree(booking[c], deal[c], overtaken') BY <2>1, <3>2, Types, LateAgrees
      <3> QED BY <3>1, <3>3, Types
    <2> QED BY <2>2, <2>3, <2>4
  <1> QED BY <1>1, <1>2, <1>3, EndsWell, RowsKeepInv

(* A step makes a booking, saves the rows of one, pays for one, or leaves   *)
(* the tables alone.                                                        *)
LEMMA Steps ==
  ASSUME Inv, Next
  PROVE  \/ \E b \in Bookings : Booked(b)
         \/ UNCHANGED <<booking, span, deal, overtaken>> /\ Inv'
         \/ \E w \in Workers, b \in Bookings : Stored(w, b)
         \/ \E w \in Workers : Pay(w)
  <1>1. CASE \E b \in Bookings : Book(b) BY <1>1, BookingSteps
  <1>2. ASSUME NEW w \in Workers, Load(w)
        PROVE  UNCHANGED <<booking, span, deal, overtaken>> /\ Inv'
    <2>1. CASE \E c \in Bookings :
                 \/ BeginAccept(w, c) \/ BeginComplete(w, c) \/ BeginRefund(w, c)
                 \/ BeginReject(w, c) \/ BeginActivate(w, c) \/ BeginPay(w, c)
      <3>1. UNCHANGED <<booking, span, deal, overtaken>>
        BY <2>1 DEF BeginAccept, BeginComplete, BeginRefund, BeginReject, BeginActivate,
           BeginPay, Begin
      <3> QED BY <2>1, <3>1, BeginsKeep
    <2>2. CASE \E c \in Bookings : LoadRival(w, c)
      <3>1. PICK c \in Bookings : LoadRival(w, c) BY <2>2
      <3>2. UNCHANGED <<booking, span, deal, overtaken>> BY <3>1 DEF LoadRival
      <3> QED BY <3>1, <3>2, LoadRivalKeeps
    <2>3. CASE LoadDeal(w)
      <3>1. UNCHANGED <<booking, span, deal, overtaken>> BY <2>3 DEF LoadDeal
      <3> QED BY <2>3, <3>1, LoadDealKeeps
    <2>4. CASE LoadBooking(w)
      <3>1. UNCHANGED <<booking, span, deal, overtaken>> BY <2>4 DEF LoadBooking
      <3> QED BY <2>4, <3>1, LoadBookingKeeps
    <2>5. CASE FindRivals(w)
      <3>1. UNCHANGED <<booking, span, deal, overtaken>> BY <2>5 DEF FindRivals
      <3> QED BY <2>5, <3>1, FindRivalsKeeps
    <2> QED BY <1>2, <2>1, <2>2, <2>3, <2>4, <2>5 DEF Load
  <1>3. ASSUME NEW w \in Workers, Fail(w)
        PROVE  UNCHANGED <<booking, span, deal, overtaken>> /\ Inv'
    <2>1. UNCHANGED <<booking, span, deal, overtaken>> BY <1>3 DEF Fail
    <2> QED BY <1>3, <2>1, FailKeeps
  <1>4. ASSUME NEW w \in Workers, Save(w)
        PROVE  (\E b \in Bookings : Stored(w, b)) \/ Pay(w)
    BY <1>4, AcceptStores, CompleteStores, RefundStores, RejectStores, ActivateStores DEF Save
  <1> QED BY <1>1, <1>2, <1>3, <1>4 DEF Next

LEMMA InitInv == Init => Inv
  <1> SUFFICES ASSUME Init PROVE Inv
    OBVIOUS
  <1>1. TypeOK
    <2>1. booking \in [Bookings -> Booking] /\ deal \in [Bookings -> Deal]
      BY BlankRows DEF Init
    <2>2. req \in [Workers -> Request] BY IdleHand DEF Init
    <2>3. 0 \in 0..MaxRequests BY RentalsAssumption
    <2>4. span \in [Bookings -> Spans] /\ begun = 0 /\ overtaken = FALSE BY DEF Init
    <2> QED BY <2>1, <2>2, <2>3, <2>4 DEF TypeOK
  <1>2. ASSUME NEW b \in Bookings
        PROVE  Agree(booking[b], deal[b], overtaken) /\ Sound(deal[b], span[b])
    <2>1. booking[b] = Unbooked /\ deal[b] = NoDeal BY DEF Init
    <2> QED BY <2>1, BlankRows DEF Remembered
  <1>3. ASSUME NEW w \in Workers PROVE Hand(req[w], booking, span)
    BY IdleHand DEF Init
  <1> QED BY <1>1, <1>2, <1>3 DEF Inv

LEMMA NextKeepsInv == Inv /\ [Next]_vars => Inv'
  <1> SUFFICES ASSUME Inv, [Next]_vars PROVE Inv'
    OBVIOUS
  <1>1. CASE UNCHANGED vars
    BY <1>1 DEF vars, Inv, TypeOK
  <1>2. ASSUME NEW b \in Bookings, Booked(b) PROVE Inv'
    BY <1>2, BookKeeps DEF Booked
  <1> QED BY <1>1, <1>2, Steps, StoredKeeps, PayKeeps

LEMMA SpecInv == Spec => []Inv
  BY InitInv, NextKeepsInv, PTL DEF Spec

-----------------------------------------------------------------------------
(* What holds of the rows *)

(* The columns stay what they are, and no rental costs more than one cycle  *)
(* of its calendar.                                                         *)
THEOREM TypeCorrect == Spec => []TypeOK
  <1>1. Inv => TypeOK BY DEF Inv
  <1> QED BY <1>1, SpecInv, PTL

(* However stale the rows that the requests save, a rental that is paid     *)
(* for, turned away or begun has a closed booking: payments look for rivals *)
(* by is_open and never find it.                                            *)
THEOREM SettledBookingsClosed == Spec => []SettledIsClosed
  <1>1. Inv => SettledIsClosed
    <2> SUFFICES ASSUME Inv PROVE SettledIsClosed
      OBVIOUS
    <2>1. ASSUME NEW b \in Bookings,
                 deal[b].is_processed \/ deal[b].status = "rejected" \/ booking[b].is_active
          PROVE  ~booking[b].is_open
      <3>1. Agree(booking[b], deal[b], overtaken) BY Types
      <3> QED BY <2>1, <3>1 DEF Agree, Settled
    <2> QED BY <2>1 DEF SettledIsClosed
  <1> QED BY <1>1, SpecInv, PTL

(* The price of a rental, whoever priced it, is that of its time up to      *)
(* whole cycles of the calendar.                                            *)
THEOREM PricesUpToCycles == Spec => []PricedUpToCycles
  <1>1. Inv => PricedUpToCycles
    <2> SUFFICES ASSUME Inv PROVE PricedUpToCycles
      OBVIOUS
    <2>1. ASSUME NEW b \in Bookings, deal[b].amount # 0
          PROVE  (deal[b].amount - (span[b].end - span[b].start + 1)) % Cycle = 0
      <3>1. span[b] \in Spans /\ Sound(deal[b], span[b]) BY Types
      <3>2. deal[b].amount = Units(span[b]) BY <2>1, <3>1 DEF Sound
      <3> QED BY <3>1, <3>2, UnitsPriced
    <2> QED BY <2>1 DEF PricedUpToCycles
  <1> QED BY <1>1, SpecInv, PTL

-----------------------------------------------------------------------------
(* What holds of the steps, until a request is overtaken *)

(* The rivals of a payment are those whom the calendar turns away: a booking *)
(* is open and linked, with a deal online, exactly while it asks for its    *)
(* time or has agreed on it.                                                *)
LEMMA RivalsAsk ==
  ASSUME Inv, ~overtaken, NEW b \in Bookings, NEW c \in Bookings, c # b
  PROVE  c \in Rivals(b) <=> Stage(c) \in {"asked", "agreed"} /\ Overlap(span[b], span[c])
  <1>1. booking[c] \in Booking /\ deal[c] \in Deal
        /\ Agree(booking[c], deal[c], overtaken) /\ Sound(deal[c], span[c])
    BY Types
  <1>2. Stage(c) \in {"asked", "agreed"} <=>
          booking[c].is_open /\ booking[c].linked /\ deal[c].type = "online"
    BY <1>1 DEF Stage, Exists, Agree, Sound, Settled, Opened, Deal, Booking
  <1> HIDE DEF Overlap
  <1> QED BY <1>2 DEF Rivals

LEMMA StageOfRows ==
  ASSUME NEW b \in Bookings
  PROVE  Stage(b) = StageOf(booking[b], deal[b]) /\ Stage(b)' = StageOf(booking'[b], deal'[b])
  BY DEF Stage, StageOf, Exists

(* A step that writes the rows of one booking moves that booking only. *)
LEMMA OneStageMoves ==
  ASSUME Inv, NEW b \in Bookings, NEW k, NEW d,
         booking' = [booking EXCEPT ![b] = k],
         deal' = [deal EXCEPT ![b] = d]
  PROVE  Stages' = [Stages EXCEPT ![b] = StageOf(k, d)]
  <1>1. booking \in [Bookings -> Booking] /\ deal \in [Bookings -> Deal]
    BY DEF Inv, TypeOK
  <1>2. ASSUME NEW c \in Bookings
        PROVE  Stage(c)' = IF c = b THEN StageOf(k, d) ELSE Stage(c)
    <2>1. booking'[c] = (IF c = b THEN k ELSE booking[c])
          /\ deal'[c] = (IF c = b THEN d ELSE deal[c])
      BY <1>1
    <2> QED BY <2>1, StageOfRows
  <1> QED BY <1>2 DEF Stages

LEMMA OnwardStep ==
  ASSUME Inv, NEW b \in Bookings, NEW k, NEW d,
         booking' = [booking EXCEPT ![b] = k],
         deal' = [deal EXCEPT ![b] = d],
         UNCHANGED span,
         Onward(StageOf(booking[b], deal[b]), StageOf(k, d))
  PROVE  [Calendar!Next]_<<Stages, span>>
  <1> DEFINE t == StageOf(k, d)
  <1>1. Stages' = [Stages EXCEPT ![b] = t] BY OneStageMoves
  <1>2. Stages[b] = StageOf(booking[b], deal[b]) BY StageOfRows DEF Stages
  <1> HIDE DEF t
  <1>3. CASE t = Stages[b]
    BY <1>1, <1>3 DEF Stages
  <1>4. CASE Stages[b] = "none" /\ t \in {"asked", "held"}
    BY <1>1, <1>4 DEF Calendar!Next, Calendar!Ask, Calendar!WalkIn
  <1>5. CASE Stages[b] = "asked" /\ t = "agreed"
    BY <1>1, <1>5 DEF Calendar!Next, Calendar!Agree
  <1>6. CASE t = "gone" /\ t # Stages[b]
    BY <1>1, <1>6 DEF Calendar!Next, Calendar!Drop
  <1> QED BY <1>2, <1>3, <1>4, <1>5, <1>6 DEF Onward, t

LEMMA PaySteps ==
  ASSUME Inv, NEW w \in Workers, Pay(w), ~overtaken'
  PROVE  Calendar!Next
  <1> DEFINE b == req[w].of
             R == req[w].rivals
  <1>1. req[w].op = "pay" /\ req[w].next = "save" /\ End(w) BY DEF Pay, Saves
  <1>2. /\ UNCHANGED span /\ Current(w) /\ ~overtaken
        /\ b \in Bookings
    BY <1>1, InTime, EndsWell, SavedRows
  <1>3. /\ req[w].deal[b] = deal[b] /\ req[w].booking[b] = booking[b]
        /\ R = Rivals(b)
    BY <1>1, <1>2 DEF Current
  <1>4. Stage(b) = "agreed"
    <2>1. deal[b].status = "accepted" /\ ~deal[b].is_processed /\ booking[b].linked
      BY <1>2, <1>3, PayRows
    <2>2. deal[b].type = "online" BY <1>2, <2>1, Types DEF Sound
    <2> QED BY <2>1, <2>2 DEF Stage, Exists
  <1>5. ASSUME NEW c \in Bookings
        PROVE  Stage(c)' = CASE c = b -> "held"
                             [] c # b /\ Stage(c) \in {"asked", "agreed"}
                                  /\ Overlap(span[b], span[c]) -> "gone"
                             [] OTHER -> Stage(c)
    <2> DEFINE d == req[w].deal[c]
               k == req[w].booking[c]
    <2>1. d \in Deal /\ k \in Booking BY PayRows
    <2>2. CASE c = b
      <3>1. deal'[c] = Paid(d) /\ booking'[c] = Closed(k) /\ d.status = "accepted" /\ k.linked
        BY <2>2, PayRows
      <3>2. Paid(d).status = "accepted" /\ Paid(d).is_processed BY <2>1, <3>1, PaidRow
      <3>3. Closed(k).linked BY <2>1, <3>1, BookingRows
      <3>4. StageOf(booking'[c], deal'[c]) = "held" BY <3>1, <3>2, <3>3 DEF StageOf
      <3> QED BY <2>2, <3>4, StageOfRows
    <2>3. CASE c \in R
      <3>1. /\ deal'[c] = Refunded(d) /\ booking'[c] = Closed(k) /\ k.linked
            /\ c # b
        BY <2>3, PayRows
      <3>2. Refunded(d).status = "rejected" BY <2>1, RefundedRow
      <3>3. Closed(k).linked BY <2>1, <3>1, BookingRows
      <3>4. StageOf(booking'[c], deal'[c]) = "gone" BY <3>1, <3>2, <3>3 DEF StageOf
      <3> HIDE DEF Overlap
      <3> QED BY <1>2, <1>3, <2>3, <3>1, <3>4, StageOfRows, RivalsAsk
    <2>4. CASE c # b /\ c \notin R
      <3>1. deal'[c] = deal[c] /\ booking'[c] = booking[c] BY <2>4, PayRows
      <3>2. Stage(c)' = Stage(c) BY <3>1, StageOfRows
      <3> HIDE DEF Overlap
      <3> QED BY <1>2, <1>3, <2>4, <3>2, RivalsAsk
    <2> QED BY <2>2, <2>3, <2>4
  <1>6. Stages' = [c \in Bookings |->
          CASE c = b -> "held"
            [] c # b /\ Stages[c] \in {"asked", "agreed"} /\ Overlap(span[b], span[c]) -> "gone"
            [] OTHER -> Stages[c]]
    BY <1>5 DEF Stages
  <1>7. Stages[b] = "agreed" BY <1>2, <1>4 DEF Stages
  <1>8. Calendar!Hold(b) BY <1>2, <1>6, <1>7 DEF Calendar!Hold
  <1> QED BY <1>2, <1>8 DEF Calendar!Next

(* Until a request saves rows that another has changed since it read them,  *)
(* the requests implement the calendar: whoever pays an agreed rental turns *)
(* away all who ask for an overlapping time, and nobody who was turned away *)
(* comes back.                                                              *)
THEOREM RentalsImplementCalendar == Spec => ImplementsCalendar
  <1>1. Init => Calendar!Init
    <2> SUFFICES ASSUME Init PROVE Calendar!Init
      OBVIOUS
    <2>1. ASSUME NEW b \in Bookings PROVE Stage(b) = "none"
      <3>1. deal[b] = NoDeal BY DEF Init
      <3> QED BY <3>1, BlankRows DEF Stage, Exists
    <2>2. Stages = [b \in Bookings |-> "none"] BY <2>1 DEF Stages
    <2> QED BY <2>2 DEF Init, Calendar!Init
  <1>2. Inv /\ [Next]_vars =>
          [UNCHANGED <<booking, deal, span>> \/ overtaken' \/ Calendar!Next]_<<Stages, span>>
    <2> SUFFICES ASSUME Inv, [Next]_vars
                 PROVE  UNCHANGED <<booking, deal, span>> \/ overtaken'
                        \/ [Calendar!Next]_<<Stages, span>>
      OBVIOUS
    <2>1. CASE UNCHANGED vars
      BY <2>1 DEF vars
    <2>2. ASSUME NEW b \in Bookings, Booked(b) PROVE [Calendar!Next]_<<Stages, span>>
      BY <2>2, OnwardStep DEF Booked
    <2>3. ASSUME NEW w \in Workers, NEW b \in Bookings, Stored(w, b), ~overtaken'
          PROVE  [Calendar!Next]_<<Stages, span>>
      <3>1. UNCHANGED span BY <2>3 DEF Stored, End
      <3> QED BY <2>3, <3>1, OnwardStep DEF Stored
    <2> QED BY <2>1, <2>2, <2>3, Steps, PaySteps
  <1> QED BY <1>1, <1>2, SpecInv, PTL DEF Spec, ImplementsCalendar

(* A paid rental is given up only against a refund, except when its client  *)
(* rejected the payment he had made or a request was overtaken.             *)
THEOREM PaidKeptUntilRefunded == Spec => PaidUntilRefunded
  <1> DEFINE Kept(b) ==
        deal[b].is_processed /\ ~deal'[b].is_processed =>
          \/ deal'[b].status = "rejected" /\ deal'[b].payment_status = "refunded"
          \/ deal[b].payment_status = "rejected"
          \/ overtaken'
  <1>1. Inv /\ [Next]_vars => [\A b \in Bookings : Kept(b)]_vars
    <2> SUFFICES ASSUME Inv, [Next]_vars, NEW b \in Bookings PROVE Kept(b)
      OBVIOUS
    <2>1. CASE UNCHANGED <<booking, span, deal, overtaken>>
      BY <2>1
    <2>2. ASSUME NEW c \in Bookings, Booked(c) PROVE Kept(b)
      <3>1. PICK d \in Deal : deal' = [deal EXCEPT ![c] = d] /\ (d = deal[c] \/ deal[c] = NoDeal)
        BY <2>2 DEF Booked
      <3>2. deal \in [Bookings -> Deal] BY DEF Inv, TypeOK
      <3>3. deal'[b] = deal[b] \/ deal[b] = NoDeal BY <3>1, <3>2
      <3> QED BY <3>3, BlankRows
    <2>3. ASSUME NEW w \in Workers, NEW c \in Bookings, Stored(w, c) PROVE Kept(b)
      <3>1. PICK d \in Deal : /\ deal' = [deal EXCEPT ![c] = d]
                              /\ ~overtaken' => GivenUp(deal[c], d)
        BY <2>3 DEF Stored
      <3>2. deal \in [Bookings -> Deal] BY DEF Inv, TypeOK
      <3>3. deal'[b] = deal[b] \/ (b = c /\ deal'[b] = d) BY <3>1, <3>2
      <3> QED BY <3>1, <3>3 DEF GivenUp
    <2>4. ASSUME NEW w \in Workers, Pay(w), ~overtaken' PROVE Kept(b)
      <3> DEFINE d == req[w].deal[b]
      <3>1. d \in Deal /\ Current(w) /\ req[w].op = "pay"
        BY <2>4, PayRows, InTime DEF Pay, Saves
      <3>2. CASE b = req[w].of
        <4>1. deal'[b] = Paid(d) BY <2>4, <3>2, PayRows
        <4> QED BY <3>1, <4>1, PaidRow
      <3>3. CASE b \in req[w].rivals
        <4>1. deal'[b] = Refunded(d) BY <2>4, <3>3, PayRows
        <4>2. d = deal[b] BY <3>1, <3>3 DEF Current
        <4>3. /\ Refunded(d).status = "rejected"
              /\ Refunded(d).payment_status =
                   IF d.payment_status = "accepted" THEN "refunded" ELSE d.payment_status
          BY <3>1, RefundedRow
        <4> QED BY <4>1, <4>2, <4>3, Types DEF Sound
      <3>4. CASE b # req[w].of /\ b \notin req[w].rivals
        BY <2>4, <3>4, PayRows
      <3> QED BY <3>2, <3>3, <3>4
    <2> QED BY <2>1, <2>2, <2>3, <2>4, Steps DEF vars
  <1> QED BY <1>1, SpecInv, PTL DEF Spec, PaidUntilRefunded

=============================================================================
