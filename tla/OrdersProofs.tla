---------------------------- MODULE OrdersProofs ----------------------------
(***************************************************************************)
(* Orders proved for any number of carts, orders and card limits.          *)
(*                                                                         *)
(* Whatever the interleaving of any number of workers: the type invariant, *)
(* and that no whole-row save writes an inconsistent order.                *)
(*                                                                         *)
(* One request at a time: every order follows OrderLifecycle; the amounts  *)
(* of accepted orders, the stock, the client's card and the purchase ids   *)
(* are what they should be.                                                *)
(***************************************************************************)
EXTENDS Orders, SumTheorems, TLAPS

-----------------------------------------------------------------------------
(* The inductive invariant.  A stale row can be written back long after it *)
(* was read, so the rows in flight are constrained as those in the table.  *)

CartPhases == {"checkout", "edit", "emptied", "totals"}

InFlight(r) ==
  /\ r.pc \in CartPhases => r.cart \in Carts
  /\ Consistent(r.row)
  /\ r.pc \in {"payment", "payment_read"} => r.row.payment_status # "accepted"
  /\ r.pc = "accept" => r.row.status = "accepted"

Inv ==
  /\ TypeOK
  /\ RowsConsistent
  /\ \A w \in Workers : InFlight(req[w])

-----------------------------------------------------------------------------
(* What the rows the handlers write are. *)

LEMMA IdleIsRequest == Idle \in Request /\ InFlight(Idle) /\ AbsentRow \in Row
  BY DEF Idle, Request, InFlight, Phases, AbsentRow, Row, Consistent, CartPhases

(* Transaction.save() keeps a row a row, and consistent. *)
LEMMA SavedRow ==
  ASSUME NEW r \in Row
  PROVE  Saved(r) \in Row /\ (Consistent(r) => Consistent(Saved(r)))
  BY DEF Saved, Row, Consistent

LEMMA RefundedRow ==
  ASSUME NEW r \in Row
  PROVE  Refunded(r) \in Row /\ Consistent(Refunded(r))
  BY DEF Refunded, Saved, Row, Consistent

LEMMA ToBePaidRow ==
  ASSUME NEW r \in Request
  PROVE  /\ ToBePaid(r) \in Row
         /\ r.row.payment_status # "accepted" /\ Consistent(r.row) => Consistent(ToBePaid(r))
  BY DEF ToBePaid, Saved, Request, Row, Consistent

LEMMA CartOfIsCart ==
  ASSUME NEW t, HasCart(t)
  PROVE  CartOf(t) \in Carts
  BY DEF HasCart, CartOf

LEMMA LoadedRequest ==
  ASSUME Inv, NEW t \in Txns
  PROVE  /\ Loaded(t) \in Request
         /\ Loaded(t).row = row[t]
  <1>1. CASE HasCart(t)
    <2>1. CartOf(t) \in Carts BY <1>1, CartOfIsCart
    <2> QED BY <1>1, <2>1, IdleIsRequest DEF Loaded, Inv, TypeOK, Request, Idle
  <1>2. CASE ~HasCart(t)
    BY <1>2, IdleIsRequest DEF Loaded, Inv, TypeOK, Request, Idle
  <1> QED BY <1>1, <1>2

THEOREM InitInv == Init => Inv
  <1> SUFFICES ASSUME Init PROVE Inv OBVIOUS
  <1>1. TypeOK
    BY OrdersAssumption, IdleIsRequest DEF Init, TypeOK, CartRow
  <1>2. RowsConsistent
    BY DEF Init, RowsConsistent, Consistent, AbsentRow
  <1>3. \A w \in Workers : InFlight(req[w])
    BY IdleIsRequest DEF Init
  <1> QED BY <1>1, <1>2, <1>3 DEF Inv

-----------------------------------------------------------------------------
(* One worker's request changes; one row is written. *)

LEMMA RequestChanges ==
  ASSUME Inv, NEW w \in Workers, NEW r \in Request, InFlight(r),
         req' = [req EXCEPT ![w] = r]
  PROVE  req' \in [Workers -> Request] /\ \A v \in Workers : InFlight(req'[v])
  BY DEF Inv, TypeOK

LEMMA RowChanges ==
  ASSUME Inv, NEW t, NEW r \in Row, Consistent(r), row' = [row EXCEPT ![t] = r]
  PROVE  row' \in [Txns -> Row] /\ RowsConsistent'
  BY DEF Inv, TypeOK, RowsConsistent

LEMMA WorkerFinishes ==
  ASSUME Inv, NEW w \in Workers, Finish(w)
  PROVE  req' \in [Workers -> Request] /\ \A v \in Workers : InFlight(req'[v])
  BY IdleIsRequest, RequestChanges DEF Finish

LEMMA WorkerBegins ==
  ASSUME Inv, NEW w \in Workers, NEW pc \in Phases, NEW r \in Request, Begin(w, pc, r),
         InFlight([r EXCEPT !.pc = pc])
  PROVE  req' \in [Workers -> Request] /\ \A v \in Workers : InFlight(req'[v])
  <1>1. [r EXCEPT !.pc = pc] \in Request BY DEF Request
  <1> QED BY <1>1, RequestChanges DEF Begin

LEMMA RequestInFlight ==
  ASSUME Inv, NEW w \in Workers
  PROVE  req[w] \in Request /\ InFlight(req[w])
  BY DEF Inv, TypeOK

LEMMA IdIssued ==
  ASSUME Inv, NEW w \in Workers, IssueId(w)
  PROVE  issued' \in Seq(Nat) /\ runningId' \in Nat
  <1>1. req[w].id \in Nat BY RequestInFlight DEF Request
  <1> QED BY <1>1 DEF IssueId, Inv, TypeOK

LEMMA StockTaken ==
  ASSUME Inv, NEW r \in Request, TakeFromStock(r) \/ ReturnToStock(r)
  PROVE  stock' \in Nat
  BY DEF TakeFromStock, ReturnToStock, Inv, TypeOK, Request

LEMMA ReachedLimits == \A total : Reached(total) \subseteq CardLimits
  BY DEF Reached

-----------------------------------------------------------------------------
(* The cart's steps. *)

LEMMA CartParts ==
  ASSUME Inv, NEW c \in Carts
  PROVE  /\ cart[c].txn \in Txns \union {NoTxn} /\ count[c] \in Nat
         /\ [cart[c] EXCEPT !.state = "absent"] \in CartRow
         /\ \A t \in Txns \union {NoTxn} : Closed(c, t) \in [Carts -> CartRow]
  <1>1. cart[c] \in CartRow /\ count[c] \in Nat BY DEF Inv, TypeOK
  <1>2. cart[c].txn \in Txns \union {NoTxn} BY <1>1 DEF CartRow
  <1>3. [cart[c] EXCEPT !.state = "absent"] \in CartRow BY <1>1 DEF CartRow
  <1>4. \A t \in Txns \union {NoTxn} : Closed(c, t) \in [Carts -> CartRow]
    BY DEF Inv, TypeOK, Closed, CartRow
  <1> QED BY <1>1, <1>2, <1>3, <1>4

LEMMA ChangeItemInv ==
  ASSUME Inv, NEW w \in Workers, NEW c \in Carts, NEW change \in {-1, 1},
         ChangeItem(w, c, change)
  PROVE  Inv'
  <1>1. cart' \in [Carts -> CartRow] /\ count' \in [Carts -> Nat]
    <2>1. CASE /\ cart' = [cart EXCEPT ![c] = [state |-> "open", txn |-> NoTxn]]
               /\ count' = [count EXCEPT ![c] = IF change > 0 THEN change ELSE 0]
      BY <2>1 DEF Inv, TypeOK, CartRow
    <2>2. CASE /\ cart' = [cart EXCEPT ![c].state = "absent"]
               /\ count' = [count EXCEPT ![c] = 0]
      <3>1. cart' = [cart EXCEPT ![c] = [cart[c] EXCEPT !.state = "absent"]]
        BY <2>2
      <3> QED BY <2>2, <3>1, CartParts DEF Inv, TypeOK
    <2>3. CASE /\ count[c] + change \in 1..MaxCount
               /\ count' = [count EXCEPT ![c] = count[c] + change]
               /\ UNCHANGED cart
      <3>1. count[c] + change \in Nat BY <2>3, OrdersAssumption
      <3> QED BY <2>3, <3>1 DEF Inv, TypeOK
    <2> QED BY <2>1, <2>2, <2>3 DEF ChangeItem
  <1> QED BY <1>1 DEF ChangeItem, Inv, TypeOK, RowsConsistent, counters

LEMMA BeginEditInv ==
  ASSUME Inv, NEW w \in Workers, NEW c \in Carts, NEW wanted \in 0..MaxCount,
         BeginEdit(w, c, wanted)
  PROVE  Inv'
  <1> DEFINE r == [Idle EXCEPT !.cart = c, !.txn = cart[c].txn, !.total = wanted]
  <1>1. r \in Request
    <2>1. cart[c].txn \in Txns \union {NoTxn} /\ wanted \in Nat
      <3>1. wanted \in Nat BY OrdersAssumption
      <3> QED BY <3>1, CartParts
    <2> QED BY <2>1, IdleIsRequest DEF Request, Idle
  <1>2. InFlight([r EXCEPT !.pc = "edit"])
    BY DEF InFlight, Consistent, Idle, AbsentRow
  <1> HIDE DEF r
  <1>3. req' \in [Workers -> Request] /\ \A v \in Workers : InFlight(req'[v])
    BY <1>1, <1>2, WorkerBegins DEF BeginEdit, Phases, r
  <1> QED BY <1>3 DEF BeginEdit, Inv, TypeOK, RowsConsistent, counters

LEMMA DeleteLinesInv ==
  ASSUME Inv, NEW w \in Workers, DeleteLines(w)
  PROVE  Inv'
  <1>1. [req[w] EXCEPT !.pc = "emptied"] \in Request
    BY RequestInFlight DEF Request, Phases
  <1>2. InFlight([req[w] EXCEPT !.pc = "emptied"])
    BY RequestInFlight DEF DeleteLines, InFlight, CartPhases, Request
  <1>3. req' \in [Workers -> Request] /\ \A v \in Workers : InFlight(req'[v])
    BY <1>1, <1>2, RequestChanges DEF DeleteLines
  <1>4. count' \in [Carts -> Nat] BY DEF DeleteLines, Inv, TypeOK
  <1> QED BY <1>3, <1>4 DEF DeleteLines, Inv, TypeOK, RowsConsistent, counters

LEMMA CreateLinesInv ==
  ASSUME Inv, NEW w \in Workers, CreateLines(w)
  PROVE  Inv'
  <1>1. [req[w] EXCEPT !.pc = "totals"] \in Request
    BY RequestInFlight DEF Request, Phases
  <1>2. InFlight([req[w] EXCEPT !.pc = "totals"])
    BY RequestInFlight DEF CreateLines, InFlight, CartPhases, Request
  <1>3. req' \in [Workers -> Request] /\ \A v \in Workers : InFlight(req'[v])
    BY <1>1, <1>2, RequestChanges, WorkerFinishes DEF CreateLines
  <1>4. req[w].total \in Nat BY RequestInFlight DEF Request
  <1>5. count' \in [Carts -> Nat] BY <1>4 DEF CreateLines, Inv, TypeOK
  <1> QED BY <1>3, <1>5 DEF CreateLines, Inv, TypeOK, RowsConsistent, counters

LEMMA SaveTotalsInv ==
  ASSUME Inv, NEW w \in Workers, SaveTotals(w)
  PROVE  Inv'
  <1> DEFINE t == req[w].txn
             n == count[req[w].cart]
             r == [row[t] EXCEPT !.amount = n]
  <1>1. n \in Nat
    <2>1. req[w].cart \in Carts
      BY RequestInFlight DEF SaveTotals, InFlight, CartPhases
    <2> QED BY <2>1 DEF Inv, TypeOK
  <1>2. row' \in [Txns -> Row] /\ RowsConsistent'
    <2>1. row' = [row EXCEPT ![t] = r] BY DEF SaveTotals
    <2>2. CASE t \in Txns
      <3>1. row[t] \in Row /\ Consistent(row[t])
        BY <2>2 DEF Inv, TypeOK, RowsConsistent
      <3>2. r \in Row /\ Consistent(r)
        BY <3>1, <1>1 DEF Row, Consistent
      <3> QED BY <2>1, <3>2, RowChanges
    <2>3. CASE t \notin Txns
      BY <2>1, <2>3 DEF Inv, TypeOK, RowsConsistent
    <2> QED BY <2>2, <2>3
  <1> QED BY <1>2, WorkerFinishes DEF SaveTotals, Inv, TypeOK, counters

-----------------------------------------------------------------------------
(* Checkout. *)

LEMMA BeginCheckoutInv ==
  ASSUME Inv, NEW w \in Workers, NEW c \in Carts, NEW delivery \in Deliveries,
         BeginCheckout(w, c, delivery)
  PROVE  Inv'
  <1> DEFINE r == [Idle EXCEPT !.cart = c, !.delivery = delivery]
  <1>1. r \in Request
    BY OrdersAssumption, IdleIsRequest DEF Request, Idle
  <1>2. InFlight([r EXCEPT !.pc = "checkout"])
    BY DEF InFlight, Consistent, Idle, AbsentRow
  <1> HIDE DEF r
  <1>3. req' \in [Workers -> Request] /\ \A v \in Workers : InFlight(req'[v])
    BY <1>1, <1>2, WorkerBegins DEF BeginCheckout, Phases, r
  <1> QED BY <1>3 DEF BeginCheckout, Inv, TypeOK, RowsConsistent, counters

LEMMA CreateOrderInv ==
  ASSUME Inv, NEW w \in Workers, CreateOrder(w)
  PROVE  Inv'
  <1> DEFINE c == req[w].cart
  <1>1. CASE cart[c].txn # NoTxn
    <2>1. [req[w] EXCEPT !.pc = "ordered"] \in Request
      BY RequestInFlight DEF Request, Phases
    <2>2. InFlight([req[w] EXCEPT !.pc = "ordered"])
      BY RequestInFlight DEF InFlight, Request, CartPhases
    <2>3. req' \in [Workers -> Request] /\ \A v \in Workers : InFlight(req'[v])
      BY <1>1, <2>1, <2>2, RequestChanges DEF CreateOrder
    <2> QED BY <1>1, <2>3 DEF CreateOrder, Inv, TypeOK, RowsConsistent, counters
  <1>2. CASE cart[c].txn = NoTxn
    <2> DEFINE new == Saved([AbsentRow EXCEPT !.status = "in_progress", !.amount = count[c]])
    <2>1. PICK t \in Txns :
            /\ row' = [row EXCEPT ![t] = new]
            /\ req' = [req EXCEPT ![w] =
                        [req[w] EXCEPT !.pc = "ordered", !.txn = t, !.row = new]]
      BY <1>2 DEF CreateOrder
    <2>2. count[c] \in Nat
      BY RequestInFlight DEF CreateOrder, InFlight, CartPhases, Inv, TypeOK
    <2>3. new \in Row /\ Consistent(new)
      BY <2>2 DEF Saved, AbsentRow, Row, Consistent
    <2> HIDE DEF new
    <2> DEFINE r == [req[w] EXCEPT !.pc = "ordered", !.txn = t, !.row = new]
    <2>4. r \in Request
      BY <2>3, RequestInFlight DEF Request, Phases
    <2>5. InFlight(r)
      BY <2>3, RequestInFlight DEF InFlight, Request, CartPhases
    <2>6. req' \in [Workers -> Request] /\ \A v \in Workers : InFlight(req'[v])
      BY <2>1, <2>4, <2>5, RequestChanges
    <2>7. row' \in [Txns -> Row] /\ RowsConsistent'
      BY <2>1, <2>3, RowChanges
    <2> QED BY <2>6, <2>7 DEF CreateOrder, Inv, TypeOK, counters
  <1> QED BY <1>1, <1>2

LEMMA CloseCartInv ==
  ASSUME Inv, NEW w \in Workers, CloseCart(w)
  PROVE  Inv'
  <1>1. [req[w] EXCEPT !.pc = "closed"] \in Request
    BY RequestInFlight DEF Request, Phases
  <1>2. InFlight([req[w] EXCEPT !.pc = "closed"])
    BY RequestInFlight DEF InFlight, CartPhases, Request
  <1>3. req' \in [Workers -> Request] /\ \A v \in Workers : InFlight(req'[v])
    BY <1>1, <1>2, RequestChanges, WorkerFinishes DEF CloseCart
  <1>4. cart' \in [Carts -> CartRow]
    <2>1. req[w].txn \in Txns \union {NoTxn}
      BY RequestInFlight DEF Request
    <2> QED BY <2>1 DEF CloseCart, Closed, CartRow, Inv, TypeOK
  <1> QED BY <1>3, <1>4 DEF CloseCart, Inv, TypeOK, RowsConsistent, counters

LEMMA SetDeliveryInv ==
  ASSUME Inv, NEW w \in Workers, SetDelivery(w)
  PROVE  Inv'
  <1> DEFINE r == req[w]
             saved == [r.row EXCEPT !.delivery_type = r.delivery]
             next == [Idle EXCEPT !.pc = "confirm", !.txn = r.txn]
  <1>1. r \in Request /\ InFlight(r) BY RequestInFlight
  <1>2. saved \in Row /\ Consistent(saved)
    BY <1>1 DEF Request, Row, InFlight, Consistent
  <1>3. row' \in [Txns -> Row] /\ RowsConsistent'
    <2>1. Saved(saved) \in Row /\ Consistent(Saved(saved)) BY <1>2, SavedRow
    <2> QED BY <2>1, RowChanges DEF SetDelivery
  <1>4. next \in Request /\ InFlight(next)
    <2>1. r.txn \in Txns \union {NoTxn} BY <1>1 DEF Request
    <2>2. next \in Request BY <2>1, IdleIsRequest DEF Request, Phases
    <2>3. InFlight(next) BY DEF InFlight, Idle, AbsentRow, Consistent, CartPhases
    <2> QED BY <2>2, <2>3
  <1>5. req' \in [Workers -> Request] /\ \A v \in Workers : InFlight(req'[v])
    BY <1>4, RequestChanges, WorkerFinishes DEF SetDelivery
  <1> QED BY <1>3, <1>5 DEF SetDelivery, Inv, TypeOK, counters

LEMMA BeginAnonymousInv ==
  ASSUME Inv, NEW w \in Workers, NEW c \in Carts, BeginAnonymous(w, c)
  PROVE  Inv'
  <1> DEFINE r == [Idle EXCEPT !.cart = c, !.count = count[c],
                               !.stock = stock, !.id = runningId]
  <1>1. r \in Request
    BY IdleIsRequest DEF Request, Idle, Inv, TypeOK
  <1>2. InFlight([r EXCEPT !.pc = "anonymous"])
    BY DEF InFlight, Consistent, Idle, AbsentRow
  <1> HIDE DEF r
  <1>3. req' \in [Workers -> Request] /\ \A v \in Workers : InFlight(req'[v])
    BY <1>1, <1>2, WorkerBegins DEF BeginAnonymous, Phases, r
  <1> QED BY <1>3 DEF BeginAnonymous, Inv, TypeOK, RowsConsistent, counters

LEMMA CommitAnonymousInv ==
  ASSUME Inv, NEW w \in Workers, CommitAnonymous(w)
  PROVE  Inv'
  <1> DEFINE r == req[w]
             sold == [AbsentRow EXCEPT !.status = "accepted", !.payment_status = "accepted",
                                       !.is_processed = TRUE, !.type = "offline",
                                       !.delivery_type = "cart_checkout", !.amount = r.count]
  <1>1. r \in Request /\ r.count \in Nat BY RequestInFlight DEF Request
  <1>2. PICK t \in Txns : /\ row' = [row EXCEPT ![t] = Saved(sold)]
                          /\ cart' = Closed(r.cart, t)
    BY DEF CommitAnonymous
  <1>3. sold \in Row /\ Consistent(sold)
    BY <1>1 DEF AbsentRow, Row, Consistent
  <1>4. row' \in [Txns -> Row] /\ RowsConsistent'
    BY <1>2, <1>3, SavedRow, RowChanges
  <1>5. cart' \in [Carts -> CartRow] BY <1>2 DEF Closed, CartRow, Inv, TypeOK
  <1>6. issued' \in Seq(Nat) /\ runningId' \in Nat BY IdIssued DEF CommitAnonymous
  <1>7. stock' \in Nat BY <1>1, StockTaken DEF CommitAnonymous
  <1>8. req' \in [Workers -> Request] /\ \A v \in Workers : InFlight(req'[v])
    BY WorkerFinishes DEF CommitAnonymous
  <1> QED BY <1>4, <1>5, <1>6, <1>7, <1>8 DEF CommitAnonymous, Inv, TypeOK

-----------------------------------------------------------------------------
(* The seller accepts. *)

LEMMA BeginCompleteInv ==
  ASSUME Inv, NEW w \in Workers, NEW t \in Txns, BeginComplete(w, t)
  PROVE  Inv'
  <1>1. Loaded(t) \in Request /\ Loaded(t).row = row[t] BY LoadedRequest
  <1>2. Consistent(row[t]) BY DEF Inv, RowsConsistent
  <1>3. InFlight([Loaded(t) EXCEPT !.pc = "complete"])
    BY <1>1, <1>2 DEF InFlight, Request, CartPhases
  <1>4. req' \in [Workers -> Request] /\ \A v \in Workers : InFlight(req'[v])
    BY <1>1, <1>3, WorkerBegins DEF BeginComplete, Phases
  <1> QED BY <1>4 DEF BeginComplete, Inv, TypeOK, RowsConsistent, counters

LEMMA AnswerFromCacheInv ==
  ASSUME Inv, NEW w \in Workers, NEW t \in Txns, AnswerFromCache(w, t)
  PROVE  Inv'
  <1> DEFINE r == [Idle EXCEPT !.txn = t]
  <1>1. r \in Request BY IdleIsRequest DEF Request, Idle
  <1>2. InFlight([r EXCEPT !.pc = "answered"])
    BY DEF InFlight, Idle, AbsentRow, Consistent, CartPhases
  <1> HIDE DEF r
  <1>3. req' \in [Workers -> Request] /\ \A v \in Workers : InFlight(req'[v])
    BY <1>1, <1>2, WorkerBegins DEF AnswerFromCache, Phases, r
  <1> QED BY <1>3 DEF AnswerFromCache, Inv, TypeOK, RowsConsistent, counters

LEMMA AnsweredInv ==
  ASSUME Inv, NEW w \in Workers, Answered(w)
  PROVE  Inv'
  BY WorkerFinishes DEF Answered, Inv, TypeOK, RowsConsistent, counters

LEMMA ExpireKeyInv ==
  ASSUME Inv, NEW t \in Txns, ExpireKey(t)
  PROVE  Inv'
  BY DEF ExpireKey, Inv, TypeOK, RowsConsistent, counters

LEMMA ReadForCompleteInv ==
  ASSUME Inv, NEW w \in Workers, ReadForComplete(w)
  PROVE  Inv'
  <1> DEFINE r(limits) == [req[w] EXCEPT !.pc = "complete_read", !.reached = limits]
  <1>1. PICK limits \in SUBSET CardLimits : req' = [req EXCEPT ![w] = r(limits)]
    BY ReachedLimits DEF ReadForComplete
  <1>2. r(limits) \in Request /\ InFlight(r(limits))
    BY RequestInFlight DEF Request, InFlight, CartPhases, Phases
  <1>3. req' \in [Workers -> Request] /\ \A v \in Workers : InFlight(req'[v])
    BY <1>1, <1>2, RequestChanges
  <1> QED BY <1>3 DEF ReadForComplete, Inv, TypeOK, RowsConsistent, counters

LEMMA CommitCompleteInv ==
  ASSUME Inv, NEW w \in Workers, CommitComplete(w)
  PROVE  Inv'
  <1> DEFINE t == req[w].txn
             n == req[w].count
             r == [row[t] EXCEPT !.status = "accepted", !.payment_status = "accepted",
                                 !.is_processed = TRUE, !.amount = n]
  <1>1. n \in Nat /\ req[w].reached \subseteq CardLimits
    BY RequestInFlight DEF Request
  <1>2. row' \in [Txns -> Row] /\ RowsConsistent'
    <2>1. row' = [row EXCEPT ![t] = r] BY DEF CommitComplete
    <2>2. CASE t \in Txns
      <3>1. row[t] \in Row BY <2>2 DEF Inv, TypeOK
      <3>2. r \in Row /\ Consistent(r) BY <3>1, <1>1 DEF Row, Consistent
      <3> QED BY <2>1, <3>2, RowChanges
    <2>3. CASE t \notin Txns
      BY <2>1, <2>3 DEF Inv, TypeOK, RowsConsistent
    <2> QED BY <2>2, <2>3
  <1>3. issued' \in Seq(Nat) /\ runningId' \in Nat BY IdIssued DEF CommitComplete
  <1>4. req' \in [Workers -> Request] /\ \A v \in Workers : InFlight(req'[v])
    BY WorkerFinishes DEF CommitComplete
  <1> QED BY <1>1, <1>2, <1>3, <1>4 DEF CommitComplete, Inv, TypeOK

LEMMA BeginPaymentInv ==
  ASSUME Inv, NEW w \in Workers, NEW t \in Txns, BeginPayment(w, t)
  PROVE  Inv'
  <1> DEFINE r == [Loaded(t) EXCEPT !.pc = "payment"]
  <1>1. Loaded(t) \in Request /\ Loaded(t).row = row[t] BY LoadedRequest
  <1>2. Consistent(row[t]) /\ row[t].payment_status # "accepted"
    BY DEF BeginPayment, Acceptable, Inv, RowsConsistent, Consistent
  <1>3. r \in Request /\ InFlight(r)
    BY <1>1, <1>2 DEF InFlight, Request, CartPhases, Phases
  <1>4. req' \in [Workers -> Request] /\ \A v \in Workers : InFlight(req'[v])
    BY <1>3, RequestChanges DEF BeginPayment
  <1> QED BY <1>4 DEF BeginPayment, Inv, TypeOK, RowsConsistent, counters

LEMMA ReadForPaymentInv ==
  ASSUME Inv, NEW w \in Workers, ReadForPayment(w)
  PROVE  Inv'
  <1> DEFINE n == count[req[w].cart]
             r(limits) == [req[w] EXCEPT !.pc = "payment_read", !.total = n,
                                         !.stock = stock, !.reached = limits]
  <1>1. PICK limits \in SUBSET CardLimits : req' = [req EXCEPT ![w] = r(limits)]
    BY ReachedLimits DEF ReadForPayment
  <1>2. n \in Nat
    <2>1. req[w].cart \in Carts BY RequestInFlight DEF ReadForPayment, Request
    <2> QED BY <2>1 DEF Inv, TypeOK
  <1>3. stock \in Nat BY DEF Inv, TypeOK
  <1>4. r(limits) \in Request
    BY <1>2, <1>3, RequestInFlight DEF Request, Phases
  <1>5. InFlight(r(limits))
    BY RequestInFlight DEF ReadForPayment, Request, InFlight, CartPhases
  <1>6. req' \in [Workers -> Request] /\ \A v \in Workers : InFlight(req'[v])
    BY <1>1, <1>4, <1>5, RequestChanges
  <1> QED BY <1>6 DEF ReadForPayment, Inv, TypeOK, RowsConsistent, counters

LEMMA CommitPaymentInv ==
  ASSUME Inv, NEW w \in Workers, CommitPayment(w)
  PROVE  Inv'
  <1> DEFINE r == req[w]
  <1>1. r \in Request /\ InFlight(r) BY RequestInFlight
  <1>2. ToBePaid(r) \in Row /\ Consistent(ToBePaid(r))
    BY <1>1, ToBePaidRow DEF CommitPayment, InFlight
  <1>3. row' \in [Txns -> Row] /\ RowsConsistent'
    BY <1>2, RowChanges DEF CommitPayment
  <1>4. issued' \in Seq(Nat) /\ runningId' \in Nat BY IdIssued DEF CommitPayment
  <1>5. stock' \in Nat BY <1>1, StockTaken DEF CommitPayment
  <1>6. card' \subseteq CardLimits BY <1>1 DEF CommitPayment, Request
  <1>7. req' \in [Workers -> Request] /\ \A v \in Workers : InFlight(req'[v])
    BY WorkerFinishes DEF CommitPayment
  <1> QED BY <1>3, <1>4, <1>5, <1>6, <1>7 DEF CommitPayment, Inv, TypeOK

-----------------------------------------------------------------------------
(* The client pays or declines, the seller refunds. *)

(* A handler that loads a row begins with the row as it stands. *)
LEMMA RowLoads ==
  ASSUME Inv, NEW w \in Workers, NEW t \in Txns, NEW pc \in {"accept", "reject", "refund"},
         Begin(w, pc, [Idle EXCEPT !.txn = t, !.row = row[t]]),
         pc = "accept" => row[t].status = "accepted"
  PROVE  req' \in [Workers -> Request] /\ \A v \in Workers : InFlight(req'[v])
  <1> DEFINE r == [Idle EXCEPT !.txn = t, !.row = row[t]]
  <1>1. row[t] \in Row /\ Consistent(row[t]) BY DEF Inv, TypeOK, RowsConsistent
  <1>2. r \in Request BY <1>1, IdleIsRequest DEF Request, Idle
  <1>3. InFlight([r EXCEPT !.pc = pc]) BY <1>1 DEF InFlight, Idle, CartPhases
  <1> HIDE DEF r
  <1> QED BY <1>2, <1>3, WorkerBegins DEF Phases, r

LEMMA BeginAcceptInv ==
  ASSUME Inv, NEW w \in Workers, NEW t \in Txns, BeginAccept(w, t)
  PROVE  Inv'
  BY RowLoads DEF BeginAccept, Inv, TypeOK, RowsConsistent, counters

LEMMA CommitAcceptInv ==
  ASSUME Inv, NEW w \in Workers, CommitAccept(w)
  PROVE  Inv'
  <1> DEFINE paid == [req[w].row EXCEPT !.payment_status = "accepted", !.is_processed = TRUE]
  <1>1. paid \in Row /\ Consistent(paid)
    BY RequestInFlight DEF CommitAccept, Request, InFlight, Row, Consistent
  <1>2. Saved(paid) \in Row /\ Consistent(Saved(paid)) BY <1>1, SavedRow
  <1>3. row' \in [Txns -> Row] /\ RowsConsistent' BY <1>2, RowChanges DEF CommitAccept
  <1> QED BY <1>3, WorkerFinishes DEF CommitAccept, Inv, TypeOK, counters

LEMMA BeginRejectInv ==
  ASSUME Inv, NEW w \in Workers, NEW t \in Txns, BeginReject(w, t)
  PROVE  Inv'
  BY RowLoads DEF BeginReject, Inv, TypeOK, RowsConsistent, counters

LEMMA CommitRejectInv ==
  ASSUME Inv, NEW w \in Workers, CommitReject(w)
  PROVE  Inv'
  <1> DEFINE declined == [req[w].row EXCEPT !.payment_status = "rejected"]
  <1>1. declined \in Row /\ Consistent(declined)
    BY RequestInFlight DEF Request, InFlight, Row, Consistent
  <1>2. Saved(declined) \in Row /\ Consistent(Saved(declined)) BY <1>1, SavedRow
  <1>3. row' \in [Txns -> Row] /\ RowsConsistent' BY <1>2, RowChanges DEF CommitReject
  <1> QED BY <1>3, WorkerFinishes DEF CommitReject, Inv, TypeOK, counters

LEMMA BeginRefundInv ==
  ASSUME Inv, NEW w \in Workers, NEW t \in Txns, BeginRefund(w, t)
  PROVE  Inv'
  BY RowLoads DEF BeginRefund, Inv, TypeOK, RowsConsistent, counters

LEMMA ReadForRefundInv ==
  ASSUME Inv, NEW w \in Workers, ReadForRefund(w)
  PROVE  Inv'
  <1> DEFINE t == req[w].txn
             n == IF HasCart(t) THEN count[CartOf(t)] ELSE 0
             r(limits, m) == [req[w] EXCEPT !.pc = "refund_read", !.stock = stock,
                                            !.count = m, !.reached = limits]
  <1>1. n \in Nat
    <2>1. CASE HasCart(t) BY <2>1, CartOfIsCart DEF Inv, TypeOK
    <2> QED BY <2>1
  <1> HIDE DEF n
  <1>2. PICK limits \in SUBSET CardLimits : req' = [req EXCEPT ![w] = r(limits, n)]
    BY ReachedLimits DEF ReadForRefund, n
  <1>3. stock \in Nat BY DEF Inv, TypeOK
  <1>4. r(limits, n) \in Request
    BY <1>1, <1>3, RequestInFlight DEF Request, Phases
  <1>5. InFlight(r(limits, n))
    BY RequestInFlight DEF Request, InFlight, CartPhases
  <1>6. req' \in [Workers -> Request] /\ \A v \in Workers : InFlight(req'[v])
    BY <1>2, <1>4, <1>5, RequestChanges
  <1> QED BY <1>6 DEF ReadForRefund, Inv, TypeOK, RowsConsistent, counters

LEMMA CommitRefundInv ==
  ASSUME Inv, NEW w \in Workers, CommitRefund(w)
  PROVE  Inv'
  <1> DEFINE r == req[w]
  <1>1. r \in Request /\ InFlight(r) BY RequestInFlight
  <1>2. Refunded(r.row) \in Row /\ Consistent(Refunded(r.row))
    BY <1>1, RefundedRow DEF Request
  <1>3. row' \in [Txns -> Row] /\ RowsConsistent'
    BY <1>2, RowChanges DEF CommitRefund
  <1>4. stock' \in Nat
    BY <1>1, StockTaken DEF CommitRefund, Inv, TypeOK
  <1>5. card' \subseteq CardLimits BY <1>1 DEF CommitRefund, Request, Inv, TypeOK
  <1>6. req' \in [Workers -> Request] /\ \A v \in Workers : InFlight(req'[v])
    BY WorkerFinishes DEF CommitRefund
  <1> QED BY <1>3, <1>4, <1>5, <1>6 DEF CommitRefund, Inv, TypeOK, counters

LEMMA ResetPurchaseIdInv ==
  ASSUME Inv, NEW w \in Workers, ResetPurchaseId(w)
  PROVE  Inv'
  BY DEF ResetPurchaseId, Inv, TypeOK, RowsConsistent

LEMMA FailInv ==
  ASSUME Inv, NEW w \in Workers, Fail(w)
  PROVE  Inv'
  BY WorkerFinishes DEF Fail, Inv, TypeOK, RowsConsistent, counters

-----------------------------------------------------------------------------
(* Every step preserves the invariant. *)
THEOREM NextInv == Inv /\ [Next]_vars => Inv'
  <1> SUFFICES ASSUME Inv, [Next]_vars PROVE Inv' OBVIOUS
  <1>1. CASE CartStep
    BY <1>1, ChangeItemInv, BeginEditInv, BeginCheckoutInv, BeginAnonymousInv DEF CartStep
  <1>2. CASE OrderStep
    BY <1>2, BeginCompleteInv, AnswerFromCacheInv, BeginPaymentInv, BeginAcceptInv,
       BeginRejectInv, BeginRefundInv DEF OrderStep
  <1>3. CASE HandlerStep
    <2>1. PICK w \in Workers :
            \/ DeleteLines(w) \/ CreateLines(w) \/ SaveTotals(w)
            \/ CreateOrder(w) \/ CloseCart(w) \/ SetDelivery(w) \/ CommitAnonymous(w)
            \/ ReadForComplete(w) \/ CommitComplete(w) \/ Answered(w)
            \/ ReadForPayment(w) \/ CommitPayment(w)
            \/ CommitAccept(w) \/ CommitReject(w)
            \/ ReadForRefund(w) \/ CommitRefund(w)
            \/ ResetPurchaseId(w)
            \/ Fail(w)
      BY <1>3 DEF HandlerStep
    <2> QED
      BY <2>1, DeleteLinesInv, CreateLinesInv, SaveTotalsInv, CreateOrderInv, CloseCartInv,
         SetDeliveryInv, CommitAnonymousInv, ReadForCompleteInv, CommitCompleteInv,
         AnsweredInv, ReadForPaymentInv, CommitPaymentInv, CommitAcceptInv, CommitRejectInv,
         ReadForRefundInv, CommitRefundInv, ResetPurchaseIdInv, FailInv
  <1>4. CASE \E t \in Txns : ExpireKey(t)
    BY <1>4, ExpireKeyInv
  <1>5. CASE UNCHANGED vars
    BY <1>5 DEF vars, counters, Inv, TypeOK, RowsConsistent
  <1> QED BY <1>1, <1>2, <1>3, <1>4, <1>5 DEF Next

(* Inv is an invariant: the rows and the requests in flight. *)
THEOREM SpecInv == Spec => []Inv
  <1> QED BY InitInv, NextInv, PTL DEF Spec

(* The state of carts, orders, stock, cards, counter and workers is always *)
(* of its type; in particular the stock never goes below zero.             *)
THEOREM TypeCorrect == Spec => []TypeOK
  <1>1. Inv => TypeOK BY DEF Inv
  <1> QED BY <1>1, SpecInv, PTL

(* However the handlers' loads and whole-row saves interleave, an order is *)
(* processed only if accepted, and its payment is accepted only if it is   *)
(* processed or refunded.                                                  *)
THEOREM OrdersConsistent == Spec => []RowsConsistent
  <1>1. Inv => RowsConsistent BY DEF Inv
  <1> QED BY <1>1, SpecInv, PTL

-----------------------------------------------------------------------------
(* One request at a time. *)

OneAtATime == \A v, w \in Workers : v = w

(* What the one request in flight still knows of its order when it writes. *)
Loading == {"payment", "payment_read", "accept", "reject", "refund", "refund_read"}

Current(r) ==
  /\ r.pc = "checkout" => r.txn = NoTxn
  /\ r.pc \in Loading \union {"complete", "complete_read"} => r.txn \in Txns
  /\ r.pc \in {"ordered", "closed"} /\ r.txn # NoTxn
       => r.row = row[r.txn] /\ Acceptable(r.txn)
  /\ r.pc \in Loading => r.row = row[r.txn]
  /\ r.pc \in {"complete", "complete_read", "payment", "payment_read"}
       => Acceptable(r.txn)
  /\ r.pc = "accept" => row[r.txn].status = "accepted" /\ ~row[r.txn].is_processed
  /\ r.pc \in {"refund", "refund_read"} => row[r.txn].status \notin {"absent", "rejected"}

SerialInv == Inv /\ \A w \in Workers : Current(req[w])

-----------------------------------------------------------------------------
(* A finished request knows nothing; the only request decides for all. *)

LEMMA IdleCurrent == Current(Idle)
  BY DEF Current, Idle, Loading, Acceptable

LEMMA Knows ==
  ASSUME SerialInv, NEW w \in Workers
  PROVE  Current(req[w])
  BY DEF SerialInv

LEMMA FinishCurrent ==
  ASSUME OneAtATime, Inv, NEW w \in Workers, Finish(w)
  PROVE  (\A v \in Workers : Current(req[v]))'
  <1>1. \A v \in Workers : req'[v] = Idle
    BY DEF OneAtATime, Inv, TypeOK, Finish
  <1> QED BY <1>1 DEF Current, Idle, Loading, Acceptable

LEMMA OnlyRequest ==
  ASSUME OneAtATime, Inv, NEW w \in Workers, NEW r, req' = [req EXCEPT ![w] = r]
  PROVE  req'[w] = r /\ \A v \in Workers : req'[v] = r
  BY DEF OneAtATime, Inv, TypeOK

-----------------------------------------------------------------------------
(* The stages after one row is written. *)

LEMMA StageMoves ==
  ASSUME Inv, NEW t \in Txns, NEW r, row' = [row EXCEPT ![t] = r]
  PROVE  Stages' = [Stages EXCEPT ![t] = StageOf(r)]
  BY DEF Inv, TypeOK, Stages

LEMMA FreshStage ==
  ASSUME Inv, NEW t \in Txns, FreshTxn(t)
  PROVE  Stages[t] = "none"
  <1>1. row[t].status = "absent" BY DEF FreshTxn, Exists
  <1>2. ~row[t].is_processed BY <1>1 DEF Inv, RowsConsistent, Consistent
  <1> QED BY <1>1, <1>2 DEF StageOf, Stages

LEMMA StageStays ==
  ASSUME Inv, NEW t, NEW r, row' = [row EXCEPT ![t] = r],
         t \in Txns => StageOf(r) = StageOf(row[t])
  PROVE  Stages' = Stages
  <1>1. CASE t \in Txns BY <1>1, StageMoves DEF Stages
  <1>2. CASE t \notin Txns BY <1>2 DEF Inv, TypeOK, Stages
  <1> QED BY <1>1, <1>2

(* Steps that leave the rows alone leave the stages alone. *)
LEMMA RowsStand ==
  ASSUME UNCHANGED row
  PROVE  Stages' = Stages
  BY DEF Stages

(* A step that only ends its request. *)
LEMMA OnlyFinishes ==
  ASSUME OneAtATime, SerialInv, NEW w \in Workers, Finish(w), UNCHANGED row
  PROVE  (\A v \in Workers : Current(req[v]))' /\ [Lifecycle!Next]_Stages
  BY FinishCurrent, RowsStand DEF SerialInv

(* A step that turns the request into another, whose knowledge is checked  *)
(* against the rows as they are.                                           *)
LEMMA OnlyRequestChanges ==
  ASSUME OneAtATime, SerialInv, NEW w \in Workers, NEW r,
         req' = [req EXCEPT ![w] = r], UNCHANGED row, Current(r)
  PROVE  (\A v \in Workers : Current(req[v]))' /\ [Lifecycle!Next]_Stages
  <1>1. \A v \in Workers : req'[v] = r BY OnlyRequest DEF SerialInv
  <1>2. (\A v \in Workers : Current(req[v]))' BY <1>1 DEF Current, Acceptable
  <1> QED BY <1>2, RowsStand

LEMMA OnlyRequestBegins ==
  ASSUME OneAtATime, SerialInv, NEW w \in Workers, NEW pc, NEW r, Begin(w, pc, r),
         UNCHANGED row, Current([r EXCEPT !.pc = pc])
  PROVE  (\A v \in Workers : Current(req[v]))' /\ [Lifecycle!Next]_Stages
  BY OnlyRequestChanges DEF Begin

-----------------------------------------------------------------------------
(* Checkout. *)

LEMMA CreateOrderSerial ==
  ASSUME OneAtATime, SerialInv, NEW w \in Workers, CreateOrder(w)
  PROVE  (\A v \in Workers : Current(req[v]))' /\ [Lifecycle!Next]_Stages
  <1> DEFINE c == req[w].cart
  <1>0. req[w] \in Request /\ req[w].txn = NoTxn
    BY RequestInFlight DEF SerialInv, Current, CreateOrder
  <1>1. CASE cart[c].txn # NoTxn
    <2> DEFINE r == [req[w] EXCEPT !.pc = "ordered"]
    <2>1. UNCHANGED row /\ req' = [req EXCEPT ![w] = r]
      BY <1>1 DEF CreateOrder
    <2>2. Current(r) BY <1>0 DEF Current, Request, Loading, Acceptable
    <2> QED BY <2>1, <2>2, OnlyRequestChanges
  <1>2. CASE cart[c].txn = NoTxn
    <2> DEFINE new == Saved([AbsentRow EXCEPT !.status = "in_progress", !.amount = count[c]])
    <2>1. PICK t \in Txns :
            /\ FreshTxn(t)
            /\ row' = [row EXCEPT ![t] = new]
            /\ req' = [req EXCEPT ![w] =
                        [req[w] EXCEPT !.pc = "ordered", !.txn = t, !.row = new]]
      BY <1>2 DEF CreateOrder
    <2>2. new.status = "in_progress" /\ ~new.is_processed /\ new.type = "online"
      BY DEF Saved, AbsentRow
    <2> HIDE DEF new
    <2> DEFINE r == [req[w] EXCEPT !.pc = "ordered", !.txn = t, !.row = new]
    <2>3. \A v \in Workers : req'[v] = r BY <2>1, OnlyRequest DEF SerialInv
    <2>4. r.pc = "ordered" /\ r.txn = t /\ r.row = new BY <1>0 DEF Request
    <2>5. row'[t] = new BY <2>1 DEF SerialInv, Inv, TypeOK
    <2> HIDE DEF r
    <2>6. (\A v \in Workers : Current(req[v]))'
      BY <2>2, <2>3, <2>4, <2>5 DEF Current, Loading, Acceptable
    <2>7. Stages' = [Stages EXCEPT ![t] = StageOf(new)]
      BY <2>1, StageMoves DEF SerialInv
    <2>8. StageOf(new) = "placed" /\ Stages[t] = "none"
      BY <2>1, <2>2, FreshStage DEF StageOf, SerialInv
    <2>9. Lifecycle!Place(t) BY <2>7, <2>8 DEF Lifecycle!Place, Lifecycle!Move
    <2> QED BY <2>6, <2>9 DEF Lifecycle!Next
  <1> QED BY <1>1, <1>2

LEMMA CloseCartSerial ==
  ASSUME OneAtATime, SerialInv, NEW w \in Workers, CloseCart(w)
  PROVE  (\A v \in Workers : Current(req[v]))' /\ [Lifecycle!Next]_Stages
  <1> DEFINE r == [req[w] EXCEPT !.pc = "closed"]
  <1>1. CASE Finish(w) BY <1>1, OnlyFinishes DEF CloseCart
  <1>2. CASE req' = [req EXCEPT ![w] = r]
    <2>1. Current(r)
      BY RequestInFlight DEF SerialInv, Current, CloseCart, Request, Loading, Acceptable
    <2> QED BY <1>2, <2>1, OnlyRequestChanges DEF CloseCart
  <1> QED BY <1>1, <1>2 DEF CloseCart

LEMMA SetDeliverySerial ==
  ASSUME OneAtATime, SerialInv, NEW w \in Workers, SetDelivery(w)
  PROVE  (\A v \in Workers : Current(req[v]))' /\ [Lifecycle!Next]_Stages
  <1> DEFINE r == req[w]
             saved == Saved([r.row EXCEPT !.delivery_type = r.delivery])
             next == [Idle EXCEPT !.pc = "confirm", !.txn = r.txn]
  <1>1. r \in Request /\ r.pc = "closed" /\ row' = [row EXCEPT ![r.txn] = saved]
    BY RequestInFlight DEF SerialInv, SetDelivery
  <1>2. r.txn \in Txns => StageOf(saved) = StageOf(row[r.txn])
    <2>1. r.txn \in Txns => r.row = row[r.txn]
      BY <1>1, OrdersAssumption DEF SerialInv, Current
    <2>2. r.row \in Row BY <1>1 DEF Request
    <2> QED BY <2>1, <2>2 DEF StageOf, Saved, Row
  <1>3. Stages' = Stages BY <1>1, <1>2, StageStays DEF SerialInv
  <1>4. (\A v \in Workers : Current(req[v]))'
    <2>1. CASE Finish(w) BY <2>1, FinishCurrent DEF SerialInv
    <2>2. CASE req' = [req EXCEPT ![w] = next]
      <3>1. \A v \in Workers : req'[v] = next BY <2>2, OnlyRequest DEF SerialInv
      <3>2. next.pc = "confirm" BY DEF Idle
      <3> QED BY <3>1, <3>2 DEF Current, Loading
    <2> QED BY <2>1, <2>2 DEF SetDelivery
  <1> QED BY <1>3, <1>4

LEMMA CommitAnonymousSerial ==
  ASSUME OneAtATime, SerialInv, NEW w \in Workers, CommitAnonymous(w)
  PROVE  (\A v \in Workers : Current(req[v]))' /\ [Lifecycle!Next]_Stages
  <1> DEFINE sold == Saved([AbsentRow EXCEPT
                       !.status = "accepted", !.payment_status = "accepted",
                       !.is_processed = TRUE, !.type = "offline",
                       !.delivery_type = "cart_checkout", !.amount = req[w].count])
  <1>1. PICK t \in Txns : FreshTxn(t) /\ row' = [row EXCEPT ![t] = sold]
    BY DEF CommitAnonymous
  <1>2. StageOf(sold) = "paid" BY DEF StageOf, Saved, AbsentRow
  <1>3. Stages[t] = "none" BY <1>1, FreshStage DEF SerialInv
  <1>4. Stages' = [Stages EXCEPT ![t] = "paid"]
    BY <1>1, <1>2, StageMoves DEF SerialInv
  <1>5. Lifecycle!Sell(t) BY <1>3, <1>4 DEF Lifecycle!Sell, Lifecycle!Move
  <1> QED BY <1>5, FinishCurrent DEF CommitAnonymous, SerialInv, Lifecycle!Next

-----------------------------------------------------------------------------
(* The seller accepts, the client pays, the seller refunds. *)

LEMMA CommitCompleteSerial ==
  ASSUME OneAtATime, SerialInv, NEW w \in Workers, CommitComplete(w)
  PROVE  (\A v \in Workers : Current(req[v]))' /\ [Lifecycle!Next]_Stages
  <1> DEFINE t == req[w].txn
             n == req[w].count
             r == [row[t] EXCEPT !.status = "accepted", !.payment_status = "accepted",
                                 !.is_processed = TRUE, !.amount = n]
  <1>1. /\ t \in Txns
        /\ row[t].status = "in_progress" /\ ~row[t].is_processed
    <2>1. req[w].pc = "complete_read" BY DEF CommitComplete
    <2> QED BY <2>1, Knows DEF Current, Loading, Acceptable
  <1>2. row[t] \in Row BY <1>1 DEF SerialInv, Inv, TypeOK
  <1>3. row' = [row EXCEPT ![t] = r] BY DEF CommitComplete
  <1>4. StageOf(r) = "paid" BY <1>2 DEF StageOf, Row
  <1>5. Stages[t] = "placed" BY <1>1 DEF StageOf, Stages
  <1>6. Stages' = [Stages EXCEPT ![t] = "paid"]
    BY <1>1, <1>3, <1>4, StageMoves DEF SerialInv
  <1>7. Lifecycle!Sell(t) BY <1>5, <1>6 DEF Lifecycle!Sell, Lifecycle!Move
  <1> QED BY <1>1, <1>7, FinishCurrent DEF CommitComplete, SerialInv, Lifecycle!Next

LEMMA CommitPaymentSerial ==
  ASSUME OneAtATime, SerialInv, NEW w \in Workers, CommitPayment(w)
  PROVE  (\A v \in Workers : Current(req[v]))' /\ [Lifecycle!Next]_Stages
  <1> DEFINE t == req[w].txn
  <1>1. /\ t \in Txns /\ req[w].row = row[t]
        /\ row[t].status = "in_progress" /\ ~row[t].is_processed
    <2>1. req[w].pc = "payment_read" BY DEF CommitPayment
    <2> QED BY <2>1, Knows DEF Current, Loading, Acceptable
  <1>2. row' = [row EXCEPT ![t] = ToBePaid(req[w])] BY DEF CommitPayment
  <1>3. row[t] \in Row BY <1>1 DEF SerialInv, Inv, TypeOK
  <1>4. StageOf(ToBePaid(req[w])) = "accepted"
    BY <1>1, <1>3 DEF StageOf, ToBePaid, Saved, Row
  <1>5. Stages[t] = "placed" BY <1>1 DEF StageOf, Stages
  <1>6. Stages' = [Stages EXCEPT ![t] = "accepted"]
    <2>1. t \in Txns BY <1>1
    <2>2. Stages' = [Stages EXCEPT ![t] = StageOf(ToBePaid(req[w]))]
      BY <2>1, <1>2, StageMoves DEF SerialInv
    <2> QED BY <2>2, <1>4
  <1>7. Lifecycle!Accept(t) BY <1>5, <1>6 DEF Lifecycle!Accept, Lifecycle!Move
  <1> QED BY <1>1, <1>7, FinishCurrent DEF CommitPayment, SerialInv, Lifecycle!Next

LEMMA CommitAcceptSerial ==
  ASSUME OneAtATime, SerialInv, NEW w \in Workers, CommitAccept(w)
  PROVE  (\A v \in Workers : Current(req[v]))' /\ [Lifecycle!Next]_Stages
  <1> DEFINE t == req[w].txn
             paid == Saved([req[w].row EXCEPT !.payment_status = "accepted",
                                              !.is_processed = TRUE])
  <1>1. /\ t \in Txns /\ req[w].row = row[t]
        /\ row[t].status = "accepted" /\ ~row[t].is_processed
    <2>1. req[w].pc = "accept" BY DEF CommitAccept
    <2> QED BY <2>1, Knows DEF Current, Loading, Acceptable
  <1>2. row' = [row EXCEPT ![t] = paid] BY DEF CommitAccept
  <1>3. row[t] \in Row BY <1>1 DEF SerialInv, Inv, TypeOK
  <1>4. StageOf(paid) = "paid" BY <1>1, <1>3 DEF StageOf, Saved, Row
  <1>5. Stages[t] = "accepted" BY <1>1 DEF StageOf, Stages
  <1>6. Stages' = [Stages EXCEPT ![t] = "paid"]
    <2>1. t \in Txns BY <1>1
    <2>2. Stages' = [Stages EXCEPT ![t] = StageOf(paid)]
      BY <2>1, <1>2, StageMoves DEF SerialInv
    <2> QED BY <2>2, <1>4
  <1>7. Lifecycle!Pay(t) BY <1>5, <1>6 DEF Lifecycle!Pay, Lifecycle!Move
  <1> QED BY <1>1, <1>7, FinishCurrent DEF CommitAccept, SerialInv, Lifecycle!Next

LEMMA CommitRejectSerial ==
  ASSUME OneAtATime, SerialInv, NEW w \in Workers, CommitReject(w)
  PROVE  (\A v \in Workers : Current(req[v]))' /\ [Lifecycle!Next]_Stages
  <1> DEFINE t == req[w].txn
             declined == Saved([req[w].row EXCEPT !.payment_status = "rejected"])
  <1>1. t \in Txns /\ req[w].row = row[t]
    <2>1. req[w].pc = "reject" BY DEF CommitReject
    <2> QED BY <2>1, Knows DEF Current, Loading, Acceptable
  <1>2. row' = [row EXCEPT ![t] = declined] BY DEF CommitReject
  <1>3. row[t] \in Row BY <1>1 DEF SerialInv, Inv, TypeOK
  <1>4. StageOf(declined) = StageOf(row[t]) BY <1>1, <1>3 DEF StageOf, Saved, Row
  <1>5. Stages' = Stages BY <1>4, <1>2, StageStays DEF SerialInv
  <1> QED BY <1>5, FinishCurrent DEF CommitReject, SerialInv

LEMMA CommitRefundSerial ==
  ASSUME OneAtATime, SerialInv, NEW w \in Workers, CommitRefund(w)
  PROVE  (\A v \in Workers : Current(req[v]))' /\ [Lifecycle!Next]_Stages
  <1> DEFINE t == req[w].txn
  <1>1. /\ t \in Txns /\ req[w].row = row[t]
        /\ row[t].status \notin {"absent", "rejected"}
    <2>1. req[w].pc = "refund_read" BY DEF CommitRefund
    <2> QED BY <2>1, Knows DEF Current, Loading, Acceptable
  <1>2. row' = [row EXCEPT ![t] = Refunded(req[w].row)] BY DEF CommitRefund
  <1>3. row[t] \in Row BY <1>1 DEF SerialInv, Inv, TypeOK
  <1>4. StageOf(Refunded(req[w].row)) = "rejected"
    BY <1>1, <1>3 DEF StageOf, Refunded, Saved, Row
  <1>5. Stages[t] \in {"placed", "accepted", "paid"}
    <2>1. Consistent(row[t]) BY <1>1 DEF SerialInv, Inv, RowsConsistent
    <2> QED BY <1>1, <1>3, <2>1 DEF StageOf, Stages, Row, Consistent
  <1>6. Stages' = [Stages EXCEPT ![t] = "rejected"]
    <2> HIDE DEF t
    <2>1. Inv BY DEF SerialInv
    <2>2. Stages' = [Stages EXCEPT ![t] = StageOf(Refunded(req[w].row))]
      BY <1>1, <1>2, <2>1, StageMoves
    <2> QED BY <1>4, <2>2
  <1>7. Lifecycle!Refund(t) BY <1>5, <1>6 DEF Lifecycle!Refund, Lifecycle!Move
  <1> QED BY <1>1, <1>7, FinishCurrent DEF CommitRefund, SerialInv, Lifecycle!Next

LEMMA SaveTotalsSerial ==
  ASSUME OneAtATime, SerialInv, NEW w \in Workers, SaveTotals(w)
  PROVE  (\A v \in Workers : Current(req[v]))' /\ [Lifecycle!Next]_Stages
  <1> DEFINE t == req[w].txn
             r == [row[t] EXCEPT !.amount = count[req[w].cart]]
  <1>1. row' = [row EXCEPT ![t] = r] BY DEF SaveTotals
  <1>2. t \in Txns => StageOf(r) = StageOf(row[t])
    <2> HAVE t \in Txns
    <2>1. row[t] \in Row BY DEF SerialInv, Inv, TypeOK
    <2> QED BY <2>1 DEF StageOf, Row
  <1>3. Stages' = Stages BY <1>1, <1>2, StageStays DEF SerialInv
  <1> QED BY <1>3, FinishCurrent DEF SaveTotals, SerialInv

-----------------------------------------------------------------------------
(* The handlers that load, and the steps that write no row. *)

LEMMA LoadingSerial ==
  ASSUME OneAtATime, SerialInv, NEW w \in Workers, NEW t \in Txns,
         \/ BeginComplete(w, t) \/ AnswerFromCache(w, t) \/ BeginPayment(w, t)
         \/ BeginAccept(w, t) \/ BeginReject(w, t) \/ BeginRefund(w, t)
  PROVE  (\A v \in Workers : Current(req[v]))' /\ [Lifecycle!Next]_Stages
  <1>0. Inv BY DEF SerialInv
  <1>1. /\ Loaded(t) \in Request /\ Loaded(t).txn = t /\ Loaded(t).row = row[t]
    BY <1>0, LoadedRequest DEF Loaded, Idle
  <1> DEFINE l(pc) == [Loaded(t) EXCEPT !.pc = pc]
             r(pc) == [[Idle EXCEPT !.txn = t, !.row = row[t]] EXCEPT !.pc = pc]
  <1>2. \A pc : l(pc).pc = pc /\ l(pc).txn = t /\ l(pc).row = row[t]
    BY <1>1 DEF Request
  <1>3. \A pc : r(pc).pc = pc /\ r(pc).txn = t /\ r(pc).row = row[t]
    BY DEF Idle
  <1>4. CASE BeginComplete(w, t)
    <2>1. Current(l("complete"))
      BY <1>2, <1>4 DEF BeginComplete, Current, Loading
    <2> QED BY <1>4, <2>1, OnlyRequestBegins DEF BeginComplete
  <1>5. CASE AnswerFromCache(w, t)
    <2> DEFINE a == [[Idle EXCEPT !.txn = t] EXCEPT !.pc = "answered"]
    <2>1. a.pc = "answered" BY DEF Idle
    <2>2. Current(a) BY <2>1 DEF Current, Loading
    <2> QED BY <1>5, <2>2, OnlyRequestBegins DEF AnswerFromCache
  <1>6. CASE BeginPayment(w, t)
    <2>1. Current(l("payment"))
      BY <1>2, <1>6 DEF BeginPayment, Current, Loading
    <2> QED BY <1>6, <2>1, OnlyRequestChanges DEF BeginPayment
  <1>7. CASE BeginAccept(w, t)
    <2>1. Current(r("accept"))
      BY <1>3, <1>7 DEF BeginAccept, Current, Loading
    <2> QED BY <1>7, <2>1, OnlyRequestBegins DEF BeginAccept
  <1>8. CASE BeginReject(w, t)
    <2>1. Current(r("reject"))
      BY <1>3 DEF Current, Loading
    <2> QED BY <1>8, <2>1, OnlyRequestBegins DEF BeginReject
  <1>9. CASE BeginRefund(w, t)
    <2>1. Current(r("refund"))
      BY <1>3, <1>9 DEF BeginRefund, Exists, Current, Loading
    <2> QED BY <1>9, <2>1, OnlyRequestBegins DEF BeginRefund
  <1> QED BY <1>4, <1>5, <1>6, <1>7, <1>8, <1>9

(* The second reads of a handler move the phase and nothing Current sees. *)
LEMMA ReadingSerial ==
  ASSUME OneAtATime, SerialInv, NEW w \in Workers,
         ReadForComplete(w) \/ ReadForPayment(w) \/ ReadForRefund(w)
  PROVE  (\A v \in Workers : Current(req[v]))' /\ [Lifecycle!Next]_Stages
  <1>1. req[w] \in Request /\ Current(req[w])
    BY RequestInFlight, Knows DEF SerialInv
  <1>2. CASE ReadForComplete(w)
    <2> DEFINE r(limits) == [req[w] EXCEPT !.pc = "complete_read", !.reached = limits]
    <2>1. PICK limits : req' = [req EXCEPT ![w] = r(limits)] BY <1>2 DEF ReadForComplete
    <2>2. req[w].pc = "complete" /\ UNCHANGED row BY <1>2 DEF ReadForComplete
    <2>3. Current(r(limits)) BY <1>1, <2>2 DEF Current, Request, Loading
    <2> QED BY <2>1, <2>2, <2>3, OnlyRequestChanges
  <1>3. CASE ReadForPayment(w)
    <2> DEFINE r(n, limits) == [req[w] EXCEPT !.pc = "payment_read", !.total = n,
                                              !.stock = stock, !.reached = limits]
    <2>1. PICK n, limits : req' = [req EXCEPT ![w] = r(n, limits)]
      BY <1>3 DEF ReadForPayment
    <2>2. req[w].pc = "payment" /\ UNCHANGED row BY <1>3 DEF ReadForPayment
    <2>3. Current(r(n, limits)) BY <1>1, <2>2 DEF Current, Request, Loading
    <2> QED BY <2>1, <2>2, <2>3, OnlyRequestChanges
  <1>4. CASE ReadForRefund(w)
    <2> DEFINE r(n, limits) == [req[w] EXCEPT !.pc = "refund_read", !.stock = stock,
                                              !.count = n, !.reached = limits]
    <2>1. PICK n, limits : req' = [req EXCEPT ![w] = r(n, limits)]
      BY <1>4 DEF ReadForRefund
    <2>2. req[w].pc = "refund" /\ UNCHANGED row BY <1>4 DEF ReadForRefund
    <2>3. Current(r(n, limits)) BY <1>1, <2>2 DEF Current, Request, Loading
    <2> QED BY <2>1, <2>2, <2>3, OnlyRequestChanges
  <1> QED BY <1>2, <1>3, <1>4

(* The cart's own steps, the counter, Redis and failures. *)
LEMMA CartSerial ==
  ASSUME OneAtATime, SerialInv, CartStep
  PROVE  (\A v \in Workers : Current(req[v]))' /\ [Lifecycle!Next]_Stages
  <1>1. PICK w \in Workers, c \in Carts :
          \/ \E change \in {-1, 1} : ChangeItem(w, c, change)
          \/ \E wanted \in 0..MaxCount : BeginEdit(w, c, wanted)
          \/ \E delivery \in Deliveries : BeginCheckout(w, c, delivery)
          \/ BeginAnonymous(w, c)
    BY DEF CartStep
  <1>2. CASE \E change \in {-1, 1} : ChangeItem(w, c, change)
    <2>1. UNCHANGED <<row, req>> BY <1>2 DEF ChangeItem
    <2> QED BY <2>1, RowsStand DEF SerialInv, Current, Acceptable
  <1>3. ASSUME NEW wanted \in 0..MaxCount, BeginEdit(w, c, wanted)
        PROVE  (\A v \in Workers : Current(req[v]))' /\ [Lifecycle!Next]_Stages
    <2> DEFINE r == [[Idle EXCEPT !.cart = c, !.txn = cart[c].txn, !.total = wanted]
                       EXCEPT !.pc = "edit"]
    <2>1. r.pc = "edit" BY DEF Idle
    <2>2. Current(r) BY <2>1 DEF Current, Loading
    <2> QED BY <1>3, <2>2, OnlyRequestBegins DEF BeginEdit
  <1>4. ASSUME NEW delivery \in Deliveries, BeginCheckout(w, c, delivery)
        PROVE  (\A v \in Workers : Current(req[v]))' /\ [Lifecycle!Next]_Stages
    <2> DEFINE r == [[Idle EXCEPT !.cart = c, !.delivery = delivery] EXCEPT !.pc = "checkout"]
    <2>1. r.pc = "checkout" /\ r.txn = NoTxn BY DEF Idle
    <2>2. Current(r) BY <2>1 DEF Current, Loading
    <2> QED BY <1>4, <2>2, OnlyRequestBegins DEF BeginCheckout
  <1>5. CASE BeginAnonymous(w, c)
    <2> DEFINE r == [[Idle EXCEPT !.cart = c, !.count = count[c], !.stock = stock,
                                  !.id = runningId] EXCEPT !.pc = "anonymous"]
    <2>1. r.pc = "anonymous" BY DEF Idle
    <2>2. Current(r) BY <2>1 DEF Current, Loading
    <2> QED BY <1>5, <2>2, OnlyRequestBegins DEF BeginAnonymous
  <1> QED BY <1>1, <1>2, <1>3, <1>4, <1>5

LEMMA EditSerial ==
  ASSUME OneAtATime, SerialInv, NEW w \in Workers, DeleteLines(w) \/ CreateLines(w)
  PROVE  (\A v \in Workers : Current(req[v]))' /\ [Lifecycle!Next]_Stages
  <1> DEFINE r(pc) == [req[w] EXCEPT !.pc = pc]
  <1>1. req[w] \in Request BY RequestInFlight DEF SerialInv
  <1>2. r("emptied").pc = "emptied" /\ r("totals").pc = "totals" BY <1>1 DEF Request
  <1>3. Current(r("emptied")) /\ Current(r("totals")) BY <1>2 DEF Current, Loading
  <1>4. \/ Finish(w)
        \/ req' = [req EXCEPT ![w] = r("emptied")]
        \/ req' = [req EXCEPT ![w] = r("totals")]
    BY DEF DeleteLines, CreateLines
  <1>5. UNCHANGED row BY DEF DeleteLines, CreateLines
  <1> QED BY <1>3, <1>4, <1>5, OnlyFinishes, OnlyRequestChanges

LEMMA OtherSerial ==
  ASSUME OneAtATime, SerialInv, UNCHANGED <<row, req>>
  PROVE  (\A v \in Workers : Current(req[v]))' /\ [Lifecycle!Next]_Stages
  BY RowsStand DEF SerialInv, Current, Acceptable

-----------------------------------------------------------------------------
LEMMA StepSerial ==
  ASSUME OneAtATime, SerialInv, [Next]_vars
  PROVE  (\A v \in Workers : Current(req[v]))' /\ [Lifecycle!Next]_Stages
  <1>1. CASE CartStep BY <1>1, CartSerial
  <1>2. CASE OrderStep BY <1>2, LoadingSerial DEF OrderStep
  <1>3. CASE HandlerStep
    <2>1. PICK w \in Workers :
            \/ DeleteLines(w) \/ CreateLines(w) \/ SaveTotals(w)
            \/ CreateOrder(w) \/ CloseCart(w) \/ SetDelivery(w) \/ CommitAnonymous(w)
            \/ ReadForComplete(w) \/ CommitComplete(w) \/ Answered(w)
            \/ ReadForPayment(w) \/ CommitPayment(w)
            \/ CommitAccept(w) \/ CommitReject(w)
            \/ ReadForRefund(w) \/ CommitRefund(w)
            \/ ResetPurchaseId(w)
            \/ Fail(w)
      BY <1>3 DEF HandlerStep
    <2>2. CASE Answered(w) \/ Fail(w) BY <2>2, OnlyFinishes DEF Answered, Fail
    <2>3. CASE ResetPurchaseId(w) BY <2>3, OtherSerial DEF ResetPurchaseId
    <2> QED
      BY <2>1, <2>2, <2>3, EditSerial, SaveTotalsSerial, CreateOrderSerial, CloseCartSerial,
         SetDeliverySerial, CommitAnonymousSerial, ReadingSerial, CommitCompleteSerial,
         CommitPaymentSerial, CommitAcceptSerial, CommitRejectSerial, CommitRefundSerial
  <1>4. CASE \E t \in Txns : ExpireKey(t) BY <1>4, OtherSerial DEF ExpireKey
  <1>5. CASE UNCHANGED vars BY <1>5, OtherSerial DEF vars
  <1> QED BY <1>1, <1>2, <1>3, <1>4, <1>5 DEF Next

(* While one request is served at a time every order is placed, accepted   *)
(* and paid in turn, and none that was refunded is ever accepted, paid or  *)
(* placed again: no handler writes back more than it was allowed to.       *)
THEOREM OrdersFollowLifecycle ==
  ASSUME OneAtATime
  PROVE  Spec => FollowsLifecycle
  <1>1. Init => SerialInv
    <2> SUFFICES ASSUME Init PROVE SerialInv OBVIOUS
    <2>1. \A w \in Workers : Current(req[w]) BY IdleCurrent DEF Init
    <2> QED BY <2>1, InitInv DEF SerialInv
  <1>2. SerialInv /\ [Next]_vars => SerialInv'
    BY NextInv, StepSerial DEF SerialInv
  <1>3. Init => Lifecycle!Init
    BY DEF Init, Lifecycle!Init, Stages, StageOf, AbsentRow
  <1>4. SerialInv /\ [Next]_vars => [Lifecycle!Next]_Stages BY StepSerial
  <1> QED BY <1>1, <1>2, <1>3, <1>4, PTL DEF Spec, FollowsLifecycle, Lifecycle!Spec

-----------------------------------------------------------------------------
(* What carts, orders, stock and card are between two requests.            *)

(* An order has one cart at most, and once accepted its amount.            *)
Linked(ct, cn, rw) ==
  \A c \in Carts :
    /\ ct[c].state # "closed" => ct[c].txn = NoTxn
    /\ ct[c].txn # NoTxn =>
         /\ rw[ct[c].txn].status # "absent"
         /\ \A d \in Carts : ct[d].txn = ct[c].txn => d = c
         /\ rw[ct[c].txn].status = "accepted" => rw[ct[c].txn].amount = cn[c]

(* The units that each cart's accepted order holds. *)
Taken(ct, cn, rw) ==
  [c \in Carts |-> IF ct[c].txn # NoTxn /\ rw[ct[c].txn].status = "accepted" THEN cn[c] ELSE 0]

UnitsKept(ct, cn, rw, st) == st + SumOf(Taken(ct, cn, rw), Carts) >= InitialStock

(* What each order counts for the client's card. *)
Counted(r) == IF r.is_processed /\ r.type = "online" THEN r.final_amount ELSE 0
Spent(rw) == [t \in Txns |-> Counted(rw[t])]

Besides(t, rw) == SumOf(Spent(rw), Txns \ {t})

Declined(r) == r.is_processed /\ r.payment_status = "rejected"

CardEarned(rw, cd) ==
  (\E t \in Txns : Declined(rw[t])) \/ cd \subseteq Reached(Besides(NoTxn, rw))

OfflineIsPaid(rw) == \A t \in Txns : rw[t].type = "offline" => rw[t].payment_status # "rejected"

IdsApart(ids, next) ==
  \A i \in DOMAIN ids : ids[i] < next /\ \A j \in DOMAIN ids : ids[i] = ids[j] => i = j

(* What the one request in flight has read is still so. *)
Fresh(r, ct, cn, rw, st, next) ==
  /\ r.pc \in {"checkout", "ordered", "anonymous"} => r.cart \in Carts /\ ct[r.cart].state = "open"
  /\ r.pc = "ordered" => \A c \in Carts : ct[c].txn = r.txn => r.txn = NoTxn
  /\ r.pc \in {"edit", "emptied", "totals"} =>
       ct[r.cart].txn = r.txn /\ (r.txn # NoTxn => rw[r.txn].status = "in_progress")
  /\ r.pc = "totals" => r.txn # NoTxn
  /\ r.pc = "reject" => rw[r.txn].type = "online"
  /\ r.pc \in {"complete_read", "payment_read"} => r.cart # NoCart
  /\ r.pc \in {"complete", "complete_read", "payment", "payment_read"} /\ r.cart # NoCart =>
       r.cart \in Carts /\ ct[r.cart].txn = r.txn /\ r.count = cn[r.cart]
  /\ r.pc = "anonymous" => r.count = cn[r.cart]
  /\ r.pc = "payment_read" => r.total = cn[r.cart]
  /\ r.pc = "refund_read" => \A c \in Carts : ct[c].txn = r.txn => r.count = cn[c]
  /\ r.pc = "complete_read" => r.reached = Reached(Besides(r.txn, rw) + rw[r.txn].final_amount)
  /\ r.pc \in {"payment_read", "refund_read"} => r.reached = Reached(Besides(r.txn, rw))
  /\ r.pc \in {"anonymous", "payment_read", "refund_read"} => r.stock = st
  /\ r.pc \in {"anonymous", "complete", "complete_read", "payment", "payment_read"} => r.id = next

Settled ==
  /\ Linked(cart, count, row)
  /\ UnitsKept(cart, count, row, stock)
  /\ CardEarned(row, card) /\ OfflineIsPaid(row)
  /\ IdsApart(issued, runningId)

AllFresh == \A w \in Workers : Fresh(req[w], cart, count, row, stock, runningId)

ShopInv == SerialInv /\ Settled /\ AllFresh

-----------------------------------------------------------------------------
(* The model's sums are those of the invariant. *)

LEMMA SpentIsSum ==
  ASSUME NEW rw \in [Txns -> Row], NEW t
  PROVE  MapThenSumSet(LAMBDA u : rw[u].final_amount,
           {u \in Txns \ {t} : rw[u].is_processed /\ rw[u].type = "online"}) = Besides(t, rw)
  <1> DEFINE f == [u \in Txns |-> rw[u].final_amount]
             T == {u \in Txns \ {t} : rw[u].is_processed /\ rw[u].type = "online"}
             Adds(it) == it = [s \in SUBSET T |->
                           IF s = {} THEN 0 ELSE rw[Pick(s)].final_amount + it[s \ {Pick(s)}]]
  <1>1. IsFiniteSet(Txns) /\ IsFiniteSet(Txns \ {t}) /\ IsFiniteSet(T) /\ T \subseteq Txns
    BY OrdersAssumption, FS_Subset
  <1>2. SumOf(f, T) = Besides(t, rw)
    <2> DEFINE g == Spent(rw)
    <2>1. \A u \in T : f[u] \in Int /\ g[u] = f[u] BY DEF Spent, Counted, Row
    <2>2. \A u \in (Txns \ {t}) \ T : g[u] = 0 BY DEF Spent, Counted
    <2>3. T \in SUBSET (Txns \ {t}) OBVIOUS
    <2> HIDE DEF f, T, g
    <2>4. SumOf(f, T) = SumOf(g, Txns \ {t}) BY <1>1, <2>1, <2>2, <2>3, SumPart
    <2> QED BY <2>4 DEF Besides, g
  <1>3. \A s \in SUBSET T : s # {} => Pick(s) \in Txns /\ f[Pick(s)] = rw[Pick(s)].final_amount
    BY <1>1 DEF Pick
  <1>4. \E it : Adds(it)
    <2>1. PICK it : Sums(f, T, it) BY <1>1, SumsExist
    <2>2. Adds(it) BY <1>3, <2>1 DEF Sums
    <2> QED BY <2>2
  <1>5. ASSUME NEW it, Adds(it) PROVE it[T] = SumOf(f, T)
    <2>1. Sums(f, T, it) BY <1>3, <1>5 DEF Sums
    <2>2. \A s \in SUBSET T : AddsUp(f, s, it) BY <2>1, SumsAddUp
    <2> HIDE DEF f, T
    <2> QED BY <1>1, <2>2, SumIs
  <1>6. MapThenSumSet(LAMBDA u : rw[u].final_amount, T) = (CHOOSE it : Adds(it))[T]
    BY DEF MapThenSumSet, MapThenFoldSet, Pick
  <1> HIDE DEF Adds, f, T
  <1>7. MapThenSumSet(LAMBDA u : rw[u].final_amount, T) = Besides(t, rw)
    BY <1>2, <1>4, <1>5, <1>6
  <1> QED BY <1>7 DEF T

LEMMA SpentIsBesides ==
  ASSUME Inv, NEW t
  PROVE  SpentBesides(t) = Besides(t, row)
  <1>1. row \in [Txns -> Row] BY DEF Inv, TypeOK
  <1> QED BY <1>1, SpentIsSum DEF SpentBesides

LEMMA CountsAreNat ==
  ASSUME NEW rw \in [Txns -> Row]
  PROVE  /\ \A t \in Txns : Spent(rw)[t] \in Nat /\ Spent(rw)[t] \in Int
         /\ \A t : Besides(t, rw) \in Int
  <1>1. \A t \in Txns : Spent(rw)[t] \in Nat /\ Spent(rw)[t] \in Int BY DEF Spent, Counted, Row
  <1>2. ASSUME NEW t PROVE Besides(t, rw) \in Int
    <2>1. IsFiniteSet(Txns \ {t}) BY OrdersAssumption, FS_Subset
    <2>2. SumOf(Spent(rw), Txns \ {t}) \in Int BY <1>1, <2>1, SumInt
    <2> QED BY <2>2 DEF Besides
  <1> QED BY <1>1, <1>2

(* One row is written: the others count what they did. *)
LEMMA OneCounts ==
  ASSUME NEW rw \in [Txns -> Row], NEW t \in Txns, NEW n \in Row
  PROVE  LET rx == [rw EXCEPT ![t] = n] IN
         /\ Besides(t, rx) = Besides(t, rw)
         /\ Besides(NoTxn, rx) = Besides(t, rw) + Counted(n)
         /\ Besides(NoTxn, rw) = Besides(t, rw) + Counted(rw[t])
  <1> DEFINE rx == [rw EXCEPT ![t] = n]
             R == Txns \ {t}
  <1>1. rx \in [Txns -> Row] OBVIOUS
  <1>2. IsFiniteSet(R) /\ IsFiniteSet(Txns) /\ Txns \ {NoTxn} = Txns BY OrdersAssumption, FS_Subset
  <1>3. \A u \in R : Spent(rx)[u] = Spent(rw)[u] BY DEF Spent
  <1>4. Spent(rx)[t] = Counted(n) /\ Spent(rw)[t] = Counted(rw[t]) BY DEF Spent
  <1>5. /\ \A u \in Txns : Spent(rw)[u] \in Int
        /\ \A u \in Txns : Spent(rx)[u] \in Int
    BY <1>1, CountsAreNat
  <1>6. \A u : Besides(u, rw) \in Int /\ Besides(u, rx) \in Int BY <1>1, CountsAreNat
  <1> HIDE DEF rx
  <1>7. SumOf(Spent(rx), R) = SumOf(Spent(rw), R) BY <1>2, <1>3, SumSame
  <1>8. SumOf(Spent(rx), Txns) = Spent(rx)[t] + SumOf(Spent(rx), R) BY <1>2, <1>5, SumRemove
  <1>9. SumOf(Spent(rw), Txns) = Spent(rw)[t] + SumOf(Spent(rw), R) BY <1>2, <1>5, SumRemove
  <1>10. /\ Besides(t, rx) = SumOf(Spent(rx), R) /\ Besides(t, rw) = SumOf(Spent(rw), R)
         /\ Besides(NoTxn, rx) = SumOf(Spent(rx), Txns) /\ Besides(NoTxn, rw) = SumOf(Spent(rw), Txns)
    BY <1>2 DEF Besides
  <1>11. Counted(n) \in Int /\ Counted(rw[t]) \in Int BY <1>4, <1>5
  <1>12. /\ Besides(t, rx) = Besides(t, rw)
         /\ Besides(NoTxn, rx) = Besides(t, rw) + Counted(n)
         /\ Besides(NoTxn, rw) = Besides(t, rw) + Counted(rw[t])
    BY <1>4, <1>6, <1>7, <1>8, <1>9, <1>10, <1>11
  <1> QED BY <1>12 DEF rx

LEMMA TakenIsSum ==
  ASSUME NEW ct, NEW cn \in [Carts -> Nat], NEW rw
  PROVE  /\ MapThenSumSet(LAMBDA c : cn[c],
              {c \in Carts : ct[c].txn # NoTxn /\ rw[ct[c].txn].status = "accepted"})
              = SumOf(Taken(ct, cn, rw), Carts)
         /\ \A c \in Carts : Taken(ct, cn, rw)[c] \in Nat /\ Taken(ct, cn, rw)[c] \in Int
         /\ SumOf(Taken(ct, cn, rw), Carts) \in Int
  <1> DEFINE T == {c \in Carts : ct[c].txn # NoTxn /\ rw[ct[c].txn].status = "accepted"}
             g == Taken(ct, cn, rw)
  <1>1. \A c \in T : cn[c] \in Int /\ g[c] = cn[c] BY DEF Taken
  <1>2. \A c \in Carts \ T : g[c] = 0 BY DEF Taken
  <1>3. \A c \in Carts : g[c] \in Nat /\ g[c] \in Int BY DEF Taken
  <1>4. MapThenSumSet(LAMBDA c : cn[c], T) = SumOf(cn, T)
    BY DEF SumOf, MapThenSumSet, MapThenFoldSet
  <1>5. T \in SUBSET Carts /\ IsFiniteSet(Carts) BY OrdersAssumption
  <1> HIDE DEF T, g
  <1>6. SumOf(cn, T) = SumOf(g, Carts) BY <1>1, <1>2, <1>5, SumPart
  <1>7. SumOf(g, Carts) \in Int BY <1>3, <1>5, SumInt
  <1> QED BY <1>3, <1>4, <1>6, <1>7 DEF T, g

-----------------------------------------------------------------------------
(* The stock and the units that accepted orders hold, when one cart's       *)
(* changes; and when none does.                                            *)

LEMMA UnitsMove ==
  ASSUME NEW ct, NEW cn \in [Carts -> Nat], NEW rw, NEW st \in Nat,
         NEW cu, NEW cm \in [Carts -> Nat], NEW rx, NEW su \in Nat, NEW c \in Carts,
         UnitsKept(ct, cn, rw, st),
         \A d \in Carts \ {c} : Taken(cu, cm, rx)[d] = Taken(ct, cn, rw)[d],
         su + Taken(cu, cm, rx)[c] >= st + Taken(ct, cn, rw)[c]
  PROVE  UnitsKept(cu, cm, rx, su)
  <1> DEFINE f == Taken(ct, cn, rw)
             g == Taken(cu, cm, rx)
  <1>1. /\ \A d \in Carts : f[d] \in Int /\ g[d] \in Int
        /\ SumOf(f, Carts) \in Int /\ SumOf(g, Carts) \in Int
    BY TakenIsSum
  <1>2. \A d \in Carts \ {c} : f[d] = g[d] OBVIOUS
  <1>3. su + g[c] >= st + f[c] OBVIOUS
  <1>4. InitialStock \in Nat /\ IsFiniteSet(Carts) BY OrdersAssumption
  <1>5. st + SumOf(f, Carts) >= InitialStock BY DEF UnitsKept
  <1> HIDE DEF f, g
  <1>6. SumOf(g, Carts) = (SumOf(f, Carts) - f[c]) + g[c] BY <1>1, <1>2, <1>4, SumChange
  <1>7. su + SumOf(g, Carts) >= InitialStock
    <2>1. f[c] \in Int /\ g[c] \in Int BY <1>1
    <2> QED BY <1>1, <1>3, <1>4, <1>5, <1>6, <2>1
  <1> QED BY <1>7 DEF UnitsKept, g

LEMMA UnitsStay ==
  ASSUME NEW ct, NEW cn \in [Carts -> Nat], NEW rw, NEW st,
         NEW cu, NEW cm \in [Carts -> Nat], NEW rx,
         UnitsKept(ct, cn, rw, st),
         \A d \in Carts : Taken(cu, cm, rx)[d] = Taken(ct, cn, rw)[d]
  PROVE  UnitsKept(cu, cm, rx, st)
  <1>1. SumOf(Taken(cu, cm, rx), Carts) = SumOf(Taken(ct, cn, rw), Carts)
    BY OrdersAssumption, SumSame
  <1> QED BY <1>1 DEF UnitsKept


-----------------------------------------------------------------------------
(* What the shop keeps when one row is written. *)

LEMMA SettledTypes ==
  ASSUME Inv
  PROVE  /\ cart \in [Carts -> CartRow] /\ count \in [Carts -> Nat] /\ row \in [Txns -> Row]
         /\ stock \in Nat /\ card \subseteq CardLimits /\ req \in [Workers -> Request]
         /\ \A c \in Carts : cart[c].txn \in Txns \union {NoTxn}
         /\ issued \in Seq(Nat) /\ runningId \in Nat
  BY DEF Inv, TypeOK, CartRow

(* A row whose acceptance and amount stay, with carts and stock as they are. *)
LEMMA RowSettles ==
  ASSUME Inv, Settled, NEW t \in Txns, NEW n \in Row, row' = [row EXCEPT ![t] = n],
         UNCHANGED <<cart, count, stock>>,
         row[t].status # "absent" => n.status # "absent",
         n.status = "accepted" <=> row[t].status = "accepted",
         row[t].status = "accepted" => n.amount = row[t].amount
  PROVE  Linked(cart', count', row') /\ UnitsKept(cart', count', row', stock')
  <1>1. row'[t] = n /\ \A u \in Txns : u # t => row'[u] = row[u] BY SettledTypes
  <1>2. \A c \in Carts : cart[c].txn # NoTxn => cart[c].txn \in Txns BY SettledTypes
  <1>3. Linked(cart', count', row') BY <1>1, <1>2 DEF Settled, Linked
  <1>4. \A d \in Carts : Taken(cart', count', row')[d] = Taken(cart, count, row)[d]
    BY <1>1, <1>2 DEF Taken
  <1>5. UnitsKept(cart', count', row', stock') BY <1>4, SettledTypes, UnitsStay DEF Settled
  <1> QED BY <1>3, <1>5

(* A row that counts no less than it did, and is declined if it was. *)
LEMMA CardSettles ==
  ASSUME Inv, Settled, NEW t \in Txns, NEW n \in Row, row' = [row EXCEPT ![t] = n],
         card' = card, Counted(n) >= Counted(row[t]) \/ Declined(n),
         Declined(row[t]) => Declined(n),
         n.type = "offline" => n.payment_status # "rejected"
  PROVE  CardEarned(row', card') /\ OfflineIsPaid(row')
  <1>1. row'[t] = n /\ (\A u \in Txns : u # t => row'[u] = row[u]) /\ row' \in [Txns -> Row]
    BY SettledTypes
  <1>2. OfflineIsPaid(row') BY <1>1 DEF Settled, OfflineIsPaid
  <1>3. CASE \E u \in Txns : Declined(row[u]) BY <1>1, <1>2, <1>3 DEF CardEarned
  <1>4. CASE Declined(n) BY <1>1, <1>2, <1>4 DEF CardEarned
  <1>5. CASE Counted(n) >= Counted(row[t]) /\ card \subseteq Reached(Besides(NoTxn, row))
    <2>1. /\ Besides(NoTxn, row') = Besides(t, row) + Counted(n)
          /\ Besides(NoTxn, row) = Besides(t, row) + Counted(row[t])
      BY SettledTypes, OneCounts
    <2>2. /\ Besides(t, row) \in Int /\ Besides(NoTxn, row) \in Int /\ Besides(NoTxn, row') \in Int
      BY <1>1, SettledTypes, CountsAreNat
    <2>3. Counted(n) \in Nat /\ Counted(row[t]) \in Nat BY SettledTypes DEF Counted, Row
    <2>4. Besides(NoTxn, row) <= Besides(NoTxn, row') BY <1>5, <2>1, <2>2, <2>3
    <2>5. \A l \in card : l \in CardLimits /\ l \in Nat /\ l <= Besides(NoTxn, row)
      BY <1>5, SettledTypes, OrdersAssumption DEF Reached
    <2>6. \A l \in card : l <= Besides(NoTxn, row') BY <2>2, <2>4, <2>5
    <2> QED BY <1>2, <2>5, <2>6 DEF CardEarned, Reached
  <1> QED BY <1>3, <1>4, <1>5 DEF Settled, CardEarned

(* The card is recomputed with the row that is written. *)
LEMMA CardRecomputed ==
  ASSUME Inv, Settled, NEW t \in Txns, NEW n \in Row, row' = [row EXCEPT ![t] = n],
         card' = Reached(Besides(t, row) + Counted(n)),
         n.type = "offline" => n.payment_status # "rejected"
  PROVE  CardEarned(row', card') /\ OfflineIsPaid(row')
  <1>1. row'[t] = n /\ \A u \in Txns : u # t => row'[u] = row[u] BY SettledTypes
  <1>2. OfflineIsPaid(row') BY <1>1 DEF Settled, OfflineIsPaid
  <1>3. Besides(NoTxn, row') = Besides(t, row) + Counted(n) BY SettledTypes, OneCounts
  <1> QED BY <1>2, <1>3 DEF CardEarned

(* The number that the only request has read is the next one. *)
LEMMA IdsSettle ==
  ASSUME Inv, Settled, NEW w \in Workers, IssueId(w), req[w].id = runningId
  PROVE  IdsApart(issued', runningId')
  <1> DEFINE n == Len(issued)
  <1>1. issued \in Seq(Nat) /\ runningId \in Nat /\ n \in Nat BY SettledTypes
  <1>2. issued' = Append(issued, runningId) /\ runningId' = runningId + 1 BY DEF IssueId
  <1>3. /\ DOMAIN issued' = 1..(n + 1) /\ DOMAIN issued = 1..n
        /\ issued'[n + 1] = runningId /\ \A i \in 1..n : issued'[i] = issued[i] /\ issued[i] \in Nat
    BY <1>1, <1>2
  <1>4. \A i \in 1..n : issued[i] < runningId /\ \A j \in 1..n : issued[i] = issued[j] => i = j
    BY <1>3 DEF Settled, IdsApart
  <1> HIDE DEF n
  <1>5. ASSUME NEW i \in DOMAIN issued' PROVE issued'[i] < runningId'
    BY <1>1, <1>2, <1>3, <1>4, <1>5
  <1>6. ASSUME NEW i \in DOMAIN issued', NEW j \in DOMAIN issued', issued'[i] = issued'[j] PROVE i = j
    BY <1>1, <1>3, <1>4, <1>6
  <1> QED BY <1>5, <1>6 DEF IdsApart

LEMMA NothingMoves ==
  ASSUME Settled, UNCHANGED <<cart, count, row, stock, card, counters>>
  PROVE  Settled'
  BY DEF Settled, counters

-----------------------------------------------------------------------------
(* What the only request knows after a step. *)

LEMMA IdleFresh == \A ct, cn, rw, st, id : Fresh(Idle, ct, cn, rw, st, id)
  BY DEF Fresh, Idle

LEMMA AfterFinish ==
  ASSUME OneAtATime, Inv, NEW w \in Workers, Finish(w)
  PROVE  AllFresh'
  <1>1. \A v \in Workers : req'[v] = Idle BY OnlyRequest DEF Finish
  <1> QED BY <1>1, IdleFresh DEF AllFresh

LEMMA AfterRequest ==
  ASSUME OneAtATime, Inv, NEW w \in Workers, NEW r, req' = [req EXCEPT ![w] = r],
         Fresh(r, cart', count', row', stock', runningId')
  PROVE  AllFresh'
  <1>1. \A v \in Workers : req'[v] = r BY OnlyRequest
  <1> QED BY <1>1 DEF AllFresh

LEMMA NobodyActs ==
  ASSUME OneAtATime, Inv, NEW w \in Workers, req[w] = Idle, req' = req
  PROVE  AllFresh'
  <1>1. \A v \in Workers : req'[v] = Idle BY DEF OneAtATime
  <1> QED BY <1>1, IdleFresh DEF AllFresh

(* A request that reads, or begins: nothing else changes. *)
LEMMA Reads ==
  ASSUME OneAtATime, Inv, Settled, NEW w \in Workers, NEW r, req' = [req EXCEPT ![w] = r],
         UNCHANGED <<cart, count, row, stock, card, counters>>,
         Fresh(r, cart, count, row, stock, runningId)
  PROVE  Settled' /\ AllFresh'
  <1>1. Fresh(r, cart', count', row', stock', runningId') BY DEF counters
  <1> QED BY <1>1, AfterRequest, NothingMoves

LEMMA Has ==
  ASSUME ShopInv, NEW w \in Workers
  PROVE  /\ req[w] \in Request /\ InFlight(req[w]) /\ Current(req[w])
         /\ Fresh(req[w], cart, count, row, stock, runningId)
         /\ Inv /\ Settled
  BY RequestInFlight DEF ShopInv, SerialInv, AllFresh

-----------------------------------------------------------------------------
(* The cart. *)

(* The lines of a cart whose order is not accepted change. *)
LEMMA LinesSettle ==
  ASSUME Inv, Settled, NEW c \in Carts, NEW n \in Nat, count' = [count EXCEPT ![c] = n],
         UNCHANGED <<row, stock, card, counters>>,
         \A d \in Carts : cart'[d].txn = cart[d].txn /\ (cart'[d].state # "closed" => cart[d].txn = NoTxn),
         cart[c].txn # NoTxn => row[cart[c].txn].status # "accepted"
  PROVE  Settled'
  <1>1. count' \in [Carts -> Nat] /\ \A d \in Carts : d # c => count'[d] = count[d] BY SettledTypes
  <1>2. Linked(cart', count', row') BY <1>1 DEF Settled, Linked
  <1>3. \A d \in Carts : Taken(cart', count', row')[d] = Taken(cart, count, row)[d]
    BY <1>1 DEF Taken
  <1>4. UnitsKept(cart', count', row', stock')
    <2>1. UnitsKept(cart, count, row, stock) /\ stock' = stock /\ count \in [Carts -> Nat]
      BY SettledTypes DEF Settled
    <2>2. count' \in [Carts -> Nat] BY <1>1
    <2>3. UnitsKept(cart', count', row', stock) BY ONLY <1>3, <2>1, <2>2, UnitsStay
    <2> QED BY <2>1, <2>3
  <1> QED BY <1>2, <1>4 DEF Settled, counters

LEMMA ChangeItemSettles ==
  ASSUME OneAtATime, ShopInv, NEW w \in Workers, NEW c \in Carts, NEW change \in {-1, 1},
         ChangeItem(w, c, change)
  PROVE  Settled' /\ AllFresh'
  <1>0. Inv /\ Settled BY Has
  <1>1. AllFresh' BY <1>0, NobodyActs DEF ChangeItem
  <1>2. UNCHANGED <<row, stock, card, counters>> BY DEF ChangeItem
  <1>3. cart \in [Carts -> CartRow] /\ count \in [Carts -> Nat] BY <1>0, SettledTypes
  <1>4. cart[c].state # "closed" /\ cart[c].txn = NoTxn
    BY <1>0 DEF ChangeItem, FreshCart, Settled, Linked
  <1>5. \A d \in Carts : cart[d].state # "closed" => cart[d].txn = NoTxn BY <1>0 DEF Settled, Linked
  <1>6. CASE /\ cart' = [cart EXCEPT ![c] = [state |-> "open", txn |-> NoTxn]]
             /\ count' = [count EXCEPT ![c] = IF change > 0 THEN change ELSE 0]
    <2>1. (IF change > 0 THEN change ELSE 0) \in Nat OBVIOUS
    <2>2. \A d \in Carts : cart'[d].txn = cart[d].txn /\ (cart'[d].state # "closed" => cart[d].txn = NoTxn)
      BY <1>3, <1>4, <1>5, <1>6
    <2> QED BY <1>0, <1>1, <1>2, <1>4, <1>6, <2>1, <2>2, LinesSettle
  <1>7. CASE cart' = [cart EXCEPT ![c].state = "absent"] /\ count' = [count EXCEPT ![c] = 0]
    <2> DEFINE x == [cart[c] EXCEPT !.state = "absent"]
    <2>1. cart' = [cart EXCEPT ![c] = x] BY <1>7
    <2>2. x.txn = cart[c].txn BY <1>3 DEF CartRow
    <2> HIDE DEF x
    <2>3. \A d \in Carts : cart'[d].txn = cart[d].txn /\ (cart'[d].state # "closed" => cart[d].txn = NoTxn)
      BY <1>3, <1>4, <1>5, <2>1, <2>2
    <2> QED BY <1>0, <1>1, <1>2, <1>4, <1>7, <2>3, LinesSettle
  <1>8. CASE /\ count[c] + change \in 1..MaxCount
             /\ count' = [count EXCEPT ![c] = count[c] + change] /\ UNCHANGED cart
    <2>1. count[c] + change \in Nat BY <1>8, OrdersAssumption
    <2> QED BY <1>0, <1>1, <1>2, <1>4, <1>5, <1>8, <2>1, LinesSettle
  <1> QED BY <1>6, <1>7, <1>8 DEF ChangeItem

LEMMA EditSettles ==
  ASSUME OneAtATime, ShopInv, NEW w \in Workers, DeleteLines(w) \/ CreateLines(w)
  PROVE  Settled' /\ AllFresh'
  <1> DEFINE c == req[w].cart
             r(pc) == [req[w] EXCEPT !.pc = pc]
  <1>0. Inv /\ Settled /\ req[w] \in Request BY Has
  <1>1. /\ UNCHANGED <<cart, row, stock, card, counters>> /\ req[w].pc \in {"edit", "emptied"}
    BY DEF DeleteLines, CreateLines
  <1>2. c \in Carts BY <1>1, Has DEF InFlight, CartPhases
  <1>3. cart[c].txn = req[w].txn /\ (req[w].txn # NoTxn => row[req[w].txn].status = "in_progress")
    BY <1>1, Has DEF Fresh
  <1>4. PICK n \in Nat : count' = [count EXCEPT ![c] = n]
    <2>1. stock \in Nat /\ req[w].total \in Nat BY <1>0, SettledTypes DEF Request
    <2> QED BY <2>1 DEF DeleteLines, CreateLines
  <1>5. \A d \in Carts : cart[d].state # "closed" => cart[d].txn = NoTxn BY <1>0 DEF Settled, Linked
  <1>6. Settled' BY <1>0, <1>1, <1>2, <1>3, <1>4, <1>5, LinesSettle
  <1>7. \/ Finish(w)
        \/ req' = [req EXCEPT ![w] = r("emptied")]
        \/ req[w].txn # NoTxn /\ req' = [req EXCEPT ![w] = r("totals")]
    BY DEF DeleteLines, CreateLines
  <1>8. \A pc \in {"emptied", "totals"} : r(pc).pc = pc /\ r(pc).cart = c /\ r(pc).txn = req[w].txn
    BY <1>0 DEF Request
  <1>9. /\ Fresh(r("emptied"), cart', count', row', stock', runningId')
        /\ req[w].txn # NoTxn => Fresh(r("totals"), cart', count', row', stock', runningId')
    <2> HIDE DEF r, c
    <2> QED BY <1>1, <1>3, <1>8 DEF Fresh
  <1>10. AllFresh' BY <1>0, <1>7, <1>9, AfterFinish, AfterRequest
  <1> QED BY <1>6, <1>10

LEMMA SaveTotalsSettles ==
  ASSUME OneAtATime, ShopInv, NEW w \in Workers, SaveTotals(w)
  PROVE  Settled' /\ AllFresh'
  <1> DEFINE t == req[w].txn
             m == count[req[w].cart]
             n == [row[t] EXCEPT !.amount = m]
  <1>0. Inv /\ Settled /\ req[w] \in Request /\ req[w].pc = "totals" BY Has DEF SaveTotals
  <1>1. req[w].cart \in Carts BY <1>0, Has DEF InFlight, CartPhases
  <1>2. t \in Txns /\ row[t].status = "in_progress"
    BY <1>0, <1>1, Has, SettledTypes DEF Fresh
  <1>3. row[t] \in Row /\ m \in Nat BY <1>0, <1>1, <1>2, SettledTypes
  <1>4. /\ n \in Row /\ n.status = "in_progress" /\ Counted(n) = Counted(row[t])
        /\ Declined(n) = Declined(row[t]) /\ n.type = row[t].type /\ n.payment_status = row[t].payment_status
    BY <1>2, <1>3 DEF Row, Counted, Declined
  <1>5. row' = [row EXCEPT ![t] = n] /\ UNCHANGED <<cart, count, stock, card, counters>>
    BY DEF SaveTotals
  <1> HIDE DEF n, m, t
  <1>6. Linked(cart', count', row') /\ UnitsKept(cart', count', row', stock')
    BY <1>0, <1>2, <1>4, <1>5, RowSettles
  <1>7. CardEarned(row', card') /\ OfflineIsPaid(row')
    <2>1. Counted(n) >= Counted(row[t]) BY <1>3, <1>4 DEF Counted, Row
    <2>2. n.type = "offline" => n.payment_status # "rejected" BY <1>0, <1>2, <1>4 DEF Settled, OfflineIsPaid
    <2> QED BY <1>0, <1>2, <1>4, <1>5, <2>1, <2>2, CardSettles
  <1>8. AllFresh' BY <1>0, AfterFinish DEF SaveTotals
  <1> QED BY <1>0, <1>5, <1>6, <1>7, <1>8 DEF Settled, counters

-----------------------------------------------------------------------------
(* Checkout. *)

LEMMA CreateOrderSettles ==
  ASSUME OneAtATime, ShopInv, NEW w \in Workers, CreateOrder(w)
  PROVE  Settled' /\ AllFresh'
  <1> DEFINE c == req[w].cart
  <1>0. Inv /\ Settled /\ req[w] \in Request /\ req[w].pc = "checkout" BY Has DEF CreateOrder
  <1>1. c \in Carts /\ cart[c].state = "open" /\ cart[c].txn = NoTxn
    BY <1>0, Has DEF Fresh, Settled, Linked
  <1> DEFINE n == Saved([AbsentRow EXCEPT !.status = "in_progress", !.amount = count[c]])
  <1>2. PICK t \in Txns :
          /\ FreshTxn(t) /\ row' = [row EXCEPT ![t] = n]
          /\ req' = [req EXCEPT ![w] = [req[w] EXCEPT !.pc = "ordered", !.txn = t, !.row = n]]
    BY <1>1 DEF CreateOrder
  <1>3. UNCHANGED <<cart, count, stock, card, counters>> BY DEF CreateOrder
  <1>4. count[c] \in Nat BY <1>0, <1>1, SettledTypes
  <1>5. /\ n \in Row /\ n.status = "in_progress" /\ ~n.is_processed /\ n.type = "online"
        /\ Counted(n) = 0 /\ ~Declined(n)
    BY <1>4 DEF Saved, AbsentRow, Row, Counted, Declined
  <1>6. row[t].status = "absent" /\ ~row[t].is_processed /\ row[t] \in Row
    BY <1>0, <1>2, SettledTypes DEF FreshTxn, Exists, Inv, RowsConsistent, Consistent
  <1>7. Counted(row[t]) = 0 /\ ~Declined(row[t]) BY <1>6 DEF Counted, Declined
  <1> DEFINE r == [req[w] EXCEPT !.pc = "ordered", !.txn = t, !.row = n]
  <1>8. r.pc = "ordered" /\ r.txn = t /\ r.cart = c BY <1>0 DEF Request
  <1> HIDE DEF n, c
  <1>9. Linked(cart', count', row') /\ UnitsKept(cart', count', row', stock')
    BY <1>0, <1>2, <1>3, <1>5, <1>6, RowSettles
  <1>10. CardEarned(row', card') /\ OfflineIsPaid(row')
    <2>1. Counted(n) >= Counted(row[t]) BY <1>5, <1>7
    <2> QED BY <1>0, <1>2, <1>3, <1>5, <1>7, <2>1, CardSettles
  <1>11. \A d \in Carts : cart[d].txn # t
    BY <1>0, <1>2, <1>6, OrdersAssumption DEF Settled, Linked
  <1>12. AllFresh'
    <2>1. req' = [req EXCEPT ![w] = r] BY <1>2
    <2> HIDE DEF r
    <2>2. Fresh(r, cart', count', row', stock', runningId')
      BY <1>1, <1>3, <1>8, <1>11 DEF Fresh
    <2> QED BY <1>0, <2>1, <2>2, AfterRequest
  <1> QED BY <1>0, <1>3, <1>9, <1>10, <1>12 DEF Settled, counters

(* A cart is closed and linked to an order. *)
LEMMA LinkSettles ==
  ASSUME Inv, NEW c \in Carts, NEW t \in Txns \union {NoTxn}, NEW rw, cart[c].txn = NoTxn,
         Linked(cart, count, rw),
         \A d \in Carts : cart[d].txn = t => t = NoTxn,
         t # NoTxn => rw[t].status # "absent" /\ (rw[t].status = "accepted" => rw[t].amount = count[c]),
         cart' = Closed(c, t)
  PROVE  /\ Linked(cart', count, rw)
         /\ cart'[c].txn = t /\ \A d \in Carts \ {c} : cart'[d] = cart[d]
  <1>1. cart'[c] = [state |-> "closed", txn |-> t] /\ \A d \in Carts \ {c} : cart'[d] = cart[d]
    BY SettledTypes DEF Closed
  <1>2. cart'[c].state = "closed" /\ cart'[c].txn = t BY <1>1
  <1>3. \A d \in Carts \ {c} : cart'[d].txn = cart[d].txn /\ cart'[d].state = cart[d].state BY <1>1
  <1>4. Linked(cart', count, rw) BY <1>2, <1>3 DEF Linked
  <1> QED BY <1>1, <1>2, <1>4

LEMMA CloseCartSettles ==
  ASSUME OneAtATime, ShopInv, NEW w \in Workers, CloseCart(w)
  PROVE  Settled' /\ AllFresh'
  <1> DEFINE c == req[w].cart
             t == req[w].txn
             r == [req[w] EXCEPT !.pc = "closed"]
  <1>0. Inv /\ Settled /\ req[w] \in Request /\ req[w].pc = "ordered" BY Has DEF CloseCart
  <1>1. /\ c \in Carts /\ cart[c].txn = NoTxn /\ t \in Txns \union {NoTxn}
        /\ \A d \in Carts : cart[d].txn = t => t = NoTxn
    BY <1>0, Has DEF Fresh, Settled, Linked, Request
  <1>2. t # NoTxn => row[t].status = "in_progress" BY <1>0, Has DEF Current, Acceptable
  <1>3. cart' = Closed(c, t) /\ UNCHANGED <<count, row, stock, card, counters>> BY DEF CloseCart
  <1>4. Finish(w) \/ req' = [req EXCEPT ![w] = r] BY DEF CloseCart
  <1>5. r.pc = "closed" BY <1>0 DEF Request
  <1> HIDE DEF c, t, r
  <1>6. /\ Linked(cart', count, row)
        /\ cart'[c].txn = t /\ \A d \in Carts \ {c} : cart'[d] = cart[d]
    BY <1>0, <1>1, <1>2, <1>3, LinkSettles DEF Settled
  <1>7. \A d \in Carts : Taken(cart', count, row)[d] = Taken(cart, count, row)[d]
    BY <1>1, <1>2, <1>6 DEF Taken
  <1>8. UnitsKept(cart', count, row, stock) BY <1>0, <1>7, SettledTypes, UnitsStay DEF Settled
  <1>9. AllFresh'
    <2>1. Fresh(r, cart', count', row', stock', runningId') BY <1>5 DEF Fresh
    <2> QED BY <1>0, <1>4, <2>1, AfterFinish, AfterRequest
  <1> QED BY <1>0, <1>3, <1>6, <1>8, <1>9 DEF Settled, counters

LEMMA SetDeliverySettles ==
  ASSUME OneAtATime, ShopInv, NEW w \in Workers, SetDelivery(w)
  PROVE  Settled' /\ AllFresh'
  <1> DEFINE t == req[w].txn
             n == Saved([req[w].row EXCEPT !.delivery_type = req[w].delivery])
             r == [Idle EXCEPT !.pc = "confirm", !.txn = t]
  <1>0. Inv /\ Settled /\ req[w] \in Request /\ req[w].pc = "closed" BY Has DEF SetDelivery
  <1>1. row' = [row EXCEPT ![t] = n] /\ UNCHANGED <<cart, count, stock, card, counters>>
    BY DEF SetDelivery
  <1>2. Finish(w) \/ req' = [req EXCEPT ![w] = r] BY DEF SetDelivery
  <1>3. r.pc = "confirm" BY DEF Idle
  <1>4. AllFresh'
    <2> HIDE DEF r
    <2>1. Fresh(r, cart', count', row', stock', runningId') BY <1>3 DEF Fresh
    <2> QED BY <1>0, <1>2, <2>1, AfterFinish, AfterRequest
  <1>5. CASE t \notin Txns
    <2>1. row' = row BY <1>0, <1>1, <1>5, SettledTypes
    <2> QED BY <1>0, <1>1, <1>4, <2>1, NothingMoves
  <1>6. CASE t \in Txns
    <2>1. /\ req[w].row = row[t] /\ row[t].status = "in_progress"
          /\ ~row[t].is_processed /\ row[t].type = "online"
      BY <1>0, <1>6, Has, OrdersAssumption DEF Current, Acceptable
    <2>2. row[t] \in Row /\ req[w].delivery \in {"cash_courier", "self_pickup", "online_payment"}
      BY <1>0, <1>6, SettledTypes DEF Request
    <2>3. /\ n \in Row /\ n.status = "in_progress" /\ Counted(n) = 0 /\ Counted(row[t]) = 0
          /\ ~Declined(n) /\ ~Declined(row[t]) /\ n.type = "online"
      BY <2>1, <2>2 DEF Row, Saved, Counted, Declined
    <2> HIDE DEF n
    <2>4. Linked(cart', count', row') /\ UnitsKept(cart', count', row', stock')
      BY <1>0, <1>1, <1>6, <2>1, <2>3, RowSettles
    <2>5. CardEarned(row', card') /\ OfflineIsPaid(row')
      <3>1. Counted(n) >= Counted(row[t]) BY <2>3
      <3> QED BY <1>0, <1>1, <1>6, <2>3, <3>1, CardSettles
    <2> QED BY <1>0, <1>1, <1>4, <2>4, <2>5 DEF Settled, counters
  <1> QED BY <1>5, <1>6

-----------------------------------------------------------------------------
(* Orders that become accepted, and those that no longer are. *)

LEMMA CommitAnonymousSettles ==
  ASSUME OneAtATime, ShopInv, NEW w \in Workers, CommitAnonymous(w)
  PROVE  Settled' /\ AllFresh'
  <1> DEFINE r == req[w]
             c == r.cart
             n == Saved([AbsentRow EXCEPT !.status = "accepted", !.payment_status = "accepted",
                                          !.is_processed = TRUE, !.type = "offline",
                                          !.delivery_type = "cart_checkout", !.amount = r.count])
  <1>0. Inv /\ Settled /\ r \in Request /\ r.pc = "anonymous" BY Has DEF CommitAnonymous
  <1>1. PICK t \in Txns : FreshTxn(t) /\ row' = [row EXCEPT ![t] = n] /\ cart' = Closed(c, t)
    BY DEF CommitAnonymous
  <1>2. /\ TakeFromStock(r) /\ IssueId(w) /\ Finish(w) /\ UNCHANGED <<count, card>>
    BY DEF CommitAnonymous
  <1>3. /\ c \in Carts /\ cart[c].txn = NoTxn /\ r.count = count[c] /\ r.stock = stock /\ r.id = runningId
    BY <1>0, Has DEF Fresh, Settled, Linked
  <1>4. r.count \in Nat /\ stock \in Nat BY <1>0, SettledTypes DEF Request
  <1>5. /\ n \in Row /\ n.status = "accepted" /\ n.amount = r.count
        /\ Counted(n) = 0 /\ ~Declined(n) /\ n.payment_status = "accepted"
    BY <1>4 DEF Saved, AbsentRow, Row, Counted, Declined
  <1>6. row[t].status = "absent" /\ ~row[t].is_processed /\ row[t] \in Row
    BY <1>0, <1>1, SettledTypes DEF FreshTxn, Exists, Inv, RowsConsistent, Consistent
  <1>7. Counted(row[t]) = 0 /\ ~Declined(row[t]) BY <1>6 DEF Counted, Declined
  <1>8. row'[t] = n /\ \A u \in Txns : u # t => row'[u] = row[u] BY <1>0, <1>1, <1>5, SettledTypes
  <1>9. \A d \in Carts : cart[d].txn # t
    BY <1>0, <1>1, <1>6, OrdersAssumption DEF Settled, Linked
  <1>10. \A d \in Carts : cart[d].txn \in Txns \union {NoTxn} BY <1>0, SettledTypes
  <1>11. stock' \in Nat /\ stock' + r.count = stock
    BY <1>2, <1>3, <1>4 DEF TakeFromStock
  <1> HIDE DEF n, c, r
  <1>12. Linked(cart, count, row') BY <1>0, <1>8, <1>9, <1>10 DEF Settled, Linked
  <1>13. /\ Linked(cart', count, row')
         /\ cart'[c].txn = t /\ \A d \in Carts \ {c} : cart'[d] = cart[d]
    BY <1>0, <1>1, <1>3, <1>5, <1>8, <1>9, <1>12, LinkSettles
  <1>14. UnitsKept(cart', count, row', stock')
    <2>1. \A d \in Carts \ {c} : Taken(cart', count, row')[d] = Taken(cart, count, row)[d]
      BY <1>8, <1>9, <1>10, <1>13 DEF Taken
    <2>2. Taken(cart', count, row')[c] = r.count
      BY <1>3, <1>5, <1>8, <1>13, OrdersAssumption DEF Taken
    <2>3. Taken(cart, count, row)[c] = 0 BY <1>3 DEF Taken
    <2>4. stock' + Taken(cart', count, row')[c] >= stock + Taken(cart, count, row)[c]
      BY <1>4, <1>11, <2>2, <2>3
    <2>5. UnitsKept(cart, count, row, stock) /\ count \in [Carts -> Nat] BY <1>0, SettledTypes DEF Settled
    <2> QED BY <1>3, <1>4, <1>11, <2>1, <2>4, <2>5, UnitsMove
  <1>15. CardEarned(row', card') /\ OfflineIsPaid(row')
    <2>1. Counted(n) >= Counted(row[t]) BY <1>5, <1>7
    <2> QED BY <1>0, <1>1, <1>2, <1>5, <1>7, <2>1, CardSettles
  <1>16. IdsApart(issued', runningId') BY <1>0, <1>2, <1>3, IdsSettle DEF r
  <1>17. AllFresh' BY <1>0, <1>2, AfterFinish
  <1> QED BY <1>2, <1>13, <1>14, <1>15, <1>16, <1>17 DEF Settled

(* One order, of one cart, becomes accepted with the units of the cart.     *)
LEMMA AcceptSettles ==
  ASSUME Inv, Settled, NEW t \in Txns, NEW c \in Carts, cart[c].txn = t,
         row[t].status # "accepted", NEW n \in Row, row' = [row EXCEPT ![t] = n],
         n.status = "accepted", n.amount = count[c], UNCHANGED <<cart, count>>,
         stock' \in Nat, stock' + count[c] >= stock
  PROVE  Linked(cart', count', row') /\ UnitsKept(cart', count', row', stock')
  <1>1. row'[t] = n /\ \A u \in Txns : u # t => row'[u] = row[u] BY SettledTypes
  <1>2. \A d \in Carts : cart[d].txn \in Txns \union {NoTxn} BY SettledTypes
  <1>3. t # NoTxn /\ \A d \in Carts : cart[d].txn = t => d = c
    BY OrdersAssumption DEF Settled, Linked
  <1>4. Linked(cart, count, row') BY <1>1, <1>2, <1>3 DEF Settled, Linked
  <1>5. UnitsKept(cart, count, row', stock')
    <2>1. \A d \in Carts \ {c} : Taken(cart, count, row')[d] = Taken(cart, count, row)[d]
      BY <1>1, <1>2, <1>3 DEF Taken
    <2>2. Taken(cart, count, row')[c] = count[c] /\ Taken(cart, count, row)[c] = 0
      BY <1>1, <1>3 DEF Taken
    <2>3. UnitsKept(cart, count, row, stock) /\ count \in [Carts -> Nat] /\ stock \in Nat
      BY SettledTypes DEF Settled
    <2>4. stock' + Taken(cart, count, row')[c] >= stock + Taken(cart, count, row)[c]
      BY <2>2, <2>3
    <2>5. stock' \in Nat /\ c \in Carts OBVIOUS
    <2> QED BY ONLY <2>1, <2>3, <2>4, <2>5, UnitsMove
  <1> QED BY <1>4, <1>5

LEMMA CommitCompleteSettles ==
  ASSUME OneAtATime, ShopInv, NEW w \in Workers, CommitComplete(w)
  PROVE  Settled' /\ AllFresh'
  <1> DEFINE r == req[w]
             t == r.txn
             c == r.cart
             n == [row[t] EXCEPT !.status = "accepted", !.payment_status = "accepted",
                                 !.is_processed = TRUE, !.amount = r.count]
  <1>0. Inv /\ Settled /\ r \in Request /\ r.pc = "complete_read" BY Has DEF CommitComplete
  <1>1. /\ t \in Txns /\ row[t].status = "in_progress" /\ ~row[t].is_processed /\ row[t].type = "online"
    BY <1>0, Has DEF Current, Acceptable
  <1>2. /\ c \in Carts /\ cart[c].txn = t /\ r.count = count[c] /\ r.id = runningId
        /\ r.reached = Reached(Besides(t, row) + row[t].final_amount)
    BY <1>0, Has DEF Fresh
  <1>3. /\ row' = [row EXCEPT ![t] = n] /\ card' = r.reached /\ IssueId(w) /\ Finish(w)
        /\ UNCHANGED <<cart, count, stock>>
    BY DEF CommitComplete
  <1>4. row[t] \in Row /\ stock \in Nat /\ count[c] \in Nat BY <1>0, <1>1, <1>2, SettledTypes
  <1>5. /\ n \in Row /\ n.status = "accepted" /\ n.amount = count[c]
        /\ Counted(n) = row[t].final_amount /\ n.type = "online"
    BY <1>1, <1>2, <1>4 DEF Row, Counted
  <1> HIDE DEF r, c, t, n
  <1>6. Linked(cart', count', row') /\ UnitsKept(cart', count', row', stock')
    <2>1. stock' \in Nat /\ stock' + count[c] >= stock BY <1>3, <1>4
    <2>2. row[t].status # "accepted" BY <1>1
    <2> QED BY <1>0, <1>1, <1>2, <1>3, <1>5, <2>1, <2>2, AcceptSettles
  <1>7. CardEarned(row', card') /\ OfflineIsPaid(row')
    BY <1>0, <1>1, <1>2, <1>3, <1>5, CardRecomputed
  <1>8. IdsApart(issued', runningId') BY <1>0, <1>2, <1>3, IdsSettle DEF r
  <1>9. AllFresh' BY <1>0, <1>3, AfterFinish
  <1> QED BY <1>6, <1>7, <1>8, <1>9 DEF Settled

LEMMA CommitPaymentSettles ==
  ASSUME OneAtATime, ShopInv, NEW w \in Workers, CommitPayment(w)
  PROVE  Settled' /\ AllFresh'
  <1> DEFINE r == req[w]
             t == r.txn
             c == r.cart
             n == ToBePaid(r)
  <1>0. Inv /\ Settled /\ r \in Request /\ r.pc = "payment_read" BY Has DEF CommitPayment
  <1>1. /\ t \in Txns /\ row[t].status = "in_progress" /\ ~row[t].is_processed /\ row[t].type = "online"
        /\ r.row = row[t]
    BY <1>0, Has DEF Current, Acceptable, Loading
  <1>2. /\ c \in Carts /\ cart[c].txn = t /\ r.count = count[c] /\ r.total = count[c] /\ r.id = runningId
        /\ r.stock = stock /\ r.reached = Reached(Besides(t, row))
    BY <1>0, Has DEF Fresh
  <1>3. /\ row' = [row EXCEPT ![t] = n] /\ card' = r.reached /\ IssueId(w) /\ Finish(w)
        /\ TakeFromStock(r) /\ UNCHANGED <<cart, count>>
    BY DEF CommitPayment
  <1>4. row[t] \in Row /\ stock \in Nat /\ count[c] \in Nat BY <1>0, <1>1, <1>2, SettledTypes
  <1>5. /\ n \in Row /\ n.status = "accepted" /\ n.amount = count[c]
        /\ Counted(n) = 0 /\ n.type = "online"
    BY <1>1, <1>2, <1>4 DEF Row, Counted, ToBePaid, Saved
  <1>6. stock' \in Nat /\ stock' + count[c] >= stock BY <1>2, <1>3, <1>4 DEF TakeFromStock
  <1>7. r.reached = Reached(Besides(t, row) + 0)
    <2>1. Besides(t, row) \in Int BY <1>0, SettledTypes, CountsAreNat
    <2>2. Besides(t, row) + 0 = Besides(t, row) BY <2>1
    <2> QED BY <1>2, <2>2
  <1> HIDE DEF r, c, t, n
  <1>8. Linked(cart', count', row') /\ UnitsKept(cart', count', row', stock')
    <2>1. row[t].status # "accepted" BY <1>1
    <2> QED BY <1>0, <1>1, <1>2, <1>3, <1>5, <1>6, <2>1, AcceptSettles
  <1>9. CardEarned(row', card') /\ OfflineIsPaid(row')
    BY <1>0, <1>1, <1>3, <1>5, <1>7, CardRecomputed
  <1>10. IdsApart(issued', runningId') BY <1>0, <1>2, <1>3, IdsSettle DEF r
  <1>11. AllFresh' BY <1>0, <1>3, AfterFinish
  <1> QED BY <1>8, <1>9, <1>10, <1>11 DEF Settled

-----------------------------------------------------------------------------
(* The client pays or declines, the seller refunds. *)

LEMMA CommitAcceptSettles ==
  ASSUME OneAtATime, ShopInv, NEW w \in Workers, CommitAccept(w)
  PROVE  Settled' /\ AllFresh'
  <1> DEFINE t == req[w].txn
             n == Saved([req[w].row EXCEPT !.payment_status = "accepted", !.is_processed = TRUE])
  <1>0. Inv /\ Settled /\ req[w] \in Request /\ req[w].pc = "accept" BY Has DEF CommitAccept
  <1>1. /\ t \in Txns /\ req[w].row = row[t] /\ row[t].status = "accepted" /\ ~row[t].is_processed
    BY <1>0, Has DEF Current, Loading
  <1>2. row' = [row EXCEPT ![t] = n] /\ Finish(w) /\ UNCHANGED <<cart, count, stock, card, counters>>
    BY DEF CommitAccept
  <1>3. row[t] \in Row BY <1>0, <1>1, SettledTypes
  <1>4. /\ n \in Row /\ n.status = "accepted" /\ n.amount = row[t].amount
        /\ n.payment_status = "accepted" /\ Counted(row[t]) = 0 /\ ~Declined(row[t])
    BY <1>1, <1>3 DEF Row, Saved, Counted, Declined
  <1> HIDE DEF t, n
  <1>5. Linked(cart', count', row') /\ UnitsKept(cart', count', row', stock')
    BY <1>0, <1>1, <1>2, <1>4, RowSettles
  <1>6. CardEarned(row', card') /\ OfflineIsPaid(row')
    <2>1. Counted(n) \in Nat BY <1>4 DEF Counted, Row
    <2>2. Counted(n) >= Counted(row[t]) BY <1>4, <2>1
    <2> QED BY <1>0, <1>1, <1>2, <1>4, <2>2, CardSettles
  <1>7. AllFresh' BY <1>0, <1>2, AfterFinish
  <1> QED BY <1>0, <1>2, <1>5, <1>6, <1>7 DEF Settled, counters

LEMMA CommitRejectSettles ==
  ASSUME OneAtATime, ShopInv, NEW w \in Workers, CommitReject(w)
  PROVE  Settled' /\ AllFresh'
  <1> DEFINE t == req[w].txn
             n == Saved([req[w].row EXCEPT !.payment_status = "rejected"])
  <1>0. Inv /\ Settled /\ req[w] \in Request /\ req[w].pc = "reject" BY Has DEF CommitReject
  <1>1. t \in Txns /\ req[w].row = row[t] /\ row[t].type = "online"
    BY <1>0, Has DEF Current, Loading, Fresh
  <1>2. row' = [row EXCEPT ![t] = n] /\ Finish(w) /\ UNCHANGED <<cart, count, stock, card, counters>>
    BY DEF CommitReject
  <1>3. row[t] \in Row BY <1>0, <1>1, SettledTypes
  <1>4. /\ n \in Row /\ n.status = row[t].status /\ n.amount = row[t].amount
        /\ (Counted(n) = 0 /\ Counted(row[t]) = 0) \/ Declined(n)
        /\ Declined(row[t]) => Declined(n)
        /\ n.type = row[t].type
    BY <1>1, <1>3 DEF Row, Saved, Counted, Declined
  <1> HIDE DEF t, n
  <1>5. Linked(cart', count', row') /\ UnitsKept(cart', count', row', stock')
    BY <1>0, <1>1, <1>2, <1>4, RowSettles
  <1>6. CardEarned(row', card') /\ OfflineIsPaid(row')
    <2>1. Counted(n) >= Counted(row[t]) \/ Declined(n) BY <1>4
    <2>2. n.type # "offline" BY <1>1, <1>4
    <2> QED BY <1>0, <1>1, <1>2, <1>4, <2>1, <2>2, CardSettles
  <1>7. AllFresh' BY <1>0, <1>2, AfterFinish
  <1> QED BY <1>0, <1>2, <1>5, <1>6, <1>7 DEF Settled, counters

LEMMA CommitRefundSettles ==
  ASSUME OneAtATime, ShopInv, NEW w \in Workers, CommitRefund(w)
  PROVE  Settled' /\ AllFresh'
  <1> DEFINE r == req[w]
             t == r.txn
             n == Refunded(r.row)
             held == IF row[t].status = "accepted" THEN r.count ELSE 0
  <1>0. Inv /\ Settled /\ r \in Request /\ r.pc = "refund_read" BY Has DEF CommitRefund
  <1>1. t \in Txns /\ r.row = row[t] /\ row[t].status \notin {"absent", "rejected"}
    BY <1>0, Has DEF Current, Loading
  <1>2. /\ r.stock = stock /\ r.reached = Reached(Besides(t, row))
        /\ \A c \in Carts : cart[c].txn = t => r.count = count[c]
    BY <1>0, Has DEF Fresh
  <1>3. /\ row' = [row EXCEPT ![t] = n] /\ Finish(w) /\ UNCHANGED <<cart, count, counters>>
        /\ card' = IF row[t].type = "online" THEN r.reached ELSE card
        /\ IF row[t].status = "accepted" THEN ReturnToStock(r) ELSE UNCHANGED stock
    BY <1>1 DEF CommitRefund
  <1>4. row[t] \in Row /\ stock \in Nat /\ r.count \in Nat BY <1>0, <1>1, SettledTypes DEF Request
  <1>5. /\ n \in Row /\ n.status = "rejected" /\ Counted(n) = 0 /\ ~Declined(n)
        /\ n.type = row[t].type /\ n.payment_status = row[t].payment_status
    BY <1>1, <1>4 DEF Row, Counted, Declined, Refunded, Saved
  <1>6. stock' \in Nat /\ stock' = stock + held BY <1>2, <1>3, <1>4 DEF ReturnToStock
  <1>7. row'[t] = n /\ \A u \in Txns : u # t => row'[u] = row[u] BY <1>0, <1>1, <1>3, SettledTypes
  <1>8. \A d \in Carts : cart[d].txn \in Txns \union {NoTxn} BY <1>0, SettledTypes
  <1>9. t # NoTxn BY <1>1, OrdersAssumption
  <1> HIDE DEF r, t, n
  <1>10. Linked(cart, count, row') BY <1>0, <1>5, <1>7, <1>8 DEF Settled, Linked
  <1>11. \A d \in Carts : cart[d].txn # t => Taken(cart, count, row')[d] = Taken(cart, count, row)[d]
    BY <1>7, <1>8 DEF Taken
  <1>12. UnitsKept(cart, count, row, stock) /\ count \in [Carts -> Nat] BY <1>0, SettledTypes DEF Settled
  <1>13. UnitsKept(cart, count, row', stock')
    <2>1. CASE \A d \in Carts : cart[d].txn # t
      <3>1. \A d \in Carts : Taken(cart, count, row')[d] = Taken(cart, count, row)[d] BY <1>11, <2>1
      <3>2. UnitsKept(cart, count, row', stock) BY ONLY <1>12, <3>1, UnitsStay
      <3>3. SumOf(Taken(cart, count, row'), Carts) \in Int BY <1>12, TakenIsSum
      <3>4. stock' >= stock /\ InitialStock \in Nat BY <1>4, <1>6, OrdersAssumption
      <3> QED BY <1>4, <1>6, <3>2, <3>3, <3>4 DEF UnitsKept
    <2>2. ASSUME NEW c \in Carts, cart[c].txn = t PROVE UnitsKept(cart, count, row', stock')
      <3>1. \A d \in Carts \ {c} : cart[d].txn # t BY <1>0, <1>9, <2>2 DEF Settled, Linked
      <3>2. \A d \in Carts \ {c} : Taken(cart, count, row')[d] = Taken(cart, count, row)[d]
        BY <1>11, <3>1
      <3>3. Taken(cart, count, row')[c] = 0 BY <1>5, <1>7, <2>2 DEF Taken
      <3>4. Taken(cart, count, row)[c] = held BY <1>2, <1>9, <2>2 DEF Taken
      <3>5. held \in Nat BY <1>4
      <3> HIDE DEF held
      <3>6. stock' + Taken(cart, count, row')[c] >= stock + Taken(cart, count, row)[c]
        BY <1>4, <1>6, <3>3, <3>4, <3>5
      <3>7. stock \in Nat /\ stock' \in Nat /\ c \in Carts BY <1>4, <1>6
      <3> QED BY ONLY <1>12, <3>2, <3>6, <3>7, UnitsMove
    <2> QED BY <2>1, <2>2
  <1>14. n.type = "offline" => n.payment_status # "rejected"
    BY <1>0, <1>1, <1>5 DEF Settled, OfflineIsPaid
  <1>15. CardEarned(row', card') /\ OfflineIsPaid(row')
    <2>1. CASE row[t].type = "online"
      <3>1. Besides(t, row) \in Int BY <1>0, SettledTypes, CountsAreNat
      <3>2. Besides(t, row) + Counted(n) = Besides(t, row) BY <1>5, <3>1
      <3>3. card' = Reached(Besides(t, row) + Counted(n)) BY <1>2, <1>3, <2>1, <3>2
      <3> QED BY <1>0, <1>1, <1>3, <1>5, <1>14, <3>3, CardRecomputed
    <2>2. CASE row[t].type # "online"
      <3>1. row[t].type = "offline" BY <1>4, <2>2 DEF Row
      <3>2. Counted(row[t]) = 0 /\ ~Declined(row[t]) BY <1>5, <1>14, <3>1 DEF Counted, Declined
      <3>3. Counted(n) >= Counted(row[t]) BY <1>5, <3>2
      <3>4. card' = card BY <1>3, <2>2
      <3> QED BY <1>0, <1>1, <1>3, <1>5, <1>14, <3>2, <3>3, <3>4, CardSettles
    <2> QED BY <2>1, <2>2
  <1>16. AllFresh' BY <1>0, <1>3, AfterFinish
  <1> QED BY <1>0, <1>3, <1>10, <1>13, <1>15, <1>16 DEF Settled, counters

-----------------------------------------------------------------------------
(* The steps that only load or read. *)

LEMMA LoadedIs ==
  ASSUME Inv, NEW t \in Txns, NEW pc
  PROVE  LET r == [Loaded(t) EXCEPT !.pc = pc] IN
         /\ r.pc = pc /\ r.txn = t /\ r.row = row[t] /\ r.id = runningId
         /\ r.cart # NoCart => r.cart \in Carts /\ cart[r.cart].txn = t /\ r.count = count[r.cart]
  <1>1. CASE HasCart(t)
    <2>1. CartOf(t) \in Carts /\ cart[CartOf(t)].txn = t BY <1>1 DEF HasCart, CartOf
    <2> QED BY <1>1, <2>1 DEF Loaded, Idle
  <1>2. CASE ~HasCart(t) BY <1>2 DEF Loaded, Idle
  <1> QED BY <1>1, <1>2

LEMMA CartBegins ==
  ASSUME OneAtATime, ShopInv, NEW w \in Workers, NEW c \in Carts,
         \/ \E wanted \in 0..MaxCount : BeginEdit(w, c, wanted)
         \/ \E delivery \in Deliveries : BeginCheckout(w, c, delivery)
         \/ BeginAnonymous(w, c)
  PROVE  Settled' /\ AllFresh'
  <1>0. Inv /\ Settled BY Has
  <1>1. ASSUME NEW wanted, BeginEdit(w, c, wanted) PROVE Settled' /\ AllFresh'
    <2> DEFINE r == [[Idle EXCEPT !.cart = c, !.txn = cart[c].txn, !.total = wanted] EXCEPT !.pc = "edit"]
    <2>1. r.pc = "edit" /\ r.cart = c /\ r.txn = cart[c].txn BY DEF Idle
    <2>2. Begin(w, "edit", [Idle EXCEPT !.cart = c, !.txn = cart[c].txn, !.total = wanted])
      BY <1>1 DEF BeginEdit
    <2>3. UNCHANGED <<cart, count, row, stock, card, counters>> BY <1>1 DEF BeginEdit
    <2>4. req' = [req EXCEPT ![w] = r] BY <2>2 DEF Begin
    <2> HIDE DEF r
    <2>5. Fresh(r, cart, count, row, stock, runningId) BY <1>1, <2>1 DEF Fresh, BeginEdit
    <2> QED BY <1>0, <2>3, <2>4, <2>5, Reads
  <1>2. ASSUME NEW delivery, BeginCheckout(w, c, delivery) PROVE Settled' /\ AllFresh'
    <2> DEFINE r == [[Idle EXCEPT !.cart = c, !.delivery = delivery] EXCEPT !.pc = "checkout"]
    <2>1. r.pc = "checkout" /\ r.cart = c BY DEF Idle
    <2>2. Begin(w, "checkout", [Idle EXCEPT !.cart = c, !.delivery = delivery])
      BY <1>2 DEF BeginCheckout
    <2>3. UNCHANGED <<cart, count, row, stock, card, counters>> BY <1>2 DEF BeginCheckout
    <2>4. req' = [req EXCEPT ![w] = r] BY <2>2 DEF Begin
    <2> HIDE DEF r
    <2>5. Fresh(r, cart, count, row, stock, runningId) BY <1>2, <2>1 DEF Fresh, BeginCheckout
    <2> QED BY <1>0, <2>3, <2>4, <2>5, Reads
  <1>3. CASE BeginAnonymous(w, c)
    <2> DEFINE r == [[Idle EXCEPT !.cart = c, !.count = count[c], !.stock = stock,
                                  !.id = runningId] EXCEPT !.pc = "anonymous"]
    <2>1. /\ r.pc = "anonymous" /\ r.cart = c /\ r.count = count[c] /\ r.stock = stock
          /\ r.id = runningId
      BY DEF Idle
    <2>2. Begin(w, "anonymous", [Idle EXCEPT !.cart = c, !.count = count[c], !.stock = stock,
                                             !.id = runningId])
      BY <1>3 DEF BeginAnonymous
    <2>3. UNCHANGED <<cart, count, row, stock, card, counters>> BY <1>3 DEF BeginAnonymous
    <2>4. req' = [req EXCEPT ![w] = r] BY <2>2 DEF Begin
    <2> HIDE DEF r
    <2>5. Fresh(r, cart, count, row, stock, runningId) BY <1>3, <2>1 DEF Fresh, BeginAnonymous
    <2> QED BY <1>0, <2>3, <2>4, <2>5, Reads
  <1> QED BY <1>1, <1>2, <1>3

LEMMA OrderBegins ==
  ASSUME OneAtATime, ShopInv, NEW w \in Workers, NEW t \in Txns,
         \/ BeginComplete(w, t) \/ AnswerFromCache(w, t) \/ BeginPayment(w, t)
         \/ BeginAccept(w, t) \/ BeginReject(w, t) \/ BeginRefund(w, t)
  PROVE  Settled' /\ AllFresh'
  <1> DEFINE l(pc) == [Loaded(t) EXCEPT !.pc = pc]
             r(pc) == [[Idle EXCEPT !.txn = t, !.row = row[t]] EXCEPT !.pc = pc]
             a == [[Idle EXCEPT !.txn = t] EXCEPT !.pc = "answered"]
  <1>0. Inv /\ Settled BY Has
  <1>1. UNCHANGED <<cart, count, row, stock, card, counters>>
    BY DEF BeginComplete, AnswerFromCache, BeginPayment, BeginAccept, BeginReject, BeginRefund
  <1>2. \A pc : /\ l(pc).pc = pc /\ l(pc).txn = t /\ l(pc).id = runningId
                /\ l(pc).cart # NoCart => /\ l(pc).cart \in Carts /\ cart[l(pc).cart].txn = t
                                          /\ l(pc).count = count[l(pc).cart]
    BY <1>0, LoadedIs
  <1>3. (\A pc : r(pc).pc = pc /\ r(pc).txn = t) /\ a.pc = "answered" BY DEF Idle
  <1>4. \/ \E pc \in {"complete", "payment"} : req' = [req EXCEPT ![w] = l(pc)]
        \/ \E pc \in {"accept", "reject", "refund"} :
             /\ req' = [req EXCEPT ![w] = r(pc)]
             /\ pc = "reject" => row[t].type = "online"
        \/ req' = [req EXCEPT ![w] = a]
    BY DEF BeginComplete, AnswerFromCache, BeginPayment, BeginAccept, BeginReject, BeginRefund, Begin
  <1> HIDE DEF l, r, a
  <1>5. ASSUME NEW pc \in {"complete", "payment"} PROVE Fresh(l(pc), cart, count, row, stock, runningId)
    BY <1>2, <1>5 DEF Fresh
  <1>6. ASSUME NEW pc \in {"accept", "reject", "refund"}, pc = "reject" => row[t].type = "online"
        PROVE  Fresh(r(pc), cart, count, row, stock, runningId)
    BY <1>3, <1>6 DEF Fresh
  <1>7. Fresh(a, cart, count, row, stock, runningId) BY <1>3 DEF Fresh
  <1> QED BY <1>0, <1>1, <1>4, <1>5, <1>6, <1>7, Reads

LEMMA ReadForCompleteSettles ==
  ASSUME OneAtATime, ShopInv, NEW w \in Workers, ReadForComplete(w)
  PROVE  Settled' /\ AllFresh'
  <1> DEFINE t == req[w].txn
             limits == Reached(SpentBesides(t) + row[t].final_amount)
             r == [req[w] EXCEPT !.pc = "complete_read", !.reached = limits]
  <1>0. Inv /\ Settled /\ req[w] \in Request /\ req[w].pc = "complete" /\ req[w].cart # NoCart
    BY Has DEF ReadForComplete
  <1>1. req' = [req EXCEPT ![w] = r] /\ UNCHANGED <<cart, count, row, stock, card, counters>>
    BY DEF ReadForComplete
  <1>2. limits = Reached(Besides(t, row) + row[t].final_amount) BY <1>0, SpentIsBesides
  <1>3. /\ r.pc = "complete_read" /\ r.reached = limits /\ r.txn = t /\ r.cart = req[w].cart
        /\ r.count = req[w].count /\ r.id = req[w].id
    BY <1>0 DEF Request
  <1>4. Fresh(req[w], cart, count, row, stock, runningId) BY Has
  <1> HIDE DEF r, limits
  <1>5. Fresh(r, cart, count, row, stock, runningId) BY <1>0, <1>2, <1>3, <1>4 DEF Fresh
  <1> QED BY <1>0, <1>1, <1>5, Reads

LEMMA ReadForPaymentSettles ==
  ASSUME OneAtATime, ShopInv, NEW w \in Workers, ReadForPayment(w)
  PROVE  Settled' /\ AllFresh'
  <1> DEFINE t == req[w].txn
             m == count[req[w].cart]
             limits == Reached(SpentBesides(t))
             r == [req[w] EXCEPT !.pc = "payment_read", !.total = m, !.stock = stock,
                                 !.reached = limits]
  <1>0. Inv /\ Settled /\ req[w] \in Request /\ req[w].pc = "payment" /\ req[w].cart # NoCart
    BY Has DEF ReadForPayment
  <1>1. req' = [req EXCEPT ![w] = r] /\ UNCHANGED <<cart, count, row, stock, card, counters>>
    BY DEF ReadForPayment
  <1>2. limits = Reached(Besides(t, row)) BY <1>0, SpentIsBesides
  <1>3. /\ r.pc = "payment_read" /\ r.reached = limits /\ r.txn = t /\ r.cart = req[w].cart
        /\ r.count = req[w].count /\ r.id = req[w].id /\ r.total = m /\ r.stock = stock
    BY <1>0 DEF Request
  <1>4. Fresh(req[w], cart, count, row, stock, runningId) BY Has
  <1> HIDE DEF r, limits
  <1>5. Fresh(r, cart, count, row, stock, runningId) BY <1>0, <1>2, <1>3, <1>4 DEF Fresh
  <1> QED BY <1>0, <1>1, <1>5, Reads

LEMMA ReadForRefundSettles ==
  ASSUME OneAtATime, ShopInv, NEW w \in Workers, ReadForRefund(w)
  PROVE  Settled' /\ AllFresh'
  <1> DEFINE t == req[w].txn
             m == IF HasCart(t) THEN count[CartOf(t)] ELSE 0
             limits == Reached(SpentBesides(t))
             r == [req[w] EXCEPT !.pc = "refund_read", !.stock = stock, !.count = m,
                                 !.reached = limits]
  <1>0. Inv /\ Settled /\ req[w] \in Request /\ req[w].pc = "refund" BY Has DEF ReadForRefund
  <1>1. req' = [req EXCEPT ![w] = r] /\ UNCHANGED <<cart, count, row, stock, card, counters>>
    BY DEF ReadForRefund
  <1>2. limits = Reached(Besides(t, row)) BY <1>0, SpentIsBesides
  <1>3. \A c \in Carts : cart[c].txn = t => m = count[c]
    <2> SUFFICES ASSUME NEW c \in Carts, cart[c].txn = t PROVE m = count[c] OBVIOUS
    <2>1. t \in Txns BY <1>0, Has DEF Current, Loading
    <2>2. t # NoTxn BY <2>1, OrdersAssumption
    <2>3. HasCart(t) /\ CartOf(t) \in Carts /\ cart[CartOf(t)].txn = t BY DEF HasCart, CartOf
    <2>4. CartOf(t) = c BY <1>0, <2>2, <2>3 DEF Settled, Linked
    <2> QED BY <2>3, <2>4
  <1>4. /\ r.pc = "refund_read" /\ r.reached = limits /\ r.txn = t /\ r.count = m /\ r.stock = stock
    BY <1>0 DEF Request
  <1> HIDE DEF r, limits, m
  <1>5. Fresh(r, cart, count, row, stock, runningId) BY <1>2, <1>3, <1>4 DEF Fresh
  <1> QED BY <1>0, <1>1, <1>5, Reads

LEMMA ResetSettles ==
  ASSUME OneAtATime, ShopInv, NEW w \in Workers, ResetPurchaseId(w)
  PROVE  Settled' /\ AllFresh'
  <1>0. Inv /\ Settled BY Has
  <1>1. /\ issued' = <<>> /\ req[w] = Idle /\ req' = req
        /\ UNCHANGED <<cart, count, row, stock, card>>
    BY DEF ResetPurchaseId
  <1>2. IdsApart(issued', runningId') BY <1>1 DEF IdsApart
  <1>3. AllFresh' BY <1>0, <1>1, NobodyActs
  <1> QED BY <1>0, <1>1, <1>2, <1>3 DEF Settled

LEMMA EndSettles ==
  ASSUME OneAtATime, ShopInv, NEW w \in Workers, Answered(w) \/ Fail(w)
  PROVE  Settled' /\ AllFresh'
  <1>0. Inv /\ Settled BY Has
  <1>1. Finish(w) /\ UNCHANGED <<cart, count, row, stock, card, counters>> BY DEF Answered, Fail
  <1> QED BY <1>0, <1>1, AfterFinish, NothingMoves

-----------------------------------------------------------------------------
(* Every step of a shop that serves one request at a time. *)
LEMMA StepSettles ==
  ASSUME OneAtATime, ShopInv, [Next]_vars
  PROVE  Settled' /\ AllFresh'
  <1>1. CASE CartStep BY <1>1, ChangeItemSettles, CartBegins DEF CartStep
  <1>2. CASE OrderStep BY <1>2, OrderBegins DEF OrderStep
  <1>3. CASE HandlerStep
    <2>1. PICK w \in Workers :
            \/ DeleteLines(w) \/ CreateLines(w) \/ SaveTotals(w)
            \/ CreateOrder(w) \/ CloseCart(w) \/ SetDelivery(w) \/ CommitAnonymous(w)
            \/ ReadForComplete(w) \/ CommitComplete(w) \/ Answered(w)
            \/ ReadForPayment(w) \/ CommitPayment(w)
            \/ CommitAccept(w) \/ CommitReject(w)
            \/ ReadForRefund(w) \/ CommitRefund(w)
            \/ ResetPurchaseId(w)
            \/ Fail(w)
      BY <1>3 DEF HandlerStep
    <2> QED
      BY <2>1, EditSettles, SaveTotalsSettles, CreateOrderSettles, CloseCartSettles,
         SetDeliverySettles, CommitAnonymousSettles, ReadForCompleteSettles,
         CommitCompleteSettles, ReadForPaymentSettles, CommitPaymentSettles,
         CommitAcceptSettles, CommitRejectSettles, ReadForRefundSettles,
         CommitRefundSettles, ResetSettles, EndSettles
  <1>4. CASE (\E t \in Txns : ExpireKey(t)) \/ UNCHANGED vars
    <2>1. UNCHANGED <<cart, count, row, stock, card, counters, req>>
      BY <1>4 DEF ExpireKey, vars, counters
    <2> QED BY <2>1, NothingMoves DEF ShopInv, AllFresh, counters
  <1> QED BY <1>1, <1>2, <1>3, <1>4 DEF Next

LEMMA InitSettles == Init => Settled /\ AllFresh
  <1> SUFFICES ASSUME Init PROVE Settled /\ AllFresh OBVIOUS
  <1>1. Linked(cart, count, row) BY DEF Init, Linked
  <1>2. UnitsKept(cart, count, row, stock)
    <2> DEFINE f == Taken(cart, count, row)
    <2>1. \A c \in Carts : f[c] = 0 BY DEF Taken, Init
    <2> HIDE DEF f
    <2>2. SumOf(f, Carts) = 0 BY <2>1, OrdersAssumption, SumZero
    <2>3. stock = InitialStock /\ InitialStock \in Nat BY OrdersAssumption DEF Init
    <2>4. stock + SumOf(f, Carts) >= InitialStock BY <2>2, <2>3
    <2> QED BY <2>4 DEF UnitsKept, f
  <1>3. CardEarned(row, card) /\ OfflineIsPaid(row)
    BY DEF Init, CardEarned, OfflineIsPaid, AbsentRow
  <1>4. IdsApart(issued, runningId) BY DEF Init, IdsApart
  <1>5. AllFresh BY IdleFresh DEF Init, AllFresh
  <1> QED BY <1>1, <1>2, <1>3, <1>4, <1>5 DEF Settled

(* ShopInv is an invariant of a shop that serves one request at a time. *)
THEOREM ShopInvariant ==
  ASSUME OneAtATime
  PROVE  Spec => []ShopInv
  <1>1. Init => ShopInv
    <2>1. Init => \A w \in Workers : Current(req[w]) BY IdleCurrent DEF Init
    <2> QED BY <2>1, InitInv, InitSettles DEF ShopInv, SerialInv
  <1>2. ShopInv /\ [Next]_vars => ShopInv'
    BY NextInv, StepSerial, StepSettles DEF ShopInv, SerialInv
  <1> QED BY <1>1, <1>2, PTL DEF Spec

(* While one request is served at a time the amount of an accepted order   *)
(* is what its cart holds: an edit that dies between deleting and creating *)
(* lines leaves the order unaccepted, and acceptance takes the amount from *)
(* the lines it loaded.                                                    *)
THEOREM AcceptedAmountHolds ==
  ASSUME OneAtATime
  PROVE  Spec => []AcceptedAmountIsCart
  <1>1. ShopInv => AcceptedAmountIsCart
    <2> SUFFICES ASSUME ShopInv, NEW c \in Carts, NEW t \in Txns, cart[c].txn = t,
                        row[t].status = "accepted"
                 PROVE  row[t].amount = count[c]
      BY DEF AcceptedAmountIsCart
    <2>1. t # NoTxn BY OrdersAssumption
    <2> QED BY <2>1 DEF ShopInv, Settled, Linked
  <1> QED BY <1>1, ShopInvariant, PTL

(* While one request is served at a time units leave the stock only into   *)
(* orders that are accepted now: change_back_count_service gives back at   *)
(* least what change_count_service took.                                   *)
THEOREM NoUnitIsLost ==
  ASSUME OneAtATime
  PROVE  Spec => []NoUnitLost
  <1>1. ShopInv => NoUnitLost
    <2> SUFFICES ASSUME ShopInv PROVE NoUnitLost OBVIOUS
    <2>1. count \in [Carts -> Nat] BY SettledTypes DEF ShopInv, SerialInv
    <2>2. UnitsKept(cart, count, row, stock) BY DEF ShopInv, Settled
    <2>3. stock + SumOf(Taken(cart, count, row), Carts) >= InitialStock BY <2>2 DEF UnitsKept
    <2> QED BY <2>1, <2>3, TakenIsSum DEF NoUnitLost
  <1> QED BY <1>1, ShopInvariant, PTL

(* While one request is served at a time the client holds no cumulative    *)
(* card that the processed orders do not cover, unless one of them was     *)
(* declined after it was processed.                                        *)
THEOREM NoUnearnedCardHeld ==
  ASSUME OneAtATime
  PROVE  Spec => []NoUnearnedCard
  <1>1. ShopInv => NoUnearnedCard
    <2> SUFFICES ASSUME ShopInv, \A t \in Txns : row[t].is_processed => row[t].payment_status # "rejected"
                 PROVE  card \subseteq Reached(SpentBesides(NoTxn))
      BY DEF NoUnearnedCard
    <2>1. Inv /\ CardEarned(row, card) BY DEF ShopInv, SerialInv, Settled
    <2>2. ~\E t \in Txns : Declined(row[t]) BY DEF Declined
    <2>3. SpentBesides(NoTxn) = Besides(NoTxn, row) BY <2>1, SpentIsBesides
    <2> QED BY <2>1, <2>2, <2>3 DEF CardEarned
  <1> QED BY <1>1, ShopInvariant, PTL

(* While one request is served at a time no two orders share a purchase id *)
(* until the owner resets the counter.                                     *)
THEOREM PurchaseIdsAreDistinct ==
  ASSUME OneAtATime
  PROVE  Spec => []PurchaseIdsDistinct
  <1>1. ShopInv => PurchaseIdsDistinct
    BY DEF ShopInv, Settled, IdsApart, PurchaseIdsDistinct
  <1> QED BY <1>1, ShopInvariant, PTL

=============================================================================
