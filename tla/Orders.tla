------------------------------- MODULE Orders -------------------------------
(***************************************************************************)
(* The life of a shop order: the client fills a cart and checks it out     *)
(* (shop/services/cart_services.py), the seller edits, accepts or refunds  *)
(* the order and the client pays or declines the payment                   *)
(* (transactions/services/transaction_services.py).                        *)
(*                                                                         *)
(* A worker is a web process serving one request.  PostgreSQL runs at READ *)
(* COMMITTED and no handler locks a row, so a handler is modelled by the   *)
(* steps another worker can get between: the query that loads the row it   *)
(* will write back, the later queries of cart lines, stock and totals, and *)
(* the commit.  Transaction.save() without update_fields writes back every *)
(* field of the row as it was loaded; with update_fields only those named. *)
(*                                                                         *)
(* One client, one shop with one stocked product (purchase_type PRODUCT)   *)
(* of price 1, so an amount is a count of units.                           *)
(***************************************************************************)
EXTENDS Integers, FiniteSets, Sequences, FiniteSetsExt

CONSTANTS
  Workers,       \* request handlers that may be in flight together
  Carts,         \* primary keys of carts
  Txns,          \* primary keys of transactions
  NoCart, NoTxn, \* a null reference
  Deliveries,    \* ways to check out that the shop offers
  InitialStock,  \* units of the product at the start
  MaxCount,      \* bound: units a client asks for in one cart
  MaxStock,      \* bound: refunds stop before the stock passes it
  MaxIssued,     \* bound: purchase ids handed out between two resets
  CardLimits     \* spending limits of the shop's cumulative cards

ASSUME OrdersAssumption ==
  /\ NoTxn \notin Txns /\ NoCart \notin Carts
  /\ IsFiniteSet(Txns) /\ IsFiniteSet(Carts)
  /\ Deliveries \subseteq {"cash_courier", "self_pickup", "online_payment"}
  /\ InitialStock \in Nat /\ MaxCount \in Nat
  /\ MaxStock \in Nat /\ MaxIssued \in Nat
  /\ CardLimits \subseteq Nat \ {0}

VARIABLES
  cart,      \* the cart rows: is it there, is it open, its order
  count,     \* units in the cart's line
  row,       \* the transaction rows
  stock,     \* ShopItemSizeCount.count of the product
  card,      \* limits the client has reached; the highest is the card held
  runningId, \* Organization.running_purchase_id
  issued,    \* purchase ids handed out since the counter was last reset
  cached,    \* orders whose id sits in Redis (60 s)
  req        \* what each worker holds in memory

vars == <<cart, count, row, stock, card, runningId, issued, cached, req>>
counters == <<runningId, issued>>

-----------------------------------------------------------------------------
(* Rows *)

Row == [status         : {"absent", "in_progress", "accepted", "rejected"},
        payment_status : {"in_progress", "accepted", "rejected"},
        is_processed   : BOOLEAN,
        type           : {"online", "offline"},
        delivery_type  : {"cash_courier", "self_pickup", "cart_checkout", "online_payment"},
        amount         : Nat,   \* original_amount - savings
        final_amount   : Nat]

AbsentRow == [status |-> "absent", payment_status |-> "in_progress",
              is_processed |-> FALSE, type |-> "online",
              delivery_type |-> "self_pickup", amount |-> 0, final_amount |-> 0]

CartRow == [state : {"absent", "open", "closed"}, txn : Txns \union {NoTxn}]

Phases == {"idle", "checkout", "ordered", "closed", "confirm",
           "complete", "complete_read", "answered", "payment", "payment_read",
           "accept", "reject", "refund", "refund_read", "anonymous",
           "edit", "emptied", "totals"}

Request == [pc : Phases, cart : Carts \union {NoCart}, txn : Txns \union {NoTxn},
            delivery : {"cash_courier", "self_pickup", "online_payment"},
            row : Row, count : Nat, total : Nat, stock : Nat, id : Nat,
            reached : SUBSET CardLimits]

Idle == [pc |-> "idle", cart |-> NoCart, txn |-> NoTxn, delivery |-> "self_pickup",
         row |-> AbsentRow, count |-> 0, total |-> 0, stock |-> 0, id |-> 0, reached |-> {}]

TypeOK ==
  /\ cart \in [Carts -> CartRow]
  /\ count \in [Carts -> Nat]
  /\ row \in [Txns -> Row]
  /\ stock \in Nat
  /\ card \subseteq CardLimits
  /\ runningId \in Nat
  /\ issued \in Seq(Nat)
  /\ cached \subseteq Txns
  /\ req \in [Workers -> Request]

Init ==
  /\ cart = [c \in Carts |-> [state |-> "absent", txn |-> NoTxn]]
  /\ count = [c \in Carts |-> 0]
  /\ row = [t \in Txns |-> AbsentRow]
  /\ stock = InitialStock
  /\ card = {}
  /\ runningId = 1
  /\ issued = <<>>
  /\ cached = {}
  /\ req = [w \in Workers |-> Idle]

-----------------------------------------------------------------------------
(* What the handlers compute *)

Exists(t) == row[t].status # "absent"

(* The cart whose foreign key is t: the reverse one-to-one Transaction.cart. *)
HasCart(t) == \E c \in Carts : cart[c].txn = t
CartOf(t)  == CHOOSE c \in Carts : cart[c].txn = t

(* Mutant: the order being refunded still counts. *)
SpentWith(t) ==
  MapThenSumSet(LAMBDA u : row[u].final_amount,
                {u \in Txns : row[u].is_processed /\ row[u].type = "online"})

(* final_amount of the client's processed orders, t's own left out. *)
SpentBesides(t) ==
  MapThenSumSet(LAMBDA u : row[u].final_amount,
                {u \in Txns \ {t} : row[u].is_processed /\ row[u].type = "online"})

(* The cumulative cards whose limit is covered by the client's total. *)
Reached(total) == {l \in CardLimits : l <= total}

(* Transaction.save(): final_amount is recomputed, every column is written. *)
Saved(r) == [r EXCEPT !.final_amount = r.amount]

(* Mutants: the payment keeps the totals of the last edit; the refund      *)
(* leaves is_processed set.                                                *)
PaymentKeepsAmount(r) == Saved([r.row EXCEPT !.status = "accepted"])
RefundStaysProcessed(r) == Saved([r EXCEPT !.status = "rejected"])

(* What complete_online_payment_transaction and refund_transaction save,   *)
(* and the one UPDATE that closes a cart and links it to its order.        *)
ToBePaid(r) == Saved([r.row EXCEPT !.status = "accepted", !.amount = r.total])
Refunded(r) == Saved([r EXCEPT !.status = "rejected", !.is_processed = FALSE])
Closed(c, t) == [cart EXCEPT ![c] = [state |-> "closed", txn |-> t]]

(* A key no table holds and no worker remembers. *)
FreshTxn(t)  == ~Exists(t)
FreshCart(c) == cart[c].state = "absent" /\ \A w \in Workers : req[w].cart # c

Begin(w, pc, fields) ==
  /\ req[w] = Idle
  /\ req' = [req EXCEPT ![w] = [fields EXCEPT !.pc = pc]]
Finish(w) == req' = [req EXCEPT ![w] = Idle]

(* Mutant: the number is taken, the counter is not moved. *)
IssueOnly(w) == /\ Len(issued) < MaxIssued
                /\ issued' = Append(issued, req[w].id)
                /\ UNCHANGED runningId

(* The order takes the number the worker read; the counter moves by F()+1. *)
IssueId(w) == /\ Len(issued) < MaxIssued
              /\ issued' = Append(issued, req[w].id)
              /\ runningId' = runningId + 1

(* Mutants: no check before the stock is taken; one unit back per line.    *)
TakeUnchecked(r) == stock' = r.stock - r.count
ReturnOne(r) ==
  IF r.count > 0 THEN stock' = r.stock + 1 /\ stock' <= MaxStock ELSE UNCHANGED stock

(* change_count_service and change_back_count_service: the count read is   *)
(* written back changed.  The column is positive, so taking more than was  *)
(* there raises; a cart without a line touches nothing.                    *)
TakeFromStock(r) ==
  IF r.count > 0 THEN r.stock >= r.count /\ stock' = r.stock - r.count
                 ELSE UNCHANGED stock
ReturnToStock(r) ==
  IF r.count > 0 THEN stock' = r.stock + r.count /\ stock' <= MaxStock
                 ELSE UNCHANGED stock

-----------------------------------------------------------------------------
(* The client's cart *)

(* change_cart_item_count, atomic.  Without an open cart one is created,   *)
(* even when the change is not positive and no line goes into it.          *)
ChangeItem(w, c, change) ==
  /\ req[w] = Idle
  /\ stock >= change
  /\ \/ /\ \A k \in Carts : cart[k].state # "open"
        /\ FreshCart(c)
        /\ cart' = [cart EXCEPT ![c] = [state |-> "open", txn |-> NoTxn]]
        /\ count' = [count EXCEPT ![c] = IF change > 0 THEN change ELSE 0]
     \/ /\ cart[c].state = "open"
        /\ count[c] + change <= 0
        /\ cart' = [cart EXCEPT ![c].state = "absent"]
        /\ count' = [count EXCEPT ![c] = 0]
     \/ /\ cart[c].state = "open"
        /\ count[c] + change \in 1..MaxCount
        /\ change > 0 => stock > count[c]
        /\ count' = [count EXCEPT ![c] = @ + change]
        /\ UNCHANGED cart
  /\ UNCHANGED <<row, stock, card, counters, cached, req>>

(* bulk_update, not atomic: the permission is decided on the cart and the  *)
(* order as first loaded, then every line is deleted (it looks for the key *)
(* of an item among items), the new lines are created, and the order's     *)
(* totals are saved with update_fields.                                    *)
BeginEdit(w, c, wanted) ==
  /\ cart[c].state # "absent"
  /\ cart[c].txn # NoTxn => row[cart[c].txn].status = "in_progress"
  /\ Begin(w, "edit", [Idle EXCEPT !.cart = c, !.txn = cart[c].txn, !.total = wanted])
  /\ UNCHANGED <<cart, count, row, stock, card, counters, cached>>

DeleteLines(w) ==
  /\ req[w].pc = "edit"
  /\ count' = [count EXCEPT ![req[w].cart] = 0]
  /\ req' = [req EXCEPT ![w].pc = "emptied"]
  /\ UNCHANGED <<cart, row, stock, card, counters, cached>>

(* A line wanted beyond the stock is created with what there is, and the   *)
(* request ends in StockException before the totals: nothing is undone.    *)
CreateLines(w) ==
  LET c == req[w].cart IN
  /\ req[w].pc = "emptied"
  /\ cart[c].state # "absent"
  /\ \/ /\ req[w].total > stock
        /\ count' = [count EXCEPT ![c] = stock]
        /\ Finish(w)
     \/ /\ req[w].total <= stock
        /\ count' = [count EXCEPT ![c] = req[w].total]
        /\ IF req[w].txn = NoTxn THEN Finish(w)
                                 ELSE req' = [req EXCEPT ![w].pc = "totals"]
  /\ UNCHANGED <<cart, row, stock, card, counters, cached>>

SaveTotals(w) ==
  /\ req[w].pc = "totals"
  /\ row' = [row EXCEPT ![req[w].txn].amount = count[req[w].cart]]
  /\ Finish(w)
  /\ UNCHANGED <<cart, count, stock, card, counters, cached>>

-----------------------------------------------------------------------------
(* Checkout: process_cart, then the delivery details; every step commits. *)

BeginCheckout(w, c, delivery) ==
  /\ cart[c].state = "open"
  /\ Begin(w, "checkout", [Idle EXCEPT !.cart = c, !.delivery = delivery])
  /\ UNCHANGED <<cart, count, row, stock, card, counters, cached>>

(* create_transaction: get_or_create of the transaction whose cart is this *)
(* one.  Only the worker that creates it sets its own cart object's        *)
(* foreign key; the one that gets it keeps the null it loaded.             *)
CreateOrder(w) ==
  LET c == req[w].cart IN
  /\ req[w].pc = "checkout"
  /\ IF cart[c].txn # NoTxn
       THEN /\ req' = [req EXCEPT ![w].pc = "ordered"]
            /\ UNCHANGED row
       ELSE \E t \in Txns :
              LET new == Saved([AbsentRow EXCEPT !.status = "in_progress",
                                                 !.amount = count[c]])
              IN  /\ FreshTxn(t)
                  /\ row' = [row EXCEPT ![t] = new]
                  /\ req' = [req EXCEPT ![w].pc = "ordered", ![w].txn = t, ![w].row = new]
  /\ UNCHANGED <<cart, count, stock, card, counters, cached>>

(* cart.save(): closes the cart and writes the foreign key in one UPDATE   *)
(* (an INSERT when the cart was deleted meanwhile).  Self pickup answers   *)
(* here; with no transaction on the cart the next call raises.             *)
CloseCart(w) ==
  LET r == req[w] IN
  /\ r.pc = "ordered"
  /\ cart' = Closed(r.cart, r.txn)
  /\ IF r.delivery = "self_pickup" \/ r.txn = NoTxn
       THEN Finish(w)
       ELSE req' = [req EXCEPT ![w].pc = "closed"]
  /\ UNCHANGED <<count, row, stock, card, counters, cached>>

(* DeliveryInfoService.create and create_for_online_payment: the           *)
(* transaction as checkout created it is saved whole.  An online payment   *)
(* of a shop without payment_with_confirmation goes on to be accepted.     *)
SetDelivery(w) ==
  LET r == req[w] IN
  /\ r.pc = "closed"
  /\ row' = [row EXCEPT ![r.txn] = Saved([r.row EXCEPT !.delivery_type = r.delivery])]
  /\ \/ Finish(w)
     \/ /\ r.delivery = "online_payment"
        /\ req' = [req EXCEPT ![w] = [Idle EXCEPT !.pc = "confirm", !.txn = r.txn]]
  /\ UNCHANGED <<cart, count, stock, card, counters, cached>>

(* checkout_cart_for_anonymous_client: an employee sells the cart on the   *)
(* spot to the common client, in one database transaction.                 *)
BeginAnonymous(w, c) ==
  /\ cart[c].state = "open"
  /\ Begin(w, "anonymous", [Idle EXCEPT !.cart = c, !.count = count[c],
                                        !.stock = stock, !.id = runningId])
  /\ UNCHANGED <<cart, count, row, stock, card, counters, cached>>

CommitAnonymous(w) ==
  LET r == req[w] IN
  /\ r.pc = "anonymous"
  /\ TakeFromStock(r)
  /\ \E t \in Txns :
       /\ FreshTxn(t)
       /\ row' = [row EXCEPT ![t] =
            Saved([AbsentRow EXCEPT !.status = "accepted", !.payment_status = "accepted",
                                    !.is_processed = TRUE, !.type = "offline",
                                    !.delivery_type = "cart_checkout", !.amount = r.count])]
       /\ cart' = Closed(r.cart, t)
  /\ IssueId(w)
  /\ Finish(w)
  /\ UNCHANGED <<count, card, cached>>

-----------------------------------------------------------------------------
(* The seller accepts *)

Acceptable(t) ==
  row[t].status = "in_progress" /\ row[t].type = "online" /\ ~row[t].is_processed

(* The row with its cart, the cart's lines and the organization. *)
Loaded(t) ==
  IF HasCart(t)
    THEN [Idle EXCEPT !.txn = t, !.row = row[t], !.id = runningId,
                      !.cart = CartOf(t), !.count = count[CartOf(t)]]
    ELSE [Idle EXCEPT !.txn = t, !.row = row[t], !.id = runningId]

(* complete_online_transaction: the view answers at once while the id is   *)
(* in Redis; otherwise the row, the lines and the counter are loaded and   *)
(* the id is put into Redis, ahead of the commit.                          *)
BeginComplete(w, t) ==
  /\ t \notin cached
  /\ Acceptable(t)
  /\ Begin(w, "complete", Loaded(t))
  /\ cached' = cached \union {t}
  /\ UNCHANGED <<cart, count, row, stock, card, counters>>

AnswerFromCache(w, t) ==
  /\ t \in cached
  /\ Begin(w, "answered", [Idle EXCEPT !.txn = t])
  /\ UNCHANGED <<cart, count, row, stock, card, counters, cached>>

Answered(w) ==
  /\ req[w].pc = "answered"
  /\ Finish(w)
  /\ UNCHANGED <<cart, count, row, stock, card, counters, cached>>

ExpireKey(t) ==
  /\ t \in cached
  /\ cached' = cached \ {t}
  /\ UNCHANGED <<cart, count, row, stock, card, counters, req>>

(* Which card the total spent calls for once t is written as processed.    *)
(* An order that lost its cart gets no further than Redis.                 *)
ReadForComplete(w) ==
  LET t == req[w].txn IN
  /\ req[w].pc = "complete" /\ req[w].cart # NoCart
  /\ req' = [req EXCEPT ![w].pc = "complete_read",
                        ![w].reached = Reached(SpentBesides(t) + row[t].final_amount)]
  /\ UNCHANGED <<cart, count, row, stock, card, counters, cached>>

(* save(update_fields = ...): final_amount is not among the fields; the    *)
(* stock is left alone, no size object ever equalling a size's name.       *)
CommitComplete(w) ==
  LET r == req[w] IN
  /\ r.pc = "complete_read"
  /\ row' = [row EXCEPT ![r.txn].status = "accepted", ![r.txn].payment_status = "accepted",
                        ![r.txn].is_processed = TRUE, ![r.txn].amount = r.count]
  /\ card' = r.reached
  /\ IssueId(w)
  /\ Finish(w)
  /\ UNCHANGED <<cart, count, stock, cached>>

(* complete_online_payment_transaction: accepted, to be paid by the client. *)
BeginPayment(w, t) ==
  /\ req[w] = Idle \/ req[w] = [Idle EXCEPT !.pc = "confirm", !.txn = t]
  /\ Acceptable(t)
  /\ req' = [req EXCEPT ![w] = [Loaded(t) EXCEPT !.pc = "payment"]]
  /\ UNCHANGED <<cart, count, row, stock, card, counters, cached>>

(* The totals of a cart without lines are null, and the request raises.    *)
ReadForPayment(w) ==
  LET r == req[w] IN
  /\ r.pc = "payment" /\ r.cart # NoCart
  /\ count[r.cart] > 0
  /\ req' = [req EXCEPT ![w].pc = "payment_read", ![w].total = count[r.cart],
                        ![w].stock = stock, ![w].reached = Reached(SpentBesides(r.txn))]
  /\ UNCHANGED <<cart, count, row, stock, card, counters, cached>>

CommitPayment(w) ==
  LET r == req[w] IN
  /\ r.pc = "payment_read"
  /\ TakeFromStock(r)
  /\ row' = [row EXCEPT ![r.txn] = ToBePaid(r)]
  /\ card' = r.reached
  /\ IssueId(w)
  /\ Finish(w)
  /\ UNCHANGED <<cart, count, cached>>

-----------------------------------------------------------------------------
(* The client pays or declines, the seller refunds *)

(* Mutant: only is_processed is looked at, not the status. *)
BeginAcceptAnyStatus(w, t) ==
  /\ Exists(t) /\ ~row[t].is_processed
  /\ Begin(w, "accept", [Idle EXCEPT !.txn = t, !.row = row[t]])
  /\ UNCHANGED <<cart, count, row, stock, card, counters, cached>>

(* accept_freedompay_order_transaction_by_user and the PaySy twin: the     *)
(* client, or a payment gateway's callback in the client's name.           *)
BeginAccept(w, t) ==
  /\ row[t].status = "accepted" /\ ~row[t].is_processed
  /\ Begin(w, "accept", [Idle EXCEPT !.txn = t, !.row = row[t]])
  /\ UNCHANGED <<cart, count, row, stock, card, counters, cached>>

CommitAccept(w) ==
  LET r == req[w] IN
  /\ r.pc = "accept"
  /\ row' = [row EXCEPT ![r.txn] = Saved([r.row EXCEPT !.payment_status = "accepted",
                                                       !.is_processed = TRUE])]
  /\ Finish(w)
  /\ UNCHANGED <<cart, count, stock, card, counters, cached>>

(* reject_order_transaction_by_user looks at nothing but who asks. *)
BeginReject(w, t) ==
  /\ Exists(t) /\ row[t].type = "online"
  /\ Begin(w, "reject", [Idle EXCEPT !.txn = t, !.row = row[t]])
  /\ UNCHANGED <<cart, count, row, stock, card, counters, cached>>

CommitReject(w) ==
  LET r == req[w] IN
  /\ r.pc = "reject"
  /\ row' = [row EXCEPT ![r.txn] = Saved([r.row EXCEPT !.payment_status = "rejected"])]
  /\ Finish(w)
  /\ UNCHANGED <<cart, count, stock, card, counters, cached>>

(* refund_transaction: refused when the row as loaded is rejected; the     *)
(* units of an accepted order go back to the stock.                        *)
BeginRefund(w, t) ==
  /\ Exists(t) /\ row[t].status # "rejected"
  /\ Begin(w, "refund", [Idle EXCEPT !.txn = t, !.row = row[t]])
  /\ UNCHANGED <<cart, count, row, stock, card, counters, cached>>

ReadForRefund(w) ==
  LET t == req[w].txn IN
  /\ req[w].pc = "refund"
  /\ req' = [req EXCEPT ![w].pc = "refund_read", ![w].stock = stock,
                        ![w].count = IF HasCart(t) THEN count[CartOf(t)] ELSE 0,
                        ![w].reached = Reached(SpentBesides(t))]
  /\ UNCHANGED <<cart, count, row, stock, card, counters, cached>>

(* The common client of an offline sale holds no card. *)
CommitRefund(w) ==
  LET r == req[w] IN
  /\ r.pc = "refund_read"
  /\ IF r.row.status = "accepted" THEN ReturnToStock(r) ELSE UNCHANGED stock
  /\ row' = [row EXCEPT ![r.txn] = Refunded(r.row)]
  /\ card' = IF r.row.type = "online" THEN r.reached ELSE card
  /\ Finish(w)
  /\ UNCHANGED <<cart, count, counters, cached>>

(* The owner resets the counter of purchase ids (reset_running_purchase_id). *)
ResetPurchaseId(w) ==
  /\ req[w] = Idle
  /\ runningId' = 1
  /\ issued' = <<>>
  /\ UNCHANGED <<cart, count, row, stock, card, cached, req>>

(* A request that raises or whose process dies: what it has not committed  *)
(* is lost, what it has committed stays.                                   *)
Fail(w) ==
  /\ req[w] # Idle
  /\ Finish(w)
  /\ UNCHANGED <<cart, count, row, stock, card, counters, cached>>

-----------------------------------------------------------------------------
CartStep ==
  \E w \in Workers, c \in Carts :
    \/ \E change \in {-1, 1} : ChangeItem(w, c, change)
    \/ \E wanted \in 0..MaxCount : BeginEdit(w, c, wanted)
    \/ \E delivery \in Deliveries : BeginCheckout(w, c, delivery)
    \/ BeginAnonymous(w, c)

OrderStep ==
  \E w \in Workers, t \in Txns :
    \/ BeginComplete(w, t) \/ AnswerFromCache(w, t)
    \/ BeginPayment(w, t)
    \/ BeginAccept(w, t) \/ BeginReject(w, t) \/ BeginRefund(w, t)

HandlerStep ==
  \E w \in Workers :
    \/ DeleteLines(w) \/ CreateLines(w) \/ SaveTotals(w)
    \/ CreateOrder(w) \/ CloseCart(w) \/ SetDelivery(w) \/ CommitAnonymous(w)
    \/ ReadForComplete(w) \/ CommitComplete(w) \/ Answered(w)
    \/ ReadForPayment(w) \/ CommitPayment(w)
    \/ CommitAccept(w) \/ CommitReject(w)
    \/ ReadForRefund(w) \/ CommitRefund(w)
    \/ ResetPurchaseId(w)
    \/ Fail(w)

Next ==
  \/ CartStep
  \/ OrderStep
  \/ HandlerStep
  \/ \E t \in Txns : ExpireKey(t)

Spec == Init /\ [][Next]_vars

-----------------------------------------------------------------------------
(* Whatever the interleaving *)

(* An order is processed only when accepted, and its payment is marked     *)
(* accepted only when it is processed or was refunded since.  Whole-row    *)
(* saves of stale rows (checkout, payment, refusal, refund) may undo one   *)
(* another, but none of them can mix two rows into a third.                *)
Consistent(r) ==
  /\ r.is_processed => r.status = "accepted"
  /\ r.payment_status = "accepted" => r.is_processed \/ r.status = "rejected"
RowsConsistent == \A t \in Txns : Consistent(row[t])

-----------------------------------------------------------------------------
(* One request at a time *)

(* Every order follows the life OrderLifecycle states: a refunded order    *)
(* stays refunded, whatever payment, acceptance, edit or refusal comes     *)
(* late, and nothing is paid that the seller has not accepted.             *)
StageOf(r) ==
  CASE r.is_processed /\ r.status = "accepted"    -> "paid"
    [] ~r.is_processed /\ r.status = "accepted"   -> "accepted"
    [] ~r.is_processed /\ r.status = "in_progress" -> "placed"
    [] ~r.is_processed /\ r.status = "rejected"   -> "rejected"
    [] ~r.is_processed /\ r.status = "absent"     -> "none"
    [] OTHER -> "processed without acceptance"

Stages == [t \in Txns |-> StageOf(row[t])]

Lifecycle == INSTANCE OrderLifecycle WITH Orders <- Txns, stage <- Stages
FollowsLifecycle == Lifecycle!Spec

(* The amount of an accepted order is what its cart holds, although the    *)
(* seller's edit of the cart commits line by line and may die half-way.    *)
AcceptedAmountIsCart ==
  \A c \in Carts, t \in Txns :
    cart[c].txn = t /\ row[t].status = "accepted" => row[t].amount = count[c]

(* Units leave the stock only into orders that are accepted now, so a      *)
(* refund gives back at least what the acceptance took.                    *)
NoUnitLost ==
  stock + MapThenSumSet(LAMBDA c : count[c],
            {c \in Carts : cart[c].txn # NoTxn /\ row[cart[c].txn].status = "accepted"})
    >= InitialStock

(* The client holds no cumulative card that the processed orders standing  *)
(* now do not cover: each refund recomputes it.  Only a payment declined   *)
(* after the order was processed can leave a card behind: its whole-row    *)
(* save corrects final_amount and nobody looks at the card again.          *)
NoUnearnedCard ==
  (\A t \in Txns : row[t].is_processed => row[t].payment_status # "rejected")
    => card \subseteq Reached(SpentBesides(NoTxn))

(* Until the owner resets the counter no two orders share a purchase id. *)
PurchaseIdsDistinct ==
  \A i, j \in DOMAIN issued : issued[i] = issued[j] => i = j
=============================================================================
