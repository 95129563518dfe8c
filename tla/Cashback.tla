------------------------------ MODULE Cashback ------------------------------
(***************************************************************************)
(* Deals without a cart, and the cashback they spend and accrue            *)
(* (transactions/services/transaction_services.py,                         *)
(* organizations/services/client_status_services.py).                      *)
(*                                                                         *)
(* A seller opens a deal with a client and either completes it, or (as a   *)
(* cashier) leaves it to be paid by hand or through a payment gateway.     *)
(* One client; the organizations Orgs share one cashback group, so the     *)
(* client's wallet in each of them pays in all of them.                    *)
(*                                                                         *)
(* Every handler is one database transaction at READ COMMITTED: it reads   *)
(* committed rows, and an UPDATE takes the row's lock and keeps it until   *)
(* the commit.  What a worker has updated is in its request until then.    *)
(* F('accrued_cashback') + x is applied to the row under its lock, so it   *)
(* is kept as a change to be added at the commit.                          *)
(***************************************************************************)
EXTENDS Integers, FiniteSets, FiniteSetsExt

CONSTANTS
  Workers,    \* processes: web requests, gateway callbacks, polling tasks
  Orgs,       \* the organizations of one cashback group
  Deals,      \* primary keys of transactions
  NoDeal, NoOrg,
  Channels,   \* how deals are completed here, and whether they are refunded
  Amounts,    \* what a seller types: original_amount - savings
  Percent,    \* the percent of the cashback card
  Promo,      \* cashback granted to a new subscriber
  MaxWallet   \* bound: no commit takes a wallet further from 0

ASSUME CashbackAssumption ==
  /\ NoDeal \notin Deals /\ NoOrg \notin Orgs /\ IsFiniteSet(Orgs)
  /\ Channels \subseteq {"direct", "cashier", "offline", "gateway", "refund"}
  /\ Amounts \subseteq Nat
  /\ Percent \in Nat /\ Promo \in Nat /\ MaxWallet \in Nat

VARIABLES
  wallet,   \* accrued_cashback of the client's status in each organization
  opened,   \* organizations in which the status row exists
  granted,  \* organizations whose promo the client has received
  row,      \* the transaction rows
  started,  \* deals for which a gateway was asked to collect the payment
  req       \* what each worker holds in memory or has not committed

vars == <<wallet, opened, granted, row, started, req>>

-----------------------------------------------------------------------------
(* Rows *)

Row == [status         : {"absent", "in_progress", "accepted", "rejected"},
        payment_status : {"in_progress", "accepted", "rejected"},
        is_processed   : BOOLEAN,
        type           : {"offline", "online"},
        org            : Orgs \union {NoOrg},
        amount         : Nat,      \* original_amount - savings
        from_cashback  : Nat,
        to_cashback    : Nat,
        card           : BOOLEAN]  \* source_card is a cashback card

AbsentRow == [status |-> "absent", payment_status |-> "in_progress",
              is_processed |-> FALSE, type |-> "offline", org |-> NoOrg,
              amount |-> 0, from_cashback |-> 0, to_cashback |-> 0, card |-> FALSE]

Phases == {"idle", "checking", "saving", "writing", "written", "partners",
           "accruing", "refunding", "refused"}

Request == [pc : Phases, kind : {"direct", "cashier", "offline", "gateway"},
            deal : Deals \union {NoDeal}, row : Row,
            own : Int,            \* accrued_cashback as loaded
            seen : [Orgs -> Int], \* the partners' wallets as loaded
            todo : SUBSET Orgs,   \* partners the loop has not come to
            held : SUBSET Orgs,   \* wallets updated and locked
            left : Int,           \* cashback still to be taken
            change : [Orgs -> Int]]

Nothing == [o \in Orgs |-> 0]

Idle == [pc |-> "idle", kind |-> "direct", deal |-> NoDeal, row |-> AbsentRow,
         own |-> 0, seen |-> Nothing, todo |-> {}, held |-> {}, left |-> 0,
         change |-> Nothing]

TypeOK ==
  /\ wallet \in [Orgs -> Int]
  /\ opened \subseteq Orgs
  /\ granted \subseteq Orgs
  /\ row \in [Deals -> Row]
  /\ started \subseteq Deals
  /\ req \in [Workers -> Request]

Init ==
  /\ wallet = Nothing
  /\ opened = {}
  /\ granted = {}
  /\ row = [d \in Deals |-> AbsentRow]
  /\ started = {}
  /\ req = [w \in Workers |-> Idle]

-----------------------------------------------------------------------------
(* What the handlers compute *)

Exists(d) == row[d].status # "absent"

(* get_client_accrued_cashback: over the whole group; an absent row is 0. *)
GroupBalance == MapThenSumSet(LAMBDA o : wallet[o], Orgs)

Least(a, b) == IF a <= b THEN a ELSE b

(* Mutant: what was paid with cashback is subtracted a second time. *)
AccruedOnRest(r) == ((r.amount - 2 * r.from_cashback) * Percent) \div 100

(* final_amount * cashback_percent / 100, with a cashback card. *)
Accrued(r) == ((r.amount - r.from_cashback) * Percent) \div 100

(* What completing leaves in to_cashback: without a cashback card the      *)
(* column keeps what an earlier completion wrote.                          *)
ToCashback(r) == IF r.card THEN Accrued(r) ELSE r.to_cashback

(* Mutants: the own wallet is charged all of it; the refund gives back     *)
(* what was spent and leaves what was accrued.                             *)
OwnShareAll(own, from) == from
RefundOfSpent(r) == r.from_cashback

(* min(client_status.accrued_cashback, from_cashback) *)
OwnShare(own, from) == Least(own, from)

(* recalculate_cashback_after_refund *)
RefundChange(r) == r.from_cashback - r.to_cashback

-----------------------------------------------------------------------------
(* Row locks: an UPDATE waits until the other transaction has ended *)

Written(v) == req[v].pc \in {"written", "partners", "accruing"}
FreeDeal(w, d) == \A v \in Workers \ {w} : ~(Written(v) /\ req[v].deal = d)
FreeWallet(w, o) == \A v \in Workers \ {w} : o \notin req[v].held
(* The INSERT of a missing status waits for another one of the same row.   *)
FreeToOpen(w, o) == \A v \in Workers \ {w} : ~(Written(v) /\ req[v].row.org = o)
(* Mutant: nothing of the organization is locked. *)
CounterUnlocked(w, o) == TRUE
(* The row of the organization: complete_transaction moves its counter of  *)
(* purchase ids by an UPDATE (increment_running_purchase_id).              *)
FreeCounter(w, o) ==
  \A v \in Workers \ {w} : ~(Written(v) /\ req[v].kind = "direct" /\ req[v].row.org = o)

Begin(w, pc, fields) ==
  /\ req[w] = Idle
  /\ req' = [req EXCEPT ![w] = [fields EXCEPT !.pc = pc]]
Finish(w) == req' = [req EXCEPT ![w] = Idle]

Bounded == \A o \in Orgs : wallet'[o] \in -MaxWallet..MaxWallet

-----------------------------------------------------------------------------
(* Opening a deal, subscribing *)

(* preprocess_transaction: an employee opens a deal with the client. *)
OpenDeal(w, d, o) ==
  /\ req[w] = Idle
  /\ ~Exists(d)
  /\ row' = [row EXCEPT ![d] = [AbsentRow EXCEPT !.status = "in_progress", !.org = o]]
  /\ UNCHANGED <<wallet, opened, granted, started, req>>

(* use_promo_for_new_subscriber, atomic; PromoSubscriber is unique.        *)
Subscribe(w, o) ==
  /\ req[w] = Idle
  /\ o \notin granted
  /\ FreeWallet(w, o)
  /\ o \notin opened => FreeToOpen(w, o)
  /\ granted' = granted \union {o}
  /\ opened' = opened \union {o}
  /\ wallet' = [wallet EXCEPT ![o] = @ + Promo]
  /\ UNCHANGED <<row, started, req>>

-----------------------------------------------------------------------------
(* The seller's side *)

(* What the serializer lets through: from_cashback <= original_amount; the *)
(* service raises when it exceeds the amount to pay.                       *)
Priced(r, amount, from, card) ==
  [r EXCEPT !.amount = amount, !.from_cashback = from, !.card = card]

(* complete_transaction: the deal is completed on the spot. *)
BeginDirect(w, d, amount, from, card) ==
  /\ "direct" \in Channels
  /\ row[d].status = "in_progress" /\ ~row[d].is_processed /\ row[d].type = "offline"
  /\ Begin(w, "checking",
       [Idle EXCEPT !.kind = "direct", !.deal = d,
                    !.row = [Priced(row[d], amount, from, card) EXCEPT
                               !.status = "accepted", !.payment_status = "accepted",
                               !.is_processed = TRUE]])
  /\ UNCHANGED <<wallet, opened, granted, row, started>>

(* Mutant: the type of the deal is not looked at. *)
BeginCashierAnyType(w, d, amount, from, card) ==
  /\ "cashier" \in Channels
  /\ Exists(d) /\ ~row[d].is_processed
  /\ Begin(w, "checking",
       [Idle EXCEPT !.kind = "cashier", !.deal = d,
                    !.row = [Priced(row[d], amount, from, card) EXCEPT !.status = "accepted"]])
  /\ UNCHANGED <<wallet, opened, granted, row, started>>

(* complete_transaction_cashier: priced, accepted, to be paid.  The status *)
(* is not looked at, so it may be repeated, and may follow a refund.       *)
BeginCashier(w, d, amount, from, card) ==
  /\ "cashier" \in Channels
  /\ Exists(d) /\ ~row[d].is_processed /\ row[d].type = "offline"
  /\ Begin(w, "checking",
       [Idle EXCEPT !.kind = "cashier", !.deal = d,
                    !.row = [Priced(row[d], amount, from, card) EXCEPT !.status = "accepted"]])
  /\ UNCHANGED <<wallet, opened, granted, row, started>>

(* has_enough_cashback_amount; a refusal is a Fail. *)
CheckBalance(w) ==
  /\ req[w].pc = "checking"
  /\ req[w].row.from_cashback > 0 => GroupBalance >= req[w].row.from_cashback
  /\ req' = [req EXCEPT ![w].pc = IF req[w].kind = "direct" THEN "writing" ELSE "saving"]
  /\ UNCHANGED <<wallet, opened, granted, row, started>>

CommitCashier(w) ==
  LET r == req[w] IN
  /\ r.pc = "saving"
  /\ FreeDeal(w, r.deal) /\ FreeCounter(w, r.row.org)
  /\ row' = [row EXCEPT ![r.deal] = r.row]
  /\ Finish(w)
  /\ UNCHANGED <<wallet, opened, granted, started>>

-----------------------------------------------------------------------------
(* The client pays *)

(* The gateway is asked to collect an accepted, unpaid deal; its answers   *)
(* (webhook, redirect, polling task) come later, in any number.            *)
StartPayment(w, d) ==
  /\ "gateway" \in Channels
  /\ req[w] = Idle
  /\ row[d].status = "accepted" /\ ~row[d].is_processed
  /\ started' = started \union {d}
  /\ UNCHANGED <<wallet, opened, granted, row, req>>

(* complete_transaction_offline: by hand; neither the status nor the       *)
(* balance is looked at.                                                   *)
BeginOffline(w, d) ==
  /\ "offline" \in Channels
  /\ Exists(d) /\ ~row[d].is_processed /\ row[d].type = "offline"
  /\ Begin(w, "writing", [Idle EXCEPT !.kind = "offline", !.deal = d,
                                      !.row = [row[d] EXCEPT !.is_processed = TRUE]])
  /\ UNCHANGED <<wallet, opened, granted, row, started>>

(* complete_freedompay_transaction_online, complete_paysy_transaction_online. *)
BeginGateway(w, d) ==
  /\ d \in started
  /\ ~row[d].is_processed /\ row[d].type = "offline"
  /\ Begin(w, "writing", [Idle EXCEPT !.kind = "gateway", !.deal = d,
                            !.row = [row[d] EXCEPT !.is_processed = TRUE, !.type = "online",
                                                   !.payment_status = "accepted"]])
  /\ UNCHANGED <<wallet, opened, granted, row, started>>

(* The gateway reports a failed or cancelled payment of a deal that is not *)
(* processed: save(update_fields = payment_status).                        *)
BeginRefused(w, d) ==
  /\ d \in started
  /\ ~row[d].is_processed
  /\ Begin(w, "refused", [Idle EXCEPT !.deal = d])
  /\ UNCHANGED <<wallet, opened, granted, row, started>>

CommitRefused(w) ==
  /\ req[w].pc = "refused"
  /\ FreeDeal(w, req[w].deal)
  /\ row' = [row EXCEPT ![req[w].deal].payment_status = "rejected"]
  /\ Finish(w)
  /\ UNCHANGED <<wallet, opened, granted, started>>

-----------------------------------------------------------------------------
(* The wallets: the common part of the four completions *)

(* The deal's row is updated (a direct deal's organization before it), and *)
(* the client's status read, or created.                                   *)
WriteDeal(w) ==
  LET r == req[w]
      o == r.row.org
  IN
  /\ r.pc = "writing"
  /\ FreeDeal(w, r.deal)
  /\ r.kind = "direct" => FreeCounter(w, o)
  /\ o \notin opened => FreeToOpen(w, o)
  /\ req' = [req EXCEPT ![w].pc = "written", ![w].own = wallet[o]]
  /\ UNCHANGED <<wallet, opened, granted, row, started>>

(* The own wallet first.  Its row is locked even when nothing is taken:    *)
(* update_client_cumulative_card has updated it.  use_corporate_cashback   *)
(* then loads the partners' wallets.                                       *)
SpendOwn(w) ==
  LET r == req[w]
      o == r.row.org
      from == r.row.from_cashback
      take == IF from > 0 THEN OwnShare(r.own, from) ELSE 0
      paid == [r EXCEPT !.pc = "accruing", !.own = 0, !.held = {o}, !.change[o] = -take]
  IN
  /\ r.pc = "written"
  /\ FreeWallet(w, o)
  /\ req' = [req EXCEPT ![w] =
       IF take = from \/ opened \subseteq {o}
         THEN paid
         ELSE [paid EXCEPT !.pc = "partners", !.left = from - take,
                           !.seen = wallet, !.todo = opened \ {o}]]
  /\ UNCHANGED <<wallet, opened, granted, row, started>>

(* Mutant: the partner with least first. *)
Poorest(r) == {o \in r.todo : \A p \in r.todo : r.seen[o] <= r.seen[p]}
Richest(r) == {o \in r.todo : \A p \in r.todo : r.seen[o] >= r.seen[p]}

(* One turn of use_corporate_cashback's loop, the richest partner first.   *)
TakeFromPartner(w) ==
  LET r == req[w] IN
  /\ r.pc = "partners"
  /\ \E o \in Richest(r) :
       LET take == Least(r.seen[o], r.left)
           paid == [r EXCEPT !.held = @ \union {o}, !.change[o] = -take]
       IN  /\ FreeWallet(w, o)
           /\ req' = [req EXCEPT ![w] =
                IF take >= r.left \/ r.todo = {o}
                  THEN [paid EXCEPT !.pc = "accruing", !.left = 0,
                                    !.seen = Nothing, !.todo = {}]
                  ELSE [paid EXCEPT !.left = @ - take, !.todo = @ \ {o}]]
  /\ UNCHANGED <<wallet, opened, granted, row, started>>

(* The cashback of the deal goes to the own wallet, and all is committed.  *)
CommitDeal(w) ==
  LET r == req[w]
      accrued == IF r.row.card THEN Accrued(r.row) ELSE 0
  IN
  /\ r.pc = "accruing"
  /\ wallet' = [o \in Orgs |-> wallet[o] + r.change[o]
                                 + (IF o = r.row.org THEN accrued ELSE 0)]
  /\ Bounded
  /\ opened' = opened \union {r.row.org}
  /\ row' = [row EXCEPT ![r.deal] = [r.row EXCEPT !.to_cashback = ToCashback(r.row)]]
  /\ Finish(w)
  /\ UNCHANGED <<granted, started>>

-----------------------------------------------------------------------------
(* The seller refunds *)

BeginRefund(w, d) ==
  /\ "refund" \in Channels
  /\ Exists(d) /\ row[d].status # "rejected"
  /\ Begin(w, "refunding", [Idle EXCEPT !.deal = d,
                              !.row = [row[d] EXCEPT !.status = "rejected",
                                                     !.is_processed = FALSE]])
  /\ UNCHANGED <<wallet, opened, granted, row, started>>

(* refund_transaction: the own wallet gets what the deal took and loses    *)
(* what it gave, whether the deal was ever processed or not.               *)
CommitRefund(w) ==
  LET r == req[w]
      o == r.row.org
  IN
  /\ r.pc = "refunding"
  /\ FreeDeal(w, r.deal)
  /\ row' = [row EXCEPT ![r.deal] = r.row]
  /\ \/ /\ o \notin opened
        /\ UNCHANGED wallet
     \/ /\ o \in opened
        /\ FreeWallet(w, o)
        /\ wallet' = [wallet EXCEPT ![o] = @ + RefundChange(r.row)]
        /\ Bounded
  /\ Finish(w)
  /\ UNCHANGED <<opened, granted, started>>

(* The request raises, its process dies, or PostgreSQL ends it as the      *)
(* victim of a deadlock: nothing of it was committed.                      *)
Fail(w) ==
  /\ req[w] # Idle
  /\ Finish(w)
  /\ UNCHANGED <<wallet, opened, granted, row, started>>

-----------------------------------------------------------------------------
SellerStep ==
  \E w \in Workers, d \in Deals :
    \/ \E o \in Orgs : OpenDeal(w, d, o)
    \/ \E amount \in Amounts, card \in BOOLEAN :
         \E from \in 0..amount :
           BeginDirect(w, d, amount, from, card) \/ BeginCashier(w, d, amount, from, card)
    \/ BeginRefund(w, d)

ClientStep ==
  \E w \in Workers :
    \/ \E o \in Orgs : Subscribe(w, o)
    \/ \E d \in Deals : \/ StartPayment(w, d) \/ BeginOffline(w, d)
                        \/ BeginGateway(w, d) \/ BeginRefused(w, d)

HandlerStep ==
  \E w \in Workers :
    \/ CheckBalance(w) \/ CommitCashier(w) \/ CommitRefused(w)
    \/ WriteDeal(w) \/ SpendOwn(w) \/ TakeFromPartner(w) \/ CommitDeal(w)
    \/ CommitRefund(w)
    \/ Fail(w)

Next == SellerStep \/ ClientStep \/ HandlerStep

Spec == Init /\ [][Next]_vars

-----------------------------------------------------------------------------
(* Whatever the interleaving *)

(* No more cashback is spent on a deal than it costs (final_amount is      *)
(* never negative), and a deal paid through a gateway is processed unless  *)
(* it was refunded: no stale row saved whole mixes the two ways to pay.    *)
Sound(r) ==
  /\ r.from_cashback <= r.amount
  /\ r.type = "online" => r.is_processed \/ r.status = "rejected"
RowsSound == \A d \in Deals : Sound(row[d])

(* With one organization, deals completed on the spot and no refund, the   *)
(* wallet is not overdrawn although it is read before it is charged: the   *)
(* UPDATE of the organization's purchase counter comes first and makes the *)
(* organization's completions wait for one another.  The same invariant,   *)
(* accrued_cashback's MinValueValidator(0), fails once deals are refunded. *)
WalletsNotNegative == \A o \in Orgs : wallet[o] >= 0

-----------------------------------------------------------------------------
(* One request at a time *)

Processed(d) == ~row[d].is_processed /\ row'[d].is_processed
Refunded(d)  == row[d].status # "rejected" /\ row'[d].status = "rejected"
Gain(r) == IF r.card THEN Accrued(r) ELSE 0

(* With deals completed on the spot the client's balance in the group is   *)
(* the books': CashbackLedger.                                             *)
Standing == [d \in Deals |->
  IF row[d].is_processed
    THEN [spent |-> row[d].from_cashback, accrued |-> row[d].to_cashback]
    ELSE [spent |-> 0, accrued |-> 0]]
Ledger == INSTANCE CashbackLedger WITH
  Grants <- Orgs, grants <- granted, balance <- GroupBalance, standing <- Standing
ImplementsLedger == Ledger!Spec

(* Only a refund, which takes back what a deal accrued, brings a wallet    *)
(* below zero: completing a deal never does, even when the cashback it     *)
(* was priced with has been spent elsewhere since.                         *)
OnlyRefundOverdraws ==
  [][\A o \in Orgs : wallet'[o] < 0 /\ wallet'[o] < wallet[o]
        => \E d \in Deals : Refunded(d)]_vars

(* test_complete_transaction: a partner's wallet is touched only once the  *)
(* own wallet is empty, and the richest partner's is emptied first.        *)
PaysInOrder ==
  [][\A d \in Deals : Processed(d) =>
       \A p \in Orgs \ {row[d].org} : wallet'[p] < wallet[p] =>
         /\ wallet'[row[d].org] = Gain(row'[d])
         /\ \A q \in Orgs \ {row[d].org} : wallet[q] > wallet[p] => wallet'[q] = 0]_vars

-----------------------------------------------------------------------------
(* What the repository says, and the code does not keep *)

(* "already processed": a second answer of the gateway changes nothing.    *)
ProcessedOnce ==
  [][\A d \in Deals, w \in Workers :
       (row[d].is_processed /\ req[w].deal = d /\ req[w].pc = "accruing" /\ req'[w] = Idle)
         => wallet' = wallet]_vars
=============================================================================
