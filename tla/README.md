# Apofiz back end: models, checks and proofs

TLA+ models of the Django services in `src/`: what they do to shared rows when
requests interleave, die half-way or are repeated, which properties that keeps,
and which of those are proved for every size of the system.

## 1. The system

Django services run in several web processes and several Celery workers over one
PostgreSQL database, with Redis beside it.  A request runs in one worker from
start to end.  Components interact in four ways:

* **direct calls**: `CartService` calls `TransactionService`, which calls
  `OrganizationClientFinancialStatusService`, and so on, in one process;
* **shared rows**: the isolation level is the default READ COMMITTED,
  `ATOMIC_REQUESTS` is not set, and nothing in the repository uses
  `select_for_update`.  So every query sees what has committed when it runs; a
  handler under `@transaction.atomic` commits once, at its end; one without it
  commits after each statement; and an UPDATE locks its row until the commit.
  `Model.save()` writes back *every* column as it was loaded;
  `save(update_fields=...)` writes only those named;
* **outside calls**: payment gateways answer through a webhook, a redirect of the
  client's browser and a polling task, each any number of times;
* **notifications**: Celery tasks that nothing modelled here reads back.

### Inventory

| component | state | operations | what is hard | what makes it correct | here |
|---|---|---|---|---|---|
| Shop orders | carts and lines, `Transaction` rows, stock counts, cumulative card, purchase ids, a Redis key per order | edit a cart, check out, accept, pay, decline, refund | stale rows saved whole; handlers that commit in several steps; a cache filled before the commit; three ways to accept with different effects on the stock | an order follows one life; amount = cart; units are not lost; cards are earned; ids are distinct | `Orders` |
| Deals and cashback | `Transaction` rows without a cart, `accrued_cashback` per client and organization | open, complete on the spot, price as a cashier, pay by hand or through a gateway, refund, grant a promo | balance checked before the wallets are charged; wallets read before their lock; several answers for one payment; refunds after the cashback is spent | the books balance; wallets are not overdrawn; wallets pay in the stated order | `Cashback` |
| Rentals | `Booking` rows with their `Transaction` | book (three ways), accept, complete, pay, refund, activate, reject | bookings made in several commits; rows loaded without a lock and saved whole; a payment that refunds its rivals; late answers; dates across a month | what is settled is closed; a paid rental is given up against a refund; payments turn overlapping requests away | `Rentals` |
| Purchases: subscriptions, user applications, assistants | one `Transaction` each, `payment_info`, the balance of who earns | start a payment, webhook, return, poll | repeated, late and contradictory answers; stale rows saved whole; `payment_info` written anew | nothing is handed over unpaid; credits stay within what was sold; what is paid is booked | `Purchases` |
| Payment gateways | gateways' ids on the rows, polling tasks | start a payment, webhook, redirect, poll | late, repeated and contradictory answers | each payment takes effect once | what the answers do: `Orders`, `Cashback`, `Rentals`; the protocols: `Purchases` |
| Messenger bots | creation requests, userbots, Celery tasks | ask, create, retry, resend every 5 minutes | a retry beside a task that still runs; tasks that are lost or die | each request is finally answered, once | `BotRequests` |
| Delivery | `DeliveryInfo` rows and their history | hand over, accept, give back, deliver | two services take one order; row and history commit apart | courier and status agree; the history knows who has the order | `Delivery` |
| Partnerships and groups | `Partnership` rows; cashback, cumulative and items groups | ask, accept, set permissions, delete; edit an organization | concurrent links; rows saved whole after a call to a translator; deletions in six commits | groups follow agreements; both directions accepted; partners who share are linked, in one currency | `Partnerships` |
| Withdrawals, balances | `Withdrawal` rows, sums over transactions | request, review, complete, decline | balance read, then spent; a stale review saved over a completed withdrawal | no more is withdrawn than was earned | planned (`Withdrawals`) |
| Stock | size counts | owner's edits | absolute writes | - | only what orders do to it |
| Discount cards, coupons, attendance | cards, coupon usages, check-ins | use, check in and out | a coupon is not looked up before it is used | - | cumulative cards in `Orders` |
| Organizations and membership | organizations, roles | edit, invite, accept, leave | whole-row saves | - | the edit of an organization in `Partnerships` |
| Messenger; notifications; catalogue, comments, tickets, resumes; users; one-time passwords; common services; integrations; contacts, keys, imports; settings | rows of their own | create, read, update, delete; calls to other companies | - | - | not modelled, see section 11 |

`PROJECT.json` lists the components with their sources, and every hazard with its
line and the properties that watch it.

## 2. `Orders`: the life of a shop order

One client, one shop, one stocked product of price 1, so that an amount is a
count of units.  A **worker** serves one request; `req[w]` is what it holds in
memory: where it is (`pc`), the cart and order it works on, and the row, lines,
stock and total *as it loaded them*.

| variable | in the code |
|---|---|
| `cart`, `count` | `Cart` (`is_open`, `transaction`) and its `CartItem.count` |
| `row` | `Transaction`: `status`, `payment_status`, `is_processed`, `type`, `delivery_type`, `original_amount - savings`, `final_amount` |
| `stock` | `ShopItemSizeCount.count`, a positive column |
| `card` | the limits reached, of which `update_client_cumulative_card` stores the highest |
| `runningId`, `issued` | `Organization.running_purchase_id`, the ids given to orders since it was last reset |
| `cached` | the Redis key (60 s) of `complete_online_transaction` |

A handler is split exactly where another worker can get in between:

| handler | actions |
|---|---|
| `change_cart_item_count` | `ChangeItem` |
| `bulk_update`, no transaction | `BeginEdit`, `DeleteLines`, `CreateLines` (may end in `StockException`), `SaveTotals` |
| `process_cart`, delivery details, no transaction | `BeginCheckout`, `CreateOrder`, `CloseCart`, `SetDelivery`, and on to `BeginPayment` |
| `checkout_cart_for_anonymous_client`, atomic | `BeginAnonymous`, `CommitAnonymous` |
| `complete_online_transaction`, atomic | `BeginComplete` (rows loaded, Redis key set), `ReadForComplete`, `CommitComplete`; `AnswerFromCache` and `Answered` when the key is there; `ExpireKey` |
| `complete_online_payment_transaction`, atomic | `BeginPayment`, `ReadForPayment`, `CommitPayment` |
| `accept_freedompay_order_transaction_by_user` | `BeginAccept`, `CommitAccept` |
| `reject_order_transaction_by_user` | `BeginReject`, `CommitReject` |
| `refund_transaction` | `BeginRefund`, `ReadForRefund`, `CommitRefund` |
| `reset_running_purchase_id` | `ResetPurchaseId` |
| an exception, a killed process | `Fail`: uncommitted work is lost, committed work stays |

`OrderLifecycle` is the abstract specification: an order is placed, accepted and
paid (in one step or two), and a refund is final.  `Lifecycle` in `Orders` maps a
row to its stage; a row flagged as processed without being accepted has no stage.

Left out: tickets, carts shared between partners, notifications, texts.

### Runs

| run | instance | what it shows |
|---|---|---|
| `orders_serial` | 1 worker, 2 carts, 2 orders, stock 2 | orders follow `OrderLifecycle` (`FollowsLifecycle`), and `AcceptedAmountIsCart`, `NoUnitLost`, `NoUnearnedCard`, `PurchaseIdsDistinct` hold, wherever a request dies |
| `orders_concurrent` | 2 workers, 1 cart, 1 order, stock 1 | every interleaving of two requests keeps `RowsConsistent` and the stock at 0 or more |

With one worker a request still commits step by step and may `Fail` between any
two, so the serial runs are about crashes and orders of calls; with two, all
pairwise interleavings of queries and commits occur.  Two carts and two orders
are what it takes for one order to count against another (cards, purchase ids,
links); lines of up to two units, with stock 2, reach "more than there is",
"all of it" and "none".  `MaxStock` stops refunds before the stock leaves the
instance, `MaxIssued` stops orders that take a further purchase id until a reset,
`MaxCount` bounds a line; none cuts a behaviour short before the properties could
fail (each property has a mutant that violates it within these bounds).  The
shop offers self pickup and online payment; courier differs from them only by
stopping where online payment goes on.

### Where the code departs from what it says

* **`final_amount`** lags behind: `bulk_update` and `complete_online_transaction` save
  with `update_fields` that omit the column `Transaction.save()` recomputes, while a
  test expects it to follow (`test_flow_to_shop_and_change_item.py`, line 466).
* **The stock grows.**  `complete_online_transaction` compares a size's name with a
  size object, so its stock check is dead code and no unit is taken; the refund
  returns them all the same.
* **Answered too early.**  The Redis key precedes the commit, so a repeated request is
  told "Transaction successfully completed" of an order in progress.
* **Two requests at a time.**  A second refund of a row loaded before the first
  returns its units twice; a second checkout closes a cart again; an edit that was
  permitted before the acceptance changes an accepted cart.  That is why the life of
  an order is stated of one request at a time.

## 3. `Cashback`: deals and wallets

One client; the organizations `Orgs` share one cashback group, so any wallet may
pay in any of them.  Every handler here is one database transaction, so what it
has updated is invisible until it commits, and locked: `held` is the set of
wallets a worker has updated, `Written` says that it has updated its deal, and an
action that updates a row requires its lock to be free.  `F('accrued_cashback') +
x` is evaluated under the lock, so it is kept as a `change` to add at the commit,
while `min(accrued_cashback, from_cashback)` uses the value `own` read earlier.

| handler | actions |
|---|---|
| `preprocess_transaction` | `OpenDeal` |
| `use_promo_for_new_subscriber` | `Subscribe` |
| `complete_transaction` | `BeginDirect`, `CheckBalance`, then the common steps |
| `complete_transaction_cashier` | `BeginCashier`, `CheckBalance`, `CommitCashier` |
| `complete_transaction_offline` | `BeginOffline`, then the common steps |
| the completions called by gateways | `StartPayment`, `BeginGateway`, then the common steps |
| a gateway's refusal | `BeginRefused`, `CommitRefused` |
| the common steps of the four completions | `WriteDeal`, `SpendOwn`, `TakeFromPartner` (`use_corporate_cashback`'s loop), `CommitDeal` |
| `refund_transaction` | `BeginRefund`, `CommitRefund` |
| an exception, a killed process, a deadlock's victim | `Fail` |

Two locks matter although the code does not mention them.  `complete_transaction`
and `complete_transaction_cashier` move the organization's counter of purchase
ids *before* they save the deal, so `FreeCounter` makes the direct deals of one
organization wait for one another; and `update_client_cumulative_card` has
updated the client's own status row before it is charged, so the own wallet is
locked even when nothing is taken from it.

`Channels` chooses which ways of completing a deal an instance has, and whether
it refunds.  `CashbackLedger` is the abstract specification: a promo once per
organization, a completion that spends at most the balance, a refund that undoes
exactly its deal.  The balance is the group's, a deal's standing what it has spent
and accrued.

Left out: coupons, the promo's budget, cumulative cards (in `Orders`), the
partners' card rows, notifications.

### Runs

| run | instance | what it shows |
|---|---|---|
| `cashback_ledger` | 1 worker, 2 organizations, 3 deals, direct and refunded | `ImplementsLedger`: the books balance over the whole group |
| `cashback_serial` | 1 worker, 3 organizations, 2 deals, cashiers and payments by hand, refunds | `OnlyRefundOverdraws`; `PaysInOrder`: own wallet first, then the richest partner |
| `cashback_concurrent` | 2 workers, 1 organization, 1 deal, every channel | `RowsSound`: stale rows saved whole never mix two ways to pay |
| `cashback_one_shop` | 2 workers, 1 organization, 3 direct deals | `WalletsNotNegative` although the wallet is read before it is locked |
| `cashback_answered_twice` | 2 workers, 1 deal, gateway | finding: two answers for one payment spend and accrue twice |

Three organizations are the fewest in which the order of the partners shows (own
wallet, richer and poorer partner); three deals the fewest in which a wallet is
filled, spent and refunded.  Amounts are 1 or 2 with 100 or 50 percent, so that
percentages are exact.  `MaxWallet` bounds a wallet on both sides of zero at the
commit.  With direct deals (`cashback_ledger`, `cashback_one_shop`) it is above all
that promos and deals add up to, so nothing is cut.  A cashier's deal can be priced
and refunded over and over, so in `cashback_serial` and `cashback_concurrent` the
bound (2) does cut: a wallet there still goes through empty, enough, too little
and overdrawn, which is all the properties tell apart.
Deals are finite, so an instance may stop with all of them closed: these
configurations switch the deadlock check off.

### Where the code departs from what it says

* **Processed twice** (finding, `ProcessedOnce`): webhook and polling task both see the
  deal unprocessed; the "already processed" answers look at a row without a lock.
* **Priced twice.**  The balance is checked when a cashier prices a deal and never when
  it is paid, so two deals priced with the same cashback are both paid with it.
* **Below zero.**  A refund takes accrued cashback back after it was spent;
  `MinValueValidator(0)` on the column is not run by `save()`.
* Refunding a cashier's deal that was never paid creates cashback; a completion
  without a cashback card leaves an earlier `to_cashback`, which a refund takes again;
  two organizations' completions can lock each other's wallets, which PostgreSQL
  resolves by ending one (`Fail`).

## 4. `Rentals`: bookings

| variable | in the code |
|---|---|
| `booking` | `Booking`: `is_open`, `is_active`, whether `transaction` is set, and which request made it |
| `span` | `start_time`, `end_time` |
| `deal` | the booking's `Transaction`: `status`, `payment_status`, `is_processed`, `type`, the price |
| `req` | what each worker has in hand: the rows of its booking and of the rivals *as it loaded them* |
| `begun`, `overtaken` | auxiliary: the bound on requests; whether some request has saved rows that were no longer as it had read them |

The three ways to book commit two or three times, and a request may stop in between:
`BookRentalView` in `CreateBooking`, `CreateDeal`, `LinkDeal`;
`preprocess_booking_transaction` in `CreateBooking`, `OpenAtCounter`; the checkout of
an anonymous client in `CreateBooking`, `Checkout`.

All that comes later loads rows without a lock, checks them and saves them whole, so
each handler is two or more actions between which others commit:

| handler | loads | saves |
|---|---|---|
| `complete_booking_online_transaction` | `BeginAccept` | `Accept` |
| `complete_booking_transaction` | `BeginComplete` (the view's booking), `LoadDeal` | `Complete` |
| `refund_booking_transaction` | `BeginRefund` (the view's deal), `LoadBooking` | `Refund` |
| `reject_booking_transaction_by_user` | `BeginReject` (the view's deal) | `Reject` |
| `activate_rental`, no transaction | `BeginActivate` (the serializer takes processed deals only), `LoadBooking` | `Activate` |
| `accept_..._booking_transaction_by_user` | `BeginPay`, `FindRivals`, `LoadRival` for each | `Pay`, one commit of its own rows and all rivals' |

`Pay` stands for the client's request, the webhooks and the polling task, which call
the same two functions.  From its first UPDATE on a payment has locked its deal's row
(`Unlocked`).  `Fail` ends a request with nothing committed: a check that raises, the
process, or one of two that wait for each other.

`RentalCalendar` is the abstract specification: a booking is asked for, agreed, held;
whoever pays what was agreed turns all overlapping requests away in the same step;
who was turned away stays so.  `Stage` maps rows to it.

| run | what it shows |
|---|---|
| `rentals` | under all interleavings: `SettledIsClosed` (what is paid for, turned away or begun is never open, so no payment finds and refunds it), `PricedUpToCycles`; until a request is overtaken: `PaidUntilRefunded`, `ImplementsCalendar` |

Three bookings are what a payment needs to turn one rival away and leave one alone;
two workers and four requests let an agreed rental, or two that compete, be paid,
refunded, rejected or activated between another's load and save.  Of the two spans
one is longer than the other, they touch without overlapping, two bookings may ask for
the same one, and one crosses the end of a cycle, which is three units long here (a day of
three hours).  `MaxRequests` and the bookings run out, so deadlock is not checked.

### Where the code gives no promise

* **Overtaken requests.**  A request that saves what it loaded before another's commit
  may undo it: a late payment brings back a rental that was refunded meanwhile, a stale
  rejection takes a payment back and leaves the booking closed, and two payments that
  look for rivals before the other commits both hold the time.  `Rentals` reaches all of
  these and marks them: `Current` says what a request has read and whether it is still so,
  and `overtaken` stays set once it was not.  `ImplementsCalendar` and
  `PaidUntilRefunded` speak of the time before; loads and saves interleave freely there
  too.  `SettledIsClosed` needs no such exception: `activate_rental` does write `is_open`
  back as it loaded it, but it takes processed deals only, whose booking is closed by then
  and is never opened again.
* **A rejected payment.**  `reject_booking_transaction_by_user` looks at no status, so a
  client can reject the payment he has made: the rental stays processed with
  `payment_status` "rejected", and a later refund does not mark it "refunded".
  `PaidUntilRefunded` excepts exactly this.
* **Prices.**  They are right only *up to whole cycles*, because the length is the
  difference of one field of the two dates: 23:00 to 01:00 costs 24 hours less than it
  should, and so does the 30th to the 2nd by days (`Cycle` is one number: months of
  different lengths are not told apart).  A price below zero is refused at the counter only.

## 5. `Purchases`: paying the platform

Subscriptions of organizations, user applications and assistants are sold by
transactions that are accepted when they are made and wait to be processed.  A
client starts any number of attempts to pay, through any gateway, and what becomes of
them is answered by webhooks, by the payer's return and by a polling task.

The gateways are classes, by what their code does with the three kinds:

| class | gateways | how an answer reaches the row |
|---|---|---|
| `plain` | Libersave, CryptoCloud | a webhook that knows every kind |
| `unaware` | FreedomPay, PaySy, Betapay | a webhook that takes a subscription or an application for a rental and fails |
| `maaly` | MaalyPay | `fetch_maalypay_status`, a task that asks every few seconds and gives up; webhook and return read `payment_info` as a mapping, but `InitPaymentView` stores `json.dumps` of one, so they fail |
| `zina` | ZinaPay | webhook and return, by the intent stored in `payment_info` |
| `profitgate` | Profitgate | a webhook that saves the whole row with a status no other code knows |

`row`, `attempt`, `poll` and `task` are the row, the gateway's knowledge, the retries
left and the workers' memory.  `BeginStart`/`FinishStart` start a payment; `Webhook`,
`Return`/`Asked` and `Poll` load an unprocessed row; `Write` and `Commit` are the
`accept_..._transaction` functions, one database transaction whose row is locked once
it is written; `BeginRefuse`/`Refuse` and `BeginNotify`/`Notify` are the two handlers
that save a row they loaded earlier; `Pay`, `Decline` and `Outage` are the world's.

| run | what it shows |
|---|---|
| `purchases` | `NothingUnpaid`; `CreditedOncePerWorker`: answers that repeat credit again only as often as workers loaded the row before; `BalanceCovered`; `ProcessedForGood` and `RejectedThenPaid`: only a stale save of Profitgate or ZinaPay undoes or misreports a sale; `PlanDelivered`; `PolledIsBooked` (liveness): what is paid while the task still asks is booked |

Two purchases, two attempts, two workers: an attempt late for one purchase beside
another for the same or the other one.  `MaxPolls` 2 with `MaxOutages` 1 is the least
in which an outage and a success both fit; `MaxFaults` 1 lets a worker die once;
`MaxUndone` 1 keeps Profitgate from undoing and selling again without end.  `TypeOK`
bounds the retries.

The exceptions the properties name are what the code does: starting an attempt
through one of the last three gateways forgets an assistant's `plan_ids`, and its bot
is not ordered; Profitgate's webhook brings a processed purchase back; an assistant
paid at MaalyPay is never booked, because its `payment_info` is a text when the
acceptance merges it.  `NewInitPaymentView` calls `transaction.on_commit` on the model
row it has named `transaction`, so ZinaPay is told of the intent and the payer is not
sent there.

## 6. `BotRequests`: Telegram bots on request

A request is a row and a Celery task.  `CheckView`, `CheckPayment` and `Create` are
the two ways to ask, which check and create in separate steps; `Load`, `Pick`, `Make`,
`Refuse`, `Complete`, `SaveFails`, `Count` and `SetUp` are `create_telegram_bot_task` at the
points where it commits (`SaveFails`: a save after BotFather has made the bot raises, and the
same `except` writes `FAILED`, also over `COMPLETED`); `Crash` ends its process and loses it, since Celery acknowledges a
task when it starts; `FiveMinutesPass` and `Resend` are `check_pending_bot_requests`,
`Midnight` resets the userbots' counters.

| run | what it shows |
|---|---|
| `bot_requests` | `TypeOK` (no counter passes its limit), `SecondBotOnlyWhenStale`, `ServiceOfCompleted` (a bot in service is one of a completed request); liveness: `TakenUp` (a pending request is taken up although its task may be lost), `Settles` (it ends, unless a worker dies) |

Two requests of one organization through one post, one userbot, two tasks at a time:
enough for a resent task beside the first one, and for two requests to compete for
the userbot.  `DailyLimit` 2 is passed by BotFather's count, not by the platform's;
`MaxRetries` 1, `Batch` 1 and `MaxCrashes` 1 are each the least that can happen.  No
symmetry, because of the liveness properties.  Requests run out, so the deadlock check
is off.

What it leaves standing: a worker that dies after `create_bot` has saved
`IN_PROGRESS` leaves the request so for ever, since the beat looks only for pending
ones and the view then refuses the organization with 409; a stale request may get two bots;
a save that fails after the bot was made leaves a bot at BotFather that no row knows.

## 7. `Delivery`

`info` is the row of `DeliveryInfo`, `history` the lines of `DeliveryActionHistory`,
`job` a request in hand.  `SendToCouriers`, `Accept`, `Reject` and `Deliver` are the
handlers up to the check that lets them through; `SaveRow` and `AddToHistory` are
their commits, in the order of the handler (a rejection is recorded before the row is
saved, the others after); `Fail` ends a request anywhere.

| run | what it shows |
|---|---|
| `delivery` | `RowsSound`: courier and status agree; `ClaimsRecorded`: the history names whoever has the order; `FreshFollowsLife`: only a request whose row was overtaken breaks the order's life |

One order (requests about different orders touch different rows), two services, three
requests at a time: the third can be overtaken by two others.  The theorems hold for
any number of each.

Only what was overtaken: two acceptances, or a stale save, do displace a courier or
undo a delivery, although `views.py`, line 66, answers "Delivery is already taken" to
the slower of two.  `exclude()` in `delivery_services.py`, lines 88-90, hides orders
from the list only; `Accept` does not look at the transaction's status; a crash
between record and save leaves one without the other (`died`).

## 8. `Partnerships` and groups

One row in each direction says what its addressee shares; two that share the same are
put into one group, which is what `Cashback` and `Orders` take as given.

| variable | in the code |
|---|---|
| `table`, `created` | rows of `Partnership` by primary key |
| `group`, `made`, `gone` | `cashback_group`, `items_group` of each organization; groups made; items groups deleted |
| `currency` | of each organization |
| `job` | a request in hand: the rows as loaded, what it found, where it is |
| `consents`, `orderly` | auxiliary: what was ever agreed; whether requests came one at a time and ended |

`Ask`; `BeginAccept`, `CreateReverse`, `AcceptRow`, `AcceptReverse` (three commits);
`BeginPermissions`, `FindReverse`, `CommitPermissions` (one database transaction that
reads at three points; the items group to leave is looked up first); `BeginDelete`,
`LeaveItems`, `Dissolve`, `Part`, `Ungroup`, `DropReverse`, `DropRow` (up to six steps,
each committed); `BeginEdit`, `CommitEdit` (the owner's edit, which after a call to a
translator checks a change of currency and saves the whole organization); `Fail`.

| run | what it shows |
|---|---|
| `partnerships` | `GroupsFollowConsent` under all interleavings and failures; one request at a time: `AcceptedIsMutual`, `SharedIsLinked`, `OneCurrency` |

Three organizations let a group grow by a third and let one of two links go stale;
two workers, two currencies; two kinds, because items can be given up again and
cashback cannot (cards are handled as cashback).  Four requests from nobody being
partners reach a linked pair; `Before` also starts from a chain of partners, from
which four requests link all three.  `MaxRows` 4 and `MaxGroups` 2 stop requests that
would create more.

Where the code departs from what it says: `can_change_currency` lets partners who
share one thing part in currency, although the permissions ask for "same currency" when
anything is shared (`partnership_services.py`, line 292); a first `PATCH` that shares
items leaves `is_accepted` false; requests that cross cannot be accepted, only
deleted; a `PATCH` without `can_share_items` leaves the items group; deleting takes the
other partner out of whatever items group it is in; the cashback and cumulative groups
outlive the partnership; two concurrent mutual sharings leave nobody linked, and
concurrent links overwrite a group.

## 9. Fairness

* `BotRequests`: weak fairness of each task's steps (Celery's workers take queued
  tasks and go on with them), of the passing of five minutes, and of the beat, which
  runs on a schedule.  Nobody has to ask, BotFather need not agree, nothing has to crash.
* `Purchases`: weak fairness of the workers' steps; strong fairness of each attempt's
  `Poll`, since a worker is now busy and now free while the task that is due waits in
  Celery's queue, which is first in, first out.  No gateway has to call, nobody has to
  pay.
* Elsewhere none: the web's requests are not retried by anything in the repository,
  and all that is checked there is safety.

Deadlock is checked only in the `Orders` runs: in the others deals, bookings,
attempts or requests are finite in an instance, or a row may come to its end
(a delivered order), and the system may stop.

## 10. Proofs

TLC checks the instances above; TLAPS proves the following for every value of the
constants.

| theorem | module | says |
|---|---|---|
| `TypeCorrect` | `OrdersProofs` | types; the stock is never negative |
| `OrdersConsistent` | `OrdersProofs` | `RowsConsistent`, for any number of workers |
| `OrdersFollowLifecycle` | `OrdersProofs` | `Orders` implements `OrderLifecycle`, one request at a time |
| `AcceptedAmountHolds`, `NoUnitIsLost`, `NoUnearnedCardHeld`, `PurchaseIdsAreDistinct` | `OrdersProofs` | amount = cart, stock, cumulative card, purchase ids, one request at a time, for any number of carts and orders |
| `TypeCorrect` | `CashbackProofs` | types; what is accrued is a natural number |
| `DealsSound` | `CashbackProofs` | `RowsSound`, for any number of workers |
| `OneShopNotOverdrawn` | `CashbackProofs` | `WalletsNotNegative`, for any number of workers, with one organization, direct deals and no refunds |
| `RefundsAloneOverdraw`, `WalletsEmptiedInOrder` | `CashbackProofs` | `OnlyRefundOverdraws`, `PaysInOrder`: one request at a time, every channel, any number of organizations |
| `WalletsKeepTheBooks` | `CashbackProofs` | `Cashback` implements `CashbackLedger`: one request at a time, direct deals and refunds |
| `TypeCorrect`, `SettledBookingsClosed`, `PaidKeptUntilRefunded`, `PricesUpToCycles`, `RentalsImplementCalendar` | `RentalsProofs` | every property of `Rentals`, the refinement of `RentalCalendar` with them, for any bookings, workers, times and cycle |
| `TypeCorrect`, `NothingIsGiven`, `CreditsAreBounded`, `RejectedWasPaid`, `PlansAreDelivered`, `ProcessedStaysSo`, `BalanceIsCovered` | `PurchasesProofs` | the safety of `Purchases`, for any number of workers |
| `TypeCorrect`, `RetriesMakeOneBot`, `ServiceOfCompletedRequests` | `BotRequestsProofs` | the safety of `BotRequests` |
| `TypeCorrect`, `RowsStaySound`, `HistoryKnows`, `FreshRequestsFollowLife` | `DeliveryProofs` | every property of `Delivery` |
| `TypeCorrect`, `GroupsStayWithinConsent` | `PartnershipsProofs` | types; `GroupsFollowConsent`, for any organizations, workers, kinds |
| `PartnershipsAreMutual`, `SharersAreLinked`, `SharersHaveOneCurrency` | `PartnershipsProofs` | `AcceptedIsMutual`, `SharedIsLinked`, `OneCurrency` |

With these every safety property that a passing run checks is a theorem.
`SumTheorems` holds the lemmas about sums that four of them rest on.

**Assumptions.** The named `ASSUME`s of the modules, which TLC evaluates on every
run: keys differ from null, amounts and bounds are naturals, what is counted or
summed over (workers, carts, orders, organizations, purchases) is a finite set, and
`Before` is a table that finished requests leave behind: partners differ, no
direction is there twice, and each has the other one.  `OneAtATime` (any two workers
are the same) is a hypothesis of `OrdersFollowLifecycle` and the four theorems below
it and of the last three of `CashbackProofs`; `DirectOnly` (no channel but direct
deals and refunds) one of `WalletsKeepTheBooks`; `OneShop(o)` one of
`OneShopNotOverdrawn`.  Without them the statements are false, as sections 2 and 3
tell.  The last three theorems of `PartnershipsProofs` need no such hypothesis: their
properties look only at states that orderly requests have led to (`AtRest`).

**Arguments.**
`RowsConsistent` is not inductive: a row may be written long after it was read.
`Inv` adds `InFlight`: what holds of the rows in the table holds of the copies in
flight, and a handler's guard still holds *of its copy* (a payment in
flight was not paid when it was loaded, an acceptance by the client was accepted).
Every commit writes a copy with a few fields set, so it suffices to see that these
fields keep a consistent copy consistent.  `DealsSound` goes the same way.

`OrdersFollowLifecycle` needs more: that the copy is the row.  `SerialInv` adds
`Current`: what the one request knows of its order is still true when it writes;
so its write moves the stage as `OrderLifecycle` allows.  Each action moves one
order one stage or leaves all stages alone.

The other theorems about `Orders` add `ShopInv`.  `Settled` says what holds between
two requests: an order has one cart, whose content is the amount once it is accepted
(`Linked`); stock and the units of accepted orders together are at least the initial
stock (`UnitsKept`); what each order counts for the card adds up to what the card
needs (`CardEarned`); ids given out are below the counter (`IdsApart`).  `Fresh` says
what the request in hand has read of it: the cart's content, the stock, the total, the
next id.  Each handler writes what follows from what it read, so a request that
may die at any commit leaves `Settled` behind; an edit takes its order's acceptance
away before it touches the lines, so one that dies half-way leaves no accepted order
with another amount.

`OneShopNotOverdrawn` rests on `ShopInv`: at most one completion is past the
organization's counter (`AtWallets`), and the wallet covers what that one will take
(`Covered`): `own`, as it read it, is at most what is there, since promos only add.

For one request at a time `SerialInv` says what a completion knows: until it commits
nothing else changes the wallets.  Inside `use_corporate_cashback`'s loop (`Halfway`)
the wallets it has come to are emptied, and each held at least as much as any that it
has not come to; after it (`Taken`) no wallet gives more than it holds, and a partner
gives only when the own wallet and all richer partners are empty, which is
`PaysInOrder`.  For the ledger `BooksInv` adds that the group's total covers what is
spent, and that what the wallets keep, what is left to be taken and what the deal
spends always add up (`Balanced`): when the loop has come to its last wallet, that one
holds all the rest, so nothing is left untaken.  `Kept` ties status, `is_processed` and
the two cashback columns of a row, so that a refund before completion gives nothing.

`Rentals`: `Agree` ties the two rows of a booking to each other, `Remembered` a deal in
hand to its booking *as it is now*: bookings are never opened again and links never taken
back, so what a stale deal says of them stays true.  `Checked` is what a request has made
sure of before it saves; a status or a link says more than it seems to: without a deal
nothing has happened to either row; without the link only the first of the commits that
open a deal online has; an agreed deal that nobody has paid is online.  That a processed
deal's booking is closed when `activate_rental` loads it is why its save reopens nothing.
`PricedUpToCycles` is arithmetic: the difference of two remainders is that of the numbers
up to multiples of the divisor.  For the refinement a save that was not overtaken writes
the rows as they are with its own change, so each moves one booking one stage (or none),
and `Pay` moves the rivals it refunds, which are those that `RentalCalendar` turns away
since an open booking with an online deal is one that asks.

`Purchases`: whatever is true of a row in the table must be true of the rows in hand,
which are saved long after.  `GoodRow` speaks only of attempts that were started, paid
or failed; `Grown` says that they remain so, and one lemma carries all rows in hand
over every step.  Two workers never start one attempt (`OneStarts`), since giving it
up makes its number free again.  `BalanceCovered` needs the stale balances too: what a worker has read is at most what
was sold by then, and with the one that it adds one more sale is booked (`Covered`).
`Untouched` counts: a purchase that Profitgate has
not touched is loaded only before its first credit, so the credits and the workers
that have it in hand are together no more than the workers.

`BotRequests`: a request that the beat has not found pending has one task at most,
and how far that task is tells the request's status and the number of its bots
(`OneTask`, `Progress`); the bot is put into service only past the last save that can fail.  Requests that were not made have no tasks; the least unused
number, which a new request takes, exists because numbers are well-founded.

`Delivery`: `InHand` says of a request in hand that the row it is about to save is
sound and is the loaded one moved on by its operation; `Known` that a claim is on
record, or some request that still holds the order will put it there, or one died.
The action property follows from `InHand` alone.

`Partnerships`: groups are written from what a request loaded long before, so
`GroupsFollowConsent` is not inductive.  `Member` counts an organization to a group as
long as the table says so *or a request in hand remembers it*; `MembersAgree` says that
no group, so understood, reaches across a set closed under agreements, `MembersOfMade`
that a group yet to be made has no members, and `GoodRow` and `InHand` that rows, in
the table or in hand, share nothing that was never agreed to.  A link writes a
remembered group and joins two who agree, so membership grows only along an agreement.

What happens one request at a time is `OrderlyInv`: as long as `orderly`, only one
request is in hand and what it loaded is still so (`Knows`); each accepted or sharing
row has its other direction, no direction is there twice (`RowsApart`), partners who
share everything have one currency (`OneMoney`), sharers have a group (`Grouped`) and no
group has a single member (`Together`), except between the two commits that drop the
two rows, where `Knows` says which one is left.

**Sums.** The models add with `MapThenSumSet`, a recursion over sets that chooses the
next element.  The library's induction theorems take the formula to be proved as an
operator, which the provers cannot instantiate; `SumTheorems` does without: if a law
failed for some part of the set, it would fail for a smallest one (the sizes of those
parts are a set of naturals, which has a least element), and that one minus an element
satisfies it.  So each law is proved for its own formula: a sum does not depend on the
order (`SumRemove`), and changes by as much as one term does (`SumChange`).

**Only model-checked.** The liveness properties `TakenUp`, `Settles` and
`PolledIsBooked`: liveness under fairness and `ENABLED` are beyond the prover.  That
`ProcessedOnce` fails is shown by TLC's counterexample.

## 11. Not modelled

* **Withdrawals**: a row reviewed, completed or declined much like `Delivery`'s; a
  stale review saved whole can undo a completed withdrawal, and nothing is reserved
  against a balance, which is a sum computed by queries.  Planned.
* **Owners' edits of stock, coupons, attendance, membership**: short handlers on rows
  of their own; coupons and membership are planned.
* **Messenger**: messages are appended and handed to a channel group.
* **Notifications, texts, translations, receipts, statistics**: read by nothing that is
  modelled, or reading only.
* **Users, authentication, one-time passwords**: the modules start from an
  authenticated user with all rights.
* **Catalogue, comments, bookmarks, tickets, resumes, common services, contacts, API
  keys, imports, settings**: create, read, update and delete on single rows.
* **Integrations**: calls to other companies, of which the modules keep the outcomes.

Most of the repository's lines are of these sorts: migrations, serializers, admin
pages, tables of notification texts (`notifications/constants.py` alone has 4800
lines), filters and statistics.  They hold no state that steps of several actors could
bring out of order, so the share of lines that models stand for stays small, though
the handlers that move money, stock, rentals, deliveries and partnerships are covered.
Within these, the amounts are small numbers, and one seller has all rights.

## 12. Plan

1. Done: `Orders`, `Cashback`, `Rentals`, `Purchases`, `BotRequests`, `Delivery`,
   `Partnerships`; proofs as in section 10.
2. Proofs: done for the safety of what is modelled; next, how far the theorems of one
   request at a time reach when only requests about *different* orders overlap.
3. `Withdrawals`: requests, reviews and completions against a balance.
4. Rentals: what of the calendar is left once a request has been overtaken, booking by
   booking (an auxiliary per booking instead of one for all).
5. Compositions: `Orders` with `Delivery`; `Cashback` with the groups of
   `Partnerships`.
