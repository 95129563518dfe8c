----------------------------- MODULE Purchases ------------------------------
(***************************************************************************)
(* Purchases from the platform: assistants, subscriptions of organizations *)
(* and user applications (transactions/services/transaction_services.py,   *)
(* transactions/views/transaction_views.py, zinapay_views.py,              *)
(* profitgate_views.py and organizations/tasks.py).                        *)
(*                                                                         *)
(* A purchase is a transaction that is accepted when it is made and         *)
(* processed when a payment gateway says that it was paid.  Its client may  *)
(* start any number of attempts to pay, through any gateway; what becomes   *)
(* of them is answered by webhooks, by the payer's return and by a task     *)
(* that polls, which know nothing of one another.                           *)
(*                                                                         *)
(* The gateways are modelled by their classes:                              *)
(*   "plain"       Libersave, CryptoCloud: a webhook that knows every kind   *)
(*   "unaware"     FreedomPay, PaySy, Betapay: a webhook that takes a         *)
(*                 subscription or an application for a rental and fails     *)
(*   "maaly"       MaalyPay: a polling task; its webhook and return           *)
(*   "zina"        ZinaPay: webhook and return, found by the stored intent   *)
(*   "profitgate"  Profitgate: a webhook that writes a status of its own      *)
(***************************************************************************)
EXTENDS Integers, FiniteSets, FiniteSetsExt

CONSTANTS
  Purchases, NoPurchase,
  Gateways,     \* the classes of gateways that the organization has set up
  MaxAttempts,  \* bound: attempts to pay are 1..MaxAttempts
  Workers,      \* bound: requests and tasks that run at one time
  MaxPolls,     \* how often the task asks MaalyPay (max_retries = 60)
  MaxOutages,   \* bound: questions to MaalyPay that get no answer
  MaxFaults,    \* bound: workers that die or fail, and are rolled back
  MaxUndone     \* bound: Profitgate notifies of purchases credited less often

Kinds == {"assistant", "org_subscription", "user_app"}
AllGateways == {"plain", "unaware", "maaly", "zina", "profitgate"}

ASSUME PurchasesAssumption ==
  /\ NoPurchase \notin Purchases /\ Gateways \subseteq AllGateways
  /\ IsFiniteSet(Purchases) /\ IsFiniteSet(Workers)
  /\ MaxAttempts \in Nat /\ MaxPolls \in Nat
  /\ MaxOutages \in Nat /\ MaxFaults \in Nat /\ MaxUndone \in Nat

VARIABLES
  kind,      \* what each purchase is a purchase of
  row,       \* Transaction rows
  attempt,   \* what the gateways know of each attempt
  poll,      \* how often fetch_maalypay_status will still ask for an attempt
  task,      \* what each worker holds in memory
  credited,  \* how often each purchase was handed over and its profit credited
  balance,   \* UserAppBalance and ReferralBalance of the one who earns
  bot,       \* purchases for which a Telegram bot was requested
  outages, faults

vars == <<kind, row, attempt, poll, task, credited, balance, bot, outages, faults>>

Attempts == 1..MaxAttempts

(* payment_info: whether it is a mapping or a text, the ZinaPay intent and *)
(* the plans of the assistant that it names.                                *)
Info == [text : BOOLEAN, intent : Attempts \union {0}, plans : BOOLEAN]
NoInfo == [text |-> FALSE, intent |-> 0, plans |-> FALSE]

Row == [status : {"accepted", "SUCCESS", "FAILED"},
        payment_status : {"in_progress", "accepted", "rejected"},
        is_processed : BOOLEAN,
        info : Info]

NewRow(k) == [status |-> "accepted", payment_status |-> "in_progress",
              is_processed |-> FALSE, info |-> [NoInfo EXCEPT !.plans = (k = "assistant")]]

NoAttempt == [state |-> "none", of |-> NoPurchase, gateway |-> "none"]

NoTask == [pc |-> "idle", attempt |-> 0, row |-> NewRow("user_app"), balance |-> 0]

TypeOK ==
  /\ kind \in [Purchases -> Kinds]
  /\ row \in [Purchases -> Row]
  /\ attempt \in [Attempts -> [state : {"none", "starting", "refused", "open", "paid", "failed"},
                               of : Purchases \union {NoPurchase},
                               gateway : Gateways \union {"none"}]]
  /\ poll \in [Attempts -> 0..MaxPolls]
  /\ task \in [Workers -> [pc : {"idle", "starting", "asking", "loaded", "written", "refusing", "notified"},
                           attempt : Attempts \union {0}, row : Row, balance : Nat]]
  /\ credited \in [Purchases -> Nat]
  /\ balance \in [Kinds -> Nat]
  /\ bot \subseteq Purchases
  /\ outages \in 0..MaxOutages /\ faults \in 0..MaxFaults

Init ==
  /\ kind \in [Purchases -> Kinds]
  /\ row = [p \in Purchases |-> NewRow(kind[p])]
  /\ attempt = [a \in Attempts |-> NoAttempt]
  /\ poll = [a \in Attempts |-> 0]
  /\ task = [w \in Workers |-> NoTask]
  /\ credited = [p \in Purchases |-> 0]
  /\ balance = [k \in Kinds |-> 0]
  /\ bot = {} /\ outages = 0 /\ faults = 0

-----------------------------------------------------------------------------
Of(w) == attempt[task[w].attempt].of
Idle(w) == task[w].pc = "idle"

(* Mutant: a purchase is accepted again. *)
PayableAgain(p) == row[p].status = "accepted"
Payable(p) == row[p].status = "accepted" /\ ~row[p].is_processed
Tried(p, gateways) == \E a \in Attempts : attempt[a].of = p /\ attempt[a].gateway \in gateways

(* A row that is written but not committed makes other writers wait. *)
Unlocked(w, p) == \A v \in Workers \ {w} : task[v].pc = "written" => Of(v) # p

End(w) == task' = [task EXCEPT ![w] = NoTask]
Turn(w, pc, a) == task' = [task EXCEPT ![w] = [NoTask EXCEPT !.pc = pc, !.attempt = a]]
Hold(w, pc, a) == task' = [task EXCEPT ![w] = [NoTask EXCEPT !.pc = pc, !.attempt = a, !.row = row[attempt[a].of]]]
SetState(a, state) == attempt' = [attempt EXCEPT ![a].state = state]

-----------------------------------------------------------------------------
(* InitPaymentView, NewInitPaymentView: the purchase is loaded, the gateway *)
(* is asked, and payment_info is saved alone.  An application belongs to no *)
(* organization, which the last three gateways require.                     *)
BeginStart(w, p, g) ==
  /\ Idle(w) /\ Payable(p)
  /\ g \in {"maaly", "zina", "profitgate"} => kind[p] # "user_app"
  /\ \E a \in Attempts :
       /\ attempt[a] = NoAttempt /\ \A b \in Attempts : b < a => attempt[b] # NoAttempt
       /\ attempt' = [attempt EXCEPT ![a] = [state |-> "starting", of |-> p, gateway |-> g]]
       /\ Turn(w, "starting", a)
  /\ UNCHANGED <<kind, row, poll, credited, balance, bot, outages, faults>>

(* Mutant: what payment_info held is forgotten for every gateway. *)
StoredInfoAlways(a) ==
  [text |-> attempt[a].gateway = "maaly", intent |-> IF attempt[a].gateway = "zina" THEN a ELSE 0,
   plans |-> FALSE]

(* MaalyPay's is json.dumps of a mapping and thus read back as a text;      *)
(* ZinaPay's names the intent; the first two classes leave it alone.  The   *)
(* others forget the plans.                                                 *)
StoredInfo(a) ==
  LET g == attempt[a].gateway IN
  IF g \in {"plain", "unaware"} THEN row[attempt[a].of].info
  ELSE [text |-> g = "maaly", intent |-> IF g = "zina" THEN a ELSE 0, plans |-> FALSE]

(* The gateway may refuse.  MaalyPay's payment_info is saved before it is   *)
(* asked; NewInitPaymentView saves ZinaPay's, and then fails before it      *)
(* sends the payer there.                                                   *)
FinishStart(w) ==
  LET a == task[w].attempt  p == Of(w)  g == attempt[a].gateway IN
  /\ task[w].pc = "starting" /\ Unlocked(w, p)
  /\ \/ /\ SetState(a, "open")
        /\ row' = [row EXCEPT ![p].info = StoredInfo(a)]
        /\ poll' = [poll EXCEPT ![a] = IF g = "maaly" THEN MaxPolls ELSE 0]
     \/ /\ g \in {"maaly", "zina"}
        /\ SetState(a, "refused")
        /\ row' = [row EXCEPT ![p].info = StoredInfo(a)]
        /\ UNCHANGED poll
     \/ /\ g # "maaly"
        /\ attempt' = [attempt EXCEPT ![a] = NoAttempt]
        /\ UNCHANGED <<row, poll>>
  /\ End(w)
  /\ UNCHANGED <<kind, credited, balance, bot, outages, faults>>

(* The payer pays, or the gateway gives the attempt up. *)
Pay(a) ==
  /\ attempt[a].state = "open" /\ SetState(a, "paid")
  /\ UNCHANGED <<kind, row, poll, task, credited, balance, bot, outages, faults>>

Decline(a) ==
  /\ attempt[a].state = "open" /\ SetState(a, "failed")
  /\ UNCHANGED <<kind, row, poll, task, credited, balance, bot, outages, faults>>

-----------------------------------------------------------------------------
(* accept_assistant_transaction, accept_org_subscription_transaction,       *)
(* accept_user_app_transaction: a transaction of the database that loads a  *)
(* purchase still unprocessed, writes all of its row and credits a balance. *)

(* The webhooks of the first two classes. *)
Known(a) == attempt[a].gateway = "plain" \/ kind[attempt[a].of] = "assistant"

(* MaalyResultView reads payment_info as a mapping. *)
AnswerOf(a) ==
  \/ attempt[a].gateway \in {"plain", "unaware"} /\ Known(a)
  \/ attempt[a].gateway = "maaly" /\ ~row[attempt[a].of].info.text
  \/ attempt[a].gateway = "zina" /\ row[attempt[a].of].info.intent = a

Webhook(w, a) ==
  /\ Idle(w) /\ attempt[a].state = "paid" /\ AnswerOf(a)
  /\ Payable(attempt[a].of)
  /\ Hold(w, "loaded", a)
  /\ UNCHANGED <<kind, row, attempt, poll, credited, balance, bot, outages, faults>>

(* The payer comes back from ZinaPay: the intent is read from the row, the  *)
(* gateway is asked about it, and the purchase is loaded again.             *)
Return(w, a) ==
  /\ Idle(w) /\ attempt[a].gateway = "zina"
  /\ row[attempt[a].of].info.intent = a /\ ~row[attempt[a].of].is_processed
  /\ Turn(w, "asking", a)
  /\ UNCHANGED <<kind, row, attempt, poll, credited, balance, bot, outages, faults>>

(* Mutant: the intent's state is not looked at. *)
AskedAnything(w) ==
  /\ task[w].pc = "asking"
  /\ IF Payable(Of(w)) THEN Hold(w, "loaded", task[w].attempt) ELSE End(w)
  /\ UNCHANGED <<kind, row, attempt, poll, credited, balance, bot, outages, faults>>

Asked(w) ==
  /\ task[w].pc = "asking"
  /\ IF attempt[task[w].attempt].state = "paid" /\ Payable(Of(w))
       THEN Hold(w, "loaded", task[w].attempt) ELSE End(w)
  /\ UNCHANGED <<kind, row, attempt, poll, credited, balance, bot, outages, faults>>

(* Mutant: one question too many. *)
PollOnceMore(w, a) ==
  /\ Idle(w) /\ attempt[a].gateway = "maaly" /\ attempt[a].state = "open"
  /\ poll' = [poll EXCEPT ![a] = @ - 1]
  /\ UNCHANGED <<kind, row, attempt, task, credited, balance, bot, outages, faults>>

(* Mutant: the last question's answer is not used. *)
PollInVain(w, a) ==
  /\ Idle(w) /\ poll[a] > 0
  /\ poll' = [poll EXCEPT ![a] = @ - 1]
  /\ IF attempt[a].state = "paid" /\ poll[a] > 1 /\ Payable(attempt[a].of)
       THEN Hold(w, "loaded", a) ELSE UNCHANGED task
  /\ UNCHANGED <<kind, row, attempt, credited, balance, bot, outages, faults>>

(* fetch_maalypay_status: a paid attempt is answered once; anything else is *)
(* asked again, until the retries are used up.                              *)
Poll(w, a) ==
  /\ Idle(w) /\ poll[a] > 0
  /\ IF attempt[a].state # "paid"
       THEN poll' = [poll EXCEPT ![a] = @ - 1] /\ UNCHANGED task
       ELSE /\ poll' = [poll EXCEPT ![a] = 0]
            /\ IF Payable(attempt[a].of) THEN Hold(w, "loaded", a) ELSE UNCHANGED task
  /\ UNCHANGED <<kind, row, attempt, credited, balance, bot, outages, faults>>

Outage(a) ==
  /\ poll[a] > 0 /\ outages < MaxOutages
  /\ poll' = [poll EXCEPT ![a] = @ - 1]
  /\ outages' = outages + 1
  /\ UNCHANGED <<kind, row, attempt, task, credited, balance, bot, faults>>

(* The row is written, then the balance is read.  An assistant's            *)
(* payment_info is merged with the balance, which fails when it is a text.  *)
Write(w) ==
  LET p == Of(w) IN
  /\ task[w].pc = "loaded" /\ Unlocked(w, p)
  /\ IF kind[p] = "assistant" /\ task[w].row.info.text
       THEN End(w)
       ELSE task' = [task EXCEPT ![w].pc = "written", ![w].balance = balance[kind[p]]]
  /\ UNCHANGED <<kind, row, attempt, poll, credited, balance, bot, outages, faults>>

(* Mutant: the profit is credited although the purchase was handed over. *)
CreditedBalanceTwice(w) == task[w].balance + 2
CreditedBalance(w) == task[w].balance + 1

Commit(w) ==
  LET p == Of(w) IN
  /\ task[w].pc = "written"
  /\ row' = [row EXCEPT ![p] = [task[w].row EXCEPT !.is_processed = TRUE, !.payment_status = "accepted"]]
  /\ credited' = [credited EXCEPT ![p] = @ + 1]
  /\ balance' = [balance EXCEPT ![kind[p]] = IF kind[p] = "assistant" THEN @ ELSE CreditedBalance(w)]
  /\ bot' = IF task[w].row.info.plans THEN bot \union {p} ELSE bot
  /\ End(w)
  /\ UNCHANGED <<kind, attempt, poll, outages, faults>>

-----------------------------------------------------------------------------
(* Mutant: an attempt that is not complete is taken for one that failed. *)
BeginRefuseOpen(w, a) ==
  /\ Idle(w) /\ attempt[a].gateway = "zina" /\ attempt[a].state = "open"
  /\ row[attempt[a].of].info.intent = a /\ ~row[attempt[a].of].is_processed
  /\ Turn(w, "refusing", a)
  /\ UNCHANGED <<kind, row, attempt, poll, credited, balance, bot, outages, faults>>

(* ZinaPay's webhook for an attempt that failed, on the row it has loaded. *)
BeginRefuse(w, a) ==
  /\ Idle(w) /\ attempt[a].gateway = "zina" /\ attempt[a].state = "failed"
  /\ row[attempt[a].of].info.intent = a /\ ~row[attempt[a].of].is_processed
  /\ Turn(w, "refusing", a)
  /\ UNCHANGED <<kind, row, attempt, poll, credited, balance, bot, outages, faults>>

(* Mutant: the purchase is also opened again. *)
RefuseReopens(w) ==
  /\ task[w].pc = "refusing" /\ Unlocked(w, Of(w))
  /\ row' = [row EXCEPT ![Of(w)].payment_status = "rejected", ![Of(w)].is_processed = FALSE]
  /\ End(w)
  /\ UNCHANGED <<kind, attempt, poll, credited, balance, bot, outages, faults>>

(* save(update_fields = payment_status) *)
Refuse(w) ==
  /\ task[w].pc = "refusing" /\ Unlocked(w, Of(w))
  /\ row' = [row EXCEPT ![Of(w)].payment_status = "rejected"]
  /\ End(w)
  /\ UNCHANGED <<kind, attempt, poll, credited, balance, bot, outages, faults>>

(* ProfitgateWebhookAPIView loads the row in whatever state it is, and      *)
(* saves all of it with a status that no other code knows (of which PARTIAL  *)
(* is left out), or as it was.                                              *)
BeginNotify(w, a) ==
  /\ Idle(w) /\ attempt[a].gateway = "profitgate"
  /\ attempt[a].state \in {"open", "paid", "failed"}
  /\ credited[attempt[a].of] < MaxUndone
  /\ Hold(w, "notified", a)
  /\ UNCHANGED <<kind, row, attempt, poll, credited, balance, bot, outages, faults>>

Notify(w) ==
  /\ task[w].pc = "notified" /\ Unlocked(w, Of(w))
  /\ \E status \in CASE attempt[task[w].attempt].state = "paid" -> {"SUCCESS", task[w].row.status}
                     [] attempt[task[w].attempt].state = "failed" -> {"FAILED", task[w].row.status}
                     [] OTHER -> {task[w].row.status} :
       row' = [row EXCEPT ![Of(w)] = [task[w].row EXCEPT !.status = status]]
  /\ End(w)
  /\ UNCHANGED <<kind, attempt, poll, credited, balance, bot, outages, faults>>

(* A worker dies in an acceptance, or what it calls fails (a receipt that   *)
(* cannot be made); nothing of it is committed, and the task is gone.  In    *)
(* the other handlers a worker that dies has done nothing yet.              *)
Fail(w) ==
  /\ task[w].pc \in {"loaded", "written"} /\ faults < MaxFaults
  /\ faults' = faults + 1
  /\ End(w)
  /\ UNCHANGED <<kind, row, attempt, poll, credited, balance, bot, outages>>

-----------------------------------------------------------------------------
Work(w) ==
  FinishStart(w) \/ Asked(w) \/ Write(w) \/ Commit(w) \/ Refuse(w) \/ Notify(w)

Next ==
  \/ \E w \in Workers :
       \/ Work(w) \/ Fail(w)
       \/ \E p \in Purchases, g \in Gateways : BeginStart(w, p, g)
       \/ \E a \in Attempts :
            \/ Webhook(w, a) \/ Return(w, a) \/ Poll(w, a)
            \/ BeginRefuse(w, a) \/ BeginNotify(w, a)
  \/ \E a \in Attempts : Pay(a) \/ Decline(a) \/ Outage(a)

Spec == Init /\ [][Next]_vars

(* A worker goes on with what it has begun, and one of them takes the task  *)
(* that is due.  No gateway has to call, and nobody has to pay.             *)
Fairness ==
  /\ \A w \in Workers : WF_vars(Work(w))
  /\ \A a \in Attempts : SF_vars(\E w \in Workers : Poll(w, a))

FairSpec == Spec /\ Fairness

-----------------------------------------------------------------------------
(* Properties *)

(* Nothing is handed over unless some attempt to pay for it has been paid. *)
NothingUnpaid ==
  \A p \in Purchases : credited[p] > 0 =>
    \E a \in Attempts : attempt[a].of = p /\ attempt[a].state = "paid"

(* However the answers repeat, a purchase is credited again only by workers *)
(* that had loaded it before; Profitgate's stale saves can open it again.   *)
CreditedOncePerWorker ==
  \A p \in Purchases :
    credited[p] <= Cardinality(Workers) \/ Tried(p, {"profitgate"})

(* The one who earns never has more than was sold.  (Less, when two sales   *)
(* read the same balance.)                                                  *)
BalanceCovered ==
  \A k \in Kinds :
    balance[k] <= MapThenSumSet(LAMBDA p : credited[p], {p \in Purchases : kind[p] = k})

(* A processed purchase is only undone by Profitgate. *)
ProcessedForGood ==
  [][\A p \in Purchases :
       row[p].is_processed /\ ~row'[p].is_processed => Tried(p, {"profitgate"})]_vars

(* A processed purchase is shown as rejected only when one of two attempts  *)
(* failed at ZinaPay and the other was paid.                                *)
RejectedThenPaid ==
  \A p \in Purchases :
    row[p].is_processed /\ row[p].payment_status = "rejected" =>
      \E a, b \in Attempts :
        /\ attempt[a].of = p /\ attempt[a].gateway = "zina" /\ attempt[a].state = "failed"
        /\ attempt[b].of = p /\ attempt[b].state = "paid"

(* A paid assistant comes with the bot of its plan, unless an attempt       *)
(* through a gateway that writes payment_info anew was started.             *)
PlanDelivered ==
  \A p \in Purchases :
    kind[p] = "assistant" /\ credited[p] > 0 =>
      p \in bot \/ Tried(p, {"maaly", "zina", "profitgate"})

(* What is paid at MaalyPay is booked when the task still asks more often   *)
(* than the gateway can be out of reach; except for assistants, and unless  *)
(* a worker fails or Profitgate interferes.                                 *)
PolledIsBooked ==
  \A a \in Attempts, p \in Purchases :
    (/\ attempt[a].of = p /\ attempt[a].state = "paid"
     /\ kind[p] # "assistant" /\ poll[a] > MaxOutages - outages)
      ~> (credited[p] > 0 \/ faults > 0 \/ Tried(p, {"profitgate"}))
=============================================================================
