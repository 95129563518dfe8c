--------------------------- MODULE CashbackProofs ---------------------------
(***************************************************************************)
(* Cashback proved for any number of organizations, deals and amounts:     *)
(* for any number of workers the type invariant, the soundness of the      *)
(* deals' rows and, for one organization whose deals are completed on the  *)
(* spot and not refunded, that completions never overdraw the wallet; for  *)
(* one request at a time the order in which wallets are emptied and, for   *)
(* deals completed on the spot, the refinement of CashbackLedger.          *)
(***************************************************************************)
EXTENDS Cashback, SumTheorems, TLAPS

-----------------------------------------------------------------------------
(* A row is sound in the table and in the memory of the handlers that will *)
(* write it back; a handler that gets to the wallets knows whose they are. *)

InFlight(r) ==
  /\ Sound(r.row)
  /\ r.pc \notin {"idle", "refused"} => r.row.org \in Orgs /\ r.row.status # "absent"

Inv ==
  /\ TypeOK
  /\ RowsSound
  /\ \A d \in Deals : Exists(d) => row[d].org \in Orgs
  /\ \A d \in started : Exists(d)
  /\ \A w \in Workers : InFlight(req[w])

LEMMA IdleIsRequest == Idle \in Request /\ InFlight(Idle) /\ AbsentRow \in Row /\ Sound(AbsentRow)
  BY DEF Idle, Request, Phases, Nothing, AbsentRow, Row, InFlight, Sound

(* What a cashback card accrues on a sound row is not negative. *)
LEMMA AccruedIsNat ==
  ASSUME NEW r \in Row, Sound(r)
  PROVE  Accrued(r) \in Nat
  <1> DEFINE paid == r.amount - r.from_cashback
  <1>1. paid \in Nat BY DEF Row, Sound
  <1>2. Percent \in Nat BY CashbackAssumption
  <1> HIDE DEF paid
  <1>3. paid * Percent \in Nat BY <1>1, <1>2
  <1>4. (paid * Percent) \div 100 \in Nat
    <2> DEFINE n == paid * Percent
    <2> HIDE DEF n
    <2>1. n \in Nat BY <1>3 DEF n
    <2>2. n \div 100 \in Nat BY <2>1
    <2> QED BY <2>2 DEF n
  <1> QED BY <1>4 DEF Accrued, paid

LEMMA PricedRow ==
  ASSUME NEW r \in Row, NEW amount \in Amounts, NEW from \in 0..amount, NEW card \in BOOLEAN
  PROVE  /\ Priced(r, amount, from, card) \in Row
         /\ Priced(r, amount, from, card).from_cashback <= Priced(r, amount, from, card).amount
  <1>1. amount \in Nat /\ from \in Nat /\ from <= amount BY CashbackAssumption
  <1>2. Priced(r, amount, from, card) \in Row BY <1>1 DEF Priced, Row
  <1>3. /\ Priced(r, amount, from, card).from_cashback = from
        /\ Priced(r, amount, from, card).amount = amount
    BY DEF Priced, Row
  <1> QED BY <1>1, <1>2, <1>3

THEOREM InitInv == Init => Inv
  <1> SUFFICES ASSUME Init PROVE Inv OBVIOUS
  <1>1. TypeOK BY IdleIsRequest DEF Init, TypeOK, Nothing
  <1>2. RowsSound /\ \A d \in Deals : ~Exists(d)
    BY IdleIsRequest DEF Init, RowsSound, Exists, AbsentRow
  <1>3. \A w \in Workers : InFlight(req[w]) BY IdleIsRequest DEF Init
  <1>4. started = {} BY DEF Init
  <1> QED BY <1>1, <1>2, <1>3, <1>4 DEF Inv

-----------------------------------------------------------------------------
(* One worker's request changes; one row is written. *)

LEMMA RequestChanges ==
  ASSUME Inv, NEW w \in Workers, NEW r \in Request, InFlight(r),
         req' = [req EXCEPT ![w] = r]
  PROVE  req' \in [Workers -> Request] /\ \A v \in Workers : InFlight(req'[v])
  BY DEF Inv, TypeOK

LEMMA WorkerFinishes ==
  ASSUME Inv, NEW w \in Workers, Finish(w)
  PROVE  req' \in [Workers -> Request] /\ \A v \in Workers : InFlight(req'[v])
  BY IdleIsRequest, RequestChanges DEF Finish

LEMMA RequestInFlight ==
  ASSUME Inv, NEW w \in Workers
  PROVE  req[w] \in Request /\ InFlight(req[w])
  BY DEF Inv, TypeOK

LEMMA RowChanges ==
  ASSUME Inv, NEW d, NEW r \in Row, Sound(r), r.org \in Orgs, r.status # "absent",
         row' = [row EXCEPT ![d] = r]
  PROVE  /\ row' \in [Deals -> Row] /\ RowsSound'
         /\ \A e \in Deals : (Exists(e) => row[e].org \in Orgs)'
         /\ \A e \in started : Exists(e)'
  <1> USE DEF Inv, TypeOK, RowsSound, Exists
  <1>1. row' \in [Deals -> Row] OBVIOUS
  <1>2. \A e \in Deals : row'[e] = row[e] \/ row'[e] = r OBVIOUS
  <1>3. RowsSound' BY <1>2
  <1>4. \A e \in Deals : (Exists(e) => row[e].org \in Orgs)'
    BY <1>2
  <1>5. \A e \in started : Exists(e)'
    BY <1>2
  <1> QED BY <1>1, <1>3, <1>4, <1>5

LEMMA RowInTable ==
  ASSUME Inv, NEW d \in Deals, Exists(d)
  PROVE  row[d] \in Row /\ Sound(row[d]) /\ row[d].org \in Orgs /\ row[d].status # "absent"
  BY DEF Inv, TypeOK, RowsSound, Exists

(* A handler begins with the row it will write. *)
LEMMA HandlerBegins ==
  ASSUME Inv, NEW w \in Workers, NEW pc \in Phases,
         NEW kind \in {"direct", "cashier", "offline", "gateway"}, NEW d \in Deals,
         NEW r \in Row, Sound(r), r.org \in Orgs, r.status # "absent",
         req' = [req EXCEPT ![w] = [[Idle EXCEPT !.kind = kind, !.deal = d, !.row = r]
                                      EXCEPT !.pc = pc]]
  PROVE  req' \in [Workers -> Request] /\ \A v \in Workers : InFlight(req'[v])
  <1> DEFINE q == [[Idle EXCEPT !.kind = kind, !.deal = d, !.row = r] EXCEPT !.pc = pc]
  <1>1. q \in Request BY IdleIsRequest DEF Request, Idle
  <1>2. InFlight(q) BY DEF InFlight, Idle
  <1> HIDE DEF q
  <1> QED BY <1>1, <1>2, RequestChanges DEF q

(* A request goes on with the same row. *)
LEMMA HandlerGoesOn ==
  ASSUME Inv, NEW w \in Workers, NEW q \in Request, q.row = req[w].row,
         req[w].pc \notin {"idle", "refused"}, req' = [req EXCEPT ![w] = q]
  PROVE  req' \in [Workers -> Request] /\ \A v \in Workers : InFlight(req'[v])
  <1>1. InFlight(q) BY RequestInFlight DEF InFlight
  <1> QED BY <1>1, RequestChanges

-----------------------------------------------------------------------------
(* Opening, subscribing, beginning. *)

LEMMA OpenDealInv ==
  ASSUME Inv, NEW w \in Workers, NEW d \in Deals, NEW o \in Orgs, OpenDeal(w, d, o)
  PROVE  Inv'
  <1> DEFINE r == [AbsentRow EXCEPT !.status = "in_progress", !.org = o]
  <1>1. r \in Row BY IdleIsRequest DEF Row
  <1>2. Sound(r) /\ r.org = o /\ r.status # "absent" BY DEF AbsentRow, Sound
  <1> HIDE DEF r
  <1>3. row' = [row EXCEPT ![d] = r] BY DEF OpenDeal, r
  <1> QED BY <1>1, <1>2, <1>3, RowChanges DEF OpenDeal, Inv, TypeOK

LEMMA SubscribeInv ==
  ASSUME Inv, NEW w \in Workers, NEW o \in Orgs, Subscribe(w, o)
  PROVE  Inv'
  BY CashbackAssumption DEF Subscribe, Inv, TypeOK, RowsSound, Exists

LEMMA BeginDirectInv ==
  ASSUME Inv, NEW w \in Workers, NEW d \in Deals, NEW amount \in Amounts,
         NEW from \in 0..amount, NEW card \in BOOLEAN, BeginDirect(w, d, amount, from, card)
  PROVE  Inv'
  <1> DEFINE p == Priced(row[d], amount, from, card)
             r == [p EXCEPT !.status = "accepted", !.payment_status = "accepted",
                            !.is_processed = TRUE]
  <1>1. row[d] \in Row /\ row[d].org \in Orgs
    BY RowInTable DEF BeginDirect, Exists
  <1>2. p \in Row /\ p.from_cashback <= p.amount BY <1>1, PricedRow
  <1>3. p.org \in Orgs BY <1>1 DEF Priced, Row
  <1>4. r \in Row /\ Sound(r) /\ r.org \in Orgs /\ r.status # "absent"
    <2> HIDE DEF p
    <2> QED BY <1>2, <1>3 DEF Row, Sound
  <1>5. req' = [req EXCEPT ![w] = [[Idle EXCEPT !.kind = "direct", !.deal = d, !.row = r]
                                     EXCEPT !.pc = "checking"]]
    BY DEF BeginDirect, Begin
  <1> HIDE DEF r
  <1>6. req' \in [Workers -> Request] /\ \A v \in Workers : InFlight(req'[v])
    BY <1>4, <1>5, HandlerBegins DEF Phases
  <1> QED BY <1>6 DEF BeginDirect, Inv, TypeOK, RowsSound, Exists

LEMMA BeginCashierInv ==
  ASSUME Inv, NEW w \in Workers, NEW d \in Deals, NEW amount \in Amounts,
         NEW from \in 0..amount, NEW card \in BOOLEAN, BeginCashier(w, d, amount, from, card)
  PROVE  Inv'
  <1> DEFINE p == Priced(row[d], amount, from, card)
             r == [p EXCEPT !.status = "accepted"]
  <1>1. row[d] \in Row /\ row[d].org \in Orgs BY RowInTable DEF BeginCashier
  <1>2. p \in Row /\ p.from_cashback <= p.amount BY <1>1, PricedRow
  <1>3. p.org \in Orgs /\ p.type = "offline" BY <1>1 DEF Priced, Row, BeginCashier
  <1>4. r \in Row /\ Sound(r) /\ r.org \in Orgs /\ r.status # "absent"
    <2> HIDE DEF p
    <2> QED BY <1>2, <1>3 DEF Row, Sound
  <1>5. req' = [req EXCEPT ![w] = [[Idle EXCEPT !.kind = "cashier", !.deal = d, !.row = r]
                                     EXCEPT !.pc = "checking"]]
    BY DEF BeginCashier, Begin
  <1> HIDE DEF r
  <1>6. req' \in [Workers -> Request] /\ \A v \in Workers : InFlight(req'[v])
    BY <1>4, <1>5, HandlerBegins DEF Phases
  <1> QED BY <1>6 DEF BeginCashier, Inv, TypeOK, RowsSound, Exists

LEMMA BeginOfflineInv ==
  ASSUME Inv, NEW w \in Workers, NEW d \in Deals, BeginOffline(w, d)
  PROVE  Inv'
  <1> DEFINE r == [row[d] EXCEPT !.is_processed = TRUE]
  <1>1. row[d] \in Row /\ Sound(row[d]) /\ row[d].org \in Orgs /\ row[d].status # "absent"
    BY RowInTable DEF BeginOffline
  <1>2. r \in Row /\ Sound(r) /\ r.org \in Orgs /\ r.status # "absent"
    BY <1>1 DEF Row, Sound
  <1>3. req' = [req EXCEPT ![w] = [[Idle EXCEPT !.kind = "offline", !.deal = d, !.row = r]
                                     EXCEPT !.pc = "writing"]]
    BY DEF BeginOffline, Begin
  <1> HIDE DEF r
  <1>4. req' \in [Workers -> Request] /\ \A v \in Workers : InFlight(req'[v])
    BY <1>2, <1>3, HandlerBegins DEF Phases
  <1> QED BY <1>4 DEF BeginOffline, Inv, TypeOK, RowsSound, Exists

LEMMA BeginGatewayInv ==
  ASSUME Inv, NEW w \in Workers, NEW d \in Deals, BeginGateway(w, d)
  PROVE  Inv'
  <1> DEFINE r == [row[d] EXCEPT !.is_processed = TRUE, !.type = "online",
                                 !.payment_status = "accepted"]
  <1>1. row[d] \in Row /\ Sound(row[d]) /\ row[d].org \in Orgs /\ row[d].status # "absent"
    BY RowInTable DEF BeginGateway, Inv
  <1>2. r \in Row /\ Sound(r) /\ r.org \in Orgs /\ r.status # "absent"
    BY <1>1 DEF Row, Sound
  <1>3. req' = [req EXCEPT ![w] = [[Idle EXCEPT !.kind = "gateway", !.deal = d, !.row = r]
                                     EXCEPT !.pc = "writing"]]
    BY DEF BeginGateway, Begin
  <1> HIDE DEF r
  <1>4. req' \in [Workers -> Request] /\ \A v \in Workers : InFlight(req'[v])
    BY <1>2, <1>3, HandlerBegins DEF Phases
  <1> QED BY <1>4 DEF BeginGateway, Inv, TypeOK, RowsSound, Exists

LEMMA BeginRefusedInv ==
  ASSUME Inv, NEW w \in Workers, NEW d \in Deals, BeginRefused(w, d)
  PROVE  Inv'
  <1> DEFINE q == [[Idle EXCEPT !.deal = d] EXCEPT !.pc = "refused"]
  <1>1. q \in Request BY IdleIsRequest DEF Request, Idle, Phases
  <1>2. InFlight(q) BY IdleIsRequest DEF InFlight, Idle
  <1>3. req' = [req EXCEPT ![w] = q] BY DEF BeginRefused, Begin
  <1> HIDE DEF q
  <1>4. req' \in [Workers -> Request] /\ \A v \in Workers : InFlight(req'[v])
    BY <1>1, <1>2, <1>3, RequestChanges
  <1> QED BY <1>4 DEF BeginRefused, Inv, TypeOK, RowsSound, Exists

LEMMA BeginRefundInv ==
  ASSUME Inv, NEW w \in Workers, NEW d \in Deals, BeginRefund(w, d)
  PROVE  Inv'
  <1> DEFINE r == [row[d] EXCEPT !.status = "rejected", !.is_processed = FALSE]
  <1>1. row[d] \in Row /\ Sound(row[d]) /\ row[d].org \in Orgs /\ row[d].status # "absent"
    BY RowInTable DEF BeginRefund
  <1>2. r \in Row /\ Sound(r) /\ r.org \in Orgs /\ r.status # "absent"
    BY <1>1 DEF Row, Sound
  <1>3. req' = [req EXCEPT ![w] = [[Idle EXCEPT !.deal = d, !.row = r] EXCEPT !.pc = "refunding"]]
    BY DEF BeginRefund, Begin
  <1> DEFINE q == [[Idle EXCEPT !.deal = d, !.row = r] EXCEPT !.pc = "refunding"]
  <1> HIDE DEF r
  <1>4. q \in Request BY <1>2, IdleIsRequest DEF Request, Idle, Phases
  <1>5. InFlight(q) BY <1>2 DEF InFlight, Idle
  <1> HIDE DEF q
  <1>6. req' \in [Workers -> Request] /\ \A v \in Workers : InFlight(req'[v])
    BY <1>3, <1>4, <1>5, RequestChanges DEF q
  <1> QED BY <1>6 DEF BeginRefund, Inv, TypeOK, RowsSound, Exists

LEMMA StartPaymentInv ==
  ASSUME Inv, NEW w \in Workers, NEW d \in Deals, StartPayment(w, d)
  PROVE  Inv'
  BY DEF StartPayment, Inv, TypeOK, RowsSound, Exists

-----------------------------------------------------------------------------
(* Going on. *)

LEMMA CheckBalanceInv ==
  ASSUME Inv, NEW w \in Workers, CheckBalance(w)
  PROVE  Inv'
  <1>1. PICK pc \in {"writing", "saving"} : req' = [req EXCEPT ![w] = [req[w] EXCEPT !.pc = pc]]
    BY DEF CheckBalance
  <1> DEFINE q == [req[w] EXCEPT !.pc = pc]
  <1>2. q \in Request /\ q.row = req[w].row BY RequestInFlight DEF Request, Phases
  <1> HIDE DEF q
  <1>3. req' \in [Workers -> Request] /\ \A v \in Workers : InFlight(req'[v])
    BY <1>1, <1>2, HandlerGoesOn DEF CheckBalance, q
  <1> QED BY <1>3 DEF CheckBalance, Inv, TypeOK, RowsSound, Exists

LEMMA CommitCashierInv ==
  ASSUME Inv, NEW w \in Workers, CommitCashier(w)
  PROVE  Inv'
  <1>1. /\ req[w].row \in Row /\ Sound(req[w].row)
        /\ req[w].row.org \in Orgs /\ req[w].row.status # "absent"
    BY RequestInFlight DEF CommitCashier, InFlight, Request
  <1> QED BY <1>1, RowChanges, WorkerFinishes DEF CommitCashier, Inv, TypeOK

LEMMA CommitRefusedInv ==
  ASSUME Inv, NEW w \in Workers, CommitRefused(w)
  PROVE  Inv'
  <1> DEFINE d == req[w].deal
             r == [row[d] EXCEPT !.payment_status = "rejected"]
  <1>1. row' = [row EXCEPT ![d] = r] BY DEF CommitRefused
  <1>2. /\ row' \in [Deals -> Row] /\ RowsSound'
        /\ \A e \in Deals : (Exists(e) => row[e].org \in Orgs)'
        /\ \A e \in started : Exists(e)'
    <2> USE DEF Inv, TypeOK, RowsSound, Exists
    <2>1. \A e \in Deals : e # d => row'[e] = row[e] BY <1>1
    <2>2. d \in Deals => /\ row'[d] \in Row
                         /\ row'[d] = r /\ r.status = row[d].status
                         /\ r.org = row[d].org /\ Sound(r)
      BY <1>1 DEF Row, Sound
    <2>3. row' \in [Deals -> Row] BY <1>1, <2>1, <2>2
    <2>4. RowsSound' BY <2>1, <2>2
    <2>5. \A e \in Deals : (Exists(e) => row[e].org \in Orgs)' BY <2>1, <2>2
    <2>6. \A e \in started : Exists(e)' BY <2>1, <2>2
    <2> QED BY <2>3, <2>4, <2>5, <2>6
  <1> QED BY <1>2, WorkerFinishes DEF CommitRefused, Inv, TypeOK

LEMMA WriteDealInv ==
  ASSUME Inv, NEW w \in Workers, WriteDeal(w)
  PROVE  Inv'
  <1> DEFINE n == wallet[req[w].row.org]
             q == [req[w] EXCEPT !.pc = "written", !.own = n]
  <1>1. n \in Int
    BY RequestInFlight DEF WriteDeal, InFlight, Inv, TypeOK
  <1>2. q \in Request /\ q.row = req[w].row
    BY <1>1, RequestInFlight DEF Request, Phases
  <1>3. req' = [req EXCEPT ![w] = q] BY DEF WriteDeal
  <1> HIDE DEF q
  <1>4. req' \in [Workers -> Request] /\ \A v \in Workers : InFlight(req'[v])
    BY <1>2, <1>3, HandlerGoesOn DEF WriteDeal
  <1> QED BY <1>4 DEF WriteDeal, Inv, TypeOK, RowsSound, Exists

(* The two outcomes of charging the own wallet. *)
Charged(r, o, change) ==
  [r EXCEPT !.pc = "accruing", !.own = 0, !.held = {o}, !.change = change]
Unfinished(r, left, seen, todo) ==
  [r EXCEPT !.pc = "partners", !.left = left, !.seen = seen, !.todo = todo]

LEMMA ChargedRequest ==
  ASSUME NEW r \in Request, NEW o \in Orgs, NEW change \in [Orgs -> Int],
         NEW q, q = Charged(r, o, change)
  PROVE  /\ q \in Request /\ q.row = r.row /\ q.deal = r.deal /\ q.kind = r.kind
         /\ q.change = change /\ q.held = {o} /\ q.pc = "accruing" /\ q.left = r.left
  <1>1. \A z \in Int :
          LET p == [r EXCEPT !.pc = "accruing", !.own = z, !.held = {o}, !.change = change] IN
          /\ p \in Request /\ p.row = r.row /\ p.deal = r.deal /\ p.kind = r.kind
          /\ p.change = change /\ p.held = {o} /\ p.pc = "accruing" /\ p.left = r.left
    BY DEF Request, Phases
  <1>2. 0 \in Int OBVIOUS
  <1> QED BY <1>1, <1>2 DEF Charged

LEMMA UnfinishedRequest ==
  ASSUME NEW r \in Request, NEW left \in Int, NEW seen \in [Orgs -> Int], NEW todo \in SUBSET Orgs,
         NEW q, q = Unfinished(r, left, seen, todo)
  PROVE  /\ q \in Request /\ q.row = r.row /\ q.deal = r.deal /\ q.kind = r.kind
         /\ q.change = r.change /\ q.held = r.held /\ q.pc = "partners" /\ q.left = left
         /\ q.seen = seen /\ q.todo = todo
  BY DEF Request, Phases, Unfinished

LEMMA SpendOwnMakes ==
  ASSUME Inv, NEW w \in Workers, SpendOwn(w),
         NEW take, take = (IF req[w].row.from_cashback > 0
                             THEN OwnShare(req[w].own, req[w].row.from_cashback) ELSE 0)
  PROVE  /\ take \in Int
         /\ \E q \in Request :
              /\ req' = [req EXCEPT ![w] = q]
              /\ q.row = req[w].row /\ q.deal = req[w].deal /\ q.kind = req[w].kind
              /\ q.change = [req[w].change EXCEPT ![req[w].row.org] = -take]
              /\ q.held = {req[w].row.org}
              /\ \/ /\ q.pc = "accruing" /\ q.left = req[w].left
                    /\ take = req[w].row.from_cashback \/ opened \subseteq {req[w].row.org}
                 \/ /\ q.pc = "partners" /\ take # req[w].row.from_cashback
                    /\ ~ (opened \subseteq {req[w].row.org})
                    /\ q.left = req[w].row.from_cashback - take
                    /\ q.seen = wallet /\ q.todo = opened \ {req[w].row.org}
  <1> DEFINE r == req[w]
             o == r.row.org
             from == r.row.from_cashback
             changed == [r.change EXCEPT ![o] = -take]
             left == from - take
             todo == opened \ {o}
             paid == Charged(r, o, changed)
             more == Unfinished(paid, left, wallet, todo)
  <1>1. r \in Request /\ o \in Orgs BY RequestInFlight DEF SpendOwn, InFlight
  <1>2. from \in Nat /\ r.own \in Int BY <1>1 DEF Request, Row
  <1>3. take \in Int BY <1>2 DEF OwnShare, Least
  <1>4. changed \in [Orgs -> Int] BY <1>1, <1>3 DEF Request
  <1>5. req' = [req EXCEPT ![w] = IF take = from \/ opened \subseteq {o} THEN paid ELSE more]
    BY DEF SpendOwn, Charged, Unfinished
  <1> HIDE DEF changed
  <1>6. /\ paid \in Request /\ paid.row = r.row /\ paid.deal = r.deal /\ paid.kind = r.kind
        /\ paid.change = changed /\ paid.held = {o} /\ paid.pc = "accruing" /\ paid.left = r.left
    BY <1>1, <1>4, ChargedRequest
  <1>7. /\ more \in Request /\ more.row = r.row /\ more.deal = r.deal /\ more.kind = r.kind
        /\ more.change = changed /\ more.held = {o} /\ more.pc = "partners"
        /\ more.left = left /\ more.seen = wallet /\ more.todo = todo
    <2>1. wallet \in [Orgs -> Int] /\ todo \in SUBSET Orgs /\ left \in Int
      BY <1>2, <1>3 DEF Inv, TypeOK
    <2> HIDE DEF paid, left, todo
    <2> QED BY <1>6, <2>1, UnfinishedRequest
  <1> HIDE DEF paid, more
  <1>8. CASE take = from \/ opened \subseteq {o}
    <2>1. req' = [req EXCEPT ![w] = paid] BY <1>5, <1>8
    <2> QED BY <1>3, <1>6, <1>8, <2>1 DEF changed
  <1>9. CASE ~ (take = from \/ opened \subseteq {o})
    <2>1. req' = [req EXCEPT ![w] = more] BY <1>5, <1>9
    <2> QED BY <1>3, <1>7, <1>9, <2>1 DEF changed
  <1> QED BY <1>8, <1>9

LEMMA SpendOwnInv ==
  ASSUME Inv, NEW w \in Workers, SpendOwn(w)
  PROVE  Inv'
  <1> DEFINE take == IF req[w].row.from_cashback > 0
                       THEN OwnShare(req[w].own, req[w].row.from_cashback) ELSE 0
  <1>1. PICK q \in Request :
          /\ req' = [req EXCEPT ![w] = q] /\ q.row = req[w].row
          /\ q.change = [req[w].change EXCEPT ![req[w].row.org] = -take]
    BY SpendOwnMakes
  <1> HIDE DEF take
  <1>2. req' \in [Workers -> Request] /\ \A v \in Workers : InFlight(req'[v])
    BY <1>1, HandlerGoesOn DEF SpendOwn
  <1> QED BY <1>2 DEF SpendOwn, Inv, TypeOK, RowsSound, Exists

(* The two outcomes of a turn. *)
Turned(r, p, change) == [r EXCEPT !.held = @ \union {p}, !.change = change]
Ended(r) == [r EXCEPT !.pc = "accruing", !.left = 0, !.seen = Nothing, !.todo = {}]
Continued(r, p, take) == [r EXCEPT !.left = @ - take, !.todo = @ \ {p}]

LEMMA TurnedRequest ==
  ASSUME NEW r \in Request, NEW p \in Orgs, NEW change \in [Orgs -> Int],
         NEW q, q = Turned(r, p, change)
  PROVE  /\ q \in Request /\ q.row = r.row /\ q.deal = r.deal /\ q.kind = r.kind
         /\ q.change = change /\ q.held = r.held \union {p} /\ q.pc = r.pc /\ q.left = r.left
         /\ q.seen = r.seen /\ q.todo = r.todo
  BY DEF Request, Turned

LEMMA EndedRequest ==
  ASSUME NEW r \in Request, NEW q, q = Ended(r)
  PROVE  /\ q \in Request /\ q.row = r.row /\ q.deal = r.deal /\ q.kind = r.kind
         /\ q.change = r.change /\ q.held = r.held /\ q.pc = "accruing" /\ q.left = 0
  <1>1. \A z \in Int, s \in [Orgs -> Int] :
          LET p == [r EXCEPT !.pc = "accruing", !.left = z, !.seen = s, !.todo = {}] IN
          /\ p \in Request /\ p.row = r.row /\ p.deal = r.deal /\ p.kind = r.kind
          /\ p.change = r.change /\ p.held = r.held /\ p.pc = "accruing" /\ p.left = z
    BY DEF Request, Phases
  <1>2. 0 \in Int /\ Nothing \in [Orgs -> Int] BY DEF Nothing
  <1> QED BY <1>1, <1>2 DEF Ended

LEMMA ContinuedRequest ==
  ASSUME NEW r \in Request, NEW p, NEW take \in Int, NEW q, q = Continued(r, p, take)
  PROVE  /\ q \in Request /\ q.row = r.row /\ q.deal = r.deal /\ q.kind = r.kind
         /\ q.change = r.change /\ q.held = r.held /\ q.pc = r.pc /\ q.left = r.left - take
         /\ q.seen = r.seen /\ q.todo = r.todo \ {p}
  <1>1. r.left - take \in Int /\ r.todo \ {p} \in SUBSET Orgs BY DEF Request
  <1> QED BY <1>1 DEF Request, Continued

LEMMA TurnMakes ==
  ASSUME Inv, NEW w \in Workers, TakeFromPartner(w)
  PROVE  \E p \in Richest(req[w]), q \in Request :
           LET take == Least(req[w].seen[p], req[w].left) IN
           /\ req' = [req EXCEPT ![w] = q]
           /\ q.row = req[w].row /\ q.deal = req[w].deal /\ q.kind = req[w].kind
           /\ q.change = [req[w].change EXCEPT ![p] = -take]
           /\ q.held = req[w].held \union {p}
           /\ \/ /\ q.pc = "accruing" /\ q.left = 0
                 /\ take >= req[w].left \/ req[w].todo = {p}
              \/ /\ q.pc = "partners" /\ ~ (take >= req[w].left) /\ req[w].todo # {p}
                 /\ q.left = req[w].left - take
                 /\ q.seen = req[w].seen /\ q.todo = req[w].todo \ {p}
  <1> DEFINE r == req[w]
  <1>1. r \in Request /\ r.pc = "partners" BY RequestInFlight DEF TakeFromPartner
  <1>2. PICK p \in Richest(r) :
          LET take == Least(r.seen[p], r.left)
              paid == [r EXCEPT !.held = @ \union {p}, !.change[p] = -take]
          IN  req' = [req EXCEPT ![w] =
                IF take >= r.left \/ r.todo = {p}
                  THEN [paid EXCEPT !.pc = "accruing", !.left = 0,
                                    !.seen = Nothing, !.todo = {}]
                  ELSE [paid EXCEPT !.left = @ - take, !.todo = @ \ {p}]]
    BY DEF TakeFromPartner
  <1>3. p \in Orgs BY <1>1 DEF Richest, Request
  <1> DEFINE take == Least(r.seen[p], r.left)
             changed == [r.change EXCEPT ![p] = -take]
             paid == Turned(r, p, changed)
             done == Ended(paid)
             more == Continued(paid, p, take)
  <1>4. take \in Int BY <1>1, <1>3 DEF Least, Request
  <1>5. req' = [req EXCEPT ![w] = IF take >= r.left \/ r.todo = {p} THEN done ELSE more]
    BY <1>2 DEF Turned, Ended, Continued
  <1>6. changed \in [Orgs -> Int] BY <1>1, <1>3, <1>4 DEF Request
  <1> HIDE DEF take, changed
  <1>7. /\ paid \in Request /\ paid.row = r.row /\ paid.deal = r.deal /\ paid.kind = r.kind
        /\ paid.change = changed /\ paid.held = r.held \union {p} /\ paid.pc = "partners"
        /\ paid.left = r.left /\ paid.seen = r.seen /\ paid.todo = r.todo
    BY <1>1, <1>3, <1>6, TurnedRequest
  <1> HIDE DEF paid
  <1>8. /\ done \in Request /\ done.row = r.row /\ done.deal = r.deal /\ done.kind = r.kind
        /\ done.change = changed /\ done.held = r.held \union {p} /\ done.pc = "accruing"
        /\ done.left = 0
    BY <1>7, EndedRequest
  <1>9. /\ more \in Request /\ more.row = r.row /\ more.deal = r.deal /\ more.kind = r.kind
        /\ more.change = changed /\ more.held = r.held \union {p} /\ more.pc = "partners"
        /\ more.left = r.left - take /\ more.seen = r.seen /\ more.todo = r.todo \ {p}
    BY <1>4, <1>7, ContinuedRequest
  <1> HIDE DEF done, more
  <1>10. CASE take >= r.left \/ r.todo = {p}
    <2>1. req' = [req EXCEPT ![w] = done] BY <1>5, <1>10
    <2> QED BY <1>8, <1>10, <2>1 DEF changed, take
  <1>11. CASE ~ (take >= r.left \/ r.todo = {p})
    <2>1. req' = [req EXCEPT ![w] = more] BY <1>5, <1>11
    <2> QED BY <1>9, <1>11, <2>1 DEF changed, take
  <1> QED BY <1>10, <1>11

LEMMA TakeFromPartnerInv ==
  ASSUME Inv, NEW w \in Workers, TakeFromPartner(w)
  PROVE  Inv'
  <1>1. PICK q \in Request : req' = [req EXCEPT ![w] = q] /\ q.row = req[w].row
    BY TurnMakes
  <1>2. req' \in [Workers -> Request] /\ \A v \in Workers : InFlight(req'[v])
    BY <1>1, HandlerGoesOn DEF TakeFromPartner
  <1> QED BY <1>2 DEF TakeFromPartner, Inv, TypeOK, RowsSound, Exists

LEMMA CommitDealInv ==
  ASSUME Inv, NEW w \in Workers, CommitDeal(w)
  PROVE  Inv'
  <1> DEFINE r == req[w].row
             c == ToCashback(r)
             written == [r EXCEPT !.to_cashback = c]
             change == req[w].change
             accrued == IF r.card THEN Accrued(r) ELSE 0
  <1>1. /\ req[w] \in Request /\ r \in Row /\ Sound(r)
        /\ r.org \in Orgs /\ r.status # "absent"
    BY RequestInFlight DEF CommitDeal, InFlight, Request
  <1>2. Accrued(r) \in Nat BY <1>1, AccruedIsNat
  <1>3. c \in Nat BY <1>1, <1>2 DEF ToCashback, Row
  <1>4. /\ written \in Row /\ Sound(written)
        /\ written.org \in Orgs /\ written.status # "absent"
    <2> HIDE DEF c
    <2> QED BY <1>1, <1>3 DEF Row, Sound
  <1>5. wallet' \in [Orgs -> Int]
    <2>1. change \in [Orgs -> Int] BY <1>1 DEF Request
    <2>2. accrued \in Int BY <1>2
    <2> HIDE DEF change, accrued
    <2>3. \A p \in Orgs : wallet[p] + change[p] + (IF p = r.org THEN accrued ELSE 0) \in Int
      BY <2>1, <2>2 DEF Inv, TypeOK
    <2>4. wallet' = [p \in Orgs |-> wallet[p] + change[p]
                                      + (IF p = r.org THEN accrued ELSE 0)]
      BY DEF CommitDeal, change, accrued
    <2> QED BY <2>3, <2>4
  <1>6. row' = [row EXCEPT ![req[w].deal] = written] BY DEF CommitDeal
  <1>7. opened' \subseteq Orgs BY <1>1 DEF CommitDeal, Inv, TypeOK
  <1> HIDE DEF written
  <1> QED BY <1>4, <1>5, <1>6, <1>7, RowChanges, WorkerFinishes DEF CommitDeal, Inv, TypeOK

LEMMA CommitRefundInv ==
  ASSUME Inv, NEW w \in Workers, CommitRefund(w)
  PROVE  Inv'
  <1> DEFINE r == req[w].row
  <1>1. r \in Row /\ Sound(r) /\ r.org \in Orgs /\ r.status # "absent"
    BY RequestInFlight DEF CommitRefund, InFlight, Request
  <1>2. RefundChange(r) \in Int BY <1>1 DEF RefundChange, Row
  <1>3. wallet' \in [Orgs -> Int] BY <1>1, <1>2 DEF CommitRefund, Inv, TypeOK
  <1> QED BY <1>1, <1>3, RowChanges, WorkerFinishes DEF CommitRefund, Inv, TypeOK

LEMMA FailInv ==
  ASSUME Inv, NEW w \in Workers, Fail(w)
  PROVE  Inv'
  BY WorkerFinishes DEF Fail, Inv, TypeOK, RowsSound, Exists

-----------------------------------------------------------------------------
(* The theorems *)

THEOREM NextInv == Inv /\ [Next]_vars => Inv'
  <1> SUFFICES ASSUME Inv, [Next]_vars PROVE Inv' OBVIOUS
  <1>1. CASE UNCHANGED vars
    BY <1>1 DEF vars, Inv, TypeOK, RowsSound, Exists
  <1>2. CASE SellerStep
    <2>1. PICK w \in Workers, d \in Deals :
            \/ \E o \in Orgs : OpenDeal(w, d, o)
            \/ \E amount \in Amounts, card \in BOOLEAN :
                 \E from \in 0..amount :
                   \/ BeginDirect(w, d, amount, from, card)
                   \/ BeginCashier(w, d, amount, from, card)
            \/ BeginRefund(w, d)
      BY <1>2, Zenon DEF SellerStep
    <2> QED BY <2>1, OpenDealInv, BeginDirectInv, BeginCashierInv, BeginRefundInv, Zenon
  <1>3. CASE ClientStep
    BY <1>3, SubscribeInv, StartPaymentInv, BeginOfflineInv, BeginGatewayInv, BeginRefusedInv,
       Zenon DEF ClientStep
  <1>4. CASE HandlerStep
    BY <1>4, CheckBalanceInv, CommitCashierInv, CommitRefusedInv, WriteDealInv, SpendOwnInv,
       TakeFromPartnerInv, CommitDealInv, CommitRefundInv, FailInv, Zenon DEF HandlerStep
  <1> QED BY <1>1, <1>2, <1>3, <1>4 DEF Next

THEOREM SpecInv == Spec => []Inv
  BY InitInv, NextInv, PTL DEF Spec

(* The state keeps its shape: in particular what a completion writes in    *)
(* to_cashback is a natural number, although it is computed from a         *)
(* difference (transaction_services.py:589).                               *)
THEOREM TypeCorrect == Spec => []TypeOK
  <1>1. Inv => TypeOK BY DEF Inv
  <1> QED BY <1>1, SpecInv, PTL

(* Whatever the interleaving of the handlers that load a deal, compute on  *)
(* the copy and save it whole, no deal spends more cashback than it costs  *)
(* and no deal paid through a gateway is left unprocessed but by a refund. *)
THEOREM DealsSound == Spec => []RowsSound
  <1>1. Inv => RowsSound BY DEF Inv
  <1> QED BY <1>1, SpecInv, PTL

-----------------------------------------------------------------------------
(* One shop: a single organization o, deals completed on the spot, no      *)
(* refund.  The counter of purchase ids lets one completion at a time past *)
(* "writing", so the wallet it then reads can only grow until it commits.  *)

OneShop(o) == Orgs = {o} /\ Channels \subseteq {"direct"}

AtWallets(r) == r.pc \in {"written", "accruing"}

(* A request that balance, the wallet's, covers. *)
Covered(r, o, balance) ==
  /\ r.kind = "direct"
  /\ r.pc \in {"idle", "checking", "writing", "written", "accruing"}
  /\ r.pc = "written" => r.own <= balance
  /\ r.pc = "accruing" => balance + r.change[o] >= 0

ShopInv(o) ==
  /\ Inv
  /\ wallet[o] >= 0
  /\ started = {}
  /\ \A w \in Workers : Covered(req[w], o, wallet[o])
  /\ \A v, w \in Workers : AtWallets(req[v]) /\ AtWallets(req[w]) => v = w

LEMMA ShopTypes ==
  ASSUME NEW o, OneShop(o), Inv
  PROVE  /\ o \in Orgs /\ wallet[o] \in Int
         /\ \A w \in Workers : /\ req[w].own \in Int /\ req[w].change[o] \in Int
                               /\ req[w].row \in Row
                               /\ Covered(req[w], o, wallet[o]) /\ AtWallets(req[w]) => req[w].row.org = o
  <1>1. o \in Orgs BY DEF OneShop
  <1>2. wallet[o] \in Int BY <1>1 DEF Inv, TypeOK
  <1>3. ASSUME NEW w \in Workers
        PROVE  /\ req[w].own \in Int /\ req[w].change[o] \in Int /\ req[w].row \in Row
               /\ Covered(req[w], o, wallet[o]) /\ AtWallets(req[w]) => req[w].row.org = o
    <2>1. req[w] \in Request /\ InFlight(req[w]) BY RequestInFlight
    <2>2. req[w].own \in Int /\ req[w].change[o] \in Int /\ req[w].row \in Row
      BY <1>1, <2>1 DEF Request
    <2>3. AtWallets(req[w]) => req[w].row.org = o
      BY <2>1 DEF InFlight, AtWallets, OneShop
    <2> QED BY <2>2, <2>3
  <1> QED BY <1>1, <1>2, <1>3

(* A worker moves without taking anything from the wallet. *)
LEMMA ShopMoves ==
  ASSUME NEW o, OneShop(o), ShopInv(o), Inv', started' = started,
         wallet'[o] >= wallet[o], NEW w \in Workers, NEW q, req' = [req EXCEPT ![w] = q],
         Covered(q, o, wallet'[o]),
         AtWallets(q) => \A v \in Workers \ {w} : ~AtWallets(req[v])
  PROVE  ShopInv(o)'
  <1>1. wallet[o] \in Int /\ wallet'[o] \in Int
    <2>1. wallet[o] \in Int BY ShopTypes DEF ShopInv
    <2>2. wallet'[o] \in Int BY DEF Inv, TypeOK, OneShop
    <2> QED BY <2>1, <2>2
  <1>2. wallet'[o] >= 0 BY <1>1 DEF ShopInv
  <1>3. \A v \in Workers : req'[v] = IF v = w THEN q ELSE req[v]
    BY DEF ShopInv, Inv, TypeOK
  <1>4. ASSUME NEW v \in Workers PROVE Covered(req'[v], o, wallet'[o])
    <2>1. CASE v = w BY <1>3, <2>1
    <2>2. CASE v # w
      <3>1. Covered(req[v], o, wallet[o]) /\ req'[v] = req[v] BY <1>3, <2>2 DEF ShopInv
      <3>2. req[v].own \in Int /\ req[v].change[o] \in Int BY ShopTypes DEF ShopInv
      <3> QED BY <1>1, <3>1, <3>2 DEF Covered
    <2> QED BY <2>1, <2>2
  <1>5. ASSUME NEW u \in Workers, NEW v \in Workers, AtWallets(req'[u]), AtWallets(req'[v])
        PROVE  u = v
    BY <1>3, <1>5 DEF ShopInv
  <1> QED BY <1>2, <1>4, <1>5 DEF ShopInv

LEMMA CommitDealShop ==
  ASSUME NEW o, OneShop(o), ShopInv(o), Inv', NEW w \in Workers, CommitDeal(w)
  PROVE  ShopInv(o)'
  <1> DEFINE r == req[w]
             gain == IF r.row.card THEN Accrued(r.row) ELSE 0
  <1>1. /\ wallet[o] \in Int /\ r.change[o] \in Int /\ r.row \in Row /\ Sound(r.row)
        /\ o \in Orgs
    BY ShopTypes, RequestInFlight DEF ShopInv, InFlight
  <1>2. gain \in Nat BY <1>1, AccruedIsNat
  <1>3. wallet[o] + r.change[o] >= 0 BY DEF CommitDeal, ShopInv, Covered
  <1>4. wallet'[o] >= 0
    <2>1. wallet'[o] = wallet[o] + r.change[o] + (IF o = r.row.org THEN gain ELSE 0)
      BY <1>1 DEF CommitDeal
    <2> HIDE DEF gain
    <2> QED BY <1>1, <1>2, <1>3, <2>1
  <1>5. \A v \in Workers : v # w => ~AtWallets(req[v])
    BY DEF CommitDeal, ShopInv, AtWallets
  <1>6. \A v \in Workers : req'[v] = IF v = w THEN Idle ELSE req[v]
    BY DEF CommitDeal, Finish, ShopInv, Inv, TypeOK
  <1>7. \A v \in Workers : Covered(req'[v], o, wallet'[o]) /\ ~AtWallets(req'[v])
    BY <1>5, <1>6 DEF ShopInv, Covered, AtWallets, Idle
  <1>8. started' = {} BY DEF CommitDeal, ShopInv
  <1> QED BY <1>4, <1>7, <1>8 DEF ShopInv

LEMMA WriteDealShop ==
  ASSUME NEW o, OneShop(o), ShopInv(o), Inv', NEW w \in Workers, WriteDeal(w)
  PROVE  ShopInv(o)'
  <1> DEFINE n == wallet[req[w].row.org]
             q == [req[w] EXCEPT !.pc = "written", !.own = n]
  <1>1. req[w] \in Request /\ req[w].row.org = o /\ req[w].kind = "direct"
    BY RequestInFlight DEF WriteDeal, InFlight, OneShop, ShopInv, Covered
  <1>2. wallet[o] \in Int BY ShopTypes DEF ShopInv
  <1>3. q.pc = "written" /\ q.own = wallet[o] /\ q.kind = "direct" BY <1>1 DEF Request
  <1>4. \A v \in Workers \ {w} : ~AtWallets(req[v])
    <2>1. FreeCounter(w, o) BY <1>1 DEF WriteDeal
    <2>2. \A v \in Workers : Covered(req[v], o, wallet[o]) BY DEF ShopInv
    <2>3. \A v \in Workers : AtWallets(req[v]) => req[v].row.org = o
      BY <2>2, ShopTypes DEF ShopInv
    <2> QED BY <2>1, <2>2, <2>3 DEF FreeCounter, Written, Covered, AtWallets
  <1>5. req' = [req EXCEPT ![w] = q] /\ wallet' = wallet /\ started' = started
    BY DEF WriteDeal
  <1> HIDE DEF q
  <1>6. Covered(q, o, wallet'[o]) BY <1>2, <1>3, <1>5 DEF Covered
  <1>7. wallet'[o] >= wallet[o] BY <1>2, <1>5
  <1> QED BY <1>4, <1>5, <1>6, <1>7, ShopMoves

LEMMA SpendOwnShop ==
  ASSUME NEW o, OneShop(o), ShopInv(o), Inv', NEW w \in Workers, SpendOwn(w)
  PROVE  ShopInv(o)'
  <1> DEFINE r == req[w]
             from == r.row.from_cashback
             take == IF from > 0 THEN OwnShare(r.own, from) ELSE 0
             paid == [r EXCEPT !.pc = "accruing", !.own = 0, !.held = {o}, !.change[o] = -take]
  <1>1. /\ r \in Request /\ r.row.org = o /\ r.kind = "direct" /\ r.own <= wallet[o]
        /\ AtWallets(r)
    BY RequestInFlight DEF SpendOwn, InFlight, OneShop, ShopInv, Covered, AtWallets
  <1>2. wallet[o] \in Int /\ wallet[o] >= 0 /\ r.own \in Int /\ from \in Nat /\ o \in Orgs
    BY ShopTypes DEF ShopInv, Row
  <1>3. take \in Int /\ take <= wallet[o] BY <1>1, <1>2 DEF OwnShare, Least
  <1>4. opened \subseteq {o} BY DEF ShopInv, Inv, TypeOK, OneShop
  <1>5. req' = [req EXCEPT ![w] = paid] /\ wallet' = wallet /\ started' = started
    BY <1>1, <1>4 DEF SpendOwn
  <1> HIDE DEF take
  <1>6. paid.pc = "accruing" /\ paid.kind = "direct" /\ paid.change[o] = -take
    BY <1>1, <1>2 DEF Request
  <1> HIDE DEF paid
  <1>7. Covered(paid, o, wallet'[o]) BY <1>2, <1>3, <1>5, <1>6 DEF Covered
  <1>8. \A v \in Workers \ {w} : ~AtWallets(req[v]) BY <1>1 DEF ShopInv
  <1>9. wallet'[o] >= wallet[o] BY <1>2, <1>5
  <1> QED BY <1>5, <1>7, <1>8, <1>9, ShopMoves

LEMMA BeginDirectShop ==
  ASSUME NEW o, OneShop(o), ShopInv(o), Inv', NEW w \in Workers, NEW d \in Deals,
         NEW amount \in Amounts, NEW from \in 0..amount, NEW card \in BOOLEAN,
         BeginDirect(w, d, amount, from, card)
  PROVE  ShopInv(o)'
  <1> DEFINE r == [Priced(row[d], amount, from, card) EXCEPT
                     !.status = "accepted", !.payment_status = "accepted", !.is_processed = TRUE]
             q == [[Idle EXCEPT !.kind = "direct", !.deal = d, !.row = r] EXCEPT !.pc = "checking"]
  <1>1. req' = [req EXCEPT ![w] = q] /\ wallet' = wallet /\ started' = started
    BY DEF BeginDirect, Begin
  <1> HIDE DEF r
  <1>2. q.kind = "direct" /\ q.pc = "checking" BY DEF Idle
  <1> HIDE DEF q
  <1>3. Covered(q, o, wallet'[o]) /\ ~AtWallets(q) BY <1>2 DEF Covered, AtWallets
  <1>4. wallet'[o] >= wallet[o] BY <1>1, ShopTypes DEF ShopInv
  <1> QED BY <1>1, <1>3, <1>4, ShopMoves

LEMMA CheckBalanceShop ==
  ASSUME NEW o, OneShop(o), ShopInv(o), Inv', NEW w \in Workers, CheckBalance(w)
  PROVE  ShopInv(o)'
  <1> DEFINE q == [req[w] EXCEPT !.pc = "writing"]
  <1>1. req[w] \in Request /\ req[w].kind = "direct"
    BY RequestInFlight DEF ShopInv, Covered
  <1>2. req' = [req EXCEPT ![w] = q] /\ wallet' = wallet /\ started' = started
    BY <1>1 DEF CheckBalance
  <1>3. q.kind = "direct" /\ q.pc = "writing" BY <1>1 DEF Request
  <1> HIDE DEF q
  <1>4. Covered(q, o, wallet'[o]) /\ ~AtWallets(q) BY <1>3 DEF Covered, AtWallets
  <1>5. wallet'[o] >= wallet[o] BY <1>2, ShopTypes DEF ShopInv
  <1> QED BY <1>2, <1>4, <1>5, ShopMoves

LEMMA RestsShop ==
  ASSUME NEW o, OneShop(o), ShopInv(o), Inv', UNCHANGED req, started' = started,
         wallet'[o] >= wallet[o]
  PROVE  ShopInv(o)'
  <1>1. wallet[o] \in Int BY ShopTypes DEF ShopInv
  <1>2. wallet'[o] \in Int BY DEF Inv, TypeOK, OneShop
  <1>3. ASSUME NEW v \in Workers PROVE Covered(req[v], o, wallet'[o])
    <2>1. Covered(req[v], o, wallet[o]) BY DEF ShopInv
    <2>2. req[v].own \in Int /\ req[v].change[o] \in Int BY ShopTypes DEF ShopInv
    <2> QED BY <1>1, <1>2, <2>1, <2>2 DEF Covered
  <1>4. wallet'[o] >= 0 BY <1>1, <1>2 DEF ShopInv
  <1> QED BY <1>3, <1>4 DEF ShopInv

LEMMA FailShop ==
  ASSUME NEW o, OneShop(o), ShopInv(o), Inv', NEW w \in Workers, Fail(w)
  PROVE  ShopInv(o)'
  <1>1. Covered(Idle, o, wallet'[o]) /\ ~AtWallets(Idle) BY DEF Covered, AtWallets, Idle
  <1>2. wallet' = wallet /\ started' = started /\ req' = [req EXCEPT ![w] = Idle]
    BY DEF Fail, Finish
  <1>3. wallet'[o] >= wallet[o] BY <1>2, ShopTypes DEF ShopInv
  <1> QED BY <1>1, <1>2, <1>3, ShopMoves

LEMMA NextShop ==
  ASSUME NEW o, OneShop(o), ShopInv(o), [Next]_vars
  PROVE  ShopInv(o)'
  <1>1. Inv' BY NextInv DEF ShopInv
  <1>2. wallet[o] \in Int /\ o \in Orgs BY ShopTypes DEF ShopInv
  <1>3. CASE UNCHANGED vars
    <2>1. UNCHANGED <<wallet, started, req>> BY <1>3 DEF vars
    <2>2. wallet'[o] >= wallet[o] BY <1>2, <2>1
    <2> QED BY <1>1, <2>1, <2>2, RestsShop
  <1>4. CASE SellerStep
    <2>1. ASSUME NEW w \in Workers, NEW d \in Deals, NEW p \in Orgs, OpenDeal(w, d, p)
          PROVE  ShopInv(o)'
      <3>1. UNCHANGED <<wallet, started, req>> BY <2>1 DEF OpenDeal
      <3>2. wallet'[o] >= wallet[o] BY <1>2, <3>1
      <3> QED BY <1>1, <3>1, <3>2, RestsShop
    <2>2. \A w \in Workers, d \in Deals :
            /\ ~BeginRefund(w, d)
            /\ \A amount \in Amounts, card \in BOOLEAN : \A from \in 0..amount :
                 ~BeginCashier(w, d, amount, from, card)
      BY DEF BeginRefund, BeginCashier, OneShop
    <2>3. PICK w \in Workers, d \in Deals :
            \/ \E p \in Orgs : OpenDeal(w, d, p)
            \/ \E amount \in Amounts, card \in BOOLEAN :
                 \E from \in 0..amount : BeginDirect(w, d, amount, from, card)
      BY <1>4, <2>2, Zenon DEF SellerStep
    <2> QED BY <1>1, <2>1, <2>3, BeginDirectShop, Zenon
  <1>5. CASE ClientStep
    <2>1. ASSUME NEW w \in Workers, NEW p \in Orgs, Subscribe(w, p) PROVE ShopInv(o)'
      <3>1. wallet'[o] = wallet[o] + Promo
        BY <1>2, <2>1 DEF Subscribe, OneShop, ShopInv, Inv, TypeOK
      <3>2. wallet'[o] >= wallet[o] BY <1>2, <3>1, CashbackAssumption
      <3>3. UNCHANGED <<started, req>> BY <2>1 DEF Subscribe
      <3> QED BY <1>1, <3>2, <3>3, RestsShop
    <2>2. \A w \in Workers, d \in Deals :
            ~StartPayment(w, d) /\ ~BeginOffline(w, d) /\ ~BeginGateway(w, d) /\ ~BeginRefused(w, d)
      BY DEF StartPayment, BeginOffline, BeginGateway, BeginRefused, OneShop, ShopInv
    <2> QED BY <1>5, <2>1, <2>2, Zenon DEF ClientStep
  <1>6. CASE HandlerStep
    <2>1. \A w \in Workers : /\ ~CommitCashier(w) /\ ~CommitRefused(w)
                             /\ ~TakeFromPartner(w) /\ ~CommitRefund(w)
      BY DEF CommitCashier, CommitRefused, TakeFromPartner, CommitRefund, ShopInv, Covered
    <2> QED BY <1>1, <1>6, <2>1, CheckBalanceShop, WriteDealShop, SpendOwnShop, CommitDealShop,
               FailShop, Zenon DEF HandlerStep
  <1> QED BY <1>3, <1>4, <1>5, <1>6 DEF Next

(* In a single shop that completes its deals on the spot and does not      *)
(* refund, any number of concurrent completions leaves the wallet at least *)
(* at 0, though each reads it before it charges it                         *)
(* (transaction_services.py:459-519): they wait for one another at the     *)
(* organization's counter of purchase ids.                                 *)
THEOREM OneShopNotOverdrawn ==
  ASSUME NEW o, OneShop(o)
  PROVE  Spec => []WalletsNotNegative
  <1>1. Init => ShopInv(o)
    <2> SUFFICES ASSUME Init PROVE ShopInv(o) OBVIOUS
    <2>1. Inv BY InitInv
    <2>2. wallet[o] = 0 /\ started = {} BY DEF Init, Nothing, OneShop
    <2>3. \A w \in Workers : Covered(req[w], o, wallet[o]) /\ ~AtWallets(req[w])
      BY DEF Init, Idle, Covered, AtWallets
    <2> QED BY <2>1, <2>2, <2>3 DEF ShopInv
  <1>2. ShopInv(o) /\ [Next]_vars => ShopInv(o)' BY NextShop
  <1>3. ShopInv(o) => WalletsNotNegative BY DEF ShopInv, WalletsNotNegative, OneShop
  <1> QED BY <1>1, <1>2, <1>3, PTL DEF Spec

-----------------------------------------------------------------------------
(* One request at a time: what the only request knows of the deal and of    *)
(* the wallets is still so when it commits.                                 *)

OneAtATime == \A v, w \in Workers : v = w

(* In the loop: the wallets it has come to are emptied, the richest first.  *)
Halfway(r, wl, op) ==
  LET o == r.row.org IN
  /\ r.row.from_cashback > 0 /\ r.left > 0 /\ r.seen = wl
  /\ o \in r.held /\ r.held \ {o} \subseteq op /\ r.todo = op \ r.held
  /\ \A p \in r.held : r.change[p] = -wl[p]
  /\ \A p \in Orgs \ r.held : r.change[p] = 0
  /\ \A p \in r.held \ {o}, q \in r.todo : wl[p] >= wl[q]

(* What is taken from the wallets when the deal is committed.               *)
Taken(r, wl, op) ==
  LET o == r.row.org IN
  /\ \A p \in Orgs : r.change[p] >= 0 \/ wl[p] + r.change[p] >= 0
  /\ \A p \in Orgs \ (op \union {o}) : r.change[p] = 0
  /\ \A p \in Orgs \ {o} : r.change[p] < 0 =>
       /\ r.change[o] = -wl[o]
       /\ \A q \in Orgs \ {o} : wl[q] > wl[p] => r.change[q] = -wl[q]

Current(r, rw, wl, op) ==
  /\ r.pc \notin {"idle", "refused"} => r.deal \in Deals /\ rw[r.deal].org = r.row.org
  /\ r.pc \in {"idle", "refused", "checking", "saving", "writing", "written", "refunding"} =>
       r.change = Nothing /\ r.left = 0
  /\ r.pc = "refunding" =>
       rw[r.deal].status # "rejected" /\ r.row.status = "rejected" /\ ~r.row.is_processed
  /\ r.pc = "checking" => r.kind \in {"direct", "cashier"}
  /\ r.pc = "saving" \/ (r.pc = "checking" /\ r.kind = "cashier") => ~r.row.is_processed
  /\ r.pc = "written" => r.own = wl[r.row.org]
  /\ r.pc = "partners" => Halfway(r, wl, op)
  /\ r.pc = "accruing" => Taken(r, wl, op)

SerialInv ==
  /\ Inv
  /\ \A p \in Orgs \ opened : wallet[p] = 0
  /\ \A w \in Workers : Current(req[w], row, wallet, opened)

(* With deals completed on the spot, what is left to be taken is exactly    *)
(* what has not been taken, and all of it is there.                         *)
DirectOnly == Channels \subseteq {"direct", "refund"}

Total(wl) == SumOf(wl, Orgs)

Rest(r, wl) == [p \in Orgs |-> wl[p] + r.change[p]]

Kept(r, op) ==
  /\ r.is_processed <=> r.status = "accepted"
  /\ r.status \in {"absent", "in_progress"} => r.from_cashback = 0 /\ r.to_cashback = 0
  /\ r.is_processed => r.org \in op

Completing(r) == r.pc \in {"checking", "writing", "written", "partners", "accruing"}

Balanced(r, rw, wl) ==
  /\ r.pc \in {"idle", "refunding"} \/ Completing(r)
  /\ r.kind = "direct"
  /\ Completing(r) =>
       /\ ~rw[r.deal].is_processed
       /\ r.row.is_processed /\ r.row.status = "accepted" /\ r.row.to_cashback = 0
  /\ r.pc \in {"writing", "written", "partners", "accruing"} /\ r.row.from_cashback > 0 =>
       Total(wl) >= r.row.from_cashback
  /\ r.pc \in {"partners", "accruing"} =>
       Total(Rest(r, wl)) = (Total(wl) - r.row.from_cashback) + r.left
  /\ r.pc = "accruing" => r.left = 0
  /\ r.pc = "refunding" =>
       r.row.from_cashback = rw[r.deal].from_cashback /\ r.row.to_cashback = rw[r.deal].to_cashback

BooksInv ==
  /\ SerialInv
  /\ started = {}
  /\ \A d \in Deals : Kept(row[d], opened)
  /\ \A w \in Workers : Balanced(req[w], row, wallet)

-----------------------------------------------------------------------------
(* The wallets are emptied in order. *)

LEMMA OwnCharge ==
  ASSUME NEW r \in Request, NEW wl \in [Orgs -> Int], NEW op \in SUBSET Orgs,
         r.row.org \in Orgs, r.own = wl[r.row.org], r.change = Nothing,
         NEW take, take = (IF r.row.from_cashback > 0 THEN OwnShare(r.own, r.row.from_cashback) ELSE 0),
         NEW change, change = [r.change EXCEPT ![r.row.org] = -take],
         NEW q \in Request, q.row = r.row, q.change = change, q.held = {r.row.org}
  PROVE  /\ Taken(q, wl, op)
         /\ take # r.row.from_cashback /\ q.seen = wl /\ q.left = r.row.from_cashback - take
              /\ q.todo = op \ {r.row.org} => Halfway(q, wl, op)
  <1> DEFINE o == r.row.org
             from == r.row.from_cashback
  <1>1. from \in Nat /\ r.own \in Int /\ o \in Orgs BY DEF Request, Row
  <1>2. take \in Int /\ (take # 0 => take <= r.own) /\ (take = from \/ (from > 0 /\ take = wl[o] /\ take < from))
    BY <1>1 DEF OwnShare, Least
  <1>3. q.change[o] = -take /\ \A p \in Orgs \ {o} : q.change[p] = 0
    BY <1>1 DEF Nothing
  <1>4. Taken(q, wl, op)
    <2>1. \A p \in Orgs : q.change[p] >= 0 \/ wl[p] + q.change[p] >= 0
      <3>1. CASE take = 0 BY <3>1, <1>3
      <3>2. CASE take # 0 BY <3>2, <1>1, <1>2, <1>3
      <3> QED BY <3>1, <3>2
    <2>2. \A p \in Orgs \ {o} : ~ (q.change[p] < 0) BY <1>3
    <2> QED BY <2>1, <2>2, <1>3 DEF Taken
  <1>5. ASSUME take # from, q.seen = wl, q.left = from - take, q.todo = op \ {o}
        PROVE  Halfway(q, wl, op)
    <2>1. from > 0 /\ from - take > 0 /\ take = wl[o] BY <1>1, <1>2, <1>5
    <2> QED BY <1>1, <1>3, <1>5, <2>1 DEF Halfway
  <1> QED BY <1>4, <1>5

(* A turn of the loop: the last one, and any other. *)
LEMMA Turn ==
  ASSUME NEW r \in Request, NEW wl \in [Orgs -> Int], NEW op \in SUBSET Orgs,
         r.row.org \in Orgs, Halfway(r, wl, op), \A x \in Orgs \ op : wl[x] = 0,
         NEW p \in Richest(r), NEW take, take = Least(r.seen[p], r.left),
         NEW q \in Request, q.row = r.row, q.change = [r.change EXCEPT ![p] = -take],
         q.held = r.held \union {p}
  PROVE  /\ Taken(q, wl, op)
         /\ q.seen = r.seen /\ q.left = r.left - take /\ q.todo = r.todo \ {p} /\ take < r.left
              => Halfway(q, wl, op)
  <1> DEFINE o == r.row.org
  <1>1. /\ p \in Orgs /\ p \in op /\ p \notin r.held /\ p # o /\ o \in Orgs
        /\ r.left \in Int /\ r.change \in [Orgs -> Int] /\ r.held \in SUBSET Orgs
        /\ \A x \in r.todo : wl[p] >= wl[x]
    BY DEF Richest, Halfway, Request
  <1>2. /\ take \in Int /\ wl[p] \in Int /\ take <= wl[p] /\ (take < r.left => take = wl[p])
    BY <1>1 DEF Least, Halfway
  <1>3. q.change[p] = -take /\ \A x \in Orgs \ {p} : q.change[x] = r.change[x] BY <1>1
  <1>4. /\ \A x \in r.held : q.change[x] = -wl[x]
        /\ \A x \in Orgs \ (r.held \union {p}) : q.change[x] = 0
    BY <1>1, <1>3 DEF Halfway
  <1>5. Taken(q, wl, op)
    <2>1. ASSUME NEW x \in Orgs PROVE q.change[x] >= 0 \/ wl[x] + q.change[x] >= 0
      <3>1. CASE x = p BY <3>1, <1>2, <1>3
      <3>2. CASE x \in r.held
        <4>1. wl[x] \in Int /\ q.change[x] = -wl[x] BY <1>4, <3>2
        <4> QED BY <4>1
      <3>3. CASE x \notin r.held /\ x # p BY <3>3, <1>4
      <3> QED BY <3>1, <3>2, <3>3
    <2>2. \A x \in Orgs \ (op \union {o}) : q.change[x] = 0
      BY <1>1, <1>4 DEF Halfway
    <2>3. ASSUME NEW x \in Orgs \ {o}, q.change[x] < 0, NEW y \in Orgs \ {o}, wl[y] > wl[x]
          PROVE  q.change[y] = -wl[y]
      <3>0. wl[x] \in Int /\ wl[y] \in Int OBVIOUS
      <3>1. x \in r.held \/ x = p BY <2>3, <1>4
      <3>2. CASE y \in r.held BY <3>2, <1>4
      <3>3. CASE y \in r.todo
        <4>1. wl[x] >= wl[y] BY <3>1, <3>3, <1>1 DEF Halfway
        <4> QED BY <3>0, <4>1, <2>3
      <3>4. CASE y \notin r.held /\ y \notin r.todo
        <4>1. y \notin op BY <3>4 DEF Halfway
        <4>2. wl[y] = 0 /\ q.change[y] = 0 BY <4>1, <3>4, <1>1, <1>4
        <4> QED BY <4>2
      <3> QED BY <3>2, <3>3, <3>4
    <2>4. q.change[o] = -wl[o] BY <1>1, <1>4 DEF Halfway
    <2> QED BY <2>1, <2>2, <2>3, <2>4 DEF Taken
  <1>6. ASSUME q.seen = r.seen, q.left = r.left - take, q.todo = r.todo \ {p}, take < r.left
        PROVE  Halfway(q, wl, op)
    <2>1. q.left > 0 /\ q.row.from_cashback > 0 /\ q.seen = wl BY <1>1, <1>2, <1>6 DEF Halfway
    <2>2. o \in q.held /\ q.held \ {o} \subseteq op /\ q.todo = op \ q.held
      BY <1>1, <1>6 DEF Halfway
    <2>3. \A x \in q.held : q.change[x] = -wl[x] BY <1>2, <1>3, <1>4, <1>6
    <2>4. \A x \in Orgs \ q.held : q.change[x] = 0 BY <1>4
    <2>5. \A x \in q.held \ {o}, y \in q.todo : wl[x] >= wl[y] BY <1>1, <1>6 DEF Halfway
    <2> QED BY <2>1, <2>2, <2>3, <2>4, <2>5 DEF Halfway
  <1> QED BY <1>5, <1>6

(* An idle request knows nothing. *)
LEMMA IdleKnows ==
  ASSUME NEW rw, NEW wl, NEW op
  PROVE  Current(Idle, rw, wl, op)
  BY DEF Idle, Current

(* The only request moves on; or commits. *)
LEMMA RequestMovesOn ==
  ASSUME OneAtATime, SerialInv, Inv', NEW w \in Workers, NEW q,
         req' = [req EXCEPT ![w] = q], row' = row, wallet' = wallet, opened' = opened,
         Current(q, row, wallet, opened)
  PROVE  SerialInv'
  <1>1. \A v \in Workers : req'[v] = q BY DEF SerialInv, Inv, TypeOK, OneAtATime
  <1> QED BY <1>1 DEF SerialInv

LEMMA AllIdle ==
  ASSUME OneAtATime, SerialInv, Inv', NEW w \in Workers, Finish(w) \/ (req[w] = Idle /\ req' = req),
         \A p \in Orgs \ opened' : wallet'[p] = 0
  PROVE  SerialInv'
  <1>1. \A v \in Workers : req'[v] = Idle BY DEF SerialInv, Inv, TypeOK, OneAtATime, Finish
  <1> QED BY <1>1, IdleKnows DEF SerialInv

-----------------------------------------------------------------------------
(* What a step may do to the wallets. *)

NoOverdraft ==
  \A o \in Orgs : wallet'[o] < 0 /\ wallet'[o] < wallet[o] => \E d \in Deals : Refunded(d)

PaidInOrder ==
  \A d \in Deals : Processed(d) =>
    \A p \in Orgs \ {row[d].org} : wallet'[p] < wallet[p] =>
      /\ wallet'[row[d].org] = Gain(row'[d])
      /\ \A q \in Orgs \ {row[d].org} : wallet[q] > wallet[p] => wallet'[q] = 0

LEMMA WalletsRest ==
  ASSUME Inv, wallet' = wallet
  PROVE  NoOverdraft /\ PaidInOrder
  <1>1. \A o \in Orgs : ~ (wallet'[o] < wallet[o]) BY DEF Inv, TypeOK
  <1> QED BY <1>1 DEF NoOverdraft, PaidInOrder

(* A handler begins. *)
LEMMA BeginCurrent ==
  ASSUME NEW pc \in {"checking", "writing", "refunding"}, NEW kind, NEW d \in Deals,
         NEW r \in Row, NEW rw, rw[d].org = r.org, NEW wl, NEW op,
         pc = "checking" => kind \in {"direct", "cashier"},
         pc = "checking" /\ kind = "cashier" => ~r.is_processed,
         pc = "refunding" => rw[d].status # "rejected" /\ r.status = "rejected" /\ ~r.is_processed
  PROVE  Current([[Idle EXCEPT !.kind = kind, !.deal = d, !.row = r] EXCEPT !.pc = pc], rw, wl, op)
  BY DEF Current, Idle

LEMMA OpenDealSerial ==
  ASSUME OneAtATime, SerialInv, Inv', NEW w \in Workers, NEW d \in Deals, NEW o \in Orgs,
         OpenDeal(w, d, o)
  PROVE  SerialInv' /\ NoOverdraft /\ PaidInOrder
  <1>1. NoOverdraft /\ PaidInOrder BY WalletsRest DEF OpenDeal, SerialInv
  <1>2. \A p \in Orgs \ opened' : wallet'[p] = 0 BY DEF OpenDeal, SerialInv
  <1>3. req[w] = Idle /\ req' = req BY DEF OpenDeal
  <1> QED BY <1>1, <1>2, <1>3, AllIdle

LEMMA SubscribeSerial ==
  ASSUME OneAtATime, SerialInv, Inv', NEW w \in Workers, NEW o \in Orgs, Subscribe(w, o)
  PROVE  SerialInv' /\ NoOverdraft /\ PaidInOrder
  <1>1. \A p \in Orgs : wallet[p] \in Int /\ wallet'[p] = (IF p = o THEN wallet[p] + Promo ELSE wallet[p])
    BY DEF Subscribe, SerialInv, Inv, TypeOK
  <1>2. \A p \in Orgs : ~ (wallet'[p] < wallet[p]) BY <1>1, CashbackAssumption
  <1>3. \A p \in Orgs \ opened' : wallet'[p] = 0 BY <1>1 DEF Subscribe, SerialInv
  <1>4. req[w] = Idle /\ req' = req BY DEF Subscribe
  <1>5. SerialInv' BY <1>3, <1>4, AllIdle
  <1> QED BY <1>2, <1>5 DEF NoOverdraft, PaidInOrder

LEMMA BeginDirectSerial ==
  ASSUME OneAtATime, SerialInv, Inv', NEW w \in Workers, NEW d \in Deals, NEW amount \in Amounts,
         NEW from \in 0..amount, NEW card \in BOOLEAN, BeginDirect(w, d, amount, from, card)
  PROVE  SerialInv' /\ NoOverdraft /\ PaidInOrder
  <1> DEFINE p == Priced(row[d], amount, from, card)
             r == [p EXCEPT !.status = "accepted", !.payment_status = "accepted",
                            !.is_processed = TRUE]
             q == [[Idle EXCEPT !.kind = "direct", !.deal = d, !.row = r] EXCEPT !.pc = "checking"]
  <1>1. row[d] \in Row BY DEF SerialInv, Inv, TypeOK
  <1>2. p \in Row /\ p.org = row[d].org BY <1>1, PricedRow DEF Priced, Row
  <1>3. r \in Row /\ r.org = row[d].org
    <2> HIDE DEF p
    <2> QED BY <1>2 DEF Row
  <1>4. req' = [req EXCEPT ![w] = q] BY DEF BeginDirect, Begin
  <1> HIDE DEF r
  <1>5. Current(q, row, wallet, opened) BY <1>3, BeginCurrent
  <1> HIDE DEF q
  <1>6. row' = row /\ wallet' = wallet /\ opened' = opened BY DEF BeginDirect
  <1>7. SerialInv' BY <1>4, <1>5, <1>6, RequestMovesOn
  <1> QED BY <1>6, <1>7, WalletsRest DEF SerialInv

LEMMA BeginCashierSerial ==
  ASSUME OneAtATime, SerialInv, Inv', NEW w \in Workers, NEW d \in Deals, NEW amount \in Amounts,
         NEW from \in 0..amount, NEW card \in BOOLEAN, BeginCashier(w, d, amount, from, card)
  PROVE  SerialInv' /\ NoOverdraft /\ PaidInOrder
  <1> DEFINE p == Priced(row[d], amount, from, card)
             r == [p EXCEPT !.status = "accepted"]
             q == [[Idle EXCEPT !.kind = "cashier", !.deal = d, !.row = r] EXCEPT !.pc = "checking"]
  <1>1. row[d] \in Row /\ ~row[d].is_processed BY DEF SerialInv, Inv, TypeOK, BeginCashier
  <1>2. p \in Row /\ p.org = row[d].org /\ ~p.is_processed BY <1>1, PricedRow DEF Priced, Row
  <1>3. r \in Row /\ r.org = row[d].org /\ ~r.is_processed
    <2> HIDE DEF p
    <2> QED BY <1>2 DEF Row
  <1>4. req' = [req EXCEPT ![w] = q] BY DEF BeginCashier, Begin
  <1> HIDE DEF r
  <1>5. Current(q, row, wallet, opened) BY <1>3, BeginCurrent
  <1> HIDE DEF q
  <1>6. row' = row /\ wallet' = wallet /\ opened' = opened BY DEF BeginCashier
  <1>7. SerialInv' BY <1>4, <1>5, <1>6, RequestMovesOn
  <1> QED BY <1>6, <1>7, WalletsRest DEF SerialInv

LEMMA BeginOfflineSerial ==
  ASSUME OneAtATime, SerialInv, Inv', NEW w \in Workers, NEW d \in Deals, BeginOffline(w, d)
  PROVE  SerialInv' /\ NoOverdraft /\ PaidInOrder
  <1> DEFINE r == [row[d] EXCEPT !.is_processed = TRUE]
             q == [[Idle EXCEPT !.kind = "offline", !.deal = d, !.row = r] EXCEPT !.pc = "writing"]
  <1>1. row[d] \in Row BY DEF SerialInv, Inv, TypeOK
  <1>3. r \in Row /\ r.org = row[d].org BY <1>1 DEF Row
  <1>4. req' = [req EXCEPT ![w] = q] BY DEF BeginOffline, Begin
  <1> HIDE DEF r
  <1>5. Current(q, row, wallet, opened) BY <1>3, BeginCurrent
  <1> HIDE DEF q
  <1>6. row' = row /\ wallet' = wallet /\ opened' = opened BY DEF BeginOffline
  <1>7. SerialInv' BY <1>4, <1>5, <1>6, RequestMovesOn
  <1> QED BY <1>6, <1>7, WalletsRest DEF SerialInv

LEMMA BeginGatewaySerial ==
  ASSUME OneAtATime, SerialInv, Inv', NEW w \in Workers, NEW d \in Deals, BeginGateway(w, d)
  PROVE  SerialInv' /\ NoOverdraft /\ PaidInOrder
  <1> DEFINE r == [row[d] EXCEPT !.is_processed = TRUE, !.type = "online",
                                 !.payment_status = "accepted"]
             q == [[Idle EXCEPT !.kind = "gateway", !.deal = d, !.row = r] EXCEPT !.pc = "writing"]
  <1>1. row[d] \in Row BY DEF SerialInv, Inv, TypeOK
  <1>3. r \in Row /\ r.org = row[d].org BY <1>1 DEF Row
  <1>4. req' = [req EXCEPT ![w] = q] BY DEF BeginGateway, Begin
  <1> HIDE DEF r
  <1>5. Current(q, row, wallet, opened) BY <1>3, BeginCurrent
  <1> HIDE DEF q
  <1>6. row' = row /\ wallet' = wallet /\ opened' = opened BY DEF BeginGateway
  <1>7. SerialInv' BY <1>4, <1>5, <1>6, RequestMovesOn
  <1> QED BY <1>6, <1>7, WalletsRest DEF SerialInv

LEMMA BeginRefusedSerial ==
  ASSUME OneAtATime, SerialInv, Inv', NEW w \in Workers, NEW d \in Deals, BeginRefused(w, d)
  PROVE  SerialInv' /\ NoOverdraft /\ PaidInOrder
  <1> DEFINE q == [[Idle EXCEPT !.deal = d] EXCEPT !.pc = "refused"]
  <1>1. req' = [req EXCEPT ![w] = q] BY DEF BeginRefused, Begin
  <1>2. Current(q, row, wallet, opened) BY DEF Current, Idle
  <1> HIDE DEF q
  <1>3. row' = row /\ wallet' = wallet /\ opened' = opened BY DEF BeginRefused
  <1>4. SerialInv' BY <1>1, <1>2, <1>3, RequestMovesOn
  <1> QED BY <1>3, <1>4, WalletsRest DEF SerialInv

LEMMA BeginRefundSerial ==
  ASSUME OneAtATime, SerialInv, Inv', NEW w \in Workers, NEW d \in Deals, BeginRefund(w, d)
  PROVE  SerialInv' /\ NoOverdraft /\ PaidInOrder
  <1> DEFINE r == [row[d] EXCEPT !.status = "rejected", !.is_processed = FALSE]
             q == [[Idle EXCEPT !.deal = d, !.row = r] EXCEPT !.pc = "refunding"]
  <1>1. row[d] \in Row /\ row[d].status # "rejected" BY DEF SerialInv, Inv, TypeOK, BeginRefund
  <1>2. r \in Row /\ r.org = row[d].org /\ r.status = "rejected" /\ ~r.is_processed BY <1>1 DEF Row
  <1>3. req' = [req EXCEPT ![w] = q] BY DEF BeginRefund, Begin
  <1> HIDE DEF r
  <1>4. Current(q, row, wallet, opened) BY <1>1, <1>2 DEF Current, Idle
  <1> HIDE DEF q
  <1>5. row' = row /\ wallet' = wallet /\ opened' = opened BY DEF BeginRefund
  <1>6. SerialInv' BY <1>3, <1>4, <1>5, RequestMovesOn
  <1> QED BY <1>5, <1>6, WalletsRest DEF SerialInv

LEMMA StartPaymentSerial ==
  ASSUME OneAtATime, SerialInv, Inv', NEW w \in Workers, NEW d \in Deals, StartPayment(w, d)
  PROVE  SerialInv' /\ NoOverdraft /\ PaidInOrder
  <1>1. NoOverdraft /\ PaidInOrder BY WalletsRest DEF StartPayment, SerialInv
  <1>2. \A p \in Orgs \ opened' : wallet'[p] = 0 BY DEF StartPayment, SerialInv
  <1>3. req[w] = Idle /\ req' = req BY DEF StartPayment
  <1> QED BY <1>1, <1>2, <1>3, AllIdle

LEMMA FailSerial ==
  ASSUME OneAtATime, SerialInv, Inv', NEW w \in Workers, Fail(w)
  PROVE  SerialInv' /\ NoOverdraft /\ PaidInOrder
  <1>1. NoOverdraft /\ PaidInOrder BY WalletsRest DEF Fail, SerialInv
  <1>2. \A p \in Orgs \ opened' : wallet'[p] = 0 BY DEF Fail, SerialInv
  <1> QED BY <1>1, <1>2, AllIdle DEF Fail

LEMMA CheckBalanceSerial ==
  ASSUME OneAtATime, SerialInv, Inv', NEW w \in Workers, CheckBalance(w)
  PROVE  SerialInv' /\ NoOverdraft /\ PaidInOrder
  <1> DEFINE pc == IF req[w].kind = "direct" THEN "writing" ELSE "saving"
             r == req[w]
             q == [r EXCEPT !.pc = pc]
  <1>1. r \in Request /\ Current(r, row, wallet, opened) /\ r.pc = "checking"
    BY RequestInFlight DEF SerialInv, CheckBalance
  <1>2. pc \in {"writing", "saving"} OBVIOUS
  <1>3. req' = [req EXCEPT ![w] = q] BY DEF CheckBalance
  <1>4. pc = "saving" => ~r.row.is_processed
    <2>1. pc = "saving" => r.kind # "direct" OBVIOUS
    <2>2. r.kind = "cashier" => ~r.row.is_processed BY <1>1 DEF Current
    <2>3. r.kind \in {"direct", "cashier"} BY <1>1 DEF Current
    <2> QED BY <1>1, <2>1, <2>2, <2>3
  <1> HIDE DEF pc
  <1>5. Current(q, row, wallet, opened) BY <1>1, <1>2, <1>4 DEF Current, Request
  <1> HIDE DEF q
  <1>6. row' = row /\ wallet' = wallet /\ opened' = opened BY DEF CheckBalance
  <1>7. SerialInv' BY <1>3, <1>5, <1>6, RequestMovesOn
  <1> QED BY <1>6, <1>7, WalletsRest DEF SerialInv

LEMMA CommitCashierSerial ==
  ASSUME OneAtATime, SerialInv, Inv', NEW w \in Workers, CommitCashier(w)
  PROVE  SerialInv' /\ NoOverdraft /\ PaidInOrder
  <1>1. NoOverdraft /\ PaidInOrder BY WalletsRest DEF CommitCashier, SerialInv
  <1>2. \A p \in Orgs \ opened' : wallet'[p] = 0 BY DEF CommitCashier, SerialInv
  <1> QED BY <1>1, <1>2, AllIdle DEF CommitCashier

LEMMA CommitRefusedSerial ==
  ASSUME OneAtATime, SerialInv, Inv', NEW w \in Workers, CommitRefused(w)
  PROVE  SerialInv' /\ NoOverdraft /\ PaidInOrder
  <1>1. NoOverdraft /\ PaidInOrder BY WalletsRest DEF CommitRefused, SerialInv
  <1>2. \A p \in Orgs \ opened' : wallet'[p] = 0 BY DEF CommitRefused, SerialInv
  <1> QED BY <1>1, <1>2, AllIdle DEF CommitRefused

LEMMA WriteDealSerial ==
  ASSUME OneAtATime, SerialInv, Inv', NEW w \in Workers, WriteDeal(w)
  PROVE  SerialInv' /\ NoOverdraft /\ PaidInOrder
  <1> DEFINE r == req[w]
             n == wallet[r.row.org]
             q == [r EXCEPT !.pc = "written", !.own = n]
  <1>1. r \in Request /\ Current(r, row, wallet, opened) /\ r.pc = "writing"
    BY RequestInFlight DEF SerialInv, WriteDeal
  <1>2. req' = [req EXCEPT ![w] = q] BY DEF WriteDeal
  <1>3. Current(q, row, wallet, opened) BY <1>1 DEF Current, Request
  <1> HIDE DEF q
  <1>4. row' = row /\ wallet' = wallet /\ opened' = opened BY DEF WriteDeal
  <1>5. SerialInv' BY <1>2, <1>3, <1>4, RequestMovesOn
  <1> QED BY <1>4, <1>5, WalletsRest DEF SerialInv

LEMMA SpendOwnSerial ==
  ASSUME OneAtATime, SerialInv, Inv', NEW w \in Workers, SpendOwn(w)
  PROVE  SerialInv' /\ NoOverdraft /\ PaidInOrder
  <1> DEFINE r == req[w]
             o == r.row.org
             from == r.row.from_cashback
             take == IF from > 0 THEN OwnShare(r.own, from) ELSE 0
  <1>1. /\ r \in Request /\ o \in Orgs /\ r.pc = "written" /\ Current(r, row, wallet, opened)
        /\ wallet \in [Orgs -> Int] /\ opened \in SUBSET Orgs
    BY RequestInFlight DEF SpendOwn, InFlight, SerialInv, Inv, TypeOK
  <1>2. PICK q \in Request :
              /\ req' = [req EXCEPT ![w] = q]
              /\ q.row = r.row /\ q.deal = r.deal
              /\ q.change = [r.change EXCEPT ![o] = -take]
              /\ q.held = {o}
              /\ \/ q.pc = "accruing"
                 \/ /\ q.pc = "partners" /\ take # from /\ q.left = from - take
                    /\ q.seen = wallet /\ q.todo = opened \ {o}
    BY SpendOwnMakes DEF SerialInv
  <1>3. r.own = wallet[o] /\ r.change = Nothing BY <1>1 DEF Current
  <1>4. Taken(q, wallet, opened) /\ (q.pc = "partners" => Halfway(q, wallet, opened))
    <2> DEFINE change == q.change
    <2>1. /\ take # from /\ q.seen = wallet /\ q.left = from - take
               /\ q.todo = opened \ {o} => Halfway(q, wallet, opened)
      BY <1>1, <1>2, <1>3, OwnCharge
    <2>2. Taken(q, wallet, opened) BY <1>1, <1>2, <1>3, OwnCharge
    <2> QED BY <1>2, <2>1, <2>2
  <1> HIDE DEF take
  <1>5. Current(q, row, wallet, opened) BY <1>1, <1>2, <1>4 DEF Current
  <1>6. row' = row /\ wallet' = wallet /\ opened' = opened BY DEF SpendOwn
  <1>7. SerialInv' BY <1>2, <1>5, <1>6, RequestMovesOn
  <1> QED BY <1>6, <1>7, WalletsRest DEF SerialInv

LEMMA TakeFromPartnerSerial ==
  ASSUME OneAtATime, SerialInv, Inv', NEW w \in Workers, TakeFromPartner(w)
  PROVE  SerialInv' /\ NoOverdraft /\ PaidInOrder
  <1> DEFINE r == req[w]
  <1>1. /\ r \in Request /\ r.row.org \in Orgs /\ r.pc = "partners"
        /\ Current(r, row, wallet, opened)
        /\ wallet \in [Orgs -> Int] /\ opened \in SUBSET Orgs
        /\ \A x \in Orgs \ opened : wallet[x] = 0
    BY RequestInFlight DEF TakeFromPartner, InFlight, SerialInv, Inv, TypeOK
  <1>2. PICK p \in Richest(r), q \in Request :
           LET take == Least(r.seen[p], r.left) IN
           /\ req' = [req EXCEPT ![w] = q]
           /\ q.row = r.row /\ q.deal = r.deal
           /\ q.change = [r.change EXCEPT ![p] = -take]
           /\ q.held = r.held \union {p}
           /\ \/ q.pc = "accruing"
              \/ /\ q.pc = "partners" /\ ~ (take >= r.left) /\ q.left = r.left - take
                 /\ q.seen = r.seen /\ q.todo = r.todo \ {p}
    BY TurnMakes DEF SerialInv
  <1> DEFINE take == Least(r.seen[p], r.left)
  <1>3. Halfway(r, wallet, opened) BY <1>1 DEF Current
  <1>4. take \in Int /\ r.left \in Int
    BY <1>1 DEF Least, Request, Richest
  <1>5. Taken(q, wallet, opened) BY <1>1, <1>2, <1>3, Turn
  <1>6. q.seen = r.seen /\ q.left = r.left - take /\ q.todo = r.todo \ {p} /\ take < r.left
              => Halfway(q, wallet, opened)
    BY <1>1, <1>2, <1>3, Turn
  <1> HIDE DEF take
  <1>7. q.pc = "partners" => Halfway(q, wallet, opened) BY <1>2, <1>4, <1>6 DEF take
  <1>8. Current(q, row, wallet, opened) BY <1>1, <1>2, <1>5, <1>7 DEF Current
  <1>9. row' = row /\ wallet' = wallet /\ opened' = opened BY DEF TakeFromPartner
  <1>10. SerialInv' BY <1>2, <1>8, <1>9, RequestMovesOn
  <1> QED BY <1>9, <1>10, WalletsRest DEF SerialInv

LEMMA CommitDealSerial ==
  ASSUME OneAtATime, SerialInv, Inv', NEW w \in Workers, CommitDeal(w)
  PROVE  SerialInv' /\ NoOverdraft /\ PaidInOrder
  <1> DEFINE r == req[w]
             o == r.row.org
             gain == Gain(r.row)
  <1>1. /\ r \in Request /\ o \in Orgs /\ r.pc = "accruing" /\ r.row \in Row /\ Sound(r.row)
        /\ Current(r, row, wallet, opened)
        /\ wallet \in [Orgs -> Int] /\ opened \in SUBSET Orgs
        /\ \A x \in Orgs \ opened : wallet[x] = 0
    BY RequestInFlight DEF CommitDeal, InFlight, SerialInv, Inv, TypeOK, Request
  <1>2. gain \in Nat BY <1>1, AccruedIsNat DEF Gain
  <1>3. Taken(r, wallet, opened) /\ r.deal \in Deals /\ row[r.deal].org = o
    BY <1>1 DEF Current
  <1>4. \A p \in Orgs : /\ wallet[p] \in Int /\ r.change[p] \in Int
                        /\ wallet'[p] = wallet[p] + r.change[p] + (IF p = o THEN gain ELSE 0)
    BY <1>1 DEF CommitDeal, Gain, Request
  <1> HIDE DEF gain
  <1>5. SerialInv'
    <2>1. opened' = opened \union {o} /\ Finish(w) BY DEF CommitDeal
    <2>2. \A p \in Orgs \ opened' : wallet'[p] = 0
      <3> SUFFICES ASSUME NEW p \in Orgs \ opened' PROVE wallet'[p] = 0 OBVIOUS
      <3>1. p # o /\ wallet[p] = 0 /\ r.change[p] = 0 BY <1>1, <1>3, <2>1 DEF Taken
      <3> QED BY <1>4, <3>1
    <2> QED BY <2>1, <2>2, AllIdle
  <1>6. NoOverdraft
    <2> SUFFICES ASSUME NEW p \in Orgs, wallet'[p] < 0, wallet'[p] < wallet[p] PROVE FALSE
      BY DEF NoOverdraft
    <2>1. r.change[p] >= 0 \/ wallet[p] + r.change[p] >= 0 BY <1>3 DEF Taken
    <2> QED BY <1>2, <1>4, <2>1
  <1>7. PaidInOrder
    <2> SUFFICES ASSUME NEW d \in Deals, Processed(d), NEW p \in Orgs \ {row[d].org},
                        wallet'[p] < wallet[p]
                 PROVE  /\ wallet'[row[d].org] = Gain(row'[d])
                        /\ \A q \in Orgs \ {row[d].org} : wallet[q] > wallet[p] => wallet'[q] = 0
      BY DEF PaidInOrder
    <2>1. row' = [row EXCEPT ![r.deal] = [r.row EXCEPT !.to_cashback = ToCashback(r.row)]]
      BY DEF CommitDeal
    <2>2. d = r.deal BY <2>1, <1>3 DEF Processed, SerialInv, Inv, TypeOK
    <2>3. row'[d] = [r.row EXCEPT !.to_cashback = ToCashback(r.row)]
      BY <2>1, <2>2 DEF SerialInv, Inv, TypeOK
    <2>4. Gain(row'[d]) = gain BY <1>1, <2>3 DEF Gain, gain, Accrued, Row
    <2>5. row[d].org = o /\ p # o BY <1>3, <2>2
    <2>6. r.change[p] < 0 BY <1>4, <2>5
    <2>7. r.change[o] = -wallet[o] /\ \A q \in Orgs \ {o} : wallet[q] > wallet[p] => r.change[q] = -wallet[q]
      BY <1>3, <2>5, <2>6 DEF Taken
    <2>8. wallet'[o] = gain BY <1>1, <1>2, <1>4, <2>7
    <2>9. ASSUME NEW q \in Orgs \ {o}, wallet[q] > wallet[p] PROVE wallet'[q] = 0
      BY <1>4, <2>7, <2>9
    <2> QED BY <2>4, <2>5, <2>8, <2>9
  <1> QED BY <1>5, <1>6, <1>7

LEMMA CommitRefundSerial ==
  ASSUME OneAtATime, SerialInv, Inv', NEW w \in Workers, CommitRefund(w)
  PROVE  SerialInv' /\ NoOverdraft /\ PaidInOrder
  <1> DEFINE r == req[w]
             o == r.row.org
  <1>1. /\ r \in Request /\ o \in Orgs /\ r.pc = "refunding" /\ Current(r, row, wallet, opened)
        /\ wallet \in [Orgs -> Int] /\ row \in [Deals -> Row]
    BY RequestInFlight DEF CommitRefund, InFlight, SerialInv, Inv, TypeOK, Request
  <1>2. /\ r.deal \in Deals /\ row[r.deal].status # "rejected"
        /\ r.row.status = "rejected" /\ ~r.row.is_processed
    BY <1>1 DEF Current
  <1>3. row' = [row EXCEPT ![r.deal] = r.row] BY DEF CommitRefund
  <1>4. Refunded(r.deal) BY <1>1, <1>2, <1>3 DEF Refunded
  <1>5. \A d \in Deals : ~Processed(d) BY <1>1, <1>2, <1>3 DEF Processed
  <1>6. \A p \in Orgs \ opened' : wallet'[p] = 0
    <2>1. \A p \in Orgs : p # o \/ o \notin opened => wallet'[p] = wallet[p] BY <1>1 DEF CommitRefund
    <2> QED BY <2>1 DEF CommitRefund, SerialInv
  <1>7. SerialInv' BY <1>6, AllIdle DEF CommitRefund
  <1> QED BY <1>2, <1>4, <1>5, <1>7 DEF NoOverdraft, PaidInOrder

LEMMA StepSerial ==
  ASSUME OneAtATime, SerialInv, [Next]_vars
  PROVE  SerialInv' /\ ((NoOverdraft /\ PaidInOrder) \/ UNCHANGED vars)
  <1>0. Inv' BY NextInv DEF SerialInv
  <1>1. CASE UNCHANGED vars
    BY <1>0, <1>1 DEF vars, SerialInv
  <1>2. CASE SellerStep
    <2>1. PICK w \in Workers, d \in Deals :
            \/ \E o \in Orgs : OpenDeal(w, d, o)
            \/ \E amount \in Amounts, card \in BOOLEAN :
                 \E from \in 0..amount :
                   \/ BeginDirect(w, d, amount, from, card)
                   \/ BeginCashier(w, d, amount, from, card)
            \/ BeginRefund(w, d)
      BY <1>2, Zenon DEF SellerStep
    <2> QED BY <1>0, <2>1, OpenDealSerial, BeginDirectSerial, BeginCashierSerial,
               BeginRefundSerial, Zenon
  <1>3. CASE ClientStep
    BY <1>0, <1>3, SubscribeSerial, StartPaymentSerial, BeginOfflineSerial, BeginGatewaySerial,
       BeginRefusedSerial, Zenon DEF ClientStep
  <1>4. CASE HandlerStep
    BY <1>0, <1>4, CheckBalanceSerial, CommitCashierSerial, CommitRefusedSerial, WriteDealSerial,
       SpendOwnSerial, TakeFromPartnerSerial, CommitDealSerial, CommitRefundSerial, FailSerial,
       Zenon DEF HandlerStep
  <1> QED BY <1>1, <1>2, <1>3, <1>4 DEF Next

THEOREM SpecSerial ==
  ASSUME OneAtATime
  PROVE  Spec => []SerialInv
  <1>1. Init => SerialInv
    <2> SUFFICES ASSUME Init PROVE SerialInv OBVIOUS
    <2>1. \A w \in Workers : Current(req[w], row, wallet, opened) BY IdleKnows DEF Init
    <2>2. \A p \in Orgs : wallet[p] = 0 BY DEF Init, Nothing
    <2> QED BY <2>1, <2>2, InitInv DEF SerialInv
  <1>2. SerialInv /\ [Next]_vars => SerialInv' BY StepSerial
  <1> QED BY <1>1, <1>2, PTL DEF Spec

(* With one request at a time, only a refund takes a wallet below zero:    *)
(* what complete_transaction and use_corporate_cashback take from a wallet *)
(* is at most what is in it                                                *)
(* (client_status_services.py:129-188), although the balance was checked   *)
(* when the deal was priced and may have been spent since.                 *)
THEOREM RefundsAloneOverdraw ==
  ASSUME OneAtATime
  PROVE  Spec => OnlyRefundOverdraws
  <1>1. SerialInv /\ [Next]_vars =>
          [\A o \in Orgs : wallet'[o] < 0 /\ wallet'[o] < wallet[o]
             => \E d \in Deals : Refunded(d)]_vars
    BY StepSerial DEF NoOverdraft
  <1> QED BY <1>1, SpecSerial, PTL DEF Spec, OnlyRefundOverdraws

(* With one request at a time, a partner's wallet is touched only once the *)
(* own wallet is empty, and the richest partner's is emptied first: the    *)
(* loop of use_corporate_cashback, whatever the number of partners, and    *)
(* however many turns it took.                                             *)
THEOREM WalletsEmptiedInOrder ==
  ASSUME OneAtATime
  PROVE  Spec => PaysInOrder
  <1>1. SerialInv /\ [Next]_vars =>
          [\A d \in Deals : Processed(d) =>
             \A p \in Orgs \ {row[d].org} : wallet'[p] < wallet[p] =>
               /\ wallet'[row[d].org] = Gain(row'[d])
               /\ \A q \in Orgs \ {row[d].org} : wallet[q] > wallet[p] => wallet'[q] = 0]_vars
    BY StepSerial DEF PaidInOrder
  <1> QED BY <1>1, SpecSerial, PTL DEF Spec, PaysInOrder

-----------------------------------------------------------------------------
(* The books. *)

StandingOf(rw) == [d \in Deals |->
  IF rw[d].is_processed
    THEN [spent |-> rw[d].from_cashback, accrued |-> rw[d].to_cashback]
    ELSE [spent |-> 0, accrued |-> 0]]

LEMMA BooksAreSums ==
  /\ GroupBalance = Total(wallet) /\ GroupBalance' = Total(wallet')
  /\ Standing = StandingOf(row) /\ Standing' = StandingOf(row')
  <1>1. GroupBalance = Total(wallet) BY DEF GroupBalance, Total, SumOf
  <1>2. GroupBalance' = Total(wallet')
    BY DEF GroupBalance, Total, SumOf, MapThenSumSet, MapThenFoldSet
  <1>3. Standing = StandingOf(row) BY DEF Standing, StandingOf
  <1>4. Standing' = StandingOf(row') BY DEF Standing, StandingOf
  <1> QED BY <1>1, <1>2, <1>3, <1>4

LEMMA TotalInt ==
  ASSUME NEW wl \in [Orgs -> Int]
  PROVE  Total(wl) \in Int
  BY CashbackAssumption, SumInt DEF Total

(* One wallet changes. *)
LEMMA TotalChanges ==
  ASSUME NEW wl \in [Orgs -> Int], NEW xl \in [Orgs -> Int], NEW o \in Orgs,
         \A p \in Orgs \ {o} : wl[p] = xl[p]
  PROVE  Total(xl) = (Total(wl) - wl[o]) + xl[o]
  <1>1. IsFiniteSet(Orgs) BY CashbackAssumption
  <1>2. \A p \in Orgs : wl[p] \in Int /\ xl[p] \in Int OBVIOUS
  <1> QED BY <1>1, <1>2, SumChange DEF Total

(* One wallet holds it all. *)
LEMMA TotalIsOne ==
  ASSUME NEW wl \in [Orgs -> Int], NEW o \in Orgs, \A p \in Orgs \ {o} : wl[p] = 0
  PROVE  Total(wl) = wl[o]
  <1>1. IsFiniteSet(Orgs) /\ IsFiniteSet(Orgs \ {o}) BY CashbackAssumption, FS_Subset
  <1>2. SumOf(wl, Orgs \ {o}) = 0 BY <1>1, SumZero
  <1>3. \A p \in Orgs : wl[p] \in Int OBVIOUS
  <1>4. SumOf(wl, Orgs) = wl[o] + SumOf(wl, Orgs \ {o}) BY <1>1, <1>3, SumRemove
  <1> QED BY <1>2, <1>4 DEF Total

LEMMA BooksRest ==
  ASSUME wallet' = wallet, granted' = granted, StandingOf(row') = StandingOf(row)
  PROVE  [Ledger!Next]_(Ledger!vars)
  BY BooksAreSums DEF Ledger!vars

LEMMA IdleBalanced ==
  ASSUME NEW rw, NEW wl
  PROVE  Balanced(Idle, rw, wl)
  BY DEF Idle, Balanced, Completing

(* The only request moves on. *)
LEMMA BooksMoveOn ==
  ASSUME OneAtATime, BooksInv, SerialInv', NEW w \in Workers, NEW q,
         req' = [req EXCEPT ![w] = q], UNCHANGED <<row, wallet, opened, granted, started>>,
         Balanced(q, row, wallet)
  PROVE  BooksInv' /\ [Ledger!Next]_(Ledger!vars)
  <1>1. \A v \in Workers : req'[v] = q BY DEF BooksInv, SerialInv, Inv, TypeOK, OneAtATime
  <1>2. BooksInv' BY <1>1 DEF BooksInv
  <1> QED BY <1>2, BooksRest

LEMMA BooksCommit ==
  ASSUME OneAtATime, BooksInv, SerialInv', NEW w \in Workers,
         Finish(w) \/ (req[w] = Idle /\ req' = req),
         started' = started, \A d \in Deals : Kept(row'[d], opened')
  PROVE  BooksInv'
  <1>1. \A v \in Workers : req'[v] = Idle
    BY DEF BooksInv, SerialInv, Inv, TypeOK, OneAtATime, Finish
  <1> QED BY <1>1, IdleBalanced DEF BooksInv

LEMMA OpenDealBooks ==
  ASSUME OneAtATime, BooksInv, SerialInv', NEW w \in Workers, NEW d \in Deals, NEW o \in Orgs,
         OpenDeal(w, d, o)
  PROVE  BooksInv' /\ [Ledger!Next]_(Ledger!vars)
  <1> DEFINE r == [AbsentRow EXCEPT !.status = "in_progress", !.org = o]
  <1>1. /\ r.status = "in_progress" /\ ~r.is_processed
        /\ r.from_cashback = 0 /\ r.to_cashback = 0
    BY DEF AbsentRow
  <1> HIDE DEF r
  <1>2. row' = [row EXCEPT ![d] = r] BY DEF OpenDeal, r
  <1>3. /\ row \in [Deals -> Row] /\ \A e \in Deals : Kept(row[e], opened)
        /\ req[w] = Idle /\ req' = req /\ opened' = opened /\ started' = started
        /\ wallet' = wallet /\ granted' = granted /\ row[d].status = "absent"
    BY DEF OpenDeal, BooksInv, SerialInv, Inv, TypeOK, Exists
  <1>4. ~row[d].is_processed BY <1>3 DEF Kept
  <1>5. \A e \in Deals : row'[e] = (IF e = d THEN r ELSE row[e]) BY <1>2, <1>3
  <1>6. \A e \in Deals : Kept(row'[e], opened') BY <1>1, <1>3, <1>5 DEF Kept
  <1>7. StandingOf(row') = StandingOf(row) BY <1>1, <1>4, <1>5 DEF StandingOf
  <1> QED BY <1>3, <1>6, <1>7, BooksCommit, BooksRest

LEMMA SubscribeBooks ==
  ASSUME OneAtATime, BooksInv, SerialInv', NEW w \in Workers, NEW o \in Orgs, Subscribe(w, o)
  PROVE  BooksInv' /\ [Ledger!Next]_(Ledger!vars)
  <1>1. /\ wallet \in [Orgs -> Int] /\ wallet' \in [Orgs -> Int]
        /\ wallet'[o] = wallet[o] + Promo /\ \A p \in Orgs \ {o} : wallet[p] = wallet'[p]
    BY CashbackAssumption DEF Subscribe, BooksInv, SerialInv, Inv, TypeOK
  <1>2. Total(wallet') = (Total(wallet) - wallet[o]) + wallet'[o] BY <1>1, TotalChanges
  <1>3. Total(wallet') = Total(wallet) + Promo
    BY <1>1, <1>2, TotalInt, CashbackAssumption
  <1>4. /\ row' = row /\ opened' = opened \union {o} /\ req[w] = Idle /\ req' = req
        /\ started' = started /\ o \notin granted /\ granted' = granted \union {o}
    BY DEF Subscribe
  <1>5. \A e \in Deals : Kept(row'[e], opened') BY <1>4 DEF BooksInv, Kept
  <1>6. BooksInv' BY <1>4, <1>5, BooksCommit
  <1>7. Ledger!Grant(o) BY <1>3, <1>4, BooksAreSums DEF Ledger!Grant
  <1>8. Ledger!Next BY <1>7 DEF Ledger!Next
  <1> QED BY <1>6, <1>8

LEMMA BeginDirectBooks ==
  ASSUME OneAtATime, BooksInv, SerialInv', NEW w \in Workers, NEW d \in Deals, NEW amount \in Amounts,
         NEW from \in 0..amount, NEW card \in BOOLEAN, BeginDirect(w, d, amount, from, card)
  PROVE  BooksInv' /\ [Ledger!Next]_(Ledger!vars)
  <1> DEFINE p == Priced(row[d], amount, from, card)
             r == [p EXCEPT !.status = "accepted", !.payment_status = "accepted",
                            !.is_processed = TRUE]
             q == [[Idle EXCEPT !.kind = "direct", !.deal = d, !.row = r] EXCEPT !.pc = "checking"]
  <1>1. row[d] \in Row /\ row[d].to_cashback = 0 /\ ~row[d].is_processed
    BY DEF BooksInv, SerialInv, Inv, TypeOK, Kept, BeginDirect
  <1>2. p \in Row /\ p.to_cashback = 0 BY <1>1, PricedRow DEF Priced, Row
  <1>3. r.to_cashback = 0 /\ r.is_processed /\ r.status = "accepted"
    <2> HIDE DEF p
    <2> QED BY <1>2 DEF Row
  <1>4. req' = [req EXCEPT ![w] = q] BY DEF BeginDirect, Begin
  <1> HIDE DEF r
  <1>5. Balanced(q, row, wallet) BY <1>1, <1>3 DEF Balanced, Completing, Idle
  <1> HIDE DEF q
  <1> QED BY <1>4, <1>5, BooksMoveOn DEF BeginDirect

LEMMA BeginRefundBooks ==
  ASSUME OneAtATime, BooksInv, SerialInv', NEW w \in Workers, NEW d \in Deals, BeginRefund(w, d)
  PROVE  BooksInv' /\ [Ledger!Next]_(Ledger!vars)
  <1> DEFINE r == [row[d] EXCEPT !.status = "rejected", !.is_processed = FALSE]
             q == [[Idle EXCEPT !.deal = d, !.row = r] EXCEPT !.pc = "refunding"]
  <1>1. row[d] \in Row BY DEF BooksInv, SerialInv, Inv, TypeOK
  <1>2. r.from_cashback = row[d].from_cashback /\ r.to_cashback = row[d].to_cashback
    BY <1>1 DEF Row
  <1>3. req' = [req EXCEPT ![w] = q] BY DEF BeginRefund, Begin
  <1> HIDE DEF r
  <1>4. Balanced(q, row, wallet) BY <1>2 DEF Balanced, Completing, Idle
  <1> HIDE DEF q
  <1> QED BY <1>3, <1>4, BooksMoveOn DEF BeginRefund

LEMMA FailBooks ==
  ASSUME OneAtATime, BooksInv, SerialInv', NEW w \in Workers, Fail(w)
  PROVE  BooksInv' /\ [Ledger!Next]_(Ledger!vars)
  <1>1. \A d \in Deals : Kept(row'[d], opened') BY DEF Fail, BooksInv
  <1>2. BooksInv' BY <1>1, BooksCommit DEF Fail
  <1> QED BY <1>2, BooksRest DEF Fail

LEMMA RequestBalanced ==
  ASSUME BooksInv, NEW w \in Workers
  PROVE  /\ req[w] \in Request /\ InFlight(req[w]) /\ Balanced(req[w], row, wallet)
         /\ req[w].row \in Row /\ Current(req[w], row, wallet, opened)
         /\ wallet \in [Orgs -> Int] /\ opened \in SUBSET Orgs /\ row \in [Deals -> Row]
         /\ Total(wallet) \in Int /\ \A p \in Orgs \ opened : wallet[p] = 0
  BY TotalInt DEF BooksInv, SerialInv, Inv, TypeOK, Request

LEMMA CheckBalanceBooks ==
  ASSUME OneAtATime, BooksInv, SerialInv', NEW w \in Workers, CheckBalance(w)
  PROVE  BooksInv' /\ [Ledger!Next]_(Ledger!vars)
  <1> DEFINE r == req[w]
             q == [r EXCEPT !.pc = "writing"]
  <1>1. r \in Request /\ Balanced(r, row, wallet) /\ r.pc = "checking"
    BY RequestBalanced DEF CheckBalance
  <1>2. r.kind = "direct" BY <1>1 DEF Balanced
  <1>3. req' = [req EXCEPT ![w] = q] BY <1>2 DEF CheckBalance
  <1>4. r.row.from_cashback > 0 => Total(wallet) >= r.row.from_cashback
    BY BooksAreSums DEF CheckBalance
  <1>5. Balanced(q, row, wallet) BY <1>1, <1>4 DEF Balanced, Completing, Request
  <1> HIDE DEF q
  <1> QED BY <1>3, <1>5, BooksMoveOn DEF CheckBalance

LEMMA WriteDealBooks ==
  ASSUME OneAtATime, BooksInv, SerialInv', NEW w \in Workers, WriteDeal(w)
  PROVE  BooksInv' /\ [Ledger!Next]_(Ledger!vars)
  <1> DEFINE r == req[w]
             n == wallet[r.row.org]
             q == [r EXCEPT !.pc = "written", !.own = n]
  <1>1. r \in Request /\ Balanced(r, row, wallet) /\ r.pc = "writing"
    BY RequestBalanced DEF WriteDeal
  <1>2. req' = [req EXCEPT ![w] = q] BY DEF WriteDeal
  <1>3. Balanced(q, row, wallet) BY <1>1 DEF Balanced, Completing, Request
  <1> HIDE DEF q
  <1> QED BY <1>2, <1>3, BooksMoveOn DEF WriteDeal

(* A wallet is charged: what is left to be taken is what is not taken yet. *)
LEMMA ChargedBalanced ==
  ASSUME NEW r \in Request, r.row \in Row, NEW rw, NEW wl \in [Orgs -> Int], Balanced(r, rw, wl), Completing(r),
         r.pc \in {"written", "partners"},
         NEW q \in Request, q.row = r.row, q.deal = r.deal, q.kind = r.kind,
         q.pc \in {"partners", "accruing"}, q.pc = "accruing" => q.left = 0,
         Total(Rest(q, wl)) = (Total(wl) - r.row.from_cashback) + q.left
  PROVE  Balanced(q, rw, wl)
  BY DEF Balanced, Completing

(* The rest once a wallet from which nothing was taken is charged. *)
LEMMA RestChanges ==
  ASSUME NEW r \in Request, NEW wl \in [Orgs -> Int], NEW p \in Orgs, r.change[p] = 0,
         NEW take \in Int, NEW q \in Request, q.change = [r.change EXCEPT ![p] = -take]
  PROVE  Total(Rest(q, wl)) = Total(Rest(r, wl)) - take
  <1>1. r.change \in [Orgs -> Int] /\ q.change \in [Orgs -> Int] BY DEF Request
  <1>2. Rest(r, wl) \in [Orgs -> Int] /\ Rest(q, wl) \in [Orgs -> Int] BY <1>1 DEF Rest
  <1>3. \A x \in Orgs \ {p} : Rest(r, wl)[x] = Rest(q, wl)[x] BY <1>1 DEF Rest
  <1>4. Rest(r, wl)[p] = wl[p] + 0 /\ Rest(q, wl)[p] = wl[p] + (-take) BY <1>1 DEF Rest
  <1>5. Total(Rest(q, wl)) = (Total(Rest(r, wl)) - Rest(r, wl)[p]) + Rest(q, wl)[p]
    BY <1>2, <1>3, TotalChanges
  <1>6. Total(Rest(r, wl)) \in Int /\ Total(Rest(q, wl)) \in Int /\ wl[p] \in Int BY <1>2, TotalInt
  <1> QED BY <1>4, <1>5, <1>6

LEMMA SpendOwnBooks ==
  ASSUME OneAtATime, BooksInv, SerialInv', NEW w \in Workers, SpendOwn(w)
  PROVE  BooksInv' /\ [Ledger!Next]_(Ledger!vars)
  <1> DEFINE r == req[w]
             o == r.row.org
             from == r.row.from_cashback
             take == IF from > 0 THEN OwnShare(r.own, from) ELSE 0
  <1>1. /\ r \in Request /\ o \in Orgs /\ r.pc = "written" /\ Current(r, row, wallet, opened)
        /\ wallet \in [Orgs -> Int] /\ Balanced(r, row, wallet) /\ Total(wallet) \in Int
        /\ r.row \in Row /\ \A p \in Orgs \ opened : wallet[p] = 0
    BY RequestBalanced DEF SpendOwn, InFlight
  <1>2. take \in Int /\
        \E q \in Request :
          /\ req' = [req EXCEPT ![w] = q]
          /\ q.row = r.row /\ q.deal = r.deal /\ q.kind = r.kind
          /\ q.change = [r.change EXCEPT ![o] = -take]
          /\ \/ /\ q.pc = "accruing" /\ q.left = r.left
                /\ take = from \/ opened \subseteq {o}
             \/ /\ q.pc = "partners" /\ q.left = from - take
    BY SpendOwnMakes DEF BooksInv, SerialInv
  <1>3. PICK q \in Request :
          /\ req' = [req EXCEPT ![w] = q]
          /\ q.row = r.row /\ q.deal = r.deal /\ q.kind = r.kind
          /\ q.change = [r.change EXCEPT ![o] = -take]
          /\ \/ /\ q.pc = "accruing" /\ q.left = r.left
                /\ take = from \/ opened \subseteq {o}
             \/ /\ q.pc = "partners" /\ q.left = from - take
    BY <1>2
  <1>4. /\ r.own = wallet[o] /\ r.change = Nothing /\ r.left = 0
        /\ from \in Nat /\ (from > 0 => Total(wallet) >= from)
    BY <1>1 DEF Current, Balanced, Row
  <1>5. Rest(r, wallet) = wallet /\ r.change[o] = 0 BY <1>1, <1>4 DEF Rest, Nothing
  <1>6. opened \subseteq {o} => take = from
    <2> SUFFICES ASSUME opened \subseteq {o} PROVE take = from OBVIOUS
    <2>1. \A p \in Orgs \ {o} : wallet[p] = 0 BY <1>1
    <2>2. Total(wallet) = wallet[o] BY <1>1, <2>1, TotalIsOne
    <2>3. wallet[o] \in Int BY <1>1
    <2> HIDE DEF r, o, from
    <2> QED BY <1>4, <2>2, <2>3 DEF OwnShare, Least
  <1>7. take \in Int BY <1>2
  <1> HIDE DEF take
  <1>8. Total(Rest(q, wallet)) = Total(wallet) - take BY <1>1, <1>3, <1>5, <1>7, RestChanges
  <1>9. q.pc = "accruing" => q.left = 0 /\ take = from BY <1>3, <1>4, <1>6
  <1>10. Total(Rest(q, wallet)) = (Total(wallet) - from) + q.left
    <2>1. q.left = from - take \/ (q.left = 0 /\ take = from) BY <1>3, <1>9
    <2> QED BY <1>1, <1>4, <1>7, <1>8, <2>1
  <1>11. Balanced(q, row, wallet)
    BY <1>1, <1>3, <1>9, <1>10, ChargedBalanced DEF Completing
  <1> QED BY <1>3, <1>11, BooksMoveOn DEF SpendOwn

LEMMA TakeFromPartnerBooks ==
  ASSUME OneAtATime, BooksInv, SerialInv', NEW w \in Workers, TakeFromPartner(w)
  PROVE  BooksInv' /\ [Ledger!Next]_(Ledger!vars)
  <1> DEFINE r == req[w]
             from == r.row.from_cashback
  <1>1. /\ r \in Request /\ r.row.org \in Orgs /\ r.pc = "partners" /\ Current(r, row, wallet, opened)
        /\ wallet \in [Orgs -> Int] /\ Balanced(r, row, wallet) /\ Total(wallet) \in Int
        /\ r.row \in Row /\ \A x \in Orgs \ opened : wallet[x] = 0
    BY RequestBalanced DEF TakeFromPartner, InFlight
  <1>2. PICK p \in Richest(r), q \in Request :
           LET take == Least(r.seen[p], r.left) IN
           /\ req' = [req EXCEPT ![w] = q]
           /\ q.row = r.row /\ q.deal = r.deal /\ q.kind = r.kind
           /\ q.change = [r.change EXCEPT ![p] = -take]
           /\ \/ /\ q.pc = "accruing" /\ q.left = 0
                 /\ take >= r.left \/ r.todo = {p}
              \/ /\ q.pc = "partners" /\ q.left = r.left - take
    BY TurnMakes DEF BooksInv, SerialInv
  <1> DEFINE take == Least(r.seen[p], r.left)
  <1>3. Halfway(r, wallet, opened) BY <1>1 DEF Current
  <1>4. /\ p \in Orgs /\ p \in r.todo /\ p \notin r.held /\ r.change[p] = 0
        /\ r.seen[p] = wallet[p] /\ wallet[p] \in Int /\ r.left \in Int /\ r.left > 0
        /\ from \in Nat /\ from > 0
    BY <1>1, <1>3 DEF Halfway, Richest, Request, Row
  <1>5. /\ Total(wallet) >= from
        /\ Total(Rest(r, wallet)) = (Total(wallet) - from) + r.left
    BY <1>1, <1>4 DEF Balanced
  <1>6. /\ take \in Int /\ take <= r.left /\ (take < r.left => take = wallet[p])
    BY <1>4 DEF Least
  <1>7. r.todo = {p} => Total(Rest(r, wallet)) = wallet[p]
    <2> SUFFICES ASSUME r.todo = {p} PROVE Total(Rest(r, wallet)) = wallet[p] OBVIOUS
    <2>1. r.change \in [Orgs -> Int] BY <1>1 DEF Request
    <2>2. Rest(r, wallet) \in [Orgs -> Int] BY <1>1, <2>1 DEF Rest
    <2>3. Rest(r, wallet)[p] = wallet[p] BY <1>4 DEF Rest
    <2>4. ASSUME NEW x \in Orgs \ {p} PROVE Rest(r, wallet)[x] = 0
      <3>1. Rest(r, wallet)[x] = wallet[x] + r.change[x] /\ wallet[x] \in Int BY <1>1 DEF Rest
      <3>2. CASE x \in r.held
        <4>1. r.change[x] = -wallet[x] BY <1>3, <3>2 DEF Halfway
        <4> QED BY <3>1, <4>1
      <3>3. CASE x \notin r.held
        <4>1. r.change[x] = 0 BY <1>3, <3>3 DEF Halfway
        <4>2. x \notin opened BY <1>3, <3>3, <2>4 DEF Halfway
        <4> QED BY <1>1, <3>1, <4>1, <4>2
      <3> QED BY <3>2, <3>3
    <2>5. Total(Rest(r, wallet)) = Rest(r, wallet)[p] BY <1>4, <2>2, <2>4, TotalIsOne
    <2> QED BY <2>3, <2>5
  <1> HIDE DEF take
  <1>8. r.todo = {p} => take = r.left BY <1>1, <1>4, <1>5, <1>6, <1>7
  <1>9. /\ req' = [req EXCEPT ![w] = q]
        /\ q.row = r.row /\ q.deal = r.deal /\ q.kind = r.kind
        /\ q.change = [r.change EXCEPT ![p] = -take]
        /\ q.pc \in {"partners", "accruing"}
        /\ q.left = r.left - take \/ (q.left = 0 /\ (take >= r.left \/ r.todo = {p}))
        /\ q.pc = "accruing" => q.left = 0
    BY <1>2 DEF take
  <1>10. Total(Rest(q, wallet)) = Total(Rest(r, wallet)) - take
    BY <1>1, <1>4, <1>6, <1>9, RestChanges
  <1>11. q.left = r.left - take BY <1>4, <1>6, <1>8, <1>9
  <1>12. Total(Rest(q, wallet)) = (Total(wallet) - from) + q.left
    BY <1>1, <1>4, <1>5, <1>6, <1>10, <1>11
  <1>13. Balanced(q, row, wallet)
    BY <1>1, <1>9, <1>12, ChargedBalanced DEF Completing
  <1> QED BY <1>9, <1>13, BooksMoveOn DEF TakeFromPartner

LEMMA CommitDealBooks ==
  ASSUME OneAtATime, BooksInv, SerialInv', NEW w \in Workers, CommitDeal(w)
  PROVE  BooksInv' /\ [Ledger!Next]_(Ledger!vars)
  <1> DEFINE r == req[w]
             o == r.row.org
             d == r.deal
             from == r.row.from_cashback
             gain == Gain(r.row)
             rest == Rest(r, wallet)
             written == [r.row EXCEPT !.to_cashback = ToCashback(r.row)]
  <1>1. /\ r \in Request /\ o \in Orgs /\ r.pc = "accruing" /\ r.row \in Row /\ Sound(r.row)
        /\ Current(r, row, wallet, opened) /\ Balanced(r, row, wallet)
        /\ wallet \in [Orgs -> Int] /\ row \in [Deals -> Row] /\ Total(wallet) \in Int
    BY RequestBalanced DEF CommitDeal, InFlight
  <1>2. gain \in Nat /\ from \in Nat BY <1>1, AccruedIsNat DEF Gain, Row
  <1>3. /\ d \in Deals /\ ~row[d].is_processed
        /\ r.row.is_processed /\ r.row.status = "accepted" /\ r.row.to_cashback = 0
        /\ (from > 0 => Total(wallet) >= from)
        /\ Total(rest) = (Total(wallet) - from) + r.left /\ r.left = 0
    BY <1>1 DEF Current, Balanced, Completing
  <1>4. ToCashback(r.row) = gain BY <1>3 DEF ToCashback, Gain
  <1>5. /\ written.is_processed /\ written.status = "accepted" /\ written.org = o
        /\ written.from_cashback = from /\ written.to_cashback = gain
    <2>1. \A n \in Nat : LET x == [r.row EXCEPT !.to_cashback = n] IN
            /\ x.is_processed = r.row.is_processed /\ x.status = r.row.status /\ x.org = r.row.org
            /\ x.from_cashback = r.row.from_cashback /\ x.to_cashback = n
      BY <1>1 DEF Row
    <2> HIDE DEF gain
    <2> QED BY <1>2, <1>3, <1>4, <2>1
  <1>6. row' = [row EXCEPT ![d] = written] BY DEF CommitDeal
  <1>7. \A p \in Orgs : wallet'[p] = rest[p] + (IF p = o THEN gain ELSE 0)
    BY DEF CommitDeal, Gain, Rest
  <1> HIDE DEF written, gain
  <1>8. \A e \in Deals : row'[e] = (IF e = d THEN written ELSE row[e]) BY <1>1, <1>6
  <1>9. BooksInv'
    <2>1. opened' = opened \union {o} /\ Finish(w) /\ started' = started BY DEF CommitDeal
    <2>2. Kept(written, opened') BY <1>5, <2>1 DEF Kept
    <2>3. \A e \in Deals : Kept(row[e], opened') BY <2>1 DEF BooksInv, Kept
    <2>4. \A e \in Deals : Kept(row'[e], opened') BY <1>8, <2>2, <2>3
    <2> QED BY <2>1, <2>4, BooksCommit
  <1>10. Total(wallet') = Total(rest) + gain
    <2>1. r.change \in [Orgs -> Int] BY <1>1 DEF Request
    <2>2. rest \in [Orgs -> Int] BY <1>1, <2>1 DEF Rest
    <2> HIDE DEF rest
    <2>3. wallet' \in [Orgs -> Int] BY DEF SerialInv, Inv, TypeOK
    <2>4. \A p \in Orgs \ {o} : rest[p] = wallet'[p] BY <1>7, <2>2
    <2>5. wallet'[o] = rest[o] + gain BY <1>1, <1>7
    <2>6. Total(wallet') = (Total(rest) - rest[o]) + wallet'[o] BY <1>1, <2>2, <2>3, <2>4, TotalChanges
    <2>7. Total(rest) \in Int BY <2>2, TotalInt
    <2> QED BY <1>1, <1>2, <2>2, <2>5, <2>6, <2>7
  <1>11. Total(wallet') = Total(wallet) - from + gain
    <2> HIDE DEF rest
    <2> QED BY <1>1, <1>2, <1>3, <1>10
  <1>12. StandingOf(row)[d] = [spent |-> 0, accrued |-> 0] BY <1>3 DEF StandingOf
  <1>13. /\ StandingOf(row') = [StandingOf(row) EXCEPT ![d] = StandingOf(row')[d]]
         /\ StandingOf(row')[d] = [spent |-> from, accrued |-> gain]
    BY <1>3, <1>5, <1>8 DEF StandingOf
  <1>14. Ledger!Complete(d)
    <2>1. granted' = granted BY DEF CommitDeal
    <2>2. /\ StandingOf(row')[d].spent = from /\ StandingOf(row')[d].accrued = gain
      BY <1>13
    <2> QED BY <1>3, <1>11, <1>12, <1>13, <2>1, <2>2, BooksAreSums
          DEF Ledger!Complete, Ledger!NoEffect
  <1> QED BY <1>3, <1>9, <1>14 DEF Ledger!Next

LEMMA CommitRefundBooks ==
  ASSUME OneAtATime, BooksInv, SerialInv', NEW w \in Workers, CommitRefund(w)
  PROVE  BooksInv' /\ [Ledger!Next]_(Ledger!vars)
  <1> DEFINE r == req[w]
             o == r.row.org
             d == r.deal
             spent == row[d].from_cashback
             accrued == row[d].to_cashback
             stood == StandingOf(row)[d]
  <1>1. /\ r \in Request /\ o \in Orgs /\ r.pc = "refunding" /\ r.row \in Row
        /\ Current(r, row, wallet, opened) /\ Balanced(r, row, wallet)
        /\ wallet \in [Orgs -> Int] /\ row \in [Deals -> Row] /\ Total(wallet) \in Int
    BY RequestBalanced DEF CommitRefund, InFlight
  <1>2. /\ d \in Deals /\ row[d].org = o /\ row[d].status # "rejected"
        /\ r.row.status = "rejected" /\ ~r.row.is_processed
        /\ r.row.from_cashback = spent /\ r.row.to_cashback = accrued
    BY <1>1 DEF Current, Balanced
  <1>3. row[d] \in Row /\ Kept(row[d], opened) BY <1>1, <1>2 DEF BooksInv
  <1>4. spent \in Nat /\ accrued \in Nat BY <1>3 DEF Row
  <1>5. /\ row[d].is_processed => o \in opened /\ stood = [spent |-> spent, accrued |-> accrued]
        /\ ~row[d].is_processed =>
             spent = 0 /\ accrued = 0 /\ stood = [spent |-> spent, accrued |-> accrued]
    <2>1. row[d].status \in {"absent", "in_progress", "accepted"} BY <1>2, <1>3 DEF Row
    <2> QED BY <1>2, <1>3, <2>1 DEF Kept, StandingOf
  <1>6. stood.spent = spent /\ stood.accrued = accrued BY <1>5
  <1>7. row' = [row EXCEPT ![d] = r.row] /\ granted' = granted BY DEF CommitRefund
  <1>8. \A e \in Deals : row'[e] = (IF e = d THEN r.row ELSE row[e]) BY <1>1, <1>7
  <1>9. BooksInv'
    <2>1. opened' = opened /\ Finish(w) /\ started' = started BY DEF CommitRefund
    <2>2. Kept(r.row, opened') BY <1>2 DEF Kept
    <2>3. \A e \in Deals : Kept(row'[e], opened') BY <1>8, <2>1, <2>2 DEF BooksInv
    <2> QED BY <2>1, <2>3, BooksCommit
  <1>10. Total(wallet') = Total(wallet) + spent - accrued
    <2>1. CASE o \notin opened
      <3>1. wallet' = wallet BY <2>1 DEF CommitRefund
      <3>2. spent = 0 /\ accrued = 0 BY <1>5, <2>1
      <3> QED BY <1>1, <3>1, <3>2
    <2>2. CASE o \in opened
      <3>1. wallet' = [wallet EXCEPT ![o] = @ + (spent - accrued)]
        BY <1>2, <2>2 DEF CommitRefund, RefundChange
      <3>2. wallet'[o] = wallet[o] + (spent - accrued) /\ wallet[o] \in Int BY <1>1, <3>1
      <3>3. \A p \in Orgs \ {o} : wallet[p] = wallet'[p] BY <1>1, <3>1
      <3>4. wallet' \in [Orgs -> Int] BY DEF SerialInv, Inv, TypeOK
      <3>5. Total(wallet') = (Total(wallet) - wallet[o]) + wallet'[o]
        BY <1>1, <3>3, <3>4, TotalChanges
      <3> QED BY <1>1, <1>4, <3>2, <3>5
    <2> QED BY <2>1, <2>2
  <1>11. StandingOf(row') = [StandingOf(row) EXCEPT ![d] = [spent |-> 0, accrued |-> 0]]
    BY <1>2, <1>8 DEF StandingOf
  <1>12. Ledger!Refund(d)
    <2> HIDE DEF spent, accrued
    <2> QED BY <1>6, <1>7, <1>10, <1>11, BooksAreSums DEF Ledger!Refund, Ledger!NoEffect
  <1> QED BY <1>2, <1>9, <1>12 DEF Ledger!Next

(* What deals completed on the spot leave out. *)
LEMMA OtherwiseNever ==
  ASSUME DirectOnly, BooksInv, NEW w \in Workers
  PROVE  /\ \A d \in Deals, amount \in Amounts, card \in BOOLEAN :
              \A from \in 0..amount : ~BeginCashier(w, d, amount, from, card)
         /\ \A d \in Deals : ~StartPayment(w, d) /\ ~BeginOffline(w, d)
                             /\ ~BeginGateway(w, d) /\ ~BeginRefused(w, d)
         /\ ~CommitCashier(w) /\ ~CommitRefused(w)
  <1>1. /\ "cashier" \notin Channels /\ "gateway" \notin Channels /\ "offline" \notin Channels
    BY DEF DirectOnly
  <1>2. started = {} BY DEF BooksInv
  <1>3. req[w].pc \notin {"saving", "refused"}
    BY RequestBalanced DEF Balanced, Completing
  <1> QED BY <1>1, <1>2, <1>3 DEF BeginCashier, StartPayment, BeginOffline, BeginGateway,
       BeginRefused, CommitCashier, CommitRefused

LEMMA StepBooks ==
  ASSUME OneAtATime, DirectOnly, BooksInv, [Next]_vars
  PROVE  BooksInv' /\ [Ledger!Next]_(Ledger!vars)
  <1>0. SerialInv' BY StepSerial DEF BooksInv
  <1>1. CASE UNCHANGED vars
    <2>1. /\ wallet' = wallet /\ row' = row /\ req' = req /\ opened' = opened
          /\ granted' = granted /\ started' = started
      BY <1>1 DEF vars
    <2>2. BooksInv' BY <1>0, <2>1 DEF BooksInv
    <2>3. StandingOf(row') = StandingOf(row) BY <2>1
    <2> QED BY <2>1, <2>2, <2>3, BooksRest
  <1>2. CASE SellerStep
    <2>1. PICK w \in Workers, d \in Deals :
            \/ \E o \in Orgs : OpenDeal(w, d, o)
            \/ \E amount \in Amounts, card \in BOOLEAN :
                 \E from \in 0..amount :
                   \/ BeginDirect(w, d, amount, from, card)
                   \/ BeginCashier(w, d, amount, from, card)
            \/ BeginRefund(w, d)
      BY <1>2, Zenon DEF SellerStep
    <2> QED BY <1>0, <2>1, OpenDealBooks, BeginDirectBooks, OtherwiseNever, BeginRefundBooks, Zenon
  <1>3. CASE ClientStep
    BY <1>0, <1>3, SubscribeBooks, OtherwiseNever, Zenon DEF ClientStep
  <1>4. CASE HandlerStep
    BY <1>0, <1>4, CheckBalanceBooks, OtherwiseNever, WriteDealBooks, SpendOwnBooks,
       TakeFromPartnerBooks, CommitDealBooks, CommitRefundBooks, FailBooks, Zenon DEF HandlerStep
  <1> QED BY <1>1, <1>2, <1>3, <1>4 DEF Next

(* With one request at a time and deals completed on the spot or refunded, *)
(* the wallets of a group keep the books of CashbackLedger: however a      *)
(* completion spreads what it takes over the partners' wallets             *)
(* (client_status_services.py:129-188), together they lose what the deal   *)
(* spends, never more than they held, and gain what it accrues; a refund   *)
(* undoes exactly that; a promo is granted once.                           *)
THEOREM WalletsKeepTheBooks ==
  ASSUME OneAtATime, DirectOnly
  PROVE  Spec => ImplementsLedger
  <1>1. Init => BooksInv
    <2> SUFFICES ASSUME Init PROVE BooksInv OBVIOUS
    <2>1. \A w \in Workers : Current(req[w], row, wallet, opened) /\ Balanced(req[w], row, wallet)
      BY IdleKnows, IdleBalanced DEF Init
    <2>2. \A p \in Orgs : wallet[p] = 0 BY DEF Init, Nothing
    <2>3. started = {} /\ \A d \in Deals : Kept(row[d], opened) BY DEF Init, AbsentRow, Kept
    <2> QED BY <2>1, <2>2, <2>3, InitInv DEF SerialInv, BooksInv
  <1>2. BooksInv /\ [Next]_vars => BooksInv' BY StepBooks
  <1>3. Init => Ledger!Init
    <2> SUFFICES ASSUME Init PROVE Ledger!Init OBVIOUS
    <2>1. \A p \in Orgs : wallet[p] = 0 BY DEF Init, Nothing
    <2>2. IsFiniteSet(Orgs) BY CashbackAssumption
    <2>3. Total(wallet) = 0 BY <2>1, <2>2, SumZero DEF Total
    <2>4. StandingOf(row) = [d \in Deals |-> [spent |-> 0, accrued |-> 0]]
      BY DEF Init, StandingOf, AbsentRow
    <2> QED BY <2>3, <2>4, BooksAreSums DEF Init, Ledger!Init, Ledger!NoEffect
  <1>4. BooksInv /\ [Next]_vars => [Ledger!Next]_(Ledger!vars) BY StepBooks
  <1> QED BY <1>1, <1>2, <1>3, <1>4, PTL DEF Spec, ImplementsLedger, Ledger!Spec
=============================================================================
