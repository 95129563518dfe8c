--------------------------- MODULE PurchasesProofs --------------------------
(***************************************************************************)
(* The safety of Purchases proved for any number of purchases, attempts    *)
(* and workers: nothing is handed over unpaid, nor more often than there   *)
(* are workers that had loaded the purchase before.                        *)
(***************************************************************************)
EXTENDS Purchases, SumTheorems, FiniteSetTheorems, TLAPS

-----------------------------------------------------------------------------
(* The inductive invariant.  A row that a worker has loaded is written back *)
(* long after, so whatever is true of the rows of the table must be true of *)
(* the rows in hand; it stays true because it speaks of attempts that were  *)
(* started, paid or failed, and these remain so.                            *)

Began(x) == x.state \notin {"none", "starting"}

PaidFor(p, at) == \E a \in Attempts : at[a].of = p /\ at[a].state = "paid"

Through(p, gateways, at) ==
  \E a \in Attempts : at[a].of = p /\ at[a].gateway \in gateways /\ Began(at[a])

FailedAtZina(p, at) ==
  \E a \in Attempts : at[a].of = p /\ at[a].gateway = "zina" /\ at[a].state = "failed"

GoodRow(p, k, r, at) ==
  /\ r.is_processed => PaidFor(p, at)
  /\ r.payment_status = "rejected" => FailedAtZina(p, at)
  /\ k = "assistant" /\ ~r.info.plans => Through(p, {"maaly", "zina", "profitgate"}, at)

InHand(t, kd, at) ==
  LET x == at[t.attempt] IN
  /\ t.pc # "idle" => t.attempt \in Attempts
  /\ t.pc = "starting" => x.state = "starting"
  /\ t.pc \in {"loaded", "written"} => x.state = "paid" /\ GoodRow(x.of, kd[x.of], t.row, at)
  /\ t.pc = "refusing" => x.gateway = "zina" /\ x.state = "failed"
  /\ t.pc = "notified" =>
       x.gateway = "profitgate" /\ Began(x) /\ GoodRow(x.of, kd[x.of], t.row, at)

OneStarts ==
  \A v, w \in Workers :
    task[v].pc = "starting" /\ task[w].pc = "starting" /\ task[v].attempt = task[w].attempt => v = w

Made(at) ==
  \A a \in Attempts : at[a].state # "none" => at[a].of \in Purchases /\ at[a].gateway \in Gateways

(* A purchase that Profitgate has not touched is loaded only before it is   *)
(* credited for the first time; each worker that has it in hand may credit  *)
(* it once.                                                                 *)
Holds(t, p, at) == t.pc \in {"loaded", "written"} /\ at[t.attempt].of = p

Holders(p) == {w \in Workers : Holds(task[w], p, attempt)}

Untouched(p) ==
  /\ credited[p] > 0 => row[p].is_processed
  /\ credited[p] + Cardinality(Holders(p)) <= Cardinality(Workers)

Booked(p) ==
  /\ credited[p] > 0 => PaidFor(p, attempt)
  /\ kind[p] = "assistant" /\ credited[p] > 0 =>
       p \in bot \/ Through(p, {"maaly", "zina", "profitgate"}, attempt)
  /\ Through(p, {"profitgate"}, attempt) \/ Untouched(p)

Inv ==
  /\ TypeOK
  /\ Made(attempt)
  /\ \A p \in Purchases : GoodRow(p, kind[p], row[p], attempt)
  /\ \A w \in Workers : InHand(task[w], kind, attempt)
  /\ OneStarts
  /\ \A p \in Purchases : Booked(p)

-----------------------------------------------------------------------------
(* Attempts only ever move on. *)

Grown(at, bt) ==
  \A a \in Attempts : Began(at[a]) =>
    /\ Began(bt[a]) /\ bt[a].of = at[a].of /\ bt[a].gateway = at[a].gateway
    /\ at[a].state = "paid" => bt[a].state = "paid"
    /\ at[a].state = "failed" => bt[a].state = "failed"

LEMMA GrownKeeps ==
  ASSUME NEW at, NEW bt, Grown(at, bt), NEW p
  PROVE  /\ PaidFor(p, at) => PaidFor(p, bt)
         /\ FailedAtZina(p, at) => FailedAtZina(p, bt)
         /\ \A gs : Through(p, gs, at) => Through(p, gs, bt)
  <1>1. PaidFor(p, at) => PaidFor(p, bt) BY DEF Grown, PaidFor, Began
  <1>2. FailedAtZina(p, at) => FailedAtZina(p, bt) BY DEF Grown, FailedAtZina, Began
  <1>3. \A gs : Through(p, gs, at) => Through(p, gs, bt) BY DEF Grown, Through
  <1> QED BY <1>1, <1>2, <1>3

LEMMA RowGrows ==
  ASSUME NEW at, NEW bt, Grown(at, bt), NEW p, NEW k, NEW r, GoodRow(p, k, r, at)
  PROVE  GoodRow(p, k, r, bt)
  BY GrownKeeps DEF GoodRow

LEMMA HandGrows ==
  ASSUME NEW at, NEW bt, Grown(at, bt), NEW kd, NEW t, InHand(t, kd, at),
         t.pc = "starting" => bt[t.attempt].state = "starting"
  PROVE  InHand(t, kd, bt)
  <1>1. CASE t.pc \in {"loaded", "written", "notified"}
    <2>1. /\ t.attempt \in Attempts /\ Began(at[t.attempt])
          /\ GoodRow(at[t.attempt].of, kd[at[t.attempt].of], t.row, at)
      BY <1>1 DEF InHand, Began
    <2>2. bt[t.attempt].of = at[t.attempt].of BY <2>1 DEF Grown
    <2>3. GoodRow(bt[t.attempt].of, kd[bt[t.attempt].of], t.row, bt) BY <2>1, <2>2, RowGrows
    <2> QED BY <1>1, <2>1, <2>3 DEF InHand, Grown
  <1>2. CASE t.pc \notin {"loaded", "written", "notified"}
    BY <1>2 DEF InHand, Grown, Began
  <1> QED BY <1>1, <1>2

LEMMA SameGrown == \A at : Grown(at, at)
  BY DEF Grown

-----------------------------------------------------------------------------
(* Types. *)

Tasks == [pc : {"idle", "starting", "asking", "loaded", "written", "refusing", "notified"},
          attempt : Attempts \union {0}, row : Row, balance : Nat]

Tries == [state : {"none", "starting", "refused", "open", "paid", "failed"},
          of : Purchases \union {NoPurchase}, gateway : Gateways \union {"none"}]

LEMMA Constants ==
  /\ 0 \notin Attempts
  /\ MaxPolls \in Nat /\ MaxOutages \in Nat /\ MaxFaults \in Nat
  /\ NoPurchase \notin Purchases
  /\ IsFiniteSet(Workers)
  BY PurchasesAssumption DEF Attempts

LEMMA NewRows ==
  /\ NoInfo \in Info
  /\ \A k : NewRow(k) \in Row /\ NewRow(k).info.plans = (k = "assistant")
  <1>1. NoInfo \in Info BY DEF NoInfo, Info
  <1>2. ASSUME NEW k PROVE NewRow(k) \in Row /\ NewRow(k).info.plans = (k = "assistant")
    <2> DEFINE i == [NoInfo EXCEPT !.plans = (k = "assistant")]
    <2>1. i \in Info /\ i.plans = (k = "assistant") BY <1>1 DEF Info
    <2>2. NewRow(k).info = i BY DEF NewRow
    <2> HIDE DEF i
    <2>3. NewRow(k) \in Row
      BY <2>1, <2>2 DEF NewRow, Row
    <2> QED BY <2>1, <2>2, <2>3
  <1> QED BY <1>1, <1>2

LEMMA IdleTask ==
  /\ NoTask \in Tasks /\ NoTask.pc = "idle"
  /\ \A kd, at : InHand(NoTask, kd, at)
  BY NewRows DEF NoTask, Tasks, InHand

LEMMA Types ==
  ASSUME Inv
  PROVE  /\ task \in [Workers -> Tasks] /\ attempt \in [Attempts -> Tries]
         /\ row \in [Purchases -> Row] /\ kind \in [Purchases -> Kinds]
         /\ poll \in [Attempts -> 0..MaxPolls]
         /\ credited \in [Purchases -> Nat] /\ balance \in [Kinds -> Nat]
  BY DEF Inv, TypeOK, Tasks, Tries

LEMMA HolderSets ==
  ASSUME NEW p
  PROVE  /\ IsFiniteSet(Holders(p)) /\ Cardinality(Holders(p)) \in Nat
         /\ Cardinality(Workers) \in Nat
         /\ \A S \in SUBSET Holders(p) : Cardinality(S) \in Nat /\ Cardinality(S) <= Cardinality(Holders(p))
         /\ \A S \in SUBSET Workers : Cardinality(S) \in Nat /\ Cardinality(S) <= Cardinality(Workers)
  <1>1. Holders(p) \in SUBSET Workers BY DEF Holders
  <1>2. IsFiniteSet(Holders(p)) BY <1>1, Constants, FS_Subset
  <1>3. ASSUME NEW S \in SUBSET Holders(p)
        PROVE  Cardinality(S) \in Nat /\ Cardinality(S) <= Cardinality(Holders(p))
    BY <1>2, FS_Subset, FS_CardinalityType
  <1>4. ASSUME NEW S \in SUBSET Workers
        PROVE  Cardinality(S) \in Nat /\ Cardinality(S) <= Cardinality(Workers)
    BY Constants, FS_Subset, FS_CardinalityType
  <1> QED BY <1>1, <1>2, <1>3, <1>4, Constants, FS_CardinalityType

-----------------------------------------------------------------------------
(* What a step that credits nothing has to show. *)

LEMMA BookedKept ==
  ASSUME Inv, Grown(attempt, attempt'), UNCHANGED <<kind, credited, bot>>, NEW p \in Purchases,
         row[p].is_processed => row'[p].is_processed \/ Through(p, {"profitgate"}, attempt'),
         Holders(p)' \subseteq Holders(p) \/ ~row[p].is_processed
  PROVE  Booked(p)'
  <1>1. Booked(p) /\ credited[p] \in Nat BY Types DEF Inv
  <1>2. /\ PaidFor(p, attempt) => PaidFor(p, attempt')
        /\ \A gs : Through(p, gs, attempt) => Through(p, gs, attempt')
    BY GrownKeeps
  <1>3. ASSUME ~Through(p, {"profitgate"}, attempt') PROVE Untouched(p)'
    <2>1. Untouched(p) BY <1>1, <1>2, <1>3 DEF Booked
    <2>2. credited[p] > 0 => row'[p].is_processed BY <1>3, <2>1 DEF Untouched
    <2>3. Holders(p)' \subseteq Workers BY DEF Holders
    <2>4. CASE Holders(p)' \subseteq Holders(p)
      <3>1. Cardinality(Holders(p)') <= Cardinality(Holders(p)) /\ Cardinality(Holders(p)') \in Nat
        BY <2>4, HolderSets
      <3> QED BY <1>1, <2>1, <2>2, <3>1, HolderSets DEF Untouched
    <2>5. CASE ~row[p].is_processed
      <3>1. credited[p] = 0 BY <1>1, <2>1, <2>5 DEF Untouched
      <3>2. Cardinality(Holders(p)') <= Cardinality(Workers) /\ Cardinality(Holders(p)') \in Nat
        BY <2>3, HolderSets
      <3> QED BY <2>2, <3>1, <3>2, HolderSets DEF Untouched
    <2> QED BY <2>4, <2>5
  <1> QED BY <1>1, <1>2, <1>3 DEF Booked

LEMMA PutTask ==
  ASSUME Inv, NEW w \in Workers, NEW n \in Tasks, task' = [task EXCEPT ![w] = n],
         kind' = kind, Grown(attempt, attempt'), InHand(n, kind, attempt'),
         \A v \in Workers \ {w} : task[v].pc = "starting" =>
           /\ attempt'[task[v].attempt].state = "starting"
           /\ n.pc = "starting" => task[v].attempt # n.attempt
  PROVE  /\ task' \in [Workers -> Tasks] /\ task'[w] = n
         /\ \A v \in Workers \ {w} : task'[v] = task[v]
         /\ \A v \in Workers : InHand(task'[v], kind', attempt')
         /\ OneStarts'
  <1>1. task' \in [Workers -> Tasks] /\ task'[w] = n /\ \A v \in Workers \ {w} : task'[v] = task[v]
    BY Types
  <1>2. ASSUME NEW v \in Workers PROVE InHand(task'[v], kind', attempt')
    <2>1. CASE v = w BY <1>1, <2>1
    <2>2. CASE v # w BY <1>1, <2>2, HandGrows DEF Inv
    <2> QED BY <2>1, <2>2
  <1>3. OneStarts' BY <1>1 DEF Inv, OneStarts
  <1> QED BY <1>1, <1>2, <1>3

(* A worker takes something up, or lets it go, and rows, attempts and books *)
(* are as they were.                                                        *)
LEMMA TakeUp ==
  ASSUME Inv, NEW w \in Workers, NEW n \in Tasks, task' = [task EXCEPT ![w] = n],
         UNCHANGED <<kind, row, attempt, credited, balance, bot>>,
         InHand(n, kind, attempt), n.pc # "starting",
         poll' \in [Attempts -> 0..MaxPolls], outages' \in 0..MaxOutages, faults' \in 0..MaxFaults,
         \A p \in Purchases :
           Holds(n, p, attempt) => Holds(task[w], p, attempt) \/ ~row[p].is_processed
  PROVE  Inv'
  <1>1. Grown(attempt, attempt') BY SameGrown
  <1>2. \A v \in Workers \ {w} : task[v].pc = "starting" => attempt'[task[v].attempt].state = "starting"
    BY DEF Inv, InHand
  <1>3. /\ task' \in [Workers -> Tasks] /\ task'[w] = n
        /\ \A v \in Workers \ {w} : task'[v] = task[v]
        /\ \A v \in Workers : InHand(task'[v], kind', attempt')
        /\ OneStarts'
    <2>1. InHand(n, kind, attempt') OBVIOUS
    <2> QED BY <1>1, <1>2, <2>1, PutTask
  <1>4. TypeOK' BY <1>3 DEF Inv, TypeOK, Tasks
  <1>5. ASSUME NEW p \in Purchases PROVE Booked(p)'
    <2>1. Holders(p)' \subseteq Holders(p) \/ ~row[p].is_processed
      BY <1>3 DEF Holders
    <2> QED BY <1>1, <2>1, BookedKept
  <1> QED BY <1>3, <1>4, <1>5 DEF Inv

LEMMA LetGo ==
  ASSUME Inv, NEW w \in Workers, End(w),
         UNCHANGED <<kind, row, attempt, poll, credited, balance, bot, outages>>,
         faults' \in 0..MaxFaults
  PROVE  Inv'
  <1>1. task' = [task EXCEPT ![w] = NoTask] BY DEF End
  <1>2. poll' \in [Attempts -> 0..MaxPolls] /\ outages' \in 0..MaxOutages BY DEF Inv, TypeOK
  <1>3. \A p \in Purchases : ~Holds(NoTask, p, attempt) BY IdleTask DEF Holds
  <1> QED BY <1>1, <1>2, <1>3, IdleTask, TakeUp

(* A purchase that can be paid is loaded. *)
LEMMA LoadKeeps ==
  ASSUME Inv, NEW w \in Workers, NEW a \in Attempts, attempt[a].state = "paid",
         Payable(attempt[a].of), Hold(w, "loaded", a),
         UNCHANGED <<kind, row, attempt, credited, balance, bot, outages, faults>>,
         poll' \in [Attempts -> 0..MaxPolls]
  PROVE  Inv'
  <1> DEFINE n == [NoTask EXCEPT !.pc = "loaded", !.attempt = a, !.row = row[attempt[a].of]]
  <1>1. attempt[a].of \in Purchases BY DEF Inv, Made
  <1>2. row[attempt[a].of] \in Row /\ GoodRow(attempt[a].of, kind[attempt[a].of], row[attempt[a].of], attempt)
    BY <1>1, Types DEF Inv
  <1>3. n \in Tasks /\ n.pc = "loaded" /\ n.attempt = a /\ n.row = row[attempt[a].of]
    BY <1>2, IdleTask DEF Tasks, NoTask
  <1>4. task' = [task EXCEPT ![w] = n] BY DEF Hold
  <1> HIDE DEF n
  <1>5. InHand(n, kind, attempt) BY <1>2, <1>3 DEF InHand
  <1>6. \A p \in Purchases : Holds(n, p, attempt) => ~row[p].is_processed
    BY <1>3 DEF Holds, Payable
  <1>7. outages' \in 0..MaxOutages /\ faults' \in 0..MaxFaults BY DEF Inv, TypeOK
  <1> QED BY <1>3, <1>4, <1>5, <1>6, <1>7, TakeUp

LEMMA WebhookKeeps ==
  ASSUME Inv, NEW w \in Workers, NEW a \in Attempts, Webhook(w, a)
  PROVE  Inv'
  BY LoadKeeps, Types DEF Webhook

LEMMA TurnKeeps ==
  ASSUME Inv, NEW w \in Workers, NEW a \in Attempts, NEW pc \in {"asking", "refusing"}, Turn(w, pc, a),
         pc = "refusing" => attempt[a].gateway = "zina" /\ attempt[a].state = "failed",
         UNCHANGED <<kind, row, attempt, poll, credited, balance, bot, outages, faults>>
  PROVE  Inv'
  <1> DEFINE n == [NoTask EXCEPT !.pc = pc, !.attempt = a]
  <1>1. n \in Tasks /\ n.pc = pc /\ n.attempt = a BY IdleTask DEF Tasks, NoTask
  <1>2. task' = [task EXCEPT ![w] = n] BY DEF Turn
  <1> HIDE DEF n
  <1>3. InHand(n, kind, attempt) /\ n.pc # "starting" BY <1>1 DEF InHand
  <1>4. \A p \in Purchases : ~Holds(n, p, attempt) BY <1>1 DEF Holds
  <1>5. poll' \in [Attempts -> 0..MaxPolls] /\ outages' \in 0..MaxOutages /\ faults' \in 0..MaxFaults
    BY DEF Inv, TypeOK
  <1> QED BY <1>1, <1>2, <1>3, <1>4, <1>5, TakeUp

LEMMA AskedKeeps ==
  ASSUME Inv, NEW w \in Workers, Asked(w)
  PROVE  Inv'
  <1>1. task[w].attempt \in Attempts BY DEF Inv, InHand, Asked
  <1>2. poll' \in [Attempts -> 0..MaxPolls] /\ faults' \in 0..MaxFaults BY DEF Asked, Inv, TypeOK
  <1>3. CASE attempt[task[w].attempt].state = "paid" /\ Payable(Of(w))
    BY <1>1, <1>2, <1>3, LoadKeeps DEF Asked, Of
  <1>4. CASE ~(attempt[task[w].attempt].state = "paid" /\ Payable(Of(w)))
    BY <1>2, <1>4, LetGo DEF Asked
  <1> QED BY <1>3, <1>4

(* Nobody does anything but ask. *)
LEMMA QuietKeeps ==
  ASSUME Inv, UNCHANGED <<kind, row, attempt, task, credited, balance, bot>>,
         poll' \in [Attempts -> 0..MaxPolls], outages' \in 0..MaxOutages, faults' \in 0..MaxFaults
  PROVE  Inv'
  <1>1. TypeOK' BY DEF Inv, TypeOK
  <1>2. OneStarts' BY DEF Inv, OneStarts
  <1>3. ASSUME NEW p \in Purchases PROVE Booked(p)'
    <2>1. Holders(p)' = Holders(p) BY DEF Holders
    <2> QED BY <2>1, SameGrown, BookedKept
  <1> QED BY <1>1, <1>2, <1>3 DEF Inv

LEMMA AskedLess ==
  ASSUME Inv, NEW a \in Attempts, poll[a] > 0
  PROVE  /\ [poll EXCEPT ![a] = @ - 1] \in [Attempts -> 0..MaxPolls]
         /\ [poll EXCEPT ![a] = 0] \in [Attempts -> 0..MaxPolls]
  <1>1. poll[a] - 1 \in 0..MaxPolls /\ 0 \in 0..MaxPolls BY Types, Constants
  <1> QED BY <1>1, Types

LEMMA PollKeeps ==
  ASSUME Inv, NEW w \in Workers, NEW a \in Attempts, Poll(w, a)
  PROVE  Inv'
  <1>1. poll' \in [Attempts -> 0..MaxPolls] BY AskedLess DEF Poll
  <1>2. outages' \in 0..MaxOutages /\ faults' \in 0..MaxFaults BY DEF Poll, Inv, TypeOK
  <1>3. CASE attempt[a].state = "paid" /\ Payable(attempt[a].of)
    BY <1>1, <1>3, LoadKeeps DEF Poll
  <1>4. CASE ~(attempt[a].state = "paid" /\ Payable(attempt[a].of))
    BY <1>1, <1>2, <1>4, QuietKeeps DEF Poll
  <1> QED BY <1>3, <1>4

LEMMA OutageKeeps ==
  ASSUME Inv, NEW a \in Attempts, Outage(a)
  PROVE  Inv'
  <1>1. poll' \in [Attempts -> 0..MaxPolls] BY AskedLess DEF Outage
  <1>2. outages' \in 0..MaxOutages BY Constants DEF Outage, Inv, TypeOK
  <1>3. faults' \in 0..MaxFaults BY DEF Outage, Inv, TypeOK
  <1> QED BY <1>1, <1>2, <1>3, QuietKeeps DEF Outage

LEMMA BeginNotifyKeeps ==
  ASSUME Inv, NEW w \in Workers, NEW a \in Attempts, BeginNotify(w, a)
  PROVE  Inv'
  <1> DEFINE n == [NoTask EXCEPT !.pc = "notified", !.attempt = a, !.row = row[attempt[a].of]]
  <1>1. attempt[a].of \in Purchases BY DEF Inv, Made, BeginNotify
  <1>2. row[attempt[a].of] \in Row /\ GoodRow(attempt[a].of, kind[attempt[a].of], row[attempt[a].of], attempt)
    BY <1>1, Types DEF Inv
  <1>3. n \in Tasks /\ n.pc = "notified" /\ n.attempt = a /\ n.row = row[attempt[a].of]
    BY <1>2, IdleTask DEF Tasks, NoTask
  <1>4. task' = [task EXCEPT ![w] = n] BY DEF BeginNotify, Hold
  <1>5. Began(attempt[a]) /\ attempt[a].gateway = "profitgate" BY DEF BeginNotify, Began
  <1> HIDE DEF n
  <1>6. InHand(n, kind, attempt) /\ n.pc # "starting" BY <1>2, <1>3, <1>5 DEF InHand
  <1>7. \A p \in Purchases : ~Holds(n, p, attempt) BY <1>3 DEF Holds
  <1>8. poll' \in [Attempts -> 0..MaxPolls] /\ outages' \in 0..MaxOutages /\ faults' \in 0..MaxFaults
    BY DEF BeginNotify, Inv, TypeOK
  <1>9. UNCHANGED <<kind, row, attempt, credited, balance, bot>> BY DEF BeginNotify
  <1> QED BY <1>3, <1>4, <1>6, <1>7, <1>8, <1>9, TakeUp

LEMMA WriteKeeps ==
  ASSUME Inv, NEW w \in Workers, Write(w)
  PROVE  Inv'
  <1> DEFINE n == [task[w] EXCEPT !.pc = "written", !.balance = balance[kind[Of(w)]]]
  <1>1. /\ task[w].pc = "loaded" /\ task[w] \in Tasks /\ InHand(task[w], kind, attempt)
    BY Types DEF Write, Inv
  <1>2. CASE kind[Of(w)] = "assistant" /\ task[w].row.info.text
    <2>1. faults' \in 0..MaxFaults BY DEF Write, Inv, TypeOK
    <2> QED BY <1>2, <2>1, LetGo DEF Write
  <1>3. CASE ~(kind[Of(w)] = "assistant" /\ task[w].row.info.text)
    <2>1. Of(w) \in Purchases BY <1>1 DEF Inv, Made, InHand, Of
    <2>2. balance[kind[Of(w)]] \in Nat BY <2>1, Types
    <2>3. n \in Tasks /\ n.pc = "written" /\ n.attempt = task[w].attempt /\ n.row = task[w].row
      BY <1>1, <2>2 DEF Tasks
    <2>4. task' = [task EXCEPT ![w] = n] BY <1>3, Types DEF Write
    <2>5. UNCHANGED <<kind, row, attempt, credited, balance, bot>> BY DEF Write
    <2>6. poll' \in [Attempts -> 0..MaxPolls] /\ outages' \in 0..MaxOutages /\ faults' \in 0..MaxFaults
      BY DEF Write, Inv, TypeOK
    <2> HIDE DEF n
    <2>7. InHand(n, kind, attempt) /\ n.pc # "starting" BY <1>1, <2>3 DEF InHand
    <2>8. \A p \in Purchases : Holds(n, p, attempt) => Holds(task[w], p, attempt)
      BY <1>1, <2>3 DEF Holds
    <2> QED BY <2>3, <2>4, <2>5, <2>6, <2>7, <2>8, TakeUp
  <1> QED BY <1>2, <1>3

LEMMA FailKeeps ==
  ASSUME Inv, NEW w \in Workers, Fail(w)
  PROVE  Inv'
  <1>1. faults' \in 0..MaxFaults BY Constants DEF Fail, Inv, TypeOK
  <1> QED BY <1>1, LetGo DEF Fail

-----------------------------------------------------------------------------
(* Steps that write a row or an attempt and credit nothing. *)

LEMMA SameHolds ==
  ASSUME Inv, Grown(attempt, attempt'), NEW v \in Workers, NEW p, Holds(task[v], p, attempt')
  PROVE  Holds(task[v], p, attempt)
  <1>1. task[v].attempt \in Attempts /\ Began(attempt[task[v].attempt])
    BY DEF Inv, InHand, Holds, Began
  <1> QED BY <1>1 DEF Grown, Holds

LEMMA Step ==
  ASSUME Inv, Grown(attempt, attempt'), UNCHANGED <<kind, credited, balance, bot>>,
         attempt' \in [Attempts -> Tries], Made(attempt'),
         task' \in [Workers -> Tasks], \A w \in Workers : InHand(task'[w], kind', attempt'), OneStarts',
         \A w \in Workers : task'[w] = task[w] \/ task'[w].pc \in {"idle", "starting"},
         row' \in [Purchases -> Row],
         \A p \in Purchases : GoodRow(p, kind[p], row'[p], attempt'),
         \A p \in Purchases :
           row[p].is_processed => row'[p].is_processed \/ Through(p, {"profitgate"}, attempt'),
         poll' \in [Attempts -> 0..MaxPolls], outages' = outages, faults' = faults
  PROVE  Inv'
  <1>1. TypeOK' BY DEF Inv, TypeOK, Tasks, Tries
  <1>2. ASSUME NEW p \in Purchases PROVE Booked(p)'
    <2>1. ASSUME NEW w \in Workers, Holds(task'[w], p, attempt') PROVE Holds(task[w], p, attempt)
      <3>1. task'[w] = task[w] BY <2>1 DEF Holds
      <3> QED BY <2>1, <3>1, SameHolds
    <2>2. Holders(p)' \subseteq Holders(p) BY <2>1 DEF Holders
    <2> QED BY <2>2, BookedKept
  <1> QED BY <1>1, <1>2 DEF Inv

LEMMA PutAttempt ==
  ASSUME Inv, NEW a \in Attempts, NEW x \in Tries, attempt' = [attempt EXCEPT ![a] = x],
         x.state # "none" => x.of \in Purchases /\ x.gateway \in Gateways
  PROVE  /\ attempt' \in [Attempts -> Tries] /\ Made(attempt') /\ attempt'[a] = x
         /\ \A b \in Attempts \ {a} : attempt'[b] = attempt[b]
  BY Types DEF Inv, Made

LEMMA StateSet ==
  ASSUME Inv, NEW a \in Attempts, NEW s, SetState(a, s)
  PROVE  attempt'[a].state = s
  <1>1. attempt[a] \in Tries /\ attempt'[a] = [attempt[a] EXCEPT !.state = s] BY Types DEF SetState
  <1> QED BY <1>1 DEF Tries

(* The payer pays, or the gateway gives up: an open attempt is settled. *)
LEMMA SettledKeeps ==
  ASSUME Inv, NEW a \in Attempts, NEW s \in {"paid", "failed"},
         attempt[a].state = "open", SetState(a, s),
         UNCHANGED <<kind, row, poll, task, credited, balance, bot, outages, faults>>
  PROVE  Inv'
  <1> DEFINE x == [attempt[a] EXCEPT !.state = s]
  <1>1. attempt[a] \in Tries /\ attempt[a].of \in Purchases /\ attempt[a].gateway \in Gateways
    BY Types DEF Inv, Made
  <1>2. /\ x \in Tries /\ x.state = s /\ x.of = attempt[a].of /\ x.gateway = attempt[a].gateway
    BY <1>1 DEF Tries
  <1>3. attempt' = [attempt EXCEPT ![a] = x] BY Types DEF SetState
  <1> HIDE DEF x
  <1>4. /\ attempt' \in [Attempts -> Tries] /\ Made(attempt') /\ attempt'[a] = x
        /\ \A b \in Attempts \ {a} : attempt'[b] = attempt[b]
    BY <1>1, <1>2, <1>3, PutAttempt
  <1>5. Grown(attempt, attempt') BY <1>2, <1>4 DEF Grown, Began
  <1>6. ASSUME NEW w \in Workers PROVE InHand(task'[w], kind', attempt')
    <2>1. task[w].pc = "starting" => attempt'[task[w].attempt].state = "starting"
      BY <1>4 DEF Inv, InHand
    <2> QED BY <1>5, <2>1, HandGrows DEF Inv
  <1>7. OneStarts' BY DEF Inv, OneStarts
  <1>8. \A p \in Purchases : GoodRow(p, kind[p], row'[p], attempt') BY <1>5, RowGrows DEF Inv
  <1> QED BY <1>4, <1>5, <1>6, <1>7, <1>8, Types, Step

LEMMA PayKeeps ==
  ASSUME Inv, NEW a \in Attempts, Pay(a) \/ Decline(a)
  PROVE  Inv'
  BY SettledKeeps DEF Pay, Decline

LEMMA BeginStartKeeps ==
  ASSUME Inv, NEW w \in Workers, NEW p \in Purchases, NEW g \in Gateways, BeginStart(w, p, g)
  PROVE  Inv'
  <1>1. PICK a \in Attempts :
          /\ attempt[a] = NoAttempt
          /\ attempt' = [attempt EXCEPT ![a] = [state |-> "starting", of |-> p, gateway |-> g]]
          /\ Turn(w, "starting", a)
    BY DEF BeginStart
  <1> DEFINE x == [state |-> "starting", of |-> p, gateway |-> g]
             n == [NoTask EXCEPT !.pc = "starting", !.attempt = a]
  <1>2. x \in Tries /\ x.state = "starting" /\ x.of = p /\ x.gateway = g BY DEF Tries
  <1>3. attempt' = [attempt EXCEPT ![a] = x] /\ attempt[a].state = "none" BY <1>1 DEF NoAttempt
  <1>4. n \in Tasks /\ n.pc = "starting" /\ n.attempt = a BY IdleTask DEF Tasks, NoTask
  <1>5. task' = [task EXCEPT ![w] = n] BY <1>1 DEF Turn
  <1>6. UNCHANGED <<kind, row, poll, credited, balance, bot, outages, faults>> BY DEF BeginStart
  <1> HIDE DEF x, n
  <1>7. /\ attempt' \in [Attempts -> Tries] /\ Made(attempt') /\ attempt'[a] = x
        /\ \A b \in Attempts \ {a} : attempt'[b] = attempt[b]
    BY <1>2, <1>3, PutAttempt
  <1>8. Grown(attempt, attempt') BY <1>3, <1>7 DEF Grown, Began
  <1>9. \A v \in Workers \ {w} : task[v].pc = "starting" =>
          attempt'[task[v].attempt].state = "starting" /\ task[v].attempt # n.attempt
    BY <1>3, <1>4, <1>7 DEF Inv, InHand
  <1>10. InHand(n, kind, attempt') BY <1>2, <1>4, <1>7 DEF InHand
  <1>11. /\ task' \in [Workers -> Tasks] /\ task'[w] = n
         /\ \A v \in Workers \ {w} : task'[v] = task[v]
         /\ \A v \in Workers : InHand(task'[v], kind', attempt')
         /\ OneStarts'
    BY <1>4, <1>5, <1>6, <1>8, <1>9, <1>10, PutTask
  <1>12. \A q \in Purchases : GoodRow(q, kind[q], row'[q], attempt') BY <1>6, <1>8, RowGrows DEF Inv
  <1>13. \A v \in Workers : task'[v] = task[v] \/ task'[v].pc \in {"idle", "starting"}
    BY <1>4, <1>11
  <1> QED BY <1>6, <1>7, <1>8, <1>11, <1>12, <1>13, Types, Step

(* A worker that ends. *)
LEMMA EndTask ==
  ASSUME Inv, NEW w \in Workers, End(w), kind' = kind, Grown(attempt, attempt'),
         \A v \in Workers \ {w} : task[v].pc = "starting" => attempt'[task[v].attempt].state = "starting"
  PROVE  /\ task' \in [Workers -> Tasks] /\ task'[w] = NoTask
         /\ \A v \in Workers \ {w} : task'[v] = task[v]
         /\ \A v \in Workers : InHand(task'[v], kind', attempt')
         /\ OneStarts'
         /\ \A v \in Workers : task'[v] = task[v] \/ task'[v].pc \in {"idle", "starting"}
  <1>1. task' = [task EXCEPT ![w] = NoTask] BY DEF End
  <1>2. InHand(NoTask, kind, attempt') /\ NoTask.pc # "starting" BY IdleTask
  <1>3. /\ task' \in [Workers -> Tasks] /\ task'[w] = NoTask
        /\ \A v \in Workers \ {w} : task'[v] = task[v]
        /\ \A v \in Workers : InHand(task'[v], kind', attempt')
        /\ OneStarts'
    BY <1>1, <1>2, IdleTask, PutTask
  <1>4. \A v \in Workers : task'[v] = task[v] \/ task'[v].pc \in {"idle", "starting"}
    BY <1>3, IdleTask
  <1> QED BY <1>3, <1>4

LEMMA StoredInfoFacts ==
  ASSUME Inv, NEW a \in Attempts, attempt[a].state # "none"
  PROVE  /\ StoredInfo(a) \in Info
         /\ \/ StoredInfo(a) = row[attempt[a].of].info
            \/ attempt[a].gateway \notin {"plain", "unaware"}
  <1>1. row[attempt[a].of].info \in Info BY Types DEF Inv, Made, Row
  <1>2. CASE attempt[a].gateway \in {"plain", "unaware"} BY <1>1, <1>2 DEF StoredInfo
  <1>3. CASE attempt[a].gateway \notin {"plain", "unaware"}
    <2> DEFINE i == [text |-> attempt[a].gateway = "maaly",
                     intent |-> IF attempt[a].gateway = "zina" THEN a ELSE 0, plans |-> FALSE]
    <2>1. i \in Info BY DEF Info
    <2>2. StoredInfo(a) = i BY <1>3 DEF StoredInfo
    <2> HIDE DEF i
    <2> QED BY <1>3, <2>1, <2>2
  <1> QED BY <1>2, <1>3

LEMMA FinishStartKeeps ==
  ASSUME Inv, NEW w \in Workers, FinishStart(w)
  PROVE  Inv'
  <1> DEFINE a == task[w].attempt
             p == attempt[a].of
             g == attempt[a].gateway
  <1>1. /\ a \in Attempts /\ attempt[a].state = "starting" /\ p \in Purchases
        /\ attempt[a] \in Tries /\ g \in Gateways /\ task[w].pc = "starting"
    <2>1. task[w].pc = "starting" BY DEF FinishStart
    <2>2. a \in Attempts /\ attempt[a].state = "starting" BY <2>1 DEF Inv, InHand
    <2>3. p \in Purchases /\ g \in Gateways /\ attempt[a] \in Tries BY <2>2, Types DEF Inv, Made
    <2> QED BY <2>1, <2>2, <2>3
  <1>2. UNCHANGED <<kind, credited, balance, bot, outages, faults>> /\ End(w)
    BY DEF FinishStart
  <1>3. \A v \in Workers \ {w} : task[v].pc = "starting" =>
          task[v].attempt \in Attempts \ {a} /\ attempt[task[v].attempt].state = "starting"
    BY <1>1 DEF Inv, InHand, OneStarts
  <1>4. \/ /\ SetState(a, "open") /\ row' = [row EXCEPT ![p].info = StoredInfo(a)]
           /\ poll' = [poll EXCEPT ![a] = IF g = "maaly" THEN MaxPolls ELSE 0]
        \/ /\ SetState(a, "refused") /\ row' = [row EXCEPT ![p].info = StoredInfo(a)]
           /\ UNCHANGED poll /\ g \in {"maaly", "zina"}
        \/ attempt' = [attempt EXCEPT ![a] = NoAttempt] /\ UNCHANGED <<row, poll>>
    BY DEF FinishStart, Of
  <1>5. StoredInfo(a) \in Info /\ (StoredInfo(a) = row[p].info \/ g \notin {"plain", "unaware"})
    BY <1>1, StoredInfoFacts
  <1>6. StoredInfo(a).plans = row[p].info.plans \/ g \in {"maaly", "zina", "profitgate"}
    <2>1. g \in AllGateways BY <1>1, PurchasesAssumption
    <2>2. CASE g \in {"plain", "unaware"} BY <1>5, <2>2
    <2> QED BY <2>1, <2>2 DEF AllGateways
  <1>7. PICK s \in {"none", "refused", "open"} : attempt'[a].state = s
    <2>1. \A s \in {"open", "refused"} : SetState(a, s) => attempt'[a].state = s BY <1>1, StateSet
    <2>2. attempt' = [attempt EXCEPT ![a] = NoAttempt] => attempt'[a].state = "none"
      BY <1>1, Types DEF NoAttempt
    <2> QED BY <1>4, <2>1, <2>2
  <1>8. /\ attempt' \in [Attempts -> Tries] /\ Made(attempt')
        /\ \A b \in Attempts \ {a} : attempt'[b] = attempt[b]
        /\ s # "none" => attempt'[a].of = p /\ attempt'[a].gateway = g
    <2>1. ASSUME NEW t \in {"refused", "open"}, SetState(a, t)
          PROVE  /\ attempt' \in [Attempts -> Tries] /\ Made(attempt')
                 /\ \A b \in Attempts \ {a} : attempt'[b] = attempt[b]
                 /\ attempt'[a].of = p /\ attempt'[a].gateway = g
      <3> DEFINE x == [attempt[a] EXCEPT !.state = t]
      <3>1. x \in Tries /\ x.of = p /\ x.gateway = g BY <1>1 DEF Tries
      <3>2. attempt' = [attempt EXCEPT ![a] = x] BY <2>1, Types DEF SetState
      <3> HIDE DEF x
      <3>3. /\ attempt' \in [Attempts -> Tries] /\ Made(attempt') /\ attempt'[a] = x
            /\ \A b \in Attempts \ {a} : attempt'[b] = attempt[b]
        BY <1>1, <3>1, <3>2, PutAttempt
      <3> QED BY <3>1, <3>3
    <2>2. CASE attempt' = [attempt EXCEPT ![a] = NoAttempt]
      <3>1. NoAttempt \in Tries /\ NoAttempt.state = "none" BY DEF NoAttempt, Tries
      <3>2. /\ attempt' \in [Attempts -> Tries] /\ Made(attempt') /\ attempt'[a] = NoAttempt
            /\ \A b \in Attempts \ {a} : attempt'[b] = attempt[b]
        BY <1>1, <2>2, <3>1, PutAttempt
      <3> QED BY <1>7, <3>1, <3>2
    <2> QED BY <1>4, <2>1, <2>2
  <1>9. Grown(attempt, attempt') BY <1>1, <1>8 DEF Grown, Began
  <1>10. /\ task' \in [Workers -> Tasks]
         /\ \A v \in Workers : InHand(task'[v], kind', attempt')
         /\ OneStarts'
         /\ \A v \in Workers : task'[v] = task[v] \/ task'[v].pc \in {"idle", "starting"}
    <2>1. \A v \in Workers \ {w} : task[v].pc = "starting" => attempt'[task[v].attempt].state = "starting"
      BY <1>3, <1>8
    <2> QED BY <1>2, <1>9, <2>1, EndTask
  <1>11. /\ row' \in [Purchases -> Row]
         /\ \A q \in Purchases : row'[q].is_processed = row[q].is_processed
         /\ \A q \in Purchases : row'[q].payment_status = row[q].payment_status
         /\ \A q \in Purchases :
              \/ row'[q].info.plans = row[q].info.plans
              \/ q = p /\ g \in {"maaly", "zina", "profitgate"} /\ s # "none"
    <2>1. CASE row' = [row EXCEPT ![p].info = StoredInfo(a)] /\ s # "none"
      <3>1. row \in [Purchases -> Row] BY Types
      <3>2. [row[p] EXCEPT !.info = StoredInfo(a)] \in Row BY <1>1, <1>5, <3>1 DEF Row
      <3>3. row' = [row EXCEPT ![p] = [row[p] EXCEPT !.info = StoredInfo(a)]] BY <1>1, <2>1, <3>1
      <3>4. row' \in [Purchases -> Row] BY <3>1, <3>2, <3>3
      <3>5. \A q \in Purchases : q # p => row'[q] = row[q] BY <3>1, <3>3
      <3>6. row'[p] = [row[p] EXCEPT !.info = StoredInfo(a)] BY <1>1, <3>1, <3>3
      <3>7. /\ row'[p].is_processed = row[p].is_processed
            /\ row'[p].payment_status = row[p].payment_status
            /\ row'[p].info = StoredInfo(a)
        BY <1>1, <3>1, <3>6 DEF Row
      <3> QED BY <1>6, <2>1, <3>4, <3>5, <3>7
    <2>2. CASE row' = row BY <2>2, Types
    <2>3. SetState(a, "open") \/ SetState(a, "refused") => s # "none"
      BY <1>1, <1>7, StateSet
    <2> QED BY <1>4, <2>1, <2>2, <2>3
  <1>12. ASSUME NEW q \in Purchases PROVE GoodRow(q, kind[q], row'[q], attempt')
    <2>1. GoodRow(q, kind[q], row[q], attempt') BY <1>9, RowGrows DEF Inv
    <2>2. CASE row'[q].info.plans = row[q].info.plans BY <1>11, <2>1, <2>2 DEF GoodRow
    <2>3. CASE q = p /\ g \in {"maaly", "zina", "profitgate"} /\ s # "none"
      <3>1. Through(q, {"maaly", "zina", "profitgate"}, attempt')
        BY <1>1, <1>7, <1>8, <2>3 DEF Through, Began
      <3> QED BY <1>11, <2>1, <3>1 DEF GoodRow
    <2> QED BY <1>11, <2>2, <2>3
  <1>13. poll' \in [Attempts -> 0..MaxPolls]
    <2>1. MaxPolls \in 0..MaxPolls /\ 0 \in 0..MaxPolls BY Constants
    <2>2. poll \in [Attempts -> 0..MaxPolls] BY Types
    <2> QED BY <1>4, <2>1, <2>2
  <1> HIDE DEF a, p, g
  <1> QED BY <1>2, <1>8, <1>9, <1>10, <1>11, <1>12, <1>13, Step

-----------------------------------------------------------------------------
(* Rows written by ZinaPay's refusal and by Profitgate. *)

LEMMA RefuseKeeps ==
  ASSUME Inv, NEW w \in Workers, Refuse(w)
  PROVE  Inv'
  <1> DEFINE p == Of(w)
  <1>1. /\ task[w].pc = "refusing" /\ End(w)
        /\ row' = [row EXCEPT ![p].payment_status = "rejected"]
        /\ UNCHANGED <<kind, attempt, poll, credited, balance, bot, outages, faults>>
    BY DEF Refuse
  <1>2. /\ task[w].attempt \in Attempts /\ attempt[task[w].attempt].gateway = "zina"
        /\ attempt[task[w].attempt].state = "failed" /\ attempt[task[w].attempt].of = p
    BY <1>1 DEF Inv, InHand, Of
  <1>3. p \in Purchases /\ FailedAtZina(p, attempt) BY <1>2 DEF Inv, Made, FailedAtZina
  <1> HIDE DEF p
  <1>4. row \in [Purchases -> Row] BY Types
  <1>5. row' = [row EXCEPT ![p] = [row[p] EXCEPT !.payment_status = "rejected"]] BY <1>1, <1>3, <1>4
  <1>6. [row[p] EXCEPT !.payment_status = "rejected"] \in Row BY <1>3, <1>4 DEF Row
  <1>7. /\ row' \in [Purchases -> Row] /\ \A q \in Purchases : q # p => row'[q] = row[q]
        /\ row'[p] = [row[p] EXCEPT !.payment_status = "rejected"]
    BY <1>3, <1>4, <1>5, <1>6
  <1>8. row'[p].is_processed = row[p].is_processed /\ row'[p].info = row[p].info
    BY <1>3, <1>4, <1>7 DEF Row
  <1>9. ASSUME NEW q \in Purchases PROVE GoodRow(q, kind[q], row'[q], attempt')
    <2>1. GoodRow(q, kind[q], row[q], attempt) BY DEF Inv
    <2>2. CASE q = p BY <1>1, <1>3, <1>8, <2>1, <2>2 DEF GoodRow
    <2>3. CASE q # p BY <1>1, <1>7, <2>1, <2>3
    <2> QED BY <2>2, <2>3
  <1>10. Grown(attempt, attempt') BY <1>1, SameGrown
  <1>11. /\ task' \in [Workers -> Tasks]
         /\ \A v \in Workers : InHand(task'[v], kind', attempt')
         /\ OneStarts'
         /\ \A v \in Workers : task'[v] = task[v] \/ task'[v].pc \in {"idle", "starting"}
    <2>1. \A v \in Workers \ {w} : task[v].pc = "starting" => attempt'[task[v].attempt].state = "starting"
      BY <1>1 DEF Inv, InHand
    <2> QED BY <1>1, <1>10, <2>1, EndTask
  <1>12. attempt' \in [Attempts -> Tries] /\ Made(attempt') BY <1>1, Types DEF Inv
  <1>13. poll' \in [Attempts -> 0..MaxPolls] BY <1>1, Types
  <1> QED BY <1>1, <1>7, <1>8, <1>9, <1>10, <1>11, <1>12, <1>13, Step

LEMMA NotifyKeeps ==
  ASSUME Inv, NEW w \in Workers, Notify(w)
  PROVE  Inv'
  <1> DEFINE p == Of(w)
             r == task[w].row
  <1>1. /\ task[w].pc = "notified" /\ End(w)
        /\ UNCHANGED <<kind, attempt, poll, credited, balance, bot, outages, faults>>
    BY DEF Notify
  <1>2. /\ task[w].attempt \in Attempts /\ attempt[task[w].attempt].gateway = "profitgate"
        /\ Began(attempt[task[w].attempt]) /\ GoodRow(p, kind[p], r, attempt)
        /\ attempt[task[w].attempt].of = p
    BY <1>1 DEF Inv, InHand, Of
  <1>3. p \in Purchases /\ Through(p, {"profitgate"}, attempt)
    BY <1>2 DEF Inv, Made, Through, Began
  <1>4. r \in Row BY Types DEF Tasks
  <1>5. PICK status \in {"accepted", "SUCCESS", "FAILED"} : row' = [row EXCEPT ![p] = [r EXCEPT !.status = status]]
    BY <1>4 DEF Notify, Row
  <1>6. /\ [r EXCEPT !.status = status] \in Row
        /\ GoodRow(p, kind[p], [r EXCEPT !.status = status], attempt)
    BY <1>2, <1>4 DEF Row, GoodRow
  <1> HIDE DEF p, r
  <1>7. /\ row' \in [Purchases -> Row] /\ row'[p] = [r EXCEPT !.status = status]
        /\ \A q \in Purchases : q # p => row'[q] = row[q]
    BY <1>3, <1>5, <1>6, Types
  <1>8. \A q \in Purchases : GoodRow(q, kind[q], row'[q], attempt')
    BY <1>1, <1>6, <1>7 DEF Inv
  <1>9. \A q \in Purchases : row[q].is_processed => row'[q].is_processed \/ Through(q, {"profitgate"}, attempt')
    BY <1>1, <1>3, <1>7
  <1>10. Grown(attempt, attempt') BY <1>1, SameGrown
  <1>11. /\ task' \in [Workers -> Tasks]
         /\ \A v \in Workers : InHand(task'[v], kind', attempt')
         /\ OneStarts'
         /\ \A v \in Workers : task'[v] = task[v] \/ task'[v].pc \in {"idle", "starting"}
    <2>1. \A v \in Workers \ {w} : task[v].pc = "starting" => attempt'[task[v].attempt].state = "starting"
      BY <1>1 DEF Inv, InHand
    <2> QED BY <1>1, <1>10, <2>1, EndTask
  <1>12. attempt' \in [Attempts -> Tries] /\ Made(attempt') BY <1>1, Types DEF Inv
  <1>13. poll' \in [Attempts -> 0..MaxPolls] BY <1>1, Types
  <1> QED BY <1>1, <1>7, <1>8, <1>9, <1>10, <1>11, <1>12, <1>13, Step

-----------------------------------------------------------------------------
(* An acceptance is committed: the purchase is handed over. *)

LEMMA CommitKeeps ==
  ASSUME Inv, NEW w \in Workers, Commit(w)
  PROVE  Inv'
  <1> DEFINE p == Of(w)
             r == task[w].row
             n == [r EXCEPT !.is_processed = TRUE, !.payment_status = "accepted"]
  <1>1. /\ task[w].pc = "written" /\ End(w)
        /\ row' = [row EXCEPT ![p] = n]
        /\ credited' = [credited EXCEPT ![p] = @ + 1]
        /\ bot' = IF r.info.plans THEN bot \union {p} ELSE bot
        /\ UNCHANGED <<kind, attempt, poll, outages, faults>>
    BY DEF Commit
  <1>2. /\ task[w].attempt \in Attempts /\ attempt[task[w].attempt].state = "paid"
        /\ attempt[task[w].attempt].of = p /\ GoodRow(p, kind[p], r, attempt)
    BY <1>1 DEF Inv, InHand, Of
  <1>3. p \in Purchases /\ PaidFor(p, attempt) BY <1>2 DEF Inv, Made, PaidFor
  <1>4. r \in Row /\ task[w] \in Tasks BY Types DEF Tasks
  <1>5. /\ n \in Row /\ n.is_processed /\ GoodRow(p, kind[p], n, attempt)
    BY <1>2, <1>3, <1>4 DEF Row, GoodRow
  <1>6. balance' \in [Kinds -> Nat]
    <2>1. CreditedBalance(w) \in Nat BY <1>4 DEF CreditedBalance, Tasks
    <2>2. kind[p] \in Kinds BY <1>3, Types
    <2>3. balance' = [balance EXCEPT ![kind[p]] = IF kind[p] = "assistant" THEN @ ELSE CreditedBalance(w)]
      BY DEF Commit
    <2> QED BY <2>1, <2>2, <2>3, Types
  <1> HIDE DEF p, r, n
  <1>7. /\ row' \in [Purchases -> Row] /\ row'[p] = n
        /\ \A q \in Purchases : q # p => row'[q] = row[q]
    BY <1>1, <1>3, <1>5, Types
  <1>8. \A q \in Purchases : GoodRow(q, kind'[q], row'[q], attempt')
    BY <1>1, <1>5, <1>7 DEF Inv
  <1>9. /\ credited' \in [Purchases -> Nat] /\ credited'[p] = credited[p] + 1
        /\ \A q \in Purchases : q # p => credited'[q] = credited[q]
    BY <1>1, <1>3, Types
  <1>10. /\ task' \in [Workers -> Tasks] /\ task'[w] = NoTask
         /\ \A v \in Workers \ {w} : task'[v] = task[v]
         /\ \A v \in Workers : InHand(task'[v], kind', attempt')
         /\ OneStarts'
    <2>1. Grown(attempt, attempt') BY <1>1, SameGrown
    <2>2. \A v \in Workers \ {w} : task[v].pc = "starting" => attempt'[task[v].attempt].state = "starting"
      BY <1>1 DEF Inv, InHand
    <2> QED BY <1>1, <2>1, <2>2, EndTask
  <1>11. TypeOK'
    <2>1. bot' \subseteq Purchases BY <1>1, <1>3 DEF Inv, TypeOK
    <2> QED BY <1>1, <1>6, <1>7, <1>9, <1>10, <2>1 DEF Inv, TypeOK, Tasks
  <1>12. ASSUME NEW q \in Purchases PROVE Booked(q)'
    <2>1. Booked(q) /\ credited[q] \in Nat BY Types DEF Inv
    <2>2. \A v \in Workers : Holds(task'[v], q, attempt') => Holds(task[v], q, attempt)
      BY <1>1, <1>10, IdleTask DEF Holds
    <2>3. Holders(q)' \subseteq Holders(q) BY <2>2 DEF Holders
    <2>4. CASE q # p
      <3>1. /\ credited'[q] = credited[q] /\ row'[q] = row[q] /\ kind' = kind /\ attempt' = attempt
            /\ bot \subseteq bot'
        BY <1>1, <1>7, <1>9, <2>4
      <3>2. Cardinality(Holders(q)') <= Cardinality(Holders(q)) /\ Cardinality(Holders(q)') \in Nat
        BY <2>3, HolderSets
      <3>3. Untouched(q) => Untouched(q)'
        BY <2>1, <3>1, <3>2, HolderSets DEF Untouched
      <3> QED BY <2>1, <3>1, <3>3 DEF Booked
    <2>5. CASE q = p
      <3>1. PaidFor(q, attempt') BY <1>1, <1>3, <2>5
      <3>2. kind'[q] = "assistant" => q \in bot' \/ Through(q, {"maaly", "zina", "profitgate"}, attempt')
        BY <1>1, <1>2, <2>5 DEF GoodRow
      <3>3. Untouched(q) => Untouched(q)'
        <4>1. Holds(task[w], q, attempt) BY <1>1, <1>2, <2>5 DEF Holds
        <4>2. w \in Holders(q) /\ w \notin Holders(q)'
          BY <1>10, <4>1, IdleTask DEF Holders, Holds
        <4>3. Holders(q)' \subseteq Holders(q) \ {w} BY <2>3, <4>2
        <4>4. /\ IsFiniteSet(Holders(q) \ {w})
              /\ Cardinality(Holders(q) \ {w}) = Cardinality(Holders(q)) - 1
          BY <4>2, HolderSets, FS_RemoveElement
        <4>5. Cardinality(Holders(q)') <= Cardinality(Holders(q) \ {w}) /\ Cardinality(Holders(q)') \in Nat
          BY <4>3, <4>4, FS_Subset, FS_CardinalityType
        <4>6. credited'[q] = credited[q] + 1 /\ row'[q].is_processed BY <1>5, <1>7, <1>9, <2>5
        <4> QED BY <2>1, <4>4, <4>5, <4>6, HolderSets DEF Untouched
      <3> QED BY <1>1, <2>1, <3>1, <3>2, <3>3 DEF Booked
    <2> QED BY <2>4, <2>5
  <1>13. Made(attempt') BY <1>1 DEF Inv
  <1> QED BY <1>8, <1>10, <1>11, <1>12, <1>13 DEF Inv

-----------------------------------------------------------------------------
LEMMA InitInv == Init => Inv
  <1> SUFFICES ASSUME Init PROVE Inv OBVIOUS
  <1>1. /\ kind \in [Purchases -> Kinds] /\ row = [p \in Purchases |-> NewRow(kind[p])]
        /\ attempt = [a \in Attempts |-> NoAttempt] /\ poll = [a \in Attempts |-> 0]
        /\ task = [w \in Workers |-> NoTask] /\ credited = [p \in Purchases |-> 0]
        /\ balance = [k \in Kinds |-> 0] /\ bot = {} /\ outages = 0 /\ faults = 0
    BY DEF Init
  <1>2. NoAttempt \in Tries /\ NoAttempt.state = "none" BY DEF NoAttempt, Tries
  <1>3. 0 \in 0..MaxPolls /\ 0 \in 0..MaxOutages /\ 0 \in 0..MaxFaults BY Constants
  <1>4. row \in [Purchases -> Row] BY <1>1, NewRows
  <1>5. TypeOK BY <1>1, <1>2, <1>3, <1>4, IdleTask DEF TypeOK, Tasks, Tries
  <1>6. Made(attempt) BY <1>1, <1>2 DEF Made
  <1>7. ASSUME NEW p \in Purchases PROVE GoodRow(p, kind[p], row[p], attempt)
    <2>1. row[p] = NewRow(kind[p]) BY <1>1
    <2>2. row[p].is_processed = FALSE /\ row[p].payment_status = "in_progress" BY <2>1 DEF NewRow
    <2>3. row[p].info.plans = (kind[p] = "assistant") BY <2>1, NewRows
    <2> QED BY <2>2, <2>3 DEF GoodRow
  <1>8. \A w \in Workers : InHand(task[w], kind, attempt) BY <1>1, IdleTask
  <1>9. OneStarts BY <1>1, IdleTask DEF OneStarts
  <1>10. ASSUME NEW p \in Purchases PROVE Booked(p)
    <2>1. Holders(p) = {} BY <1>1, IdleTask DEF Holders, Holds
    <2>2. Cardinality(Holders(p)) = 0 BY <2>1, FS_EmptySet
    <2> QED BY <1>1, <2>2, HolderSets DEF Booked, Untouched
  <1> QED BY <1>5, <1>6, <1>7, <1>8, <1>9, <1>10 DEF Inv

LEMMA NextKeepsInv == Inv /\ [Next]_vars => Inv'
  <1> SUFFICES ASSUME Inv, [Next]_vars PROVE Inv' OBVIOUS
  <1>1. ASSUME NEW w \in Workers, Work(w) \/ Fail(w) PROVE Inv'
    BY <1>1, FinishStartKeeps, AskedKeeps, WriteKeeps, CommitKeeps, RefuseKeeps, NotifyKeeps, FailKeeps
    DEF Work
  <1>2. ASSUME NEW w \in Workers, NEW p \in Purchases, NEW g \in Gateways, BeginStart(w, p, g) PROVE Inv'
    BY <1>2, BeginStartKeeps
  <1>3. ASSUME NEW w \in Workers, NEW a \in Attempts, Webhook(w, a) PROVE Inv' BY <1>3, WebhookKeeps
  <1>4. ASSUME NEW w \in Workers, NEW a \in Attempts, Return(w, a) PROVE Inv'
    BY <1>4, TurnKeeps DEF Return
  <1>5. ASSUME NEW w \in Workers, NEW a \in Attempts, Poll(w, a) PROVE Inv' BY <1>5, PollKeeps
  <1>6. ASSUME NEW w \in Workers, NEW a \in Attempts, BeginRefuse(w, a) PROVE Inv'
    BY <1>6, TurnKeeps DEF BeginRefuse
  <1>7. ASSUME NEW w \in Workers, NEW a \in Attempts, BeginNotify(w, a) PROVE Inv'
    BY <1>7, BeginNotifyKeeps
  <1>8. ASSUME NEW a \in Attempts, Pay(a) \/ Decline(a) \/ Outage(a) PROVE Inv'
    BY <1>8, PayKeeps, OutageKeeps
  <1>9. CASE UNCHANGED vars
    <2>1. UNCHANGED <<kind, row, attempt, poll, task, credited, balance, bot, outages, faults>>
      BY <1>9 DEF vars
    <2>2. poll' \in [Attempts -> 0..MaxPolls] /\ outages' \in 0..MaxOutages /\ faults' \in 0..MaxFaults
      BY <2>1 DEF Inv, TypeOK
    <2> QED BY <2>1, <2>2, QuietKeeps
  <1> QED BY <1>1, <1>2, <1>3, <1>4, <1>5, <1>6, <1>7, <1>8, <1>9 DEF Next

LEMMA SpecInv == Spec => []Inv
  BY InitInv, NextKeepsInv, PTL DEF Spec

-----------------------------------------------------------------------------
(* The balance of the one who earns.  A worker that has written its row has *)
(* read the balance of then, and what it will write is at most one more; it *)
(* stays covered since no sale is ever taken back.                          *)

OfKind(k) == {p \in Purchases : kind[p] = k}

Covered(k) ==
  /\ balance[k] <= SumOf(credited, OfKind(k))
  /\ \A w \in Workers :
       task[w].pc = "written" /\ kind[Of(w)] = k => task[w].balance <= SumOf(credited, OfKind(k))

BalanceInv == \A k \in Kinds : Covered(k)

LEMMA KindSums ==
  ASSUME Inv, NEW k \in Kinds
  PROVE  /\ IsFiniteSet(OfKind(k)) /\ OfKind(k) \subseteq Purchases
         /\ \A p \in OfKind(k) : credited[p] \in Nat /\ credited[p] \in Int
         /\ SumOf(credited, OfKind(k)) \in Int /\ balance[k] \in Nat
         /\ SumOf(credited, OfKind(k)) = MapThenSumSet(LAMBDA p : credited[p], {p \in Purchases : kind[p] = k})
  <1>1. OfKind(k) \subseteq Purchases BY DEF OfKind
  <1>2. IsFiniteSet(OfKind(k)) BY <1>1, PurchasesAssumption, FS_Subset
  <1>3. \A p \in OfKind(k) : credited[p] \in Nat /\ credited[p] \in Int BY <1>1, Types
  <1>4. SumOf(credited, OfKind(k)) \in Int BY <1>2, <1>3, SumInt
  <1>5. SumOf(credited, OfKind(k)) = MapThenSumSet(LAMBDA p : credited[p], {p \in Purchases : kind[p] = k})
    BY DEF OfKind, SumOf, MapThenSumSet, MapThenFoldSet
  <1> QED BY <1>1, <1>2, <1>3, <1>4, <1>5, Types

(* A step that credits nothing, in which no worker writes. *)
LEMMA NobodyWrites ==
  ASSUME Inv, BalanceInv, UNCHANGED <<kind, credited, balance>>, Grown(attempt, attempt'),
         \A w \in Workers : task'[w].pc = "written" => task'[w] = task[w]
  PROVE  BalanceInv'
  <1>1. ASSUME NEW k \in Kinds, NEW w \in Workers, task'[w].pc = "written", kind'[Of(w)'] = k
        PROVE  task'[w].balance <= SumOf(credited, OfKind(k))
    <2>1. task'[w] = task[w] /\ task[w].pc = "written" BY <1>1
    <2>2. task[w].attempt \in Attempts /\ attempt[task[w].attempt].state = "paid" BY <2>1 DEF Inv, InHand
    <2>3. Of(w)' = Of(w) BY <2>1, <2>2 DEF Of, Grown, Began
    <2> QED BY <1>1, <2>1, <2>3 DEF BalanceInv, Covered
  <1>2. \A k \in Kinds : OfKind(k)' = OfKind(k) BY DEF OfKind
  <1> QED BY <1>1, <1>2 DEF BalanceInv, Covered

LEMMA PcOf ==
  ASSUME NEW pc, NEW a, NEW r
  PROVE  /\ [NoTask EXCEPT !.pc = pc, !.attempt = a].pc = pc
         /\ [NoTask EXCEPT !.pc = pc, !.attempt = a, !.row = r].pc = pc
  BY DEF NoTask

LEMMA NoneWritten ==
  ASSUME Inv, NEW w \in Workers, NEW a,
         \/ End(w)
         \/ \E pc : pc # "written" /\ Turn(w, pc, a)
         \/ \E pc : pc # "written" /\ Hold(w, pc, a)
  PROVE  \A v \in Workers : task'[v].pc = "written" => task'[v] = task[v]
  <1>1. PICK n : task' = [task EXCEPT ![w] = n] /\ n.pc # "written"
    <2>1. CASE End(w) BY <2>1, IdleTask DEF End
    <2>2. ASSUME NEW pc, pc # "written", Turn(w, pc, a)
          PROVE  \E n : task' = [task EXCEPT ![w] = n] /\ n.pc # "written"
      BY <2>2, PcOf DEF Turn
    <2>3. ASSUME NEW pc, pc # "written", Hold(w, pc, a)
          PROVE  \E n : task' = [task EXCEPT ![w] = n] /\ n.pc # "written"
      <3> DEFINE n == [NoTask EXCEPT !.pc = pc, !.attempt = a, !.row = row[attempt[a].of]]
      <3>1. n.pc = pc BY PcOf
      <3>2. task' = [task EXCEPT ![w] = n] BY <2>3 DEF Hold
      <3> HIDE DEF n
      <3> QED BY <2>3, <3>1, <3>2
    <2> QED BY <2>1, <2>2, <2>3
  <1> QED BY <1>1, Types

LEMMA WriteCovers ==
  ASSUME Inv, BalanceInv, NEW w \in Workers, Write(w)
  PROVE  BalanceInv'
  <1> DEFINE n == [task[w] EXCEPT !.pc = "written", !.balance = balance[kind[Of(w)]]]
  <1>1. UNCHANGED <<kind, attempt, credited, balance>> BY DEF Write
  <1>2. CASE End(w) BY <1>1, <1>2, NoneWritten, NobodyWrites, SameGrown
  <1>3. CASE task' = [task EXCEPT ![w].pc = "written", ![w].balance = balance[kind[Of(w)]]]
    <2>1. task[w] \in Tasks BY Types
    <2>2. task' = [task EXCEPT ![w] = n] BY <1>3
    <2>3. n.balance = balance[kind[Of(w)]] /\ n.attempt = task[w].attempt BY <2>1 DEF Tasks
    <2> HIDE DEF n
    <2>4. task'[w] = n /\ \A v \in Workers \ {w} : task'[v] = task[v] BY <2>2, Types
    <2>5. \A v \in Workers : Of(v)' = Of(v) BY <1>1, <2>3, <2>4 DEF Of
    <2>6. \A k \in Kinds : OfKind(k)' = OfKind(k) BY <1>1 DEF OfKind
    <2>7. ASSUME NEW k \in Kinds, NEW v \in Workers, task'[v].pc = "written", kind[Of(v)] = k
          PROVE  task'[v].balance <= SumOf(credited, OfKind(k))
      <3>1. CASE v = w BY <2>3, <2>4, <2>7, <3>1 DEF BalanceInv, Covered
      <3>2. CASE v # w BY <2>4, <2>7, <3>2 DEF BalanceInv, Covered
      <3> QED BY <3>1, <3>2
    <2> QED BY <1>1, <2>5, <2>6, <2>7 DEF BalanceInv, Covered
  <1> QED BY <1>2, <1>3 DEF Write

LEMMA CommitCovers ==
  ASSUME Inv, BalanceInv, NEW w \in Workers, Commit(w)
  PROVE  BalanceInv'
  <1> DEFINE p == Of(w)
             k == kind[p]
  <1>1. /\ task[w].pc = "written" /\ End(w) /\ UNCHANGED <<kind, attempt>>
        /\ credited' = [credited EXCEPT ![p] = @ + 1]
        /\ balance' = [balance EXCEPT ![k] = IF k = "assistant" THEN @ ELSE CreditedBalance(w)]
    BY DEF Commit
  <1>2. task[w].attempt \in Attempts /\ attempt[task[w].attempt].state = "paid"
    BY <1>1 DEF Inv, InHand
  <1>3. p \in Purchases /\ k \in Kinds BY <1>2, Types DEF Inv, Made, Of
  <1>4. task[w] \in Tasks BY Types
  <1>5. task[w].balance <= SumOf(credited, OfKind(k)) BY <1>1, <1>3 DEF BalanceInv, Covered
  <1>6. \A j \in Kinds : OfKind(j)' = OfKind(j) BY <1>1 DEF OfKind
  <1>7. ASSUME NEW v \in Workers, task'[v].pc = "written"
        PROVE  task[v].pc = "written" /\ task'[v].balance = task[v].balance /\ Of(v)' = Of(v)
    BY <1>1, <1>7, NoneWritten DEF Of
  <1> HIDE DEF p, k
  <1>8. k = kind[p] BY DEF k
  <1>9. credited'[p] = credited[p] + 1 /\ \A q \in Purchases \ {p} : credited'[q] = credited[q]
    BY <1>1, <1>3, Types
  <1>10. SumOf(credited', OfKind(k)) = SumOf(credited, OfKind(k)) + 1 /\ SumOf(credited, OfKind(k)) \in Int
    <2>1. p \in OfKind(k) BY <1>3, <1>8 DEF OfKind
    <2>2. ASSUME NEW q \in OfKind(k) PROVE credited[q] \in Int /\ credited'[q] \in Int
      <3>1. q \in Purchases /\ credited[q] \in Nat BY <1>3, KindSums
      <3>2. credited'[q] = credited[q] \/ credited'[q] = credited[q] + 1 BY <1>9, <3>1
      <3> QED BY <3>1, <3>2
    <2>3. \A q \in OfKind(k) \ {p} : credited[q] = credited'[q] BY <1>3, <1>9, KindSums
    <2>4. /\ SumOf(credited', OfKind(k)) = (SumOf(credited, OfKind(k)) - credited[p]) + credited'[p]
          /\ SumOf(credited, OfKind(k)) \in Int
      <3>1. IsFiniteSet(OfKind(k)) BY <1>3, KindSums
      <3> QED BY ONLY <2>1, <2>2, <2>3, <3>1, SumChange
    <2> QED BY <1>9, <2>1, <2>2, <2>4
  <1>11. ASSUME NEW j \in Kinds, j # k PROVE SumOf(credited', OfKind(j)) = SumOf(credited, OfKind(j))
    <2>1. \A q \in OfKind(j) : credited[q] = credited'[q] BY <1>8, <1>9, <1>11 DEF OfKind
    <2>2. IsFiniteSet(OfKind(j)) BY KindSums
    <2> QED BY ONLY <2>1, <2>2, SumSame
  <1>12. ASSUME NEW j \in Kinds PROVE Covered(j)'
    <2>1. Covered(j) BY DEF BalanceInv
    <2>2. CASE j # k
      <3>1. balance'[j] = balance[j] BY <1>1, <2>2, Types
      <3>2. ASSUME NEW v \in Workers, task'[v].pc = "written", kind'[Of(v)'] = j
            PROVE  task'[v].balance <= SumOf(credited, OfKind(j))
        BY <1>1, <1>7, <2>1, <3>2 DEF Covered
      <3> QED BY <1>6, <1>11, <2>1, <2>2, <3>1, <3>2 DEF Covered
    <2>3. CASE j = k
      <3>1. balance'[j] = IF k = "assistant" THEN balance[j] ELSE task[w].balance + 1
        BY <1>1, <1>3, <2>3, Types DEF CreditedBalance
      <3>2. balance'[j] <= SumOf(credited, OfKind(j)) + 1
        <4>1. balance[j] <= SumOf(credited, OfKind(j)) /\ balance[j] \in Nat BY <2>1, Types DEF Covered
        <4>2. task[w].balance \in Nat /\ task[w].balance <= SumOf(credited, OfKind(j))
          BY <1>4, <1>5, <2>3 DEF Tasks
        <4> QED BY <1>10, <2>3, <3>1, <4>1, <4>2
      <3>3. ASSUME NEW v \in Workers, task'[v].pc = "written", kind'[Of(v)'] = j
            PROVE  task'[v].balance <= SumOf(credited, OfKind(j)) + 1
        <4>1. task[v].balance <= SumOf(credited, OfKind(j)) /\ task[v].balance \in Nat
          BY <1>1, <1>7, <2>1, <3>3, Types DEF Covered, Tasks
        <4> QED BY <1>7, <1>10, <2>3, <3>3, <4>1
      <3> QED BY <1>6, <1>10, <2>3, <3>2, <3>3 DEF Covered
    <2> QED BY <2>2, <2>3
  <1> QED BY <1>12 DEF BalanceInv

LEMMA StartedGrows ==
  ASSUME Inv, NEW w \in Workers, FinishStart(w)
  PROVE  Grown(attempt, attempt')
  <1> DEFINE a == task[w].attempt
  <1>1. task[w].pc = "starting" BY DEF FinishStart
  <1>2. ~Began(attempt[a]) BY <1>1 DEF Inv, InHand, Began
  <1>3. \E x : attempt' = [attempt EXCEPT ![a] = x] BY DEF FinishStart, SetState
  <1>4. \A b \in Attempts : b # a => attempt'[b] = attempt[b] BY <1>3, Types
  <1> QED BY <1>2, <1>4 DEF Grown

LEMMA NextCovers ==
  ASSUME Inv, BalanceInv, [Next]_vars
  PROVE  BalanceInv'
  <1>1. ASSUME NEW w \in Workers, Commit(w) \/ Write(w) PROVE BalanceInv'
    BY <1>1, CommitCovers, WriteCovers
  <1>2. ASSUME NEW w \in Workers, FinishStart(w) PROVE BalanceInv'
    <2>1. Grown(attempt, attempt') BY <1>2, StartedGrows
    <2>2. UNCHANGED <<kind, credited, balance>> /\ End(w) BY <1>2 DEF FinishStart
    <2> QED BY <2>1, <2>2, NoneWritten, NobodyWrites
  <1>3. ASSUME NEW w \in Workers, Asked(w) \/ Refuse(w) \/ Notify(w) \/ Fail(w) PROVE BalanceInv'
    <2>1. UNCHANGED <<kind, attempt, credited, balance>> BY <1>3 DEF Asked, Refuse, Notify, Fail
    <2>2. End(w) \/ Hold(w, "loaded", task[w].attempt) BY <1>3 DEF Asked, Refuse, Notify, Fail
    <2> QED BY <2>1, <2>2, NoneWritten, NobodyWrites, SameGrown
  <1>4. ASSUME NEW w \in Workers, NEW p \in Purchases, NEW g \in Gateways, BeginStart(w, p, g) PROVE BalanceInv'
    <2>1. UNCHANGED <<kind, credited, balance>> /\ \E a : Turn(w, "starting", a) BY <1>4 DEF BeginStart
    <2>2. Grown(attempt, attempt') BY <1>4, Types DEF BeginStart, Grown, Began, NoAttempt
    <2> QED BY <2>1, <2>2, NoneWritten, NobodyWrites
  <1>5. ASSUME NEW w \in Workers, NEW a \in Attempts,
               Webhook(w, a) \/ Return(w, a) \/ BeginRefuse(w, a) \/ BeginNotify(w, a)
        PROVE  BalanceInv'
    <2>1. UNCHANGED <<kind, attempt, credited, balance>> BY <1>5 DEF Webhook, Return, BeginRefuse, BeginNotify
    <2>2. \/ Hold(w, "loaded", a) \/ Turn(w, "asking", a) \/ Turn(w, "refusing", a) \/ Hold(w, "notified", a)
      BY <1>5 DEF Webhook, Return, BeginRefuse, BeginNotify
    <2> QED BY <2>1, <2>2, NoneWritten, NobodyWrites, SameGrown
  <1>6. ASSUME NEW w \in Workers, NEW a \in Attempts, Poll(w, a) PROVE BalanceInv'
    <2>1. UNCHANGED <<kind, attempt, credited, balance>> BY <1>6 DEF Poll
    <2>2. Hold(w, "loaded", a) \/ UNCHANGED task BY <1>6 DEF Poll
    <2> QED BY <2>1, <2>2, NoneWritten, NobodyWrites, SameGrown
  <1>7. ASSUME NEW a \in Attempts, Pay(a) \/ Decline(a) PROVE BalanceInv'
    <2>1. UNCHANGED <<kind, task, credited, balance>> BY <1>7 DEF Pay, Decline
    <2>2. Grown(attempt, attempt')
      <3>1. attempt[a].state = "open" BY <1>7 DEF Pay, Decline
      <3>2. PICK state \in {"paid", "failed"} : attempt' = [attempt EXCEPT ![a] = [attempt[a] EXCEPT !.state = state]]
        BY <1>7 DEF Pay, Decline, SetState
      <3>3. attempt[a] \in Tries BY Types
      <3> QED BY <3>1, <3>2, <3>3, Types DEF Grown, Began, Tries
    <2> QED BY <2>1, <2>2, NobodyWrites
  <1>8. ASSUME NEW a \in Attempts, Outage(a) PROVE BalanceInv'
    BY <1>8, NobodyWrites, SameGrown DEF Outage
  <1>9. CASE UNCHANGED vars
    <2>1. UNCHANGED <<kind, row, attempt, poll, task, credited, balance, bot, outages, faults>>
      BY <1>9 DEF vars
    <2> QED BY <2>1, NobodyWrites, SameGrown
  <1> QED BY <1>1, <1>2, <1>3, <1>4, <1>5, <1>6, <1>7, <1>8, <1>9 DEF Next, Work

LEMMA InitCovers == Init => BalanceInv
  <1> SUFFICES ASSUME Init, NEW k \in Kinds PROVE Covered(k) BY DEF BalanceInv
  <1>1. Inv BY InitInv
  <1>2. \A p \in OfKind(k) : credited[p] = 0 BY DEF Init, OfKind
  <1>3. SumOf(credited, OfKind(k)) = 0 BY <1>1, <1>2, KindSums, SumZero
  <1>4. balance[k] = 0 BY DEF Init
  <1>5. \A w \in Workers : task[w].pc # "written" BY IdleTask DEF Init
  <1> QED BY <1>3, <1>4, <1>5 DEF Covered

(* For any purchases, attempts and workers everything keeps its type. *)
THEOREM TypeCorrect == Spec => []TypeOK
  <1>1. Inv => TypeOK BY DEF Inv
  <1> QED BY <1>1, SpecInv, PTL

(* The platform hands nothing over unless the client paid: whatever answers *)
(* repeat, come late or contradict each other, and whatever worker saves a  *)
(* row that it loaded before.                                               *)
THEOREM NothingIsGiven == Spec => []NothingUnpaid
  <1>1. Inv => NothingUnpaid BY DEF Inv, Booked, PaidFor, NothingUnpaid
  <1> QED BY <1>1, SpecInv, PTL

(* Repeated answers credit a purchase at most once for each worker that had *)
(* it loaded when it was credited first.                                    *)
THEOREM CreditsAreBounded == Spec => []CreditedOncePerWorker
  <1>1. ASSUME Inv, NEW p \in Purchases
        PROVE  credited[p] <= Cardinality(Workers) \/ Tried(p, {"profitgate"})
    <2>1. CASE Through(p, {"profitgate"}, attempt) BY <2>1 DEF Through, Tried
    <2>2. CASE Untouched(p)
      BY <1>1, <2>2, HolderSets, Types DEF Untouched
    <2> QED BY <1>1, <2>1, <2>2 DEF Inv, Booked
  <1>2. Inv => CreditedOncePerWorker BY <1>1 DEF CreditedOncePerWorker
  <1> QED BY <1>2, SpecInv, PTL

(* A processed purchase that ZinaPay's webhook shows as rejected was paid   *)
(* by another attempt.                                                      *)
THEOREM RejectedWasPaid == Spec => []RejectedThenPaid
  <1>1. ASSUME Inv, NEW p \in Purchases, row[p].is_processed, row[p].payment_status = "rejected"
        PROVE  \E a, b \in Attempts :
                 /\ attempt[a].of = p /\ attempt[a].gateway = "zina" /\ attempt[a].state = "failed"
                 /\ attempt[b].of = p /\ attempt[b].state = "paid"
    BY <1>1 DEF Inv, GoodRow, FailedAtZina, PaidFor
  <1>2. Inv => RejectedThenPaid BY <1>1 DEF RejectedThenPaid
  <1> QED BY <1>2, SpecInv, PTL

(* A paid assistant lacks its bot only after an attempt through a gateway   *)
(* that writes payment_info anew.                                           *)
THEOREM PlansAreDelivered == Spec => []PlanDelivered
  <1>1. Inv => PlanDelivered BY DEF Inv, Booked, Through, Tried, PlanDelivered
  <1> QED BY <1>1, SpecInv, PTL

(* Nothing but Profitgate's save of a stale row makes a processed purchase  *)
(* unprocessed.                                                             *)
THEOREM ProcessedStaysSo == Spec => ProcessedForGood
  <1>1. ASSUME Inv, [Next]_vars, NEW p \in Purchases, row[p].is_processed, ~row'[p].is_processed
        PROVE  Tried(p, {"profitgate"})
    <2>1. PICK w \in Workers : FinishStart(w) \/ Commit(w) \/ Refuse(w) \/ Notify(w)
      <3>1. row' # row BY <1>1
      <3> QED BY <1>1, <3>1
           DEF Next, vars, Work, BeginStart, Asked, Write, Fail, Webhook, Return, Poll,
               BeginRefuse, BeginNotify, Pay, Decline, Outage
    <2>2. row \in [Purchases -> Row] /\ task[w] \in Tasks /\ row[p] \in Row BY <1>1, Types
    <2>3. CASE FinishStart(w)
      <3>1. row' = row \/ row' = [row EXCEPT ![Of(w)].info = StoredInfo(task[w].attempt)]
        BY <2>3 DEF FinishStart
      <3> QED BY <1>1, <2>2, <3>1 DEF Row
    <2>4. CASE Commit(w)
      <3>1. row' = [row EXCEPT ![Of(w)] = [task[w].row EXCEPT !.is_processed = TRUE, !.payment_status = "accepted"]]
        BY <2>4 DEF Commit
      <3>2. [task[w].row EXCEPT !.is_processed = TRUE, !.payment_status = "accepted"].is_processed
        BY <2>2 DEF Tasks, Row
      <3> QED BY <1>1, <2>2, <3>1, <3>2
    <2>5. CASE Refuse(w)
      <3>1. row' = [row EXCEPT ![Of(w)].payment_status = "rejected"] BY <2>5 DEF Refuse
      <3> QED BY <1>1, <2>2, <3>1 DEF Row
    <2>6. CASE Notify(w)
      <3>1. PICK status : row' = [row EXCEPT ![Of(w)] = [task[w].row EXCEPT !.status = status]]
        BY <2>6 DEF Notify
      <3>2. p = Of(w) BY <1>1, <2>2, <3>1
      <3>3. task[w].attempt \in Attempts /\ attempt[task[w].attempt].gateway = "profitgate"
        BY <1>1, <2>6 DEF Inv, InHand, Notify
      <3> QED BY <3>2, <3>3 DEF Of, Tried
    <2> QED BY <2>1, <2>3, <2>4, <2>5, <2>6
  <1>2. Inv /\ [Next]_vars =>
          (\A p \in Purchases : row[p].is_processed /\ ~row'[p].is_processed => Tried(p, {"profitgate"}))
    BY <1>1
  <1> QED BY <1>2, SpecInv, PTL DEF Spec, ProcessedForGood

(* However many answers race, the one who earns is never credited more than *)
(* was sold: what a worker writes is one more than a balance it has read,    *)
(* and with it one more sale is booked.                                     *)
THEOREM BalanceIsCovered == Spec => []BalanceCovered
  <1>1. Init => Inv /\ BalanceInv BY InitInv, InitCovers
  <1>2. Inv /\ BalanceInv /\ [Next]_vars => (Inv /\ BalanceInv)' BY NextKeepsInv, NextCovers
  <1>3. Inv /\ BalanceInv => BalanceCovered BY KindSums DEF BalanceInv, Covered, BalanceCovered
  <1> QED BY <1>1, <1>2, <1>3, PTL DEF Spec
=============================================================================
