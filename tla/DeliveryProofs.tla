--------------------------- MODULE DeliveryProofs ---------------------------
(***************************************************************************)
(* Delivery proved for any number of services, orders and requests in      *)
(* hand: whole-row saves of stale rows, in any order, keep the two columns *)
(* of a row in step, and the history knows who has an order.               *)
(***************************************************************************)
EXTENDS Delivery, TLAPS

-----------------------------------------------------------------------------
(* The inductive invariant.  A row in flight is as sound as one in the      *)
(* table, and one that gives an order to a courier is going to be recorded  *)
(* for that courier: what the history still lacks, a request has in hand.   *)

Sound(row) == row.status \in {"taken", "delivered"} <=> row.courier # NoService

InHand(j) ==
  j # Idle =>
    /\ j.op # "none" /\ j.order \in Orders
    /\ Sound(j.loaded) /\ Sound(j.row) /\ FollowsLife(j.loaded, j.row)
    /\ j.op \in {"send", "reject"} => j.row.courier = NoService
    /\ j.op \in {"accept", "deliver"} =>
         j.courier = j.row.courier /\ Said(j.op) = j.row.status
    /\ j.op # "send" => j.courier \in Services
    /\ j.op = "send" => j.next = "save"

Line(o) == [order |-> o, courier |-> info[o].courier, status |-> info[o].status]

Known(o) ==
  \/ info[o].courier = NoService
  \/ o \in died
  \/ Line(o) \in history
  \/ \E w \in Workers :
       /\ job[w].order = o /\ job[w].op \in {"accept", "deliver"}
       /\ job[w].next = "record" /\ job[w].row = info[o]

Inv ==
  /\ TypeOK
  /\ RowsSound
  /\ \A w \in Workers : InHand(job[w])
  /\ \A o \in Orders : Known(o)

-----------------------------------------------------------------------------
LEMMA IdleJob == Idle \in Job /\ InHand(Idle)
  BY DeliveryAssumption DEF Idle, Job, InHand, Details, Created, Statuses

(* A request that is let through comes with a sound row and leaves what the *)
(* others have in hand alone.                                               *)
LEMMA BeginKeeps ==
  ASSUME Inv, NEW w \in Workers, NEW op, NEW o, NEW s, NEW row, NEW first,
         Begin(w, op, o, s, row, first),
         [op |-> op, order |-> o, courier |-> s,
          loaded |-> info[o], row |-> row, next |-> first] \in Job,
         InHand([op |-> op, order |-> o, courier |-> s,
                 loaded |-> info[o], row |-> row, next |-> first])
  PROVE  Inv'
  <1> DEFINE new == [op |-> op, order |-> o, courier |-> s,
                     loaded |-> info[o], row |-> row, next |-> first]
  <1>1. /\ new \in Job /\ InHand(new)
        /\ job' = [job EXCEPT ![w] = new]
        /\ job[w] = Idle
        /\ UNCHANGED <<info, history, died>>
    BY DEF Begin
  <1> HIDE DEF new
  <1>2. TypeOK' BY <1>1 DEF Inv, TypeOK
  <1>3. RowsSound' BY <1>1 DEF Inv, RowsSound
  <1>4. \A v \in Workers : InHand(job[v])'
    <2> SUFFICES ASSUME NEW v \in Workers PROVE InHand(job'[v])
      BY <1>1 DEF InHand
    <2>1. CASE v = w BY <1>1, <2>1 DEF Inv, TypeOK
    <2>2. CASE v # w BY <1>1, <2>2 DEF Inv, TypeOK
    <2> QED BY <2>1, <2>2
  <1>5. \A p \in Orders : Known(p)'
    <2> SUFFICES ASSUME NEW p \in Orders PROVE Known(p)' OBVIOUS
    <2>1. CASE \E v \in Workers :
             /\ job[v].order = p /\ job[v].op \in {"accept", "deliver"}
             /\ job[v].next = "record" /\ job[v].row = info[p]
      <3>1. PICK v \in Workers :
             /\ job[v].order = p /\ job[v].op \in {"accept", "deliver"}
             /\ job[v].next = "record" /\ job[v].row = info[p]
        BY <2>1
      <3>2. v # w BY <1>1, <3>1 DEF Idle
      <3>3. job'[v] = job[v] BY <1>1, <3>2 DEF Inv, TypeOK
      <3> QED BY <1>1, <3>1, <3>3 DEF Known
    <2>2. CASE info[p].courier = NoService \/ p \in died \/ Line(p) \in history
      BY <1>1, <2>2 DEF Known, Line
    <2> QED BY <2>1, <2>2 DEF Inv, Known
  <1> QED BY <1>2, <1>3, <1>4, <1>5 DEF Inv

LEMMA RequestsKeep ==
  ASSUME Inv, NEW w \in Workers, NEW o \in Orders
  PROVE  /\ SendToCouriers(w, o) => Inv'
         /\ \A s \in Services : Accept(w, o, s) \/ Reject(w, o, s) \/ Deliver(w, o, s) => Inv'
  <1>0. info[o] \in Details /\ Sound(info[o])
    BY DEF Inv, TypeOK, RowsSound, Sound
  <1>1. ASSUME SendToCouriers(w, o) PROVE Inv'
    <2> DEFINE row == [info[o] EXCEPT !.status = "set"]
    <2>1. row.courier = NoService /\ row.status = "set" /\ row \in Details
      BY <1>0, <1>1 DEF SendToCouriers, Sound, Details, Statuses
    <2>2. Begin(w, "send", o, NoService, row, "save") BY <1>1 DEF SendToCouriers
    <2>3. FollowsLife(info[o], row)
      BY <1>0, <1>1, <2>1 DEF FollowsLife, SendToCouriers, Sound, Details, Statuses
    <2> HIDE DEF row
    <2> QED BY <1>0, <2>1, <2>2, <2>3, BeginKeeps DEF Job, InHand, Sound
  <1>2. ASSUME NEW s \in Services, Accept(w, o, s) PROVE Inv'
    <2>1. s # NoService BY DeliveryAssumption
    <2> QED BY <1>0, <1>2, <2>1, BeginKeeps
         DEF Accept, Job, InHand, Sound, Said, Details, Statuses, FollowsLife
  <1>3. ASSUME NEW s \in Services, Reject(w, o, s) PROVE Inv'
    <2> DEFINE row == [status |-> "set", courier |-> NoService]
    <2>1. info[o].status = "taken" /\ s # NoService
      BY <1>0, <1>3, DeliveryAssumption DEF Reject, Sound, Details, Statuses
    <2>2. FollowsLife(info[o], row) BY <2>1 DEF FollowsLife
    <2> QED BY <1>0, <1>3, <2>1, <2>2, BeginKeeps DEF Reject, Job, InHand, Sound, Details, Statuses
  <1>4. ASSUME NEW s \in Services, Deliver(w, o, s) PROVE Inv'
    <2> DEFINE row == [info[o] EXCEPT !.status = "delivered"]
    <2>1. row.courier = s /\ row.status = "delivered" /\ row \in Details /\ s # NoService
      BY <1>0, <1>4, DeliveryAssumption DEF Deliver, Details, Statuses
    <2>2. Begin(w, "deliver", o, s, row, "save") BY <1>4 DEF Deliver
    <2>3. FollowsLife(info[o], row)
      BY <1>0, <1>4, <2>1 DEF Deliver, FollowsLife, Sound, Details, Statuses
    <2> HIDE DEF row
    <2> QED BY <1>0, <2>1, <2>2, <2>3, BeginKeeps DEF Job, InHand, Sound, Said
  <1> QED BY <1>1, <1>2, <1>3, <1>4

-----------------------------------------------------------------------------
(* The commits of a request. *)

LEMMA JobInHand ==
  ASSUME Inv, NEW w \in Workers, job[w] # Idle
  PROVE  /\ job[w] \in Job /\ InHand(job[w])
         /\ job[w].order \in Orders /\ job[w].row \in Details /\ Sound(job[w].row)
  BY DEF Inv, TypeOK, InHand, Job

LEMMA AfterSaveJob ==
  ASSUME NEW j \in Job, InHand(j), j # Idle
  PROVE  /\ AfterSave(j) \in Job /\ InHand(AfterSave(j))
         /\ AfterSave(j) # Idle => AfterSave(j).order = j.order
         /\ j.op \in {"accept", "deliver"} =>
              /\ AfterSave(j).op = j.op /\ AfterSave(j).order = j.order
              /\ AfterSave(j).next = "record" /\ AfterSave(j).row = j.row
  <1>1. CASE j.op \in {"accept", "deliver"}
    <2> DEFINE n == [j EXCEPT !.next = "record"]
    <2>1. /\ n.op = j.op /\ n.order = j.order /\ n.courier = j.courier
          /\ n.loaded = j.loaded /\ n.row = j.row /\ n.next = "record" /\ n \in Job
      BY DEF Job
    <2>2. AfterSave(j) = n BY <1>1 DEF AfterSave
    <2> HIDE DEF n
    <2> QED BY <1>1, <2>1, <2>2 DEF InHand
  <1>2. CASE j.op \notin {"accept", "deliver"}
    BY <1>2, IdleJob DEF AfterSave
  <1> QED BY <1>1, <1>2

LEMMA AfterRecordJob ==
  ASSUME NEW j \in Job, InHand(j), j # Idle
  PROVE  AfterRecord(j) \in Job /\ InHand(AfterRecord(j))
  <1>1. CASE j.op = "reject"
    <2> DEFINE n == [j EXCEPT !.next = "save"]
    <2>1. /\ n.op = j.op /\ n.order = j.order /\ n.courier = j.courier
          /\ n.loaded = j.loaded /\ n.row = j.row /\ n.next = "save" /\ n \in Job
      BY DEF Job
    <2>2. AfterRecord(j) = n BY <1>1 DEF AfterRecord
    <2> HIDE DEF n
    <2> QED BY <1>1, <2>1, <2>2 DEF InHand
  <1>2. CASE j.op # "reject"
    BY <1>2, IdleJob DEF AfterRecord
  <1> QED BY <1>1, <1>2

LEMMA SaveRowKeeps ==
  ASSUME Inv, NEW w \in Workers, SaveRow(w)
  PROVE  Inv'
  <1> DEFINE j == job[w]
             n == AfterSave(job[w])
  <1>1. /\ j # Idle /\ j.next = "save" /\ j \in Job /\ InHand(j)
        /\ j.order \in Orders /\ j.row \in Details /\ Sound(j.row)
    BY JobInHand DEF SaveRow, Goes
  <1>2. /\ n \in Job /\ InHand(n)
        /\ j.op \in {"accept", "deliver"} =>
             n.op = j.op /\ n.order = j.order /\ n.next = "record" /\ n.row = j.row
    BY <1>1, AfterSaveJob
  <1>3. /\ info' = [info EXCEPT ![j.order] = j.row]
        /\ job' = [job EXCEPT ![w] = n]
        /\ UNCHANGED <<history, died>>
    BY DEF SaveRow
  <1>4. \A v \in Workers : v # w => job'[v] = job[v]
    BY <1>3 DEF Inv, TypeOK
  <1>5. job'[w] = n BY <1>3 DEF Inv, TypeOK
  <1> HIDE DEF j, n
  <1>6. TypeOK' BY <1>1, <1>2, <1>3 DEF Inv, TypeOK
  <1>7. RowsSound'
    BY <1>1, <1>3 DEF Inv, TypeOK, RowsSound, Sound
  <1>8. \A v \in Workers : InHand(job[v])'
    <2> SUFFICES ASSUME NEW v \in Workers PROVE InHand(job'[v])
      BY DEF InHand
    <2> QED BY <1>2, <1>4, <1>5 DEF Inv
  <1>9. \A p \in Orders : Known(p)'
    <2> SUFFICES ASSUME NEW p \in Orders PROVE Known(p)' OBVIOUS
    <2>1. CASE p = j.order
      <3>1. info'[p] = j.row BY <1>1, <1>3, <2>1 DEF Inv, TypeOK
      <3>2. CASE j.op \in {"accept", "deliver"}
        BY <1>2, <1>5, <2>1, <3>1, <3>2 DEF Known
      <3>3. CASE j.op \in {"send", "reject"}
        BY <1>1, <3>1, <3>3 DEF Known, InHand
      <3> QED BY <1>1, <3>2, <3>3 DEF Job, InHand
    <2>2. CASE p # j.order
      <3>1. info'[p] = info[p] BY <1>1, <1>3, <2>2 DEF Inv, TypeOK
      <3>2. ASSUME NEW v \in Workers, job[v].order = p
            PROVE job'[v] = job[v]
        BY <1>4, <2>2, <3>2 DEF j
      <3> QED BY <1>3, <3>1, <3>2 DEF Inv, Known, Line
    <2> QED BY <2>1, <2>2
  <1> QED BY <1>6, <1>7, <1>8, <1>9 DEF Inv

LEMMA AddToHistoryKeeps ==
  ASSUME Inv, NEW w \in Workers, AddToHistory(w)
  PROVE  Inv'
  <1> DEFINE j == job[w]
             n == AfterRecord(job[w])
             line == [order |-> job[w].order, courier |-> job[w].courier,
                      status |-> Said(job[w].op)]
  <1>1. /\ j # Idle /\ j.next = "record" /\ j \in Job /\ InHand(j)
        /\ j.order \in Orders /\ j.op # "send" /\ j.courier \in Services
    BY JobInHand DEF AddToHistory, Goes, InHand
  <1>2. n \in Job /\ InHand(n) BY <1>1, AfterRecordJob
  <1>3. /\ history' = history \union {line}
        /\ job' = [job EXCEPT ![w] = n]
        /\ UNCHANGED <<info, died>>
    BY DEF AddToHistory
  <1>4. \A v \in Workers : v # w => job'[v] = job[v]
    BY <1>3 DEF Inv, TypeOK
  <1>5. job'[w] = n BY <1>3 DEF Inv, TypeOK
  <1>6. line \in Record
    BY <1>1 DEF Record, Said
  <1>7. ASSUME j.op \in {"accept", "deliver"}
        PROVE  line = [order |-> j.order, courier |-> j.row.courier, status |-> j.row.status]
    BY <1>1, <1>7 DEF InHand
  <1> HIDE DEF j, n, line
  <1>8. TypeOK' BY <1>2, <1>3, <1>6 DEF Inv, TypeOK
  <1>9. RowsSound' BY <1>3 DEF Inv, RowsSound
  <1>10. \A v \in Workers : InHand(job[v])'
    <2> SUFFICES ASSUME NEW v \in Workers PROVE InHand(job'[v])
      BY DEF InHand
    <2> QED BY <1>2, <1>4, <1>5 DEF Inv
  <1>11. \A p \in Orders : Known(p)'
    <2> SUFFICES ASSUME NEW p \in Orders PROVE Known(p)' OBVIOUS
    <2>0. Line(p)' = Line(p) BY <1>3 DEF Line
    <2>1. CASE info[p].courier = NoService \/ p \in died \/ Line(p) \in history
      BY <1>3, <2>0, <2>1 DEF Known
    <2>2. CASE \E v \in Workers :
             /\ job[v].order = p /\ job[v].op \in {"accept", "deliver"}
             /\ job[v].next = "record" /\ job[v].row = info[p]
      <3>1. PICK v \in Workers :
             /\ job[v].order = p /\ job[v].op \in {"accept", "deliver"}
             /\ job[v].next = "record" /\ job[v].row = info[p]
        BY <2>2
      <3>2. CASE v = w
        <4>1. line = Line(p) BY <1>7, <3>1, <3>2 DEF Line, j
        <4> QED BY <1>3, <2>0, <4>1 DEF Known
      <3>3. CASE v # w
        BY <1>3, <1>4, <3>1, <3>3 DEF Known
      <3> QED BY <3>2, <3>3
    <2> QED BY <2>1, <2>2 DEF Inv, Known
  <1> QED BY <1>8, <1>9, <1>10, <1>11 DEF Inv

LEMMA FailKeeps ==
  ASSUME Inv, NEW w \in Workers, Fail(w)
  PROVE  Inv'
  <1>1. job[w] # Idle /\ job[w].order \in Orders BY JobInHand DEF Fail
  <1>2. /\ died' = died \union {job[w].order}
        /\ job' = [job EXCEPT ![w] = Idle]
        /\ UNCHANGED <<info, history>>
    BY DEF Fail
  <1>3. \A v \in Workers : v # w => job'[v] = job[v]
    BY <1>2 DEF Inv, TypeOK
  <1>4. TypeOK' BY <1>1, <1>2, IdleJob DEF Inv, TypeOK
  <1>5. RowsSound' BY <1>2 DEF Inv, RowsSound
  <1>6. \A v \in Workers : InHand(job[v])'
    <2> SUFFICES ASSUME NEW v \in Workers PROVE InHand(job'[v])
      BY DEF InHand
    <2>1. job'[w] = Idle BY <1>2 DEF Inv, TypeOK
    <2> QED BY <1>3, <2>1, IdleJob DEF Inv
  <1>7. \A p \in Orders : Known(p)'
    <2> SUFFICES ASSUME NEW p \in Orders, p # job[w].order PROVE Known(p)'
      BY <1>2 DEF Known
    <2>1. ASSUME NEW v \in Workers, job[v].order = p
          PROVE job'[v] = job[v]
      BY <1>3, <2>1
    <2> QED BY <1>2, <2>1 DEF Inv, Known, Line
  <1> QED BY <1>4, <1>5, <1>6, <1>7 DEF Inv

-----------------------------------------------------------------------------
(* The theorems. *)

THEOREM InitInv == Init => Inv
  <1> SUFFICES ASSUME Init PROVE Inv OBVIOUS
  <1>1. \A o \in Orders : info[o] = Created BY DEF Init
  <1>2. TypeOK
    BY IdleJob DEF Init, TypeOK, Created, Details, Statuses
  <1> QED BY <1>1, <1>2, IdleJob DEF Init, Inv, RowsSound, Known, Created

THEOREM NextKeepsInv == Inv /\ [Next]_vars => Inv'
  <1> SUFFICES ASSUME Inv, [Next]_vars PROVE Inv' OBVIOUS
  <1>1. ASSUME NEW w \in Workers, Handle(w) PROVE Inv'
    BY <1>1, RequestsKeep, SaveRowKeeps, AddToHistoryKeeps, FailKeeps DEF Handle
  <1>2. CASE UNCHANGED vars
    BY <1>2 DEF vars, Inv, TypeOK, RowsSound, InHand, Known, Line
  <1> QED BY <1>1, <1>2 DEF Next

THEOREM SpecInv == Spec => []Inv
  BY InitInv, NextKeepsInv, PTL DEF Spec

(* The state keeps its types: above all, every line of the history names a  *)
(* service, though a rejection clears the courier of the row it is about.   *)
THEOREM TypeCorrect == Spec => []TypeOK
  <1>1. Inv => TypeOK BY DEF Inv
  <1> QED BY <1>1, SpecInv, PTL

(* An order has a courier exactly when it is taken or delivered, however    *)
(* many requests save stale rows.                                           *)
THEOREM RowsStaySound == Spec => []RowsSound
  <1>1. Inv => RowsSound BY DEF Inv
  <1> QED BY <1>1, SpecInv, PTL

(* An order that nobody has in hand is on record for the courier its row    *)
(* names, unless a request about it died half-way.                          *)
THEOREM HistoryKnows == Spec => []ClaimsRecorded
  <1>1. Inv => ClaimsRecorded
    <2> SUFFICES ASSUME Inv, NEW o \in Orders,
                        info[o].status \in {"taken", "delivered"}, ~Busy(o)
                 PROVE  Line(o) \in history
      BY DEF ClaimsRecorded, Line
    <2>1. info[o].courier # NoService BY DEF Inv, RowsSound
    <2> QED BY <2>1 DEF Inv, Known, Busy
  <1> QED BY <1>1, SpecInv, PTL

(* A request that has read what it overwrites moves an order along its life: *)
(* only one that came with a stale row displaces a courier or undoes a       *)
(* delivery.                                                                 *)
THEOREM FreshRequestsFollowLife == Spec => FreshFollowsLife
  <1>1. ASSUME Inv, NEW w \in Workers, SaveRow(w), job[w].loaded = info[job[w].order]
        PROVE  FollowsLife(info[job[w].order], info'[job[w].order])
    <2>1. job[w] # Idle BY <1>1 DEF SaveRow, Goes
    <2>2. info'[job[w].order] = job[w].row
      BY <1>1, <2>1, JobInHand DEF SaveRow, Inv, TypeOK
    <2>3. FollowsLife(job[w].loaded, job[w].row)
      BY <1>1, <2>1, JobInHand DEF InHand
    <2> QED BY <1>1, <2>2, <2>3
  <1>2. Inv /\ [Next]_vars =>
          [\A w \in Workers :
             SaveRow(w) /\ job[w].loaded = info[job[w].order] =>
               FollowsLife(info[job[w].order], info'[job[w].order])]_vars
    BY <1>1
  <1> QED BY <1>2, SpecInv, PTL DEF Spec, FreshFollowsLife
=============================================================================
