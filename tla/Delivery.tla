------------------------------ MODULE Delivery ------------------------------
(***************************************************************************)
(* What becomes of an order's delivery details once the order is made:     *)
(* the shop hands it to the delivery services (shop/views/cart_views.py),  *)
(* one of them takes it, gives it back or delivers it (delivery/views.py). *)
(*                                                                         *)
(* Every handler reads the row, checks it, and later saves it whole; the   *)
(* line of the history is a commit of its own.  Requests interleave at     *)
(* every one of these points and may die between them.  A member of staff  *)
(* works for one service.                                                  *)
(***************************************************************************)
CONSTANTS
  Workers,   \* processes that serve requests
  Orders,    \* orders with delivery details
  Services,  \* delivery services
  NoService, \* delivery_organization is null
  NoOrder    \* a worker serves nobody

ASSUME DeliveryAssumption == NoService \notin Services /\ NoOrder \notin Orders

VARIABLES
  info,     \* rows of delivery.DeliveryInfo
  history,  \* what delivery.DeliveryActionHistory has on record
  job,      \* what each worker has in hand
  died      \* auxiliary: orders of requests that died half-way

vars == <<info, history, job, died>>

-----------------------------------------------------------------------------
(* Rows *)

Statuses == {"none", "set", "taken", "delivered"}

Details == [status : Statuses, courier : Services \union {NoService}]

Created == [status |-> "none", courier |-> NoService]

Record == [order : Orders, courier : Services, status : {"taken", "rejected", "delivered"}]

(* A request in hand: the row as it was loaded, the row it is going to     *)
(* save, and the commit that comes next.                                   *)
Job == [op : {"none", "send", "accept", "reject", "deliver"},
        order : Orders \union {NoOrder}, courier : Services \union {NoService},
        loaded : Details, row : Details, next : {"save", "record"}]

Idle == [op |-> "none", order |-> NoOrder, courier |-> NoService,
         loaded |-> Created, row |-> Created, next |-> "save"]

TypeOK ==
  /\ info \in [Orders -> Details]
  /\ history \subseteq Record
  /\ job \in [Workers -> Job]
  /\ died \subseteq Orders

Init ==
  /\ info = [o \in Orders |-> Created]
  /\ history = {}
  /\ job = [w \in Workers |-> Idle]
  /\ died = {}

-----------------------------------------------------------------------------
(* The requests, up to the check that lets them through *)

Begin(w, op, o, s, row, first) ==
  /\ job[w] = Idle
  /\ job' = [job EXCEPT ![w] = [op |-> op, order |-> o, courier |-> s,
                                loaded |-> info[o], row |-> row, next |-> first]]
  /\ UNCHANGED <<info, history, died>>

(* Mutant of SendToCouriers: an order on its way is offered again. *)
SendTaken(w, o) ==
  /\ info[o].status # "delivered"
  /\ Begin(w, "send", o, NoService, [info[o] EXCEPT !.status = "set"], "save")

(* The shop hands the order to the services, again if it likes. *)
SendToCouriers(w, o) ==
  /\ info[o].status \notin {"delivered", "taken"}
  /\ Begin(w, "send", o, NoService, [info[o] EXCEPT !.status = "set"], "save")

(* A service takes what is on offer. *)
Accept(w, o, s) ==
  /\ info[o].status = "set"
  /\ Begin(w, "accept", o, s, [status |-> "taken", courier |-> s], "save")

(* Mutant of Reject: a delivered order is given back. *)
RejectDelivered(w, o, s) ==
  /\ info[o].courier = s
  /\ Begin(w, "reject", o, s, [status |-> "set", courier |-> NoService], "record")

(* Mutant of Reject: the courier is recorded after it has been cleared. *)
RejectCleared(w, o, s) ==
  /\ info[o].courier = s
  /\ info[o].status # "delivered"
  /\ Begin(w, "reject", o, NoService, [status |-> "set", courier |-> NoService], "record")

(* Its courier gives it back: first on record, then on offer again. *)
Reject(w, o, s) ==
  /\ info[o].courier = s
  /\ info[o].status # "delivered"
  /\ Begin(w, "reject", o, s, [status |-> "set", courier |-> NoService], "record")

(* Its courier has delivered it. *)
Deliver(w, o, s) ==
  /\ info[o].courier = s
  /\ info[o].status # "delivered"
  /\ Begin(w, "deliver", o, s, [info[o] EXCEPT !.status = "delivered"], "save")

-----------------------------------------------------------------------------
(* Their commits *)

Goes(w, step) == job[w] # Idle /\ job[w].next = step

(* Mutant of AfterSave: a delivery is not recorded. *)
OnlyTaken(j) == IF j.op = "accept" THEN [j EXCEPT !.next = "record"] ELSE Idle

(* A rejection is recorded before the row is saved, an acceptance and a     *)
(* delivery after it; the shop's handing over is not recorded.              *)
AfterSave(j) == IF j.op \in {"accept", "deliver"} THEN [j EXCEPT !.next = "record"] ELSE Idle
AfterRecord(j) == IF j.op = "reject" THEN [j EXCEPT !.next = "save"] ELSE Idle

SaveRow(w) ==
  /\ Goes(w, "save")
  /\ info' = [info EXCEPT ![job[w].order] = job[w].row]
  /\ job' = [job EXCEPT ![w] = AfterSave(@)]
  /\ UNCHANGED <<history, died>>

Said(op) == CASE op = "accept" -> "taken" [] op = "reject" -> "rejected" [] OTHER -> "delivered"

AddToHistory(w) ==
  /\ Goes(w, "record")
  /\ history' = history \union {[order |-> job[w].order, courier |-> job[w].courier,
                                  status |-> Said(job[w].op)]}
  /\ job' = [job EXCEPT ![w] = AfterRecord(@)]
  /\ UNCHANGED <<info, died>>

(* The process dies, or one of the notifications in between raises. *)
Fail(w) ==
  /\ job[w] # Idle
  /\ died' = died \union {job[w].order}
  /\ job' = [job EXCEPT ![w] = Idle]
  /\ UNCHANGED <<info, history>>

Handle(w) ==
  \/ \E o \in Orders : SendToCouriers(w, o)
  \/ \E o \in Orders, s \in Services : Accept(w, o, s) \/ Reject(w, o, s) \/ Deliver(w, o, s)
  \/ SaveRow(w) \/ AddToHistory(w) \/ Fail(w)

Next == \E w \in Workers : Handle(w)

Spec == Init /\ [][Next]_vars

-----------------------------------------------------------------------------
(* Properties *)

(* However whole-row saves of stale rows interleave, an order has a courier *)
(* exactly when it is taken or delivered: the handlers that take it from    *)
(* its courier look at the one column, those that offer it at the other.    *)
RowsSound ==
  \A o \in Orders : info[o].status \in {"taken", "delivered"} <=> info[o].courier # NoService

Busy(o) == o \in died \/ \E w \in Workers : job[w].order = o

(* When nobody has the order in hand and no request about it died half-way, *)
(* the history knows what the row says: it names the courier who has the    *)
(* order, or who delivered it, even if several wrote the row at once.       *)
ClaimsRecorded ==
  \A o \in Orders :
    info[o].status \in {"taken", "delivered"} /\ ~Busy(o) =>
      [order |-> o, courier |-> info[o].courier, status |-> info[o].status] \in history

(* The life of an order at the services. *)
FollowsLife(old, new) ==
  \/ old.courier = NoService /\ new = [status |-> "set", courier |-> NoService]
  \/ old.status = "set" /\ new.status = "taken"
  \/ old.status = "taken" /\ new = [old EXCEPT !.status = "delivered"]
  \/ old.status = "taken" /\ new = [status |-> "set", courier |-> NoService]

(* A courier loses an order, and a delivered order is delivered no more,    *)
(* only by a request that had read the row before: one that has read what   *)
(* it overwrites follows the order's life.                                  *)
FreshFollowsLife ==
  [][\A w \in Workers :
       SaveRow(w) /\ job[w].loaded = info[job[w].order] =>
         FollowsLife(info[job[w].order], info'[job[w].order])]_vars
=============================================================================
