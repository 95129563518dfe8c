---------------------------- MODULE Partnerships ----------------------------
(***************************************************************************)
(* Organizations that become partners, share cashback, cards and items,    *)
(* and part again (organizations/services/partnership_services.py and the   *)
(* three group services), together with the owners' edits of organizations *)
(* (organizations/services/organization_services.py).                      *)
(*                                                                         *)
(* A partnership is one row in each direction: in the row "from one to     *)
(* another" the latter says what it shares.  What is shared follows from   *)
(* groups of organizations: two that agree in both directions are put into *)
(* one group, and the group's wallets (Cashback) and cards (Orders) count  *)
(* as one.  Setting the permissions is one database transaction, in which  *)
(* other requests commit between the load, the look at the other direction *)
(* and the end; accepting by asking back, and deleting, commit step by     *)
(* step.                                                                   *)
(***************************************************************************)
EXTENDS Naturals, Sequences

CONSTANTS
  Orgs, Workers, Currencies,
  Nobody,       \* null
  Kinds,        \* what is shared; cards are treated as cashback is
  Items,        \* the one kind that can be given up again
  MaxRows, MaxGroups,  \* rows, and groups of each kind, that are ever created
  MaxRequests,  \* requests that are ever served
  Before        \* tables to begin with: who has been partners, sharing nothing

Row == [from : Orgs \union {Nobody}, to : Orgs \union {Nobody},
        accepted : BOOLEAN, share : SUBSET Kinds]

NoRow == [from |-> Nobody, to |-> Nobody, accepted |-> FALSE, share |-> {}]

Partners(from, to) == [from |-> from, to |-> to, accepted |-> TRUE, share |-> {}]

ASSUME PartnershipsAssumption ==
  /\ Nobody \notin Orgs \union Currencies
  /\ Items \in Kinds
  /\ MaxRows \in Nat /\ MaxGroups \in Nat /\ MaxRequests \in Nat

ASSUME BeforeAssumption ==
  \A t \in Before :
    /\ t \in Seq(Row)
    /\ \A i \in 1..Len(t) : \E o, p \in Orgs : o # p /\ t[i] = Partners(o, p)
    /\ \A i, j \in 1..Len(t) : t[i] = t[j] => i = j
    /\ \A i \in 1..Len(t) : \E j \in 1..Len(t) : t[j] = Partners(t[i].to, t[i].from)
    /\ Len(t) \in 0..MaxRows

VARIABLES
  table,     \* rows of Partnership by primary key
  created,   \* the last primary key
  group,     \* cashback_group, cumulative_group and items_group of each organization
  made,      \* the last primary key of each kind of group
  gone,      \* groups of items that were deleted
  currency,  \* of each organization
  job,       \* what each worker has in hand
  served,    \* requests so far
  consents,  \* auxiliary: who has ever agreed to share what with whom
  orderly    \* auxiliary: one request at a time so far, and none died half-way

vars == <<table, created, group, made, gone, currency, job, served, consents, orderly>>

-----------------------------------------------------------------------------
(* Rows *)

Pks == 1..MaxRows
Groups == 0..MaxGroups  \* 0 is null

Phases == {"idle", "permissions", "link", "accept", "accept_row", "accept_reverse",
           "leave", "dissolve", "part", "ungroup", "drop_reverse", "drop_row", "edit"}

(* A request in hand: the rows as it loaded them and what it has found.    *)
Job == [at : Phases, pk : Pks \union {0}, row : Row, other : Pks \union {0},
        share : SUBSET Kinds, mutual : SUBSET Kinds,
        left : Groups, deserted : SUBSET Groups,
        first : [Kinds -> Groups], second : [Kinds -> Groups],
        org : Orgs \union {Nobody}, currency : Currencies \union {Nobody},
        loaded : Currencies \union {Nobody}]

NoGroups == [k \in Kinds |-> 0]

Idle == [at |-> "idle", pk |-> 0, row |-> NoRow, other |-> 0, share |-> {},
         mutual |-> {}, left |-> 0, deserted |-> {}, first |-> NoGroups, second |-> NoGroups,
         org |-> Nobody, currency |-> Nobody, loaded |-> Nobody]

TypeOK ==
  /\ table \in [Pks -> Row]
  /\ created \in Pks \union {0}
  /\ group \in [Kinds -> [Orgs -> Groups]]
  /\ made \in [Kinds -> Groups]
  /\ \A k \in Kinds, o \in Orgs : group[k][o] <= made[k]
  /\ \A o \in Orgs : group[Items][o] \notin gone
  /\ gone \subseteq Groups \ {0}
  /\ currency \in [Orgs -> Currencies]
  /\ job \in [Workers -> Job]
  /\ served \in 0..MaxRequests
  /\ consents \subseteq Kinds \X Orgs \X Orgs
  /\ orderly \in BOOLEAN

Init ==
  /\ \E t \in Before :
       /\ table = [i \in Pks |-> IF i <= Len(t) THEN t[i] ELSE NoRow]
       /\ created = Len(t)
  /\ group = [k \in Kinds |-> [o \in Orgs |-> 0]]
  /\ made = NoGroups
  /\ gone = {}
  /\ currency \in [Orgs -> Currencies]
  /\ job = [w \in Workers |-> Idle]
  /\ served = 0
  /\ consents = {}
  /\ orderly = TRUE

-----------------------------------------------------------------------------
(* The table *)

Exists(i) == table[i] # NoRow

(* unique_partnerships: nobody else has the row of this direction. *)
Free(i, from, to) ==
  \A j \in Pks : j # i => ~(table[j].from = from /\ table[j].to = to)

(* save() updates the row or, if it is gone, inserts it again. *)
Savable(i, r) == Exists(i) \/ Free(i, r.from, r.to)

Reverse(r) == {j \in Pks : table[j].from = r.to /\ table[j].to = r.from /\ Exists(j)}

(* A transaction that has written a row keeps others from writing it.      *)
Unlocked(w, i) == \A v \in Workers : v # w /\ job[v].at = "link" => job[v].pk # i

GroupsOf(o) == [k \in Kinds |-> group[k][o]]

-----------------------------------------------------------------------------
(* Requests *)

Serve(w) ==
  /\ job[w] = Idle
  /\ served < MaxRequests
  /\ served' = served + 1
  /\ orderly' = (orderly /\ \A v \in Workers : job[v] = Idle)

Finish(w) == job' = [job EXCEPT ![w] = Idle]

Organizations == <<group, made, gone, currency>>

(* One organization asks another. *)
Ask(w, from, to) ==
  /\ Serve(w)
  /\ from # to
  /\ created < MaxRows
  /\ Free(0, from, to)
  /\ created' = created + 1
  /\ table' = [table EXCEPT ![created + 1] =
                 [from |-> from, to |-> to, accepted |-> FALSE, share |-> {}]]
  /\ UNCHANGED <<Organizations, job, consents>>

(* The other accepts by asking back: three commits. *)
BeginAccept(w, i) ==
  /\ Serve(w)
  /\ Exists(i)
  /\ job' = [job EXCEPT ![w] = [Idle EXCEPT !.at = "accept", !.pk = i, !.row = table[i]]]
  /\ UNCHANGED <<table, created, Organizations, consents>>

CreateReverse(w) ==
  LET r == job[w].row IN
  /\ job[w].at = "accept"
  /\ IF Free(0, r.to, r.from)
     THEN /\ created < MaxRows
          /\ created' = created + 1
          /\ table' = [table EXCEPT ![created + 1] =
                         [from |-> r.to, to |-> r.from, accepted |-> FALSE, share |-> {}]]
          /\ IF Exists(job[w].pk)
             THEN job' = [job EXCEPT ![w].at = "accept_row", ![w].other = created + 1,
                                     ![w].row = table[job[w].pk]]
             ELSE Finish(w)
     ELSE Finish(w) /\ UNCHANGED <<table, created>>
  /\ UNCHANGED <<Organizations, served, consents, orderly>>

SaveAccepted(w, i, r) ==
  table' = IF Savable(i, r) THEN [table EXCEPT ![i] = [r EXCEPT !.accepted = TRUE]] ELSE table

AcceptRow(w) ==
  LET i == job[w].pk  r == job[w].row IN
  /\ job[w].at = "accept_row"
  /\ Unlocked(w, i)
  /\ SaveAccepted(w, i, r)
  /\ IF Savable(i, r) THEN job' = [job EXCEPT ![w].at = "accept_reverse"] ELSE Finish(w)
  /\ UNCHANGED <<created, Organizations, served, consents, orderly>>

AcceptReverse(w) ==
  LET i == job[w].other  r == job[w].row IN
  /\ job[w].at = "accept_reverse"
  /\ Unlocked(w, i)
  /\ SaveAccepted(w, i, [from |-> r.to, to |-> r.from, accepted |-> FALSE, share |-> {}])
  /\ Finish(w)
  /\ UNCHANGED <<created, Organizations, served, consents, orderly>>

-----------------------------------------------------------------------------
(* Setting the permissions.  The first time accepts the partnership, unless *)
(* items are shared at once: is_accepted is set where they are not.         *)

NewlyShared(j) == j.share \ j.row.share

(* The organization that does not share items leaves their group, which it  *)
(* looks up first of all; the last one to leave deletes it.                 *)
LeftBehind(o, share) == IF Items \in share THEN 0 ELSE group[Items][o]

Deserted(o, share) ==
  {g \in {LeftBehind(o, share)} \ {0} : \A p \in Orgs \ {o} : group[Items][p] # g}

BeginPermissions(w, i, share) ==
  /\ Serve(w)
  /\ Exists(i)
  /\ share \subseteq table[i].share \/ currency[table[i].from] = currency[table[i].to]
  /\ job' = [job EXCEPT ![w] =
               [Idle EXCEPT !.at = "permissions", !.pk = i, !.row = table[i], !.share = share,
                            !.left = LeftBehind(table[i].to, share),
                            !.deserted = Deserted(table[i].to, share),
                            !.first = GroupsOf(table[i].to), !.second = GroupsOf(table[i].from)]]
  /\ UNCHANGED <<table, created, Organizations, consents>>

(* The row is written, not yet for others to see, and the other direction   *)
(* looked for as it is committed.  (Mutant: it need not share the same.)    *)
OneWay(w) ==
  {k \in NewlyShared(job[w]) : \E j \in Reverse(job[w].row) : table[j].accepted}

SharedBack(w) ==
  {k \in NewlyShared(job[w]) :
     \E j \in Reverse(job[w].row) : table[j].accepted /\ k \in table[j].share}

FindReverse(w) ==
  /\ job[w].at = "permissions"
  /\ Unlocked(w, job[w].pk)
  /\ IF Savable(job[w].pk, job[w].row)
     THEN job' = [job EXCEPT ![w].at = "link", ![w].mutual = SharedBack(w)]
     ELSE Finish(w)
  /\ UNCHANGED <<table, created, Organizations, served, consents, orderly>>

(* Mutant: a new group, though one of the two has one. *)
LinkedAnew(j, k) == made[k] + 1

(* The group of this kind after two organizations have been linked: none of *)
(* those that have one already changes it.                                  *)
Linked(j, k) ==
  CASE j.first[k] = 0 /\ j.second[k] = 0 -> made[k] + 1
    [] j.first[k] # 0 -> j.first[k]
    [] OTHER -> j.second[k]

(* Mutant: the second of the two is not saved. *)
JoinsAlone(j, k) ==
  IF k \notin j.mutual THEN {} ELSE {o \in {j.row.to} : j.first[k] = 0}

Joins(j, k) ==
  IF k \notin j.mutual THEN {}
  ELSE {o \in {j.row.to} : j.first[k] = 0} \union {o \in {j.row.from} : j.second[k] = 0}

GroupsAfter(j) ==
  [k \in Kinds |-> [o \in Orgs |->
     IF o \in Joins(j, k) THEN Linked(j, k)
     ELSE IF k = Items /\ o = j.row.to /\ j.left # 0 THEN 0
     ELSE group[k][o]]]

Fresh(j) == {k \in j.mutual : j.first[k] = 0 /\ j.second[k] = 0}

CommitPermissions(w) ==
  LET j == job[w]
      r == [j.row EXCEPT !.share = j.share, !.accepted = @ \/ Items \notin j.share]
  IN
  /\ j.at = "link"
  /\ Savable(j.pk, j.row)
  /\ \A o \in Joins(j, Items) : Linked(j, Items) \notin gone
  /\ \A o \in Orgs \ {j.row.to} : group[Items][o] \notin j.deserted  \* a foreign key
  /\ \A k \in Fresh(j) : made[k] < MaxGroups
  /\ IF j.row.accepted
     THEN table' = [table EXCEPT ![j.pk] = r] /\ UNCHANGED created
     ELSE /\ Free(0, r.to, r.from)
          /\ created < MaxRows
          /\ created' = created + 1
          /\ table' = [table EXCEPT ![j.pk] = r, ![created + 1] = Partners(r.to, r.from)]
  /\ group' = GroupsAfter(j)
  /\ made' = [k \in Kinds |-> IF k \in Fresh(j) THEN made[k] + 1 ELSE made[k]]
  /\ gone' = gone \union j.deserted
  /\ consents' = consents \union (j.share \X {r.to} \X {r.from})
  /\ Finish(w)
  /\ UNCHANGED <<currency, served, orderly>>

-----------------------------------------------------------------------------
(* Deleting: up to six commits. *)

(* Mutant: only the one direction is deleted. *)
BeginDropRow(w, i) ==
  /\ Serve(w)
  /\ Exists(i)
  /\ job' = [job EXCEPT ![w] = [Idle EXCEPT !.pk = i, !.row = table[i], !.at = "drop_row"]]
  /\ UNCHANGED <<table, created, Organizations, consents>>

BeginDelete(w, i) ==
  /\ Serve(w)
  /\ Exists(i)
  /\ job' = [job EXCEPT ![w] = [Idle EXCEPT
       !.pk = i, !.row = table[i],
       !.at = IF Reverse(table[i]) = {} THEN "drop_row" ELSE "leave",
       !.other = IF Reverse(table[i]) = {} THEN 0 ELSE CHOOSE j \in Reverse(table[i]) : TRUE]]
  /\ UNCHANGED <<table, created, Organizations, consents>>

(* One of the two, the one the row is addressed to, leaves the items.      *)
LeaveItems(w) ==
  LET o == job[w].row.to IN
  /\ job[w].at = "leave"
  /\ group' = [group EXCEPT ![Items][o] = 0]
  /\ job' = [job EXCEPT ![w].left = group[Items][o],
                        ![w].at = IF group[Items][o] = 0 THEN "drop_reverse" ELSE "dissolve"]
  /\ UNCHANGED <<table, created, made, gone, currency, served, consents, orderly>>

(* If one is left in the group, the other partner leaves whatever group it *)
(* is in, which need not be this one, and then the group is deleted.       *)
Dissolve(w) ==
  LET left == {o \in Orgs : group[Items][o] = job[w].left} IN
  /\ job[w].at = "dissolve"
  /\ job' = [job EXCEPT ![w].at = IF \E o \in Orgs : left = {o} THEN "part" ELSE "drop_reverse"]
  /\ UNCHANGED <<table, created, Organizations, served, consents, orderly>>

Part(w) ==
  /\ job[w].at = "part"
  /\ group' = [group EXCEPT ![Items][job[w].row.from] = 0]
  /\ job' = [job EXCEPT ![w].at = "ungroup"]
  /\ UNCHANGED <<table, created, made, gone, currency, served, consents, orderly>>

Ungroup(w) ==
  LET g == job[w].left IN
  /\ job[w].at = "ungroup"
  /\ group' = [group EXCEPT ![Items] =
                 [o \in Orgs |-> IF group[Items][o] = g THEN 0 ELSE group[Items][o]]]
  /\ gone' = gone \union {g}
  /\ job' = [job EXCEPT ![w].at = "drop_reverse"]
  /\ UNCHANGED <<table, created, made, currency, served, consents, orderly>>

DropReverse(w) ==
  /\ job[w].at = "drop_reverse"
  /\ Unlocked(w, job[w].other)
  /\ table' = [table EXCEPT ![job[w].other] = NoRow]
  /\ job' = [job EXCEPT ![w].at = "drop_row"]
  /\ UNCHANGED <<created, Organizations, served, consents, orderly>>

DropRow(w) ==
  /\ job[w].at = "drop_row"
  /\ Unlocked(w, job[w].pk)
  /\ table' = [table EXCEPT ![job[w].pk] = NoRow]
  /\ Finish(w)
  /\ UNCHANGED <<created, Organizations, served, consents, orderly>>

-----------------------------------------------------------------------------
(* An owner edits the organization: after the load the title is sent to a   *)
(* translator, then a change of the currency is checked and the whole row   *)
(* is saved.                                                                *)

(* Mutant: only the rows addressed to the organization are looked at. *)
CanChangeAsAccepter(o, c) ==
  \A i \in Pks :
    table[i].accepted /\ table[i].share = Kinds =>
      (table[i].to = o => currency[table[i].from] = c)

CanChangeCurrency(o, c) ==
  \A i \in Pks :
    table[i].accepted /\ table[i].share = Kinds =>
      /\ table[i].to = o => currency[table[i].from] = c
      /\ table[i].from = o => currency[table[i].to] = c

BeginEdit(w, o, c) ==
  /\ Serve(w)
  /\ job' = [job EXCEPT ![w] = [Idle EXCEPT !.at = "edit", !.org = o, !.currency = c,
                                            !.loaded = currency[o], !.first = GroupsOf(o)]]
  /\ UNCHANGED <<table, created, Organizations, consents>>

CommitEdit(w) ==
  LET j == job[w] IN
  /\ j.at = "edit"
  /\ j.currency = j.loaded \/ CanChangeCurrency(j.org, j.currency)
  /\ j.first[Items] \notin gone
  /\ currency' = [currency EXCEPT ![j.org] = j.currency]
  /\ group' = [k \in Kinds |-> [group[k] EXCEPT ![j.org] = j.first[k]]]
  /\ Finish(w)
  /\ UNCHANGED <<table, created, made, gone, served, consents, orderly>>

(* The process dies, or the database refuses what the request writes.      *)
Fail(w) ==
  /\ job[w] # Idle
  /\ orderly' = (orderly /\ job[w].at \in {"permissions", "link", "accept", "leave", "edit"})
  /\ Finish(w)
  /\ UNCHANGED <<table, created, Organizations, served, consents>>

Begin(w) ==
  \/ \E from, to \in Orgs : Ask(w, from, to)
  \/ \E i \in Pks : BeginAccept(w, i) \/ BeginDelete(w, i)
  \/ \E i \in Pks, share \in SUBSET Kinds : BeginPermissions(w, i, share)
  \/ \E o \in Orgs, c \in Currencies : BeginEdit(w, o, c)

Continue(w) ==
  \/ CreateReverse(w) \/ AcceptRow(w) \/ AcceptReverse(w)
  \/ FindReverse(w) \/ CommitPermissions(w)
  \/ LeaveItems(w) \/ Dissolve(w) \/ Part(w) \/ Ungroup(w) \/ DropReverse(w) \/ DropRow(w)
  \/ CommitEdit(w) \/ Fail(w)

Next == \E w \in Workers : Begin(w) \/ Continue(w)

Spec == Init /\ [][Next]_vars

-----------------------------------------------------------------------------
(* Properties *)

Agreed(k, o, p) == <<k, o, p>> \in consents /\ <<k, p, o>> \in consents

(* Cashback, cards and items are shared only along agreements.  Groups grow *)
(* by joining one organization after another, are written from rows loaded  *)
(* earlier and outlive the partnerships; still, if no organization of a set *)
(* has ever agreed in both directions with one outside it, no group reaches *)
(* across: nobody's cashback is spent where no chain of agreements leads.   *)
GroupsFollowConsent ==
  \A k \in Kinds, S \in SUBSET Orgs :
    (\A o \in S, p \in Orgs \ S : ~Agreed(k, o, p)) =>
      \A o \in S, p \in Orgs \ S : group[k][o] = 0 \/ group[k][o] # group[k][p]

AtRest == orderly /\ \A w \in Workers : job[w] = Idle

Directions(i, j) == Exists(i) /\ j \in Reverse(table[i])

(* As long as requests come one at a time and none stops half-way, an       *)
(* accepted partnership has its other direction, which is what the lists,   *)
(* the statistics and the attendance of the other partner look for.         *)
AcceptedIsMutual ==
  AtRest => \A i \in Pks : table[i].accepted => \E j \in Pks : Directions(i, j)

(* Likewise, two partners that have both accepted and both share something  *)
(* other than items are in one group, whichever of them shared first and    *)
(* whatever either gave up or took back in between, or else were already in *)
(* groups with others.                                                      *)
SharedIsLinked ==
  AtRest =>
    \A i, j \in Pks : Directions(i, j) /\ table[i].accepted /\ table[j].accepted =>
      \A k \in (table[i].share \intersect table[j].share) \ {Items} :
        LET g == group[k][table[i].from]  h == group[k][table[i].to] IN
        /\ g # 0 /\ h # 0
        /\ g # h => \A f \in {g, h} : \E o \in Orgs \ {table[i].from, table[i].to} : group[k][o] = f

(* Likewise, an accepted partnership that shares everything joins           *)
(* organizations of one currency: the permissions check it when they are    *)
(* given, the edit of an organization when they have been.                  *)
OneCurrency ==
  AtRest =>
    \A i \in Pks : table[i].accepted /\ table[i].share = Kinds =>
      currency[table[i].from] = currency[table[i].to]
=============================================================================
