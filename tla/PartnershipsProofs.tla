------------------------- MODULE PartnershipsProofs -------------------------
(***************************************************************************)
(* Partnerships proved for any number of organizations, requests in hand,  *)
(* kinds and groups.  In any interleaving, no group ever reaches across a  *)
(* line that no agreement crosses.  As long as requests come one at a time *)
(* and none stops half-way, an accepted partnership has its other          *)
(* direction, two that share the same are in groups, and two that share    *)
(* everything keep one currency.                                           *)
(***************************************************************************)
EXTENDS Partnerships, TLAPS

-----------------------------------------------------------------------------
(* The inductive invariant.  Groups are written from what a request loaded  *)
(* long before, so an organization counts as a member of a group as long as *)
(* the table says so or some request remembers it.                          *)

Remembers(j, k, o, g) ==
  \/ j.at \in {"permissions", "link"} /\ j.row.to = o /\ j.first[k] = g
  \/ j.at \in {"permissions", "link"} /\ j.row.from = o /\ j.second[k] = g
  \/ j.at = "edit" /\ j.org = o /\ j.first[k] = g

Member(k, o, g) == group[k][o] = g \/ \E w \in Workers : Remembers(job[w], k, o, g)

Closed(k, S) == \A o \in S, p \in Orgs \ S : ~Agreed(k, o, p)

MembersAgree ==
  \A k \in Kinds, S \in SUBSET Orgs, g \in Groups \ {0} :
    Closed(k, S) =>
      \A o, p \in Orgs : Member(k, o, g) /\ Member(k, p, g) /\ o \in S => p \in S

MembersOfMade ==
  /\ \A k \in Kinds, o \in Orgs, g \in Groups : Member(k, o, g) => g <= made[k]
  /\ \A g \in gone : g <= made[Items]
  /\ \A w \in Workers : job[w].left <= made[Items]

(* Rows, in the table or in hand, share nothing that was never agreed to.  *)
RowAgreed(r, cs) == \A k \in r.share : <<k, r.to, r.from>> \in cs

GoodRow(r, cs) == RowAgreed(r, cs) /\ (r # NoRow => r.from \in Orgs /\ r.to \in Orgs)

InHand(j, cs) ==
  /\ RowAgreed(j.row, cs)
  /\ j.at \notin {"idle", "edit"} =>
       j.pk \in Pks /\ j.row.from \in Orgs /\ j.row.to \in Orgs
  /\ j.at \in {"dissolve", "part", "ungroup"} => j.left # 0
  /\ j.at = "edit" => j.org \in Orgs /\ j.currency \in Currencies
  /\ j.at \in {"permissions", "link"} =>
       /\ j.deserted \subseteq {j.left} \ {0}
       /\ j.left # 0 => Items \notin j.share
  /\ j.at = "link" =>
       /\ j.mutual \subseteq j.share
       /\ \A k \in j.mutual : <<k, j.row.from, j.row.to>> \in cs

Inv ==
  /\ TypeOK
  /\ MembersAgree
  /\ MembersOfMade
  /\ \A i \in Pks : GoodRow(table[i], consents)
  /\ \A w \in Workers : InHand(job[w], consents)

-----------------------------------------------------------------------------
(* Facts about single rows and jobs. *)

LEMMA Constants ==
  /\ MaxRows \in Nat /\ MaxGroups \in Nat /\ MaxRequests \in Nat
  /\ Items \in Kinds
  /\ Nobody \notin Orgs /\ Nobody \notin Currencies
  BY PartnershipsAssumption

LEMMA ZeroGroup == 0 \in Groups /\ \A g \in Groups : g \in Nat
  BY Constants DEF Groups

LEMMA IdleJob ==
  /\ Idle \in Job /\ Idle.at = "idle" /\ Idle.left = 0 /\ Idle.row = NoRow
  /\ \A cs : InHand(Idle, cs)
  /\ \A k, o, g : ~Remembers(Idle, k, o, g)
  <1>1. NoRow \in Row /\ NoRow.share = {} BY DEF NoRow, Row
  <1>2. NoGroups \in [Kinds -> Groups]
    BY ZeroGroup DEF NoGroups
  <1>4. /\ Idle.at = "idle" /\ Idle.left = 0 /\ Idle.row = NoRow
    BY DEF Idle
  <1>5. Idle \in Job
    BY <1>1, <1>2, ZeroGroup DEF Idle, Job, Phases
  <1>6. \A cs : InHand(Idle, cs)
    BY <1>1, <1>4 DEF InHand, RowAgreed
  <1>7. \A k, o, g : ~Remembers(Idle, k, o, g)
    BY <1>4 DEF Remembers
  <1> QED BY <1>4, <1>5, <1>6, <1>7

LEMMA InHandGrows ==
  ASSUME NEW j, NEW cs, NEW ds, InHand(j, cs), cs \subseteq ds
  PROVE  InHand(j, ds)
  BY DEF InHand, RowAgreed

LEMMA GoodRowGrows ==
  ASSUME NEW r, NEW cs, NEW ds, GoodRow(r, cs), cs \subseteq ds
  PROVE  GoodRow(r, ds)
  BY DEF GoodRow, RowAgreed

LEMMA NoRowGood == NoRow \in Row /\ \A cs : GoodRow(NoRow, cs)
  BY DEF NoRow, Row, GoodRow, RowAgreed

LEMMA UnsharedGood ==
  ASSUME NEW o \in Orgs, NEW p \in Orgs, NEW b \in BOOLEAN, NEW cs
  PROVE  /\ [from |-> o, to |-> p, accepted |-> b, share |-> {}] \in Row
         /\ GoodRow([from |-> o, to |-> p, accepted |-> b, share |-> {}], cs)
  BY DEF Row, GoodRow, RowAgreed

-----------------------------------------------------------------------------
(* What follows when a step puts one row, or one job, in place. *)

LEMMA PutRow ==
  ASSUME Inv, NEW i, NEW r \in Row, GoodRow(r, consents'),
         consents \subseteq consents',
         table' = [table EXCEPT ![i] = r]
  PROVE  /\ table' \in [Pks -> Row]
         /\ \A j \in Pks : GoodRow(table'[j], consents')
  <1>1. table' \in [Pks -> Row] BY DEF Inv, TypeOK
  <1>2. ASSUME NEW j \in Pks PROVE GoodRow(table'[j], consents')
    <2>1. table'[j] = r \/ table'[j] = table[j] BY DEF Inv, TypeOK
    <2> QED BY <2>1, GoodRowGrows DEF Inv
  <1> QED BY <1>1, <1>2

LEMMA KeepRows ==
  ASSUME Inv, consents \subseteq consents', table' = table
  PROVE  /\ table' \in [Pks -> Row]
         /\ \A j \in Pks : GoodRow(table'[j], consents')
  BY GoodRowGrows DEF Inv, TypeOK

LEMMA PutJob ==
  ASSUME Inv, NEW w \in Workers, NEW n \in Job, InHand(n, consents'),
         consents \subseteq consents',
         job' = [job EXCEPT ![w] = n]
  PROVE  /\ job' \in [Workers -> Job]
         /\ job'[w] = n
         /\ \A v \in Workers : v # w => job'[v] = job[v]
         /\ \A v \in Workers : InHand(job'[v], consents')
  <1>1. job' \in [Workers -> Job] /\ job'[w] = n
    BY DEF Inv, TypeOK
  <1>2. \A v \in Workers : v # w => job'[v] = job[v]
    BY DEF Inv, TypeOK
  <1>3. ASSUME NEW v \in Workers PROVE InHand(job'[v], consents')
    BY <1>1, <1>2, InHandGrows DEF Inv
  <1> QED BY <1>1, <1>2, <1>3

(* Nothing is ever recalled that was not known. *)
LEMMA MembersKept ==
  ASSUME Inv, NEW w \in Workers, NEW n \in Job,
         job'[w] = n, \A v \in Workers : v # w => job'[v] = job[v],
         UNCHANGED <<group, made, gone, consents>>,
         \A k \in Kinds, o \in Orgs, g \in Groups :
           Remembers(n, k, o, g) => Member(k, o, g),
         n.left <= made[Items]
  PROVE  MembersAgree' /\ MembersOfMade'
  <1>1. ASSUME NEW k \in Kinds, NEW o \in Orgs, NEW g \in Groups, Member(k, o, g)'
        PROVE  Member(k, o, g)
    <2>1. CASE group'[k][o] = g BY <2>1 DEF Member
    <2>2. CASE \E v \in Workers : Remembers(job'[v], k, o, g)
      <3>1. PICK v \in Workers : Remembers(job'[v], k, o, g) BY <2>2
      <3>2. CASE v = w BY <3>1, <3>2
      <3>3. CASE v # w BY <3>1, <3>3 DEF Member
      <3> QED BY <3>2, <3>3
    <2> QED BY <1>1, <2>1, <2>2 DEF Member, Remembers
  <1>2. \A k \in Kinds, S \in SUBSET Orgs : Closed(k, S)' <=> Closed(k, S)
    BY DEF Closed, Agreed
  <1>3. MembersAgree'
    BY <1>1, <1>2 DEF MembersAgree, Inv
  <1>4. MembersOfMade'
    <2>1. ASSUME NEW v \in Workers PROVE job'[v].left <= made[Items]
      BY DEF Inv, MembersOfMade
    <2> QED BY <1>1, <2>1 DEF MembersOfMade, Inv
  <1> QED BY <1>3, <1>4

(* A step that touches no organization, in one piece. *)
LEMMA QuietStep ==
  ASSUME Inv, NEW w \in Workers, NEW n \in Job, InHand(n, consents),
         job' = [job EXCEPT ![w] = n],
         UNCHANGED <<group, made, gone, currency, consents>>,
         \A k \in Kinds, o \in Orgs, g \in Groups :
           Remembers(n, k, o, g) => Member(k, o, g),
         n.left <= made[Items],
         table' \in [Pks -> Row], \A i \in Pks : GoodRow(table'[i], consents'),
         created' \in Pks \union {0}, served' \in 0..MaxRequests, orderly' \in BOOLEAN
  PROVE  Inv'
  <1>1. /\ job' \in [Workers -> Job] /\ job'[w] = n
        /\ \A v \in Workers : v # w => job'[v] = job[v]
        /\ \A v \in Workers : InHand(job'[v], consents')
    <2>1. InHand(n, consents') /\ consents \subseteq consents' OBVIOUS
    <2> QED BY <2>1, PutJob
  <1>2. TypeOK' BY <1>1 DEF Inv, TypeOK
  <1>3. MembersAgree' /\ MembersOfMade' BY <1>1, MembersKept
  <1> QED BY <1>1, <1>2, <1>3 DEF Inv

(* A request that ends, or that remembers no group. *)
LEMMA ForgetfulStep ==
  ASSUME Inv, NEW w \in Workers, NEW n \in Job, InHand(n, consents),
         job' = [job EXCEPT ![w] = n],
         UNCHANGED <<Organizations, consents>>,
         n.at \notin {"permissions", "link", "edit"},
         n.left <= made[Items],
         table' \in [Pks -> Row], \A i \in Pks : GoodRow(table'[i], consents'),
         created' \in Pks \union {0}, served' \in 0..MaxRequests, orderly' \in BOOLEAN
  PROVE  Inv'
  BY QuietStep DEF Remembers, Organizations

LEMMA Left ==
  ASSUME Inv
  PROVE  /\ 0 <= made[Items]
         /\ \A w \in Workers : job[w].left <= made[Items]
         /\ \A k \in Kinds : made[k] \in Nat /\ made[k] \in Groups
         /\ served \in 0..MaxRequests /\ orderly \in BOOLEAN
         /\ created \in Pks \union {0} /\ created \in Nat
  BY Constants, ZeroGroup DEF Inv, TypeOK, MembersOfMade, Pks

LEMMA ServeTypes ==
  ASSUME Inv, NEW w \in Workers, Serve(w)
  PROVE  served' \in 0..MaxRequests /\ orderly' \in BOOLEAN /\ job[w] = Idle
  BY Left, Constants DEF Serve

LEMMA NextPk ==
  ASSUME Inv, created < MaxRows
  PROVE  created + 1 \in Pks
  BY Left, Constants DEF Pks

-----------------------------------------------------------------------------
(* Asking, and accepting by asking back. *)

LEMMA AskKeeps ==
  ASSUME Inv, NEW w \in Workers, NEW from \in Orgs, NEW to \in Orgs, Ask(w, from, to)
  PROVE  Inv'
  <1> DEFINE r == [from |-> from, to |-> to, accepted |-> FALSE, share |-> {}]
  <1>1. r \in Row /\ GoodRow(r, consents') BY UnsharedGood
  <1>2. /\ table' = [table EXCEPT ![created + 1] = r]
        /\ created' = created + 1 /\ created < MaxRows
        /\ UNCHANGED <<Organizations, job, consents>>
    BY DEF Ask
  <1> HIDE DEF r
  <1>3. table' \in [Pks -> Row] /\ \A i \in Pks : GoodRow(table'[i], consents')
    BY <1>1, <1>2, PutRow
  <1>4. /\ served' \in 0..MaxRequests /\ orderly' \in BOOLEAN
        /\ job[w] = Idle
    BY ServeTypes DEF Ask
  <1>5. job' = [job EXCEPT ![w] = Idle] BY <1>2, <1>4 DEF Inv, TypeOK
  <1> QED
    BY <1>2, <1>3, <1>4, <1>5, NextPk, IdleJob, Left, ForgetfulStep

LEMMA BeginAcceptKeeps ==
  ASSUME Inv, NEW w \in Workers, NEW i \in Pks, BeginAccept(w, i)
  PROVE  Inv'
  <1> DEFINE n == [Idle EXCEPT !.at = "accept", !.pk = i, !.row = table[i]]
  <1>1. /\ table[i] \in Row /\ table[i].from \in Orgs /\ table[i].to \in Orgs
        /\ RowAgreed(table[i], consents)
    BY DEF BeginAccept, Exists, Inv, TypeOK, GoodRow
  <1>2. n \in Job /\ n.at = "accept" /\ n.pk = i /\ n.row = table[i] /\ n.left = 0
    BY <1>1, IdleJob DEF Idle, Job, Phases
  <1>3. job' = [job EXCEPT ![w] = n] /\ UNCHANGED <<table, created, Organizations, consents>>
    BY DEF BeginAccept
  <1> HIDE DEF n
  <1>4. InHand(n, consents) BY <1>1, <1>2 DEF InHand
  <1>5. served' \in 0..MaxRequests /\ orderly' \in BOOLEAN
    BY ServeTypes DEF BeginAccept
  <1> QED
    BY <1>2, <1>3, <1>4, <1>5, Left, KeepRows, ForgetfulStep

LEMMA CreateReverseKeeps ==
  ASSUME Inv, NEW w \in Workers, CreateReverse(w)
  PROVE  Inv'
  <1> DEFINE r == job[w].row
             back == [from |-> r.to, to |-> r.from, accepted |-> FALSE, share |-> {}]
             n == [job[w] EXCEPT !.at = "accept_row", !.other = created + 1,
                                 !.row = table[job[w].pk]]
  <1>1. /\ job[w] \in Job /\ InHand(job[w], consents) /\ job[w].at = "accept"
        /\ job[w].pk \in Pks /\ r.from \in Orgs /\ r.to \in Orgs
        /\ UNCHANGED <<Organizations, served, consents, orderly>>
    BY DEF CreateReverse, Inv, TypeOK, InHand
  <1>2. back \in Row /\ GoodRow(back, consents') BY <1>1, UnsharedGood
  <1>3. CASE Free(0, r.to, r.from)
    <2>1. /\ created < MaxRows /\ created' = created + 1
          /\ table' = [table EXCEPT ![created + 1] = back]
      BY <1>3 DEF CreateReverse
    <2>2. table' \in [Pks -> Row] /\ \A i \in Pks : GoodRow(table'[i], consents')
      BY <1>1, <1>2, <2>1, PutRow
    <2>3. created' \in Pks \union {0} BY <2>1, NextPk
    <2>4. CASE Exists(job[w].pk)
      <3>1. /\ table[job[w].pk] \in Row
            /\ table[job[w].pk].from \in Orgs /\ table[job[w].pk].to \in Orgs
            /\ RowAgreed(table[job[w].pk], consents)
        BY <1>1, <2>4 DEF Exists, Inv, TypeOK, GoodRow
      <3>2. job' = [job EXCEPT ![w] = n]
        BY <1>3, <2>4 DEF CreateReverse, Inv, TypeOK
      <3>3. /\ n \in Job /\ n.at = "accept_row" /\ n.row = table[job[w].pk]
            /\ n.pk = job[w].pk /\ n.left = job[w].left
        BY <1>1, <2>1, <3>1, NextPk DEF Job, Phases
      <3> HIDE DEF n
      <3>4. InHand(n, consents) BY <1>1, <3>1, <3>3 DEF InHand
      <3> QED
        BY <1>1, <2>2, <2>3, <3>2, <3>3, <3>4, Left, ForgetfulStep
    <2>5. CASE ~Exists(job[w].pk)
      <3>1. job' = [job EXCEPT ![w] = Idle]
        BY <1>3, <2>5 DEF CreateReverse, Finish
      <3> QED
        BY <1>1, <2>2, <2>3, <3>1, IdleJob, Left, ForgetfulStep
    <2> QED BY <2>4, <2>5
  <1>4. CASE ~Free(0, r.to, r.from)
    <2>1. job' = [job EXCEPT ![w] = Idle] /\ UNCHANGED <<table, created>>
      BY <1>4 DEF CreateReverse, Finish
    <2> QED BY <1>1, <2>1, KeepRows, IdleJob, Left, ForgetfulStep
  <1> QED BY <1>3, <1>4

LEMMA SavedAccepted ==
  ASSUME Inv, NEW w \in Workers, NEW i \in Pks \union {0}, NEW r \in Row,
         RowAgreed(r, consents), r.from \in Orgs, r.to \in Orgs,
         SaveAccepted(w, i, r), UNCHANGED consents
  PROVE  table' \in [Pks -> Row] /\ \A j \in Pks : GoodRow(table'[j], consents')
  <1> DEFINE n == [r EXCEPT !.accepted = TRUE]
  <1>1. n \in Row /\ n.from = r.from /\ n.to = r.to /\ n.share = r.share
    BY DEF Row
  <1>2. table' = [table EXCEPT ![i] = n] \/ table' = table
    BY DEF SaveAccepted
  <1> HIDE DEF n
  <1>3. GoodRow(n, consents') BY <1>1 DEF GoodRow, RowAgreed
  <1> QED BY <1>1, <1>2, <1>3, PutRow, KeepRows

LEMMA AcceptRowKeeps ==
  ASSUME Inv, NEW w \in Workers, AcceptRow(w)
  PROVE  Inv'
  <1> DEFINE n == [job[w] EXCEPT !.at = "accept_reverse"]
  <1>1. /\ job[w] \in Job /\ InHand(job[w], consents) /\ job[w].at = "accept_row"
        /\ job[w].pk \in Pks /\ job[w].row.from \in Orgs /\ job[w].row.to \in Orgs
        /\ RowAgreed(job[w].row, consents)
        /\ UNCHANGED <<created, Organizations, served, consents, orderly>>
    BY DEF AcceptRow, Inv, TypeOK, InHand
  <1>2. table' \in [Pks -> Row] /\ \A j \in Pks : GoodRow(table'[j], consents')
    BY <1>1, SavedAccepted DEF AcceptRow, Job
  <1>3. job' = [job EXCEPT ![w] = n] \/ job' = [job EXCEPT ![w] = Idle]
    BY DEF AcceptRow, Finish
  <1>4. /\ n \in Job /\ n.at = "accept_reverse" /\ n.row = job[w].row
        /\ n.pk = job[w].pk /\ n.left = job[w].left
    BY <1>1 DEF Job, Phases
  <1> HIDE DEF n
  <1>5. InHand(n, consents) BY <1>1, <1>4 DEF InHand
  <1>6. CASE job' = [job EXCEPT ![w] = n]
    BY <1>1, <1>2, <1>4, <1>5, <1>6, Left, ForgetfulStep
  <1>7. CASE job' = [job EXCEPT ![w] = Idle]
    BY <1>1, <1>2, <1>7, IdleJob, Left, ForgetfulStep
  <1> QED BY <1>3, <1>6, <1>7

LEMMA AcceptReverseKeeps ==
  ASSUME Inv, NEW w \in Workers, AcceptReverse(w)
  PROVE  Inv'
  <1> DEFINE r == job[w].row
             back == [from |-> r.to, to |-> r.from, accepted |-> FALSE, share |-> {}]
  <1>1. /\ job[w] \in Job /\ InHand(job[w], consents) /\ job[w].at = "accept_reverse"
        /\ r.from \in Orgs /\ r.to \in Orgs
        /\ UNCHANGED <<created, Organizations, served, consents, orderly>>
    BY DEF AcceptReverse, Inv, TypeOK, InHand
  <1>2. back \in Row /\ RowAgreed(back, consents)
        /\ back.from \in Orgs /\ back.to \in Orgs
    BY <1>1 DEF Row, RowAgreed
  <1>3. SaveAccepted(w, job[w].other, back) /\ job' = [job EXCEPT ![w] = Idle]
    BY DEF AcceptReverse, Finish
  <1>4. job[w].other \in Pks \union {0} BY <1>1 DEF Job
  <1> HIDE DEF back
  <1>5. table' \in [Pks -> Row] /\ \A j \in Pks : GoodRow(table'[j], consents')
    BY <1>1, <1>2, <1>3, <1>4, SavedAccepted
  <1> QED BY <1>1, <1>3, <1>5, IdleJob, Left, ForgetfulStep

-----------------------------------------------------------------------------
(* Setting the permissions, up to the end of the transaction. *)

LEMMA BeginPermissionsKeeps ==
  ASSUME Inv, NEW w \in Workers, NEW i \in Pks, NEW share \in SUBSET Kinds,
         BeginPermissions(w, i, share)
  PROVE  Inv'
  <1> DEFINE one == GroupsOf(table[i].to)
             two == GroupsOf(table[i].from)
             l == LeftBehind(table[i].to, share)
             d == Deserted(table[i].to, share)
             n == [Idle EXCEPT !.at = "permissions", !.pk = i, !.row = table[i],
                               !.share = share, !.left = l, !.deserted = d,
                               !.first = one, !.second = two]
  <1>1. /\ table[i] \in Row /\ table[i].from \in Orgs /\ table[i].to \in Orgs
        /\ RowAgreed(table[i], consents)
    BY DEF BeginPermissions, Exists, Inv, TypeOK, GoodRow
  <1>2. one \in [Kinds -> Groups] /\ two \in [Kinds -> Groups]
    BY <1>1 DEF GroupsOf, Inv, TypeOK
  <1>3. \A k \in Kinds : one[k] = group[k][table[i].to] /\ two[k] = group[k][table[i].from]
    BY DEF GroupsOf
  <1>4. job' = [job EXCEPT ![w] = n] /\ UNCHANGED <<table, created, Organizations, consents>>
    BY DEF BeginPermissions
  <1>11. /\ l \in Groups /\ l <= made[Items] /\ d \subseteq {l} \ {0} /\ d \subseteq Groups
         /\ l # 0 => Items \notin share
    BY <1>1, ZeroGroup, Constants, Left DEF LeftBehind, Deserted, Inv, TypeOK
  <1> HIDE DEF one, two, l, d
  <1>5. /\ n \in Job /\ n.at = "permissions" /\ n.pk = i /\ n.row = table[i]
        /\ n.share = share /\ n.left = l /\ n.deserted = d /\ n.first = one /\ n.second = two
    BY <1>1, <1>2, <1>11, IdleJob DEF Idle, Job, Phases
  <1> HIDE DEF n
  <1>6. InHand(n, consents) BY <1>1, <1>5, <1>11 DEF InHand
  <1>7. served' \in 0..MaxRequests /\ orderly' \in BOOLEAN
    BY ServeTypes DEF BeginPermissions
  <1>8. ASSUME NEW k \in Kinds, NEW o \in Orgs, NEW g \in Groups, Remembers(n, k, o, g)
        PROVE  Member(k, o, g)
    BY <1>3, <1>5, <1>8 DEF Remembers, Member
  <1>9. /\ table' \in [Pks -> Row] /\ \A j \in Pks : GoodRow(table'[j], consents')
        /\ UNCHANGED <<group, made, gone, currency, consents>> /\ created' \in Pks \union {0}
    BY <1>4, KeepRows, Left DEF Organizations
  <1>10. n.left <= made[Items] BY <1>5, <1>11
  <1> QED BY <1>4, <1>5, <1>6, <1>7, <1>8, <1>9, <1>10, QuietStep

LEMMA FindReverseKeeps ==
  ASSUME Inv, NEW w \in Workers, FindReverse(w)
  PROVE  Inv'
  <1> DEFINE m == SharedBack(w)
             n == [job[w] EXCEPT !.at = "link", !.mutual = m]
  <1>1. /\ job[w] \in Job /\ InHand(job[w], consents) /\ job[w].at = "permissions"
        /\ job[w].pk \in Pks /\ job[w].row.from \in Orgs /\ job[w].row.to \in Orgs
        /\ RowAgreed(job[w].row, consents)
        /\ UNCHANGED <<table, created, group, made, gone, currency, served, consents, orderly>>
    BY DEF FindReverse, Organizations, Inv, TypeOK, InHand
  <1>2. m \subseteq job[w].share /\ m \in SUBSET Kinds
    BY <1>1 DEF SharedBack, NewlyShared, Job
  <1>3. ASSUME NEW k \in m
        PROVE  <<k, job[w].row.from, job[w].row.to>> \in consents
    <2>1. PICK j \in Reverse(job[w].row) : k \in table[j].share
      BY <1>3 DEF SharedBack
    <2>2. j \in Pks /\ table[j].from = job[w].row.to /\ table[j].to = job[w].row.from
      BY <2>1 DEF Reverse
    <2> QED BY <2>1, <2>2 DEF Inv, GoodRow, RowAgreed
  <1>4. job' = [job EXCEPT ![w] = n] \/ job' = [job EXCEPT ![w] = Idle]
    BY DEF FindReverse, Finish
  <1> HIDE DEF m
  <1>5. /\ n \in Job /\ n.at = "link" /\ n.row = job[w].row /\ n.mutual = m
        /\ n.pk = job[w].pk /\ n.left = job[w].left /\ n.share = job[w].share
        /\ n.deserted = job[w].deserted
        /\ n.first = job[w].first /\ n.second = job[w].second /\ n.org = job[w].org
    BY <1>1, <1>2 DEF Job, Phases
  <1> HIDE DEF n
  <1>6. InHand(n, consents) BY <1>1, <1>2, <1>3, <1>5 DEF InHand
  <1>7. ASSUME NEW k \in Kinds, NEW o \in Orgs, NEW g \in Groups, Remembers(n, k, o, g)
        PROVE  Member(k, o, g)
    <2>1. Remembers(job[w], k, o, g) BY <1>1, <1>5, <1>7 DEF Remembers
    <2> QED BY <2>1 DEF Member
  <1>8. /\ table' \in [Pks -> Row] /\ \A i \in Pks : GoodRow(table'[i], consents')
    BY <1>1, KeepRows
  <1>9. CASE job' = [job EXCEPT ![w] = n]
    BY <1>1, <1>5, <1>6, <1>7, <1>8, <1>9, Left, QuietStep
  <1>10. CASE job' = [job EXCEPT ![w] = Idle]
    BY <1>1, <1>8, <1>10, IdleJob, Left, ForgetfulStep DEF Organizations
  <1> QED BY <1>4, <1>9, <1>10

-----------------------------------------------------------------------------
(* Deleting, and editing an organization. *)

(* Groups may lose members, and take those back that a request remembers.  *)
LEMMA MembersLost ==
  ASSUME Inv, NEW w \in Workers, NEW n \in Job,
         job' = [job EXCEPT ![w] = n],
         UNCHANGED <<made, consents>>,
         \A k \in Kinds, o \in Orgs, g \in Groups \ {0} :
           group'[k][o] = g \/ Remembers(n, k, o, g) => Member(k, o, g),
         \A g \in gone' : g <= made[Items],
         n.left <= made[Items]
  PROVE  MembersAgree' /\ MembersOfMade'
  <1>0. job'[w] = n /\ \A v \in Workers : v # w => job'[v] = job[v]
    BY DEF Inv, TypeOK
  <1>1. ASSUME NEW k \in Kinds, NEW o \in Orgs, NEW g \in Groups \ {0}, Member(k, o, g)'
        PROVE  Member(k, o, g)
    <2>1. CASE group'[k][o] = g BY <2>1
    <2>2. CASE \E v \in Workers : Remembers(job'[v], k, o, g)
      <3>1. PICK v \in Workers : Remembers(job'[v], k, o, g) BY <2>2
      <3>2. CASE v = w BY <1>0, <3>1, <3>2
      <3>3. CASE v # w BY <1>0, <3>1, <3>3 DEF Member
      <3> QED BY <3>2, <3>3
    <2> QED BY <1>1, <2>1, <2>2 DEF Member, Remembers
  <1>2. \A k \in Kinds, S \in SUBSET Orgs : Closed(k, S)' <=> Closed(k, S)
    BY DEF Closed, Agreed
  <1>3. MembersAgree'
    BY <1>1, <1>2 DEF MembersAgree, Inv
  <1>4. MembersOfMade'
    <2>1. ASSUME NEW v \in Workers PROVE job'[v].left <= made[Items]
      BY <1>0 DEF Inv, MembersOfMade
    <2>2. ASSUME NEW k \in Kinds, NEW o \in Orgs, NEW g \in Groups, Member(k, o, g)'
          PROVE  g <= made[k]
      <3>1. CASE g = 0 BY <3>1, Left, ZeroGroup DEF Groups
      <3>2. CASE g # 0 BY <1>1, <2>2, <3>2 DEF Inv, MembersOfMade
      <3> QED BY <3>1, <3>2
    <2> QED BY <2>1, <2>2 DEF MembersOfMade
  <1> QED BY <1>3, <1>4

LEMMA BeginDeleteKeeps ==
  ASSUME Inv, NEW w \in Workers, NEW i \in Pks, BeginDelete(w, i)
  PROVE  Inv'
  <1> DEFINE a == IF Reverse(table[i]) = {} THEN "drop_row" ELSE "leave"
             b == IF Reverse(table[i]) = {} THEN 0 ELSE CHOOSE j \in Reverse(table[i]) : TRUE
             n == [Idle EXCEPT !.pk = i, !.row = table[i], !.at = a, !.other = b]
  <1>1. /\ table[i] \in Row /\ table[i].from \in Orgs /\ table[i].to \in Orgs
        /\ RowAgreed(table[i], consents)
    BY DEF BeginDelete, Exists, Inv, TypeOK, GoodRow
  <1>2. a \in {"drop_row", "leave"} /\ b \in Pks \union {0}
    BY DEF Reverse
  <1>3. job' = [job EXCEPT ![w] = n] /\ UNCHANGED <<table, created, Organizations, consents>>
    BY DEF BeginDelete
  <1> HIDE DEF a, b
  <1>4. n \in Job /\ n.at = a /\ n.pk = i /\ n.row = table[i] /\ n.left = 0
    BY <1>1, <1>2, IdleJob DEF Idle, Job, Phases
  <1> HIDE DEF n
  <1>5. InHand(n, consents) BY <1>1, <1>2, <1>4 DEF InHand
  <1>6. served' \in 0..MaxRequests /\ orderly' \in BOOLEAN
    BY ServeTypes DEF BeginDelete
  <1> QED
    BY <1>2, <1>3, <1>4, <1>5, <1>6, Left, KeepRows, ForgetfulStep

LEMMA LeaveItemsKeeps ==
  ASSUME Inv, NEW w \in Workers, LeaveItems(w)
  PROVE  Inv'
  <1> DEFINE q == job[w].row.to
             g == group[Items][q]
             a == IF g = 0 THEN "drop_reverse" ELSE "dissolve"
             n == [job[w] EXCEPT !.left = g, !.at = a]
  <1>1. /\ job[w] \in Job /\ InHand(job[w], consents) /\ job[w].at = "leave"
        /\ job[w].pk \in Pks /\ job[w].row.from \in Orgs /\ q \in Orgs
        /\ RowAgreed(job[w].row, consents)
        /\ UNCHANGED <<table, created, made, gone, currency, served, consents, orderly>>
    BY DEF LeaveItems, Inv, TypeOK, InHand
  <1>2. /\ group' = [group EXCEPT ![Items][q] = 0]
        /\ job' = [job EXCEPT ![w] = n]
    BY <1>1 DEF LeaveItems, Inv, TypeOK
  <1>3. g \in Groups /\ g <= made[Items] BY <1>1, Constants DEF Inv, TypeOK
  <1>4. a \in {"drop_reverse", "dissolve"} /\ (a = "dissolve" => g # 0) OBVIOUS
  <1> HIDE DEF a, g
  <1>5. n \in Job /\ n.at = a /\ n.pk = job[w].pk /\ n.row = job[w].row /\ n.left = g
    BY <1>1, <1>3, <1>4 DEF Job, Phases
  <1> HIDE DEF n
  <1>6. InHand(n, consents') /\ consents \subseteq consents'
    BY <1>1, <1>4, <1>5 DEF InHand
  <1>7. /\ job' \in [Workers -> Job] /\ \A v \in Workers : InHand(job'[v], consents')
    BY <1>2, <1>5, <1>6, PutJob
  <1>8. /\ group' \in [Kinds -> [Orgs -> Groups]]
        /\ \A k \in Kinds, o \in Orgs : group'[k][o] = group[k][o] \/ group'[k][o] = 0
    BY <1>1, <1>2, Constants, ZeroGroup DEF Inv, TypeOK
  <1>9. MembersAgree' /\ MembersOfMade'
    <2>1. \A k \in Kinds, o \in Orgs, h \in Groups \ {0} :
            group'[k][o] = h \/ Remembers(n, k, o, h) => Member(k, o, h)
      BY <1>4, <1>5, <1>8 DEF Member, Remembers
    <2>2. \A h \in gone' : h <= made[Items] BY <1>1 DEF Inv, MembersOfMade
    <2> QED BY <1>1, <1>2, <1>3, <1>5, <2>1, <2>2, MembersLost
  <1>10. \A o \in Orgs : group'[Items][o] \notin gone'
    BY <1>1, <1>8, Constants DEF Inv, TypeOK
  <1>11. \A k \in Kinds, o \in Orgs : group'[k][o] <= made'[k]
    BY <1>8, <1>9 DEF MembersOfMade, Member
  <1>12. TypeOK'
    BY <1>1, <1>7, <1>8, <1>10, <1>11 DEF Inv, TypeOK
  <1> QED BY <1>1, <1>7, <1>9, <1>12, KeepRows DEF Inv

LEMMA DissolveKeeps ==
  ASSUME Inv, NEW w \in Workers, Dissolve(w)
  PROVE  Inv'
  <1> DEFINE left == {o \in Orgs : group[Items][o] = job[w].left}
             a == IF \E o \in Orgs : left = {o} THEN "part" ELSE "drop_reverse"
             n == [job[w] EXCEPT !.at = a]
  <1>1. /\ job[w] \in Job /\ InHand(job[w], consents) /\ job[w].at = "dissolve"
        /\ job[w].pk \in Pks /\ job[w].row.from \in Orgs /\ job[w].row.to \in Orgs
        /\ RowAgreed(job[w].row, consents) /\ job[w].left # 0
        /\ UNCHANGED <<table, created, Organizations, served, consents, orderly>>
    BY DEF Dissolve, Inv, TypeOK, InHand
  <1>2. job' = [job EXCEPT ![w] = n] BY DEF Dissolve, Inv, TypeOK
  <1>3. a \in {"part", "drop_reverse"} OBVIOUS
  <1> HIDE DEF left, a
  <1>4. n \in Job /\ n.at = a /\ n.pk = job[w].pk /\ n.row = job[w].row /\ n.left = job[w].left
    BY <1>1, <1>3 DEF Job, Phases
  <1> HIDE DEF n
  <1>5. InHand(n, consents) BY <1>1, <1>3, <1>4 DEF InHand
  <1> QED BY <1>1, <1>2, <1>3, <1>4, <1>5, Left, KeepRows, ForgetfulStep

LEMMA PartKeeps ==
  ASSUME Inv, NEW w \in Workers, Part(w)
  PROVE  Inv'
  <1> DEFINE q == job[w].row.from
             n == [job[w] EXCEPT !.at = "ungroup"]
  <1>1. /\ job[w] \in Job /\ InHand(job[w], consents) /\ job[w].at = "part"
        /\ job[w].pk \in Pks /\ q \in Orgs /\ job[w].row.to \in Orgs
        /\ RowAgreed(job[w].row, consents) /\ job[w].left # 0
        /\ UNCHANGED <<table, created, made, gone, currency, served, consents, orderly>>
    BY DEF Part, Inv, TypeOK, InHand
  <1>2. group' = [group EXCEPT ![Items][q] = 0] /\ job' = [job EXCEPT ![w] = n]
    BY DEF Part
  <1>3. /\ n \in Job /\ n.at = "ungroup" /\ n.pk = job[w].pk
        /\ n.row = job[w].row /\ n.left = job[w].left /\ n.left <= made[Items]
    BY <1>1, Left DEF Job, Phases
  <1> HIDE DEF n
  <1>4. InHand(n, consents') /\ consents \subseteq consents' BY <1>1, <1>3 DEF InHand
  <1>5. job' \in [Workers -> Job] /\ \A v \in Workers : InHand(job'[v], consents')
    BY <1>2, <1>3, <1>4, PutJob
  <1>6. /\ group' \in [Kinds -> [Orgs -> Groups]]
        /\ \A k \in Kinds, o \in Orgs : group'[k][o] = group[k][o] \/ group'[k][o] = 0
    BY <1>1, <1>2, Constants, ZeroGroup DEF Inv, TypeOK
  <1>7. MembersAgree' /\ MembersOfMade'
    <2>1. \A k \in Kinds, o \in Orgs, h \in Groups \ {0} :
            group'[k][o] = h \/ Remembers(n, k, o, h) => Member(k, o, h)
      BY <1>3, <1>6 DEF Member, Remembers
    <2>2. \A h \in gone' : h <= made[Items] BY <1>1 DEF Inv, MembersOfMade
    <2> QED BY <1>1, <1>2, <1>3, <2>1, <2>2, MembersLost
  <1>8. \A o \in Orgs : group'[Items][o] \notin gone'
    BY <1>1, <1>6, Constants DEF Inv, TypeOK
  <1>9. \A k \in Kinds, o \in Orgs : group'[k][o] <= made'[k]
    BY <1>6, <1>7 DEF MembersOfMade, Member
  <1>10. TypeOK' BY <1>1, <1>5, <1>6, <1>8, <1>9 DEF Inv, TypeOK
  <1> QED BY <1>1, <1>5, <1>7, <1>10, KeepRows DEF Inv

LEMMA UngroupKeeps ==
  ASSUME Inv, NEW w \in Workers, Ungroup(w)
  PROVE  Inv'
  <1> DEFINE g == job[w].left
             n == [job[w] EXCEPT !.at = "drop_reverse"]
  <1>1. /\ job[w] \in Job /\ InHand(job[w], consents) /\ job[w].at = "ungroup"
        /\ job[w].pk \in Pks /\ job[w].row.from \in Orgs /\ job[w].row.to \in Orgs
        /\ RowAgreed(job[w].row, consents) /\ g # 0
        /\ UNCHANGED <<table, created, made, currency, served, consents, orderly>>
    BY DEF Ungroup, Inv, TypeOK, InHand
  <1>2. /\ group' = [group EXCEPT ![Items] =
                       [o \in Orgs |-> IF group[Items][o] = g THEN 0 ELSE group[Items][o]]]
        /\ gone' = gone \union {g}
        /\ job' = [job EXCEPT ![w] = n]
    BY DEF Ungroup
  <1>3. g \in Groups /\ g <= made[Items] BY <1>1, Left DEF Job
  <1>4. /\ n \in Job /\ n.at = "drop_reverse" /\ n.pk = job[w].pk
        /\ n.row = job[w].row /\ n.left = g
    BY <1>1 DEF Job, Phases
  <1> HIDE DEF n, g
  <1>5. InHand(n, consents') /\ consents \subseteq consents'
    BY <1>1, <1>4 DEF InHand
  <1>6. job' \in [Workers -> Job] /\ \A v \in Workers : InHand(job'[v], consents')
    BY <1>2, <1>4, <1>5, PutJob
  <1>7. /\ group' \in [Kinds -> [Orgs -> Groups]]
        /\ \A o \in Orgs : group'[Items][o] = IF group[Items][o] = g THEN 0 ELSE group[Items][o]
        /\ \A k \in Kinds \ {Items} : group'[k] = group[k]
    BY <1>2, Constants, ZeroGroup DEF Inv, TypeOK
  <1>8. /\ \A k \in Kinds, o \in Orgs : group'[k][o] = group[k][o] \/ group'[k][o] = 0
        /\ \A o \in Orgs : group'[Items][o] \notin gone'
        /\ gone' \subseteq Groups \ {0} /\ \A h \in gone' : h = g \/ h \in gone
    BY <1>1, <1>2, <1>3, <1>7 DEF Inv, TypeOK
  <1>9. MembersAgree' /\ MembersOfMade'
    <2>1. \A k \in Kinds, o \in Orgs, h \in Groups \ {0} :
            group'[k][o] = h \/ Remembers(n, k, o, h) => Member(k, o, h)
      BY <1>4, <1>8 DEF Member, Remembers
    <2>2. \A h \in gone' : h <= made[Items] BY <1>3, <1>8 DEF Inv, MembersOfMade
    <2> QED BY <1>1, <1>2, <1>3, <1>4, <2>1, <2>2, MembersLost
  <1>10. \A k \in Kinds, o \in Orgs : group'[k][o] <= made'[k]
    BY <1>7, <1>9 DEF MembersOfMade, Member
  <1>11. TypeOK'
    BY <1>1, <1>6, <1>7, <1>8, <1>10 DEF Inv, TypeOK
  <1> QED BY <1>1, <1>6, <1>9, <1>11, KeepRows DEF Inv

LEMMA DropReverseKeeps ==
  ASSUME Inv, NEW w \in Workers, DropReverse(w)
  PROVE  Inv'
  <1> DEFINE n == [job[w] EXCEPT !.at = "drop_row"]
  <1>1. /\ job[w] \in Job /\ InHand(job[w], consents) /\ job[w].at = "drop_reverse"
        /\ job[w].pk \in Pks /\ job[w].row.from \in Orgs /\ job[w].row.to \in Orgs
        /\ RowAgreed(job[w].row, consents)
        /\ UNCHANGED <<created, Organizations, served, consents, orderly>>
    BY DEF DropReverse, Inv, TypeOK, InHand
  <1>2. table' = [table EXCEPT ![job[w].other] = NoRow] /\ job' = [job EXCEPT ![w] = n]
    BY DEF DropReverse
  <1>3. /\ n \in Job /\ n.at = "drop_row" /\ n.pk = job[w].pk
        /\ n.row = job[w].row /\ n.left = job[w].left
    BY <1>1 DEF Job, Phases
  <1> HIDE DEF n
  <1>4. InHand(n, consents) BY <1>1, <1>3 DEF InHand
  <1>5. table' \in [Pks -> Row] /\ \A j \in Pks : GoodRow(table'[j], consents')
    BY <1>1, <1>2, NoRowGood, PutRow
  <1> QED BY <1>1, <1>2, <1>3, <1>4, <1>5, Left, ForgetfulStep

LEMMA DropRowKeeps ==
  ASSUME Inv, NEW w \in Workers, DropRow(w)
  PROVE  Inv'
  <1>1. /\ table' = [table EXCEPT ![job[w].pk] = NoRow]
        /\ job' = [job EXCEPT ![w] = Idle]
        /\ UNCHANGED <<created, Organizations, served, consents, orderly>>
    BY DEF DropRow, Finish
  <1>2. table' \in [Pks -> Row] /\ \A j \in Pks : GoodRow(table'[j], consents')
    BY <1>1, NoRowGood, PutRow
  <1> QED BY <1>1, <1>2, IdleJob, Left, ForgetfulStep

LEMMA FailKeeps ==
  ASSUME Inv, NEW w \in Workers, Fail(w)
  PROVE  Inv'
  <1>1. /\ job' = [job EXCEPT ![w] = Idle] /\ orderly' \in BOOLEAN
        /\ UNCHANGED <<table, created, Organizations, served, consents>>
    BY Left DEF Fail, Finish
  <1>2. table' \in [Pks -> Row] /\ \A j \in Pks : GoodRow(table'[j], consents')
    BY <1>1, KeepRows
  <1> QED BY <1>1, <1>2, IdleJob, Left, ForgetfulStep

LEMMA BeginEditKeeps ==
  ASSUME Inv, NEW w \in Workers, NEW q \in Orgs, NEW c \in Currencies, BeginEdit(w, q, c)
  PROVE  Inv'
  <1> DEFINE one == GroupsOf(q)
             cu == currency[q]
             n == [Idle EXCEPT !.at = "edit", !.org = q, !.currency = c, !.loaded = cu,
                               !.first = one]
  <1>1. one \in [Kinds -> Groups] /\ \A k \in Kinds : one[k] = group[k][q]
    BY DEF GroupsOf, Inv, TypeOK
  <1>2. job' = [job EXCEPT ![w] = n] /\ UNCHANGED <<table, created, Organizations, consents>>
    BY DEF BeginEdit
  <1>9. cu \in Currencies BY DEF Inv, TypeOK
  <1> HIDE DEF one, cu
  <1>3. /\ n \in Job /\ n.at = "edit" /\ n.org = q /\ n.currency = c
        /\ n.left = 0 /\ n.first = one /\ n.row = NoRow
    BY <1>1, <1>9, IdleJob DEF Idle, Job, Phases
  <1> HIDE DEF n
  <1>4. InHand(n, consents) BY <1>3, NoRowGood DEF InHand, GoodRow
  <1>5. served' \in 0..MaxRequests /\ orderly' \in BOOLEAN
    BY ServeTypes DEF BeginEdit
  <1>6. ASSUME NEW k \in Kinds, NEW o \in Orgs, NEW g \in Groups, Remembers(n, k, o, g)
        PROVE  Member(k, o, g)
    BY <1>1, <1>3, <1>6 DEF Remembers, Member
  <1>7. /\ table' \in [Pks -> Row] /\ \A j \in Pks : GoodRow(table'[j], consents')
        /\ UNCHANGED <<group, made, gone, currency, consents>> /\ created' \in Pks \union {0}
    BY <1>2, KeepRows, Left DEF Organizations
  <1>8. n.left <= made[Items] BY <1>3, Left
  <1> QED BY <1>2, <1>3, <1>4, <1>5, <1>6, <1>7, <1>8, QuietStep

LEMMA CommitEditKeeps ==
  ASSUME Inv, NEW w \in Workers, CommitEdit(w)
  PROVE  Inv'
  <1> DEFINE j == job[w]
  <1>1. /\ j \in Job /\ j.at = "edit" /\ j.org \in Orgs /\ j.currency \in Currencies
        /\ j.first \in [Kinds -> Groups] /\ j.first[Items] \notin gone
        /\ currency' = [currency EXCEPT ![j.org] = j.currency]
        /\ group' = [k \in Kinds |-> [group[k] EXCEPT ![j.org] = j.first[k]]]
        /\ job' = [job EXCEPT ![w] = Idle]
        /\ UNCHANGED <<table, created, made, gone, served, consents, orderly>>
    BY DEF CommitEdit, Finish, Inv, TypeOK, InHand, Job
  <1>2. \A k \in Kinds : Remembers(j, k, j.org, j.first[k])
    BY <1>1 DEF Remembers
  <1>3. \A k \in Kinds : Member(k, j.org, j.first[k])
    BY <1>2 DEF Member
  <1> HIDE DEF j
  <1>4. /\ group' \in [Kinds -> [Orgs -> Groups]]
        /\ \A k \in Kinds, o \in Orgs :
             group'[k][o] = IF o = j.org THEN j.first[k] ELSE group[k][o]
    BY <1>1 DEF Inv, TypeOK
  <1>5. MembersAgree' /\ MembersOfMade'
    <2>1. \A k \in Kinds, o \in Orgs, h \in Groups \ {0} :
            group'[k][o] = h \/ Remembers(Idle, k, o, h) => Member(k, o, h)
      BY <1>3, <1>4, IdleJob DEF Member
    <2>2. \A h \in gone' : h <= made[Items] BY <1>1 DEF Inv, MembersOfMade
    <2> QED BY <1>1, <2>1, <2>2, IdleJob, Left, MembersLost
  <1>6. \A k \in Kinds, o \in Orgs : group'[k][o] <= made'[k]
    BY <1>1, <1>4, <1>5 DEF MembersOfMade, Member
  <1>7. \A o \in Orgs : group'[Items][o] \notin gone'
    BY <1>1, <1>4, Constants DEF Inv, TypeOK
  <1>8. InHand(Idle, consents') /\ consents \subseteq consents' BY <1>1, IdleJob
  <1>9. /\ job' \in [Workers -> Job] /\ \A v \in Workers : InHand(job'[v], consents')
    BY <1>1, <1>8, IdleJob, PutJob
  <1>10. currency' \in [Orgs -> Currencies] BY <1>1 DEF Inv, TypeOK
  <1>11. TypeOK'
    BY <1>1, <1>4, <1>6, <1>7, <1>9, <1>10 DEF Inv, TypeOK
  <1> QED BY <1>1, <1>5, <1>9, <1>11, KeepRows DEF Inv

-----------------------------------------------------------------------------
(* The end of setting the permissions: two organizations are linked. *)

LEMMA CommitPermissionsKeeps ==
  ASSUME Inv, NEW w \in Workers, CommitPermissions(w)
  PROVE  Inv'
  <1> DEFINE j == job[w]
             a == j.row.from
             b == j.row.to
             r == [j.row EXCEPT !.share = j.share, !.accepted = @ \/ Items \notin j.share]
             back == Partners(r.to, r.from)
  <1>1. /\ j \in Job /\ InHand(j, consents) /\ j.at = "link" /\ j.row \in Row
        /\ j.pk \in Pks /\ a \in Orgs /\ b \in Orgs /\ RowAgreed(j.row, consents)
        /\ j.mutual \subseteq j.share /\ j.share \subseteq Kinds
        /\ j.first \in [Kinds -> Groups] /\ j.second \in [Kinds -> Groups]
        /\ \A k \in j.mutual : <<k, a, b>> \in consents
        /\ j.deserted \subseteq {j.left} \ {0} /\ (j.left # 0 => Items \notin j.share)
        /\ j.deserted \subseteq Groups
    BY DEF CommitPermissions, Inv, TypeOK, InHand, Job
  <1>2. r \in Row /\ r.from = a /\ r.to = b /\ r.share = j.share
    BY <1>1 DEF Row
  <1>3. back \in Row /\ GoodRow(back, consents')
    BY <1>1, <1>2 DEF Partners, Row, GoodRow, RowAgreed
  <1>4. /\ consents' = consents \union (j.share \X {b} \X {a})
        /\ group' = GroupsAfter(j)
        /\ made' = [k \in Kinds |-> IF k \in Fresh(j) THEN made[k] + 1 ELSE made[k]]
        /\ gone' = gone \union j.deserted
        /\ job' = [job EXCEPT ![w] = Idle]
        /\ UNCHANGED <<currency, served, orderly>>
        /\ \A o \in Joins(j, Items) : Linked(j, Items) \notin gone
        /\ \A o \in Orgs \ {b} : group[Items][o] \notin j.deserted
        /\ \A k \in Fresh(j) : made[k] < MaxGroups
    BY <1>2 DEF CommitPermissions, Finish
  <1>5. \/ table' = [table EXCEPT ![j.pk] = r] /\ created' = created
        \/ /\ created < MaxRows /\ created' = created + 1
           /\ table' = [table EXCEPT ![j.pk] = r, ![created + 1] = back]
    BY DEF CommitPermissions
  <1> HIDE DEF r, back
  <1>6. /\ \A k \in j.share : <<k, b, a>> \in consents'
        /\ consents \subseteq consents' /\ consents' \subseteq Kinds \X Orgs \X Orgs
    BY <1>1, <1>4 DEF Inv, TypeOK
  <1>7. GoodRow(r, consents') BY <1>1, <1>2, <1>6 DEF GoodRow, RowAgreed
  <1>8. /\ table' \in [Pks -> Row] /\ \A i \in Pks : GoodRow(table'[i], consents')
        /\ created' \in Pks \union {0}
    <2>1. table' \in [Pks -> Row] BY <1>2, <1>3, <1>5 DEF Inv, TypeOK
    <2>2. ASSUME NEW i \in Pks PROVE GoodRow(table'[i], consents')
      <3>1. table'[i] = r \/ table'[i] = back \/ table'[i] = table[i]
        BY <1>5, <2>2 DEF Inv, TypeOK
      <3> QED BY <1>3, <1>6, <1>7, <3>1, GoodRowGrows DEF Inv
    <2> QED BY <1>5, <2>1, <2>2, NextPk, Left
  <1>9. /\ job' \in [Workers -> Job] /\ job'[w] = Idle
        /\ \A v \in Workers : v # w => job'[v] = job[v]
        /\ \A v \in Workers : InHand(job'[v], consents')
    BY <1>4, <1>6, IdleJob, PutJob
  <1>10. \A k \in Kinds : Member(k, b, j.first[k]) /\ Member(k, a, j.second[k])
    BY <1>1 DEF Member, Remembers
  <1>11. \A k \in Kinds : /\ made'[k] \in Groups /\ made[k] <= made'[k]
                          /\ k \in Fresh(j) => made'[k] = made[k] + 1
    <2>1. ASSUME NEW k \in Kinds
          PROVE  /\ made[k] \in Nat /\ made[k] <= MaxGroups
                 /\ made'[k] = IF k \in Fresh(j) THEN made[k] + 1 ELSE made[k]
      BY <1>4, Left DEF Groups
    <2> QED BY <1>4, <2>1, Constants DEF Groups
  <1>12. ASSUME NEW k \in Kinds, NEW o \in Orgs
         PROVE  \/ k \in j.mutual /\ o \in {a, b} /\ o \in Joins(j, k) /\ group'[k][o] = Linked(j, k)
                \/ o \notin Joins(j, k) /\ group'[k][o] = 0
                \/ /\ o \notin Joins(j, k) /\ group'[k][o] = group[k][o]
                   /\ ~(k = Items /\ o = b /\ j.left # 0)
    BY <1>4 DEF GroupsAfter, Joins
  (* What the two are linked by: the group of one of them, or a new one.   *)
  <1>13. ASSUME NEW k \in j.mutual
         PROVE  \/ k \in Fresh(j) /\ Linked(j, k) = made[k] + 1
                \/ \E q \in {a, b} : Member(k, q, Linked(j, k)) /\ Linked(j, k) \in Groups
    <2>1. k \in Kinds BY <1>1
    <2>2. CASE j.first[k] = 0 /\ j.second[k] = 0 BY <2>2 DEF Fresh, Linked
    <2>3. CASE j.first[k] # 0
      <3>1. Linked(j, k) = j.first[k] BY <2>3 DEF Linked
      <3> QED BY <1>1, <1>10, <2>1, <3>1
    <2>4. CASE j.first[k] = 0 /\ j.second[k] # 0
      <3>1. Linked(j, k) = j.second[k] BY <2>4 DEF Linked
      <3> QED BY <1>1, <1>10, <2>1, <3>1
    <2> QED BY <2>2, <2>3, <2>4
  <1> HIDE DEF j
  <1>14. group' \in [Kinds -> [Orgs -> Groups]]
    <2>1. ASSUME NEW k \in Kinds, NEW o \in Orgs PROVE group'[k][o] \in Groups
      <3>1. CASE k \in j.mutual /\ group'[k][o] = Linked(j, k)
        <4>1. k \in Fresh(j) => Linked(j, k) \in Groups \/ \E q \in {a, b} : Linked(j, k) \in Groups
          BY <1>11, <1>13, <3>1
        <4> QED BY <1>13, <3>1, <4>1
      <3>2. CASE ~(k \in j.mutual /\ group'[k][o] = Linked(j, k))
        BY <1>12, <2>1, <3>2, ZeroGroup DEF Inv, TypeOK
      <3> QED BY <3>1, <3>2
    <2> QED BY <1>4, <2>1 DEF GroupsAfter
  (* Whoever counts as a member of a group afterwards counted as one before, *)
  (* or has just agreed with one who did, or the group is new.               *)
  <1>15. ASSUME NEW k \in Kinds, NEW o \in Orgs, NEW g \in Groups \ {0}, Member(k, o, g)'
         PROVE  \/ Member(k, o, g)
                \/ k \in j.mutual /\ o \in {a, b} /\ \E q \in {a, b} : Member(k, q, g)
                \/ k \in j.mutual /\ o \in {a, b} /\ k \in Fresh(j) /\ g = made[k] + 1
    <2>1. CASE group'[k][o] = g
      BY <1>12, <1>13, <1>15, <2>1 DEF Member
    <2>2. CASE \E v \in Workers : Remembers(job'[v], k, o, g)
      <3>1. PICK v \in Workers : Remembers(job'[v], k, o, g) BY <2>2
      <3>2. v # w BY <1>9, <3>1, IdleJob
      <3> QED BY <1>9, <3>1, <3>2 DEF Member
    <2> QED BY <1>15, <2>1, <2>2 DEF Member, Remembers
  <1>16. MembersAgree'
    <2>1. SUFFICES ASSUME NEW k \in Kinds, NEW S \in SUBSET Orgs, NEW g \in Groups \ {0},
                          Closed(k, S)', NEW o \in Orgs, NEW p \in Orgs,
                          Member(k, o, g)', Member(k, p, g)', o \in S
                   PROVE  p \in S
      BY DEF MembersAgree
    <2>2. Closed(k, S) BY <1>6, <2>1 DEF Closed, Agreed
    <2>3. k \in j.mutual => (a \in S <=> b \in S)
      <3>1. SUFFICES ASSUME k \in j.mutual PROVE a \in S <=> b \in S OBVIOUS
      <3>2. <<k, a, b>> \in consents' /\ <<k, b, a>> \in consents' BY <1>1, <1>6, <3>1
      <3> QED BY <1>1, <2>1, <3>2 DEF Closed, Agreed
    <2>4. \A x, y \in Orgs : Member(k, x, g) /\ Member(k, y, g) => (x \in S <=> y \in S)
      BY <2>1, <2>2 DEF Inv, MembersAgree
    <2>5. \A x \in Orgs : Member(k, x, g) => g <= made[k] /\ g # made[k] + 1
      BY <2>1, ZeroGroup, Left DEF Inv, MembersOfMade
    <2>6. a \in Orgs /\ b \in Orgs BY <1>1
    <2>7. CASE g = made[k] + 1
      <3>1. \A x \in Orgs : ~Member(k, x, g) BY <2>5, <2>7
      <3>2. k \in j.mutual /\ o \in {a, b} /\ p \in {a, b}
        BY <1>15, <2>1, <2>6, <3>1
      <3> QED BY <2>1, <2>3, <3>2
    <2>8. CASE g # made[k] + 1
      <3>1. ASSUME NEW x \in Orgs, Member(k, x, g)'
            PROVE  \E y \in Orgs : Member(k, y, g) /\ (x \in S <=> y \in S)
        BY <1>15, <2>1, <2>3, <2>6, <2>8, <3>1
      <3> QED BY <2>1, <2>4, <3>1
    <2> QED BY <2>7, <2>8
  <1>17. MembersOfMade'
    <2>1. ASSUME NEW k \in Kinds, NEW o \in Orgs, NEW g \in Groups, Member(k, o, g)'
          PROVE  g <= made'[k]
      <3>1. CASE g = 0 BY <1>11, <3>1, Constants DEF Groups
      <3>2. CASE g # 0 /\ g = made[k] + 1 /\ k \in Fresh(j)
        BY <1>11, <3>2, ZeroGroup
      <3>3. CASE g # 0 /\ ~(g = made[k] + 1 /\ k \in Fresh(j))
        <4>1. \E q \in Orgs : Member(k, q, g) BY <1>1, <1>15, <2>1, <3>3
        <4>2. g <= made[k] BY <4>1 DEF Inv, MembersOfMade
        <4> QED BY <1>11, <4>2, ZeroGroup, Left
      <3> QED BY <3>1, <3>2, <3>3
    <2>2. ASSUME NEW g \in gone' PROVE g <= made'[Items]
      <3>1. g \in Groups /\ g <= made[Items]
        <4>1. CASE g \in gone BY <4>1 DEF Inv, TypeOK, MembersOfMade
        <4>2. CASE g \in j.deserted
          <5>1. j.left <= made[Items] BY Left DEF j
          <5> QED BY <1>1, <4>2, <5>1
        <4> QED BY <1>4, <2>2, <4>1, <4>2
      <3> QED BY <1>11, <3>1, ZeroGroup, Left, Constants
    <2>3. ASSUME NEW v \in Workers PROVE job'[v].left <= made'[Items]
      <3>1. job'[v].left <= made[Items] /\ job'[v].left \in Groups
        BY <1>9, IdleJob, Left DEF Job
      <3> QED BY <1>11, <3>1, ZeroGroup, Left, Constants
    <2> QED BY <2>1, <2>2, <2>3 DEF MembersOfMade
  <1>18. /\ gone' \subseteq Groups \ {0}
         /\ \A o \in Orgs : group'[Items][o] \notin gone'
    <2>1. j.deserted # {} => j.left # 0 /\ Joins(j, Items) = {} BY <1>1 DEF Joins
    <2>2. ASSUME NEW o \in Orgs PROVE group'[Items][o] \notin gone'
      <3>1. CASE o \in Joins(j, Items) /\ group'[Items][o] = Linked(j, Items)
        BY <1>4, <2>1, <3>1
      <3>2. CASE group'[Items][o] = 0
        BY <1>1, <1>4, <3>2 DEF Inv, TypeOK
      <3>3. CASE group'[Items][o] = group[Items][o] /\ ~(o = b /\ j.left # 0)
        BY <1>4, <2>1, <3>3 DEF Inv, TypeOK
      <3> QED BY <1>12, <3>1, <3>2, <3>3, Constants
    <2> QED BY <1>1, <1>4, <2>2 DEF Inv, TypeOK
  <1>19. \A k \in Kinds, o \in Orgs : group'[k][o] <= made'[k]
    BY <1>14, <1>17 DEF MembersOfMade, Member
  <1>20. made' \in [Kinds -> Groups] BY <1>4, <1>11
  <1>21. TypeOK'
    BY <1>4, <1>6, <1>8, <1>9, <1>14, <1>18, <1>19, <1>20 DEF Inv, TypeOK
  <1> QED BY <1>8, <1>9, <1>16, <1>17, <1>21 DEF Inv

-----------------------------------------------------------------------------
(* The specification. *)

(* Partners that share nothing, and no groups: the beginning is sound.     *)
THEOREM InitInv == Init => Inv
  <1> SUFFICES ASSUME Init PROVE Inv OBVIOUS
  <1>1. PICK t \in Before :
          /\ table = [i \in Pks |-> IF i <= Len(t) THEN t[i] ELSE NoRow]
          /\ created = Len(t)
    BY DEF Init
  <1>2. /\ t \in Seq(Row) /\ Len(t) \in 0..MaxRows
        /\ \A i \in 1..Len(t) : \E o, p \in Orgs : t[i] = Partners(o, p)
    BY BeforeAssumption
  <1>3. ASSUME NEW i \in Pks PROVE table[i] \in Row /\ GoodRow(table[i], consents)
    <2>1. CASE i <= Len(t)
      <3>1. i \in 1..Len(t) /\ table[i] = t[i] BY <1>1, <1>2, <2>1, Constants DEF Pks
      <3>2. PICK o, p \in Orgs : t[i] = Partners(o, p) BY <1>2, <3>1
      <3> QED BY <3>1, <3>2 DEF Partners, Row, GoodRow, RowAgreed
    <2>2. CASE ~(i <= Len(t))
      BY <1>1, <2>2, NoRowGood
    <2> QED BY <2>1, <2>2
  <1>4. table \in [Pks -> Row] BY <1>1, <1>3
  <1>5. created \in Pks \union {0} BY <1>1, <1>2, Constants DEF Pks
  <1>6. /\ job \in [Workers -> Job] /\ \A w \in Workers : job[w] = Idle
        /\ \A w \in Workers : InHand(job[w], consents)
    BY IdleJob DEF Init
  <1>7. /\ \A k \in Kinds : made[k] = 0
        /\ \A k \in Kinds, o \in Orgs : group[k][o] = 0
        /\ group \in [Kinds -> [Orgs -> Groups]] /\ made \in [Kinds -> Groups]
    BY ZeroGroup DEF Init, NoGroups
  <1>8. TypeOK
    BY <1>4, <1>5, <1>6, <1>7, Constants DEF Init, TypeOK
  <1>9. \A k \in Kinds, o \in Orgs, g \in Groups : Member(k, o, g) => g = 0
    BY <1>6, <1>7, IdleJob DEF Member
  <1>10. MembersAgree BY <1>9 DEF MembersAgree
  <1>11. MembersOfMade
    BY <1>6, <1>7, <1>9, IdleJob, Constants DEF MembersOfMade, Init
  <1> QED BY <1>3, <1>6, <1>8, <1>10, <1>11 DEF Inv

LEMMA StutterKeeps ==
  ASSUME Inv, UNCHANGED vars
  PROVE  Inv'
  BY DEF Inv, vars, TypeOK, MembersAgree, MembersOfMade, Member, Closed, Agreed

(* Whatever a request does, alone or between the steps of others.          *)
THEOREM NextKeepsInv == Inv /\ [Next]_vars => Inv'
  <1> SUFFICES ASSUME Inv, [Next]_vars PROVE Inv' OBVIOUS
  <1>1. CASE UNCHANGED vars BY <1>1, StutterKeeps
  <1>2. ASSUME NEW w \in Workers, Begin(w) PROVE Inv'
    BY <1>2, AskKeeps, BeginAcceptKeeps, BeginDeleteKeeps, BeginPermissionsKeeps,
       BeginEditKeeps DEF Begin
  <1>3. ASSUME NEW w \in Workers, Continue(w) PROVE Inv'
    BY <1>3, CreateReverseKeeps, AcceptRowKeeps, AcceptReverseKeeps, FindReverseKeeps,
       CommitPermissionsKeeps, LeaveItemsKeeps, DissolveKeeps, PartKeeps, UngroupKeeps,
       DropReverseKeeps, DropRowKeeps, CommitEditKeeps, FailKeeps DEF Continue
  <1> QED BY <1>1, <1>2, <1>3 DEF Next

THEOREM SpecInv == Spec => []Inv
  BY InitInv, NextKeepsInv, PTL DEF Spec

(* Every worker's request, and every row, group and currency, is of its kind. *)
THEOREM TypeCorrect == Spec => []TypeOK
  <1>1. Inv => TypeOK BY DEF Inv
  <1> QED BY <1>1, SpecInv, PTL

(* No group reaches across a line that no agreement crosses: whatever is    *)
(* loaded before others commit and saved after, in any number of requests.  *)
THEOREM GroupsStayWithinConsent == Spec => []GroupsFollowConsent
  <1>1. Inv => GroupsFollowConsent
    <2> SUFFICES ASSUME Inv, NEW k \in Kinds, NEW S \in SUBSET Orgs, Closed(k, S),
                        NEW o \in S, NEW p \in Orgs \ S, group[k][o] = group[k][p]
                 PROVE  group[k][o] = 0
      BY DEF GroupsFollowConsent, Closed
    <2>1. o \in Orgs /\ p \in Orgs /\ group[k][o] \in Groups
      BY DEF Inv, TypeOK
    <2>2. Member(k, o, group[k][o]) /\ Member(k, p, group[k][o])
      BY DEF Member
    <2> QED BY <2>1, <2>2 DEF Inv, MembersAgree
  <1> QED BY <1>1, SpecInv, PTL

-----------------------------------------------------------------------------
(* As long as requests come one at a time and none stops half-way.  What    *)
(* is said of the tables is said of any tables, so that it can be asked of  *)
(* those a step leaves behind.                                              *)

BackRows(tb, r) == {x \in Pks : tb[x] # NoRow /\ tb[x].from = r.to /\ tb[x].to = r.from}

RowsApart(tb, cr) ==
  /\ \A i, x \in Pks : tb[i] # NoRow /\ tb[i].from = tb[x].from /\ tb[i].to = tb[x].to => i = x
  /\ \A i \in Pks : tb[i] # NoRow => i <= cr /\ tb[i].from # tb[i].to

(* A row that is accepted, or shares anything, has its other direction.     *)
HasBack(tb, i) == tb[i].accepted \/ tb[i].share # {} => BackRows(tb, tb[i]) # {}

OneMoney(tb, cu) ==
  \A i \in Pks : tb[i].accepted /\ tb[i].share = Kinds => cu[tb[i].from] = cu[tb[i].to]

(* Two that share the same, items apart, both have a group; and no group    *)
(* of that kind is one organization's alone.                                *)
Grouped(tb, gr) ==
  \A i \in Pks : \A x \in BackRows(tb, tb[i]) : tb[i] # NoRow /\ tb[i].accepted /\ tb[x].accepted =>
    \A k \in (tb[i].share \intersect tb[x].share) \ {Items} :
      gr[k][tb[i].from] # 0 /\ gr[k][tb[i].to] # 0

Together(gr) ==
  \A k \in Kinds \ {Items}, o \in Orgs :
    gr[k][o] # 0 => \E p \in Orgs \ {o} : gr[k][p] = gr[k][o]

Sound(tb, cr, gr, cu) ==
  RowsApart(tb, cr) /\ OneMoney(tb, cu) /\ Grouped(tb, gr) /\ Together(gr)

Turned(r) == [from |-> r.to, to |-> r.from, accepted |-> FALSE, share |-> {}]

Leaving == {"leave", "dissolve", "part", "ungroup", "drop_reverse"}

(* What the only request in hand knows is still so.                         *)
Knows(j, tb, gr, cu) ==
  /\ j.at \in {"permissions", "link", "accept", "accept_row"} \union Leaving =>
       tb[j.pk] = j.row /\ j.row # NoRow
  /\ j.at \in {"accept_row", "accept_reverse"} =>
       j.other \in Pks /\ tb[j.other] = Turned(j.row) /\ j.row.share = {}
  /\ j.at = "accept_reverse" => tb[j.pk] = [j.row EXCEPT !.accepted = TRUE]
  /\ j.at \in {"permissions", "link"} =>
       /\ j.share \subseteq j.row.share \/ cu[j.row.from] = cu[j.row.to]
       /\ \A k \in Kinds : j.first[k] = gr[k][j.row.to] /\ j.second[k] = gr[k][j.row.from]
  /\ j.at = "link" =>
       \A k \in j.share \ j.row.share, x \in BackRows(tb, j.row) :
         tb[x].accepted /\ k \in tb[x].share => k \in j.mutual
  /\ j.at \in Leaving => j.other \in BackRows(tb, j.row)
  /\ j.at = "drop_row" => tb[j.pk] # NoRow /\ BackRows(tb, tb[j.pk]) = {}
  /\ j.at = "edit" =>
       j.loaded = cu[j.org] /\ \A k \in Kinds : j.first[k] = gr[k][j.org]

Alone(w) == \A v \in Workers : v # w => job[v] = Idle

Dropping(j, i) == j.at = "drop_row" /\ j.pk = i

Steady ==
  /\ \A v, w \in Workers : job[v] # Idle /\ job[w] # Idle => v = w
  /\ Sound(table, created, group, currency)
  /\ \A w \in Workers : Knows(job[w], table, group, currency)
  /\ \A i \in Pks : HasBack(table, i) \/ \E w \in Workers : Dropping(job[w], i)

OrderlyInv == orderly => Steady

-----------------------------------------------------------------------------
(* Tables of rows. *)

TableOK(tb) ==
  tb \in [Pks -> Row] /\ \A i \in Pks : tb[i] # NoRow => tb[i].from \in Orgs /\ tb[i].to \in Orgs

Puts(tb, p, n, tx) == tx = [tb EXCEPT ![p] = n]

LEMMA NoRowIs ==
  /\ NoRow.accepted = FALSE /\ NoRow.share = {} /\ NoRow.from = Nobody /\ NoRow.to = Nobody
  /\ \A r : r.from \in Orgs => r # NoRow
  BY Constants DEF NoRow

LEMMA TurnedIs ==
  ASSUME NEW r, r.from \in Orgs, r.to \in Orgs
  PROVE  /\ Turned(r) \in Row /\ Turned(r) # NoRow
         /\ Turned(r).from = r.to /\ Turned(r).to = r.from
         /\ Turned(r).accepted = FALSE /\ Turned(r).share = {}
  BY NoRowIs DEF Turned, Row

LEMMA TheTable ==
  ASSUME Inv
  PROVE  TableOK(table) /\ created \in Nat /\ created \in Pks \union {0}
  BY Left DEF TableOK, Inv, TypeOK, GoodRow

(* A row is added in a direction nobody had. *)
LEMMA RowAdded ==
  ASSUME NEW tb, NEW cr \in Nat, NEW gr, NEW cu, NEW n \in Row, TableOK(tb),
         Sound(tb, cr, gr, cu), cr + 1 \in Pks, n.from \in Orgs, n.to \in Orgs, n.from # n.to,
         n.share = {}, \A i \in Pks : ~(tb[i].from = n.from /\ tb[i].to = n.to),
         NEW p, p = cr + 1, NEW tx, Puts(tb, p, n, tx)
  PROVE  /\ Sound(tx, p, gr, cu) /\ TableOK(tx)
         /\ tx[p] = n /\ tb[p] = NoRow
         /\ \A i \in Pks : tb[i] # NoRow => tx[i] = tb[i]
         /\ \A i \in Pks : i # p => tx[i] = tb[i]
         /\ \A r : BackRows(tb, r) \subseteq BackRows(tx, r)
         /\ \A i \in Pks : tb[i] # NoRow /\ HasBack(tb, i) => HasBack(tx, i)
  <1>1. tb[p] = NoRow
    <2>1. ~(p <= cr) OBVIOUS
    <2> QED BY <2>1 DEF Sound, RowsApart
  <1>2. tx[p] = n /\ (\A i \in Pks : i # p => tx[i] = tb[i]) /\ n # NoRow
    BY NoRowIs DEF TableOK, Puts
  <1>3. TableOK(tx) BY <1>2 DEF TableOK, Puts
  <1>4. \A i \in Pks : tb[i] # NoRow => i # p /\ tx[i] = tb[i] BY <1>1, <1>2
  <1>5. \A r : BackRows(tb, r) \subseteq BackRows(tx, r) BY <1>4 DEF BackRows
  <1>6. ASSUME NEW i \in Pks, tb[i] # NoRow, HasBack(tb, i) PROVE HasBack(tx, i)
    BY <1>4, <1>5, <1>6 DEF HasBack
  <1>7. RowsApart(tx, p)
    <2>1. ASSUME NEW i \in Pks, NEW x \in Pks, tx[i] # NoRow, tx[i].from = tx[x].from,
                 tx[i].to = tx[x].to
          PROVE  i = x
      BY <1>2, <2>1 DEF Sound, RowsApart
    <2>2. ASSUME NEW i \in Pks, tx[i] # NoRow PROVE i <= p /\ tx[i].from # tx[i].to
      <3>1. i \in Nat /\ p \in Nat BY Constants DEF Pks
      <3>2. CASE i = p BY <1>2, <3>1, <3>2
      <3>3. CASE i # p
        <4>1. tx[i] = tb[i] BY <1>2, <3>3
        <4>2. i <= cr /\ tb[i].from # tb[i].to BY <2>2, <4>1 DEF Sound, RowsApart
        <4> QED BY <3>1, <4>1, <4>2
      <3> QED BY <3>2, <3>3
    <2> QED BY <2>1, <2>2 DEF RowsApart
  <1>8. OneMoney(tx, cu)
    <2>1. Kinds # {} BY Constants
    <2> QED BY <1>2, <2>1 DEF OneMoney, Sound
  <1>9. Grouped(tx, gr)
    <2> SUFFICES ASSUME NEW i \in Pks, NEW x \in BackRows(tx, tx[i]), tx[i] # NoRow,
                        tx[i].accepted, tx[x].accepted,
                        NEW k \in (tx[i].share \intersect tx[x].share) \ {Items}
                 PROVE  gr[k][tx[i].from] # 0 /\ gr[k][tx[i].to] # 0
      BY DEF Grouped
    <2>1. x \in Pks BY DEF BackRows
    <2>2. i # p /\ x # p BY <1>2
    <2>3. tx[i] = tb[i] /\ tx[x] = tb[x] BY <1>2, <2>1, <2>2
    <2>4. x \in BackRows(tb, tb[i]) BY <2>1, <2>3 DEF BackRows
    <2> QED BY <2>3, <2>4 DEF Sound, Grouped
  <1> QED BY <1>1, <1>2, <1>3, <1>4, <1>5, <1>6, <1>7, <1>8, <1>9 DEF Sound

(* A row is deleted. *)
LEMMA RowDropped ==
  ASSUME NEW tb, NEW cr, NEW gr, NEW cu, TableOK(tb), Sound(tb, cr, gr, cu), NEW p \in Pks,
         NEW tx, Puts(tb, p, NoRow, tx)
  PROVE  /\ Sound(tx, cr, gr, cu)
         /\ tx[p] = NoRow /\ \A i \in Pks : i # p => tx[i] = tb[i]
         /\ \A r : BackRows(tx, r) = BackRows(tb, r) \ {p}
  <1>1. tx[p] = NoRow /\ \A i \in Pks : i # p => tx[i] = tb[i] BY DEF TableOK, Puts
  <1>2. \A r : BackRows(tx, r) = BackRows(tb, r) \ {p} BY <1>1 DEF BackRows
  <1>3. RowsApart(tx, cr)
    <2>1. ASSUME NEW i \in Pks, NEW x \in Pks, tx[i] # NoRow, tx[i].from = tx[x].from,
                 tx[i].to = tx[x].to
          PROVE  i = x
      <3>1. tx[i] = tb[i] BY <1>1, <2>1
      <3>2. tx[i].from \in Orgs BY <2>1, <3>1 DEF TableOK
      <3>3. tx[x] # NoRow BY <2>1, <3>2, NoRowIs
      <3>4. tx[x] = tb[x] BY <1>1, <3>3
      <3> QED BY <2>1, <3>1, <3>4 DEF Sound, RowsApart
    <2> QED BY <1>1, <2>1 DEF Sound, RowsApart
  <1>4. OneMoney(tx, cu) BY <1>1, NoRowIs DEF OneMoney, Sound
  <1>5. Grouped(tx, gr)
    <2> SUFFICES ASSUME NEW i \in Pks, NEW x \in BackRows(tx, tx[i]), tx[i] # NoRow,
                        tx[i].accepted, tx[x].accepted,
                        NEW k \in (tx[i].share \intersect tx[x].share) \ {Items}
                 PROVE  gr[k][tx[i].from] # 0 /\ gr[k][tx[i].to] # 0
      BY DEF Grouped
    <2>1. x \in Pks /\ x # p /\ i # p BY <1>1, <1>2 DEF BackRows
    <2>2. tx[i] = tb[i] /\ tx[x] = tb[x] /\ x \in BackRows(tb, tb[i]) BY <1>1, <1>2, <2>1
    <2> QED BY <2>2 DEF Sound, Grouped
  <1> QED BY <1>1, <1>2, <1>3, <1>4, <1>5 DEF Sound

(* A row is rewritten in its direction. *)
LEMMA RowRewritten ==
  ASSUME NEW tb, NEW cr, TableOK(tb), RowsApart(tb, cr), NEW p \in Pks, tb[p] # NoRow,
         NEW n \in Row, n.from = tb[p].from, n.to = tb[p].to,
         NEW tx, Puts(tb, p, n, tx)
  PROVE  /\ RowsApart(tx, cr) /\ TableOK(tx) /\ n # NoRow
         /\ tx[p] = n /\ \A i \in Pks : i # p => tx[i] = tb[i]
         /\ \A r : BackRows(tx, r) = BackRows(tb, r)
  <1>1. tx[p] = n /\ \A i \in Pks : i # p => tx[i] = tb[i] BY DEF TableOK, Puts
  <1>2. n.from \in Orgs /\ n.to \in Orgs /\ n # NoRow BY NoRowIs DEF TableOK
  <1>3. TableOK(tx) BY <1>1, <1>2 DEF TableOK, Puts
  <1>4. \A i \in Pks : /\ tx[i].from = tb[i].from /\ tx[i].to = tb[i].to
                       /\ tx[i] = NoRow <=> tb[i] = NoRow
    BY <1>1, <1>2
  <1>5. RowsApart(tx, cr) BY <1>4 DEF RowsApart
  <1>6. \A r : BackRows(tx, r) = BackRows(tb, r) BY <1>4 DEF BackRows
  <1> QED BY <1>1, <1>2, <1>3, <1>5, <1>6

(* A row that shares nothing is accepted. *)
LEMMA RowAccepted ==
  ASSUME NEW tb, NEW cr, NEW gr, NEW cu, TableOK(tb), Sound(tb, cr, gr, cu), NEW p \in Pks,
         tb[p] # NoRow, NEW n \in Row, n.from = tb[p].from, n.to = tb[p].to, n.share = {},
         NEW tx, Puts(tb, p, n, tx)
  PROVE  Sound(tx, cr, gr, cu)
  <1>1. /\ RowsApart(tx, cr) /\ tx[p] = n /\ \A i \in Pks : i # p => tx[i] = tb[i]
        /\ \A r : BackRows(tx, r) = BackRows(tb, r)
    <2>1. RowsApart(tb, cr) BY DEF Sound
    <2> QED BY ONLY <2>1, TableOK(tb), p \in Pks, tb[p] # NoRow, n \in Row, n.from = tb[p].from,
               n.to = tb[p].to, Puts(tb, p, n, tx), RowRewritten
  <1>2. OneMoney(tx, cu)
    <2>1. Kinds # {} BY Constants
    <2> QED BY <1>1, <2>1 DEF OneMoney, Sound
  <1>3. Grouped(tx, gr)
    <2> SUFFICES ASSUME NEW i \in Pks, NEW x \in BackRows(tx, tx[i]), tx[i] # NoRow,
                        tx[i].accepted, tx[x].accepted,
                        NEW k \in (tx[i].share \intersect tx[x].share) \ {Items}
                 PROVE  gr[k][tx[i].from] # 0 /\ gr[k][tx[i].to] # 0
      BY DEF Grouped
    <2>1. x \in Pks /\ x # p /\ i # p BY <1>1 DEF BackRows
    <2>2. tx[i] = tb[i] /\ tx[x] = tb[x] /\ x \in BackRows(tb, tb[i]) BY <1>1, <2>1
    <2> QED BY <2>2 DEF Sound, Grouped
  <1> QED BY <1>1, <1>2, <1>3 DEF Sound


-----------------------------------------------------------------------------
(* What is steady after a step. *)

LEMMA IdleKnows == \A tb, gr, cu : Knows(Idle, tb, gr, cu)
  BY IdleJob DEF Knows, Leaving

(* The only request in hand moves on, or ends, and the tables are sound.    *)
LEMMA Stays ==
  ASSUME Inv, NEW w \in Workers, Alone(w), NEW n, job' = [job EXCEPT ![w] = n],
         Sound(table', created', group', currency'),
         Knows(n, table', group', currency'),
         \A i \in Pks : HasBack(table', i) \/ Dropping(n, i)
  PROVE  Steady'
  <1>1. job'[w] = n /\ \A v \in Workers : v # w => job'[v] = Idle
    BY DEF Alone, Inv, TypeOK
  <1>2. \A u, v \in Workers : job'[u] # Idle /\ job'[v] # Idle => u = v BY <1>1
  <1>3. \A v \in Workers : Knows(job'[v], table', group', currency') BY <1>1, IdleKnows
  <1> QED BY <1>1, <1>2, <1>3 DEF Steady

(* The same where the tables are as they were. *)
LEMMA StaysQuiet ==
  ASSUME Inv, Steady, NEW w \in Workers, Alone(w), job[w].at # "drop_row", NEW n,
         job' = [job EXCEPT ![w] = n], UNCHANGED <<table, created, group, currency>>,
         Knows(n, table, group, currency)
  PROVE  Steady'
  <1>1. \A v \in Workers : job[v].at # "drop_row" BY IdleJob DEF Alone
  <1>2. Sound(table', created', group', currency') BY DEF Steady
  <1>3. Knows(n, table', group', currency') OBVIOUS
  <1>4. \A i \in Pks : HasBack(table', i) BY <1>1 DEF Steady, Dropping
  <1> QED BY <1>2, <1>3, <1>4, Stays

(* A request is served to the end before the next. *)
LEMMA Serves ==
  ASSUME OrderlyInv, NEW w \in Workers, Serve(w), orderly'
  PROVE  /\ Steady /\ Alone(w) /\ job[w] = Idle /\ job[w].at # "drop_row"
         /\ \A i \in Pks : HasBack(table, i)
  <1>1. Steady /\ \A v \in Workers : job[v] = Idle BY DEF Serve, OrderlyInv
  <1> QED BY <1>1, IdleJob DEF Alone, Steady, Dropping

LEMMA GoesOn ==
  ASSUME OrderlyInv, Inv, NEW w \in Workers, orderly, job[w].at # "idle"
  PROVE  /\ Steady /\ Alone(w) /\ Knows(job[w], table, group, currency)
         /\ job[w] \in Job /\ InHand(job[w], consents)
         /\ job[w].at # "drop_row" => \A i \in Pks : HasBack(table, i)
  <1>1. Steady /\ Knows(job[w], table, group, currency) BY DEF OrderlyInv, Steady
  <1>2. Alone(w) BY <1>1, IdleJob DEF Alone, Steady
  <1>3. job[w].at # "drop_row" => \A v \in Workers : job[v].at # "drop_row" BY <1>2, IdleJob DEF Alone
  <1> QED BY <1>1, <1>2, <1>3 DEF Steady, Dropping, Inv, TypeOK

-----------------------------------------------------------------------------
(* Requests that begin. *)

LEMMA AskSteady ==
  ASSUME Inv, OrderlyInv, NEW w \in Workers, NEW from \in Orgs, NEW to \in Orgs,
         Ask(w, from, to), orderly'
  PROVE  Steady'
  <1> DEFINE r == [from |-> from, to |-> to, accepted |-> FALSE, share |-> {}]
  <1>1. /\ Steady /\ Alone(w) /\ job[w] = Idle /\ \A i \in Pks : HasBack(table, i)
    BY Serves DEF Ask
  <1>2. /\ r \in Row /\ r.from = from /\ r.to = to /\ r.share = {} /\ r.accepted = FALSE
        /\ from # to /\ created + 1 \in Pks
    BY NextPk DEF Ask, Row
  <1>3. /\ table' = [table EXCEPT ![created + 1] = r] /\ created' = created + 1
        /\ UNCHANGED <<group, currency, job>>
        /\ \A i \in Pks : ~(table[i].from = from /\ table[i].to = to)
    <2>1. 0 \notin Pks BY DEF Pks
    <2> QED BY <2>1 DEF Ask, Free, Organizations
  <1>4. job' = [job EXCEPT ![w] = Idle] BY <1>1, <1>3 DEF Inv, TypeOK
  <1> HIDE DEF r
  <1>5. /\ Sound(table', created', group, currency)
        /\ table'[created + 1] = r
        /\ \A i \in Pks : table[i] # NoRow => table'[i] = table[i]
        /\ \A i \in Pks : table[i] # NoRow /\ HasBack(table, i) => HasBack(table', i)
        /\ \A i \in Pks : i # created + 1 => table'[i] = table[i]
    <2>1. Sound(table, created, group, currency) BY <1>1 DEF Steady
    <2>2. TableOK(table) /\ created \in Nat BY TheTable
    <2>3. /\ r.from \in Orgs /\ r.to \in Orgs /\ r.from # r.to
          /\ \A i \in Pks : ~(table[i].from = r.from /\ table[i].to = r.to)
      BY <1>2, <1>3
    <2>4. Puts(table, created', r, table') BY <1>3 DEF Puts
    <2>5. created' = created + 1 BY <1>3
    <2>6. r \in Row /\ r.share = {} /\ created + 1 \in Pks BY <1>2
    <2> QED BY ONLY <2>1, <2>2, <2>3, <2>4, <2>5, <2>6, RowAdded
  <1>6. \A i \in Pks : HasBack(table', i)
    BY <1>1, <1>2, <1>5, NoRowIs DEF HasBack
  <1> QED BY <1>1, <1>3, <1>4, <1>5, <1>6, IdleKnows, Stays

LEMMA BeginSteady ==
  ASSUME Inv, OrderlyInv, NEW w \in Workers, NEW i \in Pks, NEW share \in SUBSET Kinds,
         BeginAccept(w, i) \/ BeginDelete(w, i) \/ BeginPermissions(w, i, share), orderly'
  PROVE  Steady'
  <1>1. Steady /\ Alone(w) /\ job[w].at # "drop_row"
    BY Serves DEF BeginAccept, BeginDelete, BeginPermissions
  <1>2. table[i] # NoRow /\ UNCHANGED <<table, created, group, currency>>
    BY DEF BeginAccept, BeginDelete, BeginPermissions, Exists, Organizations
  <1>3. CASE BeginAccept(w, i)
    <2> DEFINE n == [Idle EXCEPT !.at = "accept", !.pk = i, !.row = table[i]]
    <2>1. n.at = "accept" /\ n.pk = i /\ n.row = table[i] BY DEF Idle
    <2>2. job' = [job EXCEPT ![w] = n] BY <1>3 DEF BeginAccept
    <2> HIDE DEF n
    <2>3. Knows(n, table, group, currency) BY <1>2, <2>1 DEF Knows, Leaving
    <2> QED BY <1>1, <1>2, <2>2, <2>3, StaysQuiet
  <1>4. CASE BeginPermissions(w, i, share)
    <2> DEFINE one == GroupsOf(table[i].to)
               two == GroupsOf(table[i].from)
               l == LeftBehind(table[i].to, share)
               d == Deserted(table[i].to, share)
               n == [Idle EXCEPT !.at = "permissions", !.pk = i, !.row = table[i],
                                 !.share = share, !.left = l, !.deserted = d,
                                 !.first = one, !.second = two]
    <2>1. /\ n.at = "permissions" /\ n.pk = i /\ n.row = table[i] /\ n.share = share
          /\ n.first = one /\ n.second = two
      BY DEF Idle
    <2>2. job' = [job EXCEPT ![w] = n] BY <1>4 DEF BeginPermissions
    <2>3. \A k \in Kinds : one[k] = group[k][table[i].to] /\ two[k] = group[k][table[i].from]
      BY DEF GroupsOf
    <2>4. share \subseteq table[i].share \/ currency[table[i].from] = currency[table[i].to]
      BY <1>4 DEF BeginPermissions
    <2> HIDE DEF n, one, two, l, d
    <2>5. Knows(n, table, group, currency) BY <1>2, <2>1, <2>3, <2>4 DEF Knows, Leaving
    <2> QED BY <1>1, <1>2, <2>2, <2>5, StaysQuiet
  <1>5. CASE BeginDelete(w, i)
    <2> DEFINE B == Reverse(table[i])
               a == IF B = {} THEN "drop_row" ELSE "leave"
               b == IF B = {} THEN 0 ELSE CHOOSE j \in B : TRUE
               n == [Idle EXCEPT !.pk = i, !.row = table[i], !.at = a, !.other = b]
    <2>1. n.at = a /\ n.pk = i /\ n.row = table[i] /\ n.other = b BY DEF Idle
    <2>2. job' = [job EXCEPT ![w] = n] BY <1>5 DEF BeginDelete
    <2>3. B = BackRows(table, table[i]) BY DEF Reverse, BackRows, Exists
    <2> HIDE DEF n, B
    <2>4. Knows(n, table, group, currency)
      <3>1. CASE B = {} BY <1>2, <2>1, <2>3, <3>1 DEF Knows, Leaving
      <3>2. CASE B # {}
        <4>1. b \in B /\ a = "leave" BY <3>2
        <4> QED BY <1>2, <2>1, <2>3, <4>1 DEF Knows, Leaving
      <3> QED BY <3>1, <3>2
    <2> QED BY <1>1, <1>2, <2>2, <2>4, StaysQuiet
  <1> QED BY <1>3, <1>4, <1>5

LEMMA BeginEditSteady ==
  ASSUME Inv, OrderlyInv, NEW w \in Workers, NEW o \in Orgs, NEW c \in Currencies,
         BeginEdit(w, o, c), orderly'
  PROVE  Steady'
  <1> DEFINE one == GroupsOf(o)
             cu == currency[o]
             n == [Idle EXCEPT !.at = "edit", !.org = o, !.currency = c, !.loaded = cu,
                               !.first = one]
  <1>1. Steady /\ Alone(w) /\ job[w].at # "drop_row" BY Serves DEF BeginEdit
  <1>2. n.at = "edit" /\ n.org = o /\ n.loaded = currency[o] /\ n.first = one BY DEF Idle
  <1>3. job' = [job EXCEPT ![w] = n] /\ UNCHANGED <<table, created, group, currency>>
    BY DEF BeginEdit, Organizations
  <1>4. \A k \in Kinds : one[k] = group[k][o] BY DEF GroupsOf
  <1> HIDE DEF n, one, cu
  <1>5. Knows(n, table, group, currency) BY <1>2, <1>4 DEF Knows, Leaving
  <1> QED BY <1>1, <1>3, <1>5, StaysQuiet

-----------------------------------------------------------------------------
(* Accepting. *)

LEMMA FailSteady ==
  ASSUME Inv, OrderlyInv, NEW w \in Workers, Fail(w), orderly'
  PROVE  Steady'
  <1>1. orderly /\ job[w].at \notin {"idle", "drop_row"} BY DEF Fail
  <1>2. /\ job' = [job EXCEPT ![w] = Idle] /\ UNCHANGED <<table, created, group, currency>>
    BY DEF Fail, Finish, Organizations
  <1> QED BY <1>1, <1>2, GoesOn, IdleKnows, StaysQuiet

LEMMA CreateReverseSteady ==
  ASSUME Inv, OrderlyInv, NEW w \in Workers, CreateReverse(w), orderly'
  PROVE  Steady'
  <1> DEFINE p == job[w].pk
             r == job[w].row
             back == Turned(r)
             n == [job[w] EXCEPT !.at = "accept_row", !.other = created + 1, !.row = table[p]]
  <1>1. /\ orderly /\ job[w].at = "accept" /\ UNCHANGED <<group, currency>>
    BY DEF CreateReverse, Organizations
  <1>2. /\ Steady /\ Alone(w) /\ Knows(job[w], table, group, currency)
        /\ job[w] \in Job /\ InHand(job[w], consents) /\ \A i \in Pks : HasBack(table, i)
    BY <1>1, GoesOn
  <1>3. /\ table[p] = r /\ r # NoRow /\ p \in Pks /\ r.from \in Orgs /\ r.to \in Orgs
    BY <1>1, <1>2 DEF Knows, Leaving, InHand
  <1>4. CASE ~Free(0, r.to, r.from)
    <2>1. job' = [job EXCEPT ![w] = Idle] /\ UNCHANGED <<table, created>>
      BY <1>4 DEF CreateReverse, Finish
    <2> QED BY <1>1, <1>2, <2>1, IdleKnows, StaysQuiet
  <1>5. CASE Free(0, r.to, r.from)
    <2>1. /\ created < MaxRows /\ created' = created + 1
          /\ table' = [table EXCEPT ![created + 1] = back]
          /\ job' = [job EXCEPT ![w] = n]
      BY <1>3, <1>5 DEF CreateReverse, Turned, Exists, Inv, TypeOK
    <2>2. /\ back \in Row /\ back # NoRow /\ back.from = r.to /\ back.to = r.from
          /\ back.accepted = FALSE /\ back.share = {}
      BY <1>3, TurnedIs
    <2>3. \A i \in Pks : ~(table[i].from = back.from /\ table[i].to = back.to)
      <3>1. 0 \notin Pks BY DEF Pks
      <3> QED BY <1>5, <2>2, <3>1 DEF Free
    <2>4. created + 1 \in Pks BY <2>1, NextPk
    <2>5. r.from # r.to BY <1>2, <1>3 DEF Steady, Sound, RowsApart
    <2>6. BackRows(table, r) = {} BY <2>2, <2>3 DEF BackRows
    <2>7. r.share = {} BY <1>2, <1>3, <2>6 DEF HasBack
    <2> HIDE DEF back
    <2>8. /\ Sound(table', created', group, currency)
          /\ table'[created + 1] = back
          /\ \A i \in Pks : table[i] # NoRow => table'[i] = table[i]
          /\ \A i \in Pks : table[i] # NoRow /\ HasBack(table, i) => HasBack(table', i)
          /\ \A i \in Pks : i # created + 1 => table'[i] = table[i]
      <3>1. Sound(table, created, group, currency) BY <1>2 DEF Steady
      <3>2. TableOK(table) /\ created \in Nat BY TheTable
      <3>3. back.from \in Orgs /\ back.to \in Orgs /\ back.from # back.to BY <1>3, <2>2, <2>5
      <3>4. Puts(table, created', back, table') BY <2>1 DEF Puts
      <3>5. created' = created + 1 BY <2>1
      <3> QED BY ONLY <2>2, <2>3, <2>4, <3>1, <3>2, <3>3, <3>4, <3>5, RowAdded
    <2>9. \A i \in Pks : HasBack(table', i)
      BY <1>2, <2>2, <2>8, NoRowIs DEF HasBack
    <2>10. n.at = "accept_row" /\ n.pk = p /\ n.row = r /\ n.other = created + 1
      BY <1>2, <1>3 DEF Job
    <2> HIDE DEF n, p, r
    <2>11. Knows(n, table', group', currency')
      BY <1>3, <2>4, <2>7, <2>8, <2>10 DEF Knows, Leaving, back
    <2> QED BY <1>1, <1>2, <2>1, <2>8, <2>9, <2>11, Stays
  <1> QED BY <1>4, <1>5

LEMMA AcceptRowSteady ==
  ASSUME Inv, OrderlyInv, NEW w \in Workers, AcceptRow(w), orderly'
  PROVE  Steady'
  <1> DEFINE p == job[w].pk
             x == job[w].other
             r == job[w].row
             a == [r EXCEPT !.accepted = TRUE]
             n == [job[w] EXCEPT !.at = "accept_reverse"]
  <1>1. orderly /\ job[w].at = "accept_row" /\ UNCHANGED <<created, group, currency>>
    BY DEF AcceptRow, Organizations
  <1>2. /\ Steady /\ Alone(w) /\ Knows(job[w], table, group, currency)
        /\ job[w] \in Job /\ InHand(job[w], consents) /\ \A i \in Pks : HasBack(table, i)
    BY <1>1, GoesOn
  <1>3. /\ table[p] = r /\ r # NoRow /\ p \in Pks /\ r.from \in Orgs /\ r.to \in Orgs
        /\ x \in Pks /\ table[x] = Turned(r) /\ r.share = {} /\ r \in Row
    BY <1>1, <1>2 DEF Knows, Leaving, InHand, Job
  <1>4. Savable(p, r) BY <1>3 DEF Savable, Exists
  <1>5. table' = [table EXCEPT ![p] = a] /\ job' = [job EXCEPT ![w] = n]
    BY <1>4 DEF AcceptRow, SaveAccepted
  <1>6. a \in Row /\ a.from = r.from /\ a.to = r.to /\ a.share = {} BY <1>3 DEF Row
  <1>7. Sound(table, created, group, currency) /\ RowsApart(table, created) /\ TableOK(table)
    BY <1>2, TheTable DEF Steady, Sound
  <1>8. r.from # r.to BY <1>3, <1>7 DEF RowsApart
  <1>9. p # x BY <1>3, <1>8, TurnedIs
  <1>10. n.at = "accept_reverse" /\ n.pk = p /\ n.row = r /\ n.other = x BY <1>2 DEF Job
  <1> HIDE DEF n, p, r, x
  <1>11. Sound(table', created', group', currency')
    <2>1. a.from = table[p].from /\ a.to = table[p].to /\ table[p] # NoRow BY <1>3, <1>6
    <2>2. /\ Sound(table, created', group', currency')
          /\ Puts(table, p, a, table') /\ p \in Pks /\ a \in Row /\ a.share = {}
      BY <1>1, <1>3, <1>5, <1>6, <1>7 DEF Puts
    <2> HIDE DEF a
    <2> QED BY ONLY <1>7, <2>1, <2>2, RowAccepted
  <1>12. /\ table'[p] = a /\ (\A i \in Pks : i # p => table'[i] = table[i])
         /\ \A s : BackRows(table', s) = BackRows(table, s)
    <2>1. a.from = table[p].from /\ a.to = table[p].to /\ table[p] # NoRow BY <1>3, <1>6
    <2>2. Puts(table, p, a, table') /\ p \in Pks /\ a \in Row BY <1>3, <1>5, <1>6 DEF Puts
    <2> HIDE DEF a
    <2> QED BY ONLY <1>7, <2>1, <2>2, RowRewritten
  <1>13. x \in BackRows(table, r) BY <1>3, TurnedIs DEF BackRows
  <1>14. ASSUME NEW i \in Pks PROVE HasBack(table', i)
    <2>1. CASE i = p
      <3>1. BackRows(table', table'[p]) = BackRows(table, table'[p]) BY <1>12
      <3>2. BackRows(table, table'[p]) = BackRows(table, r) BY <1>6, <1>12 DEF BackRows
      <3> QED BY <1>13, <2>1, <3>1, <3>2 DEF HasBack
    <2>2. CASE i # p BY <1>2, <1>12, <2>2 DEF HasBack
    <2> QED BY <2>1, <2>2
  <1>15. Knows(n, table', group', currency')
    BY <1>3, <1>9, <1>10, <1>12 DEF Knows, Leaving
  <1> QED BY <1>2, <1>5, <1>11, <1>14, <1>15, Stays

LEMMA AcceptReverseSteady ==
  ASSUME Inv, OrderlyInv, NEW w \in Workers, AcceptReverse(w), orderly'
  PROVE  Steady'
  <1> DEFINE p == job[w].pk
             x == job[w].other
             r == job[w].row
             a == [Turned(r) EXCEPT !.accepted = TRUE]
  <1>1. orderly /\ job[w].at = "accept_reverse" /\ UNCHANGED <<created, group, currency>>
    BY DEF AcceptReverse, Organizations
  <1>2. /\ Steady /\ Alone(w) /\ Knows(job[w], table, group, currency)
        /\ job[w] \in Job /\ InHand(job[w], consents) /\ \A i \in Pks : HasBack(table, i)
    BY <1>1, GoesOn
  <1>3. /\ table[p] = [r EXCEPT !.accepted = TRUE] /\ p \in Pks /\ r.from \in Orgs /\ r.to \in Orgs
        /\ x \in Pks /\ table[x] = Turned(r) /\ r \in Row
    BY <1>1, <1>2 DEF Knows, Leaving, InHand, Job
  <1>4. Turned(r) \in Row /\ Turned(r) # NoRow /\ Turned(r).from = r.to /\ Turned(r).to = r.from
        /\ Turned(r).share = {}
    BY <1>3, TurnedIs
  <1>5. table[p].from = r.from /\ table[p].to = r.to /\ table[p] # NoRow
    BY <1>3, NoRowIs DEF Row
  <1>6. table' = [table EXCEPT ![x] = a] /\ job' = [job EXCEPT ![w] = Idle]
    <2>1. Savable(x, Turned(r)) BY <1>3, <1>4 DEF Savable, Exists
    <2> QED BY <2>1 DEF AcceptReverse, SaveAccepted, Turned, Finish
  <1>7. a \in Row /\ a.from = r.to /\ a.to = r.from /\ a.share = {} BY <1>4 DEF Row
  <1>8. Sound(table, created, group, currency) /\ RowsApart(table, created) /\ TableOK(table)
    BY <1>2, TheTable DEF Steady, Sound
  <1> HIDE DEF p, r, x, a
  <1>13. /\ a.from = table[x].from /\ a.to = table[x].to /\ table[x] # NoRow
         /\ a \in Row /\ a.share = {} /\ x \in Pks /\ Puts(table, x, a, table')
         /\ Sound(table, created', group', currency')
    BY <1>1, <1>3, <1>4, <1>6, <1>7, <1>8 DEF Puts
  <1>9. Sound(table', created', group', currency')
    BY ONLY <1>8, <1>13, RowAccepted
  <1>10. /\ table'[x] = a /\ (\A i \in Pks : i # x => table'[i] = table[i])
         /\ \A s : BackRows(table', s) = BackRows(table, s)
    BY ONLY <1>8, <1>13, RowRewritten
  <1>11. p \in BackRows(table, a) BY <1>3, <1>5, <1>7 DEF BackRows
  <1>12. ASSUME NEW i \in Pks PROVE HasBack(table', i)
    <2>1. CASE i = x BY <1>10, <1>11, <2>1 DEF HasBack
    <2>2. CASE i # x BY <1>2, <1>10, <2>2 DEF HasBack
    <2> QED BY <2>1, <2>2
  <1> QED BY <1>2, <1>6, <1>9, <1>12, IdleKnows, Stays


-----------------------------------------------------------------------------
(* Setting the permissions, until the other direction is looked for; and    *)
(* the edit of an organization.                                             *)

LEMMA FindReverseSteady ==
  ASSUME Inv, OrderlyInv, NEW w \in Workers, FindReverse(w), orderly'
  PROVE  Steady'
  <1> DEFINE j == job[w]
             m == SharedBack(w)
             n == [job[w] EXCEPT !.at = "link", !.mutual = m]
  <1>1. orderly /\ j.at = "permissions" /\ UNCHANGED <<table, created, group, currency>>
    BY DEF FindReverse, Organizations
  <1>2. /\ Steady /\ Alone(w) /\ Knows(j, table, group, currency) /\ j \in Job
        /\ InHand(j, consents)
    BY <1>1, GoesOn
  <1>3. j.pk \in Pks /\ table[j.pk] = j.row /\ j.row # NoRow BY <1>1, <1>2 DEF Knows, Leaving, InHand
  <1>4. job' = [job EXCEPT ![w] = n]
    <2>1. Savable(j.pk, j.row) BY <1>3 DEF Savable, Exists
    <2>2. job' = [job EXCEPT ![w].at = "link", ![w].mutual = m] BY <2>1 DEF FindReverse
    <2> QED BY <2>2 DEF Inv, TypeOK
  <1>5. \A k \in j.share \ j.row.share, x \in BackRows(table, j.row) :
          table[x].accepted /\ k \in table[x].share => k \in m
    BY DEF SharedBack, NewlyShared, Reverse, BackRows, Exists
  <1>6. /\ n.at = "link" /\ n.pk = j.pk /\ n.row = j.row /\ n.share = j.share /\ n.mutual = m
        /\ n.first = j.first /\ n.second = j.second
    BY <1>2 DEF Job
  <1> HIDE DEF n, m, j
  <1>7. Knows(n, table, group, currency) BY <1>1, <1>2, <1>3, <1>5, <1>6 DEF Knows, Leaving
  <1>8. job[w].at # "drop_row" BY <1>1 DEF j
  <1> QED BY <1>1, <1>2, <1>4, <1>7, <1>8, StaysQuiet

LEMMA CommitEditSteady ==
  ASSUME Inv, OrderlyInv, NEW w \in Workers, CommitEdit(w), orderly'
  PROVE  Steady'
  <1> DEFINE j == job[w]
  <1>1. /\ orderly /\ j.at = "edit" /\ job' = [job EXCEPT ![w] = Idle]
        /\ UNCHANGED <<table, created>>
        /\ currency' = [currency EXCEPT ![j.org] = j.currency]
        /\ group' = [k \in Kinds |-> [group[k] EXCEPT ![j.org] = j.first[k]]]
    BY DEF CommitEdit, Finish
  <1>2. /\ Steady /\ Alone(w) /\ Knows(j, table, group, currency) /\ InHand(j, consents)
        /\ \A i \in Pks : HasBack(table, i)
    BY <1>1, GoesOn
  <1>3. j.org \in Orgs BY <1>1, <1>2 DEF InHand
  <1>4. group' = group
    <2>1. \A k \in Kinds : j.first[k] = group[k][j.org] /\ group[k] \in [Orgs -> Groups]
      BY <1>1, <1>2 DEF Knows, Leaving, Inv, TypeOK
    <2>2. \A k \in Kinds : [group[k] EXCEPT ![j.org] = j.first[k]] = group[k]
      BY <1>3, <2>1
    <2>3. group \in [Kinds -> [Orgs -> Groups]] BY DEF Inv, TypeOK
    <2> QED BY <1>1, <2>2, <2>3
  <1>5. OneMoney(table, currency')
    <2>1. \A o \in Orgs : currency'[o] = IF o = j.org THEN j.currency ELSE currency[o]
      BY <1>1 DEF Inv, TypeOK
    <2> SUFFICES ASSUME NEW i \in Pks, table[i].accepted, table[i].share = Kinds
                 PROVE  currency'[table[i].from] = currency'[table[i].to]
      BY DEF OneMoney
    <2>2. table[i].from \in Orgs /\ table[i].to \in Orgs BY TheTable, NoRowIs DEF TableOK
    <2>3. currency[table[i].from] = currency[table[i].to] BY <1>2 DEF Steady, Sound, OneMoney
    <2>4. j.currency # currency[j.org] =>
            /\ table[i].to = j.org => currency[table[i].from] = j.currency
            /\ table[i].from = j.org => currency[table[i].to] = j.currency
      <3>1. j.loaded = currency[j.org] BY <1>1, <1>2 DEF Knows, Leaving
      <3>2. j.currency = j.loaded \/ CanChangeCurrency(j.org, j.currency) BY DEF CommitEdit
      <3> QED BY <2>2, <3>1, <3>2 DEF CanChangeCurrency
    <2> QED BY <2>1, <2>2, <2>3, <2>4
  <1>6. Sound(table', created', group', currency') BY <1>1, <1>2, <1>4, <1>5 DEF Steady, Sound
  <1>7. \A i \in Pks : HasBack(table', i) BY <1>1, <1>2
  <1> QED BY <1>1, <1>2, <1>6, <1>7, IdleKnows, Stays

-----------------------------------------------------------------------------
(* Deleting. *)

(* The groups of items do not matter. *)
LEMMA ItemsAside ==
  ASSUME NEW tb, NEW cr, NEW gr, NEW cu, NEW hr, TableOK(tb), Sound(tb, cr, gr, cu),
         \A k \in Kinds \ {Items} : hr[k] = gr[k]
  PROVE  Sound(tb, cr, hr, cu)
  <1>1. Together(hr) BY DEF Sound, Together
  <1>2. \A i \in Pks : tb[i].share \subseteq Kinds BY DEF TableOK, Row
  <1>3. Grouped(tb, hr) BY <1>2 DEF Sound, Grouped
  <1> QED BY <1>1, <1>3 DEF Sound

LEMMA LeavingSteady ==
  ASSUME Inv, OrderlyInv, NEW w \in Workers, 
         LeaveItems(w) \/ Dissolve(w) \/ Part(w) \/ Ungroup(w), orderly'
  PROVE  Steady'
  <1> DEFINE j == job[w]
  <1>1. orderly /\ j.at \in Leaving /\ j.at # "drop_row" /\ UNCHANGED <<table, created, currency>>
    BY DEF LeaveItems, Dissolve, Part, Ungroup, Leaving, Organizations
  <1>2. /\ Steady /\ Alone(w) /\ Knows(j, table, group, currency) /\ j \in Job
        /\ \A i \in Pks : HasBack(table, i)
    BY <1>1, GoesOn DEF Leaving
  <1>3. \A k \in Kinds \ {Items} : group'[k] = group[k]
    BY Constants DEF LeaveItems, Dissolve, Part, Ungroup, Organizations, Inv, TypeOK
  <1>4. Sound(table, created, group', currency)
    <2>1. TableOK(table) /\ Sound(table, created, group, currency) BY <1>2, TheTable DEF Steady
    <2> QED BY <1>3, <2>1, ItemsAside
  <1>5. PICK n : /\ job' = [job EXCEPT ![w] = n]
                 /\ n.at \in Leaving /\ n.pk = j.pk /\ n.row = j.row
                 /\ n.other = j.other
    <2>1. CASE LeaveItems(w)
      <3> DEFINE a == IF group[Items][j.row.to] = 0 THEN "drop_reverse" ELSE "dissolve"
                 n == [j EXCEPT !.left = group[Items][j.row.to], !.at = a]
      <3>1. job' = [job EXCEPT ![w] = n] BY <2>1 DEF LeaveItems, Inv, TypeOK
      <3>2. a \in Leaving BY DEF Leaving
      <3>3. n.at = a /\ n.pk = j.pk /\ n.row = j.row /\ n.other = j.other BY <1>2 DEF Job
      <3> HIDE DEF n, a
      <3> QED BY <3>1, <3>2, <3>3
    <2>2. CASE Dissolve(w) \/ Part(w) \/ Ungroup(w)
      <3>1. PICK a \in Leaving : job' = [job EXCEPT ![w] = [j EXCEPT !.at = a]]
        BY <2>2 DEF Dissolve, Part, Ungroup, Leaving, Inv, TypeOK
      <3> DEFINE n == [j EXCEPT !.at = a]
      <3>2. n.at = a /\ n.pk = j.pk /\ n.row = j.row /\ n.other = j.other BY <1>2 DEF Job
      <3> HIDE DEF n
      <3> QED BY <3>1, <3>2 DEF n
    <2> QED BY <2>1, <2>2
  <1>6. table[j.pk] = j.row /\ j.row # NoRow /\ j.other \in BackRows(table, j.row)
    BY <1>1, <1>2 DEF Knows, Leaving
  <1> HIDE DEF j
  <1>7. Knows(n, table, group', currency) BY <1>5, <1>6 DEF Knows, Leaving
  <1> QED BY <1>1, <1>2, <1>4, <1>5, <1>7, Stays

LEMMA DropReverseSteady ==
  ASSUME Inv, OrderlyInv, NEW w \in Workers, DropReverse(w), orderly'
  PROVE  Steady'
  <1> DEFINE p == job[w].pk
             x == job[w].other
             r == job[w].row
             n == [job[w] EXCEPT !.at = "drop_row"]
  <1>1. /\ orderly /\ job[w].at = "drop_reverse" /\ UNCHANGED <<created, group, currency>>
        /\ Puts(table, x, NoRow, table')
    BY DEF DropReverse, Organizations, Puts
  <1>2. /\ Steady /\ Alone(w) /\ Knows(job[w], table, group, currency)
        /\ job[w] \in Job /\ InHand(job[w], consents) /\ \A i \in Pks : HasBack(table, i)
    BY <1>1, GoesOn
  <1>3. p \in Pks /\ table[p] = r /\ r # NoRow /\ x \in BackRows(table, r)
    BY <1>1, <1>2 DEF Knows, Leaving, InHand
  <1>4. job' = [job EXCEPT ![w] = n] BY DEF DropReverse, Inv, TypeOK
  <1>5. n.at = "drop_row" /\ n.pk = p BY <1>2 DEF Job
  <1> HIDE DEF n, p, x, r
  <1>6. TableOK(table) /\ Sound(table, created, group, currency) /\ x \in Pks
    BY <1>2, <1>3, TheTable DEF Steady, BackRows
  <1>7. /\ Sound(table', created, group, currency)
        /\ table'[x] = NoRow /\ (\A i \in Pks : i # x => table'[i] = table[i])
        /\ \A s : BackRows(table', s) = BackRows(table, s) \ {x}
    BY ONLY <1>1, <1>6, RowDropped
  <1>8. RowsApart(table, created) BY <1>6 DEF Sound
  <1>9. /\ table[x] # NoRow /\ table[x].from = r.to /\ table[x].to = r.from /\ r.from # r.to
    BY <1>3, <1>8 DEF BackRows, RowsApart
  <1>10. p # x BY <1>3, <1>9
  <1>11. BackRows(table', table'[p]) = {}
    <2>1. \A y \in BackRows(table, r) : y = x BY <1>6, <1>8, <1>9 DEF BackRows, RowsApart
    <2> QED BY <1>3, <1>7, <1>10, <2>1
  <1>12. Knows(n, table', group', currency') BY <1>3, <1>5, <1>7, <1>10, <1>11 DEF Knows, Leaving
  <1>13. ASSUME NEW i \in Pks PROVE HasBack(table', i) \/ Dropping(n, i)
    <2>1. CASE i = p BY <1>5, <2>1 DEF Dropping
    <2>2. CASE i = x BY <1>7, <2>2, NoRowIs DEF HasBack
    <2>3. CASE i # p /\ i # x
      <3>1. table'[i] = table[i] BY <1>7, <2>3
      <3>2. x \notin BackRows(table, table[i])
        BY <1>3, <1>8, <1>9, <2>3 DEF BackRows, RowsApart
      <3>3. BackRows(table', table'[i]) = BackRows(table, table[i]) BY <1>7, <3>1, <3>2
      <3> QED BY <1>2, <3>1, <3>3 DEF HasBack
    <2> QED BY <2>1, <2>2, <2>3
  <1> QED BY <1>1, <1>2, <1>4, <1>7, <1>12, <1>13, Stays

LEMMA DropRowSteady ==
  ASSUME Inv, OrderlyInv, NEW w \in Workers, DropRow(w), orderly'
  PROVE  Steady'
  <1> DEFINE p == job[w].pk
  <1>1. /\ orderly /\ job[w].at = "drop_row" /\ UNCHANGED <<created, group, currency>>
        /\ Puts(table, p, NoRow, table') /\ job' = [job EXCEPT ![w] = Idle]
    BY DEF DropRow, Finish, Organizations, Puts
  <1>2. /\ Steady /\ Alone(w) /\ Knows(job[w], table, group, currency)
        /\ InHand(job[w], consents)
    BY <1>1, GoesOn
  <1>3. p \in Pks /\ table[p] # NoRow /\ BackRows(table, table[p]) = {}
    BY <1>1, <1>2 DEF Knows, Leaving, InHand
  <1>4. \A i \in Pks : i # p => HasBack(table, i)
    BY <1>2, IdleJob DEF Steady, Alone, Dropping
  <1> HIDE DEF p
  <1>5. TableOK(table) /\ Sound(table, created, group, currency) BY <1>2, TheTable DEF Steady
  <1>6. /\ Sound(table', created, group, currency)
        /\ table'[p] = NoRow /\ (\A i \in Pks : i # p => table'[i] = table[i])
        /\ \A s : BackRows(table', s) = BackRows(table, s) \ {p}
    BY ONLY <1>1, <1>3, <1>5, RowDropped
  <1>7. ASSUME NEW i \in Pks PROVE HasBack(table', i)
    <2>1. CASE i = p BY <1>6, <2>1, NoRowIs DEF HasBack
    <2>2. CASE i # p /\ ~(table[i].accepted \/ table[i].share # {})
      BY <1>6, <2>2 DEF HasBack
    <2>3. CASE i # p /\ (table[i].accepted \/ table[i].share # {})
      <3>1. table'[i] = table[i] /\ table[i] # NoRow BY <1>6, <2>3, NoRowIs
      <3>2. p \notin BackRows(table, table[i]) BY <1>3, <3>1 DEF BackRows
      <3>3. BackRows(table', table'[i]) = BackRows(table, table[i]) BY <1>6, <3>1, <3>2
      <3> QED BY <1>4, <2>3, <3>1, <3>3 DEF HasBack
    <2> QED BY <2>1, <2>2, <2>3
  <1>8. Sound(table', created', group', currency') BY <1>1, <1>6
  <1> QED BY <1>1, <1>2, <1>7, <1>8, IdleKnows, Stays

-----------------------------------------------------------------------------
(* The permissions are saved: what happens to the groups, and to the table. *)

(* Groups change for those that had none; both that share get one.          *)
LEMMA LinkingGroups ==
  ASSUME Inv, NEW w \in Workers, CommitPermissions(w),
         Knows(job[w], table, group, currency), job[w].row.from # job[w].row.to,
         NEW k \in Kinds \ {Items}
  PROVE  /\ \A o \in Orgs : group[k][o] # 0 => group'[k][o] = group[k][o]
         /\ k \in job[w].mutual =>
              group'[k][job[w].row.from] # 0 /\ group'[k][job[w].row.to] # 0
         /\ \A o \in Orgs : group'[k][o] # group[k][o] =>
              \E q \in Orgs \ {o} : group'[k][q] = group'[k][o]
  <1> DEFINE j == job[w]
             a == j.row.from
             b == j.row.to
             g == Linked(j, k)
  <1>1. /\ group' = GroupsAfter(j) /\ j.at = "link" /\ a \in Orgs /\ b \in Orgs
    BY DEF CommitPermissions, Inv, InHand
  <1>2. j.first[k] = group[k][b] /\ j.second[k] = group[k][a] BY <1>1 DEF Knows, Leaving
  <1>3. ASSUME NEW o \in Orgs
        PROVE  group'[k][o] = IF o \in Joins(j, k) THEN g ELSE group[k][o]
    BY <1>1 DEF GroupsAfter
  <1>4. \A o \in Orgs : o \in Joins(j, k) <=>
          k \in j.mutual /\ o \in {a, b} /\ group[k][o] = 0
    BY <1>1, <1>2 DEF Joins
  <1>5. /\ group[k][b] = 0 /\ group[k][a] = 0 => g = made[k] + 1
        /\ group[k][b] # 0 => g = group[k][b]
        /\ group[k][b] = 0 /\ group[k][a] # 0 => g = group[k][a]
    BY <1>2 DEF Linked
  <1>6. made[k] + 1 # 0
    <2>1. made[k] \in Nat BY Left
    <2> QED BY <2>1
  <1>7. a # b OBVIOUS
  <1> HIDE DEF g, a, b, j
  <1>8. g # 0 BY <1>5, <1>6
  <1>9. \A o \in Orgs : group[k][o] # 0 => group'[k][o] = group[k][o] BY <1>3, <1>4
  <1>10. k \in j.mutual => group'[k][a] # 0 /\ group'[k][b] # 0
    BY <1>1, <1>3, <1>4, <1>8
  <1>11. ASSUME NEW o \in Orgs, group'[k][o] # group[k][o]
         PROVE  \E q \in Orgs \ {o} : group'[k][q] = group'[k][o]
    <2>1. /\ k \in j.mutual /\ o \in {a, b} /\ group[k][o] = 0 /\ group'[k][o] = g
      BY <1>3, <1>4, <1>11
    <2>2. CASE o = a
      <3>1. group'[k][b] = g BY <1>1, <1>3, <1>4, <1>5, <2>1, <2>2
      <3> QED BY <1>1, <1>7, <2>1, <2>2, <3>1
    <2>3. CASE o = b
      <3>1. group'[k][a] = g BY <1>1, <1>3, <1>4, <1>5, <2>1, <2>3
      <3> QED BY <1>1, <1>7, <2>1, <2>3, <3>1
    <2> QED BY <2>1, <2>2, <2>3
  <1> QED BY <1>9, <1>10, <1>11 DEF a, b, j

LEMMA LinkingTogether ==
  ASSUME Together(group),
         \A k \in Kinds \ {Items}, o \in Orgs :
           /\ group[k][o] # 0 => group'[k][o] = group[k][o]
           /\ group'[k][o] # group[k][o] => \E q \in Orgs \ {o} : group'[k][q] = group'[k][o]
  PROVE  Together(group')
  <1> SUFFICES ASSUME NEW k \in Kinds \ {Items}, NEW o \in Orgs, group'[k][o] # 0
               PROVE  \E q \in Orgs \ {o} : group'[k][q] = group'[k][o]
    BY DEF Together
  <1>1. CASE group'[k][o] # group[k][o] BY <1>1
  <1>2. CASE group'[k][o] = group[k][o]
    <2>1. PICK q \in Orgs \ {o} : group[k][q] = group[k][o] BY <1>2 DEF Together
    <2>2. group'[k][q] = group[k][q] BY <1>2, <2>1
    <2> QED BY <1>2, <2>1, <2>2
  <1> QED BY <1>1, <1>2

Saved(j) == [j.row EXCEPT !.share = j.share, !.accepted = @ \/ Items \notin j.share]

(* The row as it is saved, before a partner's own is added.                 *)
LEMMA SavingSound ==
  ASSUME Inv, OrderlyInv, NEW w \in Workers, CommitPermissions(w), orderly,
         NEW n, n = Saved(job[w]), NEW tx, Puts(table, job[w].pk, n, tx)
  PROVE  /\ Sound(tx, created, group', currency') /\ TableOK(tx)
         /\ tx[job[w].pk] = n /\ n # NoRow
         /\ \A i \in Pks : i # job[w].pk => tx[i] = table[i]
         /\ \A s : BackRows(tx, s) = BackRows(table, s)
  <1> DEFINE j == job[w]
             p == j.pk
             r == j.row
  <1>1. /\ j.at = "link" /\ currency' = currency
        /\ ~r.accepted => Free(0, n.to, n.from)
    BY DEF CommitPermissions, Saved
  <1>2. /\ Steady /\ Knows(j, table, group, currency) /\ j \in Job /\ InHand(j, consents)
        /\ \A i \in Pks : HasBack(table, i)
    BY <1>1, GoesOn
  <1>3. /\ p \in Pks /\ table[p] = r /\ r # NoRow /\ r \in Row /\ r.from \in Orgs /\ r.to \in Orgs
    BY <1>1, <1>2 DEF Knows, Leaving, InHand, Job
  <1>4. /\ n \in Row /\ n.from = r.from /\ n.to = r.to /\ n.share = j.share
        /\ n.accepted = (r.accepted \/ Items \notin j.share)
    BY <1>2, <1>3 DEF Row, Job, Saved
  <1>5. TableOK(table) /\ Sound(table, created, group, currency) /\ RowsApart(table, created)
    BY <1>2, TheTable DEF Steady, Sound
  <1>6. r.from # r.to BY <1>3, <1>5 DEF RowsApart
  <1>7. ASSUME NEW k \in Kinds \ {Items}
        PROVE  /\ \A o \in Orgs : group[k][o] # 0 => group'[k][o] = group[k][o]
               /\ k \in j.mutual => group'[k][r.from] # 0 /\ group'[k][r.to] # 0
               /\ \A o \in Orgs : group'[k][o] # group[k][o] =>
                    \E q \in Orgs \ {o} : group'[k][q] = group'[k][o]
    BY <1>2, <1>6, LinkingGroups
  <1>8. Together(group') BY <1>5, <1>7, LinkingTogether DEF Sound
  <1>9. /\ RowsApart(tx, created) /\ TableOK(tx) /\ n # NoRow
        /\ tx[p] = n /\ (\A i \in Pks : i # p => tx[i] = table[i])
        /\ \A s : BackRows(tx, s) = BackRows(table, s)
    <2>1. n.from = table[p].from /\ n.to = table[p].to /\ table[p] # NoRow BY <1>3, <1>4
    <2>2. Puts(table, p, n, tx) /\ p \in Pks /\ n \in Row BY <1>3, <1>4
    <2> QED BY ONLY <1>5, <2>1, <2>2, RowRewritten
  (* What both share now, they shared before, or they are linked by it.     *)
  <1>10. ASSUME NEW y \in BackRows(table, r), table[y].accepted,
                NEW k \in (j.share \intersect table[y].share) \ {Items}
         PROVE  group'[k][r.from] # 0 /\ group'[k][r.to] # 0
    <2>1. y \in Pks /\ k \in Kinds \ {Items} BY <1>2 DEF BackRows, Job
    <2>2. r.accepted
      <3>1. CASE ~r.accepted
        <4>1. 0 \notin Pks BY DEF Pks
        <4> QED BY <1>1, <1>4, <3>1, <4>1 DEF Free, BackRows
      <3> QED BY <3>1
    <2>3. CASE k \in r.share
      <3>1. group[k][r.from] # 0 /\ group[k][r.to] # 0
        BY <1>3, <1>5, <1>10, <2>2, <2>3 DEF Sound, Grouped
      <3> QED BY <1>3, <1>7, <2>1, <3>1
    <2>4. CASE k \notin r.share
      <3>1. k \in j.mutual BY <1>1, <1>2, <1>10, <2>4 DEF Knows, Leaving
      <3> QED BY <1>7, <2>1, <3>1
    <2> QED BY <2>3, <2>4
  <1>11. OneMoney(tx, currency)
    <2> SUFFICES ASSUME NEW i \in Pks, tx[i].accepted, tx[i].share = Kinds
                 PROVE  currency[tx[i].from] = currency[tx[i].to]
      BY DEF OneMoney
    <2>1. CASE i # p BY <1>5, <1>9, <2>1 DEF Sound, OneMoney
    <2>2. CASE i = p
      <3>1. j.share = Kinds /\ r.accepted BY <1>4, <1>9, <2>2, Constants
      <3>2. CASE currency[r.from] = currency[r.to] BY <1>4, <1>9, <2>2, <3>2
      <3>3. CASE j.share \subseteq r.share
        <4>1. r.share = Kinds BY <1>3, <3>1, <3>3 DEF Row
        <4>2. currency[r.from] = currency[r.to]
          BY <1>3, <1>5, <3>1, <4>1 DEF Sound, OneMoney
        <4> QED BY <1>4, <1>9, <2>2, <4>2
      <3> QED BY <1>1, <1>2, <3>2, <3>3 DEF Knows, Leaving
    <2> QED BY <2>1, <2>2
  <1> HIDE DEF j, p, r
  <1>12. Grouped(tx, group')
    <2> SUFFICES ASSUME NEW i \in Pks, NEW x \in BackRows(tx, tx[i]), tx[i] # NoRow,
                        tx[i].accepted, tx[x].accepted,
                        NEW k \in (tx[i].share \intersect tx[x].share) \ {Items}
                 PROVE  group'[k][tx[i].from] # 0 /\ group'[k][tx[i].to] # 0
      BY DEF Grouped
    <2>1. /\ x \in Pks /\ x \in BackRows(table, tx[i]) /\ tx[x] # NoRow
          /\ tx[x].from = tx[i].to /\ tx[x].to = tx[i].from
      BY <1>9 DEF BackRows
    <2>2. k \in Kinds \ {Items} BY <1>9 DEF TableOK, Row
    <2>3. CASE i # p /\ x # p
      <3>1. tx[i] = table[i] /\ tx[x] = table[x] BY <1>9, <2>1, <2>3
      <3>2. group[k][table[i].from] # 0 /\ group[k][table[i].to] # 0
        BY <1>5, <2>1, <3>1 DEF Sound, Grouped
      <3>3. table[i].from \in Orgs /\ table[i].to \in Orgs BY <1>5, <3>1 DEF TableOK
      <3> QED BY <1>7, <2>2, <3>1, <3>2, <3>3
    <2>4. CASE i = p
      <3>1. tx[i] = n BY <1>9, <2>4
      <3>2. x # p BY <1>4, <1>6, <2>1, <2>4, <3>1
      <3>3. tx[x] = table[x] BY <1>9, <2>1, <3>2
      <3>4. x \in BackRows(table, r) BY <1>4, <2>1, <3>1 DEF BackRows
      <3> QED BY <1>4, <1>10, <3>1, <3>3, <3>4
    <2>5. CASE x = p
      <3>1. tx[x] = n BY <1>9, <2>5
      <3>2. i # p BY <1>4, <1>6, <2>1, <2>5, <3>1
      <3>3. tx[i] = table[i] BY <1>9, <3>2
      <3>4. i \in BackRows(table, r) BY <1>4, <2>1, <3>1, <3>3 DEF BackRows
      <3> QED BY <1>4, <1>10, <2>1, <3>1, <3>3, <3>4
    <2> QED BY <2>3, <2>4, <2>5
  <1> QED BY <1>1, <1>8, <1>9, <1>11, <1>12 DEF Sound, j, p

LEMMA CommitPermissionsSteady ==
  ASSUME Inv, OrderlyInv, NEW w \in Workers, CommitPermissions(w), orderly'
  PROVE  Steady'
  <1> DEFINE p == job[w].pk
             r == job[w].row
             n == Saved(job[w])
             tx == [table EXCEPT ![p] = n]
             back == Partners(n.to, n.from)
  <1>1. /\ orderly /\ job[w].at = "link" /\ job' = [job EXCEPT ![w] = Idle]
    BY DEF CommitPermissions, Finish
  <1>2. /\ Steady /\ Alone(w) /\ Knows(job[w], table, group, currency)
        /\ job[w] \in Job /\ InHand(job[w], consents) /\ \A i \in Pks : HasBack(table, i)
    BY <1>1, GoesOn
  <1>3. /\ p \in Pks /\ table[p] = r /\ r # NoRow /\ r \in Row /\ r.from \in Orgs /\ r.to \in Orgs
    BY <1>1, <1>2 DEF Knows, Leaving, InHand, Job
  <1>4. \/ r.accepted /\ table' = tx /\ created' = created
        \/ /\ Free(0, n.to, n.from) /\ created < MaxRows /\ created' = created + 1
           /\ table' = [tx EXCEPT ![created'] = back]
    BY DEF CommitPermissions, Saved
  <1>5. n.from = r.from /\ n.to = r.to BY <1>3 DEF Row, Saved
  <1>6. Puts(table, job[w].pk, n, tx) /\ n = Saved(job[w]) BY DEF Puts
  <1> HIDE DEF tx, n
  <1>7. /\ Sound(tx, created, group', currency') /\ TableOK(tx)
        /\ tx[p] = n /\ n # NoRow
        /\ \A i \in Pks : i # p => tx[i] = table[i]
        /\ \A s : BackRows(tx, s) = BackRows(table, s)
    BY ONLY Inv, OrderlyInv, w \in Workers, CommitPermissions(w), <1>1, <1>6, SavingSound
  <1>8. r.from # r.to BY <1>2, <1>3 DEF Steady, Sound, RowsApart
  <1> HIDE DEF r, p
  <1>9. \A i \in Pks : i # p => HasBack(tx, i) BY <1>2, <1>7 DEF HasBack
  <1>10. CASE r.accepted /\ table' = tx /\ created' = created
    <2>1. BackRows(table, r) # {} BY <1>2, <1>3, <1>10 DEF HasBack
    <2>2. BackRows(tx, n) = BackRows(table, r)
      <3>1. BackRows(tx, n) = BackRows(table, n) BY <1>7
      <3> QED BY <1>5, <3>1 DEF BackRows
    <2>3. HasBack(tx, p) BY <1>7, <2>1, <2>2 DEF HasBack
    <2>4. \A i \in Pks : HasBack(table', i) BY <1>9, <1>10, <2>3
    <2> QED BY <1>1, <1>2, <1>7, <1>10, <2>4, IdleKnows, Stays
  <1> DEFINE c == created'
  <1>11. CASE /\ Free(0, n.to, n.from) /\ created < MaxRows /\ created' = created + 1
              /\ table' = [tx EXCEPT ![created'] = back]
        <2>1. /\ back \in Row /\ back.share = {} /\ back.from = n.to /\ back.to = n.from
      BY <1>3, <1>5 DEF Partners, Row
    <2> HIDE DEF back
    <2>2. /\ back.from \in Orgs /\ back.to \in Orgs /\ back.from # back.to
      BY <1>3, <1>5, <1>8, <2>1
    <2>3. \A i \in Pks : ~(tx[i].from = back.from /\ tx[i].to = back.to)
      <3>1. 0 \notin Pks BY DEF Pks
      <3>2. \A i \in Pks : ~(table[i].from = n.to /\ table[i].to = n.from)
        BY <1>11, <3>1 DEF Free
      <3>3. ~(n.from = n.to) BY <1>5, <1>8
      <3> QED BY <1>7, <2>1, <3>2, <3>3
    <2>4. created + 1 \in Pks /\ created \in Nat BY <1>11, NextPk, Left
    <2>5. Puts(tx, created', back, table') BY <1>11 DEF Puts
    <2>6. created' = created + 1 BY <1>11
    <2>7. Sound(tx, created, group', currency') /\ TableOK(tx) BY <1>7
    <2>8. /\ Sound(table', created', group', currency')
          /\ table'[created'] = back
          /\ \A i \in Pks : tx[i] # NoRow => table'[i] = tx[i]
          /\ \A i \in Pks : i # created' => table'[i] = tx[i]
          /\ \A i \in Pks : tx[i] # NoRow /\ HasBack(tx, i) => HasBack(table', i)
      <3>1. back \in Row /\ back.share = {} BY <2>1
      <3> HIDE DEF c
      <3> QED BY ONLY <3>1, <2>2, <2>3, <2>4, <2>5, <2>6, <2>7, RowAdded
    <2>9. c \in Pks /\ table'[c] = back /\ table'[p] = n /\ back # NoRow
      BY <1>3, <1>7, <2>2, <2>4, <2>6, <2>8, NoRowIs
    <2>10. p \in BackRows(table', back) /\ c \in BackRows(table', n)
      BY <1>3, <1>7, <2>1, <2>9 DEF BackRows
    <2>11. ASSUME NEW i \in Pks PROVE HasBack(table', i)
      <3>1. CASE i = p BY <2>9, <2>10, <3>1 DEF HasBack
      <3>2. CASE i = c BY <2>9, <2>10, <3>2 DEF HasBack
      <3>3. CASE i # p /\ i # c /\ tx[i] # NoRow BY <1>9, <2>8, <3>3
      <3>4. CASE i # c /\ tx[i] = NoRow BY <2>8, <3>4, NoRowIs DEF HasBack
      <3> QED BY <3>1, <3>2, <3>3, <3>4
    <2> QED BY <1>1, <1>2, <2>8, <2>11, IdleKnows, Stays
  <1> QED BY <1>4, <1>10, <1>11

-----------------------------------------------------------------------------
(* Orderly requests leave everything steady. *)

THEOREM InitOrderly == Init => OrderlyInv
  <1> SUFFICES ASSUME Init PROVE Steady BY DEF OrderlyInv
  <1>1. PICK t \in Before :
          /\ table = [i \in Pks |-> IF i <= Len(t) THEN t[i] ELSE NoRow]
          /\ created = Len(t)
    BY DEF Init
  <1>2. /\ Len(t) \in 0..MaxRows
        /\ \A i \in 1..Len(t) : \E o, p \in Orgs : o # p /\ t[i] = Partners(o, p)
        /\ \A i, j \in 1..Len(t) : t[i] = t[j] => i = j
        /\ \A i \in 1..Len(t) : \E j \in 1..Len(t) : t[j] = Partners(t[i].to, t[i].from)
    BY BeforeAssumption
  <1>3. ASSUME NEW i \in Pks
        PROVE  \/ i \in 1..Len(t) /\ table[i] = t[i]
               \/ i \notin 1..Len(t) /\ table[i] = NoRow
    BY <1>1, <1>2, Constants DEF Pks
  <1>4. ASSUME NEW i \in 1..Len(t)
        PROVE  /\ i \in Pks /\ i <= Len(t) /\ table[i] = t[i]
               /\ t[i] = Partners(t[i].from, t[i].to)
               /\ t[i].from \in Orgs /\ t[i].to \in Orgs /\ t[i].from # t[i].to
               /\ t[i].share = {} /\ t[i] # NoRow
    <2>1. i \in Pks /\ i <= Len(t) BY <1>2, Constants DEF Pks
    <2>2. PICK o, p \in Orgs : o # p /\ t[i] = Partners(o, p) BY <1>2
    <2>3. t[i].from = o /\ t[i].to = p /\ t[i].share = {} BY <2>2 DEF Partners
    <2> QED BY <1>1, <2>1, <2>2, <2>3, NoRowIs
  <1>5. RowsApart(table, created)
    <2>1. ASSUME NEW i \in Pks, NEW x \in Pks, table[i] # NoRow, table[i].from = table[x].from,
                 table[i].to = table[x].to
          PROVE  i = x
      <3>1. i \in 1..Len(t) /\ table[i] = t[i] BY <1>3, <2>1
      <3>2. table[x] # NoRow BY <1>4, <2>1, <3>1, NoRowIs
      <3>3. x \in 1..Len(t) /\ table[x] = t[x] BY <1>3, <3>2
      <3>4. t[i] = t[x] BY <1>4, <2>1, <3>1, <3>3
      <3> QED BY <1>2, <3>1, <3>3, <3>4
    <2>2. \A i \in Pks : table[i] # NoRow => i <= created /\ table[i].from # table[i].to
      BY <1>1, <1>3, <1>4
    <2> QED BY <2>1, <2>2 DEF RowsApart
  <1>6. \A i \in Pks : table[i].share = {} BY <1>3, <1>4, NoRowIs
  <1>7. OneMoney(table, currency)
    <2>1. Kinds # {} BY Constants
    <2> QED BY <1>6, <2>1 DEF OneMoney
  <1>8. Grouped(table, group) BY <1>6 DEF Grouped
  <1>9. Together(group) BY DEF Init, Together
  <1>10. ASSUME NEW i \in Pks PROVE HasBack(table, i)
    <2>1. CASE i \in 1..Len(t) /\ table[i] = t[i]
      <3>1. PICK j \in 1..Len(t) : t[j] = Partners(t[i].to, t[i].from) BY <1>2, <2>1
      <3>2. t[j].from = t[i].to /\ t[j].to = t[i].from BY <3>1 DEF Partners
      <3>3. j \in BackRows(table, table[i]) BY <1>4, <2>1, <3>2 DEF BackRows
      <3> QED BY <3>3 DEF HasBack
    <2>2. CASE table[i] = NoRow BY <2>2, NoRowIs DEF HasBack
    <2> QED BY <1>3, <2>1, <2>2
  <1>11. \A w \in Workers : job[w] = Idle BY DEF Init
  <1> QED BY <1>5, <1>7, <1>8, <1>9, <1>10, <1>11, IdleKnows DEF Steady, Sound

THEOREM NextKeepsOrderly == Inv /\ OrderlyInv /\ [Next]_vars => OrderlyInv'
  <1> SUFFICES ASSUME Inv, OrderlyInv, [Next]_vars, orderly' PROVE Steady' BY DEF OrderlyInv
  <1>1. CASE UNCHANGED vars
    BY <1>1 DEF vars, OrderlyInv, Steady
  <1>2. ASSUME NEW w \in Workers, Begin(w) PROVE Steady'
    BY <1>2, AskSteady, BeginSteady, BeginEditSteady DEF Begin
  <1>3. ASSUME NEW w \in Workers, Continue(w) PROVE Steady'
    BY <1>3, CreateReverseSteady, AcceptRowSteady, AcceptReverseSteady, FindReverseSteady,
       CommitPermissionsSteady, LeavingSteady, DropReverseSteady, DropRowSteady,
       CommitEditSteady, FailSteady DEF Continue
  <1> QED BY <1>1, <1>2, <1>3 DEF Next

THEOREM SpecOrderly == Spec => []OrderlyInv
  <1>1. Init => OrderlyInv BY InitOrderly
  <1>2. Inv /\ OrderlyInv /\ [Next]_vars => OrderlyInv' BY NextKeepsOrderly
  <1> QED BY <1>1, <1>2, SpecInv, PTL DEF Spec

LEMMA AtRestIs ==
  ASSUME OrderlyInv, AtRest
  PROVE  Sound(table, created, group, currency) /\ \A i \in Pks : HasBack(table, i)
  BY IdleJob DEF AtRest, OrderlyInv, Steady, Dropping

(* While requests come one at a time and end, an accepted partnership has   *)
(* its other direction: create_request makes it before it accepts either,   *)
(* and delete_partnership drops both (partnership_services.py).             *)
THEOREM PartnershipsAreMutual == Spec => []AcceptedIsMutual
  <1>1. Inv /\ OrderlyInv => AcceptedIsMutual
    <2> SUFFICES ASSUME Inv, OrderlyInv, AtRest, NEW i \in Pks, table[i].accepted
                 PROVE  \E j \in Pks : Directions(i, j)
      BY DEF AcceptedIsMutual
    <2>1. PICK j \in BackRows(table, table[i]) : TRUE BY AtRestIs DEF HasBack
    <2>2. table[i] # NoRow BY NoRowIs
    <2> QED BY <2>1, <2>2 DEF Directions, Exists, Reverse, BackRows
  <1> QED BY <1>1, SpecInv, SpecOrderly, PTL

(* While requests come one at a time and end, two partners who both         *)
(* accepted and both share cashback or cards are in one group, or were      *)
(* already in groups with others: whichever set_permissions came second has *)
(* found the other's share (partnership_services.py).                       *)
THEOREM SharersAreLinked == Spec => []SharedIsLinked
  <1>1. Inv /\ OrderlyInv => SharedIsLinked
    <2> SUFFICES ASSUME Inv, OrderlyInv, AtRest, NEW i \in Pks, NEW j \in Pks,
                        Directions(i, j), table[i].accepted, table[j].accepted,
                        NEW k \in (table[i].share \intersect table[j].share) \ {Items}
                 PROVE  LET g == group[k][table[i].from]  h == group[k][table[i].to] IN
                        /\ g # 0 /\ h # 0
                        /\ g # h => \A f \in {g, h} :
                             \E o \in Orgs \ {table[i].from, table[i].to} : group[k][o] = f
      BY DEF SharedIsLinked
    <2> DEFINE a == table[i].from
               b == table[i].to
    <2>1. Sound(table, created, group, currency) BY AtRestIs
    <2>2. j \in BackRows(table, table[i]) /\ table[i] # NoRow
      BY DEF Directions, Exists, Reverse, BackRows
    <2>3. group[k][a] # 0 /\ group[k][b] # 0 BY <2>1, <2>2 DEF Sound, Grouped
    <2>4. a \in Orgs /\ b \in Orgs /\ k \in Kinds \ {Items}
      BY <2>2, TheTable DEF TableOK, Row
    <2>5. /\ \E p \in Orgs \ {a} : group[k][p] = group[k][a]
          /\ \E p \in Orgs \ {b} : group[k][p] = group[k][b]
      BY <2>1, <2>3, <2>4 DEF Sound, Together
    <2> QED BY <2>3, <2>5
  <1> QED BY <1>1, SpecInv, SpecOrderly, PTL

(* While requests come one at a time and end, two partners who share        *)
(* everything have one currency: set_permissions compares them, and later   *)
(* OrganizationService.update asks can_change_currency.                     *)
THEOREM SharersHaveOneCurrency == Spec => []OneCurrency
  <1>1. OrderlyInv => OneCurrency BY AtRestIs DEF OneCurrency, Sound, OneMoney
  <1> QED BY <1>1, SpecOrderly, PTL
=============================================================================
