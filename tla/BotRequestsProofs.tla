-------------------------- MODULE BotRequestsProofs -------------------------
(***************************************************************************)
(* BotRequests proved for any number of organizations, userbots, requests,  *)
(* tasks and crashes: retries alone never make a second bot for a request,  *)
(* the bot in service is that of a completed request, and no userbot's      *)
(* counter passes its limit.                                                *)
(***************************************************************************)
EXTENDS BotRequests, WellFoundedInduction, TLAPS

-----------------------------------------------------------------------------
(* The inductive invariant.  As long as the beat has not found a request    *)
(* pending it has one task at the most, and what that task has done so far  *)
(* tells what the request looks like.                                       *)

(* A task in hand knows its request, and after it has picked a userbot      *)
(* remembers a counter below the limit.                                     *)
InHand(t) ==
  /\ t # NoTask => t.pc # "none" /\ t.req \in Requests
  /\ t.pc \in {"talking", "made", "saved", "counted"} =>
       t.userbot \in Userbots /\ t.count < DailyLimit

Progress(t, status, bots) ==
  /\ t.pc \in {"queued", "loaded", "talking"} => bots = 0 /\ status # "completed"
  /\ t.pc \in {"saved", "counted"} => status = "completed"

OneTask(r) ==
  /\ \A s, t \in Tasks : task[s].req = r /\ task[t].req = r => s = t
  /\ \A t \in Tasks : task[t].req = r => Progress(task[t], request[r].status, made[r])
  /\ made[r] <= 1

Inv ==
  /\ TypeOK
  /\ \A t \in Tasks : InHand(task[t])
  /\ \A r \in Requests \ stale : OneTask(r)
  /\ \A r \in Absent : r \notin stale /\ made[r] = 0 /\ \A t \in Tasks : task[t].req # r
  /\ \A r \in Requests : request[r].status # "absent" => request[r].org \in Orgs

-----------------------------------------------------------------------------
LEMMA Constants ==
  /\ MaxRequests \in Nat /\ DailyLimit \in Nat /\ MaxRetries \in Nat
  /\ NoOrg \notin Orgs /\ NoUserbot \notin Userbots
  BY BotRequestsAssumption

LEMMA RequestsAreNumbers == \A r \in Requests : r \in Nat \ {0}
  BY Constants DEF Requests

LEMMA NoTaskIsIdle ==
  NoTask \in Task /\ NoTask.pc = "none" /\ NoTask.req \notin Requests /\ InHand(NoTask)
  <1>1. 0 \notin Requests BY RequestsAreNumbers
  <1> QED BY <1>1, Constants DEF NoTask, Task, InHand

LEMMA QueuedIsFresh ==
  ASSUME NEW r \in Requests
  PROVE  /\ Queued(r) \in Task /\ InHand(Queued(r))
         /\ Queued(r).pc = "queued" /\ Queued(r).req = r
  BY NoTaskIsIdle, Constants DEF Queued, NoTask, Task, InHand

(* A task that goes on, or ends: the other tasks stay as they are.         *)
LEMMA OneTaskMoves ==
  ASSUME Inv, NEW t \in Tasks, NEW x \in Task, InHand(x),
         task' = [task EXCEPT ![t] = x]
  PROVE  /\ task' \in [Tasks -> Task]
         /\ \A s \in Tasks : InHand(task[s])'
         /\ task'[t] = x /\ \A s \in Tasks : s # t => task'[s] = task[s]
  <1>1. task \in [Tasks -> Task] BY DEF Inv, TypeOK
  <1>2. task'[t] = x /\ \A s \in Tasks : s # t => task'[s] = task[s] BY <1>1
  <1>3. \A s \in Tasks : InHand(task'[s]) BY <1>2 DEF Inv
  <1> QED BY <1>1, <1>2, <1>3 DEF InHand

(* What a step has to show about the requests, when one task t at the most *)
(* moves and keeps its request or lets go of it.                            *)
LEMMA RequestsKeep ==
  ASSUME Inv, NEW t \in Tasks, NEW x \in Task, InHand(x),
         task' = [task EXCEPT ![t] = x],
         x.req \in {task[t].req, 0},
         request' \in [Requests -> [status : Statuses, org : Orgs \union {NoOrg}]],
         made' \in [Requests -> Nat],
         UNCHANGED stale,
         \A r \in Requests :
           /\ r # task[t].req => request'[r] = request[r] /\ made'[r] = made[r]
           /\ request'[r].org = request[r].org
           /\ request'[r].status = "absent" <=> request[r].status = "absent",
         \A r \in Requests \ stale :
           r = task[t].req => /\ made'[r] <= 1
                              /\ x.req = r => Progress(x, request'[r].status, made'[r])
  PROVE  /\ \A r \in Requests \ stale' : OneTask(r)'
         /\ \A r \in Absent' : r \notin stale' /\ made'[r] = 0 /\ \A s \in Tasks : task'[s].req # r
         /\ \A r \in Requests : request'[r].status # "absent" => request'[r].org \in Orgs
  <1>1. task'[t] = x /\ \A s \in Tasks : s # t => task'[s] = task[s]
    BY OneTaskMoves
  <1>2. \A s \in Tasks, r \in Requests : task'[s].req = r => task[s].req = r
    BY <1>1, RequestsAreNumbers
  <1>3. ASSUME NEW r \in Requests \ stale
        PROVE  OneTask(r)'
    <2>1. \A s, u \in Tasks : task'[s].req = r /\ task'[u].req = r => s = u
      BY <1>2 DEF Inv, OneTask
    <2>2. made'[r] <= 1
      BY <1>3 DEF Inv, OneTask
    <2>3. ASSUME NEW s \in Tasks, task'[s].req = r
          PROVE  Progress(task'[s], request'[r].status, made'[r])
      <3>1. task[s].req = r BY <1>2, <2>3
      <3>2. CASE s = t BY <1>1, <2>3, <3>1, <3>2
      <3>3. CASE s # t
        <4>1. task[t].req # r BY <3>1, <3>3 DEF Inv, OneTask
        <4>2. request'[r] = request[r] /\ made'[r] = made[r] BY <4>1
        <4>3. Progress(task[s], request[r].status, made[r]) BY <3>1 DEF Inv, OneTask
        <4> QED BY <1>1, <3>3, <4>2, <4>3
      <3> QED BY <3>2, <3>3
    <2> QED BY <2>1, <2>2, <2>3 DEF OneTask, Progress
  <1>4. ASSUME NEW r \in Absent'
        PROVE  r \notin stale' /\ made'[r] = 0 /\ \A s \in Tasks : task'[s].req # r
    <2>1. r \in Absent BY <1>4 DEF Absent
    <2>2. r \in Requests /\ r # task[t].req BY <2>1 DEF Inv, Absent
    <2>3. made'[r] = made[r] BY <2>2
    <2> QED BY <1>2, <2>1, <2>2, <2>3 DEF Inv
  <1>5. ASSUME NEW r \in Requests, request'[r].status # "absent"
        PROVE  request'[r].org \in Orgs
    BY <1>5 DEF Inv
  <1> QED BY <1>3, <1>4, <1>5

-----------------------------------------------------------------------------
(* The steps of a task. *)

LEMMA TaskSteps ==
  ASSUME Inv, NEW t \in Tasks, Work(t) \/ Crash(t)
  PROVE  Inv'
  <1> DEFINE r == task[t].req
  <1>1. task[t] \in Task /\ InHand(task[t]) BY DEF Inv, TypeOK
  <1>2. request \in [Requests -> [status : Statuses, org : Orgs \union {NoOrg}]]
        /\ made \in [Requests -> Nat] /\ counter \in [Userbots -> 0..DailyLimit]
    BY DEF Inv, TypeOK
  <1>3. task[t].pc # "none" => task[t] # NoTask /\ r \in Requests
    BY <1>1, NoTaskIsIdle DEF InHand
  <1>4. r \in Requests => request[r].status \in Statuses
    BY <1>2
  <1>5. ASSUME NEW x \in Task, InHand(x), task' = [task EXCEPT ![t] = x],
               x.req \in {r, 0}, r \in Requests,
               request[r].status # "absent",
               UNCHANGED <<stale, post>>,
               counter' \in [Userbots -> 0..DailyLimit],
               bot' \in [Orgs -> Requests \union {0}],
               crashes' \in 0..MaxCrashes,
               request' = request \/
                 \E st \in Statuses \ {"absent"} : request' = [request EXCEPT ![r].status = st],
               made' = made \/ made' = [made EXCEPT ![r] = @ + 1],
               r \notin stale => /\ made'[r] <= 1
                                 /\ x.req = r => Progress(x, request'[r].status, made'[r])
        PROVE  Inv'
    <2>1. task' \in [Tasks -> Task] /\ \A s \in Tasks : InHand(task[s])'
      BY <1>5, OneTaskMoves
    <2>2. /\ request' \in [Requests -> [status : Statuses, org : Orgs \union {NoOrg}]]
          /\ made' \in [Requests -> Nat]
          /\ \A q \in Requests :
               /\ q # r => request'[q] = request[q] /\ made'[q] = made[q]
               /\ request'[q].org = request[q].org
               /\ request'[q].status = "absent" <=> request[q].status = "absent"
      <3>1. made' \in [Requests -> Nat]
            /\ \A q \in Requests : q # r => made'[q] = made[q]
        BY <1>2, <1>5
      <3>2. CASE request' = request BY <1>2, <3>1, <3>2
      <3>3. CASE \E st \in Statuses \ {"absent"} : request' = [request EXCEPT ![r].status = st]
        <4>1. PICK st \in Statuses \ {"absent"} : request' = [request EXCEPT ![r].status = st]
          BY <3>3
        <4>2. request' \in [Requests -> [status : Statuses, org : Orgs \union {NoOrg}]]
          BY <1>2, <1>5, <4>1
        <4>3. /\ request'[r].status = st /\ request'[r].org = request[r].org
              /\ \A q \in Requests : q # r => request'[q] = request[q]
          BY <1>2, <1>5, <4>1
        <4> QED BY <1>5, <3>1, <4>2, <4>3
      <3> QED BY <1>5, <3>2, <3>3
    <2>3. \A q \in Requests :
            /\ q # r => request'[q] = request[q] /\ made'[q] = made[q]
            /\ request'[q].org = request[q].org
            /\ request'[q].status = "absent" <=> request[q].status = "absent"
      BY <2>2
    <2>4. TypeOK' BY <1>5, <2>1, <2>2 DEF Inv, TypeOK
    <2>5. \A q \in Requests \ stale :
            q = r => /\ made'[q] <= 1
                     /\ x.req = q => Progress(x, request'[q].status, made'[q])
      BY <1>5
    <2> HIDE DEF r
    <2>6. /\ \A q \in Requests \ stale' : OneTask(q)'
          /\ \A q \in Absent' : q \notin stale' /\ made'[q] = 0 /\ \A s \in Tasks : task'[s].req # q
          /\ \A q \in Requests : request'[q].status # "absent" => request'[q].org \in Orgs
      BY <1>5, <2>2, <2>3, <2>5, RequestsKeep DEF r
    <2> QED BY <2>1, <2>4, <2>6 DEF Inv
  <1>6. ASSUME task[t].pc # "none"
        PROVE  /\ r \in Requests /\ request[r].status \in Statuses \ {"absent"}
               /\ r \notin stale => OneTask(r) /\ Progress(task[t], request[r].status, made[r])
    BY <1>2, <1>3, <1>6 DEF Inv, OneTask, Absent
  <1>7. /\ counter \in [Userbots -> 0..DailyLimit] /\ bot \in [Orgs -> Requests \union {0}]
        /\ crashes \in 0..MaxCrashes /\ MaxCrashes \in Nat
    BY BotRequestsAssumption DEF Inv, TypeOK
  <1>8. ASSUME NEW pc \in {"loaded", "talking", "made", "saved", "counted"}
        PROVE  LET x == [task[t] EXCEPT !.pc = pc] IN
               /\ x \in Task /\ x.pc = pc
               /\ x.req = r /\ x.count = task[t].count /\ x.userbot = task[t].userbot
    BY <1>1 DEF Task
  <1>9. CASE End(t) /\ task[t].pc # "none" /\ UNCHANGED <<stale, post, made>>
             /\ counter' \in [Userbots -> 0..DailyLimit]
             /\ bot' \in [Orgs -> Requests \union {0}]
             /\ crashes' \in 0..MaxCrashes
             /\ (request' = request \/
                   \E st \in Statuses \ {"absent"} : request' = [request EXCEPT ![r].status = st])
    <2>1. NoTask \in Task /\ InHand(NoTask) /\ NoTask.req = 0 /\ NoTask.req \notin Requests
      BY NoTaskIsIdle DEF NoTask
    <2>2. r \notin stale => made'[r] <= 1 BY <1>6, <1>9 DEF OneTask
    <2> HIDE DEF r
    <2> QED BY <1>5, <1>6, <1>9, <2>1, <2>2 DEF End
  <1>10. CASE Load(t)
    <2>1. task[t].pc = "queued" BY <1>10 DEF Load
    <2>2. CASE request[r].status = "completed"
      BY <1>7, <1>9, <1>10, <2>1, <2>2 DEF Load
    <2>3. CASE request[r].status # "completed"
      <3> DEFINE x == [task[t] EXCEPT !.pc = "loaded"]
      <3>1. task' = [task EXCEPT ![t] = x] BY <1>10, <2>3 DEF Load, Step
      <3>2. x \in Task /\ x.pc = "loaded" /\ x.req = r BY <1>8
      <3>3. InHand(x) BY <1>6, <2>1, <3>2 DEF InHand
      <3>4. r \notin stale => made[r] <= 1 /\ Progress(x, request[r].status, made[r])
        BY <1>6, <2>1, <2>3, <3>2 DEF Progress, OneTask
      <3> HIDE DEF x, r
      <3> QED BY <1>5, <1>6, <1>7, <1>10, <2>1, <3>1, <3>2, <3>3, <3>4 DEF Load
    <2> QED BY <2>2, <2>3
  <1>11. CASE Pick(t)
    <2>1. task[t].pc = "loaded" BY <1>11 DEF Pick
    <2>2. CASE Available = {} /\ SetStatus(r, "failed") /\ End(t) /\ UNCHANGED counter
      BY <1>7, <1>9, <1>11, <2>1, <2>2 DEF Pick, SetStatus, Statuses
    <2>3. ASSUME NEW u \in Available, NEW count \in {counter[u], 0},
                 counter' = [counter EXCEPT ![u] = count],
                 SetStatus(r, "in_progress"),
                 task' = [task EXCEPT ![t].pc = "talking", ![t].userbot = u, ![t].count = count]
          PROVE  Inv'
      <3> DEFINE x == [task[t] EXCEPT !.pc = "talking", !.userbot = u, !.count = count]
      <3>1. u \in Userbots /\ count \in 0..DailyLimit /\ count < DailyLimit
        BY <1>7, Constants DEF Available
      <3>2. x \in Task /\ x.pc = "talking" /\ x.req = r /\ x.userbot = u /\ x.count = count
        BY <1>1, <3>1 DEF Task
      <3>3. InHand(x) BY <1>6, <2>1, <3>1, <3>2 DEF InHand
      <3>4. task' = [task EXCEPT ![t] = x] BY <2>3 DEF Inv, TypeOK
      <3>5. r \notin stale => made[r] <= 1 /\ made[r] = 0
        BY <1>6, <2>1 DEF Progress, OneTask
      <3>6. counter' \in [Userbots -> 0..DailyLimit] BY <1>7, <2>3, <3>1
      <3>7. /\ request' = [request EXCEPT ![r].status = "in_progress"]
            /\ "in_progress" \in Statuses \ {"absent"}
            /\ request'[r].status = "in_progress"
        BY <1>2, <1>6, <2>1, <2>3 DEF SetStatus, Statuses
      <3>8. r \notin stale => Progress(x, request'[r].status, made[r])
        BY <3>2, <3>5, <3>7 DEF Progress
      <3> HIDE DEF x, r
      <3> QED BY <1>5, <1>6, <1>7, <1>11, <2>1, <3>2, <3>3, <3>4, <3>5, <3>6, <3>7, <3>8 DEF Pick
    <2> QED BY <1>11, <2>2, <2>3 DEF Pick
  <1>12. CASE Make(t)
    <2> DEFINE x == [task[t] EXCEPT !.pc = "made"]
    <2>1. task[t].pc = "talking" /\ task' = [task EXCEPT ![t] = x]
      BY <1>12 DEF Make, Step
    <2>2. x \in Task /\ x.pc = "made" /\ x.req = r /\ x.count = task[t].count
          /\ x.userbot = task[t].userbot
      BY <1>8
    <2>3. InHand(x) BY <1>1, <1>6, <2>1, <2>2 DEF InHand
    <2>4. made' = [made EXCEPT ![r] = @ + 1] BY <1>12 DEF Make
    <2>5. r \notin stale => made'[r] <= 1
      BY <1>2, <1>6, <2>1, <2>4 DEF Progress
    <2>6. Progress(x, request[r].status, made'[r]) BY <2>2 DEF Progress
    <2> HIDE DEF x, r
    <2> QED BY <1>5, <1>6, <1>7, <1>12, <2>1, <2>2, <2>3, <2>4, <2>5, <2>6 DEF Make
  <1>13. CASE Refuse(t)
    <2>1. task[t].pc = "talking" /\ SetStatus(r, "failed") BY <1>13 DEF Refuse
    <2>2. CASE End(t) BY <1>7, <1>9, <1>13, <2>1, <2>2 DEF Refuse, SetStatus, Statuses
    <2>3. CASE /\ task[t].retries < MaxRetries
               /\ task' = [task EXCEPT ![t] = [Queued(r) EXCEPT !.retries = task[t].retries + 1]]
      <3> DEFINE x == [Queued(r) EXCEPT !.retries = task[t].retries + 1]
      <3>1. task[t].retries + 1 \in 0..MaxRetries
        BY <1>1, <2>3, Constants DEF Task
      <3>2. Queued(r) \in Task /\ Queued(r).pc = "queued" /\ Queued(r).req = r
        BY <1>6, <2>1, QueuedIsFresh
      <3>3. x \in Task /\ x.pc = "queued" /\ x.req = r
        BY <3>1, <3>2 DEF Task
      <3>4. InHand(x) BY <1>6, <2>1, <3>3 DEF InHand
      <3>5. /\ request' = [request EXCEPT ![r].status = "failed"]
            /\ "failed" \in Statuses \ {"absent"}
            /\ request'[r].status = "failed"
        BY <1>2, <1>6, <2>1 DEF SetStatus, Statuses
      <3>6. r \notin stale => made[r] <= 1 /\ Progress(x, request'[r].status, made[r])
        BY <1>6, <2>1, <3>3, <3>5 DEF Progress, OneTask
      <3>7. task' = [task EXCEPT ![t] = x] BY <2>3
      <3> HIDE DEF x, r
      <3> QED BY <1>5, <1>6, <1>7, <1>13, <2>1, <3>3, <3>4, <3>5, <3>6, <3>7 DEF Refuse
    <2> QED BY <1>13, <2>2, <2>3 DEF Refuse
  <1>14. CASE Complete(t)
    <2> DEFINE x == [task[t] EXCEPT !.pc = "saved"]
    <2>1. task[t].pc = "made" /\ task' = [task EXCEPT ![t] = x] /\ SetStatus(r, "completed")
      BY <1>14 DEF Complete, Step
    <2>2. x \in Task /\ x.pc = "saved" /\ x.req = r /\ x.count = task[t].count
          /\ x.userbot = task[t].userbot
      BY <1>8
    <2>3. InHand(x) BY <1>1, <1>6, <2>1, <2>2 DEF InHand
    <2>4. /\ request' = [request EXCEPT ![r].status = "completed"]
          /\ "completed" \in Statuses \ {"absent"}
          /\ request'[r].status = "completed"
      BY <1>2, <1>6, <2>1 DEF SetStatus, Statuses
    <2>5. r \notin stale => made[r] <= 1 /\ Progress(x, request'[r].status, made[r])
      BY <1>6, <2>1, <2>2, <2>4 DEF Progress, OneTask
    <2> HIDE DEF x, r
    <2> QED BY <1>5, <1>6, <1>7, <1>14, <2>1, <2>2, <2>3, <2>4, <2>5 DEF Complete
  <1>15. CASE Count(t)
    <2> DEFINE x == [task[t] EXCEPT !.pc = "counted"]
    <2>1. task[t].pc = "saved" /\ task' = [task EXCEPT ![t] = x]
      BY <1>15 DEF Count, Step
    <2>2. x \in Task /\ x.pc = "counted" /\ x.req = r /\ x.count = task[t].count
          /\ x.userbot = task[t].userbot
      BY <1>8
    <2>3. InHand(x) BY <1>1, <1>6, <2>1, <2>2 DEF InHand
    <2>4. task[t].count + 1 \in 0..DailyLimit
      BY <1>1, <2>1, Constants DEF InHand, Task
    <2>5. counter' \in [Userbots -> 0..DailyLimit] BY <1>7, <1>15, <2>4 DEF Count
    <2>6. r \notin stale => made[r] <= 1 /\ Progress(x, request[r].status, made[r])
      BY <1>6, <2>1, <2>2 DEF Progress, OneTask
    <2> HIDE DEF x, r
    <2> QED BY <1>5, <1>6, <1>7, <1>15, <2>1, <2>2, <2>3, <2>5, <2>6 DEF Count
  <1>16. CASE SetUp(t)
    <2>1. task[t].pc = "counted" BY <1>16 DEF SetUp
    <2>2. bot' \in [Orgs -> Requests \union {0}] BY <1>6, <1>7, <1>16, <2>1 DEF SetUp
    <2> QED BY <1>7, <1>9, <1>16, <2>1, <2>2 DEF SetUp
  <1>17. CASE Crash(t)
    <2>1. crashes' \in 0..MaxCrashes BY <1>7, <1>17 DEF Crash
    <2> QED BY <1>7, <1>9, <1>17, <2>1 DEF Crash, Running
  <1>18. CASE SaveFails(t)
    BY <1>7, <1>9, <1>18 DEF SaveFails, SetStatus, Statuses
  <1> QED BY <1>10, <1>11, <1>12, <1>13, <1>14, <1>15, <1>16, <1>17, <1>18 DEF Work

-----------------------------------------------------------------------------
(* The steps of everybody else. *)

LEMMA Least ==
  ASSUME NEW T, T \subseteq Nat, T # {}
  PROVE  \E x \in T : \A y \in T : x <= y
  <1> DEFINE R == OpToRel(<, Nat)
  <1>1. IsWellFoundedOn(R, Nat) BY NatLessThanWellFounded
  <1>2. \A x, y \in Nat : <<y, x>> \in R <=> y < x BY DEF OpToRel
  <1> HIDE DEF R
  <1>3. PICK x \in T : \A y \in T : ~ (<<y, x>> \in R) BY <1>1, WFMin
  <1>4. \A y \in T : x \in Nat /\ y \in Nat /\ ~(y < x) BY <1>2, <1>3
  <1>5. \A y \in T : x <= y BY <1>4
  <1> QED BY <1>5

LEMMA CheckKeeps ==
  ASSUME Inv, NEW p \in Posts, NEW o \in Orgs, CheckView(p, o) \/ CheckPayment(p, o)
  PROVE  Inv'
  <1>1. post' = [post EXCEPT ![p] = o]
        /\ UNCHANGED <<request, stale, bot, counter, made, task, crashes>>
    BY DEF CheckView, CheckPayment
  <1>2. TypeOK' BY <1>1 DEF Inv, TypeOK
  <1> QED BY <1>1, <1>2 DEF Inv, InHand, OneTask, Progress, Absent

(* A new row, and its task if it was sent. *)
LEMMA CreateKeeps ==
  ASSUME Inv, NEW p \in Posts, Create(p)
  PROVE  Inv'
  <1> DEFINE r == CHOOSE r \in Absent : \A s \in Absent : r <= s
  <1>1. r \in Absent
    <2>1. Absent \subseteq Nat BY RequestsAreNumbers DEF Absent
    <2>2. \E x \in Absent : \A y \in Absent : x <= y BY <2>1, Least DEF Create
    <2> QED BY <2>2
  <1>2. /\ request' = [request EXCEPT ![r] = [status |-> "pending", org |-> post[p]]]
        /\ \/ UNCHANGED task
           \/ \E t \in FreeTasks : task' = [task EXCEPT ![t] = Queued(r)]
        /\ post' = [post EXCEPT ![p] = NoOrg]
        /\ UNCHANGED <<stale, bot, counter, made, crashes>>
    BY DEF Create
  <1> HIDE DEF r
  <1>3. r \in Requests /\ post[p] \in Orgs
    BY <1>1 DEF Absent, Create, Inv, TypeOK
  <1>4. /\ request'[r] = [status |-> "pending", org |-> post[p]]
        /\ \A q \in Requests : q # r => request'[q] = request[q]
        /\ request' \in [Requests -> [status : Statuses, org : Orgs \union {NoOrg}]]
    BY <1>2, <1>3 DEF Inv, TypeOK, Statuses
  <1>5. r \notin stale /\ made[r] = 0 /\ \A t \in Tasks : task[t].req # r
    BY <1>1 DEF Inv
  <1>6. /\ task' \in [Tasks -> Task]
        /\ \A t \in Tasks : task'[t] = task[t]
                            \/ (task'[t].pc = "queued" /\ task'[t].req = r)
        /\ \A t \in Tasks : InHand(task'[t])
        /\ \A s, t \in Tasks : task'[s].req = r /\ task'[t].req = r => s = t
    <2>1. CASE UNCHANGED task BY <1>5, <2>1 DEF Inv, TypeOK
    <2>2. CASE \E t \in FreeTasks : task' = [task EXCEPT ![t] = Queued(r)]
      <3>1. PICK t \in Tasks : task' = [task EXCEPT ![t] = Queued(r)]
        BY <2>2 DEF FreeTasks
      <3>2. /\ task' \in [Tasks -> Task] /\ \A s \in Tasks : InHand(task[s])'
            /\ task'[t] = Queued(r) /\ \A s \in Tasks : s # t => task'[s] = task[s]
        BY <1>3, <3>1, QueuedIsFresh, OneTaskMoves
      <3>3. Queued(r).pc = "queued" /\ Queued(r).req = r BY <1>3, QueuedIsFresh
      <3> QED BY <1>5, <3>2, <3>3 DEF InHand
    <2> QED BY <1>2, <2>1, <2>2
  <1>7. TypeOK' BY <1>2, <1>4, <1>6 DEF Inv, TypeOK
  <1>8. ASSUME NEW q \in Requests \ stale PROVE OneTask(q)'
    <2>1. CASE q = r
      <3>1. \A t \in Tasks : task'[t].req = r => task'[t].pc = "queued"
        BY <1>5, <1>6
      <3>2. made'[r] = 0 /\ request'[r].status = "pending" BY <1>2, <1>4, <1>5
      <3> QED BY <1>6, <2>1, <3>1, <3>2 DEF OneTask, Progress
    <2>2. CASE q # r
      <3>1. request'[q] = request[q] /\ made'[q] = made[q] BY <1>2, <1>4, <2>2
      <3>2. \A t \in Tasks : task'[t].req = q => task'[t] = task[t] BY <1>6, <2>2
      <3>3. OneTask(q) BY DEF Inv
      <3> QED BY <3>1, <3>2, <3>3 DEF OneTask, Progress
    <2> QED BY <2>1, <2>2
  <1>9. ASSUME NEW q \in Absent'
        PROVE  q \notin stale /\ made'[q] = 0 /\ \A t \in Tasks : task'[t].req # q
    <2>1. q \in Requests /\ q # r /\ q \in Absent BY <1>4, <1>9 DEF Absent
    <2> QED BY <1>2, <1>6, <2>1 DEF Inv
  <1>10. ASSUME NEW q \in Requests, request'[q].status # "absent"
         PROVE  request'[q].org \in Orgs
    BY <1>3, <1>4, <1>10 DEF Inv
  <1> QED BY <1>2, <1>6, <1>7, <1>8, <1>9, <1>10 DEF Inv, InHand

LEMMA FiveMinutesPassKeeps ==
  ASSUME Inv, NEW r \in Requests, FiveMinutesPass(r)
  PROVE  Inv'
  <1>1. /\ r \notin Absent
        /\ stale' = stale \union {r}
        /\ UNCHANGED <<request, post, bot, counter, made, task, crashes>>
    BY DEF FiveMinutesPass, Pending, Absent
  <1>2. TypeOK' BY <1>1 DEF Inv, TypeOK
  <1>3. \A q \in Requests \ stale' : OneTask(q)'
    BY <1>1 DEF Inv, OneTask, Progress
  <1>4. Absent' = Absent BY <1>1 DEF Absent
  <1> QED BY <1>1, <1>2, <1>3, <1>4 DEF Inv, InHand

(* The beat sends stale requests only, and to tasks that were free. *)
LEMMA ResendKeeps ==
  ASSUME Inv, Resend
  PROVE  Inv'
  <1>1. PICK f \in [ToResend -> FreeTasks] :
          task' = [t \in Tasks |->
            IF \E r \in ToResend : f[r] = t
              THEN Queued(CHOOSE r \in ToResend : f[r] = t) ELSE task[t]]
    BY DEF Resend
  <1>2. UNCHANGED <<request, stale, post, bot, counter, made, crashes>> BY DEF Resend
  <1>3. ToResend \subseteq Requests /\ ToResend \subseteq stale /\ ToResend \intersect Absent = {}
    BY DEF ToResend, Pending, Absent
  <1>4. ASSUME NEW t \in Tasks
        PROVE  \/ task'[t] = task[t]
               \/ \E r \in ToResend : task'[t] = Queued(r)
    <2>1. CASE \E r \in ToResend : f[r] = t BY <1>1, <2>1
    <2>2. CASE ~\E r \in ToResend : f[r] = t BY <1>1, <2>2
    <2> QED BY <2>1, <2>2
  <1>5. ASSUME NEW t \in Tasks
        PROVE  /\ task'[t] \in Task /\ InHand(task'[t])
               /\ task'[t] = task[t] \/ task'[t].req \in ToResend
    BY <1>3, <1>4, QueuedIsFresh DEF Inv, TypeOK
  <1>6. task' \in [Tasks -> Task] BY <1>1, <1>5
  <1>7. TypeOK' BY <1>2, <1>6 DEF Inv, TypeOK
  <1>8. ASSUME NEW q \in Requests \ stale PROVE OneTask(q)'
    <2>1. \A t \in Tasks : task'[t].req = q => task'[t] = task[t] BY <1>3, <1>5
    <2>2. OneTask(q) BY DEF Inv
    <2> QED BY <1>2, <2>1, <2>2 DEF OneTask, Progress
  <1>9. ASSUME NEW q \in Absent
        PROVE  q \notin stale /\ made[q] = 0 /\ \A t \in Tasks : task'[t].req # q
    BY <1>3, <1>5 DEF Inv
  <1>10. Absent' = Absent BY <1>2 DEF Absent
  <1> QED BY <1>2, <1>5, <1>7, <1>8, <1>9, <1>10 DEF Inv, InHand

LEMMA MidnightKeeps ==
  ASSUME Inv, Midnight
  PROVE  Inv'
  <1>1. counter' = [u \in Userbots |-> 0]
        /\ UNCHANGED <<request, stale, post, bot, made, task, crashes>>
    BY DEF Midnight
  <1>2. TypeOK' BY <1>1, Constants DEF Inv, TypeOK
  <1> QED BY <1>1, <1>2 DEF Inv, InHand, OneTask, Progress, Absent

-----------------------------------------------------------------------------
THEOREM InitInv == Init => Inv
  <1> SUFFICES ASSUME Init PROVE Inv OBVIOUS
  <1>1. TypeOK
    BY NoTaskIsIdle, Constants, BotRequestsAssumption DEF Init, TypeOK, Statuses
  <1>2. \A t \in Tasks : task[t] = NoTask BY DEF Init
  <1>3. \A r \in Requests : made[r] = 0 /\ r \notin stale /\ request[r].status = "absent"
    BY DEF Init
  <1>4. \A r \in Requests, t \in Tasks : task[t].req # r BY <1>2, NoTaskIsIdle
  <1>5. \A r \in Requests : OneTask(r) BY <1>3, <1>4 DEF OneTask
  <1> QED BY <1>1, <1>2, <1>3, <1>4, <1>5, NoTaskIsIdle DEF Inv, Absent

THEOREM NextKeepsInv == Inv /\ [Next]_vars => Inv'
  <1> SUFFICES ASSUME Inv, [Next]_vars PROVE Inv' OBVIOUS
  <1>1. ASSUME Next PROVE Inv'
    BY <1>1, CheckKeeps, CreateKeeps, TaskSteps, FiveMinutesPassKeeps, ResendKeeps,
       MidnightKeeps DEF Next
  <1>2. CASE UNCHANGED vars
    BY <1>2 DEF vars, Inv, TypeOK, InHand, OneTask, Progress, Absent
  <1> QED BY <1>1, <1>2

THEOREM SpecInv == Spec => []Inv
  BY InitInv, NextKeepsInv, PTL DEF Spec

(* No userbot is counted beyond its daily limit, however many tasks write  *)
(* its counter back.                                                       *)
THEOREM TypeCorrect == Spec => []TypeOK
  <1>1. Inv => TypeOK BY DEF Inv
  <1> QED BY <1>1, SpecInv, PTL

(* Only a request that was still pending after five minutes gets two bots. *)
THEOREM RetriesMakeOneBot == Spec => []SecondBotOnlyWhenStale
  <1>1. Inv => SecondBotOnlyWhenStale
    <2> SUFFICES ASSUME Inv, NEW r \in Requests, made[r] > 1, r \notin stale PROVE FALSE
      BY DEF SecondBotOnlyWhenStale
    <2>1. made[r] <= 1 /\ made[r] \in Nat BY DEF Inv, OneTask, TypeOK
    <2> QED BY <2>1
  <1> QED BY <1>1, SpecInv, PTL

-----------------------------------------------------------------------------
(* The bot in service.  The task that set it up was the only one of its     *)
(* request, and has ended: nobody is left to change the request.            *)

Served(o) ==
  bot[o] # 0 /\ bot[o] \notin stale =>
    /\ request[bot[o]].status = "completed" /\ request[bot[o]].org = o
    /\ \A t \in Tasks : task[t].req # bot[o]

(* What the steps of the tasks do to the rows. *)
LEMMA TaskWrites ==
  ASSUME Inv, NEW t \in Tasks, Work(t) \/ Crash(t)
  PROVE  /\ task[t].req \in Requests
         /\ UNCHANGED stale
         /\ \A r \in Requests : r # task[t].req => request'[r] = request[r]
         /\ \A s \in Tasks : task'[s].req \in {task[s].req, 0}
         /\ \A o \in Orgs : bot'[o] # bot[o] => /\ task[t].pc = "counted" /\ End(t)
                                                /\ bot'[o] = task[t].req
                                                /\ request[task[t].req].org = o
                                                /\ UNCHANGED request
  <1> DEFINE r == task[t].req
  <1>1. task \in [Tasks -> Task] /\ task[t] \in Task /\ InHand(task[t]) BY DEF Inv, TypeOK
  <1>2. task[t].pc # "none"
    BY DEF Work, Load, Pick, Make, Refuse, Complete, Count, SaveFails, SetUp, Crash, Running
  <1>3. r \in Requests BY <1>1, <1>2, NoTaskIsIdle DEF InHand
  <1>4. UNCHANGED stale
    BY DEF Work, Load, Pick, Make, Refuse, Complete, Count, SaveFails, SetUp, Crash
  <1>5. \A q \in Requests : q # r => request'[q] = request[q]
    <2>1. request \in [Requests -> [status : Statuses, org : Orgs \union {NoOrg}]]
      BY DEF Inv, TypeOK
    <2>2. request' = request \/ \E st \in Statuses : request' = [request EXCEPT ![r].status = st]
      BY DEF Work, Load, Pick, Make, Refuse, Complete, Count, SaveFails, SetUp, Crash,
         SetStatus, Statuses
    <2> QED BY <2>1, <2>2
  <1>6. \A s \in Tasks : task'[s].req \in {task[s].req, 0}
    <2>1. \E x : /\ task' = [task EXCEPT ![t] = x] /\ x.req \in {r, 0}
      <3>1. NoTask.req = 0 BY DEF NoTask
      <3>2. \A pc : [task[t] EXCEPT !.pc = pc].req = r BY <1>1 DEF Task
      <3>3. Queued(r).req = r /\ [Queued(r) EXCEPT !.retries = task[t].retries + 1].req = r
        BY DEF Queued, NoTask
      <3>4. \A u, n : [task[t] EXCEPT !.pc = "talking", !.userbot = u, !.count = n].req = r
        BY <1>1 DEF Task
      <3>5. ASSUME NEW pc, Step(t, pc)
            PROVE  \E x : /\ task' = [task EXCEPT ![t] = x] /\ x.req \in {r, 0}
        <4>1. task' = [task EXCEPT ![t] = [task[t] EXCEPT !.pc = pc]]
          BY <1>1, <3>5 DEF Step
        <4> QED BY <3>2, <4>1
      <3>6. ASSUME End(t)
            PROVE  \E x : /\ task' = [task EXCEPT ![t] = x] /\ x.req \in {r, 0}
        BY <3>1, <3>6 DEF End
      <3>7. CASE Pick(t)
        <4>1. ASSUME NEW u, NEW n,
                     task' = [task EXCEPT ![t].pc = "talking", ![t].userbot = u, ![t].count = n]
              PROVE  \E x : /\ task' = [task EXCEPT ![t] = x] /\ x.req \in {r, 0}
          <5>1. task' = [task EXCEPT ![t] =
                          [task[t] EXCEPT !.pc = "talking", !.userbot = u, !.count = n]]
            BY <1>1, <4>1
          <5> QED BY <3>4, <5>1
        <4> QED BY <3>6, <3>7, <4>1 DEF Pick
      <3>8. CASE Refuse(t) BY <3>3, <3>6, <3>8 DEF Refuse
      <3>9. CASE Load(t) \/ Make(t) \/ Complete(t) \/ Count(t) \/ SaveFails(t) \/ SetUp(t)
                 \/ Crash(t)
        BY <3>5, <3>6, <3>9 DEF Load, Make, Complete, Count, SaveFails, SetUp, Crash
      <3> QED BY <3>7, <3>8, <3>9 DEF Work
    <2> QED BY <1>1, <2>1
  <1>7. ASSUME NEW o \in Orgs, bot'[o] # bot[o]
        PROVE  /\ task[t].pc = "counted" /\ End(t) /\ bot'[o] = r
               /\ request[r].org = o /\ UNCHANGED request
    <2>1. SetUp(t)
      BY <1>7 DEF Work, Load, Pick, Make, Refuse, Complete, Count, SaveFails, Crash
    <2>2. bot' = [bot EXCEPT ![request[r].org] = r] /\ bot \in [Orgs -> Requests \union {0}]
      BY <1>7, <2>1 DEF SetUp, Inv, TypeOK
    <2> QED BY <1>7, <2>1, <2>2 DEF SetUp
  <1> QED BY <1>3, <1>4, <1>5, <1>6, <1>7

LEMMA ServedKeeps ==
  ASSUME Inv, [Next]_vars, NEW o \in Orgs, Served(o)
  PROVE  Served(o)'
  <1>1. bot \in [Orgs -> Requests \union {0}] /\ task \in [Tasks -> Task]
        /\ request \in [Requests -> [status : Statuses, org : Orgs \union {NoOrg}]]
    BY DEF Inv, TypeOK
  <1>2. CASE UNCHANGED <<request, bot, task>> /\ stale \subseteq stale'
    BY <1>2 DEF Served
  <1>3. ASSUME NEW p \in Posts, Create(p) PROVE Served(o)'
    <2> DEFINE r == CHOOSE r \in Absent : \A s \in Absent : r <= s
    <2>1. r \in Absent
      <3>1. Absent \subseteq Nat BY RequestsAreNumbers DEF Absent
      <3>2. \E x \in Absent : \A y \in Absent : x <= y BY <1>3, <3>1, Least DEF Create
      <3> QED BY <3>2
    <2>2. /\ request' = [request EXCEPT ![r] = [status |-> "pending", org |-> post[p]]]
          /\ UNCHANGED task \/ \E t \in FreeTasks : task' = [task EXCEPT ![t] = Queued(r)]
          /\ UNCHANGED <<bot, stale>>
      BY <1>3 DEF Create
    <2> HIDE DEF r
    <2>3. ASSUME bot[o] # 0, bot[o] \notin stale
          PROVE  /\ request'[bot[o]] = request[bot[o]]
                 /\ \A t \in Tasks : task'[t].req # bot[o]
      <3>1. request[bot[o]].status = "completed" /\ \A t \in Tasks : task[t].req # bot[o]
        BY <2>3 DEF Served
      <3>2. r \in Requests /\ request[r].status = "absent" BY <2>1 DEF Absent
      <3>3. r # bot[o] BY <3>1, <3>2
      <3>4. Queued(r).req = r BY <3>2, QueuedIsFresh
      <3>5. \A t \in Tasks : task'[t] = task[t] \/ task'[t] = Queued(r) BY <1>1, <2>2
      <3> QED BY <1>1, <2>2, <2>3, <3>1, <3>3, <3>4, <3>5
    <2> QED BY <2>2, <2>3 DEF Served
  <1>4. ASSUME NEW t \in Tasks, Work(t) \/ Crash(t) PROVE Served(o)'
    <2> DEFINE r == task[t].req
    <2>1. /\ r \in Requests /\ UNCHANGED stale
          /\ \A q \in Requests : q # r => request'[q] = request[q]
          /\ \A s \in Tasks : task'[s].req \in {task[s].req, 0}
      BY <1>4, TaskWrites
    <2>2. CASE bot'[o] = bot[o]
      <3>1. ASSUME bot[o] # 0, bot[o] \notin stale
            PROVE  /\ request'[bot[o]] = request[bot[o]]
                   /\ \A s \in Tasks : task'[s].req # bot[o]
        <4>1. bot[o] \in Requests /\ \A s \in Tasks : task[s].req # bot[o]
          BY <1>1, <3>1 DEF Served
        <4> QED BY <2>1, <3>1, <4>1
      <3> QED BY <2>1, <2>2, <3>1 DEF Served
    <2>3. CASE bot'[o] # bot[o]
      <3>1. /\ task[t].pc = "counted" /\ End(t) /\ bot'[o] = r
            /\ request[r].org = o /\ UNCHANGED request
        BY <1>4, <2>3, TaskWrites
      <3>2. ASSUME r \notin stale
            PROVE  request[r].status = "completed" /\ \A s \in Tasks : task'[s].req # r
        <4>1. OneTask(r) BY <2>1, <3>2 DEF Inv
        <4>2. request[r].status = "completed" BY <3>1, <4>1 DEF OneTask, Progress
        <4>3. task'[t] = NoTask /\ NoTask.req # r BY <1>1, <2>1, <3>1, NoTaskIsIdle DEF End
        <4>4. ASSUME NEW s \in Tasks, s # t PROVE task'[s].req # r
          <5>1. task'[s] = task[s] BY <1>1, <3>1, <4>4 DEF End
          <5> QED BY <4>1, <4>4, <5>1 DEF OneTask
        <4> QED BY <4>2, <4>3, <4>4
      <3> HIDE DEF r
      <3> QED BY <2>1, <3>1, <3>2 DEF Served
    <2> QED BY <2>2, <2>3
  <1>5. CASE Resend
    <2>1. \A t \in Tasks : task'[t] = task[t] \/ task'[t].req \in stale
      <3>1. PICK f \in [ToResend -> FreeTasks] :
              task' = [t \in Tasks |->
                IF \E r \in ToResend : f[r] = t
                  THEN Queued(CHOOSE r \in ToResend : f[r] = t) ELSE task[t]]
        BY <1>5 DEF Resend
      <3>2. ToResend \subseteq Requests /\ ToResend \subseteq stale
        BY DEF ToResend, Pending
      <3>3. ASSUME NEW t \in Tasks
            PROVE  task'[t] = task[t] \/ \E r \in ToResend : task'[t] = Queued(r)
        <4>1. CASE \E r \in ToResend : f[r] = t BY <3>1, <4>1
        <4>2. CASE ~\E r \in ToResend : f[r] = t BY <3>1, <4>2
        <4> QED BY <4>1, <4>2
      <3> QED BY <3>2, <3>3, QueuedIsFresh
    <2>2. UNCHANGED <<request, bot, stale>> BY <1>5 DEF Resend
    <2> QED BY <2>1, <2>2 DEF Served
  <1> QED
    BY <1>2, <1>3, <1>4, <1>5
    DEF Next, vars, CheckView, CheckPayment, FiveMinutesPass, Midnight

(* The bot in service of an organization is that of a completed request of  *)
(* its own, however the saves of the tasks fail and are retried, unless two *)
(* tasks of the request were sent.                                          *)
THEOREM ServiceOfCompletedRequests == Spec => []ServiceOfCompleted
  <1>1. Init => \A o \in Orgs : Served(o)
    BY DEF Init, Served
  <1>2. Inv /\ (\A o \in Orgs : Served(o)) /\ [Next]_vars => (\A o \in Orgs : Served(o))'
    BY ServedKeeps
  <1>3. (\A o \in Orgs : Served(o)) => ServiceOfCompleted
    BY DEF Served, ServiceOfCompleted
  <1> QED BY <1>1, <1>2, <1>3, SpecInv, PTL DEF Spec
=============================================================================
