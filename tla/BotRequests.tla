---------------------------- MODULE BotRequests -----------------------------
(***************************************************************************)
(* Telegram bots made on request                                           *)
(* (messenger_bots/tasks.py, messenger_bots/services/bot_factory.py,       *)
(* messenger_bots/views.py and the payment of an assistant in              *)
(* transactions/services/transaction_services.py).                         *)
(*                                                                         *)
(* A request for a bot is a row and a Celery task.  The task borrows one    *)
(* of the platform's Telegram accounts (a userbot), has BotFather make a    *)
(* bot and stores its token.  Tasks run in any number of processes at       *)
(* once; a task is acknowledged when it starts, so the process that dies    *)
(* takes it along.  Every five minutes Celery's beat sends the requests     *)
(* that are still pending once more.                                        *)
(***************************************************************************)
EXTENDS Integers, FiniteSets

CONSTANTS
  MaxRequests,  \* bound: requests are 1..MaxRequests, in the order of creation
  Orgs, NoOrg,
  Posts,        \* web requests and payments that ask for a bot
  Userbots, NoUserbot,
  Tasks,        \* bound: task messages that are queued or run at one time
  DailyLimit,   \* bots a userbot may make in a day (20)
  MaxRetries,   \* of a task whose attempt was rate limited (3)
  Batch,        \* stale requests that one beat sends again (10)
  MaxCrashes    \* bound: worker processes that die

ASSUME BotRequestsAssumption ==
  /\ MaxRequests \in Nat /\ DailyLimit \in Nat /\ MaxRetries \in Nat
  /\ Batch \in Nat \ {0} /\ MaxCrashes \in Nat
  /\ NoOrg \notin Orgs /\ NoUserbot \notin Userbots

VARIABLES
  request,  \* BotCreationRequest rows
  stale,    \* requests found pending five minutes after their creation
  post,     \* the organization for which each post has passed the checks
  bot,      \* TelegramBot rows: the request whose token each holds, or 0
  counter,  \* bots_created_today of the userbots
  made,     \* bots that BotFather made for each request
  task,     \* Celery's messages and what the workers hold in memory
  crashes

vars == <<request, stale, post, bot, counter, made, task, crashes>>

Requests == 1..MaxRequests

Statuses == {"absent", "pending", "in_progress", "completed", "failed"}

Task == [pc : {"none", "queued", "loaded", "talking", "made", "saved", "counted"},
         req : Requests \union {0},
         retries : 0..MaxRetries,
         userbot : Userbots \union {NoUserbot},
         count : 0..DailyLimit]   \* bots_created_today as loaded

NoTask == [pc |-> "none", req |-> 0, retries |-> 0, userbot |-> NoUserbot, count |-> 0]

(* No userbot is ever counted beyond its limit, although the counter is    *)
(* read, and written back increased, by processes that do not wait for one *)
(* another.                                                                *)
TypeOK ==
  /\ request \in [Requests -> [status : Statuses, org : Orgs \union {NoOrg}]]
  /\ stale \subseteq Requests
  /\ post \in [Posts -> Orgs \union {NoOrg}]
  /\ bot \in [Orgs -> Requests \union {0}]
  /\ counter \in [Userbots -> 0..DailyLimit]
  /\ made \in [Requests -> Nat]
  /\ task \in [Tasks -> Task]
  /\ crashes \in 0..MaxCrashes

Init ==
  /\ request = [r \in Requests |-> [status |-> "absent", org |-> NoOrg]]
  /\ stale = {}
  /\ post = [p \in Posts |-> NoOrg]
  /\ bot = [o \in Orgs |-> 0]
  /\ counter = [u \in Userbots |-> 0]
  /\ made = [r \in Requests |-> 0]
  /\ task = [t \in Tasks |-> NoTask]
  /\ crashes = 0

-----------------------------------------------------------------------------
Pending == {r \in Requests : request[r].status = "pending"}
Absent == {r \in Requests : request[r].status = "absent"}
FreeTasks == {t \in Tasks : task[t] = NoTask}
Running(t) == task[t].pc \notin {"none", "queued"}

(* Mutant: a userbot at its limit is used. *)
AvailableAtLimit == {u \in Userbots : counter[u] <= DailyLimit}
Available == {u \in Userbots : counter[u] < DailyLimit}

Queued(r) == [NoTask EXCEPT !.pc = "queued", !.req = r]

SetStatus(r, status) == request' = [request EXCEPT ![r].status = status]
End(t) == task' = [task EXCEPT ![t] = NoTask]
Step(t, pc) == task' = [task EXCEPT ![t].pc = pc]

-----------------------------------------------------------------------------
(* Asking for a bot: the checks and the creation of the row are not one     *)
(* step, and nothing locks the organization in between.                     *)

(* TelegramBotAutoCreateAPIView.post refuses while a request is under way.  *)
CheckView(p, o) ==
  /\ post[p] = NoOrg
  /\ bot[o] = 0 /\ Available # {}
  /\ \A r \in Requests : request[r].org = o => request[r].status \notin {"pending", "in_progress"}
  /\ post' = [post EXCEPT ![p] = o]
  /\ UNCHANGED <<request, stale, bot, counter, made, task, crashes>>

(* _create_telegram_bot_after_payment does not look for other requests.    *)
CheckPayment(p, o) ==
  /\ post[p] = NoOrg
  /\ bot[o] = 0 /\ Available # {}
  /\ post' = [post EXCEPT ![p] = o]
  /\ UNCHANGED <<request, stale, bot, counter, made, task, crashes>>

(* The row is committed, then its task is sent, unless the process dies or  *)
(* the broker cannot be reached.                                            *)
Create(p) ==
  /\ post[p] # NoOrg /\ Absent # {}
  /\ LET r == CHOOSE r \in Absent : \A s \in Absent : r <= s IN
       /\ request' = [request EXCEPT ![r] = [status |-> "pending", org |-> post[p]]]
       /\ \/ UNCHANGED task
          \/ \E t \in FreeTasks : task' = [task EXCEPT ![t] = Queued(r)]
  /\ post' = [post EXCEPT ![p] = NoOrg]
  /\ UNCHANGED <<stale, bot, counter, made, crashes>>

-----------------------------------------------------------------------------
(* create_telegram_bot_task *)

(* The request is loaded; one that is completed is left alone. *)
Load(t) ==
  /\ task[t].pc = "queued"
  /\ IF request[task[t].req].status = "completed" THEN End(t) ELSE Step(t, "loaded")
  /\ UNCHANGED <<request, stale, post, bot, counter, made, crashes>>

(* get_available_userbot, the least used first, whose counter starts again  *)
(* when it was last used on an earlier day (days are not modelled);         *)
(* create_bot marks the request as in progress.  Without a userbot the      *)
(* request has failed.                                                      *)
Pick(t) ==
  LET r == task[t].req IN
  /\ task[t].pc = "loaded"
  /\ \/ /\ Available = {}
        /\ SetStatus(r, "failed") /\ End(t)
        /\ UNCHANGED counter
     \/ \E u \in Available : \E count \in {counter[u], 0} :
          /\ \A v \in Available : counter[u] <= counter[v]
          /\ counter' = [counter EXCEPT ![u] = count]
          /\ SetStatus(r, "in_progress")
          /\ task' = [task EXCEPT ![t].pc = "talking", ![t].userbot = u, ![t].count = count]
  /\ UNCHANGED <<stale, post, bot, made, crashes>>

(* BotFather makes the bot and sends its token. *)
Make(t) ==
  /\ task[t].pc = "talking"
  /\ made' = [made EXCEPT ![task[t].req] = @ + 1]
  /\ Step(t, "made")
  /\ UNCHANGED <<request, stale, post, bot, counter, crashes>>

(* It does not: every name is taken, no answer, the time limit.  The task  *)
(* is sent again only when BotFather asks to try again later.              *)
Refuse(t) ==
  /\ task[t].pc = "talking"
  /\ SetStatus(task[t].req, "failed")
  /\ \/ End(t)
     \/ /\ task[t].retries < MaxRetries
        /\ task' = [task EXCEPT ![t] = [Queued(task[t].req) EXCEPT !.retries = task[t].retries + 1]]
  /\ UNCHANGED <<stale, post, bot, counter, made, crashes>>

(* Mutant: the attempt that made the bot is also taken for rate limited.   *)
CompleteAndRetry(t) ==
  /\ task[t].pc = "made"
  /\ SetStatus(task[t].req, "failed")
  /\ task' = [task EXCEPT ![t] = Queued(task[t].req)]
  /\ UNCHANGED <<stale, post, bot, counter, made, crashes>>

(* Mutant: the request is not marked as completed. *)
CompleteNothing(t) ==
  /\ task[t].pc = "made"
  /\ Step(t, "saved")
  /\ UNCHANGED <<request, stale, post, bot, counter, made, crashes>>

Complete(t) ==
  /\ task[t].pc = "made"
  /\ SetStatus(task[t].req, "completed")
  /\ Step(t, "saved")
  /\ UNCHANGED <<stale, post, bot, counter, made, crashes>>

(* The userbot's counter is written back as it was loaded, plus one. *)
Count(t) ==
  /\ task[t].pc = "saved"
  /\ counter' = [counter EXCEPT ![task[t].userbot] = task[t].count + 1]
  /\ Step(t, "counted")
  /\ UNCHANGED <<request, stale, post, bot, made, crashes>>

(* Mutant: the task goes on although the counter was not saved. *)
SaveFailsUnnoticed(t) ==
  /\ task[t].pc \in {"made", "saved"}
  /\ SetStatus(task[t].req, "failed")
  /\ Step(t, "counted")
  /\ UNCHANGED <<stale, post, bot, counter, made, crashes>>

(* One of the two saves fails: the except of the same try fails the request, *)
(* the completed one as well.  What the database says is not taken for a    *)
(* limit of rate.                                                           *)
SaveFails(t) ==
  /\ task[t].pc \in {"made", "saved"}
  /\ SetStatus(task[t].req, "failed")
  /\ End(t)
  /\ UNCHANGED <<stale, post, bot, counter, made, crashes>>

(* TelegramBot.objects.update_or_create(organization); its failure is only   *)
(* logged.                                                                 *)
SetUp(t) ==
  /\ task[t].pc = "counted"
  /\ UNCHANGED bot \/ bot' = [bot EXCEPT ![request[task[t].req].org] = task[t].req]
  /\ End(t)
  /\ UNCHANGED <<request, stale, post, counter, made, crashes>>

(* The worker's process dies with the task. *)
Crash(t) ==
  /\ Running(t) /\ crashes < MaxCrashes
  /\ crashes' = crashes + 1
  /\ End(t)
  /\ UNCHANGED <<request, stale, post, bot, counter, made>>

-----------------------------------------------------------------------------
(* Celery's beat *)

FiveMinutesPass(r) ==
  /\ r \in Pending \ stale
  /\ stale' = stale \union {r}
  /\ UNCHANGED <<request, post, bot, counter, made, task, crashes>>

(* Mutant: the requests in progress are taken for the ones left behind. *)
ToResendOthers == {r \in stale : request[r].status = "in_progress"}

(* The newest first: the model orders the rows by -created_at. *)
ToResend ==
  LET waiting == Pending \intersect stale
  IN  {r \in waiting : Cardinality({s \in waiting : s > r}) < Batch}

(* check_pending_bot_requests; whether an earlier task of the request is   *)
(* queued or runs is not looked at.                                        *)
Resend ==
  /\ ToResend # {}
  /\ \E f \in [ToResend -> FreeTasks] :
       /\ \A r, s \in ToResend : f[r] = f[s] => r = s
       /\ task' = [t \in Tasks |->
            IF \E r \in ToResend : f[r] = t
              THEN Queued(CHOOSE r \in ToResend : f[r] = t) ELSE task[t]]
  /\ UNCHANGED <<request, stale, post, bot, counter, made, crashes>>

(* reset_userbot_daily_counters *)
Midnight ==
  /\ \E u \in Userbots : counter[u] > 0
  /\ counter' = [u \in Userbots |-> 0]
  /\ UNCHANGED <<request, stale, post, bot, made, task, crashes>>

-----------------------------------------------------------------------------
Work(t) ==
  \/ Load(t) \/ Pick(t) \/ Make(t) \/ Refuse(t)
  \/ Complete(t) \/ Count(t) \/ SaveFails(t) \/ SetUp(t)

Next ==
  \/ \E p \in Posts, o \in Orgs : CheckView(p, o) \/ CheckPayment(p, o)
  \/ \E p \in Posts : Create(p)
  \/ \E t \in Tasks : Work(t) \/ Crash(t)
  \/ \E r \in Requests : FiveMinutesPass(r)
  \/ Resend \/ Midnight

Spec == Init /\ [][Next]_vars

(* Workers take the queued tasks and go on with them, beat ticks, and time  *)
(* passes.  Nobody has to ask for a bot, nothing has to crash.              *)
Fairness ==
  /\ \A t \in Tasks : WF_vars(Work(t))
  /\ \A r \in Requests : WF_vars(FiveMinutesPass(r))
  /\ WF_vars(Resend)

FairSpec == Spec /\ Fairness

-----------------------------------------------------------------------------
(* Properties *)

(* Retries alone never make a second bot for a request: that takes a        *)
(* request that was still pending after five minutes, whose first task and  *)
(* the beat's both find it not completed.                                   *)
SecondBotOnlyWhenStale ==
  \A r \in Requests : made[r] > 1 => r \in stale

(* The bot in service of an organization is that of a completed request of  *)
(* its own, however its saves fail and are retried, unless two tasks of the *)
(* request were sent.  (The converse does not hold: a save that fails after *)
(* BotFather made the bot leaves a failed request, and no bot in service.)  *)
ServiceOfCompleted ==
  \A o \in Orgs :
    bot[o] # 0 /\ bot[o] \notin stale =>
      request[bot[o]].status = "completed" /\ request[bot[o]].org = o

(* A request is taken up, even when its task was never sent, or the worker  *)
(* that had just taken it died: the beat sends it again.                    *)
TakenUp ==
  \A r \in Requests : request[r].status = "pending" ~> request[r].status # "pending"

(* As long as no worker dies, every request ends as completed or failed.    *)
(* One whose worker died is left in progress for ever, and the view         *)
(* refuses the organization's next requests for it.                         *)
Settles ==
  \A r \in Requests :
    <>[](request[r].status \in {"absent", "completed", "failed"} \/ crashes > 0)
=============================================================================
