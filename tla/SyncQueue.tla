----------------------------- MODULE SyncQueue -----------------------------
(***************************************************************************)
(* Who runs the passes of CatalogPass.  Two schedulers tick every minute   *)
(* and put a job into the BullMQ queue sync-stock when the tenant's        *)
(* lastSyncAt, which they share, is old enough; a worker executes one job  *)
(* at a time and retries a failed one; users add jobs (POST sync/stock) or *)
(* run a pass in their HTTP request (POST sync/prices-stocks); the         *)
(* administrator retries failed jobs.  One tenant.                         *)
(***************************************************************************)
EXTENDS CatalogPass

CONSTANTS
  Workers,      \* executions of StockSyncProcessor that BullMQ could start
  Requests,     \* HTTP requests for a pass
  Scheduled,    \* the platforms with automatic synchronization
  Interval,     \* of each of them, in minutes (15)
  MaxAttempts,  \* attempts of a job (3)
  KeepFailed,   \* failed jobs the queue keeps (50)
  MaxJobs,      \* bound: jobs in the queue
  MaxAdded,     \* bound: jobs added or retried by hand
  Limits        \* the limits asked for by requests, 0 for none

Queued == {"prom", "horoshop"}

ASSUME QueueAssumption ==
  /\ Runners = Workers \cup Requests /\ Workers \cap Requests = {}
  /\ Scheduled \subseteq Queued
  /\ Interval \in [Scheduled -> Nat \ {0}]
  /\ MaxAttempts \in Nat \ {0} /\ KeepFailed \in Nat \ {0} /\ MaxJobs \in Nat \ {0}
  /\ MaxAdded \in Nat /\ Limits \subseteq Nat

VARIABLES
  age,      \* minutes since tenant.lastSyncAt, capped at Longest
  timer,    \* whether the minute timer of a scheduler has run out
  tick,     \* the step of a scheduler's tick
  seen,     \* the age in the tick's copy of the tenant
  waiting, delayed, failed,  \* jobs of the queue, oldest first
  active,   \* the job of each worker
  added     \* jobs that may still be added by hand

schedVars == <<age, timer, tick, seen>>
jobVars == <<waiting, delayed, failed, active, added>>
vars == <<passVars, schedVars, jobVars>>

Longest == Max({Interval[s] : s \in Scheduled} \cup {0})
Jobs == [platform : Platforms, limit : Limits \cup {0}, tries : 0..MaxAttempts, stalled : BOOLEAN]
NoJob == [platform |-> None, limit |-> 0, tries |-> 0, stalled |-> FALSE]
NewJob(p, limit) == [NoJob EXCEPT !.platform = p, !.limit = limit]

Init ==
  /\ PassInit
  /\ age = 0
  /\ timer = [s \in Scheduled |-> TRUE]
  /\ tick = [s \in Scheduled |-> "idle"]
  /\ seen = [s \in Scheduled |-> 0]
  /\ waiting = <<>> /\ delayed = <<>> /\ failed = <<>>
  /\ active = [w \in Workers |-> NoJob]
  /\ added = MaxAdded

InQueue == Len(waiting) + Len(delayed) + Cardinality({w \in Workers : active[w] # NoJob})

(* triggerStockSync: no jobId, so nothing merges equal jobs.                *)
Enqueue(p, limit) ==
  /\ InQueue < MaxJobs
  /\ waiting' = Append(waiting, NewJob(p, limit))

-----------------------------------------------------------------------------
(* The schedulers.                                                          *)

Older(a) == Min({a + 1, Longest})

Minute ==
  /\ \A s \in Scheduled : ~timer[s]
  /\ age' = Older(age)
  /\ seen' = [s \in Scheduled |-> IF tick[s] = "due" THEN Older(seen[s]) ELSE seen[s]]
  /\ timer' = [s \in Scheduled |-> TRUE]
  /\ UNCHANGED <<passVars, tick, jobVars>>

(* handleCronTick reads the tenants, unless the last tick still runs.       *)
CronTick(s) ==
  /\ timer[s]
  /\ timer' = [timer EXCEPT ![s] = FALSE]
  /\ \/ /\ tick[s] = "idle" /\ left' = left
        /\ tick' = [tick EXCEPT ![s] = "due"]
        /\ seen' = [seen EXCEPT ![s] = age]
     \/ /\ IF tick[s] # "idle" THEN left' = left ELSE Event("query")
        /\ UNCHANGED <<tick, seen>>
  /\ UNCHANGED <<goodsVars, shop, synced, pass, age, jobVars>>

ProcessTenantNoFinally(s) ==  \* mutant: isTickRunning is not reset after an error
  /\ tick[s] = "due"
  /\ seen' = [seen EXCEPT ![s] = 0]
  /\ \/ /\ seen[s] >= Interval[s]
        /\ Enqueue(s, 0)
        /\ tick' = [tick EXCEPT ![s] = IF s = "horoshop" THEN "stamp" ELSE "orders"]
        /\ left' = left
     \/ /\ IF seen[s] < Interval[s] THEN left' = left ELSE Event("query")
        /\ tick' = [tick EXCEPT ![s] = IF seen[s] < Interval[s] THEN "orders" ELSE "stuck"]
        /\ UNCHANGED waiting
  /\ UNCHANGED <<goodsVars, shop, synced, pass, age, timer, delayed, failed, active, added>>

(* processTenant: enqueues a job when it is time.  An error is caught.      *)
ProcessTenant(s) ==
  /\ tick[s] = "due"
  /\ seen' = [seen EXCEPT ![s] = 0]
  /\ \/ /\ seen[s] >= Interval[s]
        /\ Enqueue(s, 0)
        /\ tick' = [tick EXCEPT ![s] = IF s = "horoshop" THEN "stamp" ELSE "orders"]
        /\ left' = left
     \/ /\ IF seen[s] < Interval[s] THEN left' = left ELSE Event("query")
        /\ tick' = [tick EXCEPT ![s] = "orders"]
        /\ UNCHANGED waiting
  /\ UNCHANGED <<goodsVars, shop, synced, pass, age, timer, delayed, failed, active, added>>

(* Horoshop's scheduler writes lastSyncAt as soon as the job is queued;     *)
(* Prom's leaves that to the worker.                                        *)
StampTick(s) ==
  /\ tick[s] = "stamp"
  /\ tick' = [tick EXCEPT ![s] = "orders"]
  /\ \/ age' = 0 /\ left' = left
     \/ Event("query") /\ UNCHANGED age
  /\ UNCHANGED <<goodsVars, shop, synced, pass, timer, seen, jobVars>>

(* The poll of the orders, every 15 minutes (see OrderIntake), and the end. *)
EndTick(s) ==
  /\ tick[s] = "orders"
  /\ tick' = [tick EXCEPT ![s] = "idle"]
  /\ UNCHANGED <<passVars, age, timer, seen, jobVars>>

-----------------------------------------------------------------------------
(* The worker.                                                              *)

(* process: the job's pass begins.  A job of another platform reads all the *)
(* pages and sends none, and an empty catalogue has none.                   *)
Execute(w, job) ==
  IF job.platform \notin Queued \/ catalog = {}
  THEN pass' = [pass EXCEPT ![w].pc = "finish"]
  ELSE BeginPass(w, job.platform, job.limit)

TakeJobConcurrently(w) ==  \* mutant: @Processor with a concurrency of 2
  /\ pass[w].pc = "idle" /\ waiting # <<>>
  /\ active' = [active EXCEPT ![w] = Head(waiting)]
  /\ waiting' = Tail(waiting)
  /\ Execute(w, Head(waiting))
  /\ UNCHANGED <<goodsVars, shop, synced, left, schedVars, delayed, failed, added>>

(* BullMQ's default concurrency is 1: no worker executes a job.             *)
TakeJob(w) ==
  /\ \A v \in Workers : pass[v].pc = "idle"
  /\ waiting # <<>>
  /\ active' = [active EXCEPT ![w] = Head(waiting)]
  /\ waiting' = Tail(waiting)
  /\ Execute(w, Head(waiting))
  /\ UNCHANGED <<goodsVars, shop, synced, left, schedVars, delayed, failed, added>>

Leave(r) == pass' = [pass EXCEPT ![r] = [NoPass EXCEPT !.pc =
                                           IF r \in Workers THEN "idle" ELSE "done"]]

(* The pass of a job writes lastSyncAt when it ends, even if every request  *)
(* failed.                                                                  *)
StampPass(w) ==
  /\ w \in Workers /\ pass[w].pc = "end"
  /\ age' = IF pass[w].platform \in Queued THEN 0 ELSE age
  /\ pass' = [pass EXCEPT ![w].pc = "finish"]
  /\ UNCHANGED <<goodsVars, shop, synced, left, timer, tick, seen, jobVars>>

(* process writes it again, and the job is completed.                       *)
FinishJob(w) ==
  /\ w \in Workers /\ pass[w].pc = "finish"
  /\ age' = 0
  /\ active' = [active EXCEPT ![w] = NoJob]
  /\ Leave(w)
  /\ UNCHANGED <<goodsVars, shop, synced, left, timer, tick, seen, waiting, delayed, failed, added>>

Keep(s, job) == LET t == Append(s, job) IN IF Len(t) > KeepFailed THEN Tail(t) ELSE t

(* A query fails: the pass throws, before or after it wrote lastSyncAt.     *)
Throw(r) ==
  /\ Event("query")
  /\ \/ pass[r].pc \in {"page", "finish"} /\ age' = age
     \/ pass[r].pc = "end" /\ pass[r].platform \in Queued /\ age' \in {age, 0}
  /\ Leave(r)

(* process throws too, and BullMQ delays the job (exponential backoff)      *)
(* unless this was its last attempt.                                        *)
FailJob(w) ==
  /\ w \in Workers /\ Throw(w)
  /\ LET job == [active[w] EXCEPT !.tries = Min({@ + 1, MaxAttempts})]
     IN IF job.tries < MaxAttempts
        THEN delayed' = Append(delayed, job) /\ UNCHANGED failed
        ELSE failed' = Keep(failed, job) /\ UNCHANGED delayed
  /\ active' = [active EXCEPT ![w] = NoJob]
  /\ UNCHANGED <<goodsVars, shop, synced, timer, tick, seen, waiting, added>>

Backoff ==
  /\ delayed # <<>>
  /\ waiting' = Append(waiting, Head(delayed))
  /\ delayed' = Tail(delayed)
  /\ UNCHANGED <<passVars, schedVars, failed, active, added>>

-----------------------------------------------------------------------------
(* Users.                                                                   *)

ByHand == added > 0 /\ added' = added - 1

(* POST /sync/:tenantId/stock, and sync/prices-stocks?async=true.           *)
TriggerStockSync(p) ==
  /\ ByHand
  /\ \E limit \in Limits : (p \notin Queued => limit = 0) /\ Enqueue(p, limit)
  /\ UNCHANGED <<passVars, schedVars, delayed, failed, active>>

(* retryFailedJobs: job.retry() for every failed job, the newest first; its *)
(* attempts are not forgotten, so it has one more.                          *)
RetryFailedJobs ==
  /\ ByHand
  /\ failed # <<>> /\ InQueue + Len(failed) <= MaxJobs
  /\ waiting' = waiting \o Reverse(failed)
  /\ failed' = <<>>
  /\ UNCHANGED <<passVars, schedVars, delayed, active>>

(* Without async=true the pass runs in the HTTP request, WooCommerce's also *)
(* after its answer; Rozetka's call takes no limit.                         *)
RequestPass(q, p, limit) ==
  /\ q \in Requests /\ pass[q].pc = "idle"
  /\ BeginPass(q, p, limit)
  /\ UNCHANGED <<goodsVars, shop, synced, left, schedVars, jobVars>>

HoroshopPricesStocks(q) == \E limit \in Limits : RequestPass(q, "horoshop", limit)
PromPricesStocks(q) == \E limit \in Limits : RequestPass(q, "prom", limit)
WooCatalog(q) == \E limit \in Limits : RequestPass(q, "woocommerce", limit)
RozetkaPricesStocks(q) == RequestPass(q, "rozetka", 0)

SyncPricesStocks(q) ==
  \/ HoroshopPricesStocks(q) \/ PromPricesStocks(q) \/ WooCatalog(q) \/ RozetkaPricesStocks(q)

(* So does a pass in a request, to the shops that have a scheduler; ...     *)
EndRequest(q) ==
  /\ q \in Requests /\ pass[q].pc = "end" /\ pass[q].platform \in Queued
  /\ age' = 0
  /\ Leave(q)
  /\ UNCHANGED <<goodsVars, shop, synced, left, timer, tick, seen, jobVars>>

(* ... WooCommerce's and Rozetka's only answer.                             *)
EndUnstamped(q) ==
  /\ q \in Requests /\ pass[q].pc = "end" /\ pass[q].platform \notin Queued
  /\ Leave(q)
  /\ UNCHANGED <<goodsVars, shop, synced, left, schedVars, jobVars>>

(* A query fails: the answer is a 500.                                      *)
FailRequest(q) ==
  /\ q \in Requests /\ Throw(q)
  /\ UNCHANGED <<goodsVars, shop, synced, timer, tick, seen, jobVars>>

-----------------------------------------------------------------------------
(* The process restarts.  BullMQ finds the active job stalled: it waits     *)
(* again the first time, and fails the second.                              *)
Crash ==
  /\ Event("crash")
  /\ pass' = [r \in Runners |->
               [NoPass EXCEPT !.pc = IF r \in Workers \/ pass[r].pc = "idle" THEN "idle" ELSE "done"]]
  /\ LET lost == SetToSeq({active[w] : w \in Workers} \ {NoJob})
         again == SelectSeq(lost, LAMBDA x : ~x.stalled)
     IN /\ waiting' = [j \in DOMAIN again |-> [again[j] EXCEPT !.stalled = TRUE]] \o waiting
        /\ failed' = FoldLeft(Keep, failed, SelectSeq(lost, LAMBDA x : x.stalled))
  /\ active' = [w \in Workers |-> NoJob]
  /\ timer' = [s \in Scheduled |-> TRUE]
  /\ tick' = [s \in Scheduled |-> "idle"]
  /\ seen' = [s \in Scheduled |-> 0]
  /\ UNCHANGED <<goodsVars, shop, synced, age, delayed, added>>

-----------------------------------------------------------------------------
PassStep(r) == (ReadPage(r) \/ SendPage(r) \/ FailPage(r)) /\ UNCHANGED <<schedVars, jobVars>>

WorkerStep(w) == TakeJob(w) \/ PassStep(w) \/ StampPass(w) \/ FinishJob(w)
TickStep(s) == CronTick(s) \/ ProcessTenant(s) \/ StampTick(s) \/ EndTick(s)

Next ==
  \/ Minute
  \/ \E s \in Scheduled : TickStep(s)
  \/ \E w \in Workers : WorkerStep(w) \/ FailJob(w)
  \/ Backoff
  \/ \E p \in Platforms : TriggerStockSync(p)
  \/ RetryFailedJobs
  \/ \E q \in Requests :
       \/ SyncPricesStocks(q) \/ PassStep(q)
       \/ EndRequest(q) \/ EndUnstamped(q) \/ FailRequest(q)
  \/ \E i \in Products : (MoveStock(i) \/ ChangeCatalog(i)) /\ UNCHANGED <<schedVars, jobVars>>
  \/ Crash

Spec == Init /\ [][Next]_vars

(* Time passes, timers fire, the event loop runs what it has started, and   *)
(* Redis hands out the jobs; nobody has to press a button.                  *)
FairSpec ==
  /\ Spec
  /\ WF_vars(Minute) /\ WF_vars(Backoff)
  /\ \A s \in Scheduled : /\ WF_vars(CronTick(s)) /\ WF_vars(ProcessTenant(s))
                          /\ WF_vars(StampTick(s)) /\ WF_vars(EndTick(s))
  /\ \A w \in Workers : WF_vars(WorkerStep(w))

-----------------------------------------------------------------------------
(* A shop never goes back to older stock, unless a pass in an HTTP request  *)
(* overlaps another one to the same shop: jobs run one at a time, and a     *)
(* retry reads its pages again (process, syncPricesAndStocks).              *)
NoStaleOverwrite ==
  [][\A p \in Platforms : \A i \in Products :
       shop'[p][i] < shop[p][i] =>
         \E r \in Runners : /\ pass[r].platform = p
                            /\ pass[r].overlapped # {}
                            /\ ({r} \cup pass[r].overlapped) \cap Requests # {}]_vars

(* Stock reaches every shop that is synchronized automatically, and stays   *)
(* right when it moves no more: through failing requests and queries and a  *)
(* restart (schedulers, queue and passes together).                         *)
ShopConverges ==
  \A p \in Scheduled : \A i \in Products :
    <>[](i \in catalog \ Unlisted[p] => shop[p][i] = stock[i])
=============================================================================
