-------------------------- MODULE SyncQueue_proofs --------------------------
(* Theorems about the passes and the queue: for any number of workers,       *)
(* requests, products, jobs, failures and restarts.  Every step either       *)
(* begins a pass, goes on with one, or is quiet: the passes are as they were *)
(* or over.  That a pass is complete rests on the ranks of the products:     *)
(* they number the catalogue without gaps, so that a page which is empty or  *)
(* short is the last one.                                                    *)
EXTENDS SyncQueue, FiniteSetTheorems, FunctionTheorems, TLAPS

-----------------------------------------------------------------------------
(* What a step does to a pass.                                               *)

IsPass(ps) ==
  ps = [pc |-> ps.pc, platform |-> ps.platform, target |-> ps.target, page |-> ps.page,
        processed |-> ps.processed, items |-> ps.items, short |-> ps.short, tried |-> ps.tried,
        again |-> ps.again, disturbed |-> ps.disturbed, overlapped |-> ps.overlapped]

InPass == {"page", "send", "end"}

(* The pass goes on as it was, though another one may have begun.            *)
Same(old, new) ==
  /\ new.pc = old.pc /\ new.platform = old.platform /\ new.items = old.items
  /\ old.overlapped \subseteq new.overlapped

(* It is over, or nobody runs one.                                           *)
Off(old, new) == new.pc \notin InPass /\ (old.pc = "idle" => new.pc = "idle")

(* Nobody begins a pass, reads a page or sends one.                          *)
Quiet ==
  /\ \A r \in Runners :
       /\ IsPass(pass'[r]) /\ (Same(pass[r], pass'[r]) \/ Off(pass[r], pass'[r]))
       /\ r \in Workers /\ pass[r].pc = "idle" => pass'[r].pc = "idle"
  /\ UNCHANGED <<shop, synced>>

(* Runner r begins, and no two workers have work.                            *)
Begins(r) ==
  /\ pass[r].pc = "idle" /\ IsPass(pass'[r]) /\ pass'[r].pc \in {"page", "end", "finish"}
  /\ r \in Workers => \A w \in Workers : pass[w].pc = "idle"
  /\ pass'[r].pc # "finish" =>
       /\ pass'[r].platform \in Platforms
       /\ \A q \in Runners \ {r} : Running(q) /\ pass[q].platform = pass'[r].platform =>
            q \in pass'[r].overlapped /\ r \in pass'[q].overlapped
  /\ \A q \in Runners \ {r} : IsPass(pass'[q]) /\ Same(pass[q], pass'[q])
  /\ UNCHANGED <<stock, shop, synced>>

(* Runner r goes on with its pass.                                           *)
Goes(r) ==
  /\ pass[r].pc \in {"page", "send"} /\ IsPass(pass'[r]) /\ pass'[r].pc \in InPass
  /\ pass'[r].platform = pass[r].platform /\ pass'[r].overlapped = pass[r].overlapped
  /\ pass'[r].pc = "send" =>
       \A i \in DOMAIN pass'[r].items : pass'[r].items[i] = stock[i]
  /\ \A q \in Runners \ {r} : pass'[q] = pass[q]
  /\ UNCHANGED <<stock>>
  /\ \/ UNCHANGED <<shop, synced>>
     \/ /\ pass[r].pc = "send"
        /\ shop' = [shop EXCEPT ![pass[r].platform] =
             [i \in Products |-> IF i \in Accepted(pass[r]) THEN pass[r].items[i] ELSE @[i]]]
        /\ \E saved : synced' = [synced EXCEPT ![pass[r].platform] =
                                   (@ \ saved) \cup (saved \cap Confirmed(pass[r]))]

Shape ==
  /\ DOMAIN pass = Runners /\ \A r \in Runners : IsPass(pass[r])
  /\ catalog \subseteq Products /\ stock \in [Products -> Nat]

LEMMA NoPassIs == IsPass(NoPass) /\ NoPass.pc = "idle"
  BY DEF NoPass, IsPass

LEMMA LeaveFacts ==
  ASSUME Shape, NEW r \in Runners, Leave(r)
  PROVE  /\ \A q \in Runners \ {r} : pass'[q] = pass[q]
         /\ IsPass(pass'[r]) /\ pass'[r].pc = IF r \in Workers THEN "idle" ELSE "done"
         /\ DOMAIN pass' = Runners
  <1>1. PICK pc : pc = IF r \in Workers THEN "idle" ELSE "done"
    OBVIOUS
  <1>2. PICK ps : ps = [NoPass EXCEPT !.pc = pc]
    OBVIOUS
  <1>3. IsPass(ps) /\ ps.pc = pc
    BY <1>2 DEF NoPass, IsPass
  <1>4. pass' = [pass EXCEPT ![r] = ps]
    BY <1>1, <1>2 DEF Leave
  <1> QED BY <1>1, <1>3, <1>4 DEF Shape

(* The one pass that changes its pc.                                         *)
LEMMA StepFacts ==
  ASSUME Shape, NEW r \in Runners, NEW pc, pass' = [pass EXCEPT ![r].pc = pc]
  PROVE  /\ \A q \in Runners \ {r} : pass'[q] = pass[q]
         /\ IsPass(pass'[r]) /\ pass'[r].pc = pc /\ DOMAIN pass' = Runners
         /\ pass'[r].platform = pass[r].platform /\ pass'[r].items = pass[r].items
         /\ pass'[r].overlapped = pass[r].overlapped
  <1>1. PICK old : old = pass[r]
    OBVIOUS
  <1>2. PICK ps : ps = [old EXCEPT !.pc = pc]
    OBVIOUS
  <1>3. IsPass(old)
    BY <1>1 DEF Shape
  <1>4. /\ IsPass(ps) /\ ps.pc = pc /\ ps.platform = old.platform /\ ps.items = old.items
        /\ ps.overlapped = old.overlapped
    BY <1>2, <1>3 DEF IsPass
  <1>5. pass' = [pass EXCEPT ![r] = ps]
    BY <1>1, <1>2
  <1> QED BY <1>1, <1>4, <1>5 DEF Shape

LEMMA BeginFacts ==
  ASSUME Shape, NEW r \in Runners, NEW p \in Platforms, NEW limit, pass[r].pc = "idle",
         r \in Workers => \A w \in Workers : pass[w].pc = "idle",
         BeginPass(r, p, limit), UNCHANGED <<stock, shop, synced>>
  PROVE  Begins(r) /\ DOMAIN pass' = Runners
  <1>1. PICK others : others = {q \in Runners \ {r} : Running(q) /\ pass[q].platform = p}
    OBVIOUS
  <1>2. PICK target : target = IF p \notin Counted THEN limit
                               ELSE IF limit = 0 THEN Cardinality(catalog)
                               ELSE Min({limit, Cardinality(catalog)})
    OBVIOUS
  <1>3. PICK pc : pc = IF p \in Counted /\ target = 0 THEN "end" ELSE "page"
    OBVIOUS
  <1>4. PICK ps : ps = [NoPass EXCEPT !.pc = pc, !.platform = p, !.target = target,
                                      !.overlapped = others]
    OBVIOUS
  <1>5. IsPass(ps) /\ ps.pc = pc /\ ps.platform = p /\ ps.overlapped = others
    BY <1>4 DEF NoPass, IsPass
  <1>6. pass' = [q \in Runners |-> IF q = r THEN ps
          ELSE [pass[q] EXCEPT !.overlapped = IF q \in others THEN @ \cup {r} ELSE @]]
    BY <1>1, <1>2, <1>3, <1>4 DEF BeginPass
  <1>7. ASSUME NEW q \in Runners \ {r}
        PROVE  /\ IsPass(pass'[q]) /\ Same(pass[q], pass'[q])
               /\ q \in others => r \in pass'[q].overlapped
    <2>1. PICK old : old = pass[q]
      OBVIOUS
    <2>2. PICK over : over = IF q \in others THEN old.overlapped \cup {r} ELSE old.overlapped
      OBVIOUS
    <2>3. pass'[q] = [old EXCEPT !.overlapped = over]
      BY <1>6, <2>1, <2>2
    <2>4. IsPass(old)
      BY <2>1 DEF Shape
    <2>5. /\ IsPass([old EXCEPT !.overlapped = over]) /\ Same(old, [old EXCEPT !.overlapped = over])
          /\ q \in others => r \in [old EXCEPT !.overlapped = over].overlapped
      BY <2>2, <2>4 DEF IsPass, Same
    <2> QED BY <2>1, <2>3, <2>5
  <1>8. pass'[r] = ps /\ DOMAIN pass' = Runners
    BY <1>6
  <1> QED BY <1>1, <1>3, <1>5, <1>7, <1>8 DEF Begins

LEMMA ReadFacts ==
  ASSUME Shape, NEW r \in Runners, ReadPage(r)
  PROVE  Goes(r) /\ DOMAIN pass' = Runners
  <1>1. PICK items : items = Page(pass[r])
    OBVIOUS
  <1>2. PICK pc : pc = IF items = {} THEN "end" ELSE "send"
    OBVIOUS
  <1>3. PICK short : short = (Cardinality(items) < Size(pass[r]))
    OBVIOUS
  <1>4. PICK old : old = pass[r]
    OBVIOUS
  <1>5. PICK f : f = [i \in items |-> stock[i]]
    OBVIOUS
  <1>6. PICK ps : ps = [old EXCEPT !.pc = pc, !.items = f, !.short = short]
    OBVIOUS
  <1>7. pass' = [pass EXCEPT ![r].pc = pc, ![r].items = f, ![r].short = short]
    BY <1>1, <1>2, <1>3, <1>5 DEF ReadPage
  <1>8. pass' = [pass EXCEPT ![r] = ps]
    BY <1>4, <1>6, <1>7 DEF Shape
  <1>9. IsPass(old)
    BY <1>4 DEF Shape
  <1>10. /\ IsPass(ps) /\ ps.pc = pc /\ ps.platform = old.platform /\ ps.items = f
         /\ ps.overlapped = old.overlapped
    BY <1>6, <1>9 DEF IsPass
  <1>11. pass'[r] = ps /\ DOMAIN pass' = Runners /\ \A q \in Runners \ {r} : pass'[q] = pass[q]
    BY <1>8 DEF Shape
  <1>12. pc \in {"end", "send"} /\ pass[r].pc = "page" /\ UNCHANGED <<stock, shop, synced>>
    BY <1>2 DEF ReadPage, goodsVars
  <1>13. \A i \in DOMAIN ps.items : ps.items[i] = stock[i]
    BY <1>5, <1>10
  <1> QED BY <1>4, <1>10, <1>11, <1>12, <1>13 DEF Goes, InPass

LEMMA NextPageFacts ==
  ASSUME NEW ps, IsPass(ps), NEW ok
  PROVE  /\ IsPass(NextPage(ps, ok)) /\ NextPage(ps, ok).pc \in {"page", "end"}
         /\ NextPage(ps, ok).platform = ps.platform
         /\ NextPage(ps, ok).overlapped = ps.overlapped
  <1>1. PICK n : n = ps.page + 1
    OBVIOUS
  <1>2. PICK c : c = Processed(ps, ok)
    OBVIOUS
  <1>3. PICK a : a = (ps.again \/ ps.tried \cap DOMAIN ps.items # {})
    OBVIOUS
  <1>4. PICK t : t = ps.tried \cup DOMAIN ps.items
    OBVIOUS
  <1>5. PICK next : next = [ps EXCEPT !.page = n, !.processed = c, !.items = <<>>,
                                      !.again = a, !.tried = t]
    OBVIOUS
  <1>6. IsPass(next) /\ next.platform = ps.platform /\ next.overlapped = ps.overlapped
    BY <1>5 DEF IsPass
  <1>7. PICK pc : pc = IF More(next) THEN "page" ELSE "end"
    OBVIOUS
  <1>8. NextPage(ps, ok) = [next EXCEPT !.pc = pc]
    BY <1>1, <1>2, <1>3, <1>4, <1>5, <1>7 DEF NextPage
  <1> QED BY <1>6, <1>7, <1>8 DEF IsPass

LEMMA SendFacts ==
  ASSUME Shape, NEW r \in Runners, SendPage(r) \/ FailPage(r)
  PROVE  Goes(r) /\ DOMAIN pass' = Runners
  <1>1. PICK ps : ps = pass[r]
    OBVIOUS
  <1>2. IsPass(ps) /\ ps.pc = "send"
    BY <1>1 DEF Shape, SendPage, FailPage
  <1>3. PICK ok : pass' = [pass EXCEPT ![r] = NextPage(ps, ok)]
    BY <1>1 DEF SendPage, FailPage
  <1>4. /\ IsPass(pass'[r]) /\ pass'[r].pc \in {"page", "end"}
        /\ pass'[r].platform = ps.platform /\ pass'[r].overlapped = ps.overlapped
        /\ DOMAIN pass' = Runners /\ \A q \in Runners \ {r} : pass'[q] = pass[q]
    BY <1>2, <1>3, NextPageFacts DEF Shape
  <1>5. stock' = stock
    BY DEF SendPage, FailPage, goodsVars
  <1>6. CASE SendPage(r)
    <2>1. shop' = [shop EXCEPT ![ps.platform] =
             [i \in Products |-> IF i \in Accepted(ps) THEN ps.items[i] ELSE @[i]]]
      BY <1>1, <1>6 DEF SendPage
    <2>2. \E saved : synced' = [synced EXCEPT ![ps.platform] =
                                   (@ \ saved) \cup (saved \cap Confirmed(ps))]
      BY <1>1, <1>6 DEF SendPage, SaveMappings
    <2> QED BY <1>1, <1>2, <1>4, <1>5, <2>1, <2>2 DEF Goes, InPass
  <1>7. CASE FailPage(r)
    <2>1. UNCHANGED <<shop, synced>>
      BY <1>7 DEF FailPage
    <2> QED BY <1>1, <1>2, <1>4, <1>5, <2>1 DEF Goes, InPass
  <1> QED BY <1>6, <1>7

LEMMA RunnersAre == Workers \subseteq Runners /\ Requests \subseteq Runners
                      /\ Workers \cap Requests = {} /\ Queued \subseteq Platforms
  BY QueueAssumption DEF QueueAssumption, Queued, Platforms

(* Who touches no pass.                                                      *)
LEMMA IdleSteps ==
  ASSUME Shape, UNCHANGED <<pass, shop, synced>>
  PROVE  Quiet /\ DOMAIN pass' = Runners
  BY DEF Quiet, Same, Shape

LEMMA LeaveQuiet ==
  ASSUME Shape, NEW r \in Runners, Leave(r), pass[r].pc # "idle", UNCHANGED <<shop, synced>>
  PROVE  Quiet /\ DOMAIN pass' = Runners
  <1>1. /\ \A q \in Runners \ {r} : pass'[q] = pass[q]
        /\ IsPass(pass'[r]) /\ pass'[r].pc = IF r \in Workers THEN "idle" ELSE "done"
        /\ DOMAIN pass' = Runners
    BY LeaveFacts
  <1>2. Off(pass[r], pass'[r])
    BY <1>1 DEF Off, InPass
  <1> QED BY <1>1, <1>2 DEF Quiet, Same, Shape

LEMMA FinishQuiet ==
  ASSUME Shape, NEW r \in Runners, pass' = [pass EXCEPT ![r].pc = "finish"], pass[r].pc # "idle",
         UNCHANGED <<shop, synced>>
  PROVE  Quiet /\ DOMAIN pass' = Runners
  <1>1. /\ \A q \in Runners \ {r} : pass'[q] = pass[q]
        /\ IsPass(pass'[r]) /\ pass'[r].pc = "finish" /\ DOMAIN pass' = Runners
    BY StepFacts
  <1>2. Off(pass[r], pass'[r])
    BY <1>1 DEF Off, InPass
  <1> QED BY <1>1, <1>2 DEF Quiet, Same, Shape

LEMMA TakeJobBegins ==
  ASSUME Shape, NEW w \in Workers, TakeJob(w)
  PROVE  Begins(w) /\ DOMAIN pass' = Runners
  <1>0. w \in Runners /\ UNCHANGED <<stock, shop, synced>> /\ \A v \in Workers : pass[v].pc = "idle"
    BY RunnersAre DEF TakeJob, goodsVars
  <1>1. PICK job : job = Head(waiting)
    OBVIOUS
  <1>2. Execute(w, job)
    BY <1>1 DEF TakeJob
  <1>3. CASE job.platform \notin Queued \/ catalog = {}
    <2>1. pass' = [pass EXCEPT ![w].pc = "finish"]
      BY <1>2, <1>3 DEF Execute
    <2>2. /\ \A q \in Runners \ {w} : pass'[q] = pass[q]
          /\ IsPass(pass'[w]) /\ pass'[w].pc = "finish" /\ DOMAIN pass' = Runners
      BY <1>0, <2>1, StepFacts
    <2> QED BY <1>0, <2>2 DEF Begins, Same, Shape
  <1>4. CASE ~(job.platform \notin Queued \/ catalog = {})
    <2>1. BeginPass(w, job.platform, job.limit) /\ job.platform \in Platforms
      BY <1>2, <1>4, RunnersAre DEF Execute
    <2>2. pass[w].pc = "idle" /\ (w \in Workers => \A v \in Workers : pass[v].pc = "idle")
      BY <1>0
    <2> QED BY <1>0, <2>1, <2>2, BeginFacts
  <1> QED BY <1>3, <1>4

LEMMA RequestBegins ==
  ASSUME Shape, NEW q \in Requests, SyncPricesStocks(q)
  PROVE  Begins(q) /\ DOMAIN pass' = Runners
  <1>1. PICK p, limit : p \in Platforms /\ RequestPass(q, p, limit)
    BY DEF SyncPricesStocks, HoroshopPricesStocks, PromPricesStocks, WooCatalog,
      RozetkaPricesStocks, Platforms
  <1>2. /\ q \in Runners /\ pass[q].pc = "idle" /\ BeginPass(q, p, limit)
        /\ UNCHANGED <<stock, shop, synced>>
        /\ q \in Workers => \A w \in Workers : pass[w].pc = "idle"
    BY <1>1, RunnersAre DEF RequestPass, goodsVars
  <1> QED BY <1>1, <1>2, BeginFacts

LEMMA CrashQuiet ==
  ASSUME Shape, Crash
  PROVE  Quiet /\ DOMAIN pass' = Runners
  <1>1. UNCHANGED <<shop, synced>> /\ DOMAIN pass' = Runners
    BY DEF Crash
  <1>2. ASSUME NEW r \in Runners
        PROVE  /\ IsPass(pass'[r]) /\ Off(pass[r], pass'[r])
               /\ r \in Workers => pass'[r].pc = "idle"
    <2>1. PICK pc : pc = IF r \in Workers \/ pass[r].pc = "idle" THEN "idle" ELSE "done"
      OBVIOUS
    <2>2. pass'[r] = [NoPass EXCEPT !.pc = pc]
      BY <2>1 DEF Crash
    <2>3. IsPass(pass'[r]) /\ pass'[r].pc = pc
      BY <2>2 DEF NoPass, IsPass
    <2> QED BY <2>1, <2>3 DEF Off, InPass
  <1> QED BY <1>1, <1>2 DEF Quiet

LEMMA CatalogQuiet ==
  ASSUME Shape, NEW i \in Products, ChangeCatalog(i)
  PROVE  Quiet /\ DOMAIN pass' = Runners
  <1>1. UNCHANGED <<shop, synced>> /\ DOMAIN pass' = Runners
    BY DEF ChangeCatalog
  <1>2. ASSUME NEW r \in Runners
        PROVE  IsPass(pass'[r]) /\ Same(pass[r], pass'[r])
    <2>1. PICK old : old = pass[r]
      OBVIOUS
    <2>2. PICK b : b = Running(r)
      OBVIOUS
    <2>3. pass'[r] = [old EXCEPT !.disturbed = b] /\ IsPass(old)
      BY <2>1, <2>2 DEF ChangeCatalog, Shape
    <2> QED BY <2>1, <2>3 DEF IsPass, Same
  <1> QED BY <1>1, <1>2 DEF Quiet, Same

LEMMA NextKinds ==
  ASSUME Shape, [Next]_vars
  PROVE  DOMAIN pass' = Runners /\ (Quiet \/ \E r \in Runners : Begins(r) \/ Goes(r))
  <1>1. CASE UNCHANGED <<pass, shop, synced>>
    BY <1>1, IdleSteps
  <1>2. CASE UNCHANGED vars
    BY <1>1, <1>2 DEF vars, passVars
  <1>3. CASE Minute \/ (\E s \in Scheduled : TickStep(s)) \/ Backoff \/ RetryFailedJobs
               \/ \E p \in Platforms : TriggerStockSync(p)
    BY <1>1, <1>3 DEF Minute, TickStep, CronTick, ProcessTenant, StampTick, EndTick, Backoff,
      RetryFailedJobs, TriggerStockSync, passVars
  <1>4. ASSUME NEW r \in Runners, PassStep(r)
        PROVE  DOMAIN pass' = Runners /\ Goes(r)
    BY <1>4, ReadFacts, SendFacts DEF PassStep
  <1>5. ASSUME NEW w \in Workers, WorkerStep(w) \/ FailJob(w)
        PROVE  DOMAIN pass' = Runners /\ (Quiet \/ \E r \in Runners : Begins(r) \/ Goes(r))
    <2>0. w \in Runners
      BY RunnersAre
    <2>1. CASE TakeJob(w)
      BY <2>0, <2>1, TakeJobBegins
    <2>2. CASE PassStep(w)
      BY <1>4, <2>0, <2>2
    <2>3. CASE StampPass(w)
      BY <2>0, <2>3, FinishQuiet DEF StampPass
    <2>4. CASE FinishJob(w)
      BY <2>0, <2>4, LeaveQuiet DEF FinishJob
    <2>5. CASE FailJob(w)
      <3>1. Leave(w) /\ pass[w].pc # "idle" /\ UNCHANGED <<shop, synced>>
        BY <2>5 DEF FailJob, Throw
      <3> QED BY <2>0, <3>1, LeaveQuiet
    <2> QED BY <1>5, <2>1, <2>2, <2>3, <2>4, <2>5 DEF WorkerStep
  <1>6. ASSUME NEW q \in Requests, \/ SyncPricesStocks(q) \/ PassStep(q)
                                   \/ EndRequest(q) \/ EndUnstamped(q) \/ FailRequest(q)
        PROVE  DOMAIN pass' = Runners /\ (Quiet \/ \E r \in Runners : Begins(r) \/ Goes(r))
    <2>0. q \in Runners
      BY RunnersAre
    <2>1. CASE SyncPricesStocks(q)
      BY <2>0, <2>1, RequestBegins
    <2>2. CASE PassStep(q)
      BY <1>4, <2>0, <2>2
    <2>3. CASE EndRequest(q) \/ EndUnstamped(q)
      <3>1. Leave(q) /\ pass[q].pc # "idle" /\ UNCHANGED <<shop, synced>>
        BY <2>3 DEF EndRequest, EndUnstamped
      <3> QED BY <2>0, <3>1, LeaveQuiet
    <2>4. CASE FailRequest(q)
      <3>1. Leave(q) /\ pass[q].pc # "idle" /\ UNCHANGED <<shop, synced>>
        BY <2>4 DEF FailRequest, Throw
      <3> QED BY <2>0, <3>1, LeaveQuiet
    <2> QED BY <1>6, <2>1, <2>2, <2>3, <2>4
  <1>7. ASSUME NEW i \in Products, MoveStock(i) \/ ChangeCatalog(i)
        PROVE  DOMAIN pass' = Runners /\ Quiet
    <2>1. CASE MoveStock(i)
      BY <2>1, IdleSteps DEF MoveStock
    <2>2. CASE ChangeCatalog(i)
      BY <2>2, CatalogQuiet
    <2> QED BY <1>7, <2>1, <2>2
  <1>8. CASE Next
    BY <1>3, <1>5, <1>6, <1>7, <1>8, CrashQuiet DEF Next
  <1> QED BY <1>2, <1>8

LEMMA GoodsGrow ==
  ASSUME Shape, [Next]_vars
  PROVE  /\ catalog' \subseteq Products /\ stock' \in [Products -> Nat]
         /\ \A i \in Products : stock[i] <= stock'[i]
  <1>1. CASE UNCHANGED <<catalog, stock>>
    BY <1>1 DEF Shape
  <1>2. CASE \E i \in Products : MoveStock(i) \/ ChangeCatalog(i)
    BY <1>2 DEF MoveStock, ChangeCatalog, Shape
  <1>3. CASE UNCHANGED vars
    BY <1>1, <1>3 DEF vars, passVars, goodsVars
  <1>4. CASE Minute \/ (\E s \in Scheduled : TickStep(s)) \/ Backoff \/ RetryFailedJobs
               \/ (\E p \in Platforms : TriggerStockSync(p)) \/ Crash
    BY <1>1, <1>4 DEF Minute, TickStep, CronTick, ProcessTenant, StampTick, EndTick, Backoff,
      RetryFailedJobs, TriggerStockSync, Crash, passVars, goodsVars
  <1>5. \A r : PassStep(r) => UNCHANGED <<catalog, stock>>
    BY DEF PassStep, ReadPage, SendPage, FailPage, goodsVars
  <1>6. ASSUME NEW w \in Workers, WorkerStep(w) \/ FailJob(w)
        PROVE  UNCHANGED <<catalog, stock>>
    BY <1>5, <1>6 DEF WorkerStep, TakeJob, StampPass, FinishJob, FailJob, goodsVars
  <1>7. ASSUME NEW q \in Requests, \/ SyncPricesStocks(q) \/ PassStep(q)
                                   \/ EndRequest(q) \/ EndUnstamped(q) \/ FailRequest(q)
        PROVE  UNCHANGED <<catalog, stock>>
    BY <1>5, <1>7 DEF SyncPricesStocks, HoroshopPricesStocks, PromPricesStocks, WooCatalog,
      RozetkaPricesStocks, RequestPass, EndRequest, EndUnstamped, FailRequest, goodsVars
  <1>8. CASE Next
    BY <1>1, <1>2, <1>4, <1>6, <1>7, <1>8 DEF Next
  <1> QED BY <1>3, <1>8

LEMMA ShapeNext ==
  ASSUME Shape, [Next]_vars
  PROVE  Shape'
  <1>1. DOMAIN pass' = Runners /\ (Quiet \/ \E r \in Runners : Begins(r) \/ Goes(r))
    BY NextKinds
  <1>2. \A r \in Runners : IsPass(pass'[r])
    BY <1>1 DEF Quiet, Begins, Goes, Shape
  <1>3. catalog' \subseteq Products /\ stock' \in [Products -> Nat]
    BY GoodsGrow
  <1> QED BY <1>1, <1>2, <1>3 DEF Shape, IsPass

-----------------------------------------------------------------------------
(* Mappings.                                                                 *)

SyncedInv == Shape /\ DOMAIN synced = Platforms /\ MappingSound

LEMMA SyncedNext ==
  ASSUME SyncedInv, [Next]_vars
  PROVE  SyncedInv'
  <1>1. Shape /\ Shape'
    BY ShapeNext DEF SyncedInv
  <1>2. CASE synced' = synced
    BY <1>1, <1>2 DEF SyncedInv, MappingSound
  <1>3. ASSUME NEW r \in Runners, NEW saved,
               synced' = [synced EXCEPT ![pass[r].platform] =
                                   (@ \ saved) \cup (saved \cap Confirmed(pass[r]))]
        PROVE  SyncedInv'
    <2>1. CASE pass[r].platform = "horoshop"
      <3>1. Confirmed(pass[r]) = Accepted(pass[r])
        BY <2>1 DEF Confirmed
      <3>2. Confirmed(pass[r]) \cap Unlisted["horoshop"] = {}
        BY <2>1, <3>1 DEF Accepted
      <3>3. synced'["horoshop"] \cap Unlisted["horoshop"] = {}
        BY <1>3, <2>1, <3>2 DEF SyncedInv, MappingSound, Platforms
      <3> QED BY <1>1, <1>3, <3>3 DEF SyncedInv, MappingSound
    <2>2. CASE pass[r].platform # "horoshop"
      BY <1>1, <1>3, <2>2 DEF SyncedInv, MappingSound
    <2> QED BY <2>1, <2>2
  <1>4. synced' = synced \/ \E r \in Runners : \E saved :
          synced' = [synced EXCEPT ![pass[r].platform] =
                                   (@ \ saved) \cup (saved \cap Confirmed(pass[r]))]
    BY <1>1, NextKinds DEF Quiet, Begins, Goes
  <1> QED BY <1>2, <1>3, <1>4

(* No product that Horoshop refused is called synced.                        *)
THEOREM RefusedIsNotSynced == Spec => []MappingSound
  <1>1. Init => SyncedInv
    <2>1. SUFFICES ASSUME Init
                   PROVE  SyncedInv
      OBVIOUS
    <2>2. \A r \in Runners : pass[r] = NoPass
      BY <2>1 DEF Init, PassInit
    <2>3. Shape
      BY <2>1, <2>2, NoPassIs, CatalogAssumption DEF Init, PassInit, Shape, CatalogAssumption
    <2> QED BY <2>1, <2>3 DEF Init, PassInit, SyncedInv, MappingSound, Platforms
  <1>2. SyncedInv /\ [Next]_vars => SyncedInv'
    BY SyncedNext
  <1>3. SyncedInv => MappingSound
    BY DEF SyncedInv
  <1> QED BY <1>1, <1>2, <1>3, PTL DEF Spec

-----------------------------------------------------------------------------
(* Stock.                                                                    *)

(* Whether a pass met another one to the same shop, an HTTP request among    *)
(* the two.                                                                  *)
Met(r) == pass[r].overlapped # {} /\ ({r} \cup pass[r].overlapped) \cap Requests # {}

(* No shop, and no page in hand, is ahead of the stock.                      *)
Behind ==
  /\ shop \in [Platforms -> [Products -> Nat]]
  /\ \A p \in Platforms : \A i \in Products : shop[p][i] <= stock[i]
  /\ \A r \in Runners : pass[r].pc = "send" =>
       \A i \in DOMAIN pass[r].items \cap Products :
         pass[r].items[i] \in Nat /\ pass[r].items[i] <= stock[i]

(* Two passes to the same shop know of each other, and workers take turns.   *)
Aware ==
  /\ \A r \in Runners : Running(r) => pass[r].platform \in Platforms
  /\ \A q, r \in Runners :
       q # r /\ Running(q) /\ Running(r) /\ pass[q].platform = pass[r].platform =>
         q \in pass[r].overlapped
  /\ \A v, w \in Workers : v # w => pass[v].pc = "idle" \/ pass[w].pc = "idle"

(* A page in hand is not older than what the shop shows.                     *)
Newer ==
  \A r \in Runners : pass[r].pc = "send" =>
    \/ Met(r)
    \/ \A i \in DOMAIN pass[r].items \cap Products :
         shop[pass[r].platform][i] <= pass[r].items[i]

StockInv == Shape /\ Behind /\ Aware /\ Newer

LEMMA BehindNext ==
  ASSUME StockInv, [Next]_vars
  PROVE  Behind'
  <1>1. Shape /\ Behind /\ Aware
    BY DEF StockInv
  <1>2. /\ Quiet \/ \E r \in Runners : Begins(r) \/ Goes(r)
        /\ stock' \in [Products -> Nat] /\ \A i \in Products : stock[i] <= stock'[i]
    BY <1>1, NextKinds, GoodsGrow
  <1>3. \A i \in Products : \A n \in Nat : n <= stock[i] => n <= stock'[i]
    BY <1>1, <1>2 DEF Shape
  <1>4. ASSUME NEW r \in Runners, pass'[r].pc = "send", Same(pass[r], pass'[r])
        PROVE  \A i \in DOMAIN pass'[r].items \cap Products :
                 pass'[r].items[i] \in Nat /\ pass'[r].items[i] <= stock'[i]
    BY <1>1, <1>3, <1>4 DEF Same, Behind
  <1>5. ASSUME shop' = shop
        PROVE  /\ shop' \in [Platforms -> [Products -> Nat]]
               /\ \A p \in Platforms : \A i \in Products : shop'[p][i] <= stock'[i]
    BY <1>1, <1>3, <1>5 DEF Behind
  <1>6. CASE Quiet
    <2>1. \A r \in Runners : pass'[r].pc = "send" => Same(pass[r], pass'[r])
      BY <1>6 DEF Quiet, Off, InPass
    <2> QED BY <1>4, <1>5, <1>6, <2>1 DEF Quiet, Behind
  <1>7. ASSUME NEW q \in Runners, Begins(q)
        PROVE  Behind'
    <2>1. \A r \in Runners : pass'[r].pc = "send" => Same(pass[r], pass'[r])
      BY <1>7 DEF Begins
    <2> QED BY <1>4, <1>5, <1>7, <2>1 DEF Begins, Behind
  <1>8. ASSUME NEW q \in Runners, Goes(q)
        PROVE  Behind'
    <2>1. stock' = stock
      BY <1>8 DEF Goes
    <2>2. \A r \in Runners : pass'[r].pc = "send" =>
            \A i \in DOMAIN pass'[r].items \cap Products :
              pass'[r].items[i] \in Nat /\ pass'[r].items[i] <= stock'[i]
      <3>1. ASSUME pass'[q].pc = "send", NEW i \in DOMAIN pass'[q].items \cap Products
            PROVE  pass'[q].items[i] \in Nat /\ pass'[q].items[i] <= stock'[i]
        <4>1. pass'[q].items[i] = stock[i] /\ stock[i] \in Nat
          BY <1>1, <1>8, <3>1 DEF Goes, Shape
        <4> QED BY <2>1, <4>1
      <3>2. ASSUME NEW r \in Runners \ {q}, pass'[r].pc = "send"
            PROVE  Same(pass[r], pass'[r])
        BY <1>8, <3>2 DEF Goes, Same
      <3> QED BY <1>4, <3>1, <3>2
    <2>3. CASE shop' = shop
      BY <1>5, <2>2, <2>3 DEF Behind
    <2>4. CASE /\ pass[q].pc = "send"
               /\ shop' = [shop EXCEPT ![pass[q].platform] =
                    [i \in Products |-> IF i \in Accepted(pass[q])
                                        THEN pass[q].items[i] ELSE @[i]]]
      <3>1. \A i \in Accepted(pass[q]) \cap Products :
              pass[q].items[i] \in Nat /\ pass[q].items[i] <= stock[i]
        BY <1>1, <2>4 DEF Behind, Accepted
      <3>2. pass[q].platform \in Platforms
        BY <1>1, <2>4 DEF Aware, Running
      <3>3. /\ shop' \in [Platforms -> [Products -> Nat]]
            /\ \A p \in Platforms : \A i \in Products : shop'[p][i] <= stock'[i]
        BY <1>1, <2>1, <2>4, <3>1, <3>2 DEF Behind
      <3> QED BY <2>2, <3>3 DEF Behind
    <2> QED BY <1>8, <2>3, <2>4 DEF Goes
  <1> QED BY <1>2, <1>6, <1>7, <1>8

LEMMA AwareNext ==
  ASSUME StockInv, [Next]_vars
  PROVE  Aware'
  <1>1. Shape /\ Aware /\ Workers \subseteq Runners
    BY RunnersAre DEF StockInv
  <1>2. Quiet \/ \E r \in Runners : Begins(r) \/ Goes(r)
    BY <1>1, NextKinds
  <1>3. CASE Quiet
    <2>1. \A r \in Runners : Running(r)' => Running(r) /\ Same(pass[r], pass'[r])
      BY <1>3 DEF Quiet, Off, InPass, Running, Same
    <2>2. \A w \in Workers : pass[w].pc = "idle" => pass'[w].pc = "idle"
      BY <1>1, <1>3 DEF Quiet
    <2>3. \A r \in Runners : Running(r)' => pass'[r].platform \in Platforms
      BY <1>1, <2>1 DEF Aware, Same
    <2>4. ASSUME NEW q \in Runners, NEW r \in Runners, q # r, Running(q)', Running(r)',
                 pass'[q].platform = pass'[r].platform
          PROVE  q \in pass'[r].overlapped
      BY <1>1, <2>1, <2>4 DEF Aware, Same
    <2> QED BY <1>1, <2>2, <2>3, <2>4 DEF Aware
  <1>4. ASSUME NEW s \in Runners, Begins(s)
        PROVE  Aware'
    <2>1. \A r \in Runners \ {s} : Same(pass[r], pass'[r]) /\ (Running(r)' => Running(r))
      BY <1>4 DEF Begins, Same, Running
    <2>2. Running(s)' => pass'[s].pc # "finish"
      BY DEF Running
    <2>3. \A r \in Runners : Running(r)' => pass'[r].platform \in Platforms
      <3>1. \A r \in Runners \ {s} : Running(r)' => pass'[r].platform \in Platforms
        BY <1>1, <2>1 DEF Aware, Same
      <3> QED BY <1>4, <2>2, <3>1 DEF Begins
    <2>4. ASSUME NEW q \in Runners, NEW r \in Runners, q # r, Running(q)', Running(r)',
                 pass'[q].platform = pass'[r].platform
          PROVE  q \in pass'[r].overlapped
      <3>1. CASE q = s
        <4>1. Running(r) /\ pass[r].platform = pass'[s].platform
          BY <2>1, <2>4, <3>1 DEF Same
        <4> QED BY <1>4, <2>2, <2>4, <3>1, <4>1 DEF Begins
      <3>2. CASE r = s
        <4>1. Running(q) /\ pass[q].platform = pass'[s].platform
          BY <2>1, <2>4, <3>2 DEF Same
        <4> QED BY <1>4, <2>2, <2>4, <3>2, <4>1 DEF Begins
      <3>3. CASE q # s /\ r # s
        BY <1>1, <2>1, <2>4, <3>3 DEF Aware, Same
      <3> QED BY <3>1, <3>2, <3>3
    <2>5. ASSUME NEW v \in Workers, NEW w \in Workers, v # w
          PROVE  pass'[v].pc = "idle" \/ pass'[w].pc = "idle"
      <3>1. CASE s \in {v, w}
        BY <1>1, <1>4, <2>1, <2>5, <3>1 DEF Begins, Same
      <3>2. CASE s \notin {v, w}
        BY <1>1, <2>1, <2>5, <3>2 DEF Aware, Same
      <3> QED BY <3>1, <3>2
    <2> QED BY <2>3, <2>4, <2>5 DEF Aware
  <1>5. ASSUME NEW s \in Runners, Goes(s)
        PROVE  Aware'
    <2>1. \A r \in Runners : /\ Running(r)' => Running(r)
                             /\ Running(r)' => pass'[r].platform = pass[r].platform
                             /\ Running(r)' => pass'[r].overlapped = pass[r].overlapped
                             /\ pass[r].pc = "idle" => pass'[r].pc = "idle"
      BY <1>5 DEF Goes, Running
    <2>2. \A r \in Runners : Running(r)' => pass'[r].platform \in Platforms
      BY <1>1, <2>1 DEF Aware
    <2>3. ASSUME NEW q \in Runners, NEW r \in Runners, q # r, Running(q)', Running(r)',
                 pass'[q].platform = pass'[r].platform
          PROVE  q \in pass'[r].overlapped
      BY <1>1, <2>1, <2>3 DEF Aware
    <2> QED BY <1>1, <2>1, <2>2, <2>3 DEF Aware
  <1> QED BY <1>2, <1>3, <1>4, <1>5

(* Two passes to one shop, of which one sends: they have met.                *)
LEMMA TwoMeet ==
  ASSUME StockInv, NEW q \in Runners, NEW r \in Runners, q # r, Running(q), Running(r),
         pass[q].platform = pass[r].platform
  PROVE  Met(r)
  <1>1. q \in pass[r].overlapped
    BY DEF StockInv, Aware
  <1>2. q \notin Workers \/ r \notin Workers
    BY DEF StockInv, Aware, Running
  <1>3. q \in Requests \/ r \in Requests
    BY <1>2, QueueAssumption DEF QueueAssumption
  <1> QED BY <1>1, <1>3 DEF Met

LEMMA NewerNext ==
  ASSUME StockInv, [Next]_vars
  PROVE  Newer'
  <1>1. Shape /\ Behind /\ Aware /\ Newer
    BY DEF StockInv
  <1>2. Quiet \/ \E r \in Runners : Begins(r) \/ Goes(r)
    BY <1>1, NextKinds
  <1>3. ASSUME NEW r \in Runners, pass'[r].pc = "send", Same(pass[r], pass'[r])
        PROVE  /\ pass[r].pc = "send"
               /\ \/ Met(r)'
                  \/ \A i \in DOMAIN pass'[r].items \cap Products :
                       shop[pass'[r].platform][i] <= pass'[r].items[i]
    BY <1>1, <1>3 DEF Same, Newer, Met
  <1>4. CASE Quiet
    <2>1. \A r \in Runners : pass'[r].pc = "send" => Same(pass[r], pass'[r])
      BY <1>4 DEF Quiet, Off, InPass
    <2> QED BY <1>3, <1>4, <2>1 DEF Quiet, Newer
  <1>5. ASSUME NEW s \in Runners, Begins(s)
        PROVE  Newer'
    <2>1. \A r \in Runners : pass'[r].pc = "send" => Same(pass[r], pass'[r])
      BY <1>5 DEF Begins
    <2> QED BY <1>3, <1>5, <2>1 DEF Begins, Newer
  <1>6. ASSUME NEW s \in Runners, Goes(s)
        PROVE  Newer'
    <2>1. SUFFICES ASSUME NEW r \in Runners, pass'[r].pc = "send"
                   PROVE  \/ Met(r)'
                          \/ \A i \in DOMAIN pass'[r].items \cap Products :
                               shop'[pass'[r].platform][i] <= pass'[r].items[i]
      BY DEF Newer
    <2>2. r # s => Same(pass[r], pass'[r])
      BY <1>6 DEF Goes, Same
    <2>3. CASE r # s /\ shop' = shop
      BY <1>3, <2>1, <2>2, <2>3
    <2>4. CASE r # s /\ shop' # shop
      <3>1. CASE pass[r].platform = pass[s].platform
        <4>1. Running(r) /\ Running(s)
          BY <1>3, <1>6, <2>1, <2>2, <2>4 DEF Goes, Running
        <4>2. Met(r)
          BY <2>4, <3>1, <4>1, TwoMeet
        <4> QED BY <2>2, <2>4, <4>2 DEF Same, Met
      <3>2. CASE pass[r].platform # pass[s].platform
        <4>1. shop'[pass'[r].platform] = shop[pass'[r].platform]
          <5>1. pass[r].platform \in Platforms /\ pass'[r].platform = pass[r].platform
            BY <1>1, <1>3, <2>1, <2>2, <2>4 DEF Aware, Running, Same
          <5> QED BY <1>1, <1>6, <2>4, <3>2, <5>1 DEF Goes, Behind
        <4> QED BY <1>3, <2>1, <2>2, <2>4, <4>1
      <3> QED BY <3>1, <3>2
    <2>5. CASE r = s
      <3>1. /\ \A i \in DOMAIN pass'[r].items : pass'[r].items[i] = stock[i]
            /\ pass'[r].platform = pass[r].platform /\ pass[r].pc \in {"page", "send"}
        BY <1>6, <2>1, <2>5 DEF Goes
      <3>2. pass[r].platform \in Platforms /\ pass'[r].platform \in Platforms /\ stock' = stock
        BY <1>1, <1>6, <3>1 DEF Aware, Running, Goes
      <3>3. \A i \in Products : shop'[pass'[r].platform][i] <= stock[i]
        BY <3>2, BehindNext DEF Behind
      <3> QED BY <3>1, <3>3
    <2> QED BY <2>3, <2>4, <2>5
  <1> QED BY <1>2, <1>4, <1>5, <1>6

LEMMA StockInit ==
  ASSUME Init
  PROVE  StockInv
  <1>1. \A r \in Runners : pass[r] = NoPass
    BY DEF Init, PassInit
  <1>2. Shape
    BY <1>1, NoPassIs, CatalogAssumption DEF Init, PassInit, Shape, CatalogAssumption
  <1>3. \A r \in Runners : pass[r].pc = "idle"
    BY <1>1, NoPassIs
  <1>4. Behind
    BY <1>3 DEF Init, PassInit, Behind
  <1>5. Aware /\ Newer
    BY <1>3, RunnersAre DEF Aware, Newer, Running
  <1> QED BY <1>2, <1>4, <1>5 DEF StockInv

(* Stock in a shop goes back only when two passes to it overlapped, one of   *)
(* them in an HTTP request.                                                  *)
THEOREM StockNeverGoesBack == Spec => NoStaleOverwrite
  <1>1. Init => StockInv
    BY StockInit
  <1>2. StockInv /\ [Next]_vars => StockInv'
    BY ShapeNext, BehindNext, AwareNext, NewerNext DEF StockInv
  <1>3. StockInv /\ [Next]_vars =>
          [\A p \in Platforms : \A i \in Products :
             shop'[p][i] < shop[p][i] =>
               \E r \in Runners : /\ pass[r].platform = p
                                  /\ pass[r].overlapped # {}
                                  /\ ({r} \cup pass[r].overlapped) \cap Requests # {}]_vars
    <2>1. SUFFICES ASSUME StockInv, [Next]_vars, NEW p \in Platforms, NEW i \in Products,
                          shop'[p][i] < shop[p][i]
                   PROVE  \E r \in Runners : pass[r].platform = p /\ Met(r)
      BY DEF Met
    <2>2. Shape /\ Behind /\ Aware /\ Newer
      BY <2>1 DEF StockInv
    <2>3. shop[p][i] \in Nat
      BY <2>2 DEF Behind
    <2>4. shop' # shop
      BY <2>1, <2>3
    <2>5. PICK r \in Runners :
            /\ pass[r].pc = "send"
            /\ shop' = [shop EXCEPT ![pass[r].platform] =
                 [j \in Products |-> IF j \in Accepted(pass[r]) THEN pass[r].items[j] ELSE @[j]]]
      BY <2>1, <2>2, <2>4, NextKinds DEF Quiet, Begins, Goes
    <2>6. pass[r].platform = p /\ i \in Accepted(pass[r]) /\ shop'[p][i] = pass[r].items[i]
      BY <2>1, <2>2, <2>3, <2>5 DEF Behind
    <2>7. ~(shop[p][i] <= pass[r].items[i])
      <3>1. pass[r].items[i] \in Nat
        BY <2>2, <2>5, <2>6 DEF Behind, Accepted
      <3> QED BY <2>1, <2>3, <2>6, <3>1
    <2>8. Met(r)
      BY <2>2, <2>5, <2>6, <2>7 DEF Newer, Accepted
    <2> QED BY <2>6, <2>8
  <1> QED BY <1>1, <1>2, <1>3, PTL DEF Spec, NoStaleOverwrite

-----------------------------------------------------------------------------
(* Pages.                                                                    *)

LEMMA CatalogIs ==
  ASSUME Shape
  PROVE  catalog \subseteq Nat /\ IsFiniteSet(catalog) /\ Cardinality(catalog) \in Nat
  <1>1. catalog \subseteq Products /\ Products \subseteq Nat /\ IsFiniteSet(Products)
    BY CatalogAssumption DEF CatalogAssumption, Shape
  <1> QED BY <1>1, FS_Subset, FS_CardinalityType

(* The ranks grow with the codes, ...                                        *)
LEMMA RankGrows ==
  ASSUME Shape, NEW i \in catalog
  PROVE  /\ Rank(catalog, i) \in 1 .. Cardinality(catalog)
         /\ \A j \in catalog : i < j => Rank(catalog, i) < Rank(catalog, j)
  <1> DEFINE Below(j) == {k \in catalog : k <= j}
  <1>1. catalog \subseteq Nat /\ IsFiniteSet(catalog) /\ Cardinality(catalog) \in Nat
    BY CatalogIs
  <1>2. \A j \in catalog : IsFiniteSet(Below(j)) /\ Cardinality(Below(j)) \in Nat
    <2>1. \A j \in catalog : IsFiniteSet(Below(j))
      BY <1>1, FS_Subset
    <2> QED BY <2>1, FS_CardinalityType
  <1>3. Cardinality(Below(i)) <= Cardinality(catalog)
    BY <1>1, FS_Subset
  <1>4. Cardinality(Below(i)) # 0
    <2>1. i \in Below(i)
      BY <1>1
    <2> QED BY <1>2, <2>1, FS_EmptySet
  <1>5. ASSUME NEW j \in catalog, i < j
        PROVE  Cardinality(Below(i)) < Cardinality(Below(j))
    <2>1. Below(i) \in SUBSET Below(j) /\ j \in Below(j) /\ j \notin Below(i)
      <3>1. \A k \in Nat : (k <= i => k <= j) /\ k <= k
        BY <1>1, <1>5
      <3>2. ~(j <= i)
        BY <1>1, <1>5
      <3> QED BY <1>1, <3>1, <3>2
    <2>2. /\ Cardinality(Below(i)) <= Cardinality(Below(j))
          /\ Cardinality(Below(i)) = Cardinality(Below(j)) => Below(i) = Below(j)
      <3> HIDE DEF Below
      <3> QED BY <1>2, <2>1, FS_Subset
    <2>3. Below(i) # Below(j)
      BY <2>1
    <2> QED BY <1>2, <2>2, <2>3
  <1>6. \A j : Rank(catalog, j) = Cardinality(Below(j))
    BY DEF Rank
  <1> HIDE DEF Below
  <1> QED BY <1>1, <1>2, <1>3, <1>4, <1>5, <1>6

LEMMA RankOnce ==
  ASSUME Shape, NEW i \in catalog, NEW j \in catalog, Rank(catalog, i) = Rank(catalog, j)
  PROVE  i = j
  <1>1. i \in Nat /\ j \in Nat /\ Rank(catalog, i) \in Int
    BY CatalogIs, RankGrows
  <1>2. ~(i < j) /\ ~(j < i)
    BY <1>1, RankGrows
  <1> QED BY <1>1, <1>2

(* ... and none is left out: so many products as numbers.                    *)
LEMMA RankOnto ==
  ASSUME Shape, NEW k \in 1 .. Cardinality(catalog)
  PROVE  \E i \in catalog : Rank(catalog, i) = k
  <1> DEFINE N == Cardinality(catalog)
             f == [i \in catalog |-> Rank(catalog, i)]
  <1>1. N \in Nat /\ IsFiniteSet(1 .. N) /\ Cardinality(1 .. N) = N
    <2>1. N \in Nat
      BY CatalogIs
    <2> QED BY <2>1, FS_Interval
  <1>2. f \in Injection(catalog, 1 .. N)
    <2>1. f \in [catalog -> 1 .. N]
      BY RankGrows
    <2>2. \A i, j \in catalog : f[i] = f[j] => i = j
      BY RankOnce
    <2> QED BY <2>1, <2>2 DEF Injection, IsInjective
  <1>3. f \in Surjection(catalog, 1 .. N)
    <2> HIDE DEF f
    <2> QED BY <1>1, <1>2, FS_Injection
  <1> QED BY <1>3 DEF Surjection

(* The rows that follow the first a, up to the b-th.                         *)
Rows(a, b) == {i \in catalog : a < Rank(catalog, i) /\ Rank(catalog, i) <= b}

LEMMA RowsAre ==
  ASSUME Shape, NEW a \in Nat, NEW b \in Nat, a <= b, b <= Cardinality(catalog)
  PROVE  Cardinality(Rows(a, b)) = b - a
  <1> DEFINE S == Rows(a, b)
             f == [i \in S |-> Rank(catalog, i)]
  <1>1. Cardinality(catalog) \in Nat
    BY CatalogIs
  <1>2. \A i \in S : i \in catalog /\ Rank(catalog, i) \in a + 1 .. b
    BY RankGrows DEF Rows
  <1>3. \A i, j \in S : f[i] = f[j] => i = j
    BY <1>2, RankOnce
  <1>4. \A k \in a + 1 .. b : \E i \in S : f[i] = k
    <2>1. SUFFICES ASSUME NEW k \in a + 1 .. b
                   PROVE  \E i \in S : f[i] = k
      OBVIOUS
    <2>2. k \in 1 .. Cardinality(catalog) /\ a < k /\ k <= b
      BY <1>1, <2>1
    <2>3. PICK i \in catalog : Rank(catalog, i) = k
      BY <2>2, RankOnto
    <2> QED BY <2>2, <2>3 DEF Rows
  <1>5. f \in [S -> a + 1 .. b]
    BY <1>2
  <1> HIDE DEF f
  <1>6. f \in Bijection(S, a + 1 .. b)
    BY <1>3, <1>4, <1>5 DEF Bijection, Injection, Surjection, IsInjective
  <1>7. IsFiniteSet(S)
    <2>1. S \in SUBSET catalog
      BY DEF Rows
    <2> QED BY <2>1, CatalogIs, FS_Subset
  <1>8. Cardinality(a + 1 .. b) = Cardinality(S)
    BY <1>6, <1>7, FS_Bijection DEF ExistsBijection
  <1>9. Cardinality(a + 1 .. b) = b - a
    <2>1. a + 1 \in Int /\ b \in Int /\ (a + 1 > b => b - a = 0) /\ b - (a + 1) + 1 = b - a
      OBVIOUS
    <2>2. Cardinality(a + 1 .. b) = IF a + 1 > b THEN 0 ELSE b - (a + 1) + 1
      BY <2>1, FS_Interval
    <2> QED BY <2>1, <2>2
  <1> QED BY <1>8, <1>9

(* A page of whole size that follows the first a rows: what it means that it *)
(* is empty or short.                                                        *)
LEMMA PageMeans ==
  ASSUME Shape, NEW a \in Nat
  PROVE  /\ Cardinality(Rows(a, a + Batch)) \in 0 .. Batch
         /\ Rows(a, a + Batch) = {} => catalog = Rows(0, a)
         /\ Cardinality(Rows(a, a + Batch)) < Batch => catalog = Rows(0, a + Batch)
         /\ Cardinality(catalog) <= a => catalog = Rows(0, a)
  <1> DEFINE N == Cardinality(catalog)
  <1>1. N \in Nat /\ Batch \in Nat /\ Batch > 0
    BY CatalogIs, CatalogAssumption DEF CatalogAssumption
  <1>2. \A i \in catalog : Rank(catalog, i) \in 1 .. N
    BY RankGrows
  <1>3. \A b \in Nat : N <= b => catalog = Rows(0, b)
    BY <1>1, <1>2 DEF Rows
  <1>4. CASE a + Batch <= N
    <2>1. Cardinality(Rows(a, a + Batch)) = Batch
      <3>1. a <= a + Batch /\ a + Batch \in Nat /\ (a + Batch) - a = Batch
        BY <1>1
      <3> QED BY <1>4, <3>1, RowsAre
    <2>2. Rows(a, a + Batch) # {}
      BY <1>1, <2>1, FS_EmptySet
    <2> QED BY <1>1, <1>3, <2>1, <2>2
  <1>5. CASE a <= N /\ N < a + Batch
    <2>1. Rows(a, a + Batch) = Rows(a, N)
      BY <1>1, <1>2, <1>5 DEF Rows
    <2>2. Cardinality(Rows(a, N)) = N - a
      BY <1>1, <1>5, RowsAre
    <2>3. Rows(a, N) = {} => N = a
      BY <1>1, <2>2, FS_EmptySet
    <2> QED BY <1>1, <1>3, <1>5, <2>1, <2>2, <2>3
  <1>6. CASE N < a
    <2>1. Rows(a, a + Batch) = {}
      BY <1>1, <1>2, <1>6 DEF Rows
    <2>2. Cardinality(Rows(a, a + Batch)) = 0
      BY <2>1, FS_EmptySet
    <2>3. catalog = Rows(0, a) /\ catalog = Rows(0, a + Batch)
      <3>1. N <= a /\ N <= a + Batch /\ a + Batch \in Nat
        BY <1>1, <1>6
      <3> QED BY <1>3, <3>1
    <2> QED BY <1>1, <2>2, <2>3
  <1> QED BY <1>1, <1>4, <1>5, <1>6

-----------------------------------------------------------------------------
(* Whole batches.                                                            *)

Multiples == {n * Batch : n \in Nat}

LEMMA BatchIs == Batch \in Nat /\ Batch > 0
  BY CatalogAssumption DEF CatalogAssumption

LEMMA Times ==
  ASSUME NEW n \in Nat
  PROVE  /\ n * Batch \in Nat /\ n * Batch \in Multiples
         /\ (n + 1) * Batch = n * Batch + Batch
  <1>1. \A b \in Nat : n * b \in Nat /\ (n + 1) * b = n * b + b
    OBVIOUS
  <1> QED BY <1>1, BatchIs DEF Multiples

LEMMA MultiplesApart ==
  ASSUME NEW x \in Multiples, NEW y \in Multiples, x < y
  PROVE  x + Batch <= y
  <1>1. PICK m \in Nat : x = m * Batch
    BY DEF Multiples
  <1>2. PICK n \in Nat : y = n * Batch
    BY DEF Multiples
  <1>3. \A d \in Nat : d * Batch \in Nat
    BY Times
  <1>4. m < n
    <2>1. SUFFICES ASSUME n <= m
                   PROVE  FALSE
      OBVIOUS
    <2>2. m - n \in Nat
      BY <2>1
    <2>3. \A b \in Nat : n * b + (m - n) * b = m * b
      OBVIOUS
    <2>4. y + (m - n) * Batch = x
      BY <1>1, <1>2, <2>3, BatchIs
    <2> QED BY <1>1, <1>2, <1>3, <2>2, <2>4
  <1>5. PICK d \in Nat : n = (m + 1) + d
    <2>1. n - (m + 1) \in Nat /\ n = (m + 1) + (n - (m + 1))
      BY <1>4
    <2> QED BY <2>1
  <1>6. \A b \in Nat : ((m + 1) + d) * b = (m * b + b) + d * b
    OBVIOUS
  <1>7. y = (x + Batch) + d * Batch
    BY <1>1, <1>2, <1>5, <1>6, BatchIs
  <1> QED BY <1>1, <1>2, <1>3, <1>7, BatchIs

LEMMA WholeIsMultiple ==
  ASSUME NEW n \in Nat, n % Batch = 0
  PROVE  n \in Multiples
  <1>1. PICK b \in Nat \ {0} : b = Batch
    BY BatchIs
  <1>2. n \div b \in Nat /\ n = b * (n \div b) + (n % b)
    OBVIOUS
  <1>3. n % b = 0 /\ (n \div b) * b = b * (n \div b)
    BY <1>1, <1>2
  <1>4. n = (n \div b) * b
    BY <1>2, <1>3
  <1> QED BY <1>1, <1>2, <1>4 DEF Multiples

LEMMA LeastOf ==
  ASSUME NEW x \in Int, NEW y \in Int, x <= y
  PROVE  Min({x, y}) = x
  BY DEF Min

(* A pass that reads the whole catalogue, in batches of one size.            *)
Whole(ps) ==
  IF ps.platform \in Counted
  THEN ps.target = Cardinality(catalog) /\ Cardinality(catalog) % Batch = 0
  ELSE ps.target = 0

(* The rows before its page.                                                 *)
Before(ps) == (ps.page - 1) * Batch

(* There is a whole batch left to it, even if it counted what it sent.       *)
Steady(ps) ==
  /\ ps.processed \in Nat /\ ps.processed <= Before(ps) /\ ps.processed + Batch <= ps.target
  /\ ps.platform = "woocommerce" => ps.processed \in Multiples

(* It has tried the rows before its page, and once; at the end, all of them. *)
Regular(ps) ==
  /\ ps.page \in Nat \ {0} /\ ~ps.again
  /\ ps.tried = IF ps.pc = "end" THEN catalog ELSE Rows(0, Before(ps))
  /\ ps.pc # "end" /\ ps.platform \in Counted => Steady(ps)
  /\ ps.pc = "send" => /\ DOMAIN ps.items = Rows(Before(ps), Before(ps) + Batch)
                       /\ ps.short <=> Cardinality(DOMAIN ps.items) < Batch

Undisturbed(ps) == ps.pc \in InPass /\ ~ps.disturbed /\ Whole(ps) => Regular(ps)

LEMMA BeforeIs ==
  ASSUME NEW ps, ps.page \in Nat \ {0}
  PROVE  /\ Before(ps) \in Nat /\ Before(ps) \in Multiples
         /\ ps.page * Batch = Before(ps) + Batch
         /\ Before(ps) + Batch \in Nat /\ Before(ps) + Batch \in Multiples
  <1>1. PICK n \in Nat : n = ps.page - 1
    OBVIOUS
  <1>2. n + 1 \in Nat /\ n + 1 = ps.page
    BY <1>1
  <1>3. /\ n * Batch \in Nat /\ n * Batch \in Multiples /\ (n + 1) * Batch = n * Batch + Batch
        /\ (n + 1) * Batch \in Nat /\ (n + 1) * Batch \in Multiples
    BY <1>2, Times
  <1> QED BY <1>1, <1>2, <1>3 DEF Before

LEMMA PageIs ==
  ASSUME Shape, NEW ps, ps.pc = "page", Whole(ps), Regular(ps)
  PROVE  Size(ps) = Batch /\ Page(ps) = Rows(Before(ps), Before(ps) + Batch)
  <1>1. Size(ps) = Batch
    <2>1. CASE ps.platform \in Counted
      <3>1. Steady(ps) /\ ps.target \in Nat
        BY <2>1, CatalogIs DEF Regular, Whole
      <3>2. Batch <= ps.target - ps.processed /\ ps.target - ps.processed \in Int
        BY <3>1, BatchIs DEF Steady
      <3>3. Min({Batch, ps.target - ps.processed}) = Batch
        BY <3>2, BatchIs, LeastOf
      <3> QED BY <2>1, <3>3 DEF Size
    <2>2. CASE ps.platform \notin Counted
      BY <2>2 DEF Size
    <2> QED BY <2>1, <2>2
  <1>2. Offset(ps) = Before(ps)
    BY <1>1 DEF Offset, Before
  <1> QED BY <1>1, <1>2 DEF Page, Rows

LEMMA RowsJoin ==
  ASSUME Shape, NEW a \in Nat
  PROVE  /\ Rows(0, a) \cup Rows(a, a + Batch) = Rows(0, a + Batch)
         /\ Rows(0, a) \cap Rows(a, a + Batch) = {}
         /\ Rows(0, 0) = {}
  <1>1. \A i \in catalog : Rank(catalog, i) \in Nat /\ 0 < Rank(catalog, i)
    BY RankGrows, CatalogIs
  <1> QED BY <1>1, BatchIs DEF Rows

LEMMA ReadRegular ==
  ASSUME Shape, NEW old, IsPass(old), old.pc = "page", Whole(old), Regular(old),
         NEW ps, NEW f, DOMAIN f = Page(old),
         ps = [old EXCEPT !.pc = IF Page(old) = {} THEN "end" ELSE "send",
                          !.items = f, !.short = Cardinality(Page(old)) < Size(old)]
  PROVE  Regular(ps)
  <1>1. Size(old) = Batch /\ Page(old) = Rows(Before(old), Before(old) + Batch)
    BY PageIs
  <1>2. PICK pc : pc = IF Page(old) = {} THEN "end" ELSE "send"
    OBVIOUS
  <1>3. PICK short : short = (Cardinality(Page(old)) < Size(old))
    OBVIOUS
  <1>4. ps = [old EXCEPT !.pc = pc, !.items = f, !.short = short]
    BY <1>2, <1>3
  <1>5. /\ ps.pc = pc /\ ps.platform = old.platform /\ ps.target = old.target
        /\ ps.page = old.page /\ ps.processed = old.processed /\ ps.items = f
        /\ ps.short = short /\ ps.tried = old.tried /\ ps.again = old.again
    BY <1>4 DEF IsPass
  <1>6. Before(ps) = Before(old) /\ Before(old) \in Nat
    BY <1>5, BeforeIs DEF Before, Regular
  <1>7. pc = "end" => catalog = Rows(0, Before(old))
    BY <1>1, <1>2, <1>6, PageMeans
  <1>8. Steady(old) => Steady(ps)
    BY <1>5, <1>6 DEF Steady
  <1> QED BY <1>1, <1>2, <1>3, <1>5, <1>6, <1>7, <1>8 DEF Regular

(* What NextPage changes.                                                    *)
LEMMA NextPageIs ==
  ASSUME NEW ps, IsPass(ps), NEW ok, NEW new, new = NextPage(ps, ok)
  PROVE  /\ new.platform = ps.platform /\ new.target = ps.target /\ new.short = ps.short
         /\ new.disturbed = ps.disturbed /\ new.page = ps.page + 1
         /\ new.processed = Processed(ps, ok)
         /\ new.again = (ps.again \/ ps.tried \cap DOMAIN ps.items # {})
         /\ new.tried = ps.tried \cup DOMAIN ps.items
         /\ new.pc = IF More(new) THEN "page" ELSE "end"
  <1>1. PICK n : n = ps.page + 1
    OBVIOUS
  <1>2. PICK c : c = Processed(ps, ok)
    OBVIOUS
  <1>3. PICK a : a = (ps.again \/ ps.tried \cap DOMAIN ps.items # {})
    OBVIOUS
  <1>4. PICK t : t = ps.tried \cup DOMAIN ps.items
    OBVIOUS
  <1>5. PICK next : next = [ps EXCEPT !.page = n, !.processed = c, !.items = <<>>,
                                      !.again = a, !.tried = t]
    OBVIOUS
  <1>6. /\ IsPass(next) /\ next.platform = ps.platform /\ next.target = ps.target
        /\ next.short = ps.short /\ next.disturbed = ps.disturbed /\ next.page = n
        /\ next.processed = c /\ next.again = a /\ next.tried = t
    BY <1>5 DEF IsPass
  <1>7. PICK pc : pc = IF More(next) THEN "page" ELSE "end"
    OBVIOUS
  <1>8. new = [next EXCEPT !.pc = pc]
    BY <1>1, <1>2, <1>3, <1>4, <1>5, <1>7 DEF NextPage
  <1>9. /\ new.pc = pc /\ new.platform = ps.platform /\ new.target = ps.target
        /\ new.short = ps.short /\ new.disturbed = ps.disturbed /\ new.page = n
        /\ new.processed = c /\ new.again = a /\ new.tried = t
    BY <1>6, <1>8 DEF IsPass
  <1>10. More(new) = More(next)
    BY <1>6, <1>9 DEF More
  <1> QED BY <1>1, <1>2, <1>3, <1>4, <1>7, <1>9, <1>10

LEMMA NextRegular ==
  ASSUME Shape, NEW old, IsPass(old), old.pc = "send", Whole(old), Regular(old),
         NEW ok \in BOOLEAN, NEW new, new = NextPage(old, ok)
  PROVE  Regular(new)
  <1> DEFINE a == Before(old)
             N == Cardinality(catalog)
             D == DOMAIN old.items
  <1>1. /\ new.platform = old.platform /\ new.target = old.target /\ new.short = old.short
        /\ new.page = old.page + 1 /\ new.processed = Processed(old, ok)
        /\ new.again = (old.again \/ old.tried \cap D # {})
        /\ new.tried = old.tried \cup D
        /\ new.pc = IF More(new) THEN "page" ELSE "end"
    BY NextPageIs
  <1>2. /\ old.page \in Nat \ {0} /\ ~old.again /\ old.tried = Rows(0, a)
        /\ D = Rows(a, a + Batch) /\ (old.short <=> Cardinality(D) < Batch)
        /\ old.platform \in Counted => Steady(old)
    BY DEF Regular
  <1>3. /\ a \in Nat /\ a \in Multiples /\ a + Batch \in Nat /\ a + Batch \in Multiples
        /\ Before(new) = a + Batch /\ (new.page - 1) * Batch = a + Batch
    <2>1. new.page - 1 = old.page
      BY <1>1, <1>2
    <2>2. old.page * Batch = a + Batch
      BY <1>2, BeforeIs
    <2>3. (new.page - 1) * Batch = a + Batch
      BY <2>1, <2>2
    <2> QED BY <1>2, <2>3, BeforeIs DEF Before
  <1>4. new.tried = Rows(0, a + Batch) /\ ~new.again
    <2>1. /\ Rows(0, a) \cup Rows(a, a + Batch) = Rows(0, a + Batch)
          /\ Rows(0, a) \cap Rows(a, a + Batch) = {}
      BY <1>3, RowsJoin
    <2> HIDE DEF a, D
    <2>2. new.tried = Rows(0, a + Batch) /\ old.tried \cap D = {}
      BY <1>1, <1>2, <2>1
    <2> QED BY <1>1, <1>2, <2>2, Zenon
  <1>5. /\ Cardinality(D) \in 0 .. Batch /\ N \in Nat
        /\ Cardinality(D) < Batch => catalog = Rows(0, a + Batch)
        /\ N <= a + Batch => catalog = Rows(0, a + Batch)
    BY <1>2, <1>3, PageMeans, CatalogIs
  <1>6. /\ ~More(new) => catalog = Rows(0, a + Batch)
        /\ More(new) /\ new.platform \in Counted => Steady(new)
    <2>1. CASE old.platform = "prom"
      <3>1. old.target = N /\ N \in Multiples /\ Steady(old)
        BY <1>2, <1>5, <2>1, WholeIsMultiple DEF Whole, Counted
      <3>2. Cardinality(Accepted(old)) \in 0 .. Batch
        <4>1. Accepted(old) \in SUBSET D /\ IsFiniteSet(D)
          <5>1. D \in SUBSET catalog
            BY <1>2 DEF Rows
          <5> QED BY <5>1, CatalogIs, FS_Subset DEF Accepted
        <4>2. Cardinality(Accepted(old)) \in Nat /\ Cardinality(Accepted(old)) <= Cardinality(D)
          BY <4>1, FS_Subset, FS_CardinalityType
        <4> QED BY <1>5, <4>2, BatchIs
      <3>3. PICK c \in 0 .. Batch : new.processed = old.processed + c
        <4>1. new.processed = old.processed + (IF ok THEN Cardinality(Accepted(old)) ELSE 0)
          BY <1>1, <2>1 DEF Processed
        <4>2. (IF ok THEN Cardinality(Accepted(old)) ELSE 0) \in 0 .. Batch
          BY <3>2, BatchIs
        <4> QED BY <4>1, <4>2
      <3>4. new.processed \in Nat /\ new.processed <= a + Batch
        BY <1>3, <3>1, <3>3, BatchIs DEF Steady
      <3>5. More(new) <=> a + Batch < N /\ new.processed < N
        BY <1>1, <1>3, <2>1, <3>1 DEF More
      <3>6. CASE More(new)
        <4>1. (a + Batch) + Batch <= N
          BY <1>3, <3>1, <3>5, <3>6, MultiplesApart
        <4>2. new.processed + Batch <= N
          BY <1>3, <1>5, <3>4, <4>1, BatchIs
        <4> QED BY <1>1, <1>3, <2>1, <3>1, <3>4, <3>6, <4>2 DEF Steady
      <3>7. CASE ~More(new)
        <4>1. N <= a + Batch
          BY <1>3, <1>5, <3>4, <3>5, <3>7
        <4> QED BY <1>5, <3>7, <4>1
      <3> QED BY <3>6, <3>7
    <2>2. CASE old.platform = "woocommerce"
      <3>1. old.target = N /\ N \in Multiples /\ Steady(old) /\ old.processed \in Multiples
        BY <1>2, <1>5, <2>2, WholeIsMultiple DEF Whole, Counted, Steady
      <3>2. PICK c \in 0 .. Batch : /\ new.processed = old.processed + c
                                    /\ c \in {0, Cardinality(D)}
        <4>1. new.processed = old.processed + (IF ok THEN Cardinality(D) ELSE 0)
          BY <1>1, <2>2 DEF Processed
        <4>2. (IF ok THEN Cardinality(D) ELSE 0) \in 0 .. Batch
          BY <1>5, BatchIs
        <4> QED BY <4>1, <4>2
      <3>3. new.processed \in Nat /\ new.processed <= a + Batch
        BY <1>3, <3>1, <3>2, BatchIs DEF Steady
      <3>4. More(new) <=> ~old.short /\ new.processed < N
        BY <1>1, <2>2, <3>1 DEF More
      <3>5. CASE More(new)
        <4>1. Cardinality(D) = Batch
          BY <1>2, <1>5, <3>4, <3>5, BatchIs
        <4>2. new.processed \in Multiples
          <5>1. PICK n \in Nat : old.processed = n * Batch
            BY <3>1 DEF Multiples
          <5>2. /\ n + 1 \in Nat /\ (n + 1) * Batch = n * Batch + Batch
                /\ (n + 1) * Batch \in Multiples
            BY Times
          <5>3. old.processed + Batch \in Multiples /\ old.processed + 0 = old.processed
            BY <3>1, <5>1, <5>2 DEF Steady
          <5> QED BY <3>1, <3>2, <4>1, <5>3
        <4>3. new.processed + Batch <= N
          BY <3>1, <3>4, <3>5, <4>2, MultiplesApart
        <4> QED BY <1>1, <1>3, <2>2, <3>1, <3>3, <3>5, <4>2, <4>3 DEF Steady
      <3>6. CASE ~More(new)
        <4>1. Cardinality(D) < Batch \/ N <= a + Batch
          BY <1>2, <1>3, <1>5, <3>3, <3>4, <3>6
        <4> QED BY <1>5, <3>6, <4>1
      <3> QED BY <3>5, <3>6
    <2>3. CASE old.platform \notin Counted
      <3>1. old.target = 0
        BY <2>3 DEF Whole
      <3>2. More(new) <=> ~old.short
        BY <1>1, <2>3, <3>1 DEF More, Counted
      <3> QED BY <1>1, <1>2, <1>5, <2>3, <3>2
    <2> QED BY <2>1, <2>2, <2>3 DEF Counted
  <1>7. new.page \in Nat \ {0}
    BY <1>1, <1>2
  <1> QED BY <1>1, <1>3, <1>4, <1>6, <1>7 DEF Regular

(* How one pass goes through a step.                                         *)
Kept(old, new) ==
  /\ new.pc = old.pc /\ new.platform = old.platform /\ new.target = old.target
  /\ new.page = old.page /\ new.processed = old.processed /\ new.items = old.items
  /\ new.short = old.short /\ new.tried = old.tried /\ new.again = old.again
  /\ new.disturbed = old.disturbed

First(ps) ==
  /\ ps.page = 1 /\ ps.processed = 0 /\ ps.tried = {} /\ ps.again = FALSE
  /\ ps.pc = IF ps.platform \in Counted /\ ps.target = 0 THEN "end" ELSE "page"

Reads(r) == ReadPage(r) \/ SendPage(r) \/ FailPage(r)

Evolves(r) ==
  \/ pass'[r].pc \notin InPass
  \/ pass'[r].disturbed
  \/ catalog' = catalog /\ (Kept(pass[r], pass'[r]) \/ First(pass'[r]) \/ Reads(r))

LEMMA KeptRegular ==
  ASSUME NEW old, NEW new, Kept(old, new), Undisturbed(old)
  PROVE  Undisturbed(new)
  <1>1. Whole(new) => Whole(old)
    BY DEF Kept, Whole
  <1>2. Before(new) = Before(old)
    BY DEF Kept, Before
  <1>3. Steady(old) => Steady(new)
    BY <1>2 DEF Kept, Steady
  <1>4. Regular(old) => Regular(new)
    BY <1>2, <1>3 DEF Kept, Regular
  <1>5. new.disturbed = old.disturbed /\ new.pc = old.pc
    BY DEF Kept
  <1>6. new.pc \in InPass /\ ~new.disturbed /\ Whole(new) =>
          old.pc \in InPass /\ ~old.disturbed /\ Whole(old)
    BY <1>1, <1>5, Zenon
  <1> QED BY <1>4, <1>6, Zenon DEF Undisturbed

LEMMA FirstRegular ==
  ASSUME Shape, NEW ps, First(ps)
  PROVE  Undisturbed(ps)
  <1>1. SUFFICES ASSUME Whole(ps)
                 PROVE  Regular(ps)
    BY DEF Undisturbed
  <1>2. Before(ps) = 0
    BY BatchIs DEF Before, First
  <1>3. Rows(0, 0) = {}
    BY RowsJoin
  <1>4. CASE ps.platform \in Counted
    <2>1. /\ ps.target = Cardinality(catalog) /\ ps.target \in Nat /\ ps.target \in Multiples
      BY <1>1, <1>4, CatalogIs, WholeIsMultiple DEF Whole
    <2>2. ps.target = 0 => catalog = {}
      BY <2>1, CatalogIs, FS_EmptySet
    <2>3. 0 \in Multiples
      <3>1. \A b \in Nat : 0 * b = 0
        OBVIOUS
      <3>2. 0 * Batch \in Multiples
        BY Times
      <3> QED BY <3>1, <3>2, BatchIs
    <2>4. ps.target # 0 => Batch <= ps.target
      <3>1. ps.target # 0 => 0 + Batch <= ps.target
        BY <2>1, <2>3, MultiplesApart
      <3> QED BY <3>1, BatchIs
    <2>5. ps.target # 0 => Steady(ps)
      BY <1>2, <2>1, <2>3, <2>4, BatchIs DEF First, Steady
    <2> QED BY <1>2, <1>3, <1>4, <2>2, <2>5 DEF First, Regular
  <1>5. CASE ps.platform \notin Counted
    BY <1>2, <1>3, <1>5 DEF First, Regular
  <1> QED BY <1>4, <1>5

LEMMA ReadsRegular ==
  ASSUME Shape, NEW r \in Runners, Reads(r), Undisturbed(pass[r])
  PROVE  Undisturbed(pass'[r])
  <1>1. PICK old : old = pass[r]
    OBVIOUS
  <1>2. IsPass(old) /\ Undisturbed(old)
    BY <1>1 DEF Shape
  <1>3. CASE ReadPage(r)
    <2>1. PICK pc : pc = IF Page(old) = {} THEN "end" ELSE "send"
      OBVIOUS
    <2>2. PICK f : f = [i \in Page(old) |-> stock[i]]
      OBVIOUS
    <2>3. PICK short : short = (Cardinality(Page(old)) < Size(old))
      OBVIOUS
    <2>4. PICK ps : ps = [old EXCEPT !.pc = pc, !.items = f, !.short = short]
      OBVIOUS
    <2>5. pass' = [pass EXCEPT ![r].pc = pc, ![r].items = f, ![r].short = short]
      BY <1>1, <1>3, <2>1, <2>2, <2>3 DEF ReadPage
    <2>6. pass'[r] = ps
      BY <1>1, <2>4, <2>5 DEF Shape
    <2>7. ps.disturbed = old.disturbed /\ ps.platform = old.platform /\ ps.target = old.target
      BY <1>2, <2>4 DEF IsPass
    <2>8. old.pc = "page"
      BY <1>1, <1>3 DEF ReadPage
    <2>9. ASSUME ~ps.disturbed, Whole(ps)
          PROVE  Regular(ps)
      <3>1. Whole(old)
        BY <2>7, <2>9 DEF Whole
      <3>2. Regular(old)
        <4>1. ~old.disturbed
          BY <2>7, <2>9, Zenon
        <4> QED BY <1>2, <2>8, <3>1, <4>1 DEF Undisturbed, InPass
      <3>3. DOMAIN f = Page(old)
        BY <2>2
      <3> QED BY <1>2, <2>1, <2>3, <2>4, <2>8, <3>1, <3>2, <3>3, ReadRegular
    <2> QED BY <2>6, <2>9 DEF Undisturbed
  <1>4. CASE SendPage(r) \/ FailPage(r)
    <2>1. PICK ok \in BOOLEAN : pass' = [pass EXCEPT ![r] = NextPage(old, ok)]
      BY <1>1, <1>4 DEF SendPage, FailPage
    <2>2. PICK new : new = NextPage(old, ok)
      OBVIOUS
    <2>3. pass'[r] = new
      BY <2>1, <2>2 DEF Shape
    <2>4. /\ new.disturbed = old.disturbed /\ new.platform = old.platform
          /\ new.target = old.target
      BY <1>2, <2>2, NextPageIs
    <2>5. old.pc = "send"
      BY <1>1, <1>4 DEF SendPage, FailPage
    <2>6. ASSUME ~new.disturbed, Whole(new)
          PROVE  Regular(new)
      <3>1. Whole(old)
        BY <2>4, <2>6 DEF Whole
      <3>2. ~old.disturbed
        BY <2>4, <2>6, Zenon
      <3>3. Regular(old)
        BY <1>2, <2>5, <3>1, <3>2 DEF Undisturbed, InPass
      <3> QED BY <1>2, <2>2, <2>5, <3>1, <3>3, NextRegular
    <2> QED BY <2>3, <2>6 DEF Undisturbed
  <1> QED BY <1>3, <1>4 DEF Reads

LEMMA CatalogStays ==
  ASSUME [Next]_vars, \A i \in Products : ~ChangeCatalog(i)
  PROVE  catalog' = catalog
  <1>1. CASE UNCHANGED vars
    BY <1>1 DEF vars, passVars, goodsVars
  <1>2. CASE \/ Minute \/ (\E s \in Scheduled : TickStep(s)) \/ Backoff \/ RetryFailedJobs
             \/ (\E p \in Platforms : TriggerStockSync(p)) \/ Crash
             \/ (\E i \in Products : MoveStock(i))
    BY <1>2 DEF Minute, TickStep, CronTick, ProcessTenant, StampTick, EndTick, Backoff,
      RetryFailedJobs, TriggerStockSync, Crash, MoveStock, passVars, goodsVars
  <1>3. \A r : PassStep(r) => UNCHANGED catalog
    BY DEF PassStep, ReadPage, SendPage, FailPage, goodsVars
  <1>4. ASSUME NEW w \in Workers, WorkerStep(w) \/ FailJob(w)
        PROVE  UNCHANGED catalog
    BY <1>3, <1>4 DEF WorkerStep, TakeJob, StampPass, FinishJob, FailJob, goodsVars
  <1>5. ASSUME NEW q \in Requests, \/ SyncPricesStocks(q) \/ PassStep(q)
                                   \/ EndRequest(q) \/ EndUnstamped(q) \/ FailRequest(q)
        PROVE  UNCHANGED catalog
    BY <1>3, <1>5 DEF SyncPricesStocks, HoroshopPricesStocks, PromPricesStocks, WooCatalog,
      RozetkaPricesStocks, RequestPass, EndRequest, EndUnstamped, FailRequest, goodsVars
  <1>6. CASE Next
    BY <1>2, <1>4, <1>5, <1>6 DEF Next
  <1> QED BY <1>1, <1>6

(* Only one pass changes, and it is over.                                    *)
LEMMA LeavesEvolve ==
  ASSUME Shape, NEW q \in Runners, NEW r \in Runners, catalog' = catalog,
         Leave(q) \/ pass' = [pass EXCEPT ![q].pc = "finish"]
  PROVE  Evolves(r)
  <1>1. /\ \A s \in Runners \ {q} : pass'[s] = pass[s]
        /\ pass'[q].pc \in {"idle", "done", "finish"}
    BY LeaveFacts, StepFacts
  <1> QED BY <1>1 DEF Evolves, Kept, InPass

LEMMA BeginEvolves ==
  ASSUME Shape, NEW q \in Runners, NEW r \in Runners, NEW p, NEW limit, catalog' = catalog,
         BeginPass(q, p, limit)
  PROVE  Evolves(r)
  <1>1. PICK others : others = {s \in Runners \ {q} : Running(s) /\ pass[s].platform = p}
    OBVIOUS
  <1>2. PICK target : target = IF p \notin Counted THEN limit
                               ELSE IF limit = 0 THEN Cardinality(catalog)
                               ELSE Min({limit, Cardinality(catalog)})
    OBVIOUS
  <1>3. PICK pc : pc = IF p \in Counted /\ target = 0 THEN "end" ELSE "page"
    OBVIOUS
  <1>4. PICK ps : ps = [NoPass EXCEPT !.pc = pc, !.platform = p, !.target = target,
                                      !.overlapped = others]
    OBVIOUS
  <1>5. First(ps)
    BY <1>3, <1>4 DEF NoPass, First
  <1>6. pass' = [s \in Runners |-> IF s = q THEN ps
          ELSE [pass[s] EXCEPT !.overlapped = IF s \in others THEN @ \cup {q} ELSE @]]
    BY <1>1, <1>2, <1>3, <1>4 DEF BeginPass
  <1>7. CASE r = q
    BY <1>5, <1>6, <1>7 DEF Evolves
  <1>8. CASE r # q
    <2>1. PICK old : old = pass[r]
      OBVIOUS
    <2>2. PICK over : over = IF r \in others THEN old.overlapped \cup {q} ELSE old.overlapped
      OBVIOUS
    <2>3. pass'[r] = [old EXCEPT !.overlapped = over]
      BY <1>6, <1>8, <2>1, <2>2
    <2>4. IsPass(old)
      BY <2>1 DEF Shape
    <2>5. Kept(old, [old EXCEPT !.overlapped = over])
      BY <2>4 DEF IsPass, Kept
    <2> QED BY <2>1, <2>3, <2>5 DEF Evolves
  <1> QED BY <1>7, <1>8

LEMMA ReadsEvolve ==
  ASSUME Shape, NEW q \in Runners, NEW r \in Runners, PassStep(q)
  PROVE  Evolves(r)
  <1>1. Reads(q) /\ catalog' = catalog
    BY DEF PassStep, Reads, ReadPage, SendPage, FailPage, goodsVars
  <1>2. r # q => pass'[r] = pass[r]
    BY ReadFacts, SendFacts DEF PassStep, Goes
  <1> QED BY <1>1, <1>2 DEF Evolves, Kept

LEMMA CrashEvolves ==
  ASSUME Crash, NEW r \in Runners
  PROVE  Evolves(r)
  <1>1. PICK pc : pc = IF r \in Workers \/ pass[r].pc = "idle" THEN "idle" ELSE "done"
    OBVIOUS
  <1>2. pass'[r] = [NoPass EXCEPT !.pc = pc]
    BY <1>1 DEF Crash
  <1>3. pass'[r].pc = pc
    BY <1>2 DEF NoPass
  <1> QED BY <1>1, <1>3 DEF Evolves, InPass

LEMMA ChangeEvolves ==
  ASSUME Shape, NEW i, ChangeCatalog(i), NEW r \in Runners
  PROVE  Evolves(r)
  <1>1. PICK old : old = pass[r]
    OBVIOUS
  <1>2. PICK b : b = Running(r)
    OBVIOUS
  <1>3. pass'[r] = [old EXCEPT !.disturbed = b] /\ IsPass(old)
    BY <1>1, <1>2 DEF ChangeCatalog, Shape
  <1>4. pass'[r].pc = old.pc /\ pass'[r].disturbed = b
    BY <1>3 DEF IsPass
  <1>5. Running(r) \/ pass'[r].pc \notin InPass
    BY <1>1, <1>4 DEF Running, InPass
  <1>6. Running(r) => pass'[r].disturbed
    BY <1>2, <1>4, Zenon
  <1> QED BY <1>5, <1>6, Zenon DEF Evolves

LEMMA StepEvolves ==
  ASSUME Shape, [Next]_vars, NEW r \in Runners
  PROVE  Evolves(r)
  <1>1. CASE \E i \in Products : ChangeCatalog(i)
    BY <1>1, ChangeEvolves
  <1>2. CASE \A i \in Products : ~ChangeCatalog(i)
    <2>0. catalog' = catalog /\ Workers \subseteq Runners /\ Requests \subseteq Runners
      BY <1>2, CatalogStays, RunnersAre
    <2>1. CASE pass' = pass
      BY <2>0, <2>1 DEF Evolves, Kept
    <2>2. CASE UNCHANGED vars
      BY <2>1, <2>2 DEF vars, passVars
    <2>3. CASE \/ Minute \/ (\E s \in Scheduled : TickStep(s)) \/ Backoff \/ RetryFailedJobs
               \/ (\E p \in Platforms : TriggerStockSync(p)) \/ (\E i \in Products : MoveStock(i))
      BY <2>1, <2>3 DEF Minute, TickStep, CronTick, ProcessTenant, StampTick, EndTick, Backoff,
        RetryFailedJobs, TriggerStockSync, MoveStock, passVars
    <2>4. ASSUME NEW w \in Workers, WorkerStep(w) \/ FailJob(w)
          PROVE  Evolves(r)
      <3>1. CASE TakeJob(w)
        <4>1. Execute(w, Head(waiting))
          BY <3>1 DEF TakeJob
        <4>2. \/ pass' = [pass EXCEPT ![w].pc = "finish"]
              \/ BeginPass(w, Head(waiting).platform, Head(waiting).limit)
          BY <4>1 DEF Execute
        <4> QED BY <2>0, <4>2, LeavesEvolve, BeginEvolves
      <3>2. CASE PassStep(w)
        BY <2>0, <3>2, ReadsEvolve
      <3>3. CASE StampPass(w)
        BY <2>0, <3>3, LeavesEvolve DEF StampPass
      <3>4. CASE FinishJob(w)
        BY <2>0, <3>4, LeavesEvolve DEF FinishJob
      <3>5. CASE FailJob(w)
        BY <2>0, <3>5, LeavesEvolve DEF FailJob, Throw
      <3> QED BY <2>4, <3>1, <3>2, <3>3, <3>4, <3>5 DEF WorkerStep
    <2>5. ASSUME NEW q \in Requests, \/ SyncPricesStocks(q) \/ PassStep(q)
                                     \/ EndRequest(q) \/ EndUnstamped(q) \/ FailRequest(q)
          PROVE  Evolves(r)
      <3>1. CASE SyncPricesStocks(q)
        <4>1. PICK p, limit : BeginPass(q, p, limit)
          BY <3>1 DEF SyncPricesStocks, HoroshopPricesStocks, PromPricesStocks, WooCatalog,
            RozetkaPricesStocks, RequestPass
        <4> QED BY <2>0, <4>1, BeginEvolves
      <3>2. CASE PassStep(q)
        BY <2>0, <3>2, ReadsEvolve
      <3>3. CASE EndRequest(q) \/ EndUnstamped(q) \/ FailRequest(q)
        BY <2>0, <3>3, LeavesEvolve DEF EndRequest, EndUnstamped, FailRequest, Throw
      <3> QED BY <2>5, <3>1, <3>2, <3>3
    <2>6. CASE Crash
      BY <2>6, CrashEvolves
    <2>7. CASE Next
      BY <1>2, <2>3, <2>4, <2>5, <2>6, <2>7 DEF Next
    <2> QED BY <2>2, <2>7
  <1> QED BY <1>1, <1>2

-----------------------------------------------------------------------------
(* A pass is complete.                                                       *)

PassInv == Shape /\ \A r \in Runners : Undisturbed(pass[r])

LEMMA PassNext ==
  ASSUME PassInv, [Next]_vars
  PROVE  PassInv'
  <1>1. Shape /\ Shape'
    BY ShapeNext DEF PassInv
  <1>2. ASSUME NEW r \in Runners
        PROVE  Undisturbed(pass[r])'
    <2>1. Undisturbed(pass[r]) /\ Evolves(r)
      BY <1>1, StepEvolves DEF PassInv
    <2>2. CASE pass'[r].pc \notin InPass \/ pass'[r].disturbed
      BY <2>2 DEF Undisturbed, InPass
    <2>3. CASE catalog' = catalog /\ (Kept(pass[r], pass'[r]) \/ First(pass'[r]) \/ Reads(r))
      <3>1. PICK ps : ps = pass'[r]
        OBVIOUS
      <3>2. Undisturbed(ps)
        BY <1>1, <2>1, <2>3, <3>1, KeptRegular, FirstRegular, ReadsRegular
      <3>3. \A a, b : Rows(a, b)' = Rows(a, b)
        BY <2>3 DEF Rows, Rank
      <3>4. Undisturbed(pass[r])' <=> Undisturbed(ps)
        BY <2>3, <3>1, <3>3 DEF Undisturbed, Whole, Regular, Before, Steady, InPass
      <3> QED BY <3>2, <3>4
    <2> QED BY <2>1, <2>2, <2>3 DEF Evolves
  <1> QED BY <1>1, <1>2 DEF PassInv

(* A pass over a catalogue that does not change tries every product, and     *)
(* each once.                                                                *)
THEOREM PassIsComplete == Spec => []CompletePass
  <1>1. Init => PassInv
    <2>1. SUFFICES ASSUME Init
                   PROVE  PassInv
      OBVIOUS
    <2>2. Shape
      BY <2>1, StockInit DEF StockInv
    <2>3. \A r \in Runners : pass[r].pc \notin InPass
      BY <2>1, NoPassIs DEF Init, PassInit, InPass
    <2> QED BY <2>2, <2>3 DEF PassInv, Undisturbed
  <1>2. PassInv /\ [Next]_vars => PassInv'
    BY PassNext
  <1>3. PassInv => CompletePass
    <2>1. SUFFICES ASSUME PassInv, NEW r \in Runners, NEW ps, ps = pass[r],
                          ps.pc = "end", ~ps.disturbed, Whole(ps)
                   PROVE  ps.tried = catalog /\ ~ps.again
      BY DEF CompletePass, Whole
    <2>2. Regular(ps)
      BY <2>1 DEF PassInv, Undisturbed, InPass
    <2> QED BY <2>1, <2>2 DEF Regular
  <1> QED BY <1>1, <1>2, <1>3, PTL DEF Spec
=============================================================================
