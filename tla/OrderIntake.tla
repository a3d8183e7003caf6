----------------------------- MODULE OrderIntake -----------------------------
(***************************************************************************)
(* How an order placed in a shop reaches the tenant's stock.  Webhook      *)
(* handlers (Prom, Horoshop, WooCommerce, Rozetka) and polls (scheduler    *)
(* tick or POST sync/orders) run concurrently in one Node process.  Each    *)
(* remembers the order in processedOrderCache, finds the products of its   *)
(* lines, and                                                              *)
(*   - mode 1: deducts every line from name2ost by a SELECT and an UPDATE; *)
(*   - mode 2: writes a draft document, and the same stock, in one         *)
(*     transaction that holds the row of the document counter ndok.        *)
(*                                                                         *)
(* Every await is a step boundary.  Rozetka orders by-pass the cache, and  *)
(* so does a webhook whose payload has no order id.  One tenant, whose     *)
(* shops may differ in their mode.                                         *)
(***************************************************************************)
EXTENDS Integers, Sequences, FiniteSets, SequencesExt, FiniteSetsExt

CONSTANTS
  Hooks,        \* deliveries of order webhooks
  Polls,        \* loops that poll a shop for orders
  Orders,
  Listed,       \* the orders of the shop that a poll asks
  Rozetka,      \* the orders of the Rozetka channel
  Unnamed,      \* orders whose webhook payload has no id
  Lines,        \* the lines of each order, a sequence of [item, qty]
  Items,        \* products
  InitialStock, \* of each product
  MaxCache,     \* size of processedOrderCache (10000)
  PageSize,     \* orders a poll asks for (20, 50)
  Documented,   \* the orders of shops that create documents (mode 2)
  None,
  Events,       \* "crash": the process restarts, "query": a query fails
  MaxEvents     \* bound: how many of them happen

Workers == Hooks \cup Polls

ASSUME OrderAssumption ==
  /\ Hooks \cap Polls = {} /\ IsFiniteSet(Orders)
  /\ Rozetka \subseteq Orders /\ Unnamed \subseteq Orders
  /\ Documented \subseteq Orders \ Rozetka
  /\ Listed \in [Polls -> SUBSET (Orders \ Unnamed)]
  /\ None \notin Workers \cup Orders
ASSUME LinesAssumption ==
  /\ Lines \in [Orders -> Seq([item : Items, qty : Nat])]
  /\ InitialStock \in [Items -> Nat]
ASSUME LimitAssumption ==
  /\ MaxCache \in Nat \ {0} /\ PageSize \in Nat \ {0}
  /\ Events \subseteq {"crash", "query"} /\ MaxEvents \in Nat

VARIABLES
  platform,   \* state of each order in its shop: "new", "pending", "closed"
  cache,      \* processedOrderCache in insertion order
  pc, loc,    \* next step and locals of each worker
  stock,      \* name2ost
  docLock,    \* the worker whose transaction holds the row of ndok
  ndok,       \* last document number
  docs,       \* drafts written: [n, order]
  left,       \* events that may still happen
  \* history, read by the properties only
  marked,     \* the orders remembered since the process started
  forgotten,  \* the orders that fell out of the cache, or were in it at a crash
  applied,    \* how often each line was deducted
  overlapped  \* the products of which two deductions ever overlapped

cacheVars == <<cache, marked, forgotten>>
jobVars == <<platform, cacheVars>>
stockVars == <<stock, docLock, ndok, docs, applied, overlapped>>
vars == <<jobVars, pc, loc, stockVars, left>>

LineIds == UNION {{o} \X DOMAIN Lines[o] : o \in Orders}

(* The order at hand (None if none), the orders a poll has still to handle, *)
(* the lines whose product was found and that are still to be deducted, the *)
(* stock read for the first of them or the number of the document; the      *)
(* snapshot of a transaction, the stock and the lines it has written.       *)
NoLocals == [order |-> None, rest |-> {}, todo |-> {}, read |-> 0,
             snap |-> InitialStock, tx |-> <<>>, written |-> {}]

Init ==
  /\ platform = [o \in Orders |-> "new"]
  /\ cache = <<>> /\ marked = <<>> /\ forgotten = {}
  /\ pc = [w \in Workers |-> "idle"]
  /\ loc = [w \in Workers |-> NoLocals]
  /\ stock = InitialStock
  /\ docLock = None /\ ndok = 0 /\ docs = {}
  /\ applied = [id \in LineIds |-> 0]
  /\ overlapped = {}
  /\ left = MaxEvents

Event(kind) == kind \in Events /\ left > 0 /\ left' = left - 1

Goto(w, l) == pc' = [pc EXCEPT ![w] = l]

-----------------------------------------------------------------------------
(* markOrderProcessed.                                                      *)

Known(o) == o \in ToSet(cache)

RememberOffByOne(o) ==  \* mutant: >= for >
  LET c == Append(cache, o) IN IF Len(c) >= MaxCache THEN Tail(c) ELSE c

(* The oldest entry goes when the set has grown beyond its limit.           *)
Remember(o) ==
  LET c == Append(cache, o) IN IF Len(c) > MaxCache THEN Tail(c) ELSE c

(* Rozetka's own code has no such test, and a webhook skips it without id.  *)
Unchecked(o) == o \in Rozetka \cup Unnamed

Accept(w, o, rest, l) ==
  /\ Goto(w, l)
  /\ loc' = [loc EXCEPT ![w] = [NoLocals EXCEPT !.order = o, !.rest = rest]]
  /\ IF Unchecked(o)
     THEN UNCHANGED cacheVars
     ELSE /\ cache' = Remember(o)
          /\ marked' = Append(marked, o)
          /\ forgotten' = forgotten \cup (ToSet(cache) \ ToSet(cache'))

-----------------------------------------------------------------------------
(* handleOrderWebhook of Prom, Horoshop and WooCommerce: the shop delivers  *)
(* an order, once, several times or late.  The order is remembered before   *)
(* anything is awaited on its behalf.                                       *)
OrderWebhook(h) ==
  /\ h \in Hooks /\ pc[h] = "idle"
  /\ \E o \in Orders \ Rozetka :
       /\ platform[o] # "new"
       /\ IF ~Unchecked(o) /\ Known(o)
          THEN Goto(h, "done") /\ UNCHANGED <<loc, cacheVars>>
          ELSE Accept(h, o, {}, "integration")
  /\ UNCHANGED <<platform, stockVars, left>>

(* Rozetka's goes to the lines at once, which hold the products' codes.     *)
RozetkaWebhook(h) ==
  /\ h \in Hooks /\ pc[h] = "idle"
  /\ \E o \in Rozetka : platform[o] # "new" /\ Accept(h, o, {}, "resolve")
  /\ UNCHANGED <<platform, stockVars, left>>

(* resolveIntegration, in a webhook: when it throws the answer is a 500,    *)
(* and the order stays remembered.                                          *)
FindIntegration(h) ==
  /\ h \in Hooks /\ pc[h] = "integration"
  /\ \/ Goto(h, "resolve") /\ left' = left
     \/ Goto(h, "done") /\ Event("query")
  /\ UNCHANGED <<jobVars, loc, stockVars>>

(* getOrders of the shop: the orders that nobody has handled yet, and no    *)
(* more than a page of them.  Which ones is up to the shop.                 *)
Pages(q) ==
  LET pending == {o \in Listed[q] : platform[o] = "pending"}
  IN kSubset(Min({PageSize, Cardinality(pending)}), pending) \ {{}}

(* syncOrders asks for it.                                                  *)
FetchOrders(q) ==
  /\ q \in Polls /\ pc[q] = "idle"
  /\ \E page \in Pages(q) : loc' = [loc EXCEPT ![q].rest = page]
  /\ Goto(q, "integration")
  /\ UNCHANGED <<jobVars, stockVars, left>>

(* resolveIntegration, in a poll: when it throws the poll ends.             *)
FindPollIntegration(q) ==
  /\ q \in Polls /\ pc[q] = "integration"
  /\ \/ Goto(q, "next") /\ UNCHANGED <<loc, left>>
     \/ /\ Goto(q, "idle") /\ Event("query")
        /\ loc' = [loc EXCEPT ![q] = NoLocals]
  /\ UNCHANGED <<jobVars, stockVars>>

SkipOrderBreaks(q) ==  \* mutant: break for continue
  /\ pc[q] = "next"
  /\ \E o \in loc[q].rest : ~Unchecked(o) /\ Known(o)
  /\ Goto(q, "idle")
  /\ loc' = [loc EXCEPT ![q] = NoLocals]
  /\ UNCHANGED <<jobVars, stockVars, left>>

(* The loop of syncOrders: an order that is remembered is passed over, ...  *)
SkipOrder(q) ==
  /\ pc[q] = "next"
  /\ \E o \in loc[q].rest :
       /\ ~Unchecked(o) /\ Known(o)
       /\ loc' = [loc EXCEPT ![q].rest = @ \ {o}]
  /\ UNCHANGED <<jobVars, pc, stockVars, left>>

TakeOrderUnchecked(q) ==  \* mutant: only the webhook looks at the cache
  /\ pc[q] = "next"
  /\ \E o \in loc[q].rest : Accept(q, o, loc[q].rest \ {o}, "resolve")
  /\ UNCHANGED <<platform, stockVars, left>>

(* ... another is handled, and the next one waits until that has ended.     *)
TakeOrder(q) ==
  /\ pc[q] = "next"
  /\ \E o \in loc[q].rest :
       /\ Unchecked(o) \/ ~Known(o)
       /\ Accept(q, o, loc[q].rest \ {o}, "resolve")
  /\ UNCHANGED <<platform, stockVars, left>>

EndPoll(q) ==
  /\ pc[q] = "next" /\ loc[q].rest = {}
  /\ Goto(q, "idle")
  /\ UNCHANGED <<jobVars, loc, stockVars, left>>

-----------------------------------------------------------------------------
(* processIncomingOrder.                                                    *)

Line(w) == Lines[loc[w].order][Min(loc[w].todo)]

(* The line at hand is done with, or given up: its failure is a warning and *)
(* the order still succeeds.                                                *)
Advance(w) == loc' = [loc EXCEPT ![w].todo = @ \ {Min(@)}]

(* A worker has handled its order.                                          *)
Finish(w) ==
  /\ Goto(w, IF w \in Polls THEN "next" ELSE "done")
  /\ loc' = [loc EXCEPT ![w] = [NoLocals EXCEPT !.rest = loc[w].rest]]

(* resolveProductTcod, for every line.  A line without a product, or whose  *)
(* search fails, is skipped.                                                *)
ResolveLines(w) ==
  /\ pc[w] = "resolve"
  /\ LET all == DOMAIN Lines[loc[w].order]
     IN \E found \in SUBSET all :
          /\ loc' = [loc EXCEPT ![w].todo = {i \in found : Lines[loc[w].order][i].qty > 0}]
          /\ IF found = all THEN left' = left ELSE Event("query")
  /\ Goto(w, IF loc[w].order \in Documented THEN "begin" ELSE "deduct")
  /\ UNCHANGED <<jobVars, stockVars>>

Remaining(old, qty) == IF old > qty THEN old - qty ELSE 0

(* The workers between their read of a product's stock and their write.     *)
InWindow(w, item) ==
  \/ pc[w] = "write" /\ Line(w).item = item
  \/ pc[w] = "lines"
       /\ \E i \in DOMAIN Lines[loc[w].order] : Lines[loc[w].order][i].item = item

Overlap(w, items) ==
  overlapped' = overlapped \cup {i \in items : \E v \in Workers \ {w} : InWindow(v, i)}

(* deductStock, its SELECT.                                                 *)
ReadStock(w) ==
  /\ pc[w] = "deduct" /\ loc[w].todo # {}
  /\ \/ /\ loc' = [loc EXCEPT ![w].read = stock[Line(w).item]]
        /\ Goto(w, "write")
        /\ Overlap(w, {Line(w).item})
        /\ left' = left
     \/ /\ Advance(w) /\ Event("query")
        /\ UNCHANGED <<pc, overlapped>>
  /\ UNCHANGED <<jobVars, stock, docLock, ndok, docs, applied>>

(* deductStock, its UPDATE: it waits for a transaction that has written the *)
(* same row.                                                                *)
WriteStock(w) ==
  /\ pc[w] = "write"
  /\ \A v \in Workers : Line(w).item \notin DOMAIN loc[v].tx
  /\ \/ /\ stock' = [stock EXCEPT ![Line(w).item] = Remaining(loc[w].read, Line(w).qty)]
        /\ applied' = [applied EXCEPT ![<<loc[w].order, Min(loc[w].todo)>>] = @ + 1]
        /\ left' = left
     \/ Event("query") /\ UNCHANGED <<stock, applied>>
  /\ Advance(w)
  /\ Goto(w, "deduct")
  /\ UNCHANGED <<jobVars, docLock, ndok, docs, overlapped>>

EndOrder(w) ==
  /\ pc[w] = "deduct" /\ loc[w].todo = {}
  /\ Finish(w)
  /\ UNCHANGED <<jobVars, stockVars, left>>

-----------------------------------------------------------------------------
(* createOrderDocument.                                                     *)

BeginUnlocked(w) ==  \* mutant: no FOR UPDATE
  /\ pc[w] = "begin"
  /\ loc' = [loc EXCEPT ![w].read = ndok + 1]
  /\ Goto(w, "snapshot")
  /\ UNCHANGED <<jobVars, stockVars, left>>

(* SELECT n_dok ... FOR UPDATE, and the number the document will have.      *)
BeginDocument(w) ==
  /\ pc[w] = "begin" /\ docLock = None
  /\ docLock' = w
  /\ loc' = [loc EXCEPT ![w].read = ndok + 1]
  /\ Goto(w, "snapshot")
  /\ UNCHANGED <<jobVars, stock, ndok, docs, applied, overlapped, left>>

(* The first plain SELECT fixes what the transaction sees (REPEATABLE READ).*)
TakeSnapshot(w) ==
  /\ pc[w] = "snapshot"
  /\ loc' = [loc EXCEPT ![w].snap = stock]
  /\ Overlap(w, {Lines[loc[w].order][i].item : i \in loc[w].todo})
  /\ Goto(w, "lines")
  /\ UNCHANGED <<jobVars, stock, docLock, ndok, docs, applied, left>>

SeenOutside(w, item) == stock[item]  \* mutant: SELECT on another connection

(* What the transaction of w sees of a product's stock.                     *)
Seen(w, item) == IF item \in DOMAIN loc[w].tx THEN loc[w].tx[item] ELSE loc[w].snap[item]

(* One line: its row of the document, its SELECT and its UPDATE, which      *)
(* locks the row of the stock.                                              *)
DocumentLine(w) ==
  /\ pc[w] = "lines" /\ loc[w].todo # {}
  /\ LET item == Line(w).item
         tx == loc[w].tx
     IN /\ \A v \in Workers \ {w} : item \notin DOMAIN loc[v].tx
        /\ loc' = [loc EXCEPT
             ![w].tx = [i \in DOMAIN tx \cup {item} |->
                          IF i = item THEN Remaining(Seen(w, i), Line(w).qty) ELSE tx[i]],
             ![w].written = @ \cup {<<loc[w].order, Min(loc[w].todo)>>},
             ![w].todo = @ \ {Min(@)}]
  /\ UNCHANGED <<jobVars, pc, stockVars, left>>

Commit(w) ==
  /\ pc[w] = "lines" /\ loc[w].todo = {}
  /\ stock' = [i \in Items |-> IF i \in DOMAIN loc[w].tx THEN loc[w].tx[i] ELSE stock[i]]
  /\ ndok' = loc[w].read
  /\ docs' = docs \cup {[n |-> loc[w].read, order |-> loc[w].order]}
  /\ applied' = [id \in LineIds |->
                  applied[id] + (IF id \in loc[w].written THEN 1 ELSE 0)]
  /\ docLock' = None
  /\ Finish(w)
  /\ UNCHANGED <<jobVars, overlapped, left>>

(* A statement fails: rollback, and the order ends without success.         *)
Rollback(w) ==
  /\ pc[w] \in {"begin", "snapshot", "lines"}
  /\ Event("query")
  /\ docLock' = IF docLock = w THEN None ELSE docLock
  /\ Finish(w)
  /\ UNCHANGED <<jobVars, stock, ndok, docs, applied, overlapped>>

-----------------------------------------------------------------------------
(* The environment.                                                         *)

PlaceOrder(o) ==
  /\ platform[o] = "new"
  /\ platform' = [platform EXCEPT ![o] = "pending"]
  /\ UNCHANGED <<cacheVars, pc, loc, stockVars, left>>

(* A manager handles the order in the shop: polls no longer list it.        *)
CloseOrder(o) ==
  /\ platform[o] = "pending"
  /\ platform' = [platform EXCEPT ![o] = "closed"]
  /\ UNCHANGED <<cacheVars, pc, loc, stockVars, left>>

(* The process restarts: the cache is gone, MariaDB rolls back.             *)
Crash ==
  /\ Event("crash")
  /\ cache' = <<>> /\ marked' = <<>> /\ forgotten' = forgotten \cup ToSet(cache)
  /\ pc' = [w \in Workers |-> IF w \in Polls \/ pc[w] = "idle" THEN "idle" ELSE "done"]
  /\ loc' = [w \in Workers |-> NoLocals]
  /\ docLock' = None
  /\ UNCHANGED <<platform, stock, ndok, docs, applied, overlapped>>

-----------------------------------------------------------------------------
NextOrder(q) == SkipOrder(q) \/ TakeOrder(q) \/ EndPoll(q)

Deduct(w) == ReadStock(w) \/ WriteStock(w) \/ EndOrder(w)

Document(w) ==
  BeginDocument(w) \/ TakeSnapshot(w) \/ DocumentLine(w) \/ Commit(w) \/ Rollback(w)

Step(w) ==
  \/ FindIntegration(w) \/ FetchOrders(w) \/ FindPollIntegration(w) \/ NextOrder(w)
  \/ ResolveLines(w) \/ Deduct(w) \/ Document(w)

Next ==
  \/ \E w \in Workers : OrderWebhook(w) \/ RozetkaWebhook(w) \/ Step(w)
  \/ \E o \in Orders : PlaceOrder(o) \/ CloseOrder(o)
  \/ Crash

Spec == Init /\ [][Next]_vars

(* The event loop keeps running what it has started and the scheduler polls *)
(* every 15 minutes; nobody has to deliver a webhook.                       *)
FairSpec == Spec /\ \A w \in Workers : WF_vars(Step(w))

-----------------------------------------------------------------------------
(* What all the deductions so far come to.                                  *)
Deducted(item) ==
  MapThenSumSet(LAMBDA id : applied[id] * Lines[id[1]][id[2]].qty,
                {id \in LineIds : Lines[id[1]][id[2]].item = item})

(* No line of an order is deducted twice while the cache remembers it,      *)
(* however often its webhook is delivered and whichever polls list it at    *)
(* the same time (markOrderProcessed is called before the first await).     *)
DeductedOnce ==
  \A id \in LineIds :
    id[1] \notin forgotten \cup Rozetka \cup Unnamed => applied[id] <= 1

(* Between two deductions of one order in the life of a process at least    *)
(* MaxCache other orders came in: the cache forgets oldest first and never  *)
(* early (markOrderProcessed).                                              *)
RecentNeverRepeated ==
  \A i, j \in DOMAIN marked :
    i < j /\ marked[i] = marked[j] =>
      Cardinality({marked[k] : k \in (i + 1)..(j - 1)}) >= MaxCache

(* Stock goes down by exactly what was deducted, and not below zero, unless *)
(* two deductions of one product overlapped (deductStock and                *)
(* createOrderDocument between their SELECT and their UPDATE).              *)
StockExact ==
  \A i \in Items \ overlapped : stock[i] = Max({0, InitialStock[i] - Deducted(i)})

(* Two documents never get the same number, and the counter is never behind *)
(* them (SELECT ... FOR UPDATE on ndok).                                    *)
DocNumbersUnique ==
  /\ \A d, e \in docs : d.n = e.n => d = e
  /\ \A d \in docs : d.n <= ndok

(* A product sold only through documents loses no deduction to a race: the  *)
(* lock on the counter serializes the transactions, stock included.         *)
DocumentsSerialize ==
  \A i \in overlapped : \E id \in LineIds :
    Lines[id[1]][id[2]].item = i /\ id[1] \notin Documented

(* An order that polls can see is deducted in full, although the process    *)
(* may restart at any point, unless the shop stops listing it first         *)
(* (syncOrders after a restart finds an empty cache).                       *)
PendingGetsDeducted ==
  \A o \in Orders :
    platform[o] = "pending" ~>
      \/ platform[o] = "closed"
      \/ \A i \in DOMAIN Lines[o] : applied[<<o, i>>] > 0
=============================================================================
