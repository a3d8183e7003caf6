------------------------- MODULE OrderIntake_proofs -------------------------
(* Theorems about OrderIntake, for any number of deliveries, polls, orders,  *)
(* lines and failures, and any size of the cache.                            *)
EXTENDS OrderIntake, FiniteSetTheorems, FunctionTheorems, WellFoundedInduction, TLAPS

Labels == {"idle", "integration", "next", "resolve", "deduct", "write", "begin", "snapshot",
           "lines", "done"}

(* A transaction has written some products.                                  *)
Writes == UNION {[I -> Nat] : I \in SUBSET Items}

Locals == [order : Orders \cup {None}, rest : SUBSET Orders, todo : SUBSET Nat, read : Nat,
           snap : [Items -> Nat], tx : Writes, written : SUBSET LineIds]

TypeInv ==
  /\ platform \in [Orders -> {"new", "pending", "closed"}]
  /\ cache \in Seq(Orders) /\ marked \in Seq(Orders) /\ forgotten \subseteq Orders
  /\ pc \in [Workers -> Labels] /\ loc \in [Workers -> Locals]
  /\ stock \in [Items -> Nat] /\ docLock \in Workers \cup {None} /\ ndok \in Nat
  /\ docs \subseteq [n : Nat, order : Orders]
  /\ applied \in [LineIds -> Nat] /\ overlapped \subseteq Items
  /\ left \in Nat

(* What a worker at step l with locals r may rely on.                        *)
Flow(w, l, r) ==
  /\ l \in {"deduct", "write", "begin", "snapshot", "lines"}
       => r.order \in Orders /\ r.todo \subseteq DOMAIN Lines[r.order]
  /\ l = "resolve" => r.order \in Orders
  /\ w \in Hooks /\ l = "integration" => r.order \in Orders
  /\ l \in {"deduct", "write"} => r.order \notin Documented
  /\ l \in {"begin", "snapshot", "lines"} => r.order \in Documented
  /\ l = "write" => r.todo # {}
  /\ l = "next" => w \in Polls

FlowInv == \A w \in Workers : Flow(w, pc[w], loc[w])

-----------------------------------------------------------------------------
(* Helpers.                                                                  *)

LEMMA MinIsMember ==
  ASSUME NEW S \in SUBSET Nat, S # {}
  PROVE  Min(S) \in S
  <1>1. PICK x \in S : \A y \in S : ~(<<y, x>> \in OpToRel(<, Nat))
    BY NatLessThanWellFounded, WFMin
  <1>2. \A y \in S : x <= y
    <2> TAKE y \in S
    <2>1. <<y, x>> \in Nat \X Nat
      OBVIOUS
    <2>2. ~(y < x)
      BY <1>1, <2>1 DEF OpToRel
    <2> QED BY <2>2
  <1> QED BY <1>2 DEF Min

LEMMA SeqElement ==
  ASSUME NEW T, NEW s \in Seq(T), NEW i \in DOMAIN s
  PROVE  s[i] \in T
  OBVIOUS

LEMMA LinesType ==
  ASSUME NEW o \in Orders
  PROVE  /\ Lines[o] \in Seq([item : Items, qty : Nat])
         /\ DOMAIN Lines[o] \subseteq Nat
         /\ \A i \in DOMAIN Lines[o] :
              /\ Lines[o][i] \in [item : Items, qty : Nat]
              /\ <<o, i>> \in LineIds
  <1>1. Lines[o] \in Seq([item : Items, qty : Nat])
    BY LinesAssumption
  <1>2. DOMAIN Lines[o] \subseteq Nat
    BY <1>1
  <1>3. \A i \in DOMAIN Lines[o] : Lines[o][i] \in [item : Items, qty : Nat]
    BY <1>1, SeqElement
  <1>4. \A i \in DOMAIN Lines[o] : <<o, i>> \in LineIds
    BY DEF LineIds
  <1> QED BY <1>1, <1>2, <1>3, <1>4

(* The line at hand is one of the order at hand.                             *)
LEMMA LineType ==
  ASSUME TypeInv, FlowInv, NEW w \in Workers, loc[w].todo # {},
         pc[w] \in {"deduct", "write", "lines"}
  PROVE  /\ loc[w].order \in Orders
         /\ Min(loc[w].todo) \in loc[w].todo
         /\ Min(loc[w].todo) \in DOMAIN Lines[loc[w].order]
         /\ <<loc[w].order, Min(loc[w].todo)>> \in LineIds
         /\ Line(w) \in [item : Items, qty : Nat]
  <1>1. /\ loc[w].order \in Orders
        /\ loc[w].todo \subseteq DOMAIN Lines[loc[w].order]
    BY DEF FlowInv, Flow
  <1>2. Min(loc[w].todo) \in loc[w].todo
    BY MinIsMember DEF TypeInv, Locals
  <1>3. Min(loc[w].todo) \in DOMAIN Lines[loc[w].order]
    BY <1>1, <1>2
  <1> QED BY <1>1, <1>2, <1>3, LinesType DEF Line

LEMMA RemainingType ==
  ASSUME NEW old \in Nat, NEW qty \in Nat
  PROVE  Remaining(old, qty) \in Nat
  BY DEF Remaining

LEMMA NoLocalsType ==
  /\ NoLocals \in Locals
  /\ \A rest \in SUBSET Orders : [NoLocals EXCEPT !.rest = rest] \in Locals
  <1>1. <<>> \in [{} -> Nat]
    OBVIOUS
  <1>2. <<>> \in Writes
    BY <1>1 DEF Writes
  <1> QED BY <1>2, LinesAssumption DEF NoLocals, Locals

(* A step of one worker: it suffices to look at its own new step and locals. *)
LEMMA MoveType ==
  ASSUME TypeInv, FlowInv, NEW w \in Workers, NEW l \in Labels, NEW r \in Locals,
         pc' = [pc EXCEPT ![w] = l], loc' = [loc EXCEPT ![w] = r], Flow(w, l, r)
  PROVE  pc' \in [Workers -> Labels] /\ loc' \in [Workers -> Locals] /\ FlowInv'
  BY DEF TypeInv, FlowInv

LEMMA EventType ==
  ASSUME TypeInv, NEW kind, Event(kind)
  PROVE  left' \in Nat
  BY DEF TypeInv, Event

LEMMA AcceptType ==
  ASSUME TypeInv, FlowInv, NEW w \in Workers, NEW o \in Orders, NEW rest \in SUBSET Orders,
         NEW l \in {"integration", "resolve"}, Accept(w, o, rest, l)
  PROVE  /\ pc' \in [Workers -> Labels] /\ loc' \in [Workers -> Locals] /\ FlowInv'
         /\ cache' \in Seq(Orders) /\ marked' \in Seq(Orders) /\ forgotten' \subseteq Orders
  <1> DEFINE r == [NoLocals EXCEPT !.order = o, !.rest = rest]
  <1>1. r \in Locals /\ r.order = o /\ r.todo = {}
    BY NoLocalsType DEF Locals, NoLocals
  <1>2. Flow(w, l, r)
    BY <1>1 DEF Flow
  <1>3. pc' \in [Workers -> Labels] /\ loc' \in [Workers -> Locals] /\ FlowInv'
    BY <1>1, <1>2, MoveType DEF Accept, Goto, Labels
  <1>4. /\ cache' \in Seq(Orders) /\ marked' \in Seq(Orders) /\ forgotten' \subseteq Orders
    <2>1. CASE Unchecked(o)
      BY <2>1 DEF Accept, TypeInv, cacheVars
    <2>2. CASE ~Unchecked(o)
      <3>1. Append(cache, o) \in Seq(Orders) /\ Append(marked, o) \in Seq(Orders)
        BY DEF TypeInv
      <3>2. Append(cache, o) # <<>>
        <4>1. Len(Append(cache, o)) = Len(cache) + 1 /\ Len(cache) \in Nat
          BY DEF TypeInv
        <4> QED BY <4>1
      <3>3. Remember(o) \in Seq(Orders)
        BY <3>1, <3>2 DEF Remember
      <3>4. ToSet(cache) \subseteq Orders
        BY DEF TypeInv, ToSet
      <3> QED BY <2>2, <3>1, <3>3, <3>4 DEF Accept, TypeInv
    <2> QED BY <2>1, <2>2
  <1> QED BY <1>3, <1>4

LEMMA FinishType ==
  ASSUME TypeInv, FlowInv, NEW w \in Workers, Finish(w)
  PROVE  pc' \in [Workers -> Labels] /\ loc' \in [Workers -> Locals] /\ FlowInv'
  <1> DEFINE l == IF w \in Polls THEN "next" ELSE "done"
             r == [NoLocals EXCEPT !.rest = loc[w].rest]
  <1>1. r \in Locals
    BY NoLocalsType DEF TypeInv, Locals
  <1>2. Flow(w, l, r) /\ l \in Labels
    BY DEF Flow, Labels
  <1> QED BY <1>1, <1>2, MoveType DEF Finish, Goto

-----------------------------------------------------------------------------
(* Type correctness and control, one lemma per group of actions.             *)

LEMMA InitType == Init => TypeInv /\ FlowInv
  <1> SUFFICES ASSUME Init PROVE TypeInv /\ FlowInv
    OBVIOUS
  <1>1. pc \in [Workers -> Labels] /\ loc \in [Workers -> Locals]
    BY NoLocalsType DEF Init, Labels
  <1>2. /\ platform \in [Orders -> {"new", "pending", "closed"}]
        /\ cache \in Seq(Orders) /\ marked \in Seq(Orders) /\ forgotten \subseteq Orders
    BY DEF Init
  <1>3. /\ stock \in [Items -> Nat] /\ docLock \in Workers \cup {None} /\ ndok \in Nat
        /\ docs \subseteq [n : Nat, order : Orders]
        /\ applied \in [LineIds -> Nat] /\ overlapped \subseteq Items
        /\ left \in Nat
    BY LinesAssumption, LimitAssumption DEF Init
  <1>4. FlowInv
    BY DEF Init, FlowInv, Flow
  <1> QED BY <1>1, <1>2, <1>3, <1>4 DEF TypeInv

LEMMA WebhookType ==
  ASSUME TypeInv, FlowInv, NEW h \in Workers, OrderWebhook(h) \/ RozetkaWebhook(h)
  PROVE  TypeInv' /\ FlowInv'
  <1>1. UNCHANGED <<platform, stockVars, left>>
    BY DEF OrderWebhook, RozetkaWebhook
  <1>2. \/ Goto(h, "done") /\ UNCHANGED <<loc, cacheVars>>
        \/ \E o \in Orders, l \in {"integration", "resolve"} : Accept(h, o, {}, l)
    BY OrderAssumption DEF OrderWebhook, RozetkaWebhook
  <1>3. CASE Goto(h, "done") /\ UNCHANGED <<loc, cacheVars>>
    <2>1. loc' = [loc EXCEPT ![h] = loc[h]] /\ loc[h] \in Locals
      BY <1>3 DEF TypeInv
    <2>2. Flow(h, "done", loc[h]) /\ "done" \in Labels
      BY DEF Flow, Labels
    <2>3. pc' \in [Workers -> Labels] /\ loc' \in [Workers -> Locals] /\ FlowInv'
      BY <1>3, <2>1, <2>2, MoveType DEF Goto
    <2> QED BY <1>1, <1>3, <2>3 DEF TypeInv, stockVars, cacheVars
  <1>4. CASE \E o \in Orders, l \in {"integration", "resolve"} : Accept(h, o, {}, l)
    <2>1. PICK o \in Orders, l \in {"integration", "resolve"} : Accept(h, o, {}, l)
      BY <1>4
    <2>2. /\ pc' \in [Workers -> Labels] /\ loc' \in [Workers -> Locals] /\ FlowInv'
          /\ cache' \in Seq(Orders) /\ marked' \in Seq(Orders) /\ forgotten' \subseteq Orders
      BY <2>1, AcceptType
    <2> QED BY <1>1, <2>2 DEF TypeInv, stockVars
  <1> QED BY <1>2, <1>3, <1>4

LEMMA FindIntegrationType ==
  ASSUME TypeInv, FlowInv, NEW h \in Workers, FindIntegration(h)
  PROVE  TypeInv' /\ FlowInv'
  <1>1. PICK l \in {"resolve", "done"} : Goto(h, l) /\ (left' = left \/ Event("query"))
    BY DEF FindIntegration
  <1>2. loc' = [loc EXCEPT ![h] = loc[h]] /\ loc[h] \in Locals
    BY DEF FindIntegration, TypeInv
  <1>3. Flow(h, l, loc[h]) /\ l \in Labels
    BY DEF FindIntegration, FlowInv, Flow, Labels
  <1>4. pc' \in [Workers -> Labels] /\ loc' \in [Workers -> Locals] /\ FlowInv'
    BY <1>1, <1>2, <1>3, MoveType DEF Goto
  <1>5. left' \in Nat
    BY <1>1, EventType DEF TypeInv
  <1> QED BY <1>4, <1>5 DEF FindIntegration, TypeInv, stockVars, jobVars, cacheVars

LEMMA FetchOrdersType ==
  ASSUME TypeInv, FlowInv, NEW q \in Workers, FetchOrders(q)
  PROVE  TypeInv' /\ FlowInv'
  <1>1. PICK page \in Pages(q) : loc' = [loc EXCEPT ![q].rest = page]
    BY DEF FetchOrders
  <1>2. page \subseteq Orders
    BY OrderAssumption DEF FetchOrders, Pages, kSubset
  <1> DEFINE r == [loc[q] EXCEPT !.rest = page]
  <1>3. r \in Locals /\ loc' = [loc EXCEPT ![q] = r]
    BY <1>1, <1>2 DEF TypeInv, Locals
  <1>4. Flow(q, "integration", r) /\ "integration" \in Labels
    BY OrderAssumption DEF FetchOrders, Flow, Labels
  <1>5. pc' \in [Workers -> Labels] /\ loc' \in [Workers -> Locals] /\ FlowInv'
    BY <1>3, <1>4, MoveType DEF FetchOrders, Goto
  <1> QED BY <1>5 DEF FetchOrders, TypeInv, stockVars, jobVars, cacheVars

LEMMA FindPollIntegrationType ==
  ASSUME TypeInv, FlowInv, NEW q \in Workers, FindPollIntegration(q)
  PROVE  TypeInv' /\ FlowInv'
  <1>1. PICK l \in {"next", "idle"}, r \in {loc[q], NoLocals} :
           Goto(q, l) /\ loc' = [loc EXCEPT ![q] = r] /\ (left' = left \/ Event("query"))
    BY DEF FindPollIntegration, TypeInv
  <1>2. r \in Locals /\ l \in Labels /\ Flow(q, l, r)
    BY NoLocalsType DEF FindPollIntegration, TypeInv, Labels, Flow
  <1>3. pc' \in [Workers -> Labels] /\ loc' \in [Workers -> Locals] /\ FlowInv'
    BY <1>1, <1>2, MoveType DEF Goto
  <1>4. left' \in Nat
    BY <1>1, EventType DEF TypeInv
  <1> QED BY <1>3, <1>4 DEF FindPollIntegration, TypeInv, stockVars, jobVars, cacheVars

LEMMA NextOrderType ==
  ASSUME TypeInv, FlowInv, NEW q \in Workers, NextOrder(q)
  PROVE  TypeInv' /\ FlowInv'
  <1>1. q \in Polls /\ loc[q] \in Locals /\ loc[q].rest \subseteq Orders
    BY DEF NextOrder, SkipOrder, TakeOrder, EndPoll, FlowInv, Flow, TypeInv, Locals
  <1>2. CASE TakeOrder(q)
    <2>1. PICK o \in Orders : Accept(q, o, loc[q].rest \ {o}, "resolve")
      BY <1>1, <1>2 DEF TakeOrder
    <2>2. loc[q].rest \ {o} \in SUBSET Orders
      BY <1>1
    <2>3. /\ pc' \in [Workers -> Labels] /\ loc' \in [Workers -> Locals] /\ FlowInv'
          /\ cache' \in Seq(Orders) /\ marked' \in Seq(Orders) /\ forgotten' \subseteq Orders
      BY <2>1, <2>2, AcceptType
    <2> QED BY <1>2, <2>3 DEF TakeOrder, TypeInv, stockVars
  <1>3. CASE SkipOrder(q) \/ EndPoll(q)
    <2>1. PICK l \in {"next", "idle"}, rest \in SUBSET Orders :
             Goto(q, l) /\ loc' = [loc EXCEPT ![q] = [loc[q] EXCEPT !.rest = rest]]
      <3>1. CASE SkipOrder(q)
        <4>1. PICK o : loc' = [loc EXCEPT ![q].rest = @ \ {o}]
          BY <3>1 DEF SkipOrder
        <4>2. pc' = [pc EXCEPT ![q] = "next"]
          BY <3>1 DEF SkipOrder, TypeInv
        <4> QED BY <1>1, <4>1, <4>2 DEF Goto
      <3>2. CASE EndPoll(q)
        <4>1. loc' = [loc EXCEPT ![q] = [loc[q] EXCEPT !.rest = loc[q].rest]]
          BY <3>2, <1>1 DEF EndPoll, TypeInv, Locals
        <4> QED BY <1>1, <3>2, <4>1 DEF EndPoll
      <3> QED BY <1>3, <3>1, <3>2
    <2> DEFINE r == [loc[q] EXCEPT !.rest = rest]
    <2>2. r \in Locals /\ l \in Labels /\ Flow(q, l, r)
      BY <1>1 DEF Locals, Labels, Flow
    <2>3. pc' \in [Workers -> Labels] /\ loc' \in [Workers -> Locals] /\ FlowInv'
      BY <2>1, <2>2, MoveType DEF Goto
    <2> QED BY <1>3, <2>3 DEF SkipOrder, EndPoll, TypeInv, stockVars, jobVars, cacheVars
  <1> QED BY <1>2, <1>3 DEF NextOrder

LEMMA ResolveLinesType ==
  ASSUME TypeInv, FlowInv, NEW w \in Workers, ResolveLines(w)
  PROVE  TypeInv' /\ FlowInv'
  <1>1. loc[w] \in Locals /\ loc[w].order \in Orders
    <2>1. pc[w] = "resolve"
      BY DEF ResolveLines
    <2>2. Flow(w, pc[w], loc[w])
      BY DEF FlowInv
    <2>3. loc[w].order \in Orders
      BY <2>1, <2>2 DEF Flow
    <2> QED BY <2>3 DEF TypeInv
  <1>2. DOMAIN Lines[loc[w].order] \subseteq Nat
    BY <1>1, LinesType
  <1>3. PICK todo \in SUBSET (DOMAIN Lines[loc[w].order]) :
           /\ loc' = [loc EXCEPT ![w].todo = todo]
           /\ left' = left \/ Event("query")
    BY DEF ResolveLines
  <1> DEFINE l == IF loc[w].order \in Documented THEN "begin" ELSE "deduct"
             r == [loc[w] EXCEPT !.todo = todo]
  <1>4. r \in Locals /\ r.order = loc[w].order /\ r.todo = todo
    BY <1>1, <1>2 DEF Locals
  <1>5. l \in Labels /\ Flow(w, l, r)
    BY <1>1, <1>4 DEF Labels, Flow
  <1>6. pc' \in [Workers -> Labels] /\ loc' \in [Workers -> Locals] /\ FlowInv'
    BY <1>3, <1>4, <1>5, MoveType DEF ResolveLines, Goto
  <1>7. left' \in Nat
    BY <1>3, EventType DEF TypeInv
  <1> QED BY <1>6, <1>7 DEF ResolveLines, TypeInv, stockVars, jobVars, cacheVars

(* Overlap adds products only.                                               *)
LEMMA OverlapType ==
  ASSUME TypeInv, NEW w \in Workers, NEW items \in SUBSET Items, Overlap(w, items)
  PROVE  overlapped' \subseteq Items
  BY DEF TypeInv, Overlap

LEMMA DeductType ==
  ASSUME TypeInv, FlowInv, NEW w \in Workers, Deduct(w)
  PROVE  TypeInv' /\ FlowInv'
  <1>1. loc[w] \in Locals
    BY DEF TypeInv
  <1>2. CASE ReadStock(w)
    <2>1. /\ loc[w].order \in Orders /\ Line(w) \in [item : Items, qty : Nat]
          /\ loc[w].todo \subseteq DOMAIN Lines[loc[w].order]
          /\ loc[w].order \notin Documented
      BY <1>2, LineType DEF ReadStock, FlowInv, Flow
    <2>2. CASE /\ loc' = [loc EXCEPT ![w].read = stock[Line(w).item]]
               /\ Goto(w, "write")
               /\ Overlap(w, {Line(w).item})
               /\ left' = left
      <3> DEFINE r == [loc[w] EXCEPT !.read = stock[Line(w).item]]
      <3>1. stock[Line(w).item] \in Nat
        BY <2>1 DEF TypeInv
      <3>2. r \in Locals /\ r.order = loc[w].order /\ r.todo = loc[w].todo
        BY <1>1, <3>1 DEF Locals
      <3>3. Flow(w, "write", r) /\ "write" \in Labels
        BY <1>2, <2>1, <3>2 DEF Flow, Labels, ReadStock
      <3>4. pc' \in [Workers -> Labels] /\ loc' \in [Workers -> Locals] /\ FlowInv'
        BY <2>2, <3>2, <3>3, MoveType DEF Goto
      <3>5. overlapped' \subseteq Items
        BY <2>1, <2>2, OverlapType
      <3> QED BY <1>2, <2>2, <3>4, <3>5 DEF ReadStock, TypeInv, jobVars, cacheVars
    <2>3. CASE Advance(w) /\ Event("query") /\ UNCHANGED <<pc, overlapped>>
      <3> DEFINE r == [loc[w] EXCEPT !.todo = @ \ {Min(@)}]
      <3>1. r \in Locals /\ r.order = loc[w].order /\ r.todo \subseteq loc[w].todo
        BY <1>1 DEF Locals
      <3>2. Flow(w, "deduct", r) /\ "deduct" \in Labels
        BY <2>1, <3>1 DEF Flow, Labels
      <3>3. pc' = [pc EXCEPT ![w] = "deduct"] /\ loc' = [loc EXCEPT ![w] = r]
        BY <1>2, <2>3 DEF ReadStock, Advance, TypeInv
      <3>4. pc' \in [Workers -> Labels] /\ loc' \in [Workers -> Locals] /\ FlowInv'
        BY <3>1, <3>2, <3>3, MoveType
      <3>5. left' \in Nat
        BY <2>3, EventType
      <3> QED BY <1>2, <2>3, <3>4, <3>5 DEF ReadStock, TypeInv, jobVars, cacheVars
    <2> QED BY <1>2, <2>2, <2>3 DEF ReadStock
  <1>3. CASE WriteStock(w)
    <2>1. /\ loc[w].order \in Orders /\ Line(w) \in [item : Items, qty : Nat]
          /\ loc[w].todo \subseteq DOMAIN Lines[loc[w].order]
          /\ loc[w].order \notin Documented
      BY <1>3, LineType DEF WriteStock, FlowInv, Flow
    <2> DEFINE r == [loc[w] EXCEPT !.todo = @ \ {Min(@)}]
    <2>2. r \in Locals /\ r.order = loc[w].order /\ r.todo \subseteq loc[w].todo
      BY <1>1 DEF Locals
    <2>3. Flow(w, "deduct", r) /\ "deduct" \in Labels
      BY <2>1, <2>2 DEF Flow, Labels
    <2>4. pc' \in [Workers -> Labels] /\ loc' \in [Workers -> Locals] /\ FlowInv'
      BY <1>3, <2>2, <2>3, MoveType DEF WriteStock, Advance, Goto
    <2>5. left' \in Nat
      BY <1>3, EventType DEF WriteStock, TypeInv
    <2>6. stock' \in [Items -> Nat] /\ applied' \in [LineIds -> Nat]
      <3>1. Remaining(loc[w].read, Line(w).qty) \in Nat
        BY <1>1, <2>1, RemainingType DEF Locals
      <3>2. applied' \in [LineIds -> Nat]
        <4> DEFINE id == <<loc[w].order, Min(loc[w].todo)>>
        <4>1. id \in LineIds
          <5>1. loc[w].todo # {} /\ pc[w] = "write"
            BY <1>3 DEF WriteStock, FlowInv, Flow
          <5> QED BY <5>1, LineType
        <4>2. applied' = applied \/ applied' = [applied EXCEPT ![id] = applied[id] + 1]
          BY <1>3 DEF WriteStock
        <4> HIDE DEF id
        <4> QED BY <4>1, <4>2 DEF TypeInv
      <3>3. stock' \in [Items -> Nat]
        BY <1>3, <3>1 DEF WriteStock, TypeInv
      <3> QED BY <3>2, <3>3
    <2> QED BY <1>3, <2>4, <2>5, <2>6 DEF WriteStock, TypeInv, jobVars, cacheVars
  <1>4. CASE EndOrder(w)
    <2>1. pc' \in [Workers -> Labels] /\ loc' \in [Workers -> Locals] /\ FlowInv'
      BY <1>4, FinishType DEF EndOrder
    <2> QED BY <1>4, <2>1 DEF EndOrder, TypeInv, jobVars, cacheVars, stockVars
  <1> QED BY <1>2, <1>3, <1>4 DEF Deduct

LEMMA WritesType ==
  ASSUME NEW tx \in Writes, NEW item \in Items, NEW n \in Nat
  PROVE  [i \in DOMAIN tx \cup {item} |-> IF i = item THEN n ELSE tx[i]] \in Writes
  <1>1. PICK I \in SUBSET Items : tx \in [I -> Nat]
    BY DEF Writes
  <1>2. [i \in I \cup {item} |-> IF i = item THEN n ELSE tx[i]] \in [I \cup {item} -> Nat]
    BY <1>1
  <1>3. DOMAIN tx = I /\ I \cup {item} \in SUBSET Items
    BY <1>1
  <1> QED BY <1>2, <1>3 DEF Writes

LEMMA DocumentFlow ==
  ASSUME TypeInv, FlowInv, NEW w \in Workers, pc[w] \in {"begin", "snapshot", "lines"}
  PROVE  /\ loc[w].order \in Orders /\ loc[w].todo \subseteq DOMAIN Lines[loc[w].order]
         /\ loc[w].order \in Documented
  BY DEF FlowInv, Flow

LEMMA DocumentType ==
  ASSUME TypeInv, FlowInv, NEW w \in Workers, Document(w)
  PROVE  TypeInv' /\ FlowInv'
  <1>1. loc[w] \in Locals
    BY DEF TypeInv
  <1>2. /\ pc[w] \in {"begin", "snapshot", "lines"}
        /\ loc[w].order \in Orders /\ loc[w].todo \subseteq DOMAIN Lines[loc[w].order]
        /\ loc[w].order \in Documented
    BY DocumentFlow DEF Document, BeginDocument, TakeSnapshot, DocumentLine, Commit, Rollback
  <1>3. CASE BeginDocument(w)
    <2> DEFINE r == [loc[w] EXCEPT !.read = ndok + 1]
    <2>0. ndok + 1 \in Nat
      BY DEF TypeInv
    <2>1. r \in Locals /\ r.order = loc[w].order /\ r.todo = loc[w].todo
      BY <1>1, <2>0 DEF Locals
    <2>2. Flow(w, "snapshot", r) /\ "snapshot" \in Labels
      BY <1>2, <2>1 DEF Flow, Labels
    <2>3. pc' \in [Workers -> Labels] /\ loc' \in [Workers -> Locals] /\ FlowInv'
      BY <1>3, <2>1, <2>2, MoveType DEF BeginDocument, Goto
    <2> QED BY <1>3, <2>3 DEF BeginDocument, TypeInv, jobVars, cacheVars
  <1>4. CASE TakeSnapshot(w)
    <2> DEFINE r == [loc[w] EXCEPT !.snap = stock]
    <2>0. stock \in [Items -> Nat]
      BY DEF TypeInv
    <2>1. r \in Locals /\ r.order = loc[w].order /\ r.todo = loc[w].todo
      BY <1>1, <2>0 DEF Locals
    <2>2. Flow(w, "lines", r) /\ "lines" \in Labels
      BY <1>2, <2>1 DEF Flow, Labels
    <2>3. pc' \in [Workers -> Labels] /\ loc' \in [Workers -> Locals] /\ FlowInv'
      BY <1>4, <2>1, <2>2, MoveType DEF TakeSnapshot, Goto
    <2>4. overlapped' \subseteq Items
      <3> DEFINE items == {Lines[loc[w].order][i].item : i \in loc[w].todo}
      <3>1. items \in SUBSET Items
        <4> SUFFICES ASSUME NEW i \in loc[w].todo PROVE Lines[loc[w].order][i].item \in Items
          OBVIOUS
        <4>1. Lines[loc[w].order][i] \in [item : Items, qty : Nat]
          BY <1>2, LinesType
        <4> QED BY <4>1
      <3>2. Overlap(w, items)
        BY <1>4 DEF TakeSnapshot
      <3> HIDE DEF items
      <3> QED BY <3>1, <3>2, OverlapType
    <2> QED BY <1>4, <2>3, <2>4 DEF TakeSnapshot, TypeInv, jobVars, cacheVars
  <1>5. CASE DocumentLine(w)
    <2>1. /\ Line(w) \in [item : Items, qty : Nat]
          /\ <<loc[w].order, Min(loc[w].todo)>> \in LineIds
      BY <1>5, LineType DEF DocumentLine
    <2> DEFINE item == Line(w).item
               tx == loc[w].tx
               n == Remaining(Seen(w, item), Line(w).qty)
               new == [i \in DOMAIN tx \cup {item} |->
                        IF i = item THEN Remaining(Seen(w, i), Line(w).qty) ELSE tx[i]]
               r == [loc[w] EXCEPT !.tx = new,
                       !.written = @ \cup {<<loc[w].order, Min(loc[w].todo)>>},
                       !.todo = @ \ {Min(@)}]
    <2>2. tx \in Writes /\ item \in Items
      BY <1>1, <2>1 DEF Locals
    <2>3. n \in Nat
      <3>1. Seen(w, item) \in Nat
        BY <1>1, <2>2 DEF Seen, Writes, Locals
      <3> QED BY <2>1, <3>1, RemainingType
    <2>4. new \in Writes
      <3>1. new = [i \in DOMAIN tx \cup {item} |-> IF i = item THEN n ELSE tx[i]]
        OBVIOUS
      <3> HIDE DEF n, new, item, tx
      <3> QED BY <2>2, <2>3, <3>1, WritesType
    <2>5. loc' = [loc EXCEPT ![w] = r] /\ pc' = [pc EXCEPT ![w] = "lines"]
      BY <1>5 DEF DocumentLine, TypeInv
    <2> HIDE DEF new
    <2>6. r \in Locals /\ r.order = loc[w].order /\ r.todo \subseteq loc[w].todo
      BY <1>1, <2>1, <2>4 DEF Locals
    <2> HIDE DEF r
    <2>7. Flow(w, "lines", r) /\ "lines" \in Labels
      BY <1>2, <2>6 DEF Flow, Labels
    <2>8. pc' \in [Workers -> Labels] /\ loc' \in [Workers -> Locals] /\ FlowInv'
      BY <2>5, <2>6, <2>7, MoveType
    <2> QED BY <1>5, <2>8 DEF DocumentLine, TypeInv, jobVars, cacheVars, stockVars
  <1>6. CASE Commit(w)
    <2>1. pc' \in [Workers -> Labels] /\ loc' \in [Workers -> Locals] /\ FlowInv'
      BY <1>6, FinishType DEF Commit
    <2>2. stock' \in [Items -> Nat]
      <3>1. \A i \in DOMAIN loc[w].tx : loc[w].tx[i] \in Nat
        BY <1>1 DEF Locals, Writes
      <3> QED BY <1>6, <3>1 DEF Commit, TypeInv
    <2>3. ndok' \in Nat /\ docs' \subseteq [n : Nat, order : Orders]
      BY <1>1, <1>2, <1>6 DEF Commit, TypeInv, Locals
    <2>4. applied' \in [LineIds -> Nat]
      BY <1>6 DEF Commit, TypeInv
    <2> QED BY <1>6, <2>1, <2>2, <2>3, <2>4 DEF Commit, TypeInv, jobVars, cacheVars
  <1>7. CASE Rollback(w)
    <2>1. pc' \in [Workers -> Labels] /\ loc' \in [Workers -> Locals] /\ FlowInv'
      BY <1>7, FinishType DEF Rollback
    <2>2. left' \in Nat
      BY <1>7, EventType DEF Rollback
    <2> QED BY <1>7, <2>1, <2>2 DEF Rollback, TypeInv, jobVars, cacheVars
  <1> QED BY <1>3, <1>4, <1>5, <1>6, <1>7 DEF Document

LEMMA EnvironmentType ==
  ASSUME TypeInv, FlowInv, NEW o \in Orders, PlaceOrder(o) \/ CloseOrder(o)
  PROVE  TypeInv' /\ FlowInv'
  <1>1. platform' \in [Orders -> {"new", "pending", "closed"}]
    BY DEF TypeInv, PlaceOrder, CloseOrder
  <1>2. UNCHANGED <<cacheVars, pc, loc, stockVars, left>>
    BY DEF PlaceOrder, CloseOrder
  <1>3. FlowInv'
    BY <1>2 DEF FlowInv, Flow
  <1> QED BY <1>1, <1>2, <1>3 DEF TypeInv, stockVars, cacheVars

LEMMA CrashType ==
  ASSUME TypeInv, FlowInv, Crash
  PROVE  TypeInv' /\ FlowInv'
  <1>1. pc' \in [Workers -> Labels] /\ loc' \in [Workers -> Locals] /\ FlowInv'
    <2>1. \A w \in Workers : pc'[w] \in {"idle", "done"} /\ loc'[w] = NoLocals
      BY DEF Crash
    <2>2. \A w \in Workers : Flow(w, pc'[w], loc'[w])
      BY <2>1 DEF Flow
    <2> QED BY <2>2, NoLocalsType DEF Crash, Labels, FlowInv
  <1>2. ToSet(cache) \subseteq Orders
    BY DEF TypeInv, ToSet
  <1>3. left' \in Nat
    BY EventType DEF Crash
  <1> QED BY <1>1, <1>2, <1>3 DEF Crash, TypeInv

LEMMA NextType ==
  ASSUME TypeInv, FlowInv, [Next]_vars
  PROVE  TypeInv' /\ FlowInv'
  <1>1. ASSUME NEW w \in Workers, OrderWebhook(w) \/ RozetkaWebhook(w) \/ Step(w)
        PROVE  TypeInv' /\ FlowInv'
    BY <1>1, WebhookType, FindIntegrationType, FetchOrdersType, FindPollIntegrationType,
       NextOrderType, ResolveLinesType, DeductType, DocumentType DEF Step
  <1>2. CASE UNCHANGED vars
    <2>1. FlowInv'
      BY <1>2 DEF FlowInv, Flow, vars
    <2> QED BY <1>2, <2>1 DEF TypeInv, vars, jobVars, cacheVars, stockVars
  <1> QED BY <1>1, <1>2, EnvironmentType, CrashType DEF Next

(* Every variable keeps its type, and a worker that is at a step of          *)
(* processIncomingOrder or of createOrderDocument has an order at hand of    *)
(* which it only deducts lines, in the mode of the shop.                     *)
THEOREM TypeCorrect == Spec => [](TypeInv /\ FlowInv)
  <1>1. Init => TypeInv /\ FlowInv
    BY InitType
  <1>2. TypeInv /\ FlowInv /\ [Next]_vars => (TypeInv /\ FlowInv)'
    BY NextType
  <1> QED BY <1>1, <1>2, PTL DEF Spec

-----------------------------------------------------------------------------
(* The documents of createOrderDocument.                                     *)

(* A transaction that has its number holds the row of ndok, and the number   *)
(* is the next one for as long as it runs.                                   *)
LockInv ==
  \A w \in Workers :
    pc[w] \in {"snapshot", "lines"} => docLock = w /\ loc[w].read = ndok + 1

(* Steps outside createOrderDocument.                                        *)
Outside(w) ==
  \/ OrderWebhook(w) \/ RozetkaWebhook(w) \/ FindIntegration(w) \/ FetchOrders(w)
  \/ FindPollIntegration(w) \/ NextOrder(w) \/ ResolveLines(w) \/ Deduct(w)

LEMMA FinishMoves ==
  ASSUME NEW w \in Workers, Finish(w)
  PROVE  \E l \in {"next", "done"} : \E r :
           pc' = [pc EXCEPT ![w] = l] /\ loc' = [loc EXCEPT ![w] = r]
  BY DEF Finish, Goto

LEMMA OutsideMoves ==
  ASSUME TypeInv, NEW w \in Workers, Outside(w)
  PROVE  /\ UNCHANGED <<docLock, ndok, docs>>
         /\ \E l \in Labels \ {"snapshot", "lines"} : \E r :
              pc' = [pc EXCEPT ![w] = l] /\ loc' = [loc EXCEPT ![w] = r]
  <1>0. pc = [pc EXCEPT ![w] = pc[w]] /\ loc = [loc EXCEPT ![w] = loc[w]]
    BY DEF TypeInv
  <1>1. CASE OrderWebhook(w) \/ RozetkaWebhook(w)
    BY <1>0, <1>1 DEF OrderWebhook, RozetkaWebhook, Accept, Goto, Labels, stockVars
  <1>2. CASE FindIntegration(w)
    BY <1>0, <1>2 DEF FindIntegration, Goto, Labels, stockVars
  <1>3. CASE FetchOrders(w)
    BY <1>3 DEF FetchOrders, Goto, Labels, stockVars, TypeInv
  <1>4. CASE FindPollIntegration(w)
    BY <1>0, <1>4 DEF FindPollIntegration, Goto, Labels, stockVars
  <1>5. CASE NextOrder(w)
    <2>1. CASE SkipOrder(w)
      BY <1>0, <2>1 DEF SkipOrder, Labels, stockVars, TypeInv
    <2>2. CASE TakeOrder(w)
      BY <2>2 DEF TakeOrder, Accept, Goto, Labels, stockVars
    <2>3. CASE EndPoll(w)
      BY <1>0, <2>3 DEF EndPoll, Goto, Labels, stockVars
    <2> QED BY <1>5, <2>1, <2>2, <2>3 DEF NextOrder
  <1>6. CASE ResolveLines(w)
    <2>1. PICK todo : loc' = [loc EXCEPT ![w].todo = todo]
      BY <1>6 DEF ResolveLines
    <2>2. loc' = [loc EXCEPT ![w] = [loc[w] EXCEPT !.todo = todo]]
      BY <2>1
    <2> QED BY <1>6, <2>2 DEF ResolveLines, Goto, Labels, stockVars
  <1>7. CASE Deduct(w)
    <2>1. CASE ReadStock(w)
      BY <1>0, <2>1 DEF ReadStock, Advance, Goto, Labels, TypeInv
    <2>2. CASE WriteStock(w)
      BY <2>2 DEF WriteStock, Advance, Goto, Labels, TypeInv
    <2>3. CASE EndOrder(w)
      BY <2>3, FinishMoves DEF EndOrder, Labels, stockVars
    <2> QED BY <1>7, <2>1, <2>2, <2>3 DEF Deduct
  <1> QED BY <1>1, <1>2, <1>3, <1>4, <1>5, <1>6, <1>7 DEF Outside

LEMMA LockNext ==
  ASSUME TypeInv, FlowInv, LockInv, DocNumbersUnique, [Next]_vars
  PROVE  LockInv' /\ DocNumbersUnique'
  <1>1. ASSUME NEW w \in Workers, Outside(w)
        PROVE  LockInv' /\ DocNumbersUnique'
    <2>1. PICK l, r :
             /\ l \in Labels \ {"snapshot", "lines"}
             /\ pc' = [pc EXCEPT ![w] = l] /\ loc' = [loc EXCEPT ![w] = r]
      BY <1>1, OutsideMoves
    <2>2. UNCHANGED <<docLock, ndok, docs>>
      BY <1>1, OutsideMoves
    <2> QED BY <2>1, <2>2 DEF LockInv, DocNumbersUnique, TypeInv
  <1>2. ASSUME NEW w \in Workers, BeginDocument(w)
        PROVE  LockInv' /\ DocNumbersUnique'
    <2>1. DocNumbersUnique'
      BY <1>2 DEF BeginDocument, DocNumbersUnique
    <2>2. \A v \in Workers : pc[v] \notin {"snapshot", "lines"}
      BY <1>2, OrderAssumption DEF BeginDocument, LockInv
    <2>3. /\ docLock' = w /\ ndok' = ndok /\ loc'[w].read = ndok + 1
          /\ \A v \in Workers \ {w} : pc'[v] = pc[v]
      BY <1>2 DEF BeginDocument, Goto, TypeInv, Locals
    <2> QED BY <2>1, <2>2, <2>3 DEF LockInv
  <1>3. ASSUME NEW w \in Workers, TakeSnapshot(w) \/ DocumentLine(w)
        PROVE  LockInv' /\ DocNumbersUnique'
    <2>1. UNCHANGED <<docLock, ndok, docs>> /\ pc[w] \in {"snapshot", "lines"}
      BY <1>3 DEF TakeSnapshot, DocumentLine, stockVars
    <2>2. \A v \in Workers : /\ loc'[v].read = loc[v].read
                             /\ v # w => pc'[v] = pc[v]
      <3>1. PICK r : loc' = [loc EXCEPT ![w] = r] /\ r.read = loc[w].read
        <4>0. loc[w] \in Locals
          BY DEF TypeInv
        <4>1. CASE TakeSnapshot(w)
          <5> DEFINE r == [loc[w] EXCEPT !.snap = stock]
          <5>1. loc' = [loc EXCEPT ![w] = r]
            BY <4>1 DEF TakeSnapshot, TypeInv
          <5>2. r.read = loc[w].read
            BY <4>0 DEF Locals
          <5> QED BY <5>1, <5>2
        <4>2. CASE DocumentLine(w)
          <5>1. PICK t, z, d : loc' = [loc EXCEPT ![w].tx = t, ![w].written = z, ![w].todo = d]
            BY <4>2 DEF DocumentLine
          <5> DEFINE r == [loc[w] EXCEPT !.tx = t, !.written = z, !.todo = d]
          <5>2. loc' = [loc EXCEPT ![w] = r]
            BY <5>1 DEF TypeInv
          <5>3. r.read = loc[w].read
            BY <4>0 DEF Locals
          <5> QED BY <5>2, <5>3
        <4> QED BY <1>3, <4>1, <4>2
      <3>2. \A v \in Workers \ {w} : pc'[v] = pc[v]
        BY <1>3 DEF TakeSnapshot, DocumentLine, Goto, TypeInv
      <3> QED BY <3>1, <3>2 DEF TypeInv
    <2> QED BY <2>1, <2>2 DEF LockInv, DocNumbersUnique
  <1>4. ASSUME NEW w \in Workers, Commit(w)
        PROVE  LockInv' /\ DocNumbersUnique'
    <2>1. docLock = w /\ loc[w].read = ndok + 1
      BY <1>4 DEF Commit, LockInv
    <2>2. ndok' = ndok + 1 /\ docs' = docs \cup {[n |-> ndok + 1, order |-> loc[w].order]}
      BY <1>4, <2>1 DEF Commit
    <2>3. DocNumbersUnique'
      <3>1. ndok \in Nat /\ \A d \in docs : d.n \in Nat
        BY DEF TypeInv
      <3>2. \A d \in docs : d.n < ndok + 1
        BY <3>1 DEF DocNumbersUnique
      <3> QED BY <2>2, <3>1, <3>2 DEF DocNumbersUnique
    <2>4. \A v \in Workers : pc'[v] \notin {"snapshot", "lines"}
      <3>1. \A v \in Workers \ {w} : pc[v] \notin {"snapshot", "lines"}
        BY <2>1 DEF LockInv
      <3>2. Finish(w)
        BY <1>4 DEF Commit
      <3>3. PICK l \in {"next", "done"} : \E r :
               pc' = [pc EXCEPT ![w] = l] /\ loc' = [loc EXCEPT ![w] = r]
        BY <3>2, FinishMoves
      <3>4. pc' = [pc EXCEPT ![w] = l] /\ DOMAIN pc = Workers
        BY <3>3 DEF TypeInv
      <3> QED BY <3>1, <3>4
    <2> QED BY <2>3, <2>4 DEF LockInv
  <1>5. ASSUME NEW w \in Workers, Rollback(w)
        PROVE  LockInv' /\ DocNumbersUnique'
    <2>1. ndok' = ndok /\ docs' = docs /\ docLock' \in {docLock, None}
      BY <1>5 DEF Rollback
    <2>2. PICK l, r :
             /\ l \in {"next", "done"}
             /\ pc' = [pc EXCEPT ![w] = l] /\ loc' = [loc EXCEPT ![w] = r]
      BY <1>5, FinishMoves DEF Rollback
    <2>3. docLock' = docLock \/ docLock = w
      BY <1>5 DEF Rollback
    <2> QED BY <2>1, <2>2, <2>3 DEF LockInv, DocNumbersUnique, TypeInv
  <1>6. CASE Crash
    <2>1. \A v \in Workers : pc'[v] \in {"idle", "done"}
      BY <1>6 DEF Crash
    <2> QED BY <1>6, <2>1 DEF Crash, LockInv, DocNumbersUnique
  <1>7. CASE \E o \in Orders : PlaceOrder(o) \/ CloseOrder(o)
    BY <1>7 DEF PlaceOrder, CloseOrder, LockInv, DocNumbersUnique, stockVars
  <1>8. CASE UNCHANGED vars
    BY <1>8 DEF vars, LockInv, DocNumbersUnique, stockVars
  <1> QED BY <1>1, <1>2, <1>3, <1>4, <1>5, <1>6, <1>7, <1>8 DEF Next, Step, Document, Outside

(* Two documents never get the same number, and the counter is never behind  *)
(* them: between SELECT ... FOR UPDATE on ndok and the COMMIT the counter    *)
(* belongs to one transaction.                                               *)
THEOREM NumbersUnique == Spec => []DocNumbersUnique
  <1>1. Init => LockInv /\ DocNumbersUnique
    BY DEF Init, LockInv, DocNumbersUnique
  <1>2. TypeInv /\ FlowInv /\ LockInv /\ DocNumbersUnique /\ [Next]_vars
        => (LockInv /\ DocNumbersUnique)'
    BY LockNext
  <1> QED BY <1>1, <1>2, TypeCorrect, PTL DEF Spec

(* A step that reads or writes a stock while another worker is between its   *)
(* own read and write of it: one of the two is a deduction of mode 1.        *)
LEMMA SerializeNext ==
  ASSUME TypeInv, FlowInv, LockInv, DocumentsSerialize, [Next]_vars
  PROVE  DocumentsSerialize'
  <1> DEFINE Mixed(i) == \E id \in LineIds :
               Lines[id[1]][id[2]].item = i /\ id[1] \notin Documented
  <1>0. ASSUME NEW w \in Workers, pc[w] \in {"deduct", "write"}, loc[w].todo # {}
        PROVE  Mixed(Line(w).item)
    <2> DEFINE id == <<loc[w].order, Min(loc[w].todo)>>
    <2>1. id \in LineIds
      BY <1>0, LineType
    <2>2. id[1] \notin Documented
      BY <1>0 DEF FlowInv, Flow
    <2>3. Lines[id[1]][id[2]].item = Line(w).item
      BY DEF Line
    <2> QED BY <2>1, <2>2, <2>3
  <1>1. \A i \in overlapped : Mixed(i)
    BY DEF DocumentsSerialize
  <1>2. \A i \in overlapped' : Mixed(i)
    <2>1. ASSUME NEW w \in Workers, ReadStock(w) PROVE \A i \in overlapped' : Mixed(i)
      <3>1. Mixed(Line(w).item)
        BY <1>0, <2>1 DEF ReadStock
      <3>2. overlapped' \subseteq overlapped \cup {Line(w).item}
        BY <2>1 DEF ReadStock, Overlap
      <3> HIDE DEF Mixed
      <3> QED BY <1>1, <3>1, <3>2
    <2>2. ASSUME NEW w \in Workers, TakeSnapshot(w) PROVE \A i \in overlapped' : Mixed(i)
      <3> SUFFICES ASSUME NEW i \in overlapped', i \notin overlapped PROVE Mixed(i)
        BY <1>1
      <3>1. PICK v \in Workers \ {w} : InWindow(v, i)
        BY <2>2 DEF TakeSnapshot, Overlap
      <3>2. pc[v] # "lines"
        BY <2>2 DEF TakeSnapshot, LockInv
      <3>3. pc[v] = "write" /\ Line(v).item = i
        BY <3>1, <3>2 DEF InWindow
      <3>4. loc[v].todo # {}
        BY <3>3 DEF FlowInv, Flow
      <3> QED BY <1>0, <3>3, <3>4
    <2>3. ASSUME NEW w \in Workers, OrderWebhook(w) \/ RozetkaWebhook(w) \/ Step(w),
                 ~ReadStock(w), ~TakeSnapshot(w)
          PROVE  overlapped' = overlapped
      BY <2>3 DEF OrderWebhook, RozetkaWebhook, Step, FindIntegration, FetchOrders,
         FindPollIntegration, NextOrder, SkipOrder, TakeOrder, EndPoll, ResolveLines, Deduct,
         WriteStock, EndOrder, Document, BeginDocument, DocumentLine, Commit, Rollback, stockVars
    <2>4. (\E o \in Orders : PlaceOrder(o) \/ CloseOrder(o)) \/ Crash \/ UNCHANGED vars
          => overlapped' = overlapped
      BY DEF PlaceOrder, CloseOrder, Crash, vars, stockVars
    <2> HIDE DEF Mixed
    <2> QED BY <1>1, <2>1, <2>2, <2>3, <2>4 DEF Next
  <1> QED BY <1>2 DEF DocumentsSerialize

(* A product whose orders all create documents loses no deduction to a race: *)
(* the lock on ndok serializes the transactions, stock included.             *)
THEOREM Serialized == Spec => []DocumentsSerialize
  <1>1. Init => LockInv /\ DocNumbersUnique /\ DocumentsSerialize
    BY DEF Init, LockInv, DocNumbersUnique, DocumentsSerialize
  <1>2. /\ TypeInv /\ FlowInv /\ LockInv /\ DocNumbersUnique /\ DocumentsSerialize
        /\ [Next]_vars
        => (LockInv /\ DocNumbersUnique /\ DocumentsSerialize)'
    BY LockNext, SerializeNext
  <1> QED BY <1>1, <1>2, TypeCorrect, PTL DEF Spec

-----------------------------------------------------------------------------
(* The cache of markOrderProcessed.                                          *)

(* The cache holds the orders remembered last, each once, and is full as     *)
(* soon as one has been forgotten.                                           *)
CacheInv ==
  /\ Len(cache) <= MaxCache /\ Len(cache) <= Len(marked)
  /\ Len(cache) < MaxCache => Len(marked) = Len(cache)
  /\ \A k \in 1..Len(cache) : cache[k] = marked[Len(marked) - Len(cache) + k]
  /\ \A j, k \in 1..Len(cache) : cache[j] = cache[k] => j = k

(* An order that is remembered now is the newest, and pushes the oldest out  *)
(* of a full cache.                                                          *)
LEMMA RememberEffect ==
  ASSUME NEW S, cache \in Seq(S), Len(cache) <= MaxCache, NEW o \in S
  PROVE  \E d \in {0, 1} :
           /\ d = 1 <=> Len(cache) = MaxCache
           /\ Remember(o) \in Seq(S)
           /\ Len(Remember(o)) = Len(cache) + 1 - d
           /\ \A k \in 1..(Len(cache) - d) : Remember(o)[k] = cache[k + d]
           /\ Remember(o)[Len(cache) + 1 - d] = o
  <1> DEFINE c == Append(cache, o)
  <1>1. /\ c \in Seq(S) /\ Len(c) = Len(cache) + 1 /\ Len(cache) \in Nat
        /\ \A k \in 1..Len(cache) : c[k] = cache[k]
        /\ c[Len(cache) + 1] = o
    OBVIOUS
  <1>2. MaxCache \in Nat \ {0}
    BY LimitAssumption
  <1>3. Remember(o) = IF Len(c) > MaxCache THEN Tail(c) ELSE c
    BY DEF Remember
  <1> HIDE DEF c
  <1>4. CASE Len(cache) = MaxCache
    <2>1. c # <<>>
      BY <1>1
    <2>2. /\ Tail(c) \in Seq(S) /\ Len(Tail(c)) = Len(c) - 1
          /\ \A k \in 1..(Len(c) - 1) : Tail(c)[k] = c[k + 1]
      BY <1>1, <2>1
    <2>3. Remember(o) = Tail(c)
      BY <1>1, <1>2, <1>3, <1>4
    <2> QED BY <1>1, <1>2, <1>4, <2>2, <2>3
  <1>5. CASE Len(cache) # MaxCache
    <2>1. Remember(o) = c
      BY <1>1, <1>2, <1>3, <1>5
    <2> QED BY <1>1, <1>2, <1>5, <2>1
  <1> QED BY <1>4, <1>5

LEMMA AcceptCache ==
  ASSUME TypeInv, CacheInv, RecentNeverRepeated, NEW o \in Orders, ~Known(o),
         cache' = Remember(o), marked' = Append(marked, o)
  PROVE  CacheInv' /\ RecentNeverRepeated'
  <1> DEFINE n == Len(cache)
             m == Len(marked)
  <1>0. /\ n \in Nat /\ m \in Nat /\ MaxCache \in Nat \ {0}
        /\ cache \in Seq(Orders) /\ marked \in Seq(Orders)
    BY LimitAssumption DEF TypeInv
  <1>1. /\ n <= MaxCache /\ n <= m
        /\ n < MaxCache => m = n
        /\ \A k \in 1..n : cache[k] = marked[m - n + k]
        /\ \A j, k \in 1..n : cache[j] = cache[k] => j = k
    BY DEF CacheInv
  <1>2. \A k \in 1..n : cache[k] # o
    BY <1>0 DEF Known, ToSet
  <1>3. PICK d \in {0, 1} :
          /\ d = 1 <=> n = MaxCache
          /\ Len(cache') = n + 1 - d
          /\ \A k \in 1..(n - d) : cache'[k] = cache[k + d]
          /\ cache'[n + 1 - d] = o
    <2>1. PICK d \in {0, 1} :
            /\ d = 1 <=> Len(cache) = MaxCache
            /\ Len(Remember(o)) = Len(cache) + 1 - d
            /\ \A k \in 1..(Len(cache) - d) : Remember(o)[k] = cache[k + d]
            /\ Remember(o)[Len(cache) + 1 - d] = o
      BY <1>0, <1>1, RememberEffect
    <2> QED BY <2>1
  <1>4. /\ Len(marked') = m + 1
        /\ \A k \in 1..m : marked'[k] = marked[k]
        /\ marked'[m + 1] = o
    BY <1>0
  <1> HIDE DEF n, m
  <1>5. CacheInv'
    <2>1. /\ Len(cache') <= MaxCache /\ Len(cache') <= Len(marked')
          /\ Len(cache') < MaxCache => Len(marked') = Len(cache')
      BY <1>0, <1>1, <1>3, <1>4
    <2>2. ASSUME NEW k \in 1..Len(cache')
          PROVE  cache'[k] = marked'[Len(marked') - Len(cache') + k]
      <3>1. CASE k = n + 1 - d
        <4>1. Len(marked') - Len(cache') + k = m + 1
          BY <1>0, <1>3, <1>4, <3>1
        <4> QED BY <1>3, <1>4, <3>1, <4>1
      <3>2. CASE k # n + 1 - d
        <4>1. k \in 1..(n - d) /\ k + d \in 1..n
          BY <1>0, <1>3, <3>2
        <4>2. cache'[k] = marked[m - n + (k + d)]
          BY <1>1, <1>3, <4>1
        <4>3. m - n + (k + d) \in 1..m
          <5>1. ASSUME NEW x \in 1..n PROVE m - n + x \in 1..m
            BY <1>0, <1>1, <5>1
          <5> QED BY <4>1, <5>1
        <4>4. Len(marked') - Len(cache') + k = m - n + (k + d)
          BY <1>0, <1>3, <1>4
        <4> QED BY <1>4, <4>2, <4>3, <4>4
      <3> QED BY <3>1, <3>2
    <2>3. ASSUME NEW j \in 1..Len(cache'), NEW k \in 1..Len(cache'), cache'[j] = cache'[k]
          PROVE  j = k
      <3>1. ASSUME NEW i \in 1..Len(cache'), i # n + 1 - d
            PROVE  i \in 1..(n - d) /\ i + d \in 1..n /\ cache'[i] = cache[i + d]
        BY <1>0, <1>3, <3>1
      <3>2. CASE j = n + 1 - d /\ k # n + 1 - d
        BY <1>2, <1>3, <2>3, <3>1, <3>2
      <3>3. CASE j # n + 1 - d /\ k = n + 1 - d
        BY <1>2, <1>3, <2>3, <3>1, <3>3
      <3>4. CASE j # n + 1 - d /\ k # n + 1 - d
        <4>1. j + d = k + d
          BY <1>1, <2>3, <3>1, <3>4
        <4> QED BY <1>3, <4>1
      <3> QED BY <3>2, <3>3, <3>4
    <2> QED BY <2>1, <2>2, <2>3 DEF CacheInv
  <1>6. RecentNeverRepeated'
    <2> SUFFICES ASSUME NEW i \in DOMAIN marked', NEW j \in DOMAIN marked',
                        i < j, marked'[i] = marked'[j]
                 PROVE  Cardinality({marked'[k] : k \in (i + 1)..(j - 1)}) >= MaxCache
      BY DEF RecentNeverRepeated
    <2>0. /\ i \in Nat /\ j \in Nat /\ 1 <= i /\ j <= m + 1
          /\ DOMAIN marked = 1..m /\ DOMAIN marked' = 1..(m + 1)
      BY <1>0, <1>4 DEF m
    <2>1. CASE j <= m
      <3>1. i \in 1..m /\ j \in 1..m
        BY <1>0, <2>0, <2>1
      <3>2. marked[i] = marked[j]
        BY <1>4, <3>1
      <3>3. \A k \in (i + 1)..(j - 1) : marked'[k] = marked[k]
        BY <1>0, <1>4, <3>1
      <3>4. {marked'[k] : k \in (i + 1)..(j - 1)} = {marked[k] : k \in (i + 1)..(j - 1)}
        BY <3>3
      <3> QED BY <2>0, <3>1, <3>2, <3>4 DEF RecentNeverRepeated
    <2>2. CASE j = m + 1
      <3> DEFINE between == {marked'[k] : k \in (i + 1)..(j - 1)}
                 last == {cache[k] : k \in 1..n}
      <3>1. marked[i] = o /\ i \in 1..m
        BY <1>0, <1>4, <2>0, <2>2
      <3>2. i <= m - n
        <4> SUFFICES ASSUME i > m - n PROVE FALSE
          BY <1>0, <2>0
        <4>1. i - (m - n) \in 1..n
          BY <1>0, <1>1, <2>0, <3>1
        <4>2. cache[i - (m - n)] = marked[m - n + (i - (m - n))]
          BY <1>1, <4>1
        <4>3. m - n + (i - (m - n)) = i
          BY <1>0, <2>0
        <4> QED BY <1>2, <3>1, <4>1, <4>2, <4>3
      <3>3. n = MaxCache
        BY <1>0, <1>1, <2>0, <3>2
      <3>4. last \subseteq between
        <4> SUFFICES ASSUME NEW k \in 1..n PROVE cache[k] \in between
          OBVIOUS
        <4>1. m - n + k \in (i + 1)..(j - 1) /\ m - n + k \in 1..m
          BY <1>0, <1>1, <2>0, <2>2, <3>2
        <4>2. cache[k] = marked'[m - n + k]
          BY <1>1, <1>4, <4>1
        <4> QED BY <4>1, <4>2
      <3>5. IsFiniteSet(between)
        <4> DEFINE S == (i + 1)..(j - 1)
                   g == [k \in S |-> marked'[k]]
        <4>1. IsFiniteSet(S)
          <5>1. i + 1 \in Int /\ j - 1 \in Int
            BY <2>0
          <5> QED BY <5>1, FS_Interval
        <4>2. g \in Surjection(S, between)
          BY Fun_IsSurj
        <4> HIDE DEF S, g, between
        <4> QED BY <4>1, <4>2, FS_Surjection
      <3>6. Cardinality(last) = n
        <4>1. IsFiniteSet(1..n) /\ Cardinality(1..n) = n
          <5>1. 1 \in Int /\ n \in Int
            BY <1>0
          <5>2. IsFiniteSet(1..n) /\ Cardinality(1..n) = IF 1 > n THEN 0 ELSE n - 1 + 1
            BY <5>1, FS_Interval
          <5> QED BY <1>0, <5>2
        <4> DEFINE f == [k \in 1..n |-> cache[k]]
        <4>2. f \in Bijection(1..n, last)
          <5>1. f \in [1..n -> last]
            OBVIOUS
          <5>2. \A j1, k1 \in 1..n : f[j1] = f[k1] => j1 = k1
            BY <1>1
          <5>3. \A x \in last : \E k \in 1..n : f[k] = x
            OBVIOUS
          <5> QED BY <5>1, <5>2, <5>3, Fun_IsBij
        <4> HIDE DEF f, last
        <4>3. ExistsBijection(1..n, last)
          BY <4>2 DEF ExistsBijection
        <4> QED BY <4>1, <4>3, FS_Bijection
      <3> HIDE DEF between, last
      <3>7. Cardinality(last) <= Cardinality(between)
        BY <3>4, <3>5, FS_Subset
      <3>8. Cardinality(between) >= MaxCache
        <4>1. Cardinality(between) \in Nat
          BY <3>5, FS_CardinalityType
        <4> QED BY <1>0, <3>3, <3>6, <3>7, <4>1
      <3> QED BY <3>8 DEF between
    <2>3. j <= m \/ j = m + 1
      BY <1>0, <2>0
    <2> QED BY <2>1, <2>2, <2>3
  <1> QED BY <1>5, <1>6

LEMMA CacheNext ==
  ASSUME TypeInv, FlowInv, CacheInv, RecentNeverRepeated, [Next]_vars
  PROVE  CacheInv' /\ RecentNeverRepeated'
  <1>1. ASSUME NEW w \in Workers, NEW o, NEW rest, NEW l, Accept(w, o, rest, l),
               Unchecked(o) \/ ~Known(o), o \in Orders
        PROVE  CacheInv' /\ RecentNeverRepeated'
    <2>1. CASE Unchecked(o)
      BY <1>1, <2>1 DEF Accept, cacheVars, CacheInv, RecentNeverRepeated
    <2>2. CASE ~Unchecked(o)
      BY <1>1, <2>2, AcceptCache DEF Accept
    <2> QED BY <2>1, <2>2
  <1>2. ASSUME UNCHANGED cacheVars
        PROVE  CacheInv' /\ RecentNeverRepeated'
    BY <1>2 DEF cacheVars, CacheInv, RecentNeverRepeated
  <1>3. ASSUME NEW w \in Workers, OrderWebhook(w) \/ RozetkaWebhook(w)
        PROVE  CacheInv' /\ RecentNeverRepeated'
    BY <1>1, <1>2, <1>3, OrderAssumption DEF OrderWebhook, RozetkaWebhook, Unchecked
  <1>4. ASSUME NEW w \in Workers, TakeOrder(w)
        PROVE  CacheInv' /\ RecentNeverRepeated'
    <2>1. loc[w].rest \subseteq Orders
      BY DEF TypeInv, Locals
    <2> QED BY <1>1, <1>4, <2>1 DEF TakeOrder
  <1>5. ASSUME NEW w \in Workers, Step(w), ~TakeOrder(w)
        PROVE  UNCHANGED cacheVars
    BY <1>5 DEF Step, FindIntegration, FetchOrders, FindPollIntegration, NextOrder, SkipOrder,
       EndPoll, ResolveLines, Deduct, ReadStock, WriteStock, EndOrder, Document, BeginDocument,
       TakeSnapshot, DocumentLine, Commit, Rollback, jobVars
  <1>6. CASE Crash
    <2>1. cache' = <<>> /\ marked' = <<>>
      BY <1>6 DEF Crash
    <2> QED BY <2>1, LimitAssumption DEF CacheInv, RecentNeverRepeated
  <1>7. CASE \E o \in Orders : PlaceOrder(o) \/ CloseOrder(o)
    BY <1>2, <1>7 DEF PlaceOrder, CloseOrder
  <1>8. CASE UNCHANGED vars
    BY <1>2, <1>8 DEF vars, jobVars
  <1> QED BY <1>2, <1>3, <1>4, <1>5, <1>6, <1>7, <1>8 DEF Next

(* Between two deductions of one order in the life of a process at least     *)
(* MaxCache other orders came in, whatever the size of the cache             *)
(* (markOrderProcessed forgets oldest first and never early).                *)
THEOREM CacheForgetsLate == Spec => []RecentNeverRepeated
  <1>1. Init => CacheInv /\ RecentNeverRepeated
    BY LimitAssumption DEF Init, CacheInv, RecentNeverRepeated
  <1>2. TypeInv /\ FlowInv /\ CacheInv /\ RecentNeverRepeated /\ [Next]_vars
        => (CacheInv /\ RecentNeverRepeated)'
    BY CacheNext
  <1> QED BY <1>1, <1>2, TypeCorrect, PTL DEF Spec

-----------------------------------------------------------------------------
(* No line is deducted twice.                                                *)

(* The lines that a worker at step l with locals r has not deducted yet; in  *)
(* a transaction nothing counts before its COMMIT.                           *)
Ahead(l, r) ==
  IF l \in {"deduct", "write"} THEN r.todo
  ELSE IF l = "done" THEN {}
  ELSE DOMAIN Lines[r.order]

(* As long as the cache has not lost it, an order is in the hands of at most *)
(* one worker, which has deducted nothing of what is ahead of it, and        *)
(* nothing is deducted of an order that is not remembered.                   *)
Once(o) ==
  /\ \A w \in Workers : loc[w].order = o =>
       Known(o) /\ \A i \in Ahead(pc[w], loc[w]) : applied[<<o, i>>] = 0
  /\ \A i \in DOMAIN Lines[o] : /\ applied[<<o, i>>] <= 1
                                /\ applied[<<o, i>>] # 0 => Known(o)
  /\ \A v, w \in Workers : loc[v].order = o /\ loc[w].order = o => v = w

OnceInv ==
  /\ \A w \in Workers : \A id \in loc[w].written : id[1] = loc[w].order
  /\ \A o \in Orders \ (forgotten \cup Rozetka \cup Unnamed) : Once(o)

(* A worker goes on with its order, or lays it down, and deducts nothing.    *)
LEMMA OnceKept ==
  ASSUME TypeInv, OnceInv, NEW w \in Workers, NEW l, NEW r,
         pc' = [pc EXCEPT ![w] = l], loc' = [loc EXCEPT ![w] = r],
         UNCHANGED <<cacheVars, applied>>,
         \A id \in r.written : id[1] = r.order,
         \/ r.order = None
         \/ r.order = loc[w].order /\ Ahead(l, r) \subseteq Ahead(pc[w], loc[w])
  PROVE  OnceInv'
  <1>1. /\ pc'[w] = l /\ loc'[w] = r
        /\ \A v \in Workers \ {w} : pc'[v] = pc[v] /\ loc'[v] = loc[v]
    BY DEF TypeInv
  <1>2. \A v \in Workers : \A id \in loc'[v].written : id[1] = loc'[v].order
    BY <1>1 DEF OnceInv
  <1>3. ASSUME NEW o \in Orders \ (forgotten \cup Rozetka \cup Unnamed)
        PROVE  Once(o)'
    <2>1. Once(o) /\ o # None
      BY OrderAssumption DEF OnceInv
    <2>2. ASSUME NEW v \in Workers, loc'[v].order = o
          PROVE  loc[v].order = o /\ Ahead(pc'[v], loc'[v]) \subseteq Ahead(pc[v], loc[v])
      BY <1>1, <2>1, <2>2
    <2>3. Known(o)' = Known(o) /\ applied' = applied
      BY DEF Known, cacheVars
    <2> QED BY <2>1, <2>2, <2>3 DEF Once
  <1> QED BY <1>2, <1>3 DEF OnceInv, cacheVars

LEMMA FinishOnce ==
  ASSUME TypeInv, OnceInv, NEW w \in Workers, Finish(w), UNCHANGED <<cacheVars, applied>>
  PROVE  OnceInv'
  <1> DEFINE l == IF w \in Polls THEN "next" ELSE "done"
             r == [NoLocals EXCEPT !.rest = loc[w].rest]
  <1>1. pc' = [pc EXCEPT ![w] = l] /\ loc' = [loc EXCEPT ![w] = r]
    BY DEF Finish, Goto
  <1>2. r.order = None /\ r.written = {}
    BY DEF NoLocals
  <1> HIDE DEF l, r
  <1> QED BY <1>1, <1>2, OnceKept

(* The order is remembered before anything is awaited on its behalf, and so  *)
(* it gets into one pair of hands only.                                      *)
LEMMA AcceptOnce ==
  ASSUME TypeInv, CacheInv, OnceInv, NEW w \in Workers, NEW o \in Orders, NEW rest, NEW l,
         Accept(w, o, rest, l), Unchecked(o) \/ ~Known(o), UNCHANGED applied
  PROVE  OnceInv'
  <1> DEFINE r == [NoLocals EXCEPT !.order = o, !.rest = rest]
  <1>1. r.order = o /\ r.written = {}
    BY DEF NoLocals
  <1>2. /\ loc'[w] = r
        /\ \A v \in Workers \ {w} : pc'[v] = pc[v] /\ loc'[v] = loc[v]
    BY DEF Accept, Goto, TypeInv
  <1> HIDE DEF r
  <1>3. \A v \in Workers : \A id \in loc'[v].written : id[1] = loc'[v].order
    BY <1>1, <1>2 DEF OnceInv
  <1>4. ASSUME NEW p \in Orders \ (forgotten' \cup Rozetka \cup Unnamed)
        PROVE  Once(p)'
    <2>1. Once(p)
      BY DEF OnceInv, Accept, cacheVars
    <2>2. CASE p # o
      <3>1. Known(p) => Known(p)'
        BY DEF Known, Accept, cacheVars
      <3>2. \A v \in Workers : loc'[v].order = p => v # w
        BY <1>1, <1>2, <2>2
      <3> QED BY <1>2, <2>1, <3>1, <3>2 DEF Once
    <2>3. CASE p = o
      <3>1. ~Unchecked(o)
        BY <2>3 DEF Unchecked
      <3>2. ~Known(o)
        BY <3>1
      <3>3. Known(o)'
        <4>1. cache \in Seq(Orders) /\ Len(cache) <= MaxCache
          BY DEF TypeInv, CacheInv
        <4>2. PICK d \in {0, 1} :
                /\ d = 1 <=> Len(cache) = MaxCache
                /\ Remember(o) \in Seq(Orders)
                /\ Len(Remember(o)) = Len(cache) + 1 - d
                /\ Remember(o)[Len(cache) + 1 - d] = o
          BY <4>1, RememberEffect
        <4>3. Len(Remember(o)) >= 1
          BY <4>1, <4>2, LimitAssumption
        <4>4. Len(Remember(o)) \in DOMAIN Remember(o)
          BY <4>2, <4>3
        <4>5. o \in ToSet(Remember(o))
          BY <4>2, <4>4 DEF ToSet
        <4> QED BY <3>1, <4>5 DEF Known, Accept
      <3>4. /\ \A v \in Workers : loc[v].order # o
            /\ \A i \in DOMAIN Lines[o] : applied[<<o, i>>] = 0
        BY <2>1, <2>3, <3>2 DEF Once
      <3>5. \A v \in Workers : loc'[v].order = o => v = w
        BY <1>2, <3>4
      <3>6. Ahead(pc'[w], loc'[w]) \subseteq DOMAIN Lines[o]
        BY <1>1, <1>2 DEF Ahead, NoLocals, r
      <3> QED BY <2>3, <3>3, <3>4, <3>5, <3>6 DEF Once
    <2> QED BY <2>2, <2>3
  <1> QED BY <1>3, <1>4 DEF OnceInv

LEMMA WriteOnce ==
  ASSUME TypeInv, FlowInv, OnceInv, NEW w \in Workers, WriteStock(w)
  PROVE  OnceInv'
  <1> DEFINE m == Min(loc[w].todo)
             id == <<loc[w].order, m>>
             r == [loc[w] EXCEPT !.todo = @ \ {m}]
  <1>0. loc[w] \in Locals
    BY DEF TypeInv
  <1>1. m \in loc[w].todo /\ m \in DOMAIN Lines[loc[w].order] /\ loc[w].order \in Orders
    BY LineType DEF WriteStock, FlowInv, Flow
  <1>2. pc' = [pc EXCEPT ![w] = "deduct"] /\ loc' = [loc EXCEPT ![w] = r]
    BY DEF WriteStock, Advance, Goto, TypeInv
  <1>3. r.order = loc[w].order /\ r.written = loc[w].written /\ r.todo = loc[w].todo \ {m}
    BY <1>0 DEF Locals
  <1>4. UNCHANGED cacheVars
    BY DEF WriteStock, jobVars
  <1>5. /\ Ahead("deduct", r) = r.todo
        /\ Ahead(pc[w], loc[w]) = loc[w].todo
    BY DEF WriteStock, Ahead
  <1> HIDE DEF r
  <1>6. CASE applied' = applied
    <2>1. /\ \A x \in r.written : x[1] = r.order
          /\ Ahead("deduct", r) \subseteq Ahead(pc[w], loc[w])
      BY <1>3, <1>5 DEF OnceInv
    <2> QED BY <1>2, <1>3, <1>4, <1>6, <2>1, OnceKept
  <1>7. CASE applied' = [applied EXCEPT ![id] = @ + 1]
    <2>0. /\ loc'[w] = r /\ pc'[w] = "deduct"
          /\ \A v \in Workers \ {w} : pc'[v] = pc[v] /\ loc'[v] = loc[v]
      BY <1>2 DEF TypeInv
    <2>1. \A v \in Workers : \A x \in loc'[v].written : x[1] = loc'[v].order
      BY <1>3, <2>0 DEF OnceInv
    <2>2. ASSUME NEW o \in Orders \ (forgotten \cup Rozetka \cup Unnamed)
          PROVE  Once(o)'
      <3>0. Once(o) /\ Known(o)' = Known(o)
        BY <1>4 DEF OnceInv, Known, cacheVars
      <3>1. \A v \in Workers : loc'[v].order = loc[v].order
        BY <1>3, <2>0
      <3>2. CASE loc[w].order # o
        <4>1. \A i \in DOMAIN Lines[o] : applied'[<<o, i>>] = applied[<<o, i>>]
          BY <1>7, <3>2, LinesType DEF TypeInv
        <4>2. ASSUME NEW v \in Workers, loc[v].order = o
              PROVE  /\ v # w /\ \A i \in Ahead(pc[v], loc[v]) : applied'[<<o, i>>] = 0
          <5>1. \A i \in Ahead(pc[v], loc[v]) : applied[<<o, i>>] = 0
            BY <3>0, <4>2 DEF Once
          <5>2. Ahead(pc[v], loc[v]) \subseteq DOMAIN Lines[o]
            BY <4>2 DEF Ahead, FlowInv, Flow
          <5> QED BY <3>2, <4>1, <4>2, <5>1, <5>2
        <4> QED BY <2>0, <3>0, <3>1, <4>1, <4>2 DEF Once
      <3>3. CASE loc[w].order = o
        <4>1. Known(o) /\ \A i \in loc[w].todo : applied[<<o, i>>] = 0
          BY <1>5, <3>0, <3>3 DEF Once
        <4>2. id = <<o, m>> /\ id \in LineIds /\ applied[id] = 0
          BY <1>1, <3>3, <4>1, LinesType
        <4>3. \A i \in DOMAIN Lines[o] :
                applied'[<<o, i>>] = IF i = m THEN 1 ELSE applied[<<o, i>>]
          BY <1>7, <4>2, LinesType DEF TypeInv
        <4>4. \A v \in Workers : loc[v].order = o => v = w
          BY <3>0, <3>3 DEF Once
        <4>5. \A i \in Ahead("deduct", r) : applied'[<<o, i>>] = 0
          <5>1. loc[w].todo \subseteq DOMAIN Lines[o]
            BY <3>3 DEF WriteStock, FlowInv, Flow
          <5> QED BY <1>3, <1>5, <4>1, <4>3, <5>1
        <4> QED BY <2>0, <3>0, <3>1, <4>1, <4>3, <4>4, <4>5 DEF Once
      <3> QED BY <3>2, <3>3
    <2> QED BY <1>4, <2>1, <2>2 DEF OnceInv, cacheVars
  <1> QED BY <1>6, <1>7 DEF WriteStock

LEMMA CommitOnce ==
  ASSUME TypeInv, FlowInv, OnceInv, NEW w \in Workers, Commit(w)
  PROVE  OnceInv'
  <1> DEFINE r == [NoLocals EXCEPT !.rest = loc[w].rest]
  <1>1. /\ loc'[w] = r /\ pc'[w] \in {"next", "done"}
        /\ \A v \in Workers \ {w} : pc'[v] = pc[v] /\ loc'[v] = loc[v]
    BY DEF Commit, Finish, Goto, TypeInv
  <1>2. r.order = None /\ r.written = {}
    BY DEF NoLocals
  <1> HIDE DEF r
  <1>3. UNCHANGED cacheVars
    BY DEF Commit, jobVars
  <1>4. \A v \in Workers : \A id \in loc'[v].written : id[1] = loc'[v].order
    BY <1>1, <1>2 DEF OnceInv
  <1>5. ASSUME NEW o \in Orders \ (forgotten \cup Rozetka \cup Unnamed)
        PROVE  Once(o)'
    <2>0. Once(o) /\ Known(o)' = Known(o) /\ o # None
      BY <1>3, OrderAssumption DEF OnceInv, Known, cacheVars
    <2>1. \A i \in DOMAIN Lines[o] :
            applied'[<<o, i>>] = applied[<<o, i>>]
                                 + (IF <<o, i>> \in loc[w].written THEN 1 ELSE 0)
      BY LinesType DEF Commit
    <2>2. CASE loc[w].order # o
      <3>1. \A i : <<o, i>> \notin loc[w].written
        BY <2>2 DEF OnceInv
      <3>2. \A i \in DOMAIN Lines[o] : applied'[<<o, i>>] = applied[<<o, i>>]
        <4> TAKE i \in DOMAIN Lines[o]
        <4>1. applied[<<o, i>>] \in Nat
          BY LinesType DEF TypeInv
        <4> QED BY <2>1, <3>1, <4>1
      <3>3. ASSUME NEW v \in Workers, loc'[v].order = o
            PROVE  /\ v # w /\ loc[v].order = o
                   /\ \A i \in Ahead(pc[v], loc[v]) : applied'[<<o, i>>] = 0
        <4>1. v # w /\ loc[v].order = o
          BY <1>1, <1>2, <2>0, <3>3
        <4>2. \A i \in Ahead(pc[v], loc[v]) : applied[<<o, i>>] = 0
          BY <2>0, <4>1 DEF Once
        <4>3. Ahead(pc[v], loc[v]) \subseteq DOMAIN Lines[o]
          BY <4>1 DEF Ahead, FlowInv, Flow
        <4> QED BY <3>2, <4>1, <4>2, <4>3
      <3> QED BY <1>1, <2>0, <3>2, <3>3 DEF Once
    <2>3. CASE loc[w].order = o
      <3>1. Known(o) /\ \A i \in DOMAIN Lines[o] : applied[<<o, i>>] = 0
        <4>1. Ahead(pc[w], loc[w]) = DOMAIN Lines[o]
          BY <2>3 DEF Commit, Ahead
        <4> QED BY <2>0, <2>3, <4>1 DEF Once
      <3>2. \A v \in Workers : loc'[v].order # o
        BY <1>1, <1>2, <2>0, <2>3 DEF Once
      <3>3. \A i \in DOMAIN Lines[o] : applied'[<<o, i>>] <= 1
        BY <2>1, <3>1
      <3> QED BY <2>0, <3>1, <3>2, <3>3 DEF Once
    <2> QED BY <2>2, <2>3
  <1> QED BY <1>3, <1>4, <1>5 DEF OnceInv, cacheVars

LEMMA CrashOnce ==
  ASSUME TypeInv, OnceInv, Crash
  PROVE  OnceInv'
  <1>1. \A w \in Workers : loc'[w].order = None /\ loc'[w].written = {}
    BY DEF Crash, NoLocals
  <1>2. ASSUME NEW o \in Orders \ (forgotten' \cup Rozetka \cup Unnamed)
        PROVE  Once(o)'
    <2>1. o \notin forgotten /\ ~Known(o) /\ o # None
      BY OrderAssumption DEF Crash, Known
    <2>2. \A i \in DOMAIN Lines[o] : applied[<<o, i>>] = 0
      BY <2>1 DEF OnceInv, Once
    <2>3. applied' = applied
      BY DEF Crash
    <2> QED BY <1>1, <2>1, <2>2, <2>3 DEF Once
  <1> QED BY <1>1, <1>2 DEF OnceInv

LEMMA OnceNext ==
  ASSUME TypeInv, FlowInv, CacheInv, OnceInv, [Next]_vars
  PROVE  OnceInv'
  <1>0. ASSUME NEW w \in Workers
        PROVE  /\ loc[w] \in Locals /\ \A id \in loc[w].written : id[1] = loc[w].order
               /\ pc = [pc EXCEPT ![w] = pc[w]] /\ loc = [loc EXCEPT ![w] = loc[w]]
    BY DEF TypeInv, OnceInv
  <1>1. ASSUME NEW w \in Workers, OrderWebhook(w) \/ RozetkaWebhook(w)
        PROVE  OnceInv'
    <2>1. pc[w] = "idle" /\ UNCHANGED applied
      BY <1>1 DEF OrderWebhook, RozetkaWebhook, stockVars
    <2>2. CASE \E o \in Orders, l \in {"integration", "resolve"} :
                 Accept(w, o, {}, l) /\ (Unchecked(o) \/ ~Known(o))
      BY <2>1, <2>2, AcceptOnce
    <2>3. CASE Goto(w, "done") /\ UNCHANGED <<loc, cacheVars>>
      <3>1. Ahead("done", loc[w]) \subseteq Ahead(pc[w], loc[w])
        BY DEF Ahead
      <3> QED BY <1>0, <2>1, <2>3, <3>1, OnceKept DEF Goto
    <2> QED BY <1>1, <2>2, <2>3, OrderAssumption DEF OrderWebhook, RozetkaWebhook, Unchecked
  <1>2. ASSUME NEW w \in Workers, FindIntegration(w)
        PROVE  OnceInv'
    <2>1. PICK l \in {"resolve", "done"} : Goto(w, l)
      BY <1>2 DEF FindIntegration
    <2>2. Ahead(l, loc[w]) \subseteq Ahead(pc[w], loc[w])
      BY <1>2 DEF FindIntegration, Ahead
    <2>3. UNCHANGED <<loc, cacheVars, applied>>
      BY <1>2 DEF FindIntegration, jobVars, stockVars
    <2> QED BY <1>0, <2>1, <2>2, <2>3, OnceKept DEF Goto
  <1>3. ASSUME NEW w \in Workers, FetchOrders(w) \/ SkipOrder(w) \/ EndPoll(w)
        PROVE  OnceInv'
    <2>1. \E l \in {"integration", "next", "idle"} : \E rest :
             /\ pc' = [pc EXCEPT ![w] = l]
             /\ loc' = [loc EXCEPT ![w] = [loc[w] EXCEPT !.rest = rest]]
      <3>1. CASE FetchOrders(w)
        BY <1>0, <3>1 DEF FetchOrders, Goto
      <3>2. CASE SkipOrder(w)
        BY <1>0, <3>2 DEF SkipOrder
      <3>3. CASE EndPoll(w)
        <4>1. loc[w] = [loc[w] EXCEPT !.rest = loc[w].rest]
          BY <1>0 DEF Locals
        <4> QED BY <1>0, <3>3, <4>1 DEF EndPoll, Goto
      <3> QED BY <1>3, <3>1, <3>2, <3>3
    <2>2. PICK l \in {"integration", "next", "idle"} : \E rest :
             /\ pc' = [pc EXCEPT ![w] = l]
             /\ loc' = [loc EXCEPT ![w] = [loc[w] EXCEPT !.rest = rest]]
      BY <2>1
    <2>3. PICK rest : loc' = [loc EXCEPT ![w] = [loc[w] EXCEPT !.rest = rest]]
      BY <2>2
    <2> DEFINE r == [loc[w] EXCEPT !.rest = rest]
    <2>4. r.order = loc[w].order /\ \A id \in r.written : id[1] = r.order
      BY <1>0 DEF Locals
    <2>5. pc' = [pc EXCEPT ![w] = l] /\ loc' = [loc EXCEPT ![w] = r]
      BY <2>2, <2>3
    <2> HIDE DEF r
    <2>6. Ahead(l, r) \subseteq Ahead(pc[w], loc[w])
      BY <1>3, <2>4 DEF FetchOrders, SkipOrder, EndPoll, Ahead
    <2>7. UNCHANGED <<cacheVars, applied>>
      BY <1>3 DEF FetchOrders, SkipOrder, EndPoll, jobVars, stockVars
    <2> QED BY <2>4, <2>5, <2>6, <2>7, OnceKept
  <1>4. ASSUME NEW w \in Workers, FindPollIntegration(w)
        PROVE  OnceInv'
    <2>1. UNCHANGED <<cacheVars, applied>> /\ pc[w] = "integration"
      BY <1>4 DEF FindPollIntegration, jobVars, stockVars
    <2>2. CASE Goto(w, "next") /\ UNCHANGED loc
      <3>1. Ahead("next", loc[w]) \subseteq Ahead(pc[w], loc[w])
        BY <2>1 DEF Ahead
      <3> QED BY <1>0, <2>1, <2>2, <3>1, OnceKept DEF Goto
    <2>3. CASE Goto(w, "idle") /\ loc' = [loc EXCEPT ![w] = NoLocals]
      <3>1. NoLocals.order = None /\ NoLocals.written = {}
        BY DEF NoLocals
      <3> QED BY <2>1, <2>3, <3>1, OnceKept DEF Goto
    <2> QED BY <1>4, <2>2, <2>3 DEF FindPollIntegration
  <1>5. ASSUME NEW w \in Workers, TakeOrder(w)
        PROVE  OnceInv'
    <2>1. PICK o \in loc[w].rest : /\ Unchecked(o) \/ ~Known(o)
                                   /\ Accept(w, o, loc[w].rest \ {o}, "resolve")
      BY <1>5 DEF TakeOrder
    <2>2. o \in Orders /\ UNCHANGED applied
      BY <1>0, <1>5 DEF Locals, TakeOrder, stockVars
    <2> QED BY <2>1, <2>2, AcceptOnce
  <1>6. ASSUME NEW w \in Workers, ResolveLines(w)
        PROVE  OnceInv'
    <2>1. PICK todo \in SUBSET (DOMAIN Lines[loc[w].order]) : loc' = [loc EXCEPT ![w].todo = todo]
      BY <1>6 DEF ResolveLines
    <2> DEFINE l == IF loc[w].order \in Documented THEN "begin" ELSE "deduct"
               r == [loc[w] EXCEPT !.todo = todo]
    <2>2. pc' = [pc EXCEPT ![w] = l] /\ loc' = [loc EXCEPT ![w] = r]
      BY <1>0, <1>6, <2>1 DEF ResolveLines, Goto
    <2>3. /\ r.order = loc[w].order /\ r.todo = todo
          /\ \A id \in r.written : id[1] = r.order
      BY <1>0 DEF Locals
    <2> HIDE DEF l, r
    <2>4. Ahead(l, r) \subseteq Ahead(pc[w], loc[w])
      BY <1>6, <2>3 DEF ResolveLines, Ahead, l
    <2>5. UNCHANGED <<cacheVars, applied>>
      BY <1>6 DEF ResolveLines, jobVars, stockVars
    <2> QED BY <2>2, <2>3, <2>4, <2>5, OnceKept
  <1>7. ASSUME NEW w \in Workers, ReadStock(w) \/ BeginDocument(w) \/ TakeSnapshot(w)
                                  \/ DocumentLine(w)
        PROVE  OnceInv'
    <2>1. PICK l, r :
             /\ pc' = [pc EXCEPT ![w] = l] /\ loc' = [loc EXCEPT ![w] = r]
             /\ r.order = loc[w].order /\ \A id \in r.written : id[1] = loc[w].order
             /\ Ahead(l, r) \subseteq Ahead(pc[w], loc[w])
      <3>1. CASE ReadStock(w)
        <4>1. PICK l \in {"deduct", "write"},
                   r \in {[loc[w] EXCEPT !.read = stock[Line(w).item]],
                          [loc[w] EXCEPT !.todo = @ \ {Min(@)}]} :
                 pc' = [pc EXCEPT ![w] = l] /\ loc' = [loc EXCEPT ![w] = r]
          BY <1>0, <3>1 DEF ReadStock, Advance, Goto
        <4>2. /\ r.order = loc[w].order /\ r.written = loc[w].written
              /\ r.todo \subseteq loc[w].todo
          BY <1>0, <4>1 DEF Locals
        <4>3. Ahead(l, r) \subseteq Ahead(pc[w], loc[w])
          BY <3>1, <4>1, <4>2 DEF ReadStock, Ahead
        <4> QED BY <1>0, <4>1, <4>2, <4>3
      <3>2. CASE BeginDocument(w) \/ TakeSnapshot(w)
        <4>1. PICK l \in {"snapshot", "lines"},
                   r \in {[loc[w] EXCEPT !.read = ndok + 1], [loc[w] EXCEPT !.snap = stock]} :
                 pc' = [pc EXCEPT ![w] = l] /\ loc' = [loc EXCEPT ![w] = r]
          BY <1>0, <3>2 DEF BeginDocument, TakeSnapshot, Goto
        <4>2. r.order = loc[w].order /\ r.written = loc[w].written
          BY <1>0, <4>1 DEF Locals
        <4>3. Ahead(l, r) \subseteq Ahead(pc[w], loc[w])
          BY <3>2, <4>1, <4>2 DEF BeginDocument, TakeSnapshot, Ahead
        <4> QED BY <1>0, <4>1, <4>2, <4>3
      <3>3. CASE DocumentLine(w)
        <4>1. PICK t, d :
                 loc' = [loc EXCEPT ![w].tx = t,
                           ![w].written = @ \cup {<<loc[w].order, Min(loc[w].todo)>>},
                           ![w].todo = d]
          BY <3>3 DEF DocumentLine
        <4> DEFINE r == [loc[w] EXCEPT !.tx = t,
                           !.written = @ \cup {<<loc[w].order, Min(loc[w].todo)>>}, !.todo = d]
        <4>0. loc' = [loc EXCEPT ![w] = r]
          BY <4>1
        <4>2. loc' = [loc EXCEPT ![w] = r] /\ pc' = [pc EXCEPT ![w] = pc[w]] /\ pc[w] = "lines"
          <5>1. pc' = pc /\ pc[w] = "lines"
            BY <3>3 DEF DocumentLine
          <5> HIDE DEF r
          <5> QED BY <1>0, <4>0, <5>1
        <4>3. /\ r.order = loc[w].order
              /\ r.written = loc[w].written \cup {<<loc[w].order, Min(loc[w].todo)>>}
          BY <1>0 DEF Locals
        <4> HIDE DEF r
        <4>4. Ahead(pc[w], r) \subseteq Ahead(pc[w], loc[w])
          BY <4>2, <4>3 DEF Ahead
        <4>5. \A id \in r.written : id[1] = loc[w].order
          BY <1>0, <4>3
        <4> QED BY <4>2, <4>3, <4>4, <4>5
      <3> QED BY <1>7, <3>1, <3>2, <3>3
    <2>2. UNCHANGED <<cacheVars, applied>>
      BY <1>7 DEF ReadStock, BeginDocument, TakeSnapshot, DocumentLine, jobVars, stockVars
    <2> QED BY <2>1, <2>2, OnceKept
  <1>8. ASSUME NEW w \in Workers, EndOrder(w) \/ Rollback(w)
        PROVE  OnceInv'
    BY <1>8, FinishOnce DEF EndOrder, Rollback, jobVars, stockVars
  <1>9. ASSUME NEW w \in Workers, Step(w)
        PROVE  OnceInv'
    BY <1>2, <1>3, <1>4, <1>5, <1>6, <1>7, <1>8, <1>9, WriteOnce, CommitOnce
       DEF Step, NextOrder, Deduct, Document
  <1>10. CASE UNCHANGED <<cacheVars, pc, loc, stockVars, left>>
    BY <1>10 DEF OnceInv, Once, Known, cacheVars, stockVars
  <1>11. CASE UNCHANGED vars
    BY <1>10, <1>11 DEF vars, jobVars
  <1> QED BY <1>1, <1>9, <1>10, <1>11, CrashOnce DEF Next, PlaceOrder, CloseOrder

(* No line of an order is deducted twice while the cache remembers it,       *)
(* however often its webhook is delivered and whichever polls list it at the *)
(* same time (markOrderProcessed is called before the first await).          *)
THEOREM NeverDeductedTwice == Spec => []DeductedOnce
  <1>1. Init => CacheInv /\ RecentNeverRepeated /\ OnceInv
    <2> SUFFICES ASSUME Init PROVE CacheInv /\ RecentNeverRepeated /\ OnceInv
      OBVIOUS
    <2>1. CacheInv /\ RecentNeverRepeated
      BY LimitAssumption DEF Init, CacheInv, RecentNeverRepeated
    <2>2. \A w \in Workers : loc[w].order = None /\ loc[w].written = {}
      BY DEF Init, NoLocals
    <2>3. ASSUME NEW o \in Orders PROVE Once(o)
      <3>1. \A i \in DOMAIN Lines[o] : applied[<<o, i>>] = 0
        BY LinesType DEF Init
      <3> QED BY <2>2, <3>1, OrderAssumption DEF Once
    <2> QED BY <2>1, <2>2, <2>3 DEF OnceInv
  <1>2. /\ TypeInv /\ FlowInv /\ CacheInv /\ RecentNeverRepeated /\ OnceInv /\ [Next]_vars
        => (CacheInv /\ RecentNeverRepeated /\ OnceInv)'
    BY CacheNext, OnceNext
  <1>3. OnceInv => DeductedOnce
    BY DEF OnceInv, Once, DeductedOnce, LineIds
  <1> QED BY <1>1, <1>2, <1>3, TypeCorrect, PTL DEF Spec

-----------------------------------------------------------------------------
(* Sums over finite sets.  The fold of the library is a function on the      *)
(* subsets; its induction is over their size, from the least size a          *)
(* statement fails for.                                                      *)

LEMMA LeastNumber ==
  ASSUME NEW S \in SUBSET Nat, S # {}
  PROVE  \E n \in S : \A m \in S : n <= m
  <1> DEFINE R == OpToRel(<, Nat)
  <1>1. IsWellFoundedOn(R, Nat)
    BY NatLessThanWellFounded
  <1>2. \A x, y \in Nat : x < y => <<x, y>> \in R
    BY DEF OpToRel
  <1> HIDE DEF R
  <1>3. \E x \in S : \A y \in S : ~ (<<y, x>> \in R)
    BY <1>1, WFMin
  <1>4. PICK n \in S : \A y \in S : ~ (<<y, n>> \in R)
    BY <1>3
  <1>5. ASSUME NEW y \in S PROVE n <= y
    <2>1. n \in Nat /\ y \in Nat
      OBVIOUS
    <2>2. ~(y < n)
      BY <2>1, <1>2, <1>4
    <2> QED BY <2>1, <2>2
  <1> QED BY <1>4, <1>5

LEMMA UpTo ==
  ASSUME NEW N \in Nat, NEW S, 0 \in S, \A n \in 1 .. N : n - 1 \in S => n \in S
  PROVE  \A n \in 0 .. N : n \in S
  <1> SUFFICES ASSUME NEW k \in 0 .. N, k \notin S PROVE FALSE
    OBVIOUS
  <1> DEFINE Out == {n \in 0 .. N : n \notin S}
  <1>1. Out \in SUBSET Nat /\ Out # {}
    OBVIOUS
  <1>2. PICK n \in Out : \A m \in Out : n <= m
    <2> HIDE DEF Out
    <2> QED BY <1>1, LeastNumber
  <1>3. n \in 1 .. N /\ n - 1 \in 0 .. N /\ ~(n <= n - 1)
    OBVIOUS
  <1>4. n - 1 \in S
    BY <1>2, <1>3
  <1> QED BY <1>3, <1>4

(* Induction over the subsets of a finite set.                               *)
LEMMA BySize ==
  ASSUME NEW S, IsFiniteSet(S), NEW Good,
         \A T \in SUBSET S : (\A U \in SUBSET S :
           Cardinality(U) < Cardinality(T) => U \in Good) => T \in Good
  PROVE  \A T \in SUBSET S : T \in Good
  <1> SUFFICES ASSUME NEW B \in SUBSET S, B \notin Good PROVE FALSE
    OBVIOUS
  <1> DEFINE Sizes == {n \in Nat : \E T \in SUBSET S : T \notin Good /\ Cardinality(T) = n}
  <1>1. \A T \in SUBSET S : Cardinality(T) \in Nat
    BY FS_Subset, FS_CardinalityType
  <1>2. Sizes # {} /\ Sizes \in SUBSET Nat
    BY <1>1
  <1>3. PICK n \in Sizes : \A m \in Sizes : n <= m
    <2> HIDE DEF Sizes
    <2> QED BY <1>2, LeastNumber
  <1>4. PICK T \in SUBSET S : T \notin Good /\ Cardinality(T) = n
    BY <1>3
  <1>5. PICK U \in SUBSET S : Cardinality(U) < Cardinality(T) /\ U \notin Good
    BY <1>4
  <1>6. Cardinality(U) \in Sizes /\ n \in Nat /\ Cardinality(U) \in Nat
    BY <1>1, <1>3, <1>5
  <1>7. n <= Cardinality(U)
    BY <1>3, <1>6
  <1> QED BY <1>4, <1>5, <1>6, <1>7

LEMMA Smaller ==
  ASSUME NEW S, IsFiniteSet(S), NEW T \in SUBSET S, NEW x \in T
  PROVE  /\ T \ {x} \in SUBSET S /\ Cardinality(T \ {x}) < Cardinality(T)
         /\ Cardinality(T \ {x}) \in Nat /\ Cardinality(T) \in Nat
  <1>1. IsFiniteSet(T)
    BY FS_Subset
  <1>2. IsFiniteSet(T \ {x}) /\ Cardinality(T \ {x}) = Cardinality(T) - 1
    BY <1>1, FS_RemoveElement
  <1> QED BY <1>1, <1>2, FS_CardinalityType

(* g is the sum of f over the subsets of S, as MapThenSumSet computes it.    *)
Sums(g, f, S) ==
  g = [T \in SUBSET S |-> IF T = {} THEN 0
                          ELSE LET x == CHOOSE x \in T : TRUE IN f[x] + g[T \ {x}]]

Total(f, S) == (CHOOSE g : Sums(g, f, S))[S]

(* The lines that sell a product, and what the deductions a took for each.   *)
Ids(item) == {id \in LineIds : Lines[id[1]][id[2]].item = item}

Amounts(a, item) == [id \in Ids(item) |-> a[id] * Lines[id[1]][id[2]].qty]

LEMMA DeductedIsTotal ==
  ASSUME NEW item
  PROVE  Deducted(item) = Total(Amounts(applied, item), Ids(item))
  <1> DEFINE F(g) == g = [T \in SUBSET Ids(item) |-> IF T = {} THEN 0
        ELSE LET x == CHOOSE x \in T : TRUE IN applied[x] * Lines[x[1]][x[2]].qty + g[T \ {x}]]
  <1>1. Deducted(item) = (CHOOSE g : F(g))[Ids(item)]
    BY DEF Deducted, MapThenSumSet, MapThenFoldSet, Ids
  <1>2. ASSUME NEW g PROVE F(g) <=> Sums(g, Amounts(applied, item), Ids(item))
    <2> DEFINE f == Amounts(applied, item)
               L(T) == IF T = {} THEN 0
        ELSE LET x == CHOOSE x \in T : TRUE IN applied[x] * Lines[x[1]][x[2]].qty + g[T \ {x}]
               R(T) == IF T = {} THEN 0
                          ELSE LET x == CHOOSE x \in T : TRUE IN f[x] + g[T \ {x}]
    <2>1. ASSUME NEW T \in SUBSET Ids(item) PROVE L(T) = R(T)
      <3>1. CASE T = {}
        BY <3>1
      <3>2. CASE T # {}
        <4> DEFINE x == CHOOSE x \in T : TRUE
        <4>1. x \in Ids(item)
          BY <3>2
        <4>2. f[x] = applied[x] * Lines[x[1]][x[2]].qty
          BY <4>1 DEF Amounts
        <4> QED BY <3>2, <4>2
      <3> QED BY <3>1, <3>2
    <2>2. [T \in SUBSET Ids(item) |-> L(T)] = [T \in SUBSET Ids(item) |-> R(T)]
      <3> HIDE DEF L, R
      <3> QED BY <2>1
    <2> QED BY <2>2 DEF Sums
  <1>3. (CHOOSE g : F(g)) = CHOOSE g : Sums(g, Amounts(applied, item), Ids(item))
    <2> DEFINE G(g) == Sums(g, Amounts(applied, item), Ids(item))
    <2>1. \A g : F(g) <=> G(g)
      BY <1>2
    <2> HIDE DEF F, G
    <2>2. (CHOOSE g : F(g)) = CHOOSE g : G(g)
      BY <2>1
    <2> QED BY <2>2 DEF G
  <1> QED BY <1>1, <1>3 DEF Total

(* Such a function exists: one for the sets of up to n elements is extended  *)
(* by those of n + 1.                                                        *)
LEMMA SumExists ==
  ASSUME NEW S, IsFiniteSet(S), NEW f
  PROVE  \E g : Sums(g, f, S)
  <1> DEFINE E(g, T) == IF T = {} THEN 0
                          ELSE LET x == CHOOSE x \in T : TRUE IN f[x] + g[T \ {x}]
             P(g, n) == \A T \in SUBSET S : Cardinality(T) <= n => g[T] = E(g, T)
             N == Cardinality(S)
             Reached == {n \in 0 .. N : \E g : P(g, n)}
  <1>1. N \in Nat /\ \A T \in SUBSET S : Cardinality(T) \in Nat /\ Cardinality(T) <= N
    BY FS_CardinalityType, FS_Subset
  <1>2. 0 \in Reached
    <2> DEFINE g == [T \in SUBSET S |-> 0]
    <2>1. \A T \in SUBSET S : Cardinality(T) <= 0 => T = {}
      BY <1>1, FS_EmptySet, FS_Subset
    <2>2. P(g, 0)
      BY <2>1
    <2> HIDE DEF g, P
    <2> QED BY <1>1, <2>2
  <1>3. ASSUME NEW n \in 1 .. N, n - 1 \in Reached PROVE n \in Reached
    <2>1. PICK g : P(g, n - 1)
      BY <1>3
    <2> DEFINE h == [T \in SUBSET S |-> E(g, T)]
    <2>2. ASSUME NEW T \in SUBSET S, Cardinality(T) <= n PROVE h[T] = E(h, T)
      <3>1. CASE T = {}
        BY <3>1
      <3>2. CASE T # {}
        <4> DEFINE x == CHOOSE x \in T : TRUE
                   U == T \ {x}
        <4>1. x \in T
          BY <3>2
        <4>2. U \in SUBSET S /\ Cardinality(U) <= n - 1
          <5>1. U \in SUBSET S /\ Cardinality(U) < Cardinality(T)
            BY <4>1, Smaller
          <5>2. Cardinality(U) \in Nat /\ Cardinality(T) \in Nat /\ n \in Nat
            BY <1>1, <5>1
          <5> HIDE DEF U
          <5> QED BY <2>2, <5>1, <5>2
        <4>3. g[U] = E(g, U)
          BY <2>1, <4>2
        <4>4. h[U] = g[U]
          <5> HIDE DEF E, U
          <5> QED BY <4>2, <4>3
        <4>5. h[T] = f[x] + g[U] /\ E(h, T) = f[x] + h[U]
          <5>1. h[T] = E(g, T)
            BY DEF h
          <5>2. E(g, T) = f[x] + g[U] 
            BY <3>2
          <5>3. E(h, T) = f[x] + h[U]
            <6> HIDE DEF h
            <6> QED BY <3>2
          <5> QED BY <5>1, <5>2, <5>3
        <4> QED BY <4>4, <4>5
      <3> QED BY <3>1, <3>2
    <2> HIDE DEF h
    <2>3. P(h, n)
      BY <2>2
    <2>4. \E k : P(k, n)
      <3> HIDE DEF P
      <3> QED BY <2>3
    <2>5. n \in 0 .. N
      BY <1>1
    <2> HIDE DEF P
    <2> QED BY <2>4, <2>5
  <1>4. N \in Reached
    <2> HIDE DEF Reached, N
    <2> QED BY <1>1, <1>2, <1>3, UpTo
  <1>5. PICK g : P(g, N)
    BY <1>4
  <1> DEFINE h == [T \in SUBSET S |-> E(g, T)]
  <1>6. \A T \in SUBSET S : h[T] = g[T]
    <2> HIDE DEF E
    <2> QED BY <1>1, <1>5
  <1>7. \A T \in SUBSET S : h[T] = E(h, T)
    <2> SUFFICES ASSUME NEW T \in SUBSET S PROVE E(g, T) = E(h, T)
      BY DEF h
    <2> HIDE DEF h
    <2>1. CASE T = {}
      BY <2>1
    <2>2. CASE T # {}
      <3> DEFINE x == CHOOSE x \in T : TRUE
      <3>1. T \ {x} \in SUBSET S
        OBVIOUS
      <3>2. h[T \ {x}] = g[T \ {x}]
        BY <3>1, <1>6
      <3> QED BY <2>2, <3>2
    <2> QED BY <2>1, <2>2
  <1>8. h = [T \in SUBSET S |-> E(h, T)]
    <2> HIDE DEF E
    <2>1. DOMAIN h = SUBSET S /\ h = [T \in DOMAIN h |-> h[T]]
      OBVIOUS
    <2> HIDE DEF h
    <2> QED BY <2>1, <1>7
  <1> HIDE DEF h
  <1> QED BY <1>8 DEF Sums

LEMMA SumStep ==
  ASSUME NEW S, NEW f, NEW g, Sums(g, f, S), NEW T \in SUBSET S
  PROVE  IF T = {} THEN g[T] = 0 ELSE \E x \in T : g[T] = f[x] + g[T \ {x}]
  <1> DEFINE E(U) == IF U = {} THEN 0 ELSE LET x == CHOOSE x \in U : TRUE IN f[x] + g[U \ {x}]
  <1>1. g[T] = E(T)
    <2>1. g = [U \in SUBSET S |-> E(U)]
      BY DEF Sums
    <2> HIDE DEF E
    <2> QED BY <2>1
  <1>2. CASE T = {}
    BY <1>1, <1>2
  <1>3. CASE T # {}
    <2> DEFINE x == CHOOSE x \in T : TRUE
    <2>1. x \in T
      BY <1>3
    <2>2. E(T) = f[x] + g[T \ {x}]
      BY <1>3
    <2> HIDE DEF x, E
    <2> QED BY <1>1, <1>3, <2>1, <2>2
  <1> QED BY <1>2, <1>3

LEMMA SumType ==
  ASSUME NEW S, IsFiniteSet(S), NEW f \in [S -> Nat], NEW g, Sums(g, f, S)
  PROVE  \A T \in SUBSET S : g[T] \in Nat
  <1> DEFINE Good == {T \in SUBSET S : g[T] \in Nat}
  <1>1. ASSUME NEW T \in SUBSET S,
               \A U \in SUBSET S : Cardinality(U) < Cardinality(T) => U \in Good
        PROVE  T \in Good
    <2>1. CASE T = {}
      BY <2>1, SumStep
    <2>2. CASE T # {}
      <3>1. PICK x \in T : g[T] = f[x] + g[T \ {x}]
        BY <2>2, SumStep
      <3>2. T \ {x} \in Good
        BY <1>1, Smaller
      <3> QED BY <3>1, <3>2
    <2> QED BY <2>1, <2>2
  <1> HIDE DEF Good
  <1>2. \A T \in SUBSET S : T \in Good
    BY <1>1, BySize
  <1> QED BY <1>2 DEF Good

(* Any element may be taken out first.                                       *)
LEMMA AnyFirst ==
  ASSUME NEW S, IsFiniteSet(S), NEW f \in [S -> Nat], NEW g, Sums(g, f, S)
  PROVE  \A T \in SUBSET S : \A y \in T : g[T] = f[y] + g[T \ {y}]
  <1> DEFINE Good == {T \in SUBSET S : \A y \in T : g[T] = f[y] + g[T \ {y}]}
  <1>0. \A T \in SUBSET S : g[T] \in Nat
    BY SumType
  <1>1. ASSUME NEW T \in SUBSET S,
               \A U \in SUBSET S : Cardinality(U) < Cardinality(T) => U \in Good
        PROVE  T \in Good
    <2> SUFFICES ASSUME NEW y \in T PROVE g[T] = f[y] + g[T \ {y}]
      BY DEF Good
    <2>1. PICK x \in T : g[T] = f[x] + g[T \ {x}]
      BY SumStep
    <2>2. CASE x = y
      BY <2>1, <2>2
    <2>3. CASE x # y
      <3>1. T \ {x} \in Good /\ T \ {y} \in Good
        BY <1>1, Smaller
      <3>2. (T \ {x}) \ {y} = (T \ {y}) \ {x}
        OBVIOUS
      <3>3. y \in T \ {x} /\ x \in T \ {y}
        BY <2>3
      <3>4. g[T \ {x}] = f[y] + g[(T \ {x}) \ {y}]
        BY <3>1, <3>3 DEF Good
      <3>5. g[T \ {y}] = f[x] + g[(T \ {y}) \ {x}]
        BY <3>1, <3>3 DEF Good
      <3>6. f[x] \in Nat /\ f[y] \in Nat /\ g[(T \ {x}) \ {y}] \in Nat
        BY <1>0
      <3> DEFINE rest == g[(T \ {x}) \ {y}]
      <3>7. g[(T \ {y}) \ {x}] = rest
        BY <3>2
      <3> HIDE DEF rest
      <3>8. rest \in Nat /\ g[T \ {x}] = f[y] + rest /\ g[T \ {y}] = f[x] + rest
        BY <3>4, <3>5, <3>6, <3>7 DEF rest
      <3> QED BY <2>1, <3>6, <3>8
    <2> QED BY <2>2, <2>3
  <1> HIDE DEF Good
  <1>2. \A T \in SUBSET S : T \in Good
    BY <1>1, BySize
  <1> QED BY <1>2 DEF Good

(* The sum depends on the summands only.                                     *)
LEMMA SumSame ==
  ASSUME NEW S, IsFiniteSet(S), NEW f \in [S -> Nat], NEW h \in [S -> Nat],
         NEW g, Sums(g, f, S), NEW k, Sums(k, h, S)
  PROVE  \A T \in SUBSET S : (\A x \in T : f[x] = h[x]) => g[T] = k[T]
  <1> DEFINE Good == {T \in SUBSET S : (\A x \in T : f[x] = h[x]) => g[T] = k[T]}
  <1>1. ASSUME NEW T \in SUBSET S,
               \A U \in SUBSET S : Cardinality(U) < Cardinality(T) => U \in Good
        PROVE  T \in Good
    <2> SUFFICES ASSUME \A x \in T : f[x] = h[x] PROVE g[T] = k[T]
      BY DEF Good
    <2>1. CASE T = {}
      BY <2>1, SumStep
    <2>2. CASE T # {}
      <3>1. PICK x \in T : g[T] = f[x] + g[T \ {x}]
        BY <2>2, SumStep
      <3>2. k[T] = h[x] + k[T \ {x}]
        BY AnyFirst
      <3>3. T \ {x} \in Good
        BY <1>1, Smaller
      <3> QED BY <3>1, <3>2, <3>3 DEF Good
    <2> QED BY <2>1, <2>2
  <1> HIDE DEF Good
  <1>2. \A T \in SUBSET S : T \in Good
    BY <1>1, BySize
  <1> QED BY <1>2 DEF Good

LEMMA TotalIs ==
  ASSUME NEW S, IsFiniteSet(S), NEW f
  PROVE  \E g : Sums(g, f, S) /\ Total(f, S) = g[S]
  <1> DEFINE g == CHOOSE g : Sums(g, f, S)
  <1>1. Sums(g, f, S) /\ Total(f, S) = g[S]
    BY SumExists DEF Total
  <1> HIDE DEF g
  <1> QED BY <1>1

(* One summand grows.                                                        *)
LEMMA TotalGrows ==
  ASSUME NEW S, IsFiniteSet(S), NEW f \in [S -> Nat], NEW h \in [S -> Nat],
         NEW y \in S, NEW q \in Nat, h[y] = f[y] + q, \A x \in S \ {y} : h[x] = f[x]
  PROVE  Total(h, S) = Total(f, S) + q
  <1>1. PICK g : Sums(g, f, S) /\ Total(f, S) = g[S]
    BY TotalIs
  <1>2. PICK k : Sums(k, h, S) /\ Total(h, S) = k[S]
    BY TotalIs
  <1>3. g[S] = f[y] + g[S \ {y}]
    BY <1>1, AnyFirst
  <1>6. k[S] = h[y] + k[S \ {y}]
    BY <1>2, AnyFirst
  <1>4. g[S \ {y}] = k[S \ {y}] /\ g[S \ {y}] \in Nat
    BY <1>1, <1>2, SumSame, SumType
  <1>5. f[y] \in Nat
    OBVIOUS
  <1> QED BY <1>1, <1>2, <1>3, <1>4, <1>5, <1>6

LEMMA TotalType ==
  ASSUME NEW S, IsFiniteSet(S), NEW f \in [S -> Nat]
  PROVE  Total(f, S) \in Nat
  <1>1. PICK g : Sums(g, f, S) /\ Total(f, S) = g[S]
    BY TotalIs
  <1> QED BY <1>1, SumType

-----------------------------------------------------------------------------
(* Stock is exact.                                                           *)

(* What the deductions a come to, and what they leave of a product.          *)
Owed(a, item) == Total(Amounts(a, item), Ids(item))

LeftOf(a, item) == Max({0, InitialStock[item] - Owed(a, item)})

(* The deductions as they will be when the transaction of w has committed.   *)
With(w) == [id \in LineIds |-> applied[id] + (IF id \in loc[w].written THEN 1 ELSE 0)]

(* A transaction holds the rows of what it has written, each line once.      *)
TxShape(w) ==
  /\ pc[w] # "lines" => loc[w].tx = <<>> /\ loc[w].written = {}
  /\ \A i \in loc[w].todo : <<loc[w].order, i>> \notin loc[w].written
  /\ \A id \in loc[w].written :
       id[1] = loc[w].order /\ Lines[id[1]][id[2]].item \in DOMAIN loc[w].tx
  /\ \A item \in DOMAIN loc[w].tx :
       \E id \in loc[w].written : Lines[id[1]][id[2]].item = item

(* What w has read of a product decides what it will write.                  *)
Touches(w, item) ==
  \/ pc[w] = "write" /\ Line(w).item = item
  \/ /\ pc[w] = "lines"
     /\ item \in DOMAIN loc[w].tx \cup {Lines[loc[w].order][i].item : i \in loc[w].todo}

RaceInv ==
  \A v, w \in Workers : \A item \in Items \ overlapped :
    Touches(v, item) /\ Touches(w, item) => v = w

(* What was read is what is there, as long as nobody else touches it.        *)
ReadIsStock(w) ==
  /\ pc[w] = "write" /\ Line(w).item \notin overlapped => loc[w].read = stock[Line(w).item]
  /\ pc[w] = "lines" =>
       /\ \A item \in Items \ (overlapped \cup DOMAIN loc[w].tx) :
            Touches(w, item) => loc[w].snap[item] = stock[item]
       /\ \A item \in DOMAIN loc[w].tx \ overlapped :
            loc[w].tx[item] = LeftOf(With(w), item)

StockInv == \A item \in Items \ overlapped : stock[item] = LeftOf(applied, item)

ExactInv ==
  /\ StockInv /\ RaceInv
  /\ \A w \in Workers : TxShape(w) /\ ReadIsStock(w)

LEMMA IdsFinite ==
  ASSUME NEW item
  PROVE  IsFiniteSet(Ids(item)) /\ Ids(item) \subseteq LineIds
  <1> DEFINE f == [o \in Orders |-> {o} \X DOMAIN Lines[o]]
             S == {{o} \X DOMAIN Lines[o] : o \in Orders}
  <1>1. f \in Surjection(Orders, S)
    BY DEF Surjection
  <1>2. IsFiniteSet(S)
    <2> HIDE DEF f, S
    <2> QED BY <1>1, FS_Surjection, OrderAssumption
  <1>3. \A T \in S : IsFiniteSet(T)
    <2> SUFFICES ASSUME NEW o \in Orders PROVE IsFiniteSet({o} \X DOMAIN Lines[o])
      OBVIOUS
    <2>1. Lines[o] \in Seq([item : Items, qty : Nat])
      BY LinesAssumption
    <2>2. DOMAIN Lines[o] = 1 .. Len(Lines[o]) /\ Len(Lines[o]) \in Nat
      BY <2>1
    <2>3. IsFiniteSet(1 .. Len(Lines[o]))
      <3>1. 1 \in Int /\ Len(Lines[o]) \in Int
        BY <2>2
      <3> QED BY <3>1, FS_Interval
    <2> QED BY <2>2, <2>3, FS_Singleton, FS_Product
  <1>4. LineIds = UNION S
    BY DEF LineIds
  <1>5. IsFiniteSet(LineIds)
    <2> HIDE DEF S
    <2> QED BY <1>2, <1>3, <1>4, FS_UNION
  <1> QED BY <1>5, FS_Subset DEF Ids

LEMMA QtyType ==
  ASSUME NEW id \in LineIds
  PROVE  Lines[id[1]][id[2]].qty \in Nat /\ Lines[id[1]][id[2]].item \in Items
         /\ id = <<id[1], id[2]>> /\ id[1] \in Orders /\ id[2] \in DOMAIN Lines[id[1]]
  <1>1. PICK o \in Orders : id \in {o} \X DOMAIN Lines[o]
    BY DEF LineIds
  <1>2. id[1] = o /\ id[2] \in DOMAIN Lines[o] /\ id = <<id[1], id[2]>>
    BY <1>1
  <1> QED BY <1>2, LinesType

LEMMA Product ==
  /\ \A a, q \in Nat : a * q \in Nat
  /\ \A a, q \in Nat : (a + 1) * q = a * q + q
  OBVIOUS

LEMMA AmountsType ==
  ASSUME NEW a \in [LineIds -> Nat], NEW item
  PROVE  Amounts(a, item) \in [Ids(item) -> Nat]
  <1>1. ASSUME NEW id \in Ids(item) PROVE a[id] * Lines[id[1]][id[2]].qty \in Nat
    BY IdsFinite, QtyType, Product
  <1> QED BY <1>1 DEF Amounts

LEMMA OwedType ==
  ASSUME NEW a \in [LineIds -> Nat], NEW item
  PROVE  Owed(a, item) \in Nat
  BY AmountsType, IdsFinite, TotalType DEF Owed

(* Deductions of other products do not count ...                             *)
LEMMA OwedSame ==
  ASSUME NEW a, NEW b, NEW item,
         \A id \in Ids(item) : a[id] = b[id]
  PROVE  Owed(a, item) = Owed(b, item)
  <1>1. Amounts(a, item) = Amounts(b, item)
    BY DEF Amounts
  <1> QED BY <1>1 DEF Owed

(* ... and one more deduction counts once.                                   *)
LEMMA OwedGrows ==
  ASSUME NEW a \in [LineIds -> Nat], NEW y \in LineIds, NEW item,
         Lines[y[1]][y[2]].item = item
  PROVE  Owed([a EXCEPT ![y] = @ + 1], item) = Owed(a, item) + Lines[y[1]][y[2]].qty
  <1> DEFINE b == [a EXCEPT ![y] = @ + 1]
             q == Lines[y[1]][y[2]].qty
  <1>1. b \in [LineIds -> Nat] /\ b[y] = a[y] + 1 /\ \A x \in LineIds \ {y} : b[x] = a[x]
    OBVIOUS
  <1>2. y \in Ids(item) /\ q \in Nat /\ a[y] \in Nat
    BY QtyType DEF Ids
  <1> HIDE DEF b
  <1>3. Amounts(a, item) \in [Ids(item) -> Nat] /\ Amounts(b, item) \in [Ids(item) -> Nat]
    BY <1>1, AmountsType
  <1>4. Amounts(b, item)[y] = Amounts(a, item)[y] + q
    <2>1. Amounts(b, item)[y] = b[y] * q /\ Amounts(a, item)[y] = a[y] * q
      BY <1>2 DEF Amounts
    <2> QED BY <1>1, <1>2, <2>1, Product
  <1>5. \A x \in Ids(item) \ {y} : Amounts(b, item)[x] = Amounts(a, item)[x]
    BY <1>1, IdsFinite DEF Amounts
  <1>6. Total(Amounts(b, item), Ids(item)) = Total(Amounts(a, item), Ids(item)) + q
    BY <1>2, <1>3, <1>4, <1>5, IdsFinite, TotalGrows
  <1> QED BY <1>6 DEF Owed, b

LEMMA MaxOfTwo ==
  ASSUME NEW x \in Int
  PROVE  Max({0, x}) = IF x > 0 THEN x ELSE 0
  <1> DEFINE m == IF x > 0 THEN x ELSE 0
  <1>1. m \in {0, x} /\ \A y \in {0, x} : m >= y
    OBVIOUS
  <1>2. \A n \in {0, x} : (\A y \in {0, x} : n >= y) => n = m
    OBVIOUS
  <1> HIDE DEF m
  <1>3. Max({0, x}) = m
    BY <1>1, <1>2 DEF Max
  <1> QED BY <1>3 DEF m

(* One more deduction takes away what is left, down to zero.                 *)
LEMMA LeftGrows ==
  ASSUME NEW a \in [LineIds -> Nat], NEW y \in LineIds, NEW item \in Items,
         Lines[y[1]][y[2]].item = item
  PROVE  LeftOf([a EXCEPT ![y] = @ + 1], item)
           = Remaining(LeftOf(a, item), Lines[y[1]][y[2]].qty)
  <1> DEFINE b == [a EXCEPT ![y] = @ + 1]
             q == Lines[y[1]][y[2]].qty
  <1>1. Owed(b, item) = Owed(a, item) + q
    BY OwedGrows
  <1>2. Owed(a, item) \in Nat /\ q \in Nat /\ InitialStock[item] \in Nat
    BY OwedType, QtyType, LinesAssumption
  <1> HIDE DEF b, q
  <1>3. LeftOf(a, item)
          = IF InitialStock[item] - Owed(a, item) > 0 THEN InitialStock[item] - Owed(a, item) ELSE 0
    BY <1>2, MaxOfTwo DEF LeftOf
  <1>4. LeftOf(b, item)
          = IF InitialStock[item] - (Owed(a, item) + q) > 0
            THEN InitialStock[item] - (Owed(a, item) + q) ELSE 0
    BY <1>1, <1>2, MaxOfTwo DEF LeftOf
  <1>5. LeftOf(b, item) = Remaining(LeftOf(a, item), q)
    BY <1>2, <1>3, <1>4 DEF Remaining
  <1> QED BY <1>5 DEF b, q

LEMMA LeftSame ==
  ASSUME NEW a, NEW b, NEW item, \A id \in Ids(item) : a[id] = b[id]
  PROVE  LeftOf(a, item) = LeftOf(b, item)
  BY OwedSame DEF LeftOf

LEMMA TouchInWindow ==
  ASSUME NEW w \in Workers, NEW item, Touches(w, item), TypeInv, FlowInv, TxShape(w)
  PROVE  InWindow(w, item)
  <1>1. CASE pc[w] = "write"
    BY <1>1 DEF Touches, InWindow
  <1>2. CASE pc[w] = "lines"
    <2>1. loc[w].todo \subseteq DOMAIN Lines[loc[w].order]
      BY <1>2 DEF FlowInv, Flow
    <2>2. loc[w].written \subseteq LineIds
      BY DEF TypeInv, Locals
    <2>3. CASE item \in DOMAIN loc[w].tx
      <3>1. PICK id \in loc[w].written : Lines[id[1]][id[2]].item = item
        BY <2>3 DEF TxShape
      <3>2. id[1] = loc[w].order /\ id[2] \in DOMAIN Lines[id[1]]
        BY <2>2, QtyType DEF TxShape
      <3> QED BY <1>2, <3>1, <3>2 DEF InWindow
    <2>4. CASE \E i \in loc[w].todo : Lines[loc[w].order][i].item = item
      BY <1>2, <2>1, <2>4 DEF InWindow
    <2> QED BY <1>2, <2>3, <2>4 DEF Touches
  <1> QED BY <1>1, <1>2 DEF Touches

LEMMA SameWorker ==
  ASSUME NEW v \in Workers, pc'[v] = pc[v], loc'[v] = loc[v]
  PROVE  /\ TxShape(v)' <=> TxShape(v)
         /\ \A item : Touches(v, item)' <=> Touches(v, item)
         /\ Line(v)' = Line(v)
         /\ \A id \in LineIds : applied'[id] = applied[id] => With(v)'[id] = With(v)[id]
         /\ applied' = applied => With(v)' = With(v)
  BY DEF TxShape, Touches, Line, With

LEMMA SameReads ==
  ASSUME NEW v \in Workers, pc'[v] = pc[v], loc'[v] = loc[v], ReadIsStock(v),
         applied' = applied, stock' = stock, overlapped \subseteq overlapped'
  PROVE  ReadIsStock(v)'
  <1>1. With(v)' = With(v) /\ Line(v)' = Line(v)
        /\ \A item : Touches(v, item)' <=> Touches(v, item)
    BY SameWorker
  <1>2. \A item : LeftOf(With(v)', item) = LeftOf(With(v), item)
    BY <1>1
  <1> QED BY <1>1, <1>2 DEF ReadIsStock

(* A step that leaves the stock alone, and its worker outside of the         *)
(* windows.                                                                  *)
LEMMA QuietExact ==
  ASSUME TypeInv, ExactInv, NEW w \in Workers, NEW l, l \notin {"write", "lines"}, NEW r,
         pc' = [pc EXCEPT ![w] = l], loc' = [loc EXCEPT ![w] = r],
         r.tx = <<>>, r.written = {}, UNCHANGED <<stock, applied, overlapped>>
  PROVE  ExactInv'
  <1>1. /\ pc'[w] = l /\ loc'[w] = r
        /\ \A v \in Workers \ {w} : pc'[v] = pc[v] /\ loc'[v] = loc[v]
    BY DEF TypeInv
  <1>2. \A item : ~Touches(w, item)'
    BY <1>1 DEF Touches
  <1>3. \A v \in Workers \ {w} : \A item : Touches(v, item)' <=> Touches(v, item)
    BY <1>1, SameWorker
  <1>4. RaceInv'
    <2>1. RaceInv
      BY DEF ExactInv
    <2> QED BY <1>2, <1>3, <2>1 DEF RaceInv
  <1>5. StockInv'
    BY DEF ExactInv, StockInv
  <1>6. ASSUME NEW v \in Workers PROVE TxShape(v)' /\ ReadIsStock(v)'
    <2>1. CASE v = w
      <3>1. TxShape(w)'
        BY <1>1 DEF TxShape
      <3>2. ReadIsStock(w)'
        BY <1>1 DEF ReadIsStock
      <3> QED BY <2>1, <3>1, <3>2
    <2>2. CASE v # w
      <3>1. pc'[v] = pc[v] /\ loc'[v] = loc[v] /\ TxShape(v) /\ ReadIsStock(v)
        BY <1>1, <2>2 DEF ExactInv
      <3>2. TxShape(v)'
        BY <3>1, SameWorker
      <3> QED BY <3>1, <3>2, SameReads
    <2> QED BY <2>1, <2>2
  <1> QED BY <1>4, <1>5, <1>6 DEF ExactInv

(* The SELECT of a window: whoever is in it already is found overlapping.    *)
LEMMA EnterExact ==
  ASSUME TypeInv, FlowInv, ExactInv, NEW w \in Workers, NEW l, NEW r, NEW items,
         pc' = [pc EXCEPT ![w] = l], loc' = [loc EXCEPT ![w] = r],
         Overlap(w, items), UNCHANGED <<stock, applied>>,
         \A item : Touches(w, item)' => item \in items,
         TxShape(w)', ReadIsStock(w)'
  PROVE  ExactInv'
  <1>1. \A v \in Workers \ {w} : pc'[v] = pc[v] /\ loc'[v] = loc[v]
    OBVIOUS
  <1>2. overlapped \subseteq overlapped'
    BY DEF Overlap
  <1>3. \A v \in Workers \ {w} : \A item : Touches(v, item)' <=> Touches(v, item)
    BY <1>1, SameWorker
  <1>4. ASSUME NEW v \in Workers \ {w}, NEW item \in Items \ overlapped',
               Touches(v, item)', Touches(w, item)'
        PROVE  FALSE
    <2>1. Touches(v, item) /\ TxShape(v)
      BY <1>3, <1>4 DEF ExactInv
    <2>2. InWindow(v, item)
      BY <2>1, TouchInWindow
    <2>3. item \in items
      BY <1>4
    <2> QED BY <2>2, <2>3 DEF Overlap
  <1>5. RaceInv'
    <2>1. RaceInv
      BY DEF ExactInv
    <2>2. ASSUME NEW u \in Workers, NEW v \in Workers, NEW item \in Items \ overlapped',
                 Touches(u, item)', Touches(v, item)'
          PROVE  u = v
      <3>1. CASE u = w \/ v = w
        BY <1>4, <2>2, <3>1
      <3>2. CASE u # w /\ v # w
        <4>1. Touches(u, item) /\ Touches(v, item) /\ item \in Items \ overlapped
          BY <1>2, <1>3, <2>2, <3>2
        <4> QED BY <2>1, <4>1 DEF RaceInv
      <3> QED BY <3>1, <3>2
    <2> QED BY <2>2 DEF RaceInv
  <1>6. StockInv'
    BY <1>2 DEF ExactInv, StockInv
  <1>7. ASSUME NEW v \in Workers PROVE TxShape(v)' /\ ReadIsStock(v)'
    <2>1. CASE v # w
      <3>1. pc'[v] = pc[v] /\ loc'[v] = loc[v] /\ TxShape(v) /\ ReadIsStock(v)
        BY <1>1, <2>1 DEF ExactInv
      <3>2. TxShape(v)'
        BY <3>1, SameWorker
      <3> QED BY <1>2, <3>1, <3>2, SameReads
    <2> QED BY <2>1
  <1> QED BY <1>5, <1>6, <1>7 DEF ExactInv

LEMMA FinishExact ==
  ASSUME TypeInv, ExactInv, NEW w \in Workers, Finish(w), UNCHANGED <<stock, applied, overlapped>>
  PROVE  ExactInv'
  <1> DEFINE l == IF w \in Polls THEN "next" ELSE "done"
             r == [NoLocals EXCEPT !.rest = loc[w].rest]
  <1>1. pc' = [pc EXCEPT ![w] = l] /\ loc' = [loc EXCEPT ![w] = r]
    BY DEF Finish, Goto
  <1>2. r.tx = <<>> /\ r.written = {} /\ l \notin {"write", "lines"}
    BY DEF NoLocals
  <1> HIDE DEF l, r
  <1> QED BY <1>1, <1>2, QuietExact

LEMMA ReadExact ==
  ASSUME TypeInv, FlowInv, ExactInv, NEW w \in Workers, ReadStock(w)
  PROVE  ExactInv'
  <1>0. loc[w] \in Locals /\ loc[w].tx = <<>> /\ loc[w].written = {}
    BY DEF TypeInv, ExactInv, TxShape, ReadStock
  <1>1. CASE Advance(w) /\ UNCHANGED <<pc, overlapped>>
    <2> DEFINE r == [loc[w] EXCEPT !.todo = @ \ {Min(@)}]
    <2>1. pc' = [pc EXCEPT ![w] = pc[w]] /\ loc' = [loc EXCEPT ![w] = r]
      BY <1>1 DEF Advance, TypeInv
    <2>2. r.tx = <<>> /\ r.written = {}
      BY <1>0 DEF Locals
    <2>3. pc[w] \notin {"write", "lines"} /\ UNCHANGED <<stock, applied>>
      BY DEF ReadStock
    <2> HIDE DEF r
    <2> QED BY <1>1, <2>1, <2>2, <2>3, QuietExact
  <1>2. CASE /\ loc' = [loc EXCEPT ![w].read = stock[Line(w).item]]
             /\ Goto(w, "write") /\ Overlap(w, {Line(w).item})
    <2> DEFINE r == [loc[w] EXCEPT !.read = stock[Line(w).item]]
    <2>1. pc' = [pc EXCEPT ![w] = "write"] /\ loc' = [loc EXCEPT ![w] = r]
      BY <1>2 DEF Goto
    <2>2. /\ r.order = loc[w].order /\ r.todo = loc[w].todo /\ r.tx = <<>> /\ r.written = {}
          /\ r.read = stock[Line(w).item]
      BY <1>0 DEF Locals
    <2> HIDE DEF r
    <2>3. pc'[w] = "write" /\ loc'[w] = r /\ UNCHANGED <<stock, applied>>
      BY <2>1 DEF TypeInv, ReadStock
    <2>4. Line(w)' = Line(w)
      BY <2>2, <2>3 DEF Line
    <2>5. TxShape(w)'
      BY <2>2, <2>3 DEF TxShape
    <2>6. ReadIsStock(w)'
      BY <2>2, <2>3, <2>4 DEF ReadIsStock
    <2>7. \A item : Touches(w, item)' => item \in {Line(w).item}
      BY <2>3, <2>4 DEF Touches
    <2> QED BY <1>2, <2>1, <2>3, <2>5, <2>6, <2>7, EnterExact
  <1> QED BY <1>1, <1>2 DEF ReadStock

LEMMA SnapshotExact ==
  ASSUME TypeInv, FlowInv, ExactInv, NEW w \in Workers, TakeSnapshot(w)
  PROVE  ExactInv'
  <1>0. loc[w] \in Locals /\ loc[w].tx = <<>> /\ loc[w].written = {}
    BY DEF TypeInv, ExactInv, TxShape, TakeSnapshot
  <1> DEFINE r == [loc[w] EXCEPT !.snap = stock]
  <1>1. pc' = [pc EXCEPT ![w] = "lines"] /\ loc' = [loc EXCEPT ![w] = r]
    BY DEF TakeSnapshot, Goto
  <1>2. /\ r.order = loc[w].order /\ r.todo = loc[w].todo /\ r.tx = <<>> /\ r.written = {}
        /\ r.snap = stock
    BY <1>0 DEF Locals
  <1> HIDE DEF r
  <1>3. pc'[w] = "lines" /\ loc'[w] = r /\ UNCHANGED <<stock, applied>>
    BY <1>1 DEF TypeInv, TakeSnapshot
  <1>4. TxShape(w)'
    BY <1>2, <1>3 DEF TxShape
  <1>5. DOMAIN r.tx = {}
    BY <1>2
  <1>6. ReadIsStock(w)'
    BY <1>2, <1>3, <1>5 DEF ReadIsStock
  <1>7. \A item : Touches(w, item)' => item \in {Lines[loc[w].order][i].item : i \in loc[w].todo}
    BY <1>2, <1>3, <1>5 DEF Touches
  <1> QED BY <1>1, <1>3, <1>4, <1>6, <1>7, EnterExact DEF TakeSnapshot

(* The UPDATE of deductStock.                                                *)
LEMMA WriteExact ==
  ASSUME TypeInv, FlowInv, ExactInv, NEW w \in Workers, WriteStock(w)
  PROVE  ExactInv'
  <1> DEFINE m == Min(loc[w].todo)
             y == <<loc[w].order, m>>
             x == Line(w).item
             r == [loc[w] EXCEPT !.todo = @ \ {m}]
  <1>0. loc[w] \in Locals /\ loc[w].tx = <<>> /\ loc[w].written = {} /\ pc[w] = "write"
    BY DEF TypeInv, ExactInv, TxShape, WriteStock
  <1>1. y \in LineIds /\ Line(w) \in [item : Items, qty : Nat] /\ Lines[y[1]][y[2]] = Line(w)
    BY LineType DEF WriteStock, FlowInv, Flow, Line
  <1>2. pc' = [pc EXCEPT ![w] = "deduct"] /\ loc' = [loc EXCEPT ![w] = r]
    BY DEF WriteStock, Advance, Goto
  <1>3. r.tx = <<>> /\ r.written = {}
    BY <1>0 DEF Locals
  <1> HIDE DEF r
  <1>4. overlapped' = overlapped
    BY DEF WriteStock
  <1>5. CASE UNCHANGED <<stock, applied>>
    BY <1>2, <1>3, <1>4, <1>5, QuietExact
  <1>6. CASE /\ stock' = [stock EXCEPT ![x] = Remaining(loc[w].read, Line(w).qty)]
             /\ applied' = [applied EXCEPT ![y] = @ + 1]
    <2>1. /\ pc'[w] = "deduct" /\ loc'[w] = r
          /\ \A v \in Workers \ {w} : pc'[v] = pc[v] /\ loc'[v] = loc[v]
      BY <1>2 DEF TypeInv
    <2>2. \A item : ~Touches(w, item)'
      BY <2>1 DEF Touches
    <2>3. \A v \in Workers \ {w} : \A item : Touches(v, item)' <=> Touches(v, item)
      BY <2>1, SameWorker
    <2>4. Touches(w, x) /\ x \in Items
      BY <1>0, <1>1 DEF Touches
    <2>5. \A v \in Workers \ {w} : x \notin overlapped => ~Touches(v, x)
      BY <2>4 DEF ExactInv, RaceInv
    <2>6. \A v \in Workers : x \notin DOMAIN loc[v].tx
      BY DEF WriteStock
    <2>7. RaceInv'
      <3>1. RaceInv
        BY DEF ExactInv
      <3> QED BY <1>4, <2>2, <2>3, <3>1 DEF RaceInv
    <2>8. \A item : item # x => stock'[item] = stock[item]
      BY <1>6 DEF TypeInv
    <2>9. \A item : item # x => \A id \in Ids(item) : applied'[id] = applied[id]
      <3> SUFFICES ASSUME NEW item, item # x, NEW id \in Ids(item)
                   PROVE  applied'[id] = applied[id]
        OBVIOUS
      <3>1. id \in LineIds /\ id # y
        BY <1>1 DEF Ids
      <3> QED BY <1>6, <3>1 DEF TypeInv
    <2>10. StockInv'
      <3> SUFFICES ASSUME NEW item \in Items \ overlapped
                   PROVE  stock'[item] = LeftOf(applied', item)
        BY <1>4 DEF StockInv
      <3>1. stock[item] = LeftOf(applied, item)
        BY DEF ExactInv, StockInv
      <3>2. CASE item # x
        <4>1. LeftOf(applied, item) = LeftOf(applied', item)
          BY <2>9, <3>2, LeftSame
        <4> QED BY <2>8, <3>1, <3>2, <4>1
      <3>3. CASE item = x
        <4>1. loc[w].read = stock[x]
          BY <1>0, <3>3 DEF ExactInv, ReadIsStock
        <4>2. LeftOf([applied EXCEPT ![y] = @ + 1], item)
                = Remaining(LeftOf(applied, item), Line(w).qty)
          <5>1. applied \in [LineIds -> Nat] /\ Lines[y[1]][y[2]].item = item
            BY <1>1, <3>3 DEF TypeInv
          <5>2. LeftOf([applied EXCEPT ![y] = @ + 1], item)
                  = Remaining(LeftOf(applied, item), Lines[y[1]][y[2]].qty)
            BY <1>1, <5>1, LeftGrows
          <5> QED BY <1>1, <5>2
        <4>3. stock'[x] = Remaining(loc[w].read, Line(w).qty)
          BY <1>6, <2>4 DEF TypeInv
        <4> QED BY <1>6, <3>1, <3>3, <4>1, <4>2, <4>3
      <3> QED BY <3>2, <3>3
    <2>11. ASSUME NEW v \in Workers PROVE TxShape(v)' /\ ReadIsStock(v)'
      <3>1. CASE v = w
        <4>1. TxShape(w)'
          BY <1>3, <2>1 DEF TxShape
        <4>2. ReadIsStock(w)'
          BY <2>1 DEF ReadIsStock
        <4> QED BY <3>1, <4>1, <4>2
      <3>2. CASE v # w
        <4>1. pc'[v] = pc[v] /\ loc'[v] = loc[v] /\ TxShape(v) /\ ReadIsStock(v)
          BY <2>1, <3>2 DEF ExactInv
        <4>2. TxShape(v)' /\ Line(v)' = Line(v)
          BY <4>1, SameWorker
        <4>3. x \notin overlapped => ~Touches(v, x)
          BY <2>5, <3>2
        <4>4. pc[v] = "write" /\ Line(v).item \notin overlapped
              => stock'[Line(v).item] = stock[Line(v).item]
          BY <2>8, <4>3 DEF Touches
        <4>5. ASSUME NEW item \in Items \ (overlapped \cup DOMAIN loc[v].tx), Touches(v, item)
              PROVE  stock'[item] = stock[item]
          BY <2>8, <4>3, <4>5
        <4>6. ASSUME NEW item \in DOMAIN loc[v].tx \ overlapped
              PROVE  LeftOf(With(v)', item) = LeftOf(With(v), item)
          <5>1. item # x
            BY <2>6
          <5>2. \A id \in Ids(item) : With(v)'[id] = With(v)[id]
            BY <2>9, <4>1, <5>1, IdsFinite, SameWorker
          <5> QED BY <5>2, LeftSame
        <4>7. \A item : Touches(v, item)' <=> Touches(v, item)
          BY <2>3, <3>2
        <4>8. ReadIsStock(v)'
          <5>1. pc[v] = "write" /\ Line(v).item \notin overlapped
                => loc[v].read = stock'[Line(v).item]
            BY <4>1, <4>4 DEF ReadIsStock
          <5>2. pc[v] = "lines" =>
                  /\ \A item \in Items \ (overlapped \cup DOMAIN loc[v].tx) :
                       Touches(v, item) => loc[v].snap[item] = stock'[item]
                  /\ \A item \in DOMAIN loc[v].tx \ overlapped :
                       loc[v].tx[item] = LeftOf(With(v)', item)
            BY <4>1, <4>5, <4>6 DEF ReadIsStock
          <5> QED BY <1>4, <4>1, <4>2, <4>7, <5>1, <5>2 DEF ReadIsStock
        <4> QED BY <4>2, <4>8
      <3> QED BY <3>1, <3>2
    <2> QED BY <2>7, <2>10, <2>11 DEF ExactInv
  <1> QED BY <1>5, <1>6 DEF WriteStock

(* A line of a document: its deduction counts when the transaction commits.  *)
LEMMA LineExact ==
  ASSUME TypeInv, FlowInv, ExactInv, NEW w \in Workers, DocumentLine(w)
  PROVE  ExactInv'
  <1> DEFINE m == Min(loc[w].todo)
             y == <<loc[w].order, m>>
             x == Line(w).item
             q == Line(w).qty
             tx == loc[w].tx
             t == [i \in DOMAIN tx \cup {x} |-> IF i = x THEN Remaining(Seen(w, i), q) ELSE tx[i]]
             r == [loc[w] EXCEPT !.tx = t, !.written = @ \cup {y}, !.todo = @ \ {m}]
  <1>0. loc[w] \in Locals /\ pc[w] = "lines" /\ TxShape(w) /\ ReadIsStock(w)
    BY DEF TypeInv, ExactInv, DocumentLine
  <1>1. /\ y \in LineIds /\ x \in Items /\ q \in Nat /\ m \in loc[w].todo
        /\ Lines[y[1]][y[2]] = Line(w) /\ y[1] = loc[w].order
    BY LineType DEF DocumentLine, FlowInv, Flow, Line
  <1>2. loc' = [loc EXCEPT ![w] = r] /\ UNCHANGED <<pc, stock, applied, overlapped>>
    BY DEF DocumentLine, stockVars
  <1>3. /\ r.tx = t /\ r.written = loc[w].written \cup {y} /\ r.todo = loc[w].todo \ {m}
        /\ r.order = loc[w].order /\ r.snap = loc[w].snap
    BY <1>0 DEF Locals
  <1>4. /\ DOMAIN t = DOMAIN tx \cup {x} /\ t[x] = Remaining(Seen(w, x), q)
        /\ \A i \in DOMAIN tx \ {x} : t[i] = tx[i]
    OBVIOUS
  <1> HIDE DEF r, t
  <1>5. loc'[w] = r /\ \A v \in Workers \ {w} : loc'[v] = loc[v]
    BY <1>2 DEF TypeInv
  <1>6. y \notin loc[w].written
    BY <1>0, <1>1 DEF TxShape
  <1>7. TxShape(w)'
    <2>1. \A i \in r.todo : <<r.order, i>> \notin r.written
      BY <1>0, <1>3 DEF TxShape
    <2>2. \A id \in r.written : id[1] = r.order /\ Lines[id[1]][id[2]].item \in DOMAIN r.tx
      BY <1>0, <1>1, <1>3, <1>4 DEF TxShape
    <2>3. \A item \in DOMAIN r.tx : \E id \in r.written : Lines[id[1]][id[2]].item = item
      BY <1>0, <1>1, <1>3, <1>4 DEF TxShape
    <2> QED BY <1>0, <1>2, <1>5, <2>1, <2>2, <2>3 DEF TxShape
  <1>8. \A item : Touches(w, item)' => Touches(w, item)
    <2>1. Touches(w, x)
      BY <1>0, <1>1 DEF Touches, Line
    <2>2. \A item : Touches(w, item)' =>
            item \in DOMAIN r.tx \cup {Lines[r.order][i].item : i \in r.todo}
      BY <1>0, <1>2, <1>5 DEF Touches
    <2>3. \A item \in DOMAIN tx \cup {Lines[loc[w].order][i].item : i \in loc[w].todo} :
            Touches(w, item)
      BY <1>0 DEF Touches
    <2>4. ASSUME NEW item \in DOMAIN r.tx \cup {Lines[r.order][i].item : i \in r.todo}
          PROVE  item \in DOMAIN tx \cup {Lines[loc[w].order][i].item : i \in loc[w].todo} \cup {x}
      BY <1>3, <1>4
    <2> QED BY <2>1, <2>2, <2>3, <2>4
  <1>9. \A v \in Workers \ {w} : \A item : Touches(v, item)' <=> Touches(v, item)
    BY <1>2, <1>5, SameWorker
  <1>10. RaceInv'
    <2>1. RaceInv
      BY DEF ExactInv
    <2>2. \A v \in Workers : \A item : Touches(v, item)' => Touches(v, item)
      BY <1>8, <1>9
    <2> QED BY <1>2, <2>1, <2>2 DEF RaceInv
  <1>11. StockInv'
    BY <1>2 DEF ExactInv, StockInv
  <1>12. With(w) \in [LineIds -> Nat] /\ With(w)' = [With(w) EXCEPT ![y] = @ + 1]
    <2>1. applied \in [LineIds -> Nat]
      BY DEF TypeInv
    <2>2. With(w) \in [LineIds -> Nat]
      BY <2>1 DEF With
    <2>3. With(w)'
            = [id \in LineIds |-> applied[id] + (IF id \in loc[w].written \cup {y} THEN 1 ELSE 0)]
      BY <1>2, <1>3, <1>5 DEF With
    <2>4. \A id \in LineIds : With(w)'[id] = [With(w) EXCEPT ![y] = @ + 1][id]
      <3> SUFFICES ASSUME NEW id \in LineIds PROVE With(w)'[id] = [With(w) EXCEPT ![y] = @ + 1][id]
        OBVIOUS
      <3>1. applied[id] \in Nat
        BY <2>1
      <3>2. With(w)[id] = applied[id] + (IF id \in loc[w].written THEN 1 ELSE 0)
        BY DEF With
      <3>3. With(w)'[id] = applied[id] + (IF id \in loc[w].written \cup {y} THEN 1 ELSE 0)
        BY <2>3
      <3>4. [With(w) EXCEPT ![y] = @ + 1][id] = IF id = y THEN With(w)[id] + 1 ELSE With(w)[id]
        BY <2>2
      <3> QED BY <1>6, <3>1, <3>2, <3>3, <3>4
    <2>5. With(w)' \in [LineIds -> Nat]
      BY <2>1, <2>3
    <2> QED BY <2>2, <2>4, <2>5
  <1>13. \A item : item # x => \A id \in Ids(item) : With(w)'[id] = With(w)[id]
    <2> SUFFICES ASSUME NEW item, item # x, NEW id \in Ids(item) PROVE With(w)'[id] = With(w)[id]
      OBVIOUS
    <2>1. id \in LineIds /\ id # y
      BY <1>1 DEF Ids
    <2> QED BY <1>12, <2>1
  <1>14. x \notin overlapped => t[x] = LeftOf(With(w)', x)
    <2> SUFFICES ASSUME x \notin overlapped PROVE t[x] = LeftOf(With(w)', x)
      OBVIOUS
    <2>1. Seen(w, x) = LeftOf(With(w), x)
      <3>1. CASE x \in DOMAIN tx
        BY <1>0, <3>1 DEF ReadIsStock, Seen
      <3>2. CASE x \notin DOMAIN tx
        <4>1. Touches(w, x)
          BY <1>0, <1>1 DEF Touches, Line
        <4>2. Seen(w, x) = stock[x]
          BY <1>0, <1>1, <3>2, <4>1 DEF ReadIsStock, Seen
        <4>3. \A id \in Ids(x) : applied[id] = With(w)[id]
          <5> SUFFICES ASSUME NEW id \in Ids(x) PROVE applied[id] = With(w)[id]
            OBVIOUS
          <5>1. id \in LineIds /\ id \notin loc[w].written
            BY <1>0, <3>2 DEF Ids, TxShape
          <5>2. applied[id] \in Nat
            BY <5>1 DEF TypeInv
          <5> QED BY <5>1, <5>2 DEF With
        <4>4. LeftOf(applied, x) = LeftOf(With(w), x)
          BY <4>3, LeftSame
        <4>5. stock[x] = LeftOf(applied, x)
          BY <1>1 DEF ExactInv, StockInv
        <4> QED BY <4>2, <4>4, <4>5
      <3> QED BY <3>1, <3>2
    <2>2. LeftOf([With(w) EXCEPT ![y] = @ + 1], x) = Remaining(LeftOf(With(w), x), q)
      <3>1. Lines[y[1]][y[2]].item = x /\ Lines[y[1]][y[2]].qty = q
        BY <1>1
      <3>2. LeftOf([With(w) EXCEPT ![y] = @ + 1], x)
              = Remaining(LeftOf(With(w), x), Lines[y[1]][y[2]].qty)
        BY <1>1, <1>12, <3>1, LeftGrows
      <3> QED BY <3>1, <3>2
    <2> QED BY <1>4, <1>12, <2>1, <2>2
  <1>15. ReadIsStock(w)'
    <2>1. ASSUME NEW item \in Items \ (overlapped \cup DOMAIN r.tx), Touches(w, item)'
          PROVE  r.snap[item] = stock[item]
      <3>1. Touches(w, item) /\ item \notin DOMAIN tx
        BY <1>3, <1>4, <1>8, <2>1
      <3> QED BY <1>0, <1>3, <3>1 DEF ReadIsStock
    <2>2. ASSUME NEW item \in DOMAIN r.tx \ overlapped
          PROVE  r.tx[item] = LeftOf(With(w)', item)
      <3>1. CASE item = x
        BY <1>3, <1>14, <3>1
      <3>2. CASE item # x
        <4>1. item \in DOMAIN tx /\ r.tx[item] = tx[item]
          BY <1>3, <1>4, <3>2
        <4>2. LeftOf(With(w)', item) = LeftOf(With(w), item)
          BY <1>13, <3>2, LeftSame
        <4> QED BY <1>0, <4>1, <4>2 DEF ReadIsStock
      <3> QED BY <3>1, <3>2
    <2> QED BY <1>0, <1>2, <1>5, <2>1, <2>2 DEF ReadIsStock
  <1>16. ASSUME NEW v \in Workers PROVE TxShape(v)' /\ ReadIsStock(v)'
    <2>1. CASE v # w
      <3>1. pc'[v] = pc[v] /\ loc'[v] = loc[v] /\ TxShape(v) /\ ReadIsStock(v)
        BY <1>2, <1>5, <2>1 DEF ExactInv
      <3>2. TxShape(v)'
        BY <3>1, SameWorker
      <3> QED BY <1>2, <3>1, <3>2, SameReads
    <2> QED BY <1>7, <1>15, <2>1
  <1> QED BY <1>10, <1>11, <1>16 DEF ExactInv

(* COMMIT: what the transaction wrote is what its deductions leave.          *)
LEMMA CommitExact ==
  ASSUME TypeInv, FlowInv, LockInv, ExactInv, NEW w \in Workers, Commit(w)
  PROVE  ExactInv'
  <1> DEFINE r == [NoLocals EXCEPT !.rest = loc[w].rest]
             tx == loc[w].tx
  <1>0. pc[w] = "lines" /\ TxShape(w) /\ ReadIsStock(w)
    BY DEF ExactInv, Commit
  <1>1. /\ loc'[w] = r /\ pc'[w] \in {"next", "done"}
        /\ \A v \in Workers \ {w} : pc'[v] = pc[v] /\ loc'[v] = loc[v]
    BY DEF Commit, Finish, Goto, TypeInv
  <1>2. r.tx = <<>> /\ r.written = {}
    BY DEF NoLocals
  <1> HIDE DEF r
  <1>3. applied' = With(w) /\ overlapped' = overlapped
    BY DEF Commit, With
  <1>4. \A item \in Items : stock'[item] = IF item \in DOMAIN tx THEN tx[item] ELSE stock[item]
    BY DEF Commit
  <1>5. \A item : ~Touches(w, item)'
    BY <1>1 DEF Touches
  <1>6. \A v \in Workers \ {w} : \A item : Touches(v, item)' <=> Touches(v, item)
    BY <1>1, SameWorker
  <1>7. \A v \in Workers \ {w} : pc[v] # "lines"
    BY <1>0 DEF LockInv
  <1>8. RaceInv'
    <2>1. RaceInv
      BY DEF ExactInv
    <2> QED BY <1>3, <1>5, <1>6, <2>1 DEF RaceInv
  <1>9. StockInv'
    <2> SUFFICES ASSUME NEW item \in Items \ overlapped PROVE stock'[item] = LeftOf(With(w), item)
      BY <1>3 DEF StockInv
    <2>1. CASE item \in DOMAIN tx
      BY <1>0, <1>4, <2>1 DEF ReadIsStock
    <2>2. CASE item \notin DOMAIN tx
      <3>1. \A id \in Ids(item) : applied[id] = With(w)[id]
        <4> SUFFICES ASSUME NEW id \in Ids(item) PROVE applied[id] = With(w)[id]
          OBVIOUS
        <4>1. id \in LineIds /\ id \notin loc[w].written
          BY <1>0, <2>2 DEF Ids, TxShape
        <4>2. applied[id] \in Nat
          BY <4>1 DEF TypeInv
        <4> QED BY <4>1, <4>2 DEF With
      <3>2. LeftOf(applied, item) = LeftOf(With(w), item)
        BY <3>1, LeftSame
      <3>3. stock[item] = LeftOf(applied, item)
        BY DEF ExactInv, StockInv
      <3> QED BY <1>4, <2>2, <3>2, <3>3
    <2> QED BY <2>1, <2>2
  <1>10. ASSUME NEW v \in Workers PROVE TxShape(v)' /\ ReadIsStock(v)'
    <2>1. CASE v = w
      <3>1. TxShape(w)'
        BY <1>1, <1>2 DEF TxShape
      <3>2. ReadIsStock(w)'
        BY <1>1 DEF ReadIsStock
      <3> QED BY <2>1, <3>1, <3>2
    <2>2. CASE v # w
      <3>1. pc'[v] = pc[v] /\ loc'[v] = loc[v] /\ TxShape(v) /\ ReadIsStock(v) /\ pc[v] # "lines"
        BY <1>1, <1>7, <2>2 DEF ExactInv
      <3>2. TxShape(v)' /\ Line(v)' = Line(v)
        BY <3>1, SameWorker
      <3>3. ReadIsStock(v)'
        <4> SUFFICES ASSUME pc[v] = "write", Line(v).item \notin overlapped
                     PROVE  loc[v].read = stock'[Line(v).item]
          BY <1>3, <3>1, <3>2 DEF ReadIsStock
        <4>1. loc[v].todo # {}
          BY DEF FlowInv, Flow
        <4>2. Line(v).item \in Items
          BY <4>1, LineType
        <4>3. Touches(v, Line(v).item)
          BY DEF Touches
        <4>4. ~Touches(w, Line(v).item)
          BY <2>2, <4>2, <4>3 DEF ExactInv, RaceInv
        <4>5. Line(v).item \notin DOMAIN tx
          BY <1>0, <4>4 DEF Touches
        <4> QED BY <1>4, <3>1, <4>2, <4>5 DEF ReadIsStock
      <3> QED BY <3>2, <3>3
    <2> QED BY <2>1, <2>2
  <1> QED BY <1>8, <1>9, <1>10 DEF ExactInv

(* The steps before a line is read.                                          *)
LEMMA BeforeExact ==
  ASSUME TypeInv, ExactInv, NEW w \in Workers,
         \/ OrderWebhook(w) \/ RozetkaWebhook(w) \/ FindIntegration(w) \/ FetchOrders(w)
         \/ FindPollIntegration(w) \/ NextOrder(w) \/ ResolveLines(w) \/ BeginDocument(w)
  PROVE  ExactInv'
  <1>0. /\ loc[w] \in Locals
        /\ pc = [pc EXCEPT ![w] = pc[w]] /\ loc = [loc EXCEPT ![w] = loc[w]]
    BY DEF TypeInv
  <1>1. /\ pc[w] \notin {"write", "lines"} /\ UNCHANGED <<stock, applied, overlapped>>
    BY DEF OrderWebhook, RozetkaWebhook, FindIntegration, FetchOrders, FindPollIntegration,
       NextOrder, SkipOrder, TakeOrder, EndPoll, ResolveLines, BeginDocument, stockVars
  <1>2. loc[w].tx = <<>> /\ loc[w].written = {}
    BY <1>1 DEF ExactInv, TxShape
  <1>3. ASSUME NEW o, NEW rest, NEW l \in {"integration", "resolve"}, Accept(w, o, rest, l)
        PROVE  ExactInv'
    <2> DEFINE r == [NoLocals EXCEPT !.order = o, !.rest = rest]
    <2>1. r.tx = <<>> /\ r.written = {}
      BY DEF NoLocals
    <2>2. pc' = [pc EXCEPT ![w] = l] /\ loc' = [loc EXCEPT ![w] = r]
      BY <1>3 DEF Accept, Goto
    <2> HIDE DEF r
    <2> QED BY <1>1, <2>1, <2>2, QuietExact
  <1>4. ASSUME NEW l \in Labels \ {"write", "lines"}, pc' = [pc EXCEPT ![w] = l], loc' = loc
        PROVE  ExactInv'
    BY <1>0, <1>1, <1>2, <1>4, QuietExact
  <1>5. CASE OrderWebhook(w) \/ RozetkaWebhook(w)
    <2>1. CASE Goto(w, "done") /\ UNCHANGED loc
      BY <1>4, <2>1 DEF Goto, Labels
    <2>2. CASE \E o : \E l \in {"integration", "resolve"} : Accept(w, o, {}, l)
      BY <1>3, <2>2
    <2> QED BY <1>5, <2>1, <2>2 DEF OrderWebhook, RozetkaWebhook
  <1>6. CASE FindIntegration(w)
    BY <1>4, <1>6 DEF FindIntegration, Goto, Labels
  <1>7. CASE FindPollIntegration(w)
    <2>1. CASE Goto(w, "next") /\ UNCHANGED loc
      BY <1>4, <2>1 DEF Goto, Labels
    <2>2. CASE Goto(w, "idle") /\ loc' = [loc EXCEPT ![w] = NoLocals]
      <3>1. NoLocals.tx = <<>> /\ NoLocals.written = {}
        BY DEF NoLocals
      <3> QED BY <1>1, <2>2, <3>1, QuietExact DEF Goto
    <2> QED BY <1>7, <2>1, <2>2 DEF FindPollIntegration
  <1>8. CASE TakeOrder(w)
    BY <1>3, <1>8 DEF TakeOrder
  <1>9. CASE EndPoll(w)
    BY <1>4, <1>9 DEF EndPoll, Goto, Labels
  <1>10. CASE FetchOrders(w) \/ SkipOrder(w) \/ ResolveLines(w) \/ BeginDocument(w)
    <2> DEFINE Kept(r) == r.tx = loc[w].tx /\ r.written = loc[w].written
    <2>0. \A x : /\ Kept([loc[w] EXCEPT !.rest = x]) /\ Kept([loc[w] EXCEPT !.todo = x])
                 /\ Kept([loc[w] EXCEPT !.read = x])
      BY <1>0 DEF Locals
    <2> HIDE DEF Kept
    <2>1. \E l \in Labels \ {"write", "lines"} : \E r : /\ pc' = [pc EXCEPT ![w] = l] /\ Kept(r)
                                                       /\ loc' = [loc EXCEPT ![w] = r]
      <3>1. CASE FetchOrders(w)
        <4>1. PICK x : loc' = [loc EXCEPT ![w] = [loc[w] EXCEPT !.rest = x]]
          BY <3>1 DEF FetchOrders
        <4>2. pc' = [pc EXCEPT ![w] = "integration"]
          BY <3>1 DEF FetchOrders, Goto
        <4>3. "integration" \in Labels \ {"write", "lines"}
          BY DEF Labels
        <4>4. Kept([loc[w] EXCEPT !.rest = x])
          BY <2>0
        <4> QED BY <4>1, <4>2, <4>3, <4>4
      <3>2. CASE SkipOrder(w)
        <4>1. PICK x : loc' = [loc EXCEPT ![w] = [loc[w] EXCEPT !.rest = x]]
          BY <3>2 DEF SkipOrder
        <4>2. pc' = [pc EXCEPT ![w] = "next"]
          BY <1>0, <3>2 DEF SkipOrder
        <4>3. "next" \in Labels \ {"write", "lines"}
          BY DEF Labels
        <4>4. Kept([loc[w] EXCEPT !.rest = x])
          BY <2>0
        <4> QED BY <4>1, <4>2, <4>3, <4>4
      <3>3. CASE ResolveLines(w)
        <4>1. PICK x : loc' = [loc EXCEPT ![w] = [loc[w] EXCEPT !.todo = x]]
          BY <3>3 DEF ResolveLines
        <4>2. PICK l \in {"begin", "deduct"} : pc' = [pc EXCEPT ![w] = l]
          BY <3>3 DEF ResolveLines, Goto
        <4>3. l \in Labels \ {"write", "lines"}
          BY DEF Labels
        <4>4. Kept([loc[w] EXCEPT !.todo = x])
          BY <2>0
        <4> QED BY <4>1, <4>2, <4>3, <4>4
      <3>4. CASE BeginDocument(w)
        <4>1. PICK x : loc' = [loc EXCEPT ![w] = [loc[w] EXCEPT !.read = x]]
          BY <3>4 DEF BeginDocument
        <4>2. pc' = [pc EXCEPT ![w] = "snapshot"]
          BY <3>4 DEF BeginDocument, Goto
        <4>3. "snapshot" \in Labels \ {"write", "lines"}
          BY DEF Labels
        <4>4. Kept([loc[w] EXCEPT !.read = x])
          BY <2>0
        <4> QED BY <4>1, <4>2, <4>3, <4>4
      <3> QED BY <1>10, <3>1, <3>2, <3>3, <3>4
    <2>2. PICK l, r : /\ l \in Labels \ {"write", "lines"} /\ Kept(r)
                      /\ pc' = [pc EXCEPT ![w] = l] /\ loc' = [loc EXCEPT ![w] = r]
      BY <2>1
    <2> QED BY <1>1, <1>2, <2>2, QuietExact DEF Kept
  <1> QED BY <1>5, <1>6, <1>7, <1>8, <1>9, <1>10 DEF NextOrder

LEMMA CrashExact ==
  ASSUME TypeInv, ExactInv, Crash
  PROVE  ExactInv'
  <1>1. /\ \A v \in Workers : pc'[v] \in {"idle", "done"} /\ loc'[v] = NoLocals
        /\ UNCHANGED <<stock, applied, overlapped>>
    BY DEF Crash
  <1>2. \A v \in Workers : \A item : ~Touches(v, item)'
    BY <1>1 DEF Touches
  <1>3. ASSUME NEW v \in Workers PROVE TxShape(v)' /\ ReadIsStock(v)'
    <2>1. TxShape(v)'
      BY <1>1 DEF TxShape, NoLocals
    <2>2. ReadIsStock(v)'
      BY <1>1 DEF ReadIsStock
    <2> QED BY <2>1, <2>2
  <1>4. StockInv' /\ RaceInv'
    BY <1>1, <1>2 DEF ExactInv, StockInv, RaceInv
  <1> QED BY <1>3, <1>4 DEF ExactInv

LEMMA ExactNext ==
  ASSUME TypeInv, FlowInv, LockInv, ExactInv, [Next]_vars
  PROVE  ExactInv'
  <1>1. ASSUME NEW w \in Workers, OrderWebhook(w) \/ RozetkaWebhook(w) \/ Step(w)
        PROVE  ExactInv'
    <2>1. CASE EndOrder(w) \/ Rollback(w)
      BY <2>1, FinishExact DEF EndOrder, Rollback, stockVars
    <2> QED BY <1>1, <2>1, BeforeExact, ReadExact, WriteExact, SnapshotExact, LineExact, CommitExact
            DEF Step, Deduct, Document
  <1>2. CASE UNCHANGED <<pc, loc, stockVars>>
    <2>1. ASSUME NEW v \in Workers PROVE TxShape(v)' /\ ReadIsStock(v)'
      <3>1. pc'[v] = pc[v] /\ loc'[v] = loc[v] /\ TxShape(v) /\ ReadIsStock(v)
        BY <1>2 DEF ExactInv
      <3>2. applied' = applied /\ stock' = stock /\ overlapped' = overlapped
        BY <1>2 DEF stockVars
      <3> QED BY <3>1, <3>2, SameWorker, SameReads
    <2>2. \A v \in Workers : \A item : Touches(v, item)' <=> Touches(v, item)
      BY <1>2, SameWorker
    <2>3. StockInv' /\ RaceInv'
      BY <1>2, <2>2 DEF ExactInv, StockInv, RaceInv, stockVars
    <2> QED BY <2>1, <2>3 DEF ExactInv
  <1>3. CASE (\E o \in Orders : PlaceOrder(o) \/ CloseOrder(o)) \/ UNCHANGED vars
    BY <1>2, <1>3 DEF PlaceOrder, CloseOrder, vars
  <1> QED BY <1>1, <1>3, CrashExact DEF Next

LEMMA SumOfNone ==
  ASSUME NEW S, IsFiniteSet(S), NEW f \in [S -> Nat], \A x \in S : f[x] = 0
  PROVE  Total(f, S) = 0
  <1>1. PICK g : Sums(g, f, S) /\ Total(f, S) = g[S]
    BY TotalIs
  <1> DEFINE Good == {T \in SUBSET S : g[T] = 0}
  <1>2. ASSUME NEW T \in SUBSET S,
               \A U \in SUBSET S : Cardinality(U) < Cardinality(T) => U \in Good
        PROVE  T \in Good
    <2>1. CASE T = {}
      BY <1>1, <2>1, SumStep
    <2>2. CASE T # {}
      <3>1. PICK x \in T : g[T] = f[x] + g[T \ {x}]
        BY <1>1, <2>2, SumStep
      <3>2. T \ {x} \in Good
        BY <1>2, Smaller
      <3> QED BY <3>1, <3>2
    <2> QED BY <2>1, <2>2
  <1> HIDE DEF Good
  <1>3. \A T \in SUBSET S : T \in Good
    BY <1>2, BySize
  <1> QED BY <1>1, <1>3 DEF Good

LEMMA InitExact ==
  ASSUME Init
  PROVE  ExactInv
  <1>1. \A v \in Workers : pc[v] = "idle" /\ loc[v].tx = <<>> /\ loc[v].written = {}
                           /\ loc[v].todo = {}
    BY DEF Init, NoLocals
  <1>2. \A v \in Workers : TxShape(v) /\ ReadIsStock(v) /\ \A item : ~Touches(v, item)
    BY <1>1 DEF TxShape, ReadIsStock, Touches
  <1>3. StockInv
    <2> SUFFICES ASSUME NEW item \in Items PROVE stock[item] = LeftOf(applied, item)
      BY DEF StockInv
    <2>1. applied \in [LineIds -> Nat] /\ \A id \in LineIds : applied[id] = 0
      BY DEF Init
    <2>2. \A id \in Ids(item) : Amounts(applied, item)[id] = 0
      <3> SUFFICES ASSUME NEW id \in Ids(item)
                   PROVE applied[id] * Lines[id[1]][id[2]].qty = 0
        BY DEF Amounts
      <3>1. id \in LineIds
        BY IdsFinite
      <3>2. \A q \in Nat : 0 * q = 0
        OBVIOUS
      <3> QED BY <2>1, <3>1, <3>2, QtyType
    <2>3. Owed(applied, item) = 0
      BY <2>1, <2>2, AmountsType, IdsFinite, SumOfNone DEF Owed
    <2>4. InitialStock[item] \in Nat /\ stock = InitialStock
      BY LinesAssumption DEF Init
    <2> QED BY <2>3, <2>4, MaxOfTwo DEF LeftOf
  <1> QED BY <1>2, <1>3 DEF ExactInv, RaceInv

(* Stock goes down by exactly what was deducted, and not below zero, unless  *)
(* two deductions of one product overlapped: between the SELECT and the      *)
(* UPDATE of a deduction nobody else touches the row, and what a transaction *)
(* of createOrderDocument has written is what its lines leave.               *)
THEOREM StockIsExact == Spec => []StockExact
  <1>1. Init => LockInv /\ DocNumbersUnique /\ ExactInv
    BY InitExact DEF Init, LockInv, DocNumbersUnique
  <1>2. TypeInv /\ FlowInv /\ LockInv /\ DocNumbersUnique /\ ExactInv /\ [Next]_vars
        => (LockInv /\ DocNumbersUnique /\ ExactInv)'
    BY LockNext, ExactNext
  <1>3. ExactInv => StockExact
    BY DeductedIsTotal DEF ExactInv, StockInv, StockExact, LeftOf, Owed
  <1> QED BY <1>1, <1>2, <1>3, TypeCorrect, PTL DEF Spec
=============================================================================
