---------------------------- MODULE Plugin_proofs ----------------------------
(* Theorems about the WordPress plugin, for any number of orders, cards and  *)
(* PHP requests, and any bound of the runs.                                  *)
EXTENDS PluginOrders, PluginCards, PluginCatalog, FiniteSetTheorems, SequenceTheorems, TLAPS

-----------------------------------------------------------------------------
(* PluginOrders.                                                             *)

Scripts ==
  {NoScript} \cup
  [pc : {"loaded", "changed", "paid", "calling", "answered"}, order : Orders,
   from : Statuses, to : Statuses, paid : BOOLEAN, configured : BOOLEAN]

(* The PHP request s will bring the server to know of order o, or count as a *)
(* reason for its not being heard of.                                        *)
Announcing(s, o) ==
  /\ s # NoScript /\ s.order = o
  /\ \/ s.pc = "calling"
     \/ s.pc = "changed" /\ Announces(s.from, s.to)

AnnounceInv ==
  /\ script \in [OrderScripts -> Scripts]
  /\ status \in [Orders -> Statuses]
  /\ configured \in BOOLEAN
  /\ \A o \in Orders : status[o] \in NotifyStatuses => o \in reached
  /\ \A r \in OrderScripts : script[r] # NoScript =>
       /\ script[r].from \in NotifyStatuses => script[r].order \in reached
       /\ script[r].pc = "answered" => script[r].order \in heard \cup unheard
  /\ \A o \in reached :
       o \in heard \cup unheard \/ \E r \in OrderScripts : Announcing(script[r], o)
  /\ notified \subseteq heard \cup unheard

(* One PHP request goes on as n: what its step has to see to.                *)
LEMMA ScriptStep ==
  ASSUME AnnounceInv, NEW r \in OrderScripts, NEW n \in Scripts,
         script' = [script EXCEPT ![r] = n],
         reached \subseteq reached', heard \subseteq heard', unheard \subseteq unheard',
         UNCHANGED configured,
         status' \in [Orders -> Statuses],
         \A o \in Orders : status'[o] \in NotifyStatuses => o \in reached',
         n # NoScript => /\ n.from \in NotifyStatuses => n.order \in reached'
                         /\ n.pc = "answered" => n.order \in heard' \cup unheard',
         \A o \in reached : Announcing(script[r], o) =>
           o \in heard' \cup unheard' \/ Announcing(n, o),
         \A o \in reached' \ reached : Announcing(n, o),
         notified' \subseteq heard' \cup unheard'
  PROVE  AnnounceInv'
  <1>1. script'[r] = n /\ \A q \in OrderScripts \ {r} : script'[q] = script[q]
    BY DEF AnnounceInv
  <1>2. script' \in [OrderScripts -> Scripts]
    BY DEF AnnounceInv
  <1>3. ASSUME NEW o \in reached'
        PROVE  o \in heard' \cup unheard' \/ \E q \in OrderScripts : Announcing(script'[q], o)
    <2>1. CASE o \notin reached
      BY <1>1, <2>1
    <2>2. CASE o \in reached
      <3>1. CASE o \in heard \cup unheard
        BY <3>1
      <3>2. CASE \E q \in OrderScripts : Announcing(script[q], o)
        <4>1. PICK q \in OrderScripts : Announcing(script[q], o)
          BY <3>2
        <4>2. CASE q = r
          BY <1>1, <2>2, <4>1, <4>2
        <4>3. CASE q # r
          BY <1>1, <4>1, <4>3
        <4> QED BY <4>2, <4>3
      <3> QED BY <2>2, <3>1, <3>2 DEF AnnounceInv
    <2> QED BY <2>1, <2>2
  <1>4. \A q \in OrderScripts : script'[q] # NoScript =>
          /\ script'[q].from \in NotifyStatuses => script'[q].order \in reached'
          /\ script'[q].pc = "answered" => script'[q].order \in heard' \cup unheard'
    BY <1>1 DEF AnnounceInv
  <1> QED BY <1>2, <1>3, <1>4 DEF AnnounceInv, Announcing

(* A running request has a record's fields.                                  *)
LEMMA Running ==
  ASSUME AnnounceInv, NEW r \in OrderScripts, script[r].pc # "none"
  PROVE  /\ script[r] # NoScript
         /\ script[r] \in
              [pc : {"loaded", "changed", "paid", "calling", "answered"}, order : Orders,
               from : Statuses, to : Statuses, paid : BOOLEAN, configured : BOOLEAN]
  BY DEF AnnounceInv, Scripts, NoScript

(* A request that is neither calling nor announcing may end or go on to the  *)
(* payment's hook.                                                           *)
LEMMA AfterChangeType ==
  ASSUME AnnounceInv, NEW r \in OrderScripts, script[r].pc # "none"
  PROVE  LET n == AfterChange(script[r]) IN
         /\ n \in Scripts
         /\ n # NoScript => n.pc = "paid" /\ n.order = script[r].order
                            /\ n.from = script[r].from
  BY Running DEF AfterChange, Scripts, NoScript

LEMMA OrdersInitInv == OrdersInit => AnnounceInv
  BY DEF OrdersInit, AnnounceInv, Scripts, Statuses, NotifyStatuses

(* notify_limansoft calls the server, or there is a reason why not.          *)
LEMMA NotifyInv ==
  ASSUME AnnounceInv, NEW r \in OrderScripts, script[r].pc \in {"changed", "paid"}, Notify(r),
         UNCHANGED <<status, notified, configured, heard, reached>>
  PROVE  AnnounceInv'
  <1> DEFINE s == script[r]
  <1>1. /\ s # NoScript
        /\ s \in [pc : {"loaded", "changed", "paid", "calling", "answered"}, order : Orders,
                  from : Statuses, to : Statuses, paid : BOOLEAN, configured : BOOLEAN]
        /\ s.from \in NotifyStatuses => s.order \in reached
    BY Running DEF AnnounceInv
  <1>2. CASE s.configured
    <2> DEFINE n == [s EXCEPT !.pc = "calling"]
    <2>1. script' = [script EXCEPT ![r] = n] /\ unheard' = unheard
      BY <1>2 DEF Notify
    <2>2. /\ n \in Scripts /\ n # NoScript /\ n.pc = "calling" /\ n.order = s.order
          /\ n.from = s.from
      BY <1>1 DEF Scripts, NoScript
    <2> HIDE DEF n
    <2>3. \A o : Announcing(s, o) => Announcing(n, o)
      BY <2>2 DEF Announcing
    <2> QED BY <1>1, <2>1, <2>2, <2>3, ScriptStep DEF AnnounceInv
  <1>3. CASE ~s.configured
    <2> DEFINE n == AfterChange(s)
    <2>1. script' = [script EXCEPT ![r] = n] /\ unheard' = unheard \cup {s.order}
      BY <1>3 DEF Notify
    <2>2. /\ n \in Scripts
          /\ n # NoScript => n.pc = "paid" /\ n.order = s.order /\ n.from = s.from
      BY AfterChangeType
    <2> HIDE DEF n
    <2>3. \A o : Announcing(s, o) => o \in unheard'
      BY <2>1 DEF Announcing
    <2> QED BY <1>1, <2>1, <2>2, <2>3, ScriptStep DEF AnnounceInv
  <1> QED BY <1>2, <1>3

LEMMA OrdersNextInv ==
  ASSUME AnnounceInv, [OrdersNext]_orderVars
  PROVE  AnnounceInv'
  <1>1. CASE SaveOptions \/ SwitchWebhook \/ UNCHANGED orderVars
    BY <1>1 DEF SaveOptions, SwitchWebhook, orderVars, AnnounceInv
  <1>2. ASSUME NEW r \in OrderScripts, NEW o \in Orders, NEW to \in Statuses,
               NEW paid \in BOOLEAN, LoadOrder(r, o, to, paid)
        PROVE  AnnounceInv'
    <2> DEFINE n == [pc |-> "loaded", order |-> o, from |-> status[o], to |-> to,
                     paid |-> paid, configured |-> configured]
    <2>1. /\ script[r] = NoScript /\ script' = [script EXCEPT ![r] = n]
          /\ UNCHANGED <<status, notified, configured, heard, unheard, reached>>
      BY <1>2 DEF LoadOrder
    <2>2. n \in Scripts /\ n.pc = "loaded" /\ n.order = o /\ n.from = status[o]
      BY DEF Scripts, AnnounceInv
    <2> HIDE DEF n
    <2>3. \A x : ~Announcing(script[r], x)
      BY <2>1 DEF Announcing
    <2> QED BY <2>1, <2>2, <2>3, ScriptStep DEF AnnounceInv
  <1>3. ASSUME NEW r \in OrderScripts, SaveOrder(r)
        PROVE  AnnounceInv'
    <2> DEFINE s == script[r]
               n == [s EXCEPT !.pc = "changed"]
    <2>1. /\ s # NoScript /\ s.pc = "loaded"
          /\ s \in [pc : {"loaded", "changed", "paid", "calling", "answered"}, order : Orders,
                  from : Statuses, to : Statuses, paid : BOOLEAN, configured : BOOLEAN]
          /\ s.from \in NotifyStatuses => s.order \in reached
      BY <1>3, Running DEF SaveOrder, AnnounceInv
    <2>2. /\ status' = [status EXCEPT ![s.order] = s.to]
          /\ script' = [script EXCEPT ![r] = n]
          /\ reached' = IF s.to \in NotifyStatuses THEN reached \cup {s.order} ELSE reached
          /\ UNCHANGED <<notified, configured, heard, unheard>>
      BY <1>3 DEF SaveOrder
    <2>3. /\ n \in Scripts /\ n # NoScript /\ n.pc = "changed" /\ n.order = s.order
          /\ n.from = s.from /\ n.to = s.to
      BY <2>1 DEF Scripts, NoScript
    <2> HIDE DEF n
    <2>4. \A o : ~Announcing(s, o)
      BY <2>1 DEF Announcing
    <2>5. \A o \in reached' \ reached : Announcing(n, o)
      BY <2>1, <2>2, <2>3 DEF Announcing, Announces
    <2>6. /\ status' \in [Orders -> Statuses]
          /\ \A o \in Orders : status'[o] \in NotifyStatuses => o \in reached'
      BY <2>1, <2>2 DEF AnnounceInv
    <2> QED BY <2>1, <2>2, <2>3, <2>4, <2>5, <2>6, ScriptStep DEF AnnounceInv
  <1>4. ASSUME NEW r \in OrderScripts, StatusChanged(r)
        PROVE  AnnounceInv'
    <2> DEFINE s == script[r]
               n == AfterChange(s)
    <2>1. /\ s.pc = "changed"
          /\ UNCHANGED <<status, notified, configured, heard, reached>>
      BY <1>4 DEF StatusChanged
    <2>2. CASE Announces(s.from, s.to) /\ s.order \notin notified
      BY <1>4, <2>1, <2>2, NotifyInv DEF StatusChanged
    <2>3. CASE ~(Announces(s.from, s.to) /\ s.order \notin notified)
      <3>1. script' = [script EXCEPT ![r] = n] /\ unheard' = unheard
        BY <1>4, <2>3 DEF StatusChanged
      <3>2. /\ n \in Scripts
            /\ n # NoScript => n.pc = "paid" /\ n.order = s.order /\ n.from = s.from
        BY <2>1, AfterChangeType
      <3> HIDE DEF n
      <3>3. \A o : Announcing(s, o) => o \in heard \cup unheard
        BY <2>1, <2>3 DEF Announcing, AnnounceInv
      <3>4. s # NoScript /\ (s.from \in NotifyStatuses => s.order \in reached)
        BY <2>1, Running DEF AnnounceInv
      <3> QED BY <2>1, <3>1, <3>2, <3>3, <3>4, ScriptStep DEF AnnounceInv
    <2> QED BY <2>2, <2>3
  <1>5. ASSUME NEW r \in OrderScripts, PaymentComplete(r)
        PROVE  AnnounceInv'
    BY <1>5, NotifyInv DEF PaymentComplete
  <1>6. ASSUME NEW r \in OrderScripts, ServerHears(r)
        PROVE  AnnounceInv'
    <2> DEFINE s == script[r]
               n == [s EXCEPT !.pc = "answered"]
    <2>1. /\ s # NoScript /\ s.pc = "calling"
          /\ s \in [pc : {"loaded", "changed", "paid", "calling", "answered"}, order : Orders,
                  from : Statuses, to : Statuses, paid : BOOLEAN, configured : BOOLEAN]
          /\ s.from \in NotifyStatuses => s.order \in reached
      BY <1>6, Running DEF ServerHears, AnnounceInv
    <2>2. /\ script' = [script EXCEPT ![r] = n]
          /\ heard \subseteq heard' /\ unheard \subseteq unheard'
          /\ s.order \in heard' \cup unheard'
          /\ UNCHANGED <<status, notified, configured, reached>>
      BY <1>6 DEF ServerHears
    <2>3. /\ n \in Scripts /\ n # NoScript /\ n.order = s.order /\ n.from = s.from
      BY <2>1 DEF Scripts, NoScript
    <2> HIDE DEF n
    <2>4. \A o : Announcing(s, o) => o \in heard' \cup unheard'
      BY <2>2 DEF Announcing
    <2> QED BY <2>1, <2>2, <2>3, <2>4, ScriptStep DEF AnnounceInv
  <1>7. ASSUME NEW r \in OrderScripts, FlagOrder(r)
        PROVE  AnnounceInv'
    <2> DEFINE s == script[r]
               n == AfterChange(s)
    <2>1. /\ s.pc = "answered" /\ script' = [script EXCEPT ![r] = n]
          /\ notified' = notified \cup {s.order}
          /\ UNCHANGED <<status, configured, heard, unheard, reached>>
      BY <1>7 DEF FlagOrder
    <2>2. /\ n \in Scripts
          /\ n # NoScript => n.pc = "paid" /\ n.order = s.order /\ n.from = s.from
      BY <2>1, AfterChangeType
    <2>3. /\ s # NoScript /\ s.order \in heard \cup unheard
          /\ s.from \in NotifyStatuses => s.order \in reached
      BY <2>1, Running DEF AnnounceInv
    <2> HIDE DEF n
    <2>4. \A o : ~Announcing(s, o)
      BY <2>1 DEF Announcing
    <2> QED BY <2>1, <2>2, <2>3, <2>4, ScriptStep DEF AnnounceInv
  <1>8. ASSUME NEW r \in OrderScripts, CallFails(r)
        PROVE  AnnounceInv'
    <2> DEFINE s == script[r]
               n == AfterChange(s)
    <2>1. /\ s.pc \in {"calling", "answered"} /\ script' = [script EXCEPT ![r] = n]
          /\ unheard \subseteq unheard'
          /\ s.pc = "calling" => s.order \in unheard'
          /\ UNCHANGED <<status, notified, configured, heard, reached>>
      BY <1>8 DEF CallFails
    <2>2. /\ n \in Scripts
          /\ n # NoScript => n.pc = "paid" /\ n.order = s.order /\ n.from = s.from
      BY <2>1, AfterChangeType
    <2>3. s # NoScript /\ (s.from \in NotifyStatuses => s.order \in reached)
      BY <2>1, Running DEF AnnounceInv
    <2> HIDE DEF n
    <2>4. \A o : Announcing(s, o) => o \in unheard'
      BY <2>1 DEF Announcing
    <2> QED BY <2>1, <2>2, <2>3, <2>4, ScriptStep DEF AnnounceInv
  <1>9. ASSUME NEW r \in OrderScripts, ScriptDies(r)
        PROVE  AnnounceInv'
    <2>1. /\ script' = [script EXCEPT ![r] = NoScript]
          /\ unheard' = unheard \cup {script[r].order}
          /\ UNCHANGED <<status, notified, configured, heard, reached>>
      BY <1>9 DEF ScriptDies
    <2>2. NoScript \in Scripts /\ \A o : Announcing(script[r], o) => o \in unheard'
      BY <2>1 DEF Scripts, Announcing
    <2> QED BY <2>1, <2>2, ScriptStep DEF AnnounceInv
  <1> QED BY <1>1, <1>2, <1>3, <1>4, <1>5, <1>6, <1>7, <1>8, <1>9 DEF OrdersNext

(* Every order that is paid or goes into work is taken over by the server,   *)
(* whichever scripts change its status and in whichever order they save it   *)
(* and run their hooks, unless there is one of the reasons the model names   *)
(* (handle_status_change, handle_order, notify_limansoft).                   *)
THEOREM OrdersAreAnnounced == OrdersSpec => []OrdersAnnounced
  <1>1. AnnounceInv => OrdersAnnounced
    BY DEF AnnounceInv, OrdersAnnounced, Announcing
  <1> QED BY <1>1, OrdersInitInv, OrdersNextInv, PTL DEF OrdersSpec

-----------------------------------------------------------------------------
(* PluginCards.                                                              *)

Hooks == [pc : {"saved", "locking", "calling", "read", "sku"}, card : Cards,
          auto : BOOLEAN, read : Nat]

At(h, c, pcs) == hook[h] # Unused /\ hook[h].card = c /\ hook[h].pc \in pcs

(* A hook that has not read card c yet.                                      *)
Unread(c) == \E h \in CardScripts : At(h, c, {"saved", "locking", "calling"})

(* For a card without a reason to miss a change at most one import is under  *)
(* way, and either a hook has still to read the card, or what was read last  *)
(* is the last version.                                                      *)
Arrives(c) ==
  /\ \A g, h \in CardScripts :
       At(g, c, {"calling", "read"}) /\ At(h, c, {"calling", "read"}) => g = h
  /\ \/ Unread(c)
     \/ /\ \A h \in CardScripts : At(h, c, {"read"}) => hook[h].read = version[c]
        /\ \/ version[c] = imported[c]
           \/ \E h \in CardScripts : At(h, c, {"read"})

ArriveInv ==
  /\ version \in [Cards -> Nat] /\ imported \in [Cards -> Nat]
  /\ autoUpdate \in BOOLEAN
  /\ hook \in [CardScripts -> Hooks \cup {Unused}]
  /\ \A c \in Cards \ missed : Arrives(c)

LEMMA HookType ==
  ASSUME ArriveInv, NEW h \in CardScripts
  PROVE  hook[h].pc # "none" => hook[h] \in Hooks /\ hook[h] # Unused
  BY DEF ArriveInv, Hooks, Unused

LEMMA UnusedHook == /\ Unused \notin Hooks /\ \A k \in Hooks : k # Unused
  BY DEF Hooks, Unused

LEMMA CardsInitInv == CardsInit => ArriveInv
  BY DEF CardsInit, ArriveInv, Arrives, At

(* A card is saved, and a hook begins.                                       *)
LEMMA SavedStep ==
  ASSUME ArriveInv, NEW h \in CardScripts, NEW g \in CardScripts, NEW c \in Cards,
         hook[g] = Unused,
         \/ hook' = [hook EXCEPT ![g] = Saved(g, c)]
         \/ hook[h].pc = "sku" /\ hook' = [hook EXCEPT ![h] = Unused, ![g] = Saved(g, c)],
         version' = [version EXCEPT ![c] = @ + 1],
         UNCHANGED <<imported, autoUpdate, missed>>
  PROVE  ArriveInv'
  <1>1. Saved(g, c) \in Hooks /\ Saved(g, c) # Unused /\ Saved(g, c).pc = "saved"
        /\ Saved(g, c).card = c
    BY DEF Saved, Hooks, Unused, ArriveInv
  <1>2. hook'[g] = Saved(g, c)
    BY DEF ArriveInv
  <1>3. \A k \in CardScripts \ {g} :
          \/ hook'[k] = hook[k]
          \/ hook'[k] = Unused /\ hook[k].pc = "sku"
    BY DEF ArriveInv
  <1>4. hook' \in [CardScripts -> Hooks \cup {Unused}]
    BY <1>1 DEF ArriveInv
  <1>5. version' \in [Cards -> Nat]
    BY DEF ArriveInv
  <1>6. ASSUME NEW d \in Cards \ missed
        PROVE  Arrives(d)'
    <2>1. Arrives(d)
      BY DEF ArriveInv
    <2>2. \A k \in CardScripts : At(k, d, {"calling", "read"})' => At(k, d, {"calling", "read"})
      BY <1>1, <1>2, <1>3 DEF At
    <2>3. CASE d = c
      <3>1. At(g, c, {"saved", "locking", "calling"})'
        BY <1>1, <1>2 DEF At
      <3> QED BY <2>1, <2>2, <2>3, <3>1 DEF Arrives, Unread
    <2>4. CASE d # c
      <3>1. version'[d] = version[d] /\ imported'[d] = imported[d]
        BY <2>4 DEF ArriveInv
      <3>2. \A k \in CardScripts :
              /\ At(k, d, {"read"})' = At(k, d, {"read"})
              /\ At(k, d, {"read"}) => hook'[k].read = hook[k].read
              /\ At(k, d, {"saved", "locking", "calling"})
                   => At(k, d, {"saved", "locking", "calling"})'
        BY <1>1, <1>2, <1>3, <2>4 DEF At
      <3> QED BY <2>1, <2>2, <3>1, <3>2 DEF Arrives, Unread
    <2> QED BY <2>3, <2>4
  <1> QED BY <1>4, <1>5, <1>6 DEF ArriveInv

(* A hook goes on as n, and the card's version stays: what its step has to   *)
(* see to.                                                                   *)
LEMMA HookStep ==
  ASSUME ArriveInv, NEW h \in CardScripts, NEW n \in Hooks \cup {Unused}, NEW c \in Cards,
         hook' = [hook EXCEPT ![h] = n],
         hook[h] # Unused, hook[h].card = c, n # Unused => n.card = c,
         UNCHANGED <<version, autoUpdate>>, missed \subseteq missed',
         imported' \in [Cards -> Nat],
         \A d \in Cards \ {c} : imported'[d] = imported[d],
         c \notin missed' => Arrives(c)'
  PROVE  ArriveInv'
  <1>1. hook'[h] = n /\ \A k \in CardScripts \ {h} : hook'[k] = hook[k]
    BY DEF ArriveInv
  <1>2. ASSUME NEW d \in Cards \ missed', d # c
        PROVE  Arrives(d)'
    <2>1. Arrives(d)
      BY DEF ArriveInv
    <2>2. \A k \in CardScripts : \A pcs : At(k, d, pcs)' = At(k, d, pcs)
      BY <1>1, <1>2 DEF At
    <2>3. \A k \in CardScripts : At(k, d, {"read"}) => hook'[k].read = hook[k].read
      BY <1>1, <1>2 DEF At
    <2> QED BY <1>2, <2>1, <2>2, <2>3 DEF Arrives, Unread
  <1>3. hook' \in [CardScripts -> Hooks \cup {Unused}]
    BY DEF ArriveInv
  <1> QED BY <1>2, <1>3 DEF ArriveInv

LEMMA CardsNextInv ==
  ASSUME ArriveInv, [CardsNext]_cardVars
  PROVE  ArriveInv'
  <1>1. ASSUME UNCHANGED <<version, imported, hook, missed>>, autoUpdate' \in BOOLEAN
        PROVE  ArriveInv'
    BY <1>1 DEF ArriveInv, Arrives, Unread, At
  <1>2. CASE \/ UNCHANGED cardVars \/ SwitchAutoUpdate
             \/ \E c \in Cards : LockExpires(c)
    BY <1>1, <1>2 DEF SwitchAutoUpdate, LockExpires, cardVars, ArriveInv
  <1>3. ASSUME NEW h \in CardScripts, NEW c \in Cards, SaveCard(h, c)
        PROVE  ArriveInv'
    BY <1>3, SavedStep DEF SaveCard
  <1>4. ASSUME NEW h \in CardScripts, NEW g \in CardScripts, ServerWritesSku(h, g)
        PROVE  ArriveInv'
    <2>1. hook[h].card \in Cards
      BY <1>4, HookType DEF ServerWritesSku, Hooks
    <2> QED BY <1>4, <2>1, SavedStep DEF ServerWritesSku
  <1>5. ASSUME NEW h \in CardScripts, TestLock(h)
        PROVE  ArriveInv'
    <2> DEFINE k == hook[h]
    <2>0. k \in Hooks /\ k # Unused /\ k.pc = "saved"
      BY <1>5, HookType DEF TestLock, Hooks
    <2>1. PICK c \in Cards : c = k.card
      BY <2>0 DEF Hooks
    <2>2. UNCHANGED <<version, autoUpdate, imported>>
      BY <1>5, <2>1 DEF TestLock
    <2>3. CASE k.auto /\ ~Locked(c)
      <3> DEFINE n == [k EXCEPT !.pc = "locking"]
      <3>1. hook' = [hook EXCEPT ![h] = n] /\ missed' = missed
        BY <1>5, <2>1, <2>3 DEF TestLock
      <3>2. n \in Hooks /\ n # Unused /\ n.card = c /\ n.pc = "locking"
        BY <2>0, <2>1 DEF Hooks, Unused
      <3> HIDE DEF n
      <3>3. hook'[h] = n /\ \A g \in CardScripts \ {h} : hook'[g] = hook[g]
        BY <3>1 DEF ArriveInv
      <3>4. c \notin missed' => Arrives(c)'
        <4>1. Unread(c)'
          BY <3>2, <3>3 DEF Unread, At
        <4>2. \A g \in CardScripts :
                At(g, c, {"calling", "read"})' => At(g, c, {"calling", "read"})
          BY <3>2, <3>3 DEF At
        <4> QED BY <2>0, <2>1, <3>1, <4>1, <4>2 DEF ArriveInv, Arrives
      <3> QED BY <2>0, <2>1, <2>2, <3>1, <3>2, <3>4, HookStep DEF ArriveInv
    <2>4. CASE ~(k.auto /\ ~Locked(c))
      <3>1. /\ hook' = [hook EXCEPT ![h] = Unused]
            /\ missed' = IF ~k.auto \/ (c \in lock /\ ~StillToRead(h))
                         THEN missed \cup {c} ELSE missed
        BY <1>5, <2>1, <2>4 DEF TestLock
      <3>2. hook'[h] = Unused /\ \A g \in CardScripts \ {h} : hook'[g] = hook[g]
        BY <3>1 DEF ArriveInv
      <3>3. c \notin missed' => Arrives(c)'
        <4> SUFFICES ASSUME c \notin missed' PROVE Arrives(c)'
          OBVIOUS
        <4>1. StillToRead(h) /\ missed' = missed
          BY <2>4, <3>1 DEF Locked
        <4>2. Unread(c)'
          BY <2>1, <3>2, <4>1 DEF StillToRead, Unread, At
        <4>3. \A g \in CardScripts :
                At(g, c, {"calling", "read"})' => At(g, c, {"calling", "read"})
          BY <3>2 DEF At
        <4> QED BY <2>0, <2>1, <4>1, <4>2, <4>3 DEF ArriveInv, Arrives
      <3> QED BY <2>0, <2>1, <2>2, <3>1, <3>3, HookStep DEF ArriveInv
    <2> QED BY <2>3, <2>4
  <1>6. ASSUME NEW h \in CardScripts, SetLock(h)
        PROVE  ArriveInv'
    <2> DEFINE k == hook[h]
               n == [k EXCEPT !.pc = "calling"]
    <2>0. k \in Hooks /\ k # Unused /\ k.pc = "locking"
      BY <1>6, HookType DEF SetLock, Hooks
    <2>1. PICK c \in Cards : c = k.card
      BY <2>0 DEF Hooks
    <2>2. /\ UNCHANGED <<version, autoUpdate, imported>>
          /\ hook' = [hook EXCEPT ![h] = n]
          /\ missed' = IF \E g \in CardScripts : At(g, c, {"calling", "read"})
                       THEN missed \cup {c} ELSE missed
      BY <1>6, <2>1 DEF SetLock, At
    <2>3. n \in Hooks /\ n # Unused /\ n.card = c /\ n.pc = "calling"
      BY <2>0, <2>1 DEF Hooks, Unused
    <2> HIDE DEF n
    <2>4. hook'[h] = n /\ \A g \in CardScripts \ {h} : hook'[g] = hook[g]
      BY <2>2 DEF ArriveInv
    <2>5. c \notin missed' => Arrives(c)'
      <3> SUFFICES ASSUME c \notin missed' PROVE Arrives(c)'
        OBVIOUS
      <3>1. \A g \in CardScripts : ~At(g, c, {"calling", "read"})
        BY <2>2
      <3>2. \A g \in CardScripts : At(g, c, {"calling", "read"})' => g = h
        BY <2>4, <3>1 DEF At
      <3>3. Unread(c)'
        BY <2>3, <2>4 DEF Unread, At
      <3> QED BY <3>2, <3>3 DEF Arrives
    <2> QED BY <2>0, <2>1, <2>2, <2>3, <2>5, HookStep DEF ArriveInv
  <1>7. ASSUME NEW h \in CardScripts, ServerReads(h)
        PROVE  ArriveInv'
    <2> DEFINE k == hook[h]
               n == [k EXCEPT !.pc = "read", !.read = version[k.card]]
    <2>0. k \in Hooks /\ k # Unused /\ k.pc = "calling"
      BY <1>7, HookType DEF ServerReads, Hooks
    <2>1. PICK c \in Cards : c = k.card
      BY <2>0 DEF Hooks
    <2>2. /\ UNCHANGED <<version, autoUpdate, imported, missed>>
          /\ hook' = [hook EXCEPT ![h] = n]
      BY <1>7, <2>1 DEF ServerReads
    <2>3. n \in Hooks /\ n # Unused /\ n.card = c /\ n.pc = "read" /\ n.read = version[c]
      BY <2>0, <2>1 DEF Hooks, Unused, ArriveInv
    <2> HIDE DEF n
    <2>4. hook'[h] = n /\ \A g \in CardScripts \ {h} : hook'[g] = hook[g]
      BY <2>2 DEF ArriveInv
    <2>5. c \notin missed' => Arrives(c)'
      <3> SUFFICES ASSUME c \notin missed PROVE Arrives(c)'
        BY <2>2
      <3>1. Arrives(c) /\ At(h, c, {"calling", "read"})
        BY <2>0, <2>1 DEF ArriveInv, At
      <3>2. \A g \in CardScripts :
              At(g, c, {"calling", "read"})' => At(g, c, {"calling", "read"})
        BY <2>0, <2>1, <2>4 DEF At
      <3>3. \A g \in CardScripts : At(g, c, {"read"})' => g = h
        BY <2>4, <3>1 DEF At, Arrives
      <3>4. At(h, c, {"read"})'
        BY <2>3, <2>4 DEF At
      <3>5. \A g \in CardScripts : At(g, c, {"read"})' => hook'[g].read = version'[c]
        BY <2>2, <2>3, <2>4, <3>3
      <3> QED BY <2>2, <3>1, <3>2, <3>4, <3>5 DEF Arrives
    <2> QED BY <2>0, <2>1, <2>2, <2>3, <2>5, HookStep DEF ArriveInv
  <1>8. ASSUME NEW h \in CardScripts, ServerImports(h)
        PROVE  ArriveInv'
    <2> DEFINE k == hook[h]
               n == IF k.card \in hasSku THEN Unused ELSE [k EXCEPT !.pc = "sku"]
    <2>0. k \in Hooks /\ k # Unused /\ k.pc = "read" /\ k.read \in Nat
      BY <1>8, HookType DEF ServerImports, Hooks
    <2>1. PICK c \in Cards : c = k.card
      BY <2>0 DEF Hooks
    <2>2. /\ UNCHANGED <<version, autoUpdate, missed>>
          /\ imported' = [imported EXCEPT ![c] = k.read]
          /\ hook' = [hook EXCEPT ![h] = n]
      BY <1>8, <2>1 DEF ServerImports
    <2>3. /\ n \in Hooks \cup {Unused}
          /\ n # Unused => n.card = c /\ n.pc = "sku"
      BY <2>0, <2>1 DEF Hooks, Unused
    <2> HIDE DEF n
    <2>4. hook'[h] = n /\ \A g \in CardScripts \ {h} : hook'[g] = hook[g]
      BY <2>2 DEF ArriveInv
    <2>5. c \notin missed' => Arrives(c)'
      <3> SUFFICES ASSUME c \notin missed PROVE Arrives(c)'
        BY <2>2
      <3>1. Arrives(c) /\ At(h, c, {"calling", "read"}) /\ At(h, c, {"read"})
        BY <2>0, <2>1 DEF ArriveInv, At
      <3>2. \A g \in CardScripts : ~At(g, c, {"calling", "read"})'
        BY <2>3, <2>4, <3>1 DEF At, Arrives
      <3>3. \A g \in CardScripts : ~At(g, c, {"read"})'
        BY <3>2 DEF At
      <3>4. Unread(c) => Unread(c)'
        BY <2>0, <2>1, <2>4 DEF At, Unread
      <3>5. imported'[c] = k.read
        BY <2>0, <2>1, <2>2 DEF ArriveInv
      <3>6. CASE Unread(c)
        BY <3>2, <3>4, <3>6 DEF Arrives
      <3>7. CASE ~Unread(c)
        <4>1. k.read = version[c]
          BY <3>1, <3>7 DEF Arrives
        <4> QED BY <2>2, <3>2, <3>3, <3>5, <4>1 DEF Arrives
      <3> QED BY <3>6, <3>7
    <2>6. /\ imported' \in [Cards -> Nat]
          /\ \A d \in Cards \ {c} : imported'[d] = imported[d]
      BY <2>0, <2>1, <2>2 DEF ArriveInv
    <2> QED BY <2>0, <2>1, <2>2, <2>3, <2>5, <2>6, HookStep
  <1>9. ASSUME NEW h \in CardScripts, HookFails(h)
        PROVE  ArriveInv'
    <2> DEFINE k == hook[h]
    <2>0. k \in Hooks /\ k # Unused
      BY <1>9 DEF HookFails, Hooks, ArriveInv
    <2>1. PICK c \in Cards : c = k.card
      BY <2>0 DEF Hooks
    <2>2. /\ UNCHANGED <<version, autoUpdate, imported>>
          /\ hook' = [hook EXCEPT ![h] = Unused]
          /\ missed' = IF k.pc = "sku" THEN missed ELSE missed \cup {c}
      BY <1>9, <2>1 DEF HookFails
    <2>4. hook'[h] = Unused /\ \A g \in CardScripts \ {h} : hook'[g] = hook[g]
      BY <2>2 DEF ArriveInv
    <2>5. c \notin missed' => Arrives(c)'
      <3> SUFFICES ASSUME c \notin missed' PROVE Arrives(c)'
        OBVIOUS
      <3>1. k.pc = "sku" /\ c \notin missed
        BY <2>2
      <3>2. \A g \in CardScripts :
              /\ At(g, c, {"read"})' = At(g, c, {"read"})
              /\ At(g, c, {"read"}) => hook'[g].read = hook[g].read
              /\ At(g, c, {"calling", "read"})' = At(g, c, {"calling", "read"})
              /\ At(g, c, {"saved", "locking", "calling"})'
                   = At(g, c, {"saved", "locking", "calling"})
        BY <2>4, <3>1 DEF At
      <3>3. Arrives(c)
        BY <2>0, <2>1, <3>1 DEF ArriveInv
      <3> QED BY <2>2, <3>2, <3>3 DEF Arrives, Unread
    <2> QED BY <2>0, <2>1, <2>2, <2>5, HookStep DEF ArriveInv
  <1> QED BY <1>2, <1>3, <1>4, <1>5, <1>6, <1>7, <1>8, <1>9 DEF CardsNext

(* When no hook runs for a card, Limansoft has its last version, unless the  *)
(* card is in missed: the lock of notify_product_change drops only changes   *)
(* that an import already begun will read, and no import writes an older     *)
(* version over a newer one.                                                 *)
THEOREM ChangesArrive == CardsSpec => []CardChangesArrive
  <1>1. ArriveInv => CardChangesArrive
    BY DEF ArriveInv, Arrives, Unread, At, CardChangesArrive
  <1> QED BY <1>1, CardsInitInv, CardsNextInv, PTL DEF CardsSpec

-----------------------------------------------------------------------------
(* PluginCatalog.                                                            *)

Small(s) == \A x, y \in s : x = y

(* No card or variation with an SKU has id x, and none will.                 *)
IsParent(x) == x # 0 /\ x \in 1 .. lastPost /\ \A p \in posts : p.id = x => p.sku = {}

Duplicate(p) ==
  /\ p.sku # {}
  /\ \/ p.sku \subseteq spoiled
     \/ \E q \in posts : q.id < p.id /\ p.sku \subseteq q.sku

(* Variations are planned behind their card, which has no SKU itself.        *)
Planned(plan, parent) ==
  /\ \E S : plan \in Seq(S)
  /\ \A i \in 1 .. Len(plan) : plan[i].parent \in {0, 1} /\ Small(plan[i].sku)
  /\ \A i \in 2 .. Len(plan) : plan[i].parent = 1
  /\ plan # <<>> => IF plan[1].parent = 1 THEN IsParent(parent)
                    ELSE Len(plan) > 1 => plan[1].sku = {}

Importing(a) ==
  a = [pc |-> a.pc, items |-> a.items, groups |-> a.groups, group |-> a.group,
       lang |-> a.lang, parent |-> a.parent, plan |-> a.plan]

Cleaning(a) == a = [pc |-> a.pc, doomed |-> a.doomed]

TaskOk(a) ==
  /\ a.pc \in {"none", "group", "find", "check", "save", "skus", "titles"}
  /\ a.pc \in {"group", "find", "check", "save"} => a.items \subseteq Tcods
  /\ a.pc \in {"check", "save"} => Importing(a) /\ Planned(a.plan, a.parent)
  /\ a.pc = "save" => a.plan # <<>>
  /\ a.pc = "skus" => /\ Cleaning(a) /\ a.doomed \subseteq 1 .. lastPost
                      /\ \A p \in posts : p.id \in a.doomed => Duplicate(p)
  /\ a.pc = "titles" => Cleaning(a) /\ a.doomed \subseteq thirds

PostOk(p) ==
  /\ p.id \in 1 .. lastPost /\ p.parent \in Nat /\ Small(p.sku)
  /\ p.parent # 0 => IsParent(p.parent)
  /\ (p.id \in thirds \/ p.parent \in thirds) => p.sku \subseteq spoiled

PostsInv ==
  /\ offered \subseteq Tcods
  /\ lastPost \in Nat
  /\ IsFiniteSet(posts)
  /\ \A p \in posts : PostOk(p)
  /\ \A p, q \in posts : p.id = q.id => p = q
  /\ thirds \subseteq 1 .. lastPost
  /\ \A p \in Products : Cardinality(Older(p)) >= 2 => p.id \in thirds

TasksInv ==
  /\ task \in [Tasks -> {task[k] : k \in Tasks}]
  /\ \A k \in Tasks : TaskOk(task[k])

CleanInv == PostsInv /\ TasksInv

LEMMA CatalogInitInv == CatalogInit => CleanInv
  <1> SUFFICES ASSUME CatalogInit PROVE CleanInv
    OBVIOUS
  <1>1. PostsInv
    BY FS_EmptySet DEF CatalogInit, PostsInv, Products
  <1>2. TasksInv
    BY DEF CatalogInit, TasksInv, TaskOk, NoTask
  <1> QED BY <1>1, <1>2 DEF CleanInv

(* What a step on the cards may not do to the scripts at work.               *)
LEMMA TaskOkStable ==
  ASSUME lastPost \in Nat, lastPost' \in Nat, lastPost <= lastPost', thirds \subseteq thirds',
         \A x : IsParent(x) => IsParent(x)',
         \A p \in posts' : p.id \in 1 .. lastPost =>
           p \in posts /\ (Duplicate(p) => Duplicate(p)'),
         NEW a, TaskOk(a)
  PROVE  TaskOk(a)'
  <1>1. Planned(a.plan, a.parent) => Planned(a.plan, a.parent)'
    BY DEF Planned
  <1>2. a.pc = "skus" => /\ a.doomed \subseteq 1 .. lastPost'
                         /\ \A p \in posts' : p.id \in a.doomed => Duplicate(p)'
    BY DEF TaskOk
  <1> QED BY <1>1, <1>2 DEF TaskOk

(* Script k goes on as n, on cards that a step has changed as it may.        *)
LEMMA TaskGoesOn ==
  ASSUME TasksInv, NEW k \in Tasks, NEW n,
         task' = [task EXCEPT ![k] = n] \/ UNCHANGED task,
         task' = [task EXCEPT ![k] = n] => TaskOk(n)',
         lastPost \in Nat, lastPost' \in Nat, lastPost <= lastPost', thirds \subseteq thirds',
         \A x : IsParent(x) => IsParent(x)',
         \A p \in posts' : p.id \in 1 .. lastPost =>
           p \in posts /\ (Duplicate(p) => Duplicate(p)')
  PROVE  TasksInv'
  <1>1. ASSUME NEW j \in Tasks
        PROVE  TaskOk(task[j])'
    <2>1. CASE task'[j] = task[j]
      <3>1. PICK a : a = task[j]
        OBVIOUS
      <3>2. TaskOk(a)'
        BY <3>1, TaskOkStable DEF TasksInv
      <3> QED BY <2>1, <3>1, <3>2
    <2>2. CASE task'[j] # task[j]
      <3>1. task' = [task EXCEPT ![k] = n] /\ task'[j] = n
        BY <2>2 DEF TasksInv
      <3> QED BY <3>1
    <2> QED BY <2>1, <2>2
  <1>2. task' \in [Tasks -> {task'[j] : j \in Tasks}]
    BY DEF TasksInv
  <1> QED BY <1>1, <1>2 DEF TasksInv

(* Script k goes on as n, and the cards stay.                                *)
LEMMA TaskStep ==
  ASSUME CleanInv, NEW k \in Tasks, NEW n, TaskOk(n),
         task' = [task EXCEPT ![k] = n],
         UNCHANGED <<offered, posts, lastPost, thirds, spoiled>>
  PROVE  CleanInv'
  <1>1. PostsInv'
    BY DEF CleanInv, PostsInv, PostOk, IsParent, Products, Older
  <1>2. (\A x : IsParent(x) => IsParent(x)') /\ (\A p : Duplicate(p) => Duplicate(p)')
    BY DEF IsParent, Duplicate
  <1>3. TaskOk(n)'
    BY <1>2, TaskOkStable DEF CleanInv, PostsInv
  <1>4. /\ TasksInv /\ lastPost \in Nat /\ lastPost' \in Nat /\ lastPost <= lastPost'
        /\ thirds \subseteq thirds'
    BY DEF CleanInv, PostsInv
  <1>6. \A p \in posts' : p.id \in 1 .. lastPost =>
          p \in posts /\ (Duplicate(p) => Duplicate(p)')
    BY <1>2
  <1>5. TasksInv'
    BY <1>2, <1>3, <1>4, <1>6, TaskGoesOn
  <1> QED BY <1>1, <1>5 DEF CleanInv

-----------------------------------------------------------------------------
(* Finding out what to save.                                                 *)

LEMMA NothingPlanned ==
  ASSUME NEW parent
  PROVE  Planned(<<>>, parent)
  <1>1. <<>> \in Seq({}) /\ Len(<<>>) = 0
    OBVIOUS
  <1> QED BY <1>1 DEF Planned

LEMMA FirstAndRest ==
  ASSUME NEW S, NEW n \in Nat, NEW first \in Seq(S), NEW rest \in Seq(S),
         Len(first) = 1, Len(rest) = n
  PROVE  /\ first \o rest \in Seq(S) /\ Len(first \o rest) = 1 + n
         /\ (first \o rest)[1] = first[1]
         /\ \A i \in 2 .. Len(first \o rest) :
              (first \o rest)[i] = rest[i - 1] /\ i - 1 \in 1 .. n
  <1>1. PICK s : s = first \o rest
    OBVIOUS
  <1>2. /\ s \in Seq(S) /\ Len(s) = 1 + n
        /\ \A i \in 1 .. 1 + n : s[i] = IF i <= 1 THEN first[i] ELSE rest[i - 1]
    <2>1. first \o rest \in Seq(S)
      BY ConcatProperties
    <2>2. Len(first \o rest) = 1 + n
      BY ConcatProperties
    <2>3. \A i \in 1 .. Len(first) + Len(rest) : (first \o rest)[i] =
             IF i <= Len(first) THEN first[i] ELSE rest[i - Len(first)]
      BY ConcatProperties
    <2> QED BY <1>1, <2>1, <2>2, <2>3
  <1>3. \A i \in 2 .. 1 + n : s[i] = rest[i - 1] /\ i - 1 \in 1 .. n
    BY <1>2
  <1>4. s[1] = first[1]
    BY <1>2
  <1> QED BY <1>1, <1>2, <1>3, <1>4

LEMMA VariablePlan ==
  ASSUME NEW g, NEW lang, NEW members, IsFiniteSet(members), NEW parent
  PROVE  Planned(Variable(g, members, lang), parent)
  <1>1. CASE TitleFound(BaseOf[g], lang)
    BY <1>1, NothingPlanned DEF Variable
  <1>2. CASE ~TitleFound(BaseOf[g], lang)
    <2> DEFINE ordered == SetToSeq(members)
               rest == [i \in DOMAIN ordered |-> Card(BaseOf[g], lang, 1, Sku(ordered[i], lang))]
               first == <<Card(BaseOf[g], lang, 0, {})>>
               n == Cardinality(members)
               S == {rest[i] : i \in 1 .. n} \cup {Card(BaseOf[g], lang, 0, {})}
    <2>1. n \in Nat /\ ExistsBijection(1 .. n, members)
      BY FS_CardinalityType
    <2>2. \E f \in [1 .. n -> members] : IsInjective(f)
      BY <2>1 DEF ExistsBijection, Bijection, Injection, IsInjective
    <2>3. ordered \in [1 .. n -> members]
      BY <2>2 DEF SetToSeq
    <2>4. DOMAIN ordered = 1 .. n
      BY <2>3
    <2>5. rest \in Seq(S) /\ Len(rest) = n
      <3> HIDE DEF ordered, n
      <3> QED BY <2>1, <2>4
    <2>6. \A i \in 1 .. n : rest[i].parent = 1 /\ Small(rest[i].sku)
      <3> HIDE DEF ordered, n
      <3> QED BY <2>4 DEF Card, Small, Sku
    <2>7. /\ first \in Seq(S) /\ Len(first) = 1
          /\ first[1].parent = 0 /\ first[1].sku = {}
      BY DEF Card
    <2>8. Variable(g, members, lang) = first \o rest
      BY <1>2 DEF Variable
    <2> HIDE DEF ordered, rest, first, n, S
    <2> PICK plan : plan = first \o rest
      OBVIOUS
    <2>9. /\ plan \in Seq(S) /\ Len(plan) = 1 + n
          /\ plan[1] = first[1]
          /\ \A i \in 2 .. Len(plan) : plan[i] = rest[i - 1] /\ i - 1 \in 1 .. n
      BY <2>1, <2>5, <2>7, FirstAndRest
    <2>12. \E T : plan \in Seq(T)
      BY <2>9
    <2>10. \A i \in 2 .. Len(plan) : plan[i].parent = 1 /\ Small(plan[i].sku)
      BY <2>6, <2>9
    <2>11. \A i \in 1 .. Len(plan) : plan[i].parent \in {0, 1} /\ Small(plan[i].sku)
      <3>1. Small(plan[1].sku)
        BY <2>7, <2>9 DEF Small
      <3> QED BY <2>1, <2>7, <2>9, <2>10, <3>1
    <2>13. Planned(plan, parent)
      BY <2>1, <2>7, <2>9, <2>10, <2>11, <2>12 DEF Planned
    <2> QED BY <2>8, <2>13
  <1> QED BY <1>1, <1>2

LEMMA SimplePlan ==
  ASSUME NEW t, NEW lang, NEW parent
  PROVE  Planned(Simple(t, lang), parent)
  <1>1. CASE Sku(t, lang) \subseteq SkusOf(posts)
    BY <1>1, NothingPlanned DEF Simple
  <1>2. CASE ~(Sku(t, lang) \subseteq SkusOf(posts))
    <2> DEFINE c == Card(NameOf[t], lang, 0, Sku(t, lang))
    <2>1. c.parent = 0 /\ Small(c.sku)
      BY DEF Card, Small, Sku
    <2>2. Simple(t, lang) = <<c>>
      BY <1>2 DEF Simple
    <2> HIDE DEF c
    <2>3. PICK plan : plan = <<c>>
      OBVIOUS
    <2>4. plan \in Seq({c}) /\ Len(plan) = 1 /\ plan[1] = c
      BY <2>3
    <2>5. \E S : plan \in Seq(S)
      BY <2>4
    <2>6. Planned(plan, parent)
      BY <2>1, <2>4, <2>5 DEF Planned
    <2> QED BY <2>2, <2>3, <2>6
  <1> QED BY <1>1, <1>2

LEMMA FindStep ==
  ASSUME CleanInv, NEW k \in Tasks, Find(k)
  PROVE  CleanInv'
  <1>1. PICK a : a = task[k]
    OBVIOUS
  <1> DEFINE members == Members(a, a.group)
             plan == IF Cardinality(members) > 1 THEN Variable(a.group, members, a.lang)
                     ELSE Simple(CHOOSE t \in members : TRUE, a.lang)
  <1> HIDE DEF plan
  <1>2. PICK p : p = plan
    OBVIOUS
  <1>3. Planned(p, 0)
    <2>1. IsFiniteSet(members)
      <3>1. members \in SUBSET Tcods
        BY <1>1 DEF Find, Members, CleanInv, TasksInv, TaskOk
      <3> QED BY <3>1, FS_Subset, PluginCatalogAssumption DEF PluginCatalogAssumption
    <2>2. Planned(Variable(a.group, members, a.lang), 0)
      BY <2>1, VariablePlan
    <2>3. Planned(Simple(CHOOSE t \in members : TRUE, a.lang), 0)
      BY SimplePlan
    <2> QED BY <1>2, <2>2, <2>3 DEF plan
  <1> DEFINE n == [pc |-> "check", items |-> a.items, groups |-> a.groups, group |-> a.group,
                   lang |-> a.lang, parent |-> 0, plan |-> p]
  <1>4. task' = [task EXCEPT ![k] = n]
    BY <1>1, <1>2 DEF Find, plan
  <1>5. TaskOk(n)
    <2>1. a.items \subseteq Tcods
      BY <1>1 DEF Find, CleanInv, TasksInv, TaskOk
    <2>2. n.pc = "check" /\ n.items = a.items /\ n.plan = p /\ n.parent = 0 /\ Importing(n)
      BY DEF Importing
    <2> HIDE DEF n
    <2> QED BY <1>3, <2>1, <2>2 DEF TaskOk
  <1>6. UNCHANGED <<offered, posts, lastPost, thirds, spoiled>>
    BY DEF Find
  <1> HIDE DEF n
  <1> QED BY <1>4, <1>5, <1>6, TaskStep

(* The other steps by which an import goes on without a card saved.          *)
LEMMA ImportSteps ==
  ASSUME CleanInv, NEW k \in Tasks,
         \/ BeginMigration(k) \/ GroupsDone(k) \/ LanguageDone(k) \/ CheckSku(k)
         \/ TaskDies(k) \/ CleanupEnds(k) \/ \E g \in DOMAIN BaseOf : NextGroupOf(k, g)
  PROVE  CleanInv'
  <1>1. PICK a : a = task[k]
    OBVIOUS
  <1>2. TaskOk(a) /\ TaskOk(NoTask)
    BY <1>1 DEF CleanInv, TasksInv, TaskOk, NoTask
  <1>3. CASE GroupsDone(k) \/ TaskDies(k) \/ CleanupEnds(k)
    BY <1>2, <1>3, TaskStep DEF GroupsDone, TaskDies, CleanupEnds
  <1>4. CASE BeginMigration(k)
    <2>1. PICK n : n = [pc |-> "group", items |-> ProductsRead,
                        groups |-> {GroupOf[t] : t \in ProductsRead}]
      OBVIOUS
    <2>2. TaskOk(n)
      BY <2>1 DEF TaskOk, ProductsRead, CleanInv, PostsInv
    <2> QED BY <1>4, <2>1, <2>2, TaskStep DEF BeginMigration
  <1>5. ASSUME NEW g, NextGroupOf(k, g)
        PROVE  CleanInv'
    <2>1. PICK n : n = [pc |-> "find", items |-> a.items, groups |-> a.groups \ {g},
                        group |-> g, lang |-> "uk"]
      OBVIOUS
    <2>2. TaskOk(n)
      BY <1>1, <1>2, <1>5, <2>1 DEF TaskOk, NextGroupOf
    <2> QED BY <1>1, <1>5, <2>1, <2>2, TaskStep DEF NextGroupOf
  <1>6. CASE LanguageDone(k)
    <2>1. PICK n : n = IF both /\ a.lang = "uk"
                       THEN [pc |-> "find", items |-> a.items, groups |-> a.groups,
                             group |-> a.group, lang |-> "ru"]
                       ELSE [pc |-> "group", items |-> a.items, groups |-> a.groups]
      OBVIOUS
    <2>2. n.pc \in {"find", "group"} /\ n.items = a.items
      BY <2>1
    <2>3. TaskOk(n)
      BY <1>1, <1>2, <1>6, <2>2 DEF TaskOk, LanguageDone
    <2> QED BY <1>1, <1>6, <2>1, <2>3, TaskStep DEF LanguageDone
  <1>7. CASE CheckSku(k)
    <2>1. PICK n : n = IF Head(a.plan).sku \cap SkusOf(posts) = {} THEN [a EXCEPT !.pc = "save"]
                       ELSE [pc |-> "group", items |-> a.items, groups |-> a.groups]
      OBVIOUS
    <2>2. /\ a.pc = "check" /\ Importing(a) /\ Planned(a.plan, a.parent)
          /\ a.plan # <<>> /\ a.items \subseteq Tcods
      BY <1>1, <1>2, <1>7 DEF TaskOk, CheckSku
    <2>3. CASE n = [a EXCEPT !.pc = "save"]
      <3>1. /\ n.pc = "save" /\ n.items = a.items /\ n.plan = a.plan /\ n.parent = a.parent
            /\ Importing(n)
        BY <2>2, <2>3 DEF Importing
      <3>2. TaskOk(n)
        BY <2>2, <3>1 DEF TaskOk
      <3> QED BY <1>1, <1>7, <2>1, <3>2, TaskStep DEF CheckSku
    <2>4. CASE n = [pc |-> "group", items |-> a.items, groups |-> a.groups]
      <3>1. TaskOk(n)
        BY <2>2, <2>4 DEF TaskOk
      <3> QED BY <1>1, <1>7, <2>1, <3>1, TaskStep DEF CheckSku
    <2> QED BY <2>1, <2>3, <2>4
  <1> QED BY <1>3, <1>4, <1>5, <1>6, <1>7

(* A card or a variation is saved: its id is new, and every condition of the *)
(* invariant either is about older ones or speaks of this one.               *)
LEMMA SaveStep ==
  ASSUME CleanInv, NEW k \in Tasks, SavePost(k)
  PROVE  CleanInv'
  <1>1. PICK a : a = task[k]
    OBVIOUS
  <1>2. PICK c : c = Head(a.plan)
    OBVIOUS
  <1>3. PICK id : id = lastPost + 1
    OBVIOUS
  <1>4. PICK parent : parent = IF c.parent = 0 THEN 0 ELSE a.parent
    OBVIOUS
  <1>5. PICK new : new = [id |-> id, title |-> c.title, lang |-> c.lang, parent |-> parent,
                          sku |-> c.sku]
    OBVIOUS
  <1>6. PICK third \in BOOLEAN :
          third <=> c.parent = 0 /\ Cardinality({p \in Products : p.title = c.title}) >= 2
    OBVIOUS
  <1>7. /\ a.pc = "save" /\ Importing(a) /\ Planned(a.plan, a.parent)
        /\ a.items \subseteq Tcods
    BY <1>1 DEF CleanInv, TasksInv, TaskOk, SavePost
  <1>8. /\ lastPost' = id /\ posts' = posts \cup {new} /\ offered' = offered
        /\ thirds' = IF third THEN thirds \cup {id} ELSE thirds
        /\ spoiled' = IF third \/ parent \in thirds THEN spoiled \cup c.sku ELSE spoiled
        /\ task' = [task EXCEPT ![k].pc = "check", ![k].plan = Tail(a.plan),
                                ![k].parent = IF c.parent = 0 THEN id ELSE @]
    BY <1>1, <1>2, <1>3, <1>4, <1>5, <1>6 DEF SavePost
  <1>9. lastPost \in Nat /\ id \in Nat /\ id \notin 1 .. lastPost /\ id \in 1 .. id
        /\ 1 .. lastPost \subseteq 1 .. id
    BY <1>3 DEF CleanInv, PostsInv
  <1>10. /\ \A p \in posts : PostOk(p)
         /\ thirds \subseteq 1 .. lastPost
    BY DEF CleanInv, PostsInv
  <1>11. /\ new.id = id /\ new.title = c.title /\ new.parent = parent /\ new.sku = c.sku
         /\ \A p \in posts : p.id # id
    BY <1>5, <1>9, <1>10 DEF PostOk
  <1>12. \A x : IsParent(x) => IsParent(x)'
    BY <1>8, <1>9, <1>11 DEF IsParent
  <1>13. \A p : Duplicate(p) => Duplicate(p)'
    <2>1. spoiled \subseteq spoiled' /\ posts \subseteq posts'
      BY <1>8
    <2> QED BY <2>1 DEF Duplicate
  <1>14. PICK plan : plan = a.plan
    OBVIOUS
  <1>15. PICK S : plan \in Seq(S)
    BY <1>7, <1>14 DEF Planned
  <1>16. /\ plan # <<>> /\ Len(plan) \in Nat /\ Len(plan) >= 1
         /\ c = plan[1]
    BY <1>1, <1>2, <1>14, <1>15 DEF CleanInv, TasksInv, TaskOk, SavePost
  <1>17. /\ c.parent \in {0, 1} /\ Small(c.sku)
         /\ c.parent = 1 => parent = a.parent /\ IsParent(parent)
         /\ c.parent = 0 => parent = 0 /\ (Len(plan) > 1 => c.sku = {})
    BY <1>4, <1>7, <1>14, <1>16 DEF Planned
  <1>18. /\ parent \in Nat /\ parent # id
         /\ parent # 0 => IsParent(parent)
         /\ c.parent = 0 <=> parent = 0
    BY <1>9, <1>17 DEF IsParent
  <1>19. PostsInv'
    <2>1. IsFiniteSet(posts')
      BY <1>8, FS_AddElement DEF CleanInv, PostsInv
    <2>2. ASSUME NEW p \in posts
          PROVE  PostOk(p)'
      <3>1. PostOk(p) /\ p.id # id /\ p.parent # id
        BY <1>9, <1>10 DEF PostOk, IsParent
      <3>2. p.sku \subseteq spoiled => p.sku \subseteq spoiled'
        BY <1>8
      <3>3. (p.id \in thirds' \/ p.parent \in thirds') => p.sku \subseteq spoiled'
        BY <1>8, <3>1, <3>2 DEF PostOk
      <3>4. p.parent # 0 => IsParent(p.parent)'
        BY <1>12, <3>1 DEF PostOk
      <3>5. p.id \in 1 .. lastPost' /\ p.parent \in Nat /\ Small(p.sku)
        BY <1>8, <1>9, <3>1 DEF PostOk
      <3> QED BY <3>3, <3>4, <3>5 DEF PostOk
    <2>3. PostOk(new)'
      <3>1. (id \in thirds' \/ parent \in thirds') => c.sku \subseteq spoiled'
        BY <1>8, <1>9, <1>10, <1>18
      <3>2. parent # 0 => IsParent(parent)'
        BY <1>12, <1>18
      <3> QED BY <1>8, <1>9, <1>11, <1>17, <1>18, <3>1, <3>2 DEF PostOk
    <2>4. \A p, q \in posts' : p.id = q.id => p = q
      BY <1>8, <1>11 DEF CleanInv, PostsInv
    <2>5. thirds' \subseteq 1 .. lastPost'
      BY <1>8, <1>9, <1>10
    <2>6. ASSUME NEW p \in Products', Cardinality(Older(p)') >= 2
          PROVE  p.id \in thirds'
      <3>1. CASE p = new
        <4>1. Older(p)' = {q \in Products : q.title = c.title}
          <5>1. \A q \in Products : q.id \in 1 .. lastPost /\ q.id < id
            BY <1>3, <1>9, <1>10 DEF PostOk, Products
          <5>2. ~(new.id < id)
            BY <1>9, <1>11
          <5> QED BY <1>8, <1>11, <3>1, <5>1, <5>2 DEF Older, Products
        <4>2. c.parent = 0
          BY <1>11, <1>18, <3>1 DEF Products
        <4>3. third
          BY <1>6, <2>6, <4>1, <4>2
        <4> QED BY <1>8, <1>11, <3>1, <4>3
      <3>2. CASE p # new
        <4>1. p \in Products
          BY <1>8, <3>2 DEF Products
        <4>2. p.id \in 1 .. lastPost
          BY <1>10, <4>1 DEF Products, PostOk
        <4>3. ~(new.id < p.id)
          BY <1>3, <1>9, <1>11, <4>2
        <4>4. Older(p)' = Older(p)
          BY <1>8, <4>3 DEF Older, Products
        <4>5. p.id \in thirds
          BY <2>6, <4>1, <4>4 DEF CleanInv, PostsInv
        <4> QED BY <1>8, <4>5
      <3> QED BY <3>1, <3>2
    <2>7. \A p \in Products' : Cardinality(Older(p)') >= 2 => p.id \in thirds'
      BY <2>6
    <2>8. \A p \in posts' : PostOk(p)'
      BY <1>8, <2>2, <2>3
    <2>9. offered' \subseteq Tcods /\ lastPost' \in Nat
      BY <1>8, <1>9 DEF CleanInv, PostsInv
    <2> QED BY <2>1, <2>4, <2>5, <2>7, <2>8, <2>9 DEF PostsInv
  <1>20. PICK n : n = [a EXCEPT !.pc = "check", !.plan = Tail(plan),
                               !.parent = IF c.parent = 0 THEN id ELSE @]
    OBVIOUS
  <1>21. task' = [task EXCEPT ![k] = n]
    BY <1>1, <1>8, <1>14, <1>20
  <1>22. /\ n.pc = "check" /\ n.items = a.items /\ n.plan = Tail(plan) /\ Importing(n)
         /\ n.parent = IF c.parent = 0 THEN id ELSE a.parent
    BY <1>7, <1>20 DEF Importing
  <1>23. Planned(n.plan, n.parent)'
    <2>1. PICK t : t = Tail(plan)
      OBVIOUS
    <2>2. /\ t \in Seq(S) /\ Len(t) = Len(plan) - 1
          /\ \A i \in 1 .. Len(t) : t[i] = plan[i + 1] /\ i + 1 \in 2 .. Len(plan)
      BY <1>15, <1>16, <2>1
    <2>3. \E T : t \in Seq(T)
      BY <2>2
    <2>4. \A i \in 2 .. Len(plan) : plan[i].parent = 1 /\ Small(plan[i].sku)
      BY <1>7, <1>14, <1>15 DEF Planned
    <2>5. \A i \in 1 .. Len(t) : t[i].parent = 1 /\ Small(t[i].sku)
      BY <2>2, <2>4
    <2>6. IsParent(n.parent)' \/ t = <<>>
      <3>1. CASE c.parent = 1
        BY <1>12, <1>17, <1>22, <3>1
      <3>2. CASE c.parent = 0
        <4>1. CASE Len(plan) > 1
          <5>1. c.sku = {} /\ n.parent = id
            BY <1>17, <1>22, <3>2, <4>1
          <5>2. id # 0 /\ id \in 1 .. lastPost' /\ \A p \in posts' : p.id = id => p.sku = {}
            BY <1>3, <1>8, <1>9, <1>11, <5>1
          <5> QED BY <5>1, <5>2 DEF IsParent
        <4>2. CASE ~(Len(plan) > 1)
          BY <1>16, <2>2, <4>2
        <4> QED BY <4>1, <4>2
      <3> QED BY <1>17, <3>1, <3>2
    <2>7. t # <<>> => Len(t) >= 1 /\ 1 \in 1 .. Len(t)
      BY <2>2
    <2>8. t # <<>> => t[1].parent = 1
      BY <2>5, <2>7
    <2>9. \A i \in 2 .. Len(t) : i \in 1 .. Len(t)
      BY <1>16, <2>2
    <2>10. n.plan = t
      BY <1>22, <2>1
    <2> QED BY <2>3, <2>5, <2>6, <2>8, <2>9, <2>10 DEF Planned
  <1>24. TaskOk(n)'
    BY <1>7, <1>22, <1>23 DEF TaskOk
  <1>25. /\ TasksInv /\ lastPost' \in Nat /\ lastPost <= lastPost' /\ thirds \subseteq thirds'
    BY <1>3, <1>8, <1>9 DEF CleanInv
  <1>26. \A p \in posts' : p.id \in 1 .. lastPost =>
           p \in posts /\ (Duplicate(p) => Duplicate(p)')
    BY <1>8, <1>9, <1>11, <1>13
  <1>27. TasksInv'
    BY <1>9, <1>12, <1>21, <1>24, <1>25, <1>26, TaskGoesOn
  <1> QED BY <1>19, <1>27 DEF CleanInv

-----------------------------------------------------------------------------
(* Deleting.                                                                 *)

(* The cards gone leave every SKU with an older card that stays, or it is    *)
(* one of the exceptions.                                                    *)
SafelyGone(gone) ==
  \A p \in gone : \/ p.sku \subseteq spoiled'
                  \/ \E q \in posts' : q.id < p.id /\ p.sku \subseteq q.sku

LEMMA GoneStep ==
  ASSUME CleanInv, NEW gone, posts' = posts \ gone, gone \subseteq posts, SafelyGone(gone),
         spoiled \subseteq spoiled', UNCHANGED <<offered, lastPost, thirds>>
  PROVE  /\ PostsInv'
         /\ \A x : IsParent(x) => IsParent(x)'
         /\ \A p \in posts' : p \in posts /\ (Duplicate(p) => Duplicate(p)')
         /\ SkusOf(posts) \ SkusOf(posts') \subseteq spoiled'
  <1>1. \A x : IsParent(x) => IsParent(x)'
    BY DEF IsParent
  <1>2. ASSUME NEW p \in posts', Duplicate(p)
        PROVE  Duplicate(p)'
    <2>1. CASE p.sku \subseteq spoiled
      BY <1>2, <2>1 DEF Duplicate
    <2>2. CASE ~(p.sku \subseteq spoiled)
      <3>1. PICK q \in posts : q.id < p.id /\ p.sku \subseteq q.sku
        BY <1>2, <2>2 DEF Duplicate
      <3>2. CASE q \in gone
        <4>1. CASE q.sku \subseteq spoiled'
          BY <1>2, <3>1, <4>1 DEF Duplicate
        <4>2. CASE ~(q.sku \subseteq spoiled')
          <5>1. PICK r \in posts' : r.id < q.id /\ q.sku \subseteq r.sku
            BY <3>2, <4>2 DEF SafelyGone
          <5>2. r.id < p.id
            <6>1. r.id \in Nat /\ q.id \in Nat /\ p.id \in Nat
              BY DEF CleanInv, PostsInv, PostOk
            <6> QED BY <3>1, <5>1, <6>1
          <5> QED BY <1>2, <3>1, <5>1, <5>2 DEF Duplicate
        <4> QED BY <4>1, <4>2
      <3>3. CASE q \notin gone
        BY <1>2, <3>1, <3>3 DEF Duplicate
      <3> QED BY <3>2, <3>3
    <2> QED BY <2>1, <2>2
  <1>3. PostsInv'
    <2>1. IsFiniteSet(posts')
      BY FS_Subset DEF CleanInv, PostsInv
    <2>2. ASSUME NEW p \in Products', Cardinality(Older(p)') >= 2
          PROVE  p.id \in thirds'
      <3>1. p \in Products /\ Older(p)' \in SUBSET Older(p)
        BY DEF Products, Older
      <3>2. IsFiniteSet(Older(p))
        <4>1. Older(p) \in SUBSET posts
          BY DEF Older, Products
        <4> QED BY <4>1, FS_Subset DEF CleanInv, PostsInv
      <3>3. PICK old : old = Older(p)
        OBVIOUS
      <3>4. PICK less : less = Older(p)'
        OBVIOUS
      <3>5. /\ Cardinality(less) <= Cardinality(old) /\ IsFiniteSet(less) /\ IsFiniteSet(old)
        BY <3>1, <3>2, <3>3, <3>4, FS_Subset
      <3>6. Cardinality(less) \in Nat /\ Cardinality(old) \in Nat
        BY <3>5, FS_CardinalityType
      <3>7. Cardinality(old) >= 2
        BY <2>2, <3>4, <3>5, <3>6
      <3> QED BY <3>1, <3>3, <3>7 DEF CleanInv, PostsInv
    <2>3. \A p \in posts' : PostOk(p)'
      BY <1>1 DEF CleanInv, PostsInv, PostOk
    <2> QED BY <2>1, <2>2, <2>3 DEF CleanInv, PostsInv
  <1>4. SkusOf(posts) \ SkusOf(posts') \subseteq spoiled'
    <2> SUFFICES ASSUME NEW p \in posts, NEW s \in p.sku, s \notin SkusOf(posts')
                 PROVE  s \in spoiled'
      BY DEF SkusOf
    <2>1. p \in gone
      BY DEF SkusOf
    <2> QED BY <2>1 DEF SafelyGone, SkusOf
  <1> QED BY <1>1, <1>2, <1>3, <1>4

LEMMA DeleteStep ==
  ASSUME CleanInv, NEW k \in Tasks, NEW id \in 1 .. lastPost, DeletePost(k, id)
  PROVE  CleanInv' /\ SkusOf(posts) \ SkusOf(posts') \subseteq spoiled'
  <1>1. PICK a : a = task[k]
    OBVIOUS
  <1>2. /\ TaskOk(a) /\ a.pc \in {"skus", "titles"} /\ id \in a.doomed
        /\ Cleaning(a)
    BY <1>1 DEF CleanInv, TasksInv, TaskOk, DeletePost
  <1>3. PICK gone : gone = IF id \in Ids THEN Family(id) ELSE {}
    OBVIOUS
  <1>4. /\ posts' = posts \ gone /\ gone \subseteq posts /\ spoiled' = spoiled
        /\ UNCHANGED <<offered, lastPost, thirds>>
    BY <1>3 DEF DeletePost, Family
  <1>5. SafelyGone(gone)
    <2>1. CASE a.pc = "titles"
      <3>1. id \in thirds
        BY <1>2, <2>1 DEF TaskOk
      <3>2. \A p \in gone : p.sku \subseteq spoiled
        BY <1>3, <3>1 DEF CleanInv, PostsInv, PostOk, Family
      <3> QED BY <1>4, <3>2 DEF SafelyGone
    <2>2. CASE a.pc = "skus" /\ id \in Ids
      <3>1. PICK d \in posts : d.id = id
        BY <2>2 DEF Ids
      <3>2. Duplicate(d)
        BY <1>2, <2>2, <3>1 DEF TaskOk
      <3>3. \A p \in posts : p.parent # id
        <4>1. ~IsParent(id) /\ id # 0
          BY <3>1, <3>2 DEF IsParent, Duplicate, CleanInv, PostsInv
        <4> QED BY <4>1 DEF CleanInv, PostsInv, PostOk
      <3>4. gone = {d}
        BY <1>3, <2>2, <3>1, <3>3 DEF Family, CleanInv, PostsInv
      <3>5. CASE d.sku \subseteq spoiled
        BY <1>4, <3>4, <3>5 DEF SafelyGone
      <3>6. CASE ~(d.sku \subseteq spoiled)
        <4>1. PICK q \in posts : q.id < d.id /\ d.sku \subseteq q.sku
          BY <3>2, <3>6 DEF Duplicate
        <4>2. q # d
          BY <4>1 DEF CleanInv, PostsInv, PostOk
        <4> QED BY <1>4, <3>4, <4>1, <4>2 DEF SafelyGone
      <3> QED BY <3>5, <3>6
    <2>3. CASE id \notin Ids
      BY <1>3, <2>3 DEF SafelyGone
    <2> QED BY <1>2, <2>1, <2>2, <2>3
  <1>6. /\ PostsInv'
        /\ \A x : IsParent(x) => IsParent(x)'
        /\ \A p \in posts' : p \in posts /\ (Duplicate(p) => Duplicate(p)')
        /\ SkusOf(posts) \ SkusOf(posts') \subseteq spoiled'
    BY <1>4, <1>5, GoneStep
  <1>7. PICK n : n = [a EXCEPT !.doomed = @ \ {id}]
    OBVIOUS
  <1>8. task' = [task EXCEPT ![k] = n]
    BY <1>1, <1>7 DEF DeletePost
  <1>9. n.pc = a.pc /\ n.doomed \subseteq a.doomed /\ Cleaning(n)
    BY <1>2, <1>7 DEF Cleaning
  <1>10. /\ lastPost \in Nat /\ lastPost' \in Nat /\ lastPost <= lastPost'
         /\ thirds \subseteq thirds'
    BY <1>4 DEF CleanInv, PostsInv
  <1>11. TaskOk(a)'
    BY <1>2, <1>6, <1>10, TaskOkStable
  <1>12. TaskOk(n)'
    BY <1>2, <1>9, <1>11 DEF TaskOk
  <1>13. TasksInv'
    BY <1>6, <1>8, <1>10, <1>12, TaskGoesOn DEF CleanInv
  <1> QED BY <1>6, <1>13 DEF CleanInv

LEMMA DeleteByHandStep ==
  ASSUME CleanInv, NEW id \in Ids, DeleteByHand(id)
  PROVE  CleanInv' /\ SkusOf(posts) \ SkusOf(posts') \subseteq spoiled'
  <1>1. PICK gone : gone = Family(id)
    OBVIOUS
  <1>2. /\ posts' = posts \ gone /\ gone \subseteq posts /\ spoiled \subseteq spoiled'
        /\ UNCHANGED <<offered, lastPost, thirds, task>>
    BY <1>1 DEF DeleteByHand, Family
  <1>3. SafelyGone(gone)
    BY <1>1 DEF DeleteByHand, SkusOf, SafelyGone
  <1>4. /\ PostsInv'
        /\ \A x : IsParent(x) => IsParent(x)'
        /\ \A p \in posts' : p \in posts /\ (Duplicate(p) => Duplicate(p)')
        /\ SkusOf(posts) \ SkusOf(posts') \subseteq spoiled'
    BY <1>2, <1>3, GoneStep
  <1>5. /\ lastPost \in Nat /\ lastPost' \in Nat /\ lastPost <= lastPost'
        /\ thirds \subseteq thirds'
    BY <1>2 DEF CleanInv, PostsInv
  <1>6. ASSUME NEW k \in Tasks
        PROVE  TaskOk(task[k])'
    <2>1. PICK a : a = task[k]
      OBVIOUS
    <2>2. TaskOk(a)'
      BY <1>4, <1>5, <2>1, TaskOkStable DEF CleanInv, TasksInv
    <2> QED BY <1>2, <2>1, <2>2
  <1>7. task' \in [Tasks -> {task'[k] : k \in Tasks}]
    BY <1>2 DEF CleanInv, TasksInv
  <1>8. TasksInv'
    BY <1>6, <1>7 DEF TasksInv
  <1> QED BY <1>4, <1>8 DEF CleanInv

(* The two queries of cleanup_duplicates.                                    *)
LEMMA QuerySteps ==
  ASSUME CleanInv, NEW k \in Tasks, BeginCleanup(k) \/ QueryTitles(k)
  PROVE  CleanInv'
  <1>1. CASE BeginCleanup(k)
    <2>1. PICK n : n = [pc |-> "skus", doomed |-> {p.id : p \in SameSku}]
      OBVIOUS
    <2>2. \A p \in SameSku : p \in posts /\ Duplicate(p)
      BY DEF SameSku, Duplicate, CleanInv, PostsInv, PostOk, Small
    <2>3. n.doomed \subseteq 1 .. lastPost
      BY <2>1, <2>2 DEF CleanInv, PostsInv, PostOk
    <2>4. \A p \in posts : p.id \in n.doomed => Duplicate(p)
      BY <2>1, <2>2 DEF CleanInv, PostsInv
    <2>5. TaskOk(n)
      BY <2>1, <2>3, <2>4 DEF TaskOk, Cleaning
    <2> QED BY <1>1, <2>1, <2>5, TaskStep DEF BeginCleanup
  <1>2. CASE QueryTitles(k)
    <2>1. PICK n : n = [pc |-> "titles", doomed |-> {p.id : p \in SameTitle}]
      OBVIOUS
    <2>2. n.doomed \subseteq thirds
      BY <2>1 DEF SameTitle, CleanInv, PostsInv
    <2>3. TaskOk(n)
      BY <2>1, <2>2 DEF TaskOk, Cleaning
    <2> QED BY <1>2, <2>1, <2>3, TaskStep DEF QueryTitles
  <1> QED BY <1>1, <1>2

LEMMA OfferStep ==
  ASSUME CleanInv, offered' \subseteq Tcods, UNCHANGED <<posts, lastPost, task, thirds, spoiled>>
  PROVE  CleanInv'
  <1>1. PostsInv'
    BY DEF CleanInv, PostsInv, PostOk, IsParent, Products, Older
  <1>2. TasksInv'
    BY DEF CleanInv, TasksInv, TaskOk, Planned, IsParent, Duplicate
  <1> QED BY <1>1, <1>2 DEF CleanInv

LEMMA CatalogNextInv ==
  ASSUME CleanInv, [CatalogNext]_catalogVars
  PROVE  CleanInv' /\ SkusOf(posts) \ SkusOf(posts') \subseteq spoiled'
  <1>1. ASSUME UNCHANGED posts, CleanInv'
        PROVE  CleanInv' /\ SkusOf(posts) \ SkusOf(posts') \subseteq spoiled'
    BY <1>1 DEF SkusOf
  <1>2. CASE UNCHANGED catalogVars
    <2>1. offered' \subseteq Tcods /\ UNCHANGED <<posts, lastPost, task, thirds, spoiled>>
      BY <1>2 DEF catalogVars, CleanInv, PostsInv
    <2> QED BY <1>1, <2>1, OfferStep
  <1>3. ASSUME NEW t \in Tcods, OfferMore(t)
        PROVE  CleanInv' /\ SkusOf(posts) \ SkusOf(posts') \subseteq spoiled'
    <2>1. offered' \subseteq Tcods /\ UNCHANGED <<posts, lastPost, task, thirds, spoiled>>
      BY <1>3 DEF OfferMore, CleanInv, PostsInv
    <2> QED BY <1>1, <2>1, OfferStep
  <1>4. ASSUME NEW k \in Tasks,
               \/ BeginMigration(k) \/ GroupsDone(k) \/ LanguageDone(k) \/ CheckSku(k)
               \/ TaskDies(k) \/ CleanupEnds(k)
               \/ \E g \in DOMAIN BaseOf : NextGroupOf(k, g)
        PROVE  CleanInv' /\ SkusOf(posts) \ SkusOf(posts') \subseteq spoiled'
    <2>1. UNCHANGED posts
      BY <1>4 DEF BeginMigration, GroupsDone, LanguageDone, CheckSku, TaskDies, CleanupEnds,
                  NextGroupOf
    <2> QED BY <1>1, <1>4, <2>1, ImportSteps
  <1>5. ASSUME NEW k \in Tasks, Find(k)
        PROVE  CleanInv' /\ SkusOf(posts) \ SkusOf(posts') \subseteq spoiled'
    BY <1>1, <1>5, FindStep DEF Find
  <1>6. ASSUME NEW k \in Tasks, BeginCleanup(k) \/ QueryTitles(k)
        PROVE  CleanInv' /\ SkusOf(posts) \ SkusOf(posts') \subseteq spoiled'
    <2>1. UNCHANGED posts
      BY <1>6 DEF BeginCleanup, QueryTitles
    <2> QED BY <1>1, <1>6, <2>1, QuerySteps
  <1>7. ASSUME NEW k \in Tasks, SavePost(k)
        PROVE  CleanInv' /\ SkusOf(posts) \ SkusOf(posts') \subseteq spoiled'
    <2>1. posts \subseteq posts'
      BY <1>7 DEF SavePost
    <2>2. SkusOf(posts) \subseteq SkusOf(posts')
      BY <2>1 DEF SkusOf
    <2> QED BY <1>7, <2>2, SaveStep
  <1> QED BY <1>2, <1>3, <1>4, <1>5, <1>6, <1>7, DeleteStep, DeleteByHandStep DEF CatalogNext

(* The clean-up leaves every SKU in the shop on some card, whichever imports *)
(* and other clean-ups are at work between its queries and its deletions:    *)
(* the oldest card of an SKU is on no list (cleanup_duplicates,              *)
(* wp_delete_post).                                                          *)
THEOREM SkusAreKept == CatalogSpec => CleanupKeepsSkus
  <1>1. CleanInv /\ [CatalogNext]_catalogVars
          => [SkusOf(posts) \ SkusOf(posts') \subseteq spoiled']_catalogVars
    BY CatalogNextInv
  <1>2. CleanInv /\ [CatalogNext]_catalogVars => CleanInv'
    BY CatalogNextInv
  <1> QED BY <1>1, <1>2, CatalogInitInv, PTL DEF CatalogSpec, CleanupKeepsSkus
=============================================================================
