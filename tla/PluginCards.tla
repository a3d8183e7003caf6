----------------------------- MODULE PluginCards -----------------------------
(***************************************************************************)
(* How the plugin tells the server of a product that was changed in the    *)
(* shop.  Each save of a card runs a hook, in the PHP request that saved   *)
(* it; the hook takes a lock of 15 seconds on the card and waits up to 30  *)
(* seconds for the server, which reads the card and writes it to           *)
(* Limansoft (module ProductUpsert has the details).  The lock is a        *)
(* WordPress transient: it is never given back, it only expires.           *)
(* Not modelled: imports of the plugin itself, which suspend the hook.     *)
(***************************************************************************)
EXTENDS Naturals

CONSTANTS
  Cards,
  CardScripts, \* PHP requests at work at once
  MaxSaves     \* bound: saves of a card, changes of a setting, failures

ASSUME PluginCardsAssumption == MaxSaves \in Nat

Unused == [pc |-> "none"]

VARIABLES
  version,  \* the shop: how often the card was saved
  hasSku,   \* cards with the SKU of a product of Limansoft
  lock,     \* cards with the transient liman_sync_lock_<id>
  autoUpdate, \* the plugin's option
  imported, \* Limansoft: the version last written
  hook,     \* the PHP requests, and what the server does for them
  missed,   \* read by properties: cards whose last version need not arrive
  saves     \* steps counted by MaxSaves so far

cardVars == <<version, hasSku, lock, autoUpdate, imported, hook, missed, saves>>

CardsInit ==
  /\ version = [c \in Cards |-> 0] /\ imported = version
  /\ hasSku \in SUBSET Cards /\ lock = {} /\ autoUpdate \in BOOLEAN
  /\ hook = [h \in CardScripts |-> Unused]
  /\ missed = {} /\ saves = 0

OneMore == saves < MaxSaves /\ saves' = saves + 1

Saved(h, c) == [pc |-> "saved", card |-> c, auto |-> autoUpdate, read |-> 0]

(* A manager, a sale, or a request of the server's own passes.              *)
SaveCard(h, c) ==
  /\ OneMore /\ hook[h] = Unused
  /\ version' = [version EXCEPT ![c] = @ + 1]
  /\ hook' = [hook EXCEPT ![h] = Saved(h, c)]
  /\ UNCHANGED <<hasSku, lock, autoUpdate, imported, missed>>

SwitchAutoUpdate ==
  /\ OneMore /\ autoUpdate' = ~autoUpdate
  /\ UNCHANGED <<version, hasSku, lock, imported, hook, missed>>

LockedAny(c) == lock # {} \* mutant: one lock for all cards

(* get_transient.                                                           *)
Locked(c) == c \in lock

(* Others that will read the card after this moment.                        *)
StillToRead(h) ==
  \E g \in CardScripts \ {h} : hook[g] # Unused /\ hook[g].card = hook[h].card
                               /\ hook[g].pc \in {"locking", "calling"}

(* notify_product_change: the option and the lock are tested ...            *)
TestLock(h) ==
  LET k == hook[h] IN
  /\ k.pc = "saved"
  /\ IF k.auto /\ ~Locked(k.card)
     THEN hook' = [hook EXCEPT ![h].pc = "locking"] /\ UNCHANGED missed
     ELSE /\ hook' = [hook EXCEPT ![h] = Unused]
          /\ missed' = IF ~k.auto \/ (k.card \in lock /\ ~StillToRead(h))
                       THEN missed \cup {k.card} ELSE missed
  /\ UNCHANGED <<version, hasSku, lock, autoUpdate, imported, saves>>

(* ... and the lock is set.  Another import of the card may be on its way:  *)
(* its lock has expired, or both scripts found the lock free.               *)
SetLock(h) ==
  LET c == hook[h].card IN
  /\ hook[h].pc = "locking"
  /\ lock' = lock \cup {c}
  /\ hook' = [hook EXCEPT ![h].pc = "calling"]
  /\ missed' = IF \E g \in CardScripts : hook[g] # Unused /\ hook[g].card = c
                                         /\ hook[g].pc \in {"calling", "read"}
               THEN missed \cup {c} ELSE missed
  /\ UNCHANGED <<version, hasSku, autoUpdate, imported, saves>>

LockExpires(c) ==
  /\ c \in lock /\ lock' = lock \ {c}
  /\ UNCHANGED <<version, hasSku, autoUpdate, imported, hook, missed, saves>>

(* importProductById reads the card ...                                     *)
ServerReads(h) ==
  /\ hook[h].pc = "calling"
  /\ hook' = [hook EXCEPT ![h].pc = "read", ![h].read = version[hook[h].card]]
  /\ UNCHANGED <<version, hasSku, lock, autoUpdate, imported, missed, saves>>

(* ... writes the product ...                                               *)
ServerImports(h) ==
  LET k == hook[h] IN
  /\ k.pc = "read"
  /\ imported' = [imported EXCEPT ![k.card] = k.read]
  /\ hook' = [hook EXCEPT ![h] = IF k.card \in hasSku THEN Unused ELSE [k EXCEPT !.pc = "sku"]]
  /\ UNCHANGED <<version, hasSku, lock, autoUpdate, missed, saves>>

(* ... and sends the SKU back, which another PHP request saves.             *)
ServerWritesSku(h, g) ==
  LET c == hook[h].card IN
  /\ hook[h].pc = "sku" /\ hook[g] = Unused
  /\ hasSku' = hasSku \cup {c}
  /\ version' = [version EXCEPT ![c] = @ + 1]
  /\ hook' = [hook EXCEPT ![h] = Unused, ![g] = Saved(g, c)]
  /\ UNCHANGED <<lock, autoUpdate, imported, missed, saves>>

(* The script dies, the call does not arrive, the import fails.             *)
HookFails(h) ==
  /\ OneMore /\ hook[h] # Unused
  /\ hook' = [hook EXCEPT ![h] = Unused]
  /\ missed' = IF hook[h].pc = "sku" THEN missed ELSE missed \cup {hook[h].card}
  /\ UNCHANGED <<version, hasSku, lock, autoUpdate, imported>>

CardsNext ==
  \/ SwitchAutoUpdate
  \/ \E c \in Cards : LockExpires(c) \/ \E h \in CardScripts : SaveCard(h, c)
  \/ \E h \in CardScripts :
       \/ TestLock(h) \/ SetLock(h) \/ ServerReads(h) \/ ServerImports(h) \/ HookFails(h)
       \/ \E g \in CardScripts : ServerWritesSku(h, g)

CardsSpec == CardsInit /\ [][CardsNext]_cardVars

-----------------------------------------------------------------------------
(* When no hook runs for a card, Limansoft has its last version: the lock   *)
(* drops only changes that an import already begun will read, and the echo  *)
(* of the SKU that the server writes back ends.  Excepted are changes made  *)
(* between that import's reading and the end of the lock, two imports of a  *)
(* card at once, a failure (nothing repeats it) and the switched-off option. *)
CardChangesArrive ==
  \A c \in Cards :
    \/ c \in missed \/ version[c] = imported[c]
    \/ \E h \in CardScripts : hook[h] # Unused /\ hook[h].card = c
=============================================================================
