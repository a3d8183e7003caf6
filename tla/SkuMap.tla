------------------------------- MODULE SkuMap -------------------------------
(***************************************************************************)
(* How Limansoft's products find their cards in a WooCommerce shop:        *)
(* getSkuToIdMap reads which card has which SKU, the map is kept for ten   *)
(* minutes, and batchUpsertProducts splits every batch by it into cards to *)
(* create and cards to update.  The shop answers a batch as a whole and    *)
(* reports the refusal of single cards inside the answer, which nobody     *)
(* reads.  The map is one object that all passes of that time share.       *)
(* CatalogPass models the loop over the pages of Limansoft's catalogue.    *)
(***************************************************************************)
EXTENDS Integers, FiniteSets

CONSTANTS
  Passes,   \* passes that may run at once: requests, jobs, schedulers
  Skus,     \* the catalogue: SKU = tcod
  PageOf,   \* the page of the shop's listing a card is on
  LastPage, \* how many pages the listing has
  MaxPasses,\* bound: passes that begin
  MaxMaps,  \* bound: maps that are read
  MaxEdits  \* bound: cards created and deleted by others, and lost answers

ASSUME SkuMapAssumption ==
  /\ LastPage \in Nat \ {0} /\ PageOf \in [Skus -> 1 .. LastPage]
  /\ {MaxPasses, MaxMaps, MaxEdits} \subseteq Nat

VARIABLES
  card,     \* the shop: the id of the card that has a SKU, or 0
  nextCard, \* ids the shop has given
  maps,     \* the map objects: SKU to id, 0 when it is not in the map
  cachedMap,\* skuMapCache: the number of a map, or 0
  upsert,   \* locals of each pass
  begun,    \* passes so far
  edits,    \* edits so far
  vain,     \* read by properties: [sku, map] counted as synced and not written
  excused   \* read by properties: of each map, SKUs whose card it cannot know

skuVars == <<card, nextCard, maps, cachedMap, upsert, begun, edits, vain, excused>>

MapNumbers == 1 .. MaxMaps
Blank == [s \in Skus |-> 0]
NoUpsert == [pc |-> "idle", map |-> 0, page |-> 1, todo |-> {}, batch |-> {},
             create |-> {}, made |-> {}]

SkuInit ==
  /\ card \in {[s \in Skus |-> IF s \in known THEN 1 ELSE 0] : known \in {{}} \cup {{s} : s \in Skus}}
  /\ nextCard = 1
  /\ maps = [m \in MapNumbers |-> Blank] /\ cachedMap = 0
  /\ upsert = [p \in Passes |-> NoUpsert]
  /\ begun = 0 /\ edits = 0 /\ vain = {}
  /\ excused = [m \in MapNumbers |-> {}]

(* Map numbers are given in order; 0 is left when all are.                  *)
Used == {m \in MapNumbers : maps[m] # Blank \/ excused[m] # {} \/ cachedMap = m
                            \/ \E p \in Passes : upsert[p].map = m}
Changed(s) == [m \in MapNumbers |-> IF m \in Used THEN excused[m] \cup {s} ELSE excused[m]]

-----------------------------------------------------------------------------
(* syncFullCatalog and syncStockAndPrices begin with the map.               *)
BeginUpsert(p) ==
  /\ upsert[p].pc = "idle" /\ begun < MaxPasses
  /\ begun' = begun + 1
  /\ \/ /\ cachedMap # 0
        /\ upsert' = [upsert EXCEPT ![p] = [NoUpsert EXCEPT
                        !.pc = "split", !.map = cachedMap, !.todo = Skus]]
     \/ \E m \in MapNumbers \ Used :
          /\ cachedMap = 0
          /\ \A k \in MapNumbers \ Used : m <= k
          /\ upsert' = [upsert EXCEPT ![p] = [NoUpsert EXCEPT
                          !.pc = "load", !.map = m, !.todo = Skus]]
  /\ UNCHANGED <<card, nextCard, maps, cachedMap, edits, vain, excused>>

(* getSkuToIdMap: the cards of one page of the listing ...                  *)
LoadMapPage(p) ==
  LET u == upsert[p] IN
  /\ u.pc = "load"
  /\ maps' = [maps EXCEPT ![u.map] =
       [s \in Skus |-> IF PageOf[s] = u.page /\ card[s] # 0 THEN card[s] ELSE @[s]]]
  /\ IF u.page = LastPage
     THEN upsert' = [upsert EXCEPT ![p].pc = "split"] /\ cachedMap' = u.map
     ELSE upsert' = [upsert EXCEPT ![p].page = @ + 1] /\ UNCHANGED cachedMap
  /\ UNCHANGED <<card, nextCard, begun, edits, vain, excused>>

(* ... and when one fails, what has been read is the map.                   *)
LoadMapFails(p) ==
  LET u == upsert[p] IN
  /\ u.pc = "load" /\ edits < MaxEdits
  /\ edits' = edits + 1
  /\ upsert' = [upsert EXCEPT ![p].pc = "split"] /\ cachedMap' = u.map
  /\ excused' = [excused EXCEPT ![u.map] = @ \cup {s \in Skus : PageOf[s] >= u.page}]
  /\ UNCHANGED <<card, nextCard, maps, begun, vain>>

MapExpires ==
  /\ cachedMap # 0 /\ cachedMap' = 0
  /\ UNCHANGED <<card, nextCard, maps, upsert, begun, edits, vain, excused>>

-----------------------------------------------------------------------------
(* batchUpsertProducts: a batch is split by the map as it is now.           *)
SplitBatch(p, batch) ==
  LET u == upsert[p]
      others == {q \in Passes \ {p} : upsert[q].pc \in {"sent", "answer"}}
      crossing == {s \in batch : \E q \in others : s \in upsert[q].create}
  IN /\ u.pc = "split" /\ batch # {} /\ batch \subseteq u.todo
     /\ upsert' = [upsert EXCEPT ![p].pc = "sent", ![p].batch = batch,
                                 ![p].todo = u.todo \ batch,
                                 ![p].create = {s \in batch : maps[u.map][s] = 0}]
     /\ excused' = [m \in MapNumbers |->
          IF m = u.map \/ \E q \in others : upsert[q].map = m
          THEN excused[m] \cup crossing ELSE excused[m]]
     /\ UNCHANGED <<card, nextCard, maps, cachedMap, begun, edits, vain>>

(* The shop: a SKU that some card has is refused to another one, and a card *)
(* that is gone cannot be updated.                                          *)
Makes(u) == {s \in u.create : card[s] = 0}
Writes(u) == {s \in u.batch \ u.create : card[s] = maps[u.map][s]}

ShopAnswers(p) ==
  LET u == upsert[p] IN
  /\ u.pc = "sent"
  /\ card' = [s \in Skus |-> IF s \in Makes(u) THEN nextCard + 1 ELSE card[s]]
  /\ nextCard' = nextCard + (IF Makes(u) = {} THEN 0 ELSE 1)
  /\ upsert' = [upsert EXCEPT ![p].pc = "answer", ![p].made = Makes(u)]
  /\ vain' = vain \cup {[sku |-> s, map |-> u.map] : s \in u.batch \ (Makes(u) \cup Writes(u))}
  /\ excused' = [m \in MapNumbers |->
       IF m \in Used \ {u.map} THEN excused[m] \cup Makes(u) ELSE excused[m]]
  /\ UNCHANGED <<maps, cachedMap, begun, edits>>

NotRegistered(u) == maps[u.map] \* mutant: created cards are not put into the map

(* The cards that were created, whose answers carry a SKU and an id.        *)
Registered(u) == [s \in Skus |-> IF s \in u.made THEN card[s] ELSE maps[u.map][s]]

AfterBatch(u) == [u EXCEPT !.pc = IF u.todo = {} THEN "idle" ELSE "split",
                           !.map = IF u.todo = {} THEN 0 ELSE @,
                           !.batch = {}, !.create = {}, !.made = {}, !.page = 1]

TakeAnswer(p) ==
  LET u == upsert[p] IN
  /\ u.pc = "answer"
  /\ maps' = [maps EXCEPT ![u.map] = Registered(u)]
  /\ upsert' = [upsert EXCEPT ![p] = AfterBatch(u)]
  /\ UNCHANGED <<card, nextCard, cachedMap, begun, edits, vain, excused>>

(* The request fails before or after the shop has carried it out; the batch *)
(* is counted as errors, and the loop goes on.                              *)
BatchFails(p) ==
  LET u == upsert[p] IN
  /\ u.pc \in {"sent", "answer"} /\ edits < MaxEdits
  /\ edits' = edits + 1
  /\ upsert' = [upsert EXCEPT ![p] = AfterBatch(u)]
  /\ excused' = [excused EXCEPT ![u.map] = @ \cup u.made]
  /\ UNCHANGED <<card, nextCard, maps, cachedMap, begun, vain>>

-----------------------------------------------------------------------------
(* A manager, or the plugin's own import, works in the shop.                *)

AddCard(s) ==
  /\ card[s] = 0 /\ edits < MaxEdits
  /\ edits' = edits + 1 /\ nextCard' = nextCard + 1
  /\ card' = [card EXCEPT ![s] = nextCard + 1]
  /\ excused' = Changed(s)
  /\ UNCHANGED <<maps, cachedMap, upsert, begun, vain>>

DeleteCard(s) ==
  /\ card[s] # 0 /\ edits < MaxEdits
  /\ edits' = edits + 1
  /\ card' = [card EXCEPT ![s] = 0]
  /\ excused' = Changed(s)
  /\ UNCHANGED <<nextCard, maps, cachedMap, upsert, begun, vain>>

SkuNext ==
  \/ MapExpires
  \/ \E p \in Passes :
       \/ BeginUpsert(p) \/ LoadMapPage(p) \/ LoadMapFails(p) \/ ShopAnswers(p)
       \/ TakeAnswer(p) \/ BatchFails(p)
       \/ \E batch \in SUBSET Skus : SplitBatch(p, batch)
  \/ \E s \in Skus : AddCard(s) \/ DeleteCard(s)

SkuSpec == SkuInit /\ [][SkuNext]_skuVars

-----------------------------------------------------------------------------
(* A product that a pass counts as synced was written to the shop, although *)
(* nobody reads the refusals inside the answer: the map in use knew its     *)
(* card.  Excepted are the products whose card the map cannot know: its     *)
(* page was not read, others created or deleted the card, through another   *)
(* map or in a request whose answer was lost, or two passes created it at   *)
(* once.                                                                    *)
SyncedIsWritten == \A v \in vain : v.sku \in excused[v.map]
=============================================================================
