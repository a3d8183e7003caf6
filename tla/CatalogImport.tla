--------------------------- MODULE CatalogImport ---------------------------
(***************************************************************************)
(* The imports of a shop's catalogue into Limansoft: the queue workers     *)
(* HoroshopImportProcessor and PromImportProcessor, which hold the lock of *)
(* the tenant, and WoocommerceImportService, run by a worker or by the     *)
(* product webhook, which takes no lock.  Every product goes through       *)
(* upsertProductFromExternal (ProductUpsert); the rollback point an import *)
(* takes may later be restored.                                            *)
(***************************************************************************)
EXTENDS ProductUpsert, ProductMappings, Ranks, FiniteSetsExt

CONSTANTS
  InitialGoods, \* of each shop, its cards in the order it lists them
  PageSize,     \* cards per page (50)
  Eans,         \* numbers of 8 to 14 digits, which look like barcodes
  Limits,       \* values of job.data.limit; 0 is no limit (WooCommerce: 1000)
  Deletable,    \* bound: the products Limansoft may delete
  MaxRuns       \* bound: how many imports and exports start

Shops == {"horoshop", "prom", "woocommerce"}

(* A card of a shop.  external is Prom's external_id; sku is Horoshop's     *)
(* article; barcode is not used for Prom, whose sku stands for it.          *)
(* The cards have numbers of their own, and Prom lists them by number.      *)
ASSUME ImportAssumption ==
  /\ DOMAIN InitialGoods = Shops
  /\ \A shop \in Shops : InitialGoods[shop] \in Seq(ToSet(InitialGoods[shop]))
  /\ \A shop \in Shops : \A i \in DOMAIN InitialGoods[shop] :
       DOMAIN InitialGoods[shop][i] = {"id", "external", "sku", "barcode", "path"}
  /\ \A shop \in Shops : \A i, j \in DOMAIN InitialGoods[shop] :
       i # j => InitialGoods[shop][i].id # InitialGoods[shop][j].id
  /\ \A i, j \in DOMAIN InitialGoods["prom"] :
       i < j => InitialGoods["prom"][i].id < InitialGoods["prom"][j].id
  /\ PageSize \in Nat \ {0} /\ MaxRuns \in Nat
  /\ Limits \subseteq Nat /\ Eans \subseteq Nat

VARIABLES
  goods,     \* the cards each shop lists
  imp,       \* locals of the import each runner executes
  lock,      \* who holds the tenant lock
  saved,     \* the last rollback point: <<>>, or the tables as it holds them
  runs,      \* imports and exports that may still start
  writes,    \* read by properties: [shop, article, tcod] of committed upserts
  lostGroups,\* read by properties: groups remembered across a restore that lost them
  lostCodes  \* read by properties: product codes a restore took away

importVars == <<upsertVars, mappings, goods, imp, lock, saved, runs, writes,
                lostGroups, lostCodes>>

(* The last five are read by the properties only: the cards taken, whether  *)
(* one was taken twice, the cards listed at the start, those removed from   *)
(* the list since, and who carried which barcode when it was known.         *)
NoImport == [pc |-> "idle", shop |-> None, onlyNew |-> FALSE, limit |-> 0, known |-> {},
             page |-> 1, cursor |-> 0, fetched |-> 0, short |-> FALSE, queue |-> <<>>,
             card |-> None, seen |-> {}, again |-> FALSE, start |-> {}, gone |-> {}, old |-> {}]

ImportInit ==
  /\ UpsertInit
  /\ mappings = {}
  /\ goods = InitialGoods
  /\ imp = [r \in Runners |-> NoImport]
  /\ lock = None /\ saved = <<>>
  /\ runs = MaxRuns
  /\ writes = {} /\ lostGroups = {} /\ lostCodes = {}

CardIds(shop) == {goods[shop][i].id : i \in DOMAIN goods[shop]}

-----------------------------------------------------------------------------
(* The start of a run.                                                     *)

Starts(r, pc, shop, onlyNew, limit) ==
  /\ imp[r].pc = "idle" /\ runs > 0
  /\ runs' = runs - 1
  /\ imp' = [imp EXCEPT ![r] =
       [NoImport EXCEPT !.pc = pc, !.shop = shop, !.onlyNew = onlyNew, !.limit = limit,
                        !.start = CardIds(shop)]]
  /\ UNCHANGED <<upsertVars, mappings, goods, lock, saved, writes, lostGroups, lostCodes>>

(* process() of the three workers: Horoshop's and Prom's begin with the     *)
(* rollback point, WooCommerce's with the first page.                       *)
StartHoroshopImport(r, onlyNew, limit) == Starts(r, "backup", "horoshop", onlyNew, limit)
StartPromImport(r, onlyNew, limit) == Starts(r, "backup", "prom", onlyNew, limit)
StartWooImport(r, limit) == Starts(r, "page", "woocommerce", FALSE, limit)

(* createBackup takes the lock and gives it back; when it is taken the      *)
(* import goes on without a rollback point.  (A job that asks for none is   *)
(* one whose rollback point nobody restores.)                               *)
TakeRollbackPoint(r) ==
  /\ imp[r].pc = "backup"
  /\ saved' = IF lock = None THEN <<[name2 |-> name2, strihcod |-> strihcod, name |-> name]>>
              ELSE saved
  /\ imp' = [imp EXCEPT ![r].pc = "lock"]
  /\ UNCHANGED <<upsertVars, mappings, goods, lock, runs, writes, lostGroups, lostCodes>>

(* acquireLock; without it the job fails.                                   *)
AcquireLock(r) ==
  /\ imp[r].pc = "lock"
  /\ \/ lock = None /\ lock' = r /\ imp' = [imp EXCEPT ![r].pc = "known"]
     \/ lock # None /\ UNCHANGED lock /\ imp' = [imp EXCEPT ![r] = NoImport]
  /\ UNCHANGED <<upsertVars, mappings, goods, saved, runs, writes, lostGroups, lostCodes>>

KnownNnom(r) ==  \* mutant: additional barcodes are left out
  {row.nnom : row \in Live} \ {0}

(* The set Prom's import decides by, read once.                             *)
KnownSkus(r) == AllExistingSkus

ReadKnown(r) ==
  /\ imp[r].pc = "known"
  /\ imp' = [imp EXCEPT ![r].pc = "page",
               ![r].known = IF imp[r].shop = "prom" /\ imp[r].onlyNew
                            THEN KnownSkus(r) ELSE {},
               ![r].old = CarriedNow]
  /\ UNCHANGED <<upsertVars, mappings, goods, lock, saved, runs, writes, lostGroups, lostCodes>>

-----------------------------------------------------------------------------
(* Pages.                                                                  *)

LimitReached(i) == i.limit # 0 /\ i.fetched >= i.limit
LeftOfLimit(i) == IF i.limit = 0 THEN PageSize ELSE Min({PageSize, i.limit - i.fetched})

(* A page by its number is cut from what the shop lists now.                *)
PageByNumber(i, size) ==
  SubSeq(goods[i.shop], (i.page - 1) * size + 1, Min({Len(goods[i.shop]), i.page * size}))

(* exportCatalog: whole pages by number.                                    *)
HoroshopPage(i) == PageByNumber(i, PageSize)

PromPageNumbered(i) == PageByNumber(i, LeftOfLimit(i))  \* mutant: no cursor

(* Prom's getProducts: what follows the last product read (last_id).        *)
PromPage(i) ==
  LET after == {k \in DOMAIN goods["prom"] : goods["prom"][k].id > i.cursor}
  IN Picked(goods["prom"], {k \in after : Rank(after, k) <= LeftOfLimit(i)})

(* importAllProducts: pages by number, each no longer than what is left.    *)
WooPage(i) == PageByNumber(i, LeftOfLimit(i))

ReadsPage(r, page, size) ==
  /\ imp[r].pc = "page"
  /\ imp' = [imp EXCEPT ![r] =
       IF size <= 0 \/ page = <<>> THEN [imp[r] EXCEPT !.pc = "end"]
       ELSE [imp[r] EXCEPT !.pc = "card", !.queue = page, !.short = Len(page) < size]]
  /\ UNCHANGED <<upsertVars, mappings, goods, lock, saved, runs, writes, lostGroups, lostCodes>>

(* The head of each worker's loop; an empty page ends it.                   *)
FetchHoroshop(r) ==
  imp[r].shop = "horoshop" /\ ReadsPage(r, HoroshopPage(imp[r]), PageSize)
FetchProm(r) ==
  imp[r].shop = "prom" /\ ReadsPage(r, PromPage(imp[r]), LeftOfLimit(imp[r]))
FetchWoo(r) ==
  imp[r].shop = "woocommerce" /\ ReadsPage(r, WooPage(imp[r]), LeftOfLimit(imp[r]))

(* The shop's API fails: Horoshop's and Prom's jobs fail, WooCommerce's     *)
(* import stops and reports what it has.                                    *)
FetchFails(r) ==
  /\ imp[r].pc = "page"
  /\ Event("shop")
  /\ imp' = [imp EXCEPT ![r] = NoImport]
  /\ lock' = IF lock = r THEN None ELSE lock
  /\ UNCHANGED <<tables, categoryCache, maxLock, up, contested, racedGroups, mappings, goods,
                 saved, runs, writes, lostGroups, lostCodes>>

(* After the last card of a page: the limit, a short page, or the next one. *)
NextPage(r) ==
  LET i == imp[r]
  IN /\ i.pc = "card" /\ i.queue = <<>>
     /\ IF LimitReached(i) \/ i.short THEN imp' = [imp EXCEPT ![r].pc = "end"]
        ELSE imp' = [imp EXCEPT ![r].pc = "page", ![r].page = @ + 1, ![r].queue = <<>>]
     /\ UNCHANGED <<upsertVars, mappings, goods, lock, saved, runs, writes, lostGroups,
                    lostCodes>>

-----------------------------------------------------------------------------
(* One card.                                                               *)

PromArticle(card) ==
  IF card.external # 0 THEN card.external ELSE IF card.sku # 0 THEN card.sku ELSE card.id

(* extractBarcode: the card's metadata, or a SKU that looks like a barcode. *)
WooBarcode(card) ==
  IF card.barcode # 0 THEN card.barcode ELSE IF card.sku \in Eans THEN card.sku ELSE 0

Article(shop, card) == IF shop = "prom" THEN PromArticle(card) ELSE card.sku

WithCard(i, card) ==
  [i EXCEPT !.queue = Tail(@), !.fetched = @ + 1, !.cursor = card.id,
            !.seen = @ \cup {card.id}, !.again = @ \/ card.id \in i.seen]

(* The next card of the page is skipped or handed to the upsert.            *)
TakeCard(r, skip, barcode) ==
  LET i == imp[r]
      card == Head(i.queue)
  IN /\ i.pc = "card"
     /\ IF skip
        THEN imp' = [imp EXCEPT ![r] = WithCard(i, card)] /\ UNCHANGED <<up, contested>>
        ELSE /\ imp' = [imp EXCEPT ![r] = [WithCard(i, card) EXCEPT !.pc = "upsert",
                                                                    !.card = card]]
             /\ StartUpsert(r, Article(i.shop, card), barcode, card.path)
     /\ UNCHANGED <<tables, categoryCache, maxLock, left, racedGroups, mappings, goods, lock,
                    saved, runs, writes, lostGroups, lostCodes>>

(* Horoshop: a card without an article is skipped; only_new asks for the    *)
(* article now.                                                             *)
TakeHoroshopCard(r) ==
  LET i == imp[r]
      card == Head(i.queue)
  IN /\ i.shop = "horoshop" /\ i.queue # <<>>
     /\ TakeCard(r, card.sku = 0 \/ (i.onlyNew /\ Found(card.sku) # {}), card.barcode)

(* Prom: only_new decides by the set that was read.                         *)
TakePromCard(r) ==
  LET i == imp[r]
      card == Head(i.queue)
  IN /\ i.shop = "prom" /\ i.queue # <<>>
     /\ TakeCard(r, i.onlyNew /\ PromArticle(card) \in i.known, card.sku)

(* WooCommerce: every product is imported, with or without a SKU.           *)
TakeWooCard(r) ==
  /\ imp[r].shop = "woocommerce" /\ imp[r].queue # <<>>
  /\ TakeCard(r, FALSE, WooBarcode(Head(imp[r].queue)))

Done(r) == up[r].pc \in {"created", "updated"}

Imported(r) == [shop |-> imp[r].shop, article |-> Article(imp[r].shop, imp[r].card),
                tcod |-> up[r].tcod]

(* The limit ends the page after a card that was handled, not after one     *)
(* that was skipped.                                                        *)
NextCard(r) ==
  /\ up' = [up EXCEPT ![r] = NoUpsert]
  /\ imp' = [imp EXCEPT ![r].pc = "card", ![r].card = None,
                        ![r].queue = IF LimitReached(imp[r]) THEN <<>> ELSE @]

(* The mapping of the product.  A refused save counts as an error of this   *)
(* card; the product stays.                                                 *)
MapProduct(r) ==
  /\ imp[r].pc = "upsert" /\ Done(r)
  /\ SaveMapping([shop |-> imp[r].shop, tcod |-> up[r].tcod,
                  article |-> Imported(r).article, status |-> "synced"])
  /\ writes' = writes \cup {Imported(r)}
  /\ NextCard(r)
  /\ UNCHANGED <<tables, categoryCache, maxLock, left, contested, racedGroups, goods, lock,
                 saved, runs, lostGroups, lostCodes>>

MapHoroshopProduct(r) == imp[r].shop = "horoshop" /\ MapProduct(r)
MapPromProduct(r) == imp[r].shop = "prom" /\ MapProduct(r)

(* WooCommerce: the shop's product gets the code as its SKU.                *)
WriteBack(r) ==
  LET list == goods["woocommerce"]
  IN /\ imp[r].pc = "upsert" /\ Done(r) /\ imp[r].shop = "woocommerce"
     /\ goods' = [goods EXCEPT !["woocommerce"] =
          [k \in DOMAIN list |-> IF list[k].id = imp[r].card.id
                                 THEN [list[k] EXCEPT !.sku = up[r].tcod] ELSE list[k]]]
     /\ writes' = writes \cup {Imported(r)}
     /\ NextCard(r)
     /\ UNCHANGED <<tables, categoryCache, maxLock, left, contested, racedGroups, mappings,
                    lock, saved, runs, lostGroups, lostCodes>>

(* Its failure is only logged.                                              *)
WriteBackFails(r) ==
  /\ imp[r].pc = "upsert" /\ Done(r) /\ imp[r].shop = "woocommerce"
  /\ Event("shop")
  /\ writes' = writes \cup {Imported(r)}
  /\ NextCard(r)
  /\ UNCHANGED <<tables, categoryCache, maxLock, contested, racedGroups, mappings, goods,
                 lock, saved, runs, lostGroups, lostCodes>>

(* An upsert that threw is an error of this card; the loop goes on.         *)
CardFails(r) ==
  /\ imp[r].pc = "upsert" /\ up[r].pc = "failed"
  /\ NextCard(r)
  /\ UNCHANGED <<tables, categoryCache, maxLock, left, contested, racedGroups, mappings,
                 goods, lock, saved, runs, writes, lostGroups, lostCodes>>

(* The report, and the finally: the lock is given back.                     *)
EndImport(r) ==
  /\ imp[r].pc = "end"
  /\ imp' = [imp EXCEPT ![r] = NoImport]
  /\ lock' = IF lock = r THEN None ELSE lock
  /\ UNCHANGED <<upsertVars, mappings, goods, saved, runs, writes, lostGroups, lostCodes>>

EndHoroshop(r) == imp[r].shop = "horoshop" /\ EndImport(r)
EndProm(r) == imp[r].shop = "prom" /\ EndImport(r)
EndWoo(r) == imp[r].shop = "woocommerce" /\ EndImport(r)

(* handleProductWebhook, importProductById: one card, read now.             *)
ProductWebhook(r, k) ==
  LET card == goods["woocommerce"][k]
  IN /\ imp[r].pc = "idle" /\ runs > 0
     /\ k \in DOMAIN goods["woocommerce"]
     /\ runs' = runs - 1
     /\ imp' = [imp EXCEPT ![r] = [NoImport EXCEPT !.pc = "card", !.shop = "woocommerce",
                  !.queue = <<card>>, !.short = TRUE, !.start = {card.id}]]
     /\ UNCHANGED <<upsertVars, mappings, goods, lock, saved, writes, lostGroups, lostCodes>>

-----------------------------------------------------------------------------
(* What happens around them.                                               *)

(* The products of upserts between their match and their transaction.       *)
Matched == {r \in Runners : up[r].pc \in {"category", "node", "newNode", "write"}}

(* The rollback point is restored.  It waits for the lock, and its DROP     *)
(* TABLE for an open transaction.  The cache of categories and              *)
(* product_mappings stay as they are.                                       *)
Restore ==
  /\ saved # <<>> /\ lock = None /\ maxLock = None
  /\ Event("restore")
  /\ name2' = saved[1].name2 /\ strihcod' = saved[1].strihcod /\ name' = saved[1].name
  /\ lostGroups' = lostGroups \cup
       (({categoryCache[k][2] : k \in DOMAIN categoryCache}
         \cup UNION {{up[r].group, up[r].parent, up[r].node} : r \in Runners})
        \ {saved[1].name[k].group : k \in DOMAIN saved[1].name})
  /\ lostCodes' = lostCodes \cup
       ({row.tcod : row \in name2} \ {row.tcod : row \in saved[1].name2})
  /\ contested' = contested \cup UNION {Identifiers(up[r]) : r \in Matched}
  /\ UNCHANGED <<categoryCache, maxLock, up, racedGroups, mappings, goods, imp, lock, saved,
                 runs, writes>>

(* Limansoft marks a product as deleted; its barcodes stay.                 *)
Delete(row) ==
  /\ row \in Live /\ row.tcod \in Deletable
  /\ Event("delete")
  /\ name2' = (name2 \ {row}) \cup {[row EXCEPT !.deleted = TRUE]}
  /\ UNCHANGED <<strihcod, name, categoryCache, maxLock, up, contested, racedGroups, mappings,
                 goods, imp, lock, saved, runs, writes, lostGroups, lostCodes>>

(* The shop takes a card out of its list: here the first one, which shifts  *)
(* all its pages.                                                           *)
TakenOut(shop) ==
  /\ goods[shop] # <<>>
  /\ Event("shop")
  /\ goods' = [goods EXCEPT ![shop] = Tail(@)]
  /\ imp' = [r \in Runners |-> IF imp[r].shop # shop THEN imp[r]
               ELSE [imp[r] EXCEPT !.gone = @ \cup {Head(goods[shop]).id}]]
  /\ UNCHANGED <<tables, categoryCache, maxLock, up, contested, racedGroups, mappings, lock,
                 saved, runs, writes, lostGroups, lostCodes>>

(* The process restarts: open transactions roll back, the cache is empty,   *)
(* and a lock left behind runs out (TenantOps).                             *)
Restart ==
  /\ up' = [r \in Runners |-> NoUpsert] /\ imp' = [r \in Runners |-> NoImport]
  /\ categoryCache' = <<>> /\ maxLock' = None /\ lock' = None
  /\ UNCHANGED <<tables, contested, racedGroups, mappings, goods, saved, runs, writes,
                 lostGroups, lostCodes>>

Crash == Event("crash") /\ (\E r \in Runners : imp[r].pc # "idle") /\ Restart

ImportOwnStep(r) ==
  \/ TakeRollbackPoint(r) \/ AcquireLock(r) \/ ReadKnown(r)
  \/ FetchHoroshop(r) \/ FetchProm(r) \/ FetchWoo(r) \/ NextPage(r)
  \/ TakeHoroshopCard(r) \/ TakePromCard(r) \/ TakeWooCard(r)
  \/ MapHoroshopProduct(r) \/ MapPromProduct(r) \/ WriteBack(r) \/ CardFails(r)
  \/ EndHoroshop(r) \/ EndProm(r) \/ EndWoo(r)

importOnly == <<mappings, goods, imp, lock, saved, runs, writes, lostGroups, lostCodes>>

ImportStep(r) == ImportOwnStep(r) \/ (UpsertStep(r) /\ UNCHANGED importOnly)

(* The three calls that queue an import, with the mode and the limit of the *)
(* request, whatever else is running: a worker takes the job at once.       *)
TriggerHoroshopImport(r) ==
  \E limit \in Limits, onlyNew \in BOOLEAN : StartHoroshopImport(r, onlyNew, limit)
TriggerPromImport(r) ==
  \E limit \in Limits, onlyNew \in BOOLEAN : StartPromImport(r, onlyNew, limit)
TriggerWooImport(r) == \E limit \in Limits : StartWooImport(r, limit)

ImportStarts(r) ==
  \/ TriggerHoroshopImport(r) \/ TriggerPromImport(r) \/ TriggerWooImport(r)
  \/ \E k \in DOMAIN goods["woocommerce"] : ProductWebhook(r, k)

ImportFaults ==
  \/ \E r \in Runners : FetchFails(r) \/ WriteBackFails(r)
  \/ \E r \in Runners : (CategoryFails(r) \/ UpsertFails(r)) /\ UNCHANGED importOnly
  \/ \E shop \in Shops : TakenOut(shop)
  \/ \E row \in Live : Delete(row)
  \/ Restore

ImportNext == (\E r \in Runners : ImportStep(r) \/ ImportStarts(r)) \/ ImportFaults \/ Crash

ImportSpec == ImportInit /\ [][ImportNext]_importVars

-----------------------------------------------------------------------------
(* Properties.                                                             *)

(* Two products never get one code, however many imports insert at once.    *)
CodesUnique == \A x, y \in name2 : x.tcod = y.tcod => x = y

(* A barcode leads to one product, unless it led to two from the start, two *)
(* upserts had it in hand at the same time, a shop gave the identifiers of  *)
(* two products to one card, a restore brought back what a match had found  *)
(* missing, or the barcode is the code of a product, which is what          *)
(* findProductBySkuOrBarcode takes it for.                                  *)
OneProductPerBarcode ==
  \A id \in {pair[1] : pair \in CarriedNow} :
    Several(Carriers(id)) =>
      id \in contested \cup {row.tcod : row \in name2} \cup lostCodes

(* A product is filed under a category that exists; the only exceptions     *)
(* are groups an upsert or the cache still held when a restore took them,   *)
(* and "01" where there was no category at all.                             *)
Filed(group) ==
  \/ group \in Groups \cup lostGroups
  \/ InitialGroups = <<>> /\ group = <<1>>

FiledUnderACategory == \A row \in Live : Filed(row.group)

(* Two categories share a code only when two upserts chose it at once, when *)
(* the numbers of their parent were used up, or at the depth limit, where a *)
(* category has the code of its parent.                                     *)
CategoryCodesDistinct ==
  \A i, j \in DOMAIN name :
    i # j /\ name[i].group = name[j].group
      => \/ name[i].group \in racedGroups
         \/ name[i].group \in {name[i].parent, name[j].parent}

(* An only_new import of Horoshop or Prom never rewrites a product that     *)
(* carried the card's article when the import began.  The one exception: it *)
(* was deleted meanwhile, so that Horoshop's import does not find it by its *)
(* article, and the card's barcode still leads to it.                       *)
OnlyNewKeepsOld ==
  [][\A r \in Runners :
       up[r].pc = "write" /\ up'[r].pc = "updated" /\ imp[r].onlyNew
         => \/ <<up[r].sku, up[r].tcod>> \notin imp[r].old
            \/ /\ imp[r].shop = "horoshop"
               /\ \E row \in name2 : row.tcod = up[r].tcod /\ row.deleted]_importVars

(* An import without a limit that reaches its end has taken every card that *)
(* was listed throughout, once: Prom's always (its cursor), the others      *)
(* unless a card was taken out meanwhile.  With a limit it has taken as     *)
(* many different cards as the limit allows; WooCommerce's only when the    *)
(* limit is one page or whole pages, for there a last page that is smaller  *)
(* begins too early.                                                        *)
ImportComplete ==
  [][\A r \in Runners :
       LET i == imp[r]
           listed == i.start \ i.gone
           steady == i.shop = "prom" \/ i.gone = {}
           whole == i.shop # "woocommerce" \/ i.limit <= PageSize \/ i.limit % PageSize = 0
       IN i.pc = "end" /\ imp'[r].pc = "idle" /\ left' = left /\ steady /\ whole =>
            /\ ~i.again
            /\ i.limit = 0 => listed \subseteq i.seen
            /\ i.limit # 0 =>
                 Cardinality(i.seen) >= Min({i.limit, Cardinality(listed)})]_importVars

(* "При повторном запуске в режиме «только новые» дубликаты не создаются"   *)
(* (TASK-22): an only_new import inserts no product for an article that     *)
(* product_mappings already knows.  It does, for an article that is a       *)
(* number and has no barcode: nothing the product carries leads back to it. *)
ReimportCreatesNothing ==
  [][\A r \in Runners :
       up[r].pc = "insert" /\ up'[r].pc = "created" /\ imp[r].onlyNew
         => \A m \in mappings : m.shop # imp[r].shop \/ m.article # up[r].sku]_importVars
=============================================================================
