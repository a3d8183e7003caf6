--------------------------- MODULE CatalogExport ---------------------------
(***************************************************************************)
(* The direct export of the catalogue to Horoshop and Prom by the queue    *)
(* workers HoroshopExportProcessor and PromExportProcessor, next to the    *)
(* imports of CatalogImport: both work on the same products, the same      *)
(* product_mappings and the same shops.  An export takes no lock.          *)
(***************************************************************************)
EXTENDS CatalogImport

CONSTANTS
  FetchBatch,  \* products per page of the catalogue (500)
  ExportBatch, \* products per request to the shop (100)
  ExportLimits \* values of job.data.limit of an export; 0 is no limit

Modes == {"full_overwrite", "only_new", "update_existing"}

ASSUME ExportAssumption ==
  /\ FetchBatch \in Nat \ {0} /\ ExportBatch \in Nat \ {0}
  /\ ExportLimits \subseteq Nat
  /\ \A shop \in Shops : \A i \in DOMAIN InitialGoods[shop] :
       InitialGoods[shop][i].id \in Nat /\ InitialGoods[shop][i].id > MaxCode

VARIABLES
  exp,      \* locals of the export each runner executes
  feedAsked,\* Prom was asked to read the feed and has not yet
  answered, \* read by properties: <<shop, tcod, status>> the shop has answered
  moved     \* read by properties: the runners during whose reading of the
            \* catalogue a product came or went

exchangeVars == <<importVars, exp, feedAsked, answered, moved>>

(* names: the categories read at the start; all and rest: the products read *)
(* and those still to be sent; chunk and log: the request that was answered *)
(* and what was accepted; row: which of its rows is saved next.  The last   *)
(* four are read by the properties only: the live products at the start,    *)
(* those the mode asks for, those sent, and whether one was sent twice.     *)
NoExport == [pc |-> "idle", shop |-> None, mode |-> None, limit |-> 0, names |-> {},
             page |-> 1, all |-> <<>>, rest |-> <<>>, chunk |-> <<>>, log |-> {}, row |-> 1,
             start |-> {}, due |-> {}, sent |-> {}, again |-> FALSE]

ExchangeInit ==
  /\ ImportInit
  /\ exp = [r \in Runners |-> NoExport]
  /\ feedAsked = FALSE
  /\ answered = {}
  /\ moved = {}

CodesOf(rows) == {rows[k].tcod : k \in DOMAIN rows}

-----------------------------------------------------------------------------
(* Reading the catalogue.                                                  *)

StartExport(r, shop, mode, limit) ==
  /\ imp[r].pc = "idle" /\ exp[r].pc = "idle" /\ runs > 0
  /\ runs' = runs - 1
  /\ exp' = [exp EXCEPT ![r] =
       [NoExport EXCEPT !.pc = "read", !.shop = shop, !.mode = mode, !.limit = limit,
                        !.names = IF shop = "prom" THEN {}
                                  ELSE {<<name[i].group, name[i].name_g>> : i \in DOMAIN name},
                        !.start = LiveCodes]]
  /\ UNCHANGED <<upsertVars, mappings, goods, imp, lock, saved, writes, lostGroups, lostCodes,
                 feedAsked, answered>>

StartHoroshopExport(r, mode, limit) == StartExport(r, "horoshop", mode, limit)
StartPromExport(r, mode, limit) == StartExport(r, "prom", mode, limit)

ReadSize(e) == IF e.limit = 0 THEN FetchBatch ELSE Min({FetchBatch, e.limit - Len(e.all)})

OffsetFromZero(e) == e.page * ReadSize(e)  \* mutant: pages counted from 0

(* getProducts: (page - 1) * limit, with the limit of this page.            *)
ReadOffset(e) == (e.page - 1) * ReadSize(e)

(* The category's name, for Horoshop; a product of an unknown group has none. *)
CategoryName(e, t) ==
  LET found == {n \in e.names : \E row \in Live : row.tcod = t /\ n[1] = row.group}
  IN IF found = {} THEN <<>> ELSE <<(CHOOSE n \in found : TRUE)[2]>>

(* getProducts: the live products, ORDER BY tcod LIMIT ? OFFSET ?           *)
CatalogPage(e) ==
  LET page == InOrder({t \in LiveCodes : /\ ReadOffset(e) < Rank(LiveCodes, t)
                                         /\ Rank(LiveCodes, t) <= ReadOffset(e) + ReadSize(e)})
  IN [k \in DOMAIN page |-> [tcod |-> page[k], path |-> CategoryName(e, page[k])]]

(* One page; the last one is empty, short, or completes the total.          *)
ReadPage(r) ==
  LET e == exp[r]
      items == CatalogPage(e)
      all == e.all \o items
      last == Len(items) < ReadSize(e) \/ Len(all) >= Cardinality(LiveCodes)
                \/ (e.limit # 0 /\ Len(all) >= e.limit)
  IN /\ e.pc = "read"
     /\ exp' = [exp EXCEPT ![r] =
          IF ~last THEN [e EXCEPT !.all = all, !.page = @ + 1]
          ELSE IF all = <<>> THEN NoExport
          ELSE [e EXCEPT !.all = all, !.pc = "filter"]]
     /\ UNCHANGED <<importVars, feedAsked, answered>>

ReadHoroshopPage(r) == exp[r].shop = "horoshop" /\ ReadPage(r)
ReadPromPage(r) == exp[r].shop = "prom" /\ ReadPage(r)

(* filterProductsByMode                                                    *)
Wanted(mode, mapped, t) ==
  \/ mode = "full_overwrite"
  \/ mode = "only_new" /\ t \notin mapped
  \/ mode = "update_existing" /\ t \in mapped

(* What is mapped is read once, after the catalogue; nothing to send ends   *)
(* the export.                                                              *)
FilterByMode(r, next) ==
  LET e == exp[r]
      mapped == AllMappedTcods(e.shop)
      target == Picked(e.all, {k \in DOMAIN e.all : Wanted(e.mode, mapped, e.all[k].tcod)})
  IN /\ e.pc = "filter"
     /\ exp' = [exp EXCEPT ![r] =
          IF target = <<>> THEN NoExport
          ELSE [e EXCEPT !.pc = next, !.rest = target,
                         !.due = {t \in e.start : Wanted(e.mode, mapped, t)}]]
     /\ UNCHANGED <<importVars, feedAsked, answered>>

FilterHoroshop(r) == exp[r].shop = "horoshop" /\ FilterByMode(r, "send")
FilterProm(r) == exp[r].shop = "prom" /\ FilterByMode(r, "feed")

-----------------------------------------------------------------------------
(* Sending.                                                                *)

Chunk(e) == SubSeq(e.rest, 1, Min({Len(e.rest), ExportBatch}))
Rest(e) == SubSeq(e.rest, Len(Chunk(e)) + 1, Len(e.rest))

NoteSent(e) ==
  [e EXCEPT !.again = @ \/ CodesOf(Chunk(e)) \cap e.sent # {}
                        \/ Cardinality(CodesOf(Chunk(e))) < Len(Chunk(e)),
            !.sent = @ \cup CodesOf(Chunk(e))]

(* The cards the shop edits for a code: Horoshop knows them by article,     *)
(* Prom by external_id.                                                     *)
HoroshopCards(t) == {k \in DOMAIN goods["horoshop"] : goods["horoshop"][k].sku = t}
PromCards(t) == {k \in DOMAIN goods["prom"] : goods["prom"][k].external = t}

(* buildProductItem: the article is the code, String(tcod).  The barcode is *)
(* sent as gtin, which an import does not read.                             *)
HoroshopItem(row) ==
  [id |-> row.tcod, external |-> 0, sku |-> row.tcod, barcode |-> 0, path |-> row.path]

(* A chunk was answered.                                                   *)
Answers(r, accepted) ==
  LET e == exp[r]
  IN /\ exp' = [exp EXCEPT ![r] = [NoteSent(e) EXCEPT !.pc = "persist", !.chunk = Chunk(e),
                                     !.log = accepted, !.rest = Rest(e)]]
     /\ answered' = answered
          \cup {<<e.shop, t, "synced">> : t \in accepted}
          \cup {<<e.shop, t, "error">> : t \in CodesOf(Chunk(e)) \ accepted}
     /\ UNCHANGED <<upsertVars, mappings, imp, lock, saved, runs, writes, lostGroups, lostCodes,
                    feedAsked>>

(* importCatalog answers each product with a code: Horoshop may refuse any, *)
(* and creates the cards it does not know.                                  *)
SendToHoroshop(r) ==
  /\ exp[r].shop = "horoshop" /\ exp[r].pc = "send"
  /\ \E accepted \in SUBSET CodesOf(Chunk(exp[r])) :
       /\ Answers(r, accepted)
       /\ LET chunk == Chunk(exp[r])
              created == Picked(chunk, {k \in DOMAIN chunk :
                           /\ chunk[k].tcod \in accepted /\ HoroshopCards(chunk[k].tcod) = {}
                           /\ \A j \in 1 .. k - 1 : chunk[j].tcod # chunk[k].tcod})
          IN goods' = [goods EXCEPT !["horoshop"] =
                         @ \o [k \in DOMAIN created |-> HoroshopItem(created[k])]]

(* import_url: Prom is asked to read the feed, whatever the mode; a failure *)
(* and a local address are only noted.                                      *)
AskFeed(r) ==
  /\ exp[r].pc = "feed"
  /\ exp' = [exp EXCEPT ![r].pc = "send"]
  /\ feedAsked' \in {feedAsked, TRUE}
  /\ UNCHANGED <<importVars, answered>>

(* sendFeed: the same request, made by hand and without an export.  One     *)
(* that Prom refuses, or that it has already, changes nothing.              *)
SendFeed ==
  /\ runs > 0 /\ runs' = runs - 1
  /\ ~feedAsked /\ feedAsked' = TRUE
  /\ UNCHANGED <<upsertVars, mappings, goods, imp, lock, saved, writes, lostGroups, lostCodes,
                 exp, answered>>

(* Prom reads the feed (streamYmlFeed) some time later and creates what it  *)
(* does not know, under new numbers.  Offered is any part of the catalogue: *)
(* products without a price are left out, and a page that shifts skips one. *)
PromReadsFeed ==
  \E offered \in SUBSET LiveCodes :
    LET created == InOrder({t \in offered : PromCards(t) = {}})
        last == Max({1000} \cup CardIds("prom"))
    IN /\ feedAsked /\ feedAsked' = FALSE
       /\ goods' = [goods EXCEPT !["prom"] = @ \o
            [k \in DOMAIN created |-> [id |-> last + k, external |-> created[k],
                                       sku |-> 0, barcode |-> 0, path |-> <<>>]]]
       /\ UNCHANGED <<upsertVars, mappings, imp, lock, saved, runs, writes, lostGroups,
                      lostCodes, exp, answered>>

(* editProductsByExternalId: Prom refuses what it does not know, and may    *)
(* refuse the rest.                                                         *)
SendToProm(r) ==
  LET known == {t \in CodesOf(Chunk(exp[r])) : PromCards(t) # {}}
  IN /\ exp[r].shop = "prom" /\ exp[r].pc = "send"
     /\ \E accepted \in SUBSET known : Answers(r, accepted)
     /\ UNCHANGED goods

AfterChunk(e) == IF e.rest = <<>> THEN NoExport ELSE [e EXCEPT !.pc = "send", !.chunk = <<>>,
                                                               !.log = {}, !.row = 1]

(* A request that fails costs its chunk; the loop goes on.                  *)
SendFails(r) ==
  /\ exp[r].pc = "send"
  /\ Event("shop")
  /\ exp' = [exp EXCEPT ![r] =
       AfterChunk([NoteSent(exp[r]) EXCEPT !.rest = Rest(exp[r])])]
  /\ UNCHANGED <<tables, categoryCache, maxLock, up, contested, racedGroups, mappings, goods,
                 imp, lock, saved, runs, writes, lostGroups, lostCodes, feedAsked, answered>>

Row(e, t, status) == [shop |-> e.shop, tcod |-> t, article |-> t, status |-> status]

HoroshopRowSynced(e, t) ==  \* mutant: the code in the answer is not looked at
  Row(e, t, "synced")

(* persistExportMappingsSafe: a row for every product of the chunk, refused *)
(* ones as "error".                                                         *)
HoroshopRow(e, t) == Row(e, t, IF t \in e.log THEN "synced" ELSE "error")

(* Prom: a row for each processed product.                                  *)
PromRow(e, t) == Row(e, t, "synced")

(* saveBatchMappings, one product of the chunk: the rows are saved one      *)
(* after the other.  The first that is refused ends the batch, and its      *)
(* error is swallowed; what was saved before stays.                         *)
Persist(r, skip, row) ==
  LET e == exp[r]
      save == e.row \in DOMAIN e.chunk /\ ~skip
      last == e.row + 1 \notin DOMAIN e.chunk \/ (save /\ Refused(row))
  IN /\ e.pc = "persist"
     /\ IF save THEN SaveMapping(row) ELSE UNCHANGED mappings
     /\ exp' = [exp EXCEPT ![r] = IF last THEN AfterChunk(e) ELSE [e EXCEPT !.row = @ + 1]]
     /\ UNCHANGED <<upsertVars, goods, imp, lock, saved, runs, writes, lostGroups, lostCodes,
                    feedAsked, answered>>

(* The product of the row that is saved next.                               *)
CodeAt(e) == e.chunk[e.row].tcod

PersistHoroshop(r) ==
  /\ exp[r].shop = "horoshop"
  /\ Persist(r, FALSE, HoroshopRow(exp[r], CodeAt(exp[r])))
PersistProm(r) ==
  /\ exp[r].shop = "prom"
  /\ Persist(r, CodeAt(exp[r]) \notin exp[r].log, PromRow(exp[r], CodeAt(exp[r])))

ExportStep(r) ==
  \/ ReadHoroshopPage(r) \/ FilterHoroshop(r) \/ SendToHoroshop(r) \/ PersistHoroshop(r)
  \/ ReadPromPage(r) \/ FilterProm(r) \/ AskFeed(r) \/ SendToProm(r) \/ PersistProm(r)

(* The two calls that queue an export, with the mode and the limit of the   *)
(* request, whatever else is running.                                       *)
TriggerHoroshopExport(r) ==
  \E mode \in Modes, limit \in ExportLimits : StartHoroshopExport(r, mode, limit)
TriggerPromExport(r) ==
  \E mode \in Modes, limit \in ExportLimits : StartPromExport(r, mode, limit)

ExportStarts(r) == TriggerHoroshopExport(r) \/ TriggerPromExport(r)

(* A restart ends the exports too.                                          *)
ExchangeCrash ==
  /\ Event("crash")
  /\ \E r \in Runners : imp[r].pc # "idle" \/ exp[r].pc # "idle"
  /\ Restart
  /\ exp' = [r \in Runners |-> NoExport]
  /\ UNCHANGED <<feedAsked, answered>>

-----------------------------------------------------------------------------
(* Imports and exports together.                                           *)

ExchangeStep ==
  \/ \E r \in Runners : ExportStep(r) \/ SendFails(r)
  \/ \E r \in Runners : ExportStarts(r)
  \/ SendFeed \/ PromReadsFeed
  \/ /\ (\E r \in Runners : ImportStep(r) \/ (exp[r].pc = "idle" /\ ImportStarts(r)))
           \/ ImportFaults
     /\ UNCHANGED <<exp, feedAsked, answered>>
  \/ ExchangeCrash

(* The exports that see the catalogue change while they read it.            *)
Reading == {r \in Runners : exp[r].pc = "read"}

ExchangeNext ==
  /\ ExchangeStep
  /\ moved' = {r \in Runners : /\ exp'[r].pc # "idle"
                               /\ r \in moved \/ (r \in Reading /\ LiveCodes' # LiveCodes)}

ExchangeSpec == ExchangeInit /\ [][ExchangeNext]_exchangeVars

-----------------------------------------------------------------------------
(* Properties.                                                             *)

(* A row of product_mappings says what the shop and the import said last:   *)
(* a "synced" one that the shop accepted the product or that its card was   *)
(* imported into it, an "error" that the shop refused it.  A product whose  *)
(* request was lost has no new row, so only_new sends it again.             *)
MappingsTellTheShop ==
  \A m \in mappings :
    \/ <<m.shop, m.tcod, m.status>> \in answered
    \/ m.status = "synced"
         /\ [shop |-> m.shop, article |-> m.article, tcod |-> m.tcod] \in writes

(* An export that reaches its last request, during whose reading no product *)
(* came or went, has sent each product its mode asks for, once.  With a     *)
(* limit it has done so for that many products, unless the limit ends       *)
(* inside a later page.  (A product that a restore brings back during the   *)
(* reading is sent twice, and others are left out.)                         *)
ExportComplete ==
  [][\A r \in Runners :
       LET e == exp[r]
           wholePages == e.limit = 0 \/ e.limit <= FetchBatch \/ e.limit % FetchBatch = 0
       IN e.pc = "persist" /\ exp'[r].pc = "idle" /\ left' = left /\ r \notin moved
            /\ wholePages =>
            /\ ~e.again
            /\ e.limit = 0 => e.due \subseteq e.sent
            /\ e.limit # 0 /\ e.mode = "full_overwrite"
                 => Cardinality(e.sent) >= Min({e.limit, Cardinality(e.due)})]_exchangeVars
=============================================================================
