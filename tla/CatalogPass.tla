---------------------------- MODULE CatalogPass ----------------------------
(***************************************************************************)
(* One pass of prices and stock from Limansoft to a shop: the loops over   *)
(* the pages of the catalogue in syncPricesAndStocks (Prom, Horoshop,      *)
(* Rozetka) and syncFullCatalog (WooCommerce).  Each page is a SELECT with *)
(* LIMIT and OFFSET, then one request to the shop; the catalogue changes   *)
(* in between.  Prices and stock are a version number per product.         *)
(* SyncQueue says who runs passes and what their end brings about.         *)
(***************************************************************************)
EXTENDS Ranks, SequencesExt, FiniteSetsExt

CONSTANTS
  Runners,      \* whoever may execute a pass
  Products,     \* product codes (tcod)
  InitialCatalog,
  Unlisted,     \* of each shop, the products it does not know and refuses
  Batch,        \* products per request (100; 50 for WooCommerce)
  MaxChanges,   \* bound: changes of stock and catalogue
  Events,       \* "api": a request to a shop fails, "query": a query fails,
                \* "crash": the process restarts
  MaxEvents     \* bound: how many of them happen

Platforms == {"prom", "horoshop", "rozetka", "woocommerce"}
None == "none"

ASSUME CatalogAssumption ==
  /\ Products \subseteq Nat \ {0} /\ IsFiniteSet(Products)
  /\ InitialCatalog \subseteq Products
  /\ Unlisted \in [Platforms -> SUBSET Products]
  /\ Batch \in Nat \ {0} /\ MaxChanges \in Nat
  /\ Events \subseteq {"api", "query", "crash"} /\ MaxEvents \in Nat

VARIABLES
  catalog,    \* the products that are not deleted (name2)
  stock,      \* their current version (name2ost)
  shop,       \* the version each shop shows
  synced,     \* the products that product_mappings calls synced, of each shop
  pass,       \* locals of each runner
  changes,    \* changes that may still happen
  left        \* events that may still happen

goodsVars == <<catalog, stock, changes>>
passVars == <<goodsVars, shop, synced, pass, left>>

(* What is left of the limit (target), the page and the products counted so *)
(* far; the page in hand.  The last four are read by the properties only:   *)
(* the products a request was made for, whether one was requested twice,    *)
(* whether the catalogue changed during the pass, and the passes to the same  *)
(* shop that overlapped.                                                    *)
NoPass == [pc |-> "idle", platform |-> None, target |-> 0, page |-> 1, processed |-> 0,
           items |-> <<>>, short |-> FALSE,
           tried |-> {}, again |-> FALSE, disturbed |-> FALSE, overlapped |-> {}]

PassInit ==
  /\ catalog = InitialCatalog
  /\ stock = [i \in Products |-> 0]
  /\ shop = [p \in Platforms |-> stock]
  /\ synced = [p \in Platforms |-> {}]
  /\ pass = [r \in Runners |-> NoPass]
  /\ changes = MaxChanges /\ left = MaxEvents

Event(kind) == kind \in Events /\ left > 0 /\ left' = left - 1

Running(r) == pass[r].pc \in {"page", "send", "end"}

-----------------------------------------------------------------------------
(* Prom and WooCommerce count the products first, and ask for no more than  *)
(* are left of them; the others read until a page is short.                 *)
Counted == {"prom", "woocommerce"}

(* LIMIT of the next page.                                                  *)
Size(ps) ==
  IF ps.platform \in Counted THEN Min({Batch, ps.target - ps.processed}) ELSE Batch

OffsetByPage(ps) == ps.page * Size(ps)  \* mutant: pages counted from 0

(* getProducts: OFFSET of the next page, from its number and this LIMIT.    *)
Offset(ps) == (ps.page - 1) * Size(ps)

(* getProducts: ORDER BY tcod LIMIT ? OFFSET ?                              *)
Page(ps) ==
  {i \in catalog : /\ Offset(ps) < Rank(catalog, i)
                   /\ Rank(catalog, i) <= Offset(ps) + Size(ps)}

(* Whether the loop asks for another page.                                  *)
More(ps) ==
  CASE ps.platform = "prom" ->
         /\ (ps.page - 1) * Batch < ps.target
         /\ ps.processed < ps.target
    [] ps.platform = "woocommerce" -> ~ps.short /\ ps.processed < ps.target
    [] ps.platform = "horoshop" -> ~ps.short /\ ~(0 < ps.target /\ ps.target <= ps.processed)
    [] OTHER -> ~ps.short

(* The pass r begins; limit 0 stands for none.                              *)
BeginPass(r, p, limit) ==
  LET total == Cardinality(catalog)
      target == IF p \notin Counted THEN limit
                ELSE IF limit = 0 THEN total ELSE Min({limit, total})
      others == {q \in Runners \ {r} : Running(q) /\ pass[q].platform = p}
  IN pass' = [q \in Runners |->
       IF q = r
       THEN [NoPass EXCEPT
              !.pc = IF p \in Counted /\ target = 0 THEN "end" ELSE "page",
              !.platform = p, !.target = target, !.overlapped = others]
       ELSE [pass[q] EXCEPT !.overlapped = IF q \in others THEN @ \cup {r} ELSE @]]

(* getProducts: one page is read.                                           *)
ReadPage(r) ==
  /\ pass[r].pc = "page"
  /\ LET items == Page(pass[r])
     IN pass' = [pass EXCEPT
          ![r].pc = IF items = {} THEN "end" ELSE "send",
          ![r].items = [i \in items |-> stock[i]],
          ![r].short = Cardinality(items) < Size(pass[r])]
  /\ UNCHANGED <<goodsVars, shop, synced, left>>

-----------------------------------------------------------------------------
(* The products of a request that the shop takes.                           *)
Accepted(ps) == DOMAIN ps.items \ Unlisted[ps.platform]

ConfirmedAll(ps) == DOMAIN ps.items  \* mutant: the log of the shop is ignored

(* persistMappingsSafe, and the first `processed` products of the request   *)
(* in Prom's pass: those whose mapping becomes synced.                      *)
Confirmed(ps) ==
  CASE ps.platform = "horoshop" -> Accepted(ps)
    [] ps.platform = "prom" ->
         ToSet(SubSeq(SetToSortSeq(DOMAIN ps.items, <), 1, Cardinality(Accepted(ps))))
    [] OTHER -> {}

(* The counter that decides on the next page.  Prom counts what the shop    *)
(* processed, WooCommerce the products of requests that succeeded, Horoshop *)
(* those of all requests.                                                   *)
Processed(ps, ok) ==
  ps.processed +
    CASE ps.platform = "prom" -> IF ok THEN Cardinality(Accepted(ps)) ELSE 0
      [] ps.platform = "woocommerce" -> IF ok THEN Cardinality(DOMAIN ps.items) ELSE 0
      [] OTHER -> Cardinality(DOMAIN ps.items)

(* What a pass has become after a request.                                  *)
NextPage(ps, ok) ==
  LET next == [ps EXCEPT !.page = @ + 1, !.processed = Processed(ps, ok), !.items = <<>>,
                         !.again = @ \/ ps.tried \cap DOMAIN ps.items # {},
                         !.tried = @ \cup DOMAIN ps.items]
  IN [next EXCEPT !.pc = IF More(next) THEN "page" ELSE "end"]

(* The products whose row of product_mappings is written after a request.   *)
Recorded(ps) == IF ps.platform = "horoshop" THEN DOMAIN ps.items ELSE Confirmed(ps)

(* The rows are written one by one: all, or those before one that fails.    *)
SaveMappings(ps) ==
  \E saved \in {{j \in Recorded(ps) : j < i} : i \in Recorded(ps)} \cup {Recorded(ps)} :
    /\ synced' = [synced EXCEPT ![ps.platform] = (@ \ saved) \cup (saved \cap Confirmed(ps))]
    /\ IF saved = Recorded(ps) THEN left' = left ELSE Event("query")

(* The request and the mappings, whose failure is logged.                   *)
SendPage(r) ==
  /\ pass[r].pc = "send"
  /\ LET ps == pass[r]
     IN /\ pass' = [pass EXCEPT ![r] = NextPage(ps, TRUE)]
        /\ shop' = [shop EXCEPT ![ps.platform] =
             [i \in Products |-> IF i \in Accepted(ps) THEN ps.items[i] ELSE @[i]]]
        /\ SaveMappings(ps)
  /\ UNCHANGED goodsVars

(* The request fails: that is logged too, and the loop goes on.             *)
FailPage(r) ==
  /\ pass[r].pc = "send"
  /\ pass' = [pass EXCEPT ![r] = NextPage(pass[r], FALSE)]
  /\ Event("api")
  /\ UNCHANGED <<goodsVars, shop, synced>>

-----------------------------------------------------------------------------
(* The environment: stock moves, products appear and disappear.             *)

MoveStock(i) ==
  /\ changes > 0 /\ changes' = changes - 1
  /\ stock' = [stock EXCEPT ![i] = @ + 1]
  /\ UNCHANGED <<catalog, shop, synced, pass, left>>

ChangeCatalog(i) ==
  /\ changes > 0 /\ changes' = changes - 1
  /\ catalog' = IF i \in catalog THEN catalog \ {i} ELSE catalog \cup {i}
  /\ pass' = [r \in Runners |-> [pass[r] EXCEPT !.disturbed = Running(r)]]
  /\ UNCHANGED <<stock, shop, synced, left>>

-----------------------------------------------------------------------------
(* A pass over a catalogue that does not change makes a request for each    *)
(* product once and once only, failed requests included.  The passes that   *)
(* count what is left need a catalogue of whole batches for it: there the   *)
(* LIMIT, and with it the OFFSET, of all pages is the same.                 *)
CompletePass ==
  \A r \in Runners :
    LET ps == pass[r]
    IN /\ ps.pc = "end" /\ ~ps.disturbed
       /\ IF ps.platform \in Counted
          THEN ps.target = Cardinality(catalog) /\ Cardinality(catalog) % Batch = 0
          ELSE ps.target = 0
       => ps.tried = catalog /\ ~ps.again

(* product_mappings says synced of no product that Horoshop refused         *)
(* (persistMappingsSafe reads the log of the answer).                       *)
MappingSound == synced["horoshop"] \cap Unlisted["horoshop"] = {}
=============================================================================
