--------------------------- MODULE ProductUpsert ---------------------------
(***************************************************************************)
(* How a product of a shop becomes a product of Limansoft:                 *)
(* LimanService.upsertProductFromExternal.  It matches the product by      *)
(* article and barcode, finds or makes its category, and only then opens   *)
(* the transaction that updates the product or inserts it under the next   *)
(* free code.  Several upserts run at once: an import of WooCommerce and   *)
(* the product webhooks take no lock of the tenant.                        *)
(*                                                                         *)
(* An article or a barcode is an integer: n > 0 is the number n, which may *)
(* also be a product code; n < 0 is some text; 0 is nothing.  The code of  *)
(* a category is the sequence of its pairs of digits ("3001" is <<30, 1>>). *)
(* Prices, names, stock and pictures are left out.                         *)
(***************************************************************************)
EXTENDS Integers, Sequences, FiniteSets, SequencesExt

CONSTANTS
  Runners,       \* whoever may execute an upsert
  MaxCode,       \* bound: product codes are 1 .. MaxCode
  InitialRows,   \* the products of Limansoft at the start
  InitialBarcodes, \* their additional barcodes
  InitialGroups, \* its categories at the start, a sequence
  Roots,         \* codes of new root categories (30 .. 999)
  Width,         \* numbered children of a category (99)
  Depth,         \* pairs of digits in a category code (5: char(10))
  CacheSize,     \* entries of the category cache (2000)
  Events,        \* what may go wrong, see Event
  MaxEvents      \* bound: how often

None == "none"
Codes == 1 .. MaxCode

ASSUME UpsertAssumption ==
  /\ None \notin Runners
  /\ MaxCode \in Nat
  /\ InitialRows \subseteq [tcod : Codes, nnom : Int, group : Seq(Nat), deleted : BOOLEAN]
  /\ \A x, y \in InitialRows : x.tcod = y.tcod => x = y
  /\ \A pair \in InitialBarcodes : \E row \in InitialRows : row.tcod = pair[2]
  /\ Width \in Nat /\ Depth \in Nat /\ CacheSize \in Nat \ {0}
  /\ Roots \subseteq Nat /\ MaxEvents \in Nat

(* The categories at the start have codes of their own, each the code of    *)
(* its parent and two digits more, and the products are filed under them.   *)
ASSUME CategoryAssumption ==
  /\ InitialGroups \in Seq(ToSet(InitialGroups))
  /\ \A i \in DOMAIN InitialGroups :
       /\ InitialGroups[i].group \in Seq(Nat) \ {<<>>}
       /\ InitialGroups[i].parent = Front(InitialGroups[i].group)
  /\ \A i, j \in DOMAIN InitialGroups :
       InitialGroups[i].group = InitialGroups[j].group => i = j
  /\ \A row \in InitialRows :
       row.deleted \/ \E i \in DOMAIN InitialGroups : InitialGroups[i].group = row.group

VARIABLES
  name2,          \* product rows [tcod, nnom, group, deleted]
  strihcod,       \* additional barcodes: pairs <<barcode, tcod>>
  name,           \* category rows [group, name_g, parent] in order of `index`
  categoryCache,  \* LimanService.categoryCache: pairs <<path, group>>, oldest first
  maxLock,        \* who holds the rows of SELECT MAX(tcod) .. FOR UPDATE
  up,             \* locals of upsertProductFromExternal, of each runner
  left,           \* events that may still happen
  contested,      \* read by properties: articles and barcodes that two upserts
                  \* had in hand at once, that led to two products already, or
                  \* whose match a restore undid
  racedGroups     \* read by properties: category codes that two upserts chose
                  \* at once, or that were taken from the clock

tables == <<name2, strihcod, name>>
upsertVars == <<tables, categoryCache, maxLock, up, left, contested, racedGroups>>

NoUpsert == [pc |-> "idle", sku |-> 0, barcode |-> 0, path |-> <<>>, tcod |-> 0,
             parent |-> <<>>, rest |-> <<>>, node |-> <<>>, group |-> <<>>]

Live == {row \in name2 : ~row.deleted}
LiveCodes == {row.tcod : row \in Live}

(* Who carries which article or barcode; read by the properties.            *)
CarriedNow ==
  {<<row.nnom, row.tcod>> : row \in {x \in Live : x.nnom # 0}} \cup strihcod

Carriers(id) == {pair[2] : pair \in {x \in CarriedNow : x[1] = id}} \cap LiveCodes

(* An identifier leads to two products.                                     *)
Several(codes) == \E s, t \in codes : s # t

UpsertInit ==
  /\ name2 = InitialRows
  /\ strihcod = InitialBarcodes /\ name = InitialGroups /\ categoryCache = <<>>
  /\ maxLock = None
  /\ up = [r \in Runners |-> NoUpsert]
  /\ left = MaxEvents
  /\ contested = {id \in {pair[1] : pair \in CarriedNow} : Several(Carriers(id))}
  /\ racedGroups = {}

(* "query": a query fails; "crash": the process restarts; "restore": the    *)
(* rollback point is restored; "delete": Limansoft deletes a product;       *)
(* "shop": the shop takes a product out or refuses a request.               *)
Event(kind) == kind \in Events /\ left > 0 /\ left' = left - 1

Groups == {name[i].group : i \in DOMAIN name}
Identifiers(u) == {u.sku, u.barcode} \ {0}

-----------------------------------------------------------------------------
(* Matching.                                                               *)

ByCode(id) == {row.tcod : row \in {x \in Live : x.tcod = id}}
ByBarcode(id) == {pair[2] : pair \in {x \in strihcod : x[1] = id}}
ByNnom(id) == {row.tcod : row \in {x \in Live : x.nnom = id}}

(* findProductBySkuOrBarcode: the codes it may answer.  A row of strihcod   *)
(* answers even when its product is deleted.                                *)
Found(id) ==
  IF id = 0 THEN {}
  ELSE IF ByCode(id) # {} THEN ByCode(id)
  ELSE IF ByBarcode(id) # {} THEN ByBarcode(id)
  ELSE ByNnom(id)

(* getAllExistingSkus: nnom of the products, and every additional barcode;  *)
(* not their codes.                                                         *)
AllExistingSkus ==
  ({row.nnom : row \in Live} \ {0}) \cup {pair[1] : pair \in strihcod}

ExistingBySku(u) == Found(u.sku)  \* mutant: the barcode is not tried

(* resolveExistingProductTcod                                              *)
Existing(u) == IF Found(u.sku) # {} THEN Found(u.sku) ELSE Found(u.barcode)

(* The barcode that is stored: the shop's, or an article that is no number. *)
StoredBarcode(sku, barcode) ==
  IF barcode # 0 THEN barcode ELSE IF sku < 0 THEN sku ELSE 0

(* Identifiers that another upsert has in hand too.                         *)
Shared(r, ids) ==
  UNION {ids \cap Identifiers(up[s]) : s \in {x \in Runners \ {r} : up[x].pc # "idle"}}

StartUpsert(r, sku, barcode, path) ==
  /\ up' = [up EXCEPT ![r] = [NoUpsert EXCEPT !.pc = "match", !.sku = sku,
                                              !.barcode = barcode, !.path = path]]
  /\ contested' = contested \cup Shared(r, {sku, barcode} \ {0})

(* The product is looked up on the pool, before the transaction begins.     *)
Match(r) ==
  /\ up[r].pc = "match"
  /\ \E t \in IF Existing(up[r]) = {} THEN {0} ELSE Existing(up[r]) :
       up' = [up EXCEPT ![r].pc = "category", ![r].tcod = t]
  /\ contested' = contested \cup
       IF Several(Found(up[r].sku) \cup Found(up[r].barcode))
       THEN Identifiers(up[r]) ELSE {}
  /\ UNCHANGED <<tables, categoryCache, maxLock, left, racedGroups>>

-----------------------------------------------------------------------------
(* Categories.                                                             *)

(* getDefaultCategoryGroup: the first category, or '01'.                    *)
DefaultGroup == IF name = <<>> THEN <<1>> ELSE name[1].group

RowsNamed(n) == {row \in ToSet(name) : row.name_g = n}
Children(parent) == {row \in ToSet(name) : row.parent = parent}

(* setCachedCategory: a full cache loses its oldest entry, even when the    *)
(* key is already there.                                                    *)
Cached(path, group) ==
  LET kept == IF Len(categoryCache) >= CacheSize THEN Tail(categoryCache) ELSE categoryCache
  IN IF \E i \in DOMAIN kept : kept[i][1] = path
     THEN [i \in DOMAIN kept |-> IF kept[i][1] = path THEN <<path, group>> ELSE kept[i]]
     ELSE Append(kept, <<path, group>>)

FreeUnder(parent, numbers) ==
  LET free == {n \in numbers : Append(parent, n) \notin {row.group : row \in Children(parent)}}
  IN {Append(parent, n) : n \in {k \in free : \A other \in free : k <= other}}

(* All the numbers under a category are in use.                             *)
UsedUp(parent) ==
  parent # <<>> /\ Len(parent) < Depth /\ FreeUnder(parent, 1 .. Width) = {}

NextGroupUnchecked(parent) ==  \* mutant: the numbers in use are not looked at
  {IF parent = <<>> THEN <<30>> ELSE Append(parent, 1)}

(* generateNextCategoryGroup: the first free number under the parent; the   *)
(* parent's own code at the depth limit; digits of the clock, free or not,  *)
(* when the numbers are used up.  (More new roots than Roots, and the one   *)
(* odd digit that ends the codes under a root of three digits, are left     *)
(* out.)                                                                    *)
NextGroup(parent) ==
  IF parent = <<>> THEN FreeUnder(parent, Roots)
  ELSE IF Len(parent) >= Depth THEN {parent}
  ELSE IF UsedUp(parent) THEN {Append(parent, n) : n \in 0 .. Width}
  ELSE FreeUnder(parent, 1 .. Width)

CategoryIs(r, group) == up' = [up EXCEPT ![r].pc = "write", ![r].group = group]

(* resolveCategoryGroup up to its loop: no category, a cached path, or a    *)
(* category of that very name anywhere in the tree.                         *)
FindCategory(r) ==
  LET path == up[r].path
      exact == IF Len(path) = 1 THEN RowsNamed(path[1]) ELSE {}
      hits == {i \in DOMAIN categoryCache : categoryCache[i][1] = path}
  IN /\ up[r].pc = "category"
     /\ \/ /\ path = <<>>
           /\ CategoryIs(r, DefaultGroup) /\ UNCHANGED categoryCache
        \/ /\ path # <<>>
           /\ \E i \in hits : CategoryIs(r, categoryCache[i][2])
           /\ UNCHANGED categoryCache
        \/ /\ path # <<>> /\ hits = {}
           /\ \E row \in exact :
                /\ CategoryIs(r, row.group)
                /\ categoryCache' = Cached(path, row.group)
        \/ /\ path # <<>> /\ hits = {} /\ exact = {}
           /\ up' = [up EXCEPT ![r].pc = "node", ![r].rest = path]
           /\ UNCHANGED categoryCache
     /\ UNCHANGED <<tables, maxLock, left, contested, racedGroups>>

(* Its loop: the next part of the path under the parent found so far; a     *)
(* part that is missing gets a code chosen now and inserted by InsertNode.  *)
FindNode(r) ==
  LET u == up[r]
      rows == {row \in Children(u.parent) : row.name_g = Head(u.rest)}
  IN /\ u.pc = "node"
     /\ \/ /\ u.rest = <<>>
           /\ CategoryIs(r, u.parent)
           /\ categoryCache' = Cached(u.path, u.parent)
           /\ UNCHANGED racedGroups
        \/ /\ u.rest # <<>>
           /\ \E row \in rows : up' = [up EXCEPT ![r].parent = row.group, ![r].rest = Tail(@)]
           /\ UNCHANGED <<categoryCache, racedGroups>>
        \/ /\ u.rest # <<>> /\ rows = {}
           /\ \E g \in NextGroup(u.parent) :
                /\ up' = [up EXCEPT ![r].pc = "newNode", ![r].node = g]
                /\ racedGroups' = racedGroups \cup
                     IF UsedUp(u.parent)
                        \/ \E s \in Runners \ {r} : up[s].pc = "newNode" /\ up[s].node = g
                     THEN {g} ELSE {}
           /\ UNCHANGED categoryCache
     /\ UNCHANGED <<tables, maxLock, left, contested>>

InsertNode(r) ==
  /\ up[r].pc = "newNode"
  /\ name' = Append(name, [group |-> up[r].node, name_g |-> Head(up[r].rest),
                           parent |-> up[r].parent])
  /\ up' = [up EXCEPT ![r].pc = "node", ![r].parent = up[r].node, ![r].rest = Tail(@)]
  /\ UNCHANGED <<name2, strihcod, categoryCache, maxLock, left, contested, racedGroups>>

CategoryFailsKeeps(r) ==  \* mutant: the code that was to be inserted is used
  /\ up[r].pc \in {"node", "newNode"}
  /\ Event("query")
  /\ CategoryIs(r, IF up[r].pc = "node" THEN DefaultGroup ELSE up[r].node)
  /\ categoryCache' = Cached(up[r].path, DefaultGroup)
  /\ UNCHANGED <<tables, maxLock, contested, racedGroups>>

(* A query of the loop fails: the product goes to the default category, and *)
(* the cache keeps that answer for the path.                                *)
CategoryFails(r) ==
  /\ up[r].pc \in {"node", "newNode"}
  /\ Event("query")
  /\ CategoryIs(r, DefaultGroup)
  /\ categoryCache' = Cached(up[r].path, DefaultGroup)
  /\ UNCHANGED <<tables, maxLock, contested, racedGroups>>

-----------------------------------------------------------------------------
(* The transaction.                                                        *)

(* saveStrihcod                                                            *)
BarcodesWith(t, barcode) == strihcod \cup (IF barcode = 0 THEN {} ELSE {<<barcode, t>>})

(* updateProductMaster: the group always, nnom only where it was empty.     *)
Updated(row, u) ==
  LET barcode == StoredBarcode(u.sku, u.barcode)
  IN [row EXCEPT !.group = u.group, !.nnom = IF @ = 0 THEN barcode ELSE @]

UpdateProduct(r) ==
  LET u == up[r]
  IN /\ u.pc = "write" /\ u.tcod # 0
     /\ name2' = {IF row.tcod = u.tcod THEN Updated(row, u) ELSE row : row \in name2}
     /\ strihcod' = BarcodesWith(u.tcod, StoredBarcode(u.sku, u.barcode))
     /\ up' = [up EXCEPT ![r].pc = "updated"]
     /\ UNCHANGED <<name, categoryCache, maxLock, left, contested, racedGroups>>

IsNextLiveCode(c) ==  \* mutant: the codes of deleted products are given again
  /\ \A row \in Live : row.tcod < c
  /\ c = 1 \/ \E row \in Live : row.tcod = c - 1

(* MAX(tcod) + 1, of the deleted products too.                              *)
IsNextCode(c) ==
  /\ \A row \in name2 : row.tcod < c
  /\ c = 1 \/ \E row \in name2 : row.tcod = c - 1

(* insertProductMaster: SELECT MAX(tcod) + 1 FOR UPDATE waits for whoever   *)
(* holds the last row, and holds it until the end of the transaction.       *)
TakeCode(r) ==
  /\ up[r].pc = "write" /\ up[r].tcod = 0
  /\ maxLock = None
  /\ \E c \in Codes : IsNextCode(c) /\ up' = [up EXCEPT ![r].pc = "insert", ![r].tcod = c]
  /\ maxLock' = r
  /\ UNCHANGED <<tables, categoryCache, left, contested, racedGroups>>

(* The INSERT, the dependent tables and the COMMIT.                         *)
InsertProduct(r) ==
  LET u == up[r]
      barcode == StoredBarcode(u.sku, u.barcode)
  IN /\ u.pc = "insert"
     /\ name2' = name2 \cup {[tcod |-> u.tcod, nnom |-> barcode, group |-> u.group,
                              deleted |-> FALSE]}
     /\ strihcod' = BarcodesWith(u.tcod, barcode)
     /\ maxLock' = IF maxLock = r THEN None ELSE maxLock
     /\ up' = [up EXCEPT ![r].pc = "created"]
     /\ UNCHANGED <<name, categoryCache, left, contested, racedGroups>>

(* A query before or inside the transaction fails: ROLLBACK, and the error  *)
(* goes to the caller.                                                      *)
UpsertFails(r) ==
  /\ up[r].pc \in {"match", "category", "write", "insert"}
  /\ Event("query")
  /\ up' = [up EXCEPT ![r].pc = "failed"]
  /\ maxLock' = IF maxLock = r THEN None ELSE maxLock
  /\ UNCHANGED <<tables, categoryCache, contested, racedGroups>>

UpsertStep(r) ==
  \/ Match(r) \/ FindCategory(r) \/ FindNode(r) \/ InsertNode(r)
  \/ UpdateProduct(r) \/ TakeCode(r) \/ InsertProduct(r)

=============================================================================
