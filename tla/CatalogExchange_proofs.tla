----------------------- MODULE CatalogExchange_proofs -----------------------
(***************************************************************************)
(* What holds of CatalogExport for any number of imports, webhooks and     *)
(* exports, any cards, any tree of categories and any bounds:              *)
(*                                                                         *)
(*   CodesAreUnique            no product code is given twice;             *)
(*   MappingsAreTold           a mapping says that a product is synced     *)
(*                             only after the shop was told of it;         *)
(*   ProductsAreFiled          every product is filed under a category;    *)
(*   CategoryCodesAreDistinct  categories share codes only where two       *)
(*                             upserts raced for one;                      *)
(*   OldIsKept                 an import of what is new rewrites nothing   *)
(*                             that was there when it began;               *)
(*   BarcodesAreUnique         a barcode leads to one product;             *)
(*   ExportsAreComplete        an export sends every product, once;        *)
(*   ImportsAreComplete        an import takes every card, once.           *)
(*                                                                         *)
(* The codes come first: insertProductMaster reads MAX(tcod) + 1 FOR       *)
(* UPDATE, and whoever stands between that read and the INSERT holds the   *)
(* last rows, so that every code in the table is smaller than his.  A      *)
(* restore brings back a table whose codes were unique and waits for the   *)
(* open transaction; every other step leaves the codes as they are.        *)
(***************************************************************************)
EXTENDS CatalogExport, FunctionTheorems, FiniteSetTheorems, SequenceTheorems, TLAPS

(* A table of products: its rows have codes, each once.                     *)
Table(rows) ==
  /\ \A x \in rows : "tcod" \in DOMAIN x /\ x.tcod \in Int /\ x.tcod \in Codes
  /\ \A x, y \in rows : x.tcod = y.tcod => x = y

Locals ==
  /\ DOMAIN up = Runners
  /\ \A r \in Runners : "pc" \in DOMAIN up[r] /\ "tcod" \in DOMAIN up[r]

(* Whoever is about to insert holds the lock and the largest code.          *)
Inserting ==
  \A r \in Runners :
    up[r].pc = "insert" => /\ maxLock = r
                           /\ up[r].tcod \in Int /\ up[r].tcod \in Codes
                           /\ \A x \in name2 : x.tcod < up[r].tcod

SavedTable == saved # <<>> => Table(saved[1].name2)

CodesInv == Table(name2) /\ Locals /\ Inserting /\ SavedTable

(* A step that changes neither the products, nor the lock on the last rows, *)
(* nor the rollback point, and lets nobody begin to insert.                 *)
Quiet ==
  /\ name2' = name2 /\ maxLock' = maxLock /\ saved' = saved
  /\ Locals'
  /\ \A r \in Runners :
       up'[r].pc = "insert" => up[r].pc = "insert" /\ up'[r].tcod = up[r].tcod

LEMMA QuietKeeps == ASSUME CodesInv, Quiet PROVE CodesInv'
  BY DEF CodesInv, Quiet, Table, Locals, Inserting, SavedTable

(* The locals of one runner change, and he does not begin to insert.        *)
Moves(r, u) ==
  /\ up' = [up EXCEPT ![r] = u]
  /\ "pc" \in DOMAIN u /\ "tcod" \in DOMAIN u
  /\ u.pc # "insert"

Others == name2' = name2 /\ maxLock' = maxLock /\ saved' = saved

LEMMA MovesKeeps ==
  ASSUME CodesInv, NEW r \in Runners, NEW u, Moves(r, u), Others
  PROVE  CodesInv'
  <1>1. Locals'
    BY DEF CodesInv, Locals, Moves
  <1>2. \A s \in Runners : up'[s].pc = "insert" => up[s].pc = "insert" /\ up'[s].tcod = up[s].tcod
    BY DEF CodesInv, Locals, Moves
  <1> QED
    BY <1>1, <1>2, QuietKeeps DEF Quiet, Others

LEMMA MatchMoves ==
  ASSUME CodesInv, NEW r \in Runners, Match(r) PROVE \E u : Moves(r, u)
  <1>1. PICK t : up' = [up EXCEPT ![r].pc = "category", ![r].tcod = t]
    BY DEF Match
  <1>2. Moves(r, [up[r] EXCEPT !.pc = "category", !.tcod = t])
    BY <1>1 DEF CodesInv, Locals, Moves
  <1> QED
    BY <1>2

LEMMA CategoryIsMoves ==
  ASSUME CodesInv, NEW r \in Runners, NEW g, CategoryIs(r, g) PROVE \E u : Moves(r, u)
  <1>1. Moves(r, [up[r] EXCEPT !.pc = "write", !.group = g])
    BY DEF CodesInv, Locals, Moves, CategoryIs
  <1> QED
    BY <1>1

LEMMA FindCategoryMoves ==
  ASSUME CodesInv, NEW r \in Runners, FindCategory(r) PROVE \E u : Moves(r, u)
  <1>1. CASE \E g : CategoryIs(r, g)
    BY <1>1, CategoryIsMoves
  <1>2. CASE up' = [up EXCEPT ![r].pc = "node", ![r].rest = up[r].path]
    <2>1. Moves(r, [up[r] EXCEPT !.pc = "node", !.rest = up[r].path])
      BY <1>2 DEF CodesInv, Locals, Moves
    <2> QED
      BY <2>1
  <1> QED
    BY <1>1, <1>2 DEF FindCategory

LEMMA FindNodeMoves ==
  ASSUME CodesInv, NEW r \in Runners, FindNode(r) PROVE \E u : Moves(r, u)
  <1>1. CASE \E g : CategoryIs(r, g)
    BY <1>1, CategoryIsMoves
  <1>2. ASSUME NEW p, NEW q, up' = [up EXCEPT ![r].parent = p, ![r].rest = q]
        PROVE  \E u : Moves(r, u)
    <2>1. Moves(r, [up[r] EXCEPT !.parent = p, !.rest = q])
      BY <1>2 DEF CodesInv, Locals, Moves, FindNode
    <2> QED
      BY <2>1
  <1>3. ASSUME NEW g, up' = [up EXCEPT ![r].pc = "newNode", ![r].node = g]
        PROVE  \E u : Moves(r, u)
    <2>1. Moves(r, [up[r] EXCEPT !.pc = "newNode", !.node = g])
      BY <1>3 DEF CodesInv, Locals, Moves
    <2> QED
      BY <2>1
  <1>4. \/ \E g : CategoryIs(r, g)
        \/ \E p, q : up' = [up EXCEPT ![r].parent = p, ![r].rest = q]
        \/ \E g : up' = [up EXCEPT ![r].pc = "newNode", ![r].node = g]
    BY DEF FindNode
  <1> QED
    BY <1>1, <1>2, <1>3, <1>4

LEMMA InsertNodeMoves ==
  ASSUME CodesInv, NEW r \in Runners, InsertNode(r) PROVE \E u : Moves(r, u)
  <1>1. Moves(r, [up[r] EXCEPT !.pc = "node", !.parent = up[r].node, !.rest = Tail(up[r].rest)])
    BY DEF CodesInv, Locals, Moves, InsertNode
  <1> QED
    BY <1>1

LEMMA CategoryKeeps ==
  ASSUME CodesInv, NEW r \in Runners, saved' = saved,
         Match(r) \/ FindCategory(r) \/ FindNode(r) \/ InsertNode(r) \/ CategoryFails(r)
  PROVE  CodesInv'
  <1>1. Others
    BY DEF Others, Match, FindCategory, FindNode, InsertNode, CategoryFails, tables
  <1>2. CategoryFails(r) => \E u : Moves(r, u)
    BY CategoryIsMoves DEF CategoryFails
  <1>3. \E u : Moves(r, u)
    BY <1>2, MatchMoves, FindCategoryMoves, FindNodeMoves, InsertNodeMoves
  <1> QED
    BY <1>1, <1>3, MovesKeeps

-----------------------------------------------------------------------------
(* The transaction.                                                        *)

LEMMA UpdateKeeps ==
  ASSUME CodesInv, NEW r \in Runners, UpdateProduct(r), saved' = saved PROVE CodesInv'
  <1> DEFINE After(x) == IF x.tcod = up[r].tcod THEN Updated(x, up[r]) ELSE x
  <1>1. name2' = {After(x) : x \in name2}
    BY DEF UpdateProduct
  <1>2. \A x \in name2 : "tcod" \in DOMAIN After(x) /\ After(x).tcod = x.tcod
    BY DEF CodesInv, Table, Updated
  <1>3. Table(name2)'
    <2> HIDE DEF After
    <2> QED
      BY <1>1, <1>2 DEF CodesInv, Table
  <1>4. Locals' /\ maxLock' = maxLock
    BY DEF CodesInv, Locals, UpdateProduct
  <1>5. \A s \in Runners : up'[s].pc = "insert" => up[s].pc = "insert" /\ up'[s].tcod = up[s].tcod
    BY DEF CodesInv, Locals, UpdateProduct
  <1>6. Inserting'
    <2> HIDE DEF After
    <2> QED
      BY <1>1, <1>2, <1>4, <1>5 DEF CodesInv, Inserting
  <1> QED
    BY <1>3, <1>4, <1>6 DEF CodesInv, SavedTable

LEMMA TakeCodeKeeps ==
  ASSUME CodesInv, NEW r \in Runners, TakeCode(r), saved' = saved PROVE CodesInv'
  <1>1. PICK c \in Codes : IsNextCode(c) /\ up' = [up EXCEPT ![r].pc = "insert", ![r].tcod = c]
    BY DEF TakeCode
  <1>2. Locals' /\ name2' = name2
    BY <1>1 DEF CodesInv, Locals, TakeCode, tables
  <1>3. up'[r].pc = "insert" /\ up'[r].tcod = c /\ \A s \in Runners \ {r} : up'[s] = up[s]
    BY <1>1 DEF CodesInv, Locals
  <1>4. \A s \in Runners : up[s].pc # "insert"
    BY UpsertAssumption DEF CodesInv, Inserting, TakeCode
  <1>5. c \in Int /\ c \in Codes /\ \A x \in name2 : x.tcod < c
    BY <1>1, UpsertAssumption DEF IsNextCode, Codes
  <1>6. Inserting'
    BY <1>2, <1>3, <1>4, <1>5 DEF Inserting, TakeCode
  <1> QED
    BY <1>2, <1>6 DEF CodesInv, SavedTable

LEMMA InsertKeeps ==
  ASSUME CodesInv, NEW r \in Runners, InsertProduct(r), saved' = saved PROVE CodesInv'
  <1> DEFINE row == [tcod |-> up[r].tcod, nnom |-> StoredBarcode(up[r].sku, up[r].barcode),
                     group |-> up[r].group, deleted |-> FALSE]
  <1>1. name2' = name2 \cup {row} /\ "tcod" \in DOMAIN row /\ row.tcod = up[r].tcod
    BY DEF InsertProduct
  <1>2. /\ maxLock = r /\ up[r].tcod \in Int /\ up[r].tcod \in Codes
        /\ \A x \in name2 : x.tcod < up[r].tcod
    BY DEF CodesInv, Inserting, InsertProduct
  <1>3. Table(name2)'
    <2> HIDE DEF row
    <2> QED
      BY <1>1, <1>2 DEF CodesInv, Table
  <1>4. Locals' /\ up'[r].pc = "created" /\ \A s \in Runners \ {r} : up'[s] = up[s]
    BY DEF CodesInv, Locals, InsertProduct
  <1>5. \A s \in Runners : up'[s].pc # "insert"
    BY <1>2, <1>4 DEF CodesInv, Inserting
  <1> QED
    BY <1>3, <1>4, <1>5 DEF CodesInv, SavedTable, Inserting

LEMMA FailsKeeps ==
  ASSUME CodesInv, NEW r \in Runners, UpsertFails(r), saved' = saved PROVE CodesInv'
  <1>1. /\ Locals' /\ name2' = name2
        /\ up'[r].pc = "failed" /\ \A s \in Runners \ {r} : up'[s] = up[s]
    BY DEF CodesInv, Locals, UpsertFails, tables
  <1>2. Inserting'
    BY <1>1 DEF CodesInv, Inserting, UpsertFails
  <1> QED
    BY <1>1, <1>2 DEF CodesInv, SavedTable

LEMMA UpsertKeeps ==
  ASSUME CodesInv, NEW r \in Runners, saved' = saved,
         UpsertStep(r) \/ CategoryFails(r) \/ UpsertFails(r)
  PROVE  CodesInv'
  BY CategoryKeeps, UpdateKeeps, TakeCodeKeeps, InsertKeeps, FailsKeeps DEF UpsertStep

-----------------------------------------------------------------------------
(* The steps of the system, by what they do to products and categories.    *)

Frame == UNCHANGED <<name2, strihcod, name, categoryCache, maxLock, up, racedGroups, saved,
                     lostGroups>>

Upserts(r) ==
  /\ UpsertStep(r) \/ CategoryFails(r) \/ UpsertFails(r)
  /\ UNCHANGED <<saved, lostGroups>>

Takes(r) == \E skip, barcode : TakeCard(r, skip, barcode)

Turns(r) ==
  /\ NextCard(r)
  /\ UNCHANGED <<name2, strihcod, name, categoryCache, maxLock, racedGroups, saved, lostGroups>>

Kinds ==
  \/ Frame
  \/ \E r \in Runners : Upserts(r) \/ Takes(r) \/ Turns(r) \/ TakeRollbackPoint(r)
  \/ \E row \in Live : Delete(row)
  \/ Restore
  \/ Restart

LEMMA OwnStepKinds ==
  ASSUME NEW r \in Runners, ImportOwnStep(r)
  PROVE  Frame \/ Takes(r) \/ Turns(r) \/ TakeRollbackPoint(r)
  <1>2. CASE AcquireLock(r) \/ ReadKnown(r) \/ NextPage(r)
    BY <1>2 DEF Frame, AcquireLock, ReadKnown, NextPage, upsertVars, tables
  <1>3. CASE FetchHoroshop(r) \/ FetchProm(r) \/ FetchWoo(r)
    BY <1>3 DEF Frame, FetchHoroshop, FetchProm, FetchWoo, ReadsPage, upsertVars, tables
  <1>4. CASE TakeHoroshopCard(r) \/ TakePromCard(r) \/ TakeWooCard(r)
    BY <1>4 DEF Takes, TakeHoroshopCard, TakePromCard, TakeWooCard
  <1>5. CASE MapHoroshopProduct(r) \/ MapPromProduct(r) \/ WriteBack(r) \/ CardFails(r)
    BY <1>5 DEF Turns, MapHoroshopProduct, MapPromProduct, MapProduct, WriteBack, CardFails,
                tables
  <1>6. CASE EndHoroshop(r) \/ EndProm(r) \/ EndWoo(r)
    BY <1>6 DEF Frame, EndHoroshop, EndProm, EndWoo, EndImport, upsertVars, tables
  <1> QED
    BY <1>2, <1>3, <1>4, <1>5, <1>6 DEF ImportOwnStep

LEMMA StartsFrame == ASSUME NEW r \in Runners, ImportStarts(r) PROVE Frame
  BY DEF Frame, ImportStarts, TriggerHoroshopImport, TriggerPromImport, TriggerWooImport,
         StartHoroshopImport, StartPromImport, StartWooImport, ProductWebhook, Starts,
         upsertVars, tables

LEMMA FaultKinds == ASSUME ImportFaults PROVE Kinds
  <1>1. ASSUME NEW r \in Runners, FetchFails(r) PROVE Frame
    BY <1>1 DEF Frame, FetchFails, tables
  <1>2. ASSUME NEW r \in Runners, WriteBackFails(r) PROVE Turns(r)
    BY <1>2 DEF Turns, WriteBackFails, tables
  <1>3. ASSUME NEW r \in Runners, (CategoryFails(r) \/ UpsertFails(r)) /\ UNCHANGED importOnly
        PROVE  Upserts(r)
    BY <1>3 DEF Upserts, importOnly
  <1>4. ASSUME NEW shop \in Shops, TakenOut(shop) PROVE Frame
    BY <1>4 DEF Frame, TakenOut, tables
  <1> QED
    BY <1>1, <1>2, <1>3, <1>4 DEF ImportFaults, Kinds

LEMMA ExportFrame == ASSUME NEW r \in Runners, ExportStep(r) \/ SendFails(r) PROVE Frame
  <1>1. CASE ReadHoroshopPage(r) \/ ReadPromPage(r)
    BY <1>1 DEF Frame, ReadHoroshopPage, ReadPromPage, ReadPage, importVars, upsertVars, tables
  <1>2. CASE FilterHoroshop(r) \/ FilterProm(r)
    BY <1>2 DEF Frame, FilterHoroshop, FilterProm, FilterByMode, importVars, upsertVars, tables
  <1>3. CASE AskFeed(r)
    BY <1>3 DEF Frame, AskFeed, importVars, upsertVars, tables
  <1>4. CASE SendToHoroshop(r) \/ SendToProm(r)
    BY <1>4 DEF Frame, SendToHoroshop, SendToProm, Answers, upsertVars, tables
  <1>5. CASE PersistHoroshop(r) \/ PersistProm(r)
    BY <1>5 DEF Frame, PersistHoroshop, PersistProm, Persist, upsertVars, tables
  <1>6. CASE SendFails(r)
    BY <1>6 DEF Frame, SendFails, tables
  <1> QED
    BY <1>1, <1>2, <1>3, <1>4, <1>5, <1>6 DEF ExportStep

LEMMA ExportStartFrame == ASSUME NEW r \in Runners, ExportStarts(r) PROVE Frame
  BY DEF Frame, ExportStarts, TriggerHoroshopExport, TriggerPromExport,
     StartHoroshopExport, StartPromExport, StartExport, upsertVars, tables

LEMMA FeedFrame == ASSUME SendFeed \/ PromReadsFeed PROVE Frame
  BY DEF Frame, SendFeed, PromReadsFeed, upsertVars, tables

LEMMA StepKinds == ASSUME [ExchangeNext]_exchangeVars PROVE Kinds
  <1>1. CASE UNCHANGED exchangeVars
    BY <1>1 DEF Kinds, Frame, exchangeVars, importVars, upsertVars, tables
  <1>2. CASE ExchangeCrash
    BY <1>2 DEF Kinds, ExchangeCrash
  <1>3. ASSUME NEW r \in Runners, ImportStep(r) PROVE Kinds
    <2>1. CASE ImportOwnStep(r)
      BY <2>1, OwnStepKinds DEF Kinds
    <2>2. CASE UpsertStep(r) /\ UNCHANGED importOnly
      BY <2>2 DEF Kinds, Upserts, importOnly
    <2> QED
      BY <1>3, <2>1, <2>2 DEF ImportStep
  <1>4. CASE \E r \in Runners : ExportStep(r) \/ SendFails(r) \/ ExportStarts(r) \/ ImportStarts(r)
    BY <1>4, ExportFrame, ExportStartFrame, StartsFrame DEF Kinds
  <1>5. CASE SendFeed \/ PromReadsFeed
    BY <1>5, FeedFrame DEF Kinds
  <1> QED
    BY <1>1, <1>2, <1>3, <1>4, <1>5, FaultKinds DEF ExchangeNext, ExchangeStep

-----------------------------------------------------------------------------
(* The codes of the products.                                              *)

LEMMA FrameKeeps == ASSUME CodesInv, Frame PROVE CodesInv'
  <1>1. Locals'
    BY DEF CodesInv, Locals, Frame
  <1> QED
    BY <1>1, QuietKeeps DEF Quiet, Frame

LEMMA RollbackPointKeeps ==
  ASSUME CodesInv, NEW r \in Runners, TakeRollbackPoint(r) PROVE CodesInv'
  <1>1. UNCHANGED <<name2, maxLock, up>>
    BY DEF TakeRollbackPoint, upsertVars, tables
  <1>2. SavedTable'
    <2>1. CASE saved' = saved
      BY <1>1, <2>1 DEF CodesInv, SavedTable
    <2>2. CASE saved' = <<[name2 |-> name2, strihcod |-> strihcod, name |-> name]>>
      <3>1. saved'[1].name2 = name2
        BY <2>2
      <3> QED
        BY <3>1 DEF CodesInv, SavedTable
    <2> QED
      BY <2>1, <2>2 DEF TakeRollbackPoint
  <1> QED
    BY <1>1, <1>2 DEF CodesInv, Table, Locals, Inserting

LEMMA TakeCardKeeps ==
  ASSUME CodesInv, NEW r \in Runners, NEW skip, NEW barcode, TakeCard(r, skip, barcode)
  PROVE  CodesInv'
  <1>1. UNCHANGED <<name2, maxLock, saved>>
    BY DEF TakeCard, tables
  <1>2. CASE up' = up
    <2>1. Locals'
      BY <1>2 DEF CodesInv, Locals
    <2> QED
      BY <1>1, <1>2, <2>1, QuietKeeps DEF Quiet
  <1>3. ASSUME NEW sku, NEW path, StartUpsert(r, sku, barcode, path) PROVE CodesInv'
    <2>1. Moves(r, [NoUpsert EXCEPT !.pc = "match", !.sku = sku,
                                    !.barcode = barcode, !.path = path])
      BY <1>3 DEF StartUpsert, Moves, NoUpsert
    <2> QED
      BY <1>1, <2>1, MovesKeeps DEF Others
  <1> QED
    BY <1>2, <1>3 DEF TakeCard

LEMMA NextCardKeeps ==
  ASSUME CodesInv, NEW r \in Runners, NextCard(r), UNCHANGED <<name2, maxLock, saved>>
  PROVE  CodesInv'
  <1>1. Moves(r, NoUpsert)
    BY DEF NextCard, Moves, NoUpsert
  <1> QED
    BY <1>1, MovesKeeps DEF Others

(* The restore waits for the open transaction, so that nobody is between    *)
(* TakeCode and InsertProduct.                                              *)
LEMMA RestoreKeeps == ASSUME CodesInv, Restore PROVE CodesInv'
  <1>1. Table(name2)'
    BY DEF CodesInv, SavedTable, Restore, Table
  <1>2. \A r \in Runners : up[r].pc # "insert"
    BY UpsertAssumption DEF CodesInv, Inserting, Restore
  <1>3. UNCHANGED <<up, saved>>
    BY DEF Restore
  <1> QED
    BY <1>1, <1>2, <1>3 DEF CodesInv, Locals, Inserting, SavedTable

LEMMA DeleteKeeps == ASSUME CodesInv, NEW row \in Live, Delete(row) PROVE CodesInv'
  <1> DEFINE after == [row EXCEPT !.deleted = TRUE]
  <1>1. row \in name2 /\ name2' = (name2 \ {row}) \cup {after}
    BY DEF Delete, Live
  <1>2. "tcod" \in DOMAIN after /\ after.tcod = row.tcod
    BY <1>1 DEF CodesInv, Table
  <1>3. UNCHANGED <<up, maxLock, saved>>
    BY DEF Delete
  <1> HIDE DEF after
  <1>4. Table(name2)'
    BY <1>1, <1>2 DEF CodesInv, Table
  <1>5. Inserting'
    BY <1>1, <1>2, <1>3 DEF CodesInv, Inserting
  <1> QED
    BY <1>3, <1>4, <1>5 DEF CodesInv, Locals, SavedTable

LEMMA RestartKeeps == ASSUME CodesInv, Restart PROVE CodesInv'
  <1>1. Locals' /\ \A r \in Runners : up'[r].pc = "idle"
    BY DEF Restart, Locals, NoUpsert
  <1>2. UNCHANGED <<name2, saved>>
    BY DEF Restart, tables
  <1> QED
    BY <1>1, <1>2 DEF CodesInv, Table, Inserting, SavedTable

LEMMA InitCodes == ASSUME ExchangeInit PROVE CodesInv
  <1>1. name2 = InitialRows /\ saved = <<>> /\ up = [r \in Runners |-> NoUpsert]
    BY DEF ExchangeInit, ImportInit, UpsertInit
  <1>2. Table(name2)
    BY <1>1, UpsertAssumption DEF Table, Codes
  <1>3. Locals /\ Inserting
    BY <1>1 DEF Locals, Inserting, NoUpsert
  <1> QED
    BY <1>1, <1>2, <1>3 DEF CodesInv, SavedTable

LEMMA StepCodes == ASSUME CodesInv, [ExchangeNext]_exchangeVars PROVE CodesInv'
  <1>1. Kinds
    BY StepKinds
  <1>2. ASSUME NEW r \in Runners, Upserts(r) PROVE CodesInv'
    BY <1>2, UpsertKeeps DEF Upserts
  <1>3. ASSUME NEW r \in Runners, Takes(r) PROVE CodesInv'
    BY <1>3, TakeCardKeeps DEF Takes
  <1>4. ASSUME NEW r \in Runners, Turns(r) PROVE CodesInv'
    BY <1>4, NextCardKeeps DEF Turns
  <1> QED
    BY <1>1, <1>2, <1>3, <1>4, FrameKeeps, RollbackPointKeeps, DeleteKeeps, RestoreKeeps,
       RestartKeeps DEF Kinds

(* No code is ever given to two products: for any runners, shops, cards,    *)
(* pages and limits, and whatever is restored or fails meanwhile.           *)
THEOREM CodesAreUnique == ExchangeSpec => []CodesUnique
  <1>1. CodesInv => CodesUnique
    BY DEF CodesInv, Table, CodesUnique
  <1> QED
    BY <1>1, InitCodes, StepCodes, PTL DEF ExchangeSpec

-----------------------------------------------------------------------------
(* The mappings.  Whoever is saving the rows of a chunk has the shop's      *)
(* answer for every product in it.                                          *)
Told(m) ==
  \/ <<m.shop, m.tcod, m.status>> \in answered
  \/ m.status = "synced"
       /\ [shop |-> m.shop, article |-> m.article, tcod |-> m.tcod] \in writes

Tells(e) ==
  /\ \A t \in e.log : <<e.shop, t, "synced">> \in answered
  /\ \A k \in DOMAIN e.chunk :
       e.chunk[k].tcod \in e.log \/ <<e.shop, e.chunk[k].tcod, "error">> \in answered

Exporter(e) == DOMAIN e = DOMAIN NoExport /\ (e.pc = "persist" => Tells(e))

MappingsInv ==
  /\ DOMAIN exp = Runners
  /\ \A r \in Runners : Exporter(exp[r])
  /\ \A m \in mappings : Told(m)

LEMMA NoExportFields ==
  /\ DOMAIN NoExport = {"pc", "shop", "mode", "limit", "names", "page", "all", "rest",
                        "chunk", "log", "row", "start", "due", "sent", "again"}
  /\ NoExport.pc = "idle"
  BY DEF NoExport

(* What was answered or written stays so.                                   *)
Recorded == answered \subseteq answered' /\ writes \subseteq writes'

LEMMA ToldStays ==
  ASSUME Recorded, NEW m, Told(m) PROVE Told(m)'
  BY DEF Recorded, Told

LEMMA ExporterStays ==
  ASSUME Recorded, NEW e, Exporter(e) PROVE Exporter(e)'
  BY DEF Recorded, Exporter, Tells

(* One export moves on; a mapping that is saved is told.                    *)
LEMMA ExporterMoves ==
  ASSUME MappingsInv, Recorded, NEW r \in Runners, NEW e, exp' = [exp EXCEPT ![r] = e],
         Exporter(e)', \A m \in mappings' : m \in mappings \/ Told(m)'
  PROVE  MappingsInv'
  <1>1. DOMAIN exp' = Runners /\ exp'[r] = e /\ \A s \in Runners \ {r} : exp'[s] = exp[s]
    BY DEF MappingsInv
  <1>2. ASSUME NEW s \in Runners PROVE Exporter(exp[s])'
    <2>1. CASE s = r
      BY <1>1, <2>1
    <2>2. CASE s # r
      <3>1. PICK d : d = exp[s]
        OBVIOUS
      <3>2. Exporter(d)
        BY <3>1 DEF MappingsInv
      <3>3. Exporter(d)'
        BY <3>2, ExporterStays
      <3>4. exp'[s] = d
        BY <1>1, <2>2, <3>1
      <3> QED BY <3>3, <3>4
    <2> QED BY <2>1, <2>2
  <1>3. \A m \in mappings' : Told(m)'
    BY ToldStays DEF MappingsInv
  <1> QED BY <1>1, <1>2, <1>3 DEF MappingsInv

LEMMA ExportersRest ==
  ASSUME MappingsInv, Recorded, exp' = exp, \A m \in mappings' : m \in mappings \/ Told(m)'
  PROVE  MappingsInv'
  <1>1. ASSUME NEW s \in Runners PROVE Exporter(exp[s])'
    <2>1. PICK d : d = exp[s]
      OBVIOUS
    <2>2. Exporter(d)
      BY <2>1 DEF MappingsInv
    <2>3. Exporter(d)'
      BY <2>2, ExporterStays
    <2> QED BY <2>1, <2>3
  <1>2. \A m \in mappings' : Told(m)'
    BY ToldStays DEF MappingsInv
  <1> QED BY <1>1, <1>2 DEF MappingsInv

LEMMA OtherwiseTells ==
  ASSUME NEW e, DOMAIN e = DOMAIN NoExport, e.pc # "persist" PROVE Exporter(e)'
  BY DEF Exporter

LEMMA AfterChunkTells ==
  ASSUME NEW e, DOMAIN e = DOMAIN NoExport PROVE Exporter(AfterChunk(e))'
  <1> DEFINE sends == [e EXCEPT !.pc = "send", !.chunk = <<>>, !.log = {}, !.row = 1]
  <1>1. DOMAIN sends = DOMAIN NoExport /\ sends.pc = "send"
    BY NoExportFields
  <1>2. DOMAIN NoExport = DOMAIN NoExport /\ NoExport.pc # "persist"
    BY NoExportFields
  <1>3. PICK a : a = AfterChunk(e)
    OBVIOUS
  <1>4. a = NoExport \/ a = sends
    BY <1>3 DEF AfterChunk
  <1> HIDE DEF sends
  <1>5. DOMAIN a = DOMAIN NoExport /\ a.pc # "persist"
    BY <1>1, <1>2, <1>4
  <1>6. Exporter(a)'
    BY <1>5, OtherwiseTells
  <1> QED BY <1>3, <1>6

LEMMA ReadTells ==
  ASSUME MappingsInv, NEW r \in Runners, ReadPage(r) PROVE MappingsInv'
  <1>1. DOMAIN exp[r] = DOMAIN NoExport
    BY DEF MappingsInv, Exporter
  <1>2. Recorded /\ mappings' = mappings
    BY DEF ReadPage, importVars, Recorded
  <1>3. PICK e : /\ exp' = [exp EXCEPT ![r] = e]
                 /\ \/ e = NoExport
                    \/ \E all : e = [exp[r] EXCEPT !.all = all, !.page = @ + 1]
                    \/ \E all : e = [exp[r] EXCEPT !.all = all, !.pc = "filter"]
    BY DEF ReadPage
  <1>4. exp[r].pc = "read"
    BY DEF ReadPage
  <1>5. DOMAIN e = DOMAIN NoExport /\ e.pc # "persist"
    BY <1>1, <1>3, <1>4, NoExportFields
  <1>6. Exporter(e)'
    BY <1>5, OtherwiseTells
  <1> QED BY <1>2, <1>3, <1>6, ExporterMoves

LEMMA FilterTells ==
  ASSUME MappingsInv, NEW r \in Runners, NEW next, next # "persist", FilterByMode(r, next)
  PROVE  MappingsInv'
  <1>1. DOMAIN exp[r] = DOMAIN NoExport
    BY DEF MappingsInv, Exporter
  <1>2. Recorded /\ mappings' = mappings
    BY DEF FilterByMode, importVars, Recorded
  <1>3. PICK target, due :
          exp' = [exp EXCEPT ![r] =
            IF target = <<>> THEN NoExport
            ELSE [exp[r] EXCEPT !.pc = next, !.rest = target, !.due = due]]
    BY DEF FilterByMode
  <1>4. PICK e : e = IF target = <<>> THEN NoExport
                     ELSE [exp[r] EXCEPT !.pc = next, !.rest = target, !.due = due]
    OBVIOUS
  <1>5. DOMAIN e = DOMAIN NoExport /\ e.pc # "persist"
    <2>1. CASE target = <<>>
      BY <1>4, <2>1, NoExportFields
    <2>2. CASE target # <<>>
      BY <1>1, <1>4, <2>2, NoExportFields
    <2> QED BY <2>1, <2>2
  <1>6. Exporter(e)'
    BY <1>5, OtherwiseTells
  <1>7. exp' = [exp EXCEPT ![r] = e]
    BY <1>3, <1>4
  <1> QED BY <1>2, <1>6, <1>7, ExporterMoves

(* The answer covers every product of the chunk.                            *)
LEMMA AnswersTell ==
  ASSUME MappingsInv, NEW r \in Runners, NEW accepted, Answers(r, accepted)
  PROVE  MappingsInv'
  <1>1. PICK e : e = exp[r]
    OBVIOUS
  <1>2. DOMAIN e = DOMAIN NoExport
    BY <1>1 DEF MappingsInv, Exporter
  <1>3. PICK n : n = [NoteSent(e) EXCEPT !.pc = "persist", !.chunk = Chunk(e),
                                         !.log = accepted, !.rest = Rest(e)]
    OBVIOUS
  <1>4. /\ DOMAIN n = DOMAIN NoExport
        /\ n.shop = e.shop /\ n.chunk = Chunk(e) /\ n.log = accepted
    BY <1>2, <1>3, NoExportFields DEF NoteSent
  <1>5. exp' = [exp EXCEPT ![r] = n]
    BY <1>1, <1>3 DEF Answers
  <1>6. /\ Recorded /\ mappings' = mappings
        /\ \A t \in accepted : <<e.shop, t, "synced">> \in answered'
        /\ \A t \in CodesOf(Chunk(e)) : t \in accepted \/ <<e.shop, t, "error">> \in answered'
    BY <1>1 DEF Answers, Recorded
  <1>7. Tells(n)'
    BY <1>4, <1>6 DEF Tells, CodesOf
  <1>8. Exporter(n)'
    BY <1>4, <1>7 DEF Exporter
  <1> QED BY <1>5, <1>6, <1>8, ExporterMoves

LEMMA PersistTells ==
  ASSUME MappingsInv, NEW r \in Runners, NEW skip \in BOOLEAN, NEW row, Persist(r, skip, row),
         exp[r].row \in DOMAIN exp[r].chunk /\ ~skip => Told(row)
  PROVE  MappingsInv'
  <1>1. PICK e : e = exp[r]
    OBVIOUS
  <1>2. DOMAIN e = DOMAIN NoExport /\ e.pc = "persist" /\ Tells(e)
    BY <1>1 DEF MappingsInv, Exporter, Persist
  <1>3. Recorded
    BY DEF Persist, Recorded
  <1>4. \A m \in mappings' : m \in mappings \/ Told(m)'
    <2>1. mappings' = mappings \/ (mappings' = Saved(row) /\ Told(row))
      BY DEF Persist, SaveMapping
    <2>2. Told(row) => Told(row)'
      BY <1>3, ToldStays
    <2> QED BY <2>1, <2>2 DEF Saved
  <1>5. CASE exp' = [exp EXCEPT ![r] = AfterChunk(e)]
    <2>1. PICK a : a = AfterChunk(e)
      OBVIOUS
    <2>2. Exporter(AfterChunk(e))'
      BY <1>2, AfterChunkTells
    <2>3. Exporter(a)'
      BY <2>1, <2>2
    <2>4. exp' = [exp EXCEPT ![r] = a]
      BY <1>5, <2>1
    <2> QED BY <1>3, <1>4, <2>3, <2>4, ExporterMoves
  <1>6. CASE exp' = [exp EXCEPT ![r] = [e EXCEPT !.row = @ + 1]]
    <2>1. PICK a : a = [e EXCEPT !.row = @ + 1]
      OBVIOUS
    <2>2. DOMAIN a = DOMAIN NoExport /\ a.shop = e.shop /\ a.log = e.log /\ a.chunk = e.chunk
      BY <1>2, <2>1, NoExportFields
    <2>3. Tells(a)
      BY <1>2, <2>2 DEF Tells
    <2>4. Exporter(a)
      BY <2>2, <2>3 DEF Exporter
    <2>5. Exporter(a)'
      BY <1>3, <2>4, ExporterStays
    <2>6. exp' = [exp EXCEPT ![r] = a]
      BY <1>6, <2>1
    <2> QED BY <1>3, <1>4, <2>5, <2>6, ExporterMoves
  <1> QED BY <1>1, <1>5, <1>6 DEF Persist

LEMMA HoroshopRowTold ==
  ASSUME MappingsInv, NEW r \in Runners, PersistHoroshop(r) PROVE MappingsInv'
  <1>1. PICK e : e = exp[r]
    OBVIOUS
  <1>2. PICK row : row = HoroshopRow(e, CodeAt(e))
    OBVIOUS
  <1>3. Persist(r, FALSE, row)
    BY <1>1, <1>2 DEF PersistHoroshop
  <1>4. Tells(e)
    BY <1>1, <1>3 DEF MappingsInv, Exporter, Persist
  <1>5. /\ row.shop = e.shop /\ row.tcod = CodeAt(e)
        /\ row.status = IF CodeAt(e) \in e.log THEN "synced" ELSE "error"
    BY <1>2 DEF HoroshopRow, Row
  <1>6. e.row \in DOMAIN e.chunk => Told(row)
    BY <1>4, <1>5 DEF Tells, Told, CodeAt
  <1> QED BY <1>1, <1>3, <1>6, PersistTells

LEMMA PromRowTold ==
  ASSUME MappingsInv, NEW r \in Runners, PersistProm(r) PROVE MappingsInv'
  <1>1. PICK e : e = exp[r]
    OBVIOUS
  <1>2. PICK row : row = PromRow(e, CodeAt(e))
    OBVIOUS
  <1>0. PICK skip \in BOOLEAN : skip = (CodeAt(e) \notin e.log)
    OBVIOUS
  <1>3. Persist(r, skip, row)
    BY <1>1, <1>2, <1>0 DEF PersistProm
  <1>4. Tells(e)
    BY <1>1, <1>3 DEF MappingsInv, Exporter, Persist
  <1>5. row.shop = e.shop /\ row.tcod = CodeAt(e) /\ row.status = "synced"
    BY <1>2 DEF PromRow, Row
  <1>6. ~skip => Told(row)
    BY <1>0, <1>4, <1>5 DEF Tells, Told
  <1> QED BY <1>1, <1>3, <1>6, PersistTells

LEMMA ExportTells ==
  ASSUME MappingsInv, NEW r \in Runners, ExportStep(r) \/ SendFails(r) PROVE MappingsInv'
  <1>1. CASE ReadHoroshopPage(r) \/ ReadPromPage(r)
    BY <1>1, ReadTells DEF ReadHoroshopPage, ReadPromPage
  <1>2. CASE FilterHoroshop(r) \/ FilterProm(r)
    <2>1. FilterByMode(r, "send") \/ FilterByMode(r, "feed")
      BY <1>2 DEF FilterHoroshop, FilterProm
    <2> QED BY <2>1, FilterTells
  <1>3. CASE AskFeed(r)
    <2>1. PICK e : e = [exp[r] EXCEPT !.pc = "send"]
      OBVIOUS
    <2>2. DOMAIN e = DOMAIN NoExport /\ e.pc # "persist"
      BY <2>1, NoExportFields DEF MappingsInv, Exporter
    <2>3. Exporter(e)'
      BY <2>2, OtherwiseTells
    <2>4. exp' = [exp EXCEPT ![r] = e] /\ Recorded /\ mappings' = mappings
      BY <1>3, <2>1 DEF AskFeed, importVars, Recorded
    <2> QED BY <2>3, <2>4, ExporterMoves
  <1>4. CASE SendToHoroshop(r) \/ SendToProm(r)
    BY <1>4, AnswersTell DEF SendToHoroshop, SendToProm
  <1>5. CASE PersistHoroshop(r) \/ PersistProm(r)
    BY <1>5, HoroshopRowTold, PromRowTold
  <1>6. CASE SendFails(r)
    <2>1. PICK e : e = [NoteSent(exp[r]) EXCEPT !.rest = Rest(exp[r])]
      OBVIOUS
    <2>2. DOMAIN e = DOMAIN NoExport
      BY <2>1, NoExportFields DEF MappingsInv, Exporter, NoteSent
    <2>3. PICK a : a = AfterChunk(e)
      OBVIOUS
    <2>4. Exporter(AfterChunk(e))'
      BY <2>2, AfterChunkTells
    <2>5. Exporter(a)'
      BY <2>3, <2>4
    <2>6. exp' = [exp EXCEPT ![r] = a] /\ Recorded /\ mappings' = mappings
      BY <1>6, <2>1, <2>3 DEF SendFails, Recorded
    <2> QED BY <2>5, <2>6, ExporterMoves
  <1> QED BY <1>1, <1>2, <1>3, <1>4, <1>5, <1>6 DEF ExportStep

LEMMA ExportStartTells ==
  ASSUME MappingsInv, NEW r \in Runners, NEW shop, NEW mode, NEW limit,
         StartExport(r, shop, mode, limit)
  PROVE  MappingsInv'
  <1>1. PICK e : /\ exp' = [exp EXCEPT ![r] = e]
                 /\ \E names, start :
                      e = [NoExport EXCEPT !.pc = "read", !.shop = shop, !.mode = mode,
                                           !.limit = limit, !.names = names, !.start = start]
    BY DEF StartExport
  <1>2. DOMAIN e = DOMAIN NoExport /\ e.pc # "persist"
    BY <1>1, NoExportFields
  <1>3. Exporter(e)'
    BY <1>2, OtherwiseTells
  <1>4. Recorded /\ mappings' = mappings
    BY DEF StartExport, Recorded
  <1> QED BY <1>1, <1>3, <1>4, ExporterMoves

(* What an import maps it has written.                                      *)
LEMMA ImportTells ==
  ASSUME MappingsInv, NEW r \in Runners, MapProduct(r), UNCHANGED <<exp, answered>>
  PROVE  MappingsInv'
  <1>1. PICK m : m = [shop |-> imp[r].shop, tcod |-> up[r].tcod,
                      article |-> Imported(r).article, status |-> "synced"]
    OBVIOUS
  <1>2. Recorded /\ Imported(r) \in writes'
    BY DEF MapProduct, Recorded
  <1>3. Imported(r) = [shop |-> m.shop, article |-> m.article, tcod |-> m.tcod]
    BY <1>1 DEF Imported
  <1>4. Told(m)'
    <2>1. m.status = "synced"
      BY <1>1
    <2>2. [shop |-> m.shop, article |-> m.article, tcod |-> m.tcod] \in writes'
      BY <1>2, <1>3
    <2> QED BY <2>1, <2>2 DEF Told
  <1>5. mappings' = mappings \/ mappings' = Saved(m)
    BY <1>1 DEF MapProduct, SaveMapping
  <1>6. \A x \in mappings' : x \in mappings \/ Told(x)'
    BY <1>4, <1>5 DEF Saved
  <1> QED BY <1>2, <1>6, ExportersRest

LEMMA RestTells ==
  ASSUME MappingsInv, UNCHANGED <<exp, answered, mappings>>, writes \subseteq writes'
  PROVE  MappingsInv'
  BY ExportersRest DEF Recorded

(* Steps of imports that leave the mappings alone.                          *)
LEMMA ImportRestTells ==
  ASSUME MappingsInv, UNCHANGED <<exp, feedAsked, answered>>,
         \/ \E r \in Runners : ImportStep(r) \/ ImportStarts(r)
         \/ ImportFaults
  PROVE  MappingsInv'
  <1>1. ASSUME NEW r \in Runners, MapHoroshopProduct(r) \/ MapPromProduct(r) PROVE MappingsInv'
    BY <1>1, ImportTells DEF MapHoroshopProduct, MapPromProduct
  <1> DEFINE Calm == mappings' = mappings /\ writes \subseteq writes'
  <1>2. ASSUME NEW r \in Runners, ImportStarts(r) PROVE Calm
    BY <1>2 DEF ImportStarts, TriggerHoroshopImport, TriggerPromImport, TriggerWooImport,
                StartHoroshopImport, StartPromImport, StartWooImport, ProductWebhook, Starts
  <1>3. ASSUME NEW r \in Runners, UpsertStep(r) /\ UNCHANGED importOnly PROVE Calm
    BY <1>3 DEF importOnly
  <1>4. ASSUME NEW r \in Runners, ImportOwnStep(r),
               ~(MapHoroshopProduct(r) \/ MapPromProduct(r))
        PROVE  Calm
    <2>1. CASE TakeRollbackPoint(r) \/ AcquireLock(r) \/ ReadKnown(r) \/ NextPage(r)
      BY <2>1 DEF TakeRollbackPoint, AcquireLock, ReadKnown, NextPage
    <2>2. CASE FetchHoroshop(r) \/ FetchProm(r) \/ FetchWoo(r)
      BY <2>2 DEF FetchHoroshop, FetchProm, FetchWoo, ReadsPage
    <2>3. CASE TakeHoroshopCard(r) \/ TakePromCard(r) \/ TakeWooCard(r)
      BY <2>3 DEF TakeHoroshopCard, TakePromCard, TakeWooCard, TakeCard
    <2>4. CASE WriteBack(r) \/ CardFails(r)
      BY <2>4 DEF WriteBack, CardFails
    <2>5. CASE EndHoroshop(r) \/ EndProm(r) \/ EndWoo(r)
      BY <2>5 DEF EndHoroshop, EndProm, EndWoo, EndImport
    <2> QED BY <1>4, <2>1, <2>2, <2>3, <2>4, <2>5 DEF ImportOwnStep
  <1>5. ASSUME ImportFaults PROVE Calm
    BY <1>5 DEF ImportFaults, FetchFails, WriteBackFails, importOnly, TakenOut, Delete, Restore
  <1>6. Calm => MappingsInv'
    BY RestTells
  <1> QED BY <1>1, <1>2, <1>3, <1>4, <1>5, <1>6 DEF ImportStep

LEMMA CrashTells == ASSUME MappingsInv, ExchangeCrash PROVE MappingsInv'
  <1>1. exp' = [r \in Runners |-> NoExport] /\ Recorded /\ mappings' = mappings
    BY DEF ExchangeCrash, Restart, Recorded
  <1>2. PICK e : e = NoExport
    OBVIOUS
  <1>3. DOMAIN e = DOMAIN NoExport /\ e.pc # "persist"
    BY <1>2, NoExportFields
  <1>4. Exporter(e)'
    BY <1>3, OtherwiseTells
  <1>5. \A r \in Runners : exp'[r] = e
    BY <1>1, <1>2
  <1>6. ASSUME NEW r \in Runners PROVE Exporter(exp[r])'
    BY <1>4, <1>5
  <1>7. \A m \in mappings' : Told(m)'
    BY <1>1, ToldStays DEF MappingsInv
  <1> QED BY <1>1, <1>6, <1>7 DEF MappingsInv

LEMMA StepTells == ASSUME MappingsInv, [ExchangeNext]_exchangeVars PROVE MappingsInv'
  <1>1. CASE UNCHANGED exchangeVars
    BY <1>1, RestTells DEF exchangeVars, importVars
  <1>2. CASE \E r \in Runners : ExportStarts(r)
    BY <1>2, ExportStartTells DEF ExportStarts, TriggerHoroshopExport, TriggerPromExport,
       StartHoroshopExport, StartPromExport
  <1>3. CASE SendFeed \/ PromReadsFeed
    <2>1. UNCHANGED <<exp, answered, mappings>> /\ writes' = writes
      BY <1>3 DEF SendFeed, PromReadsFeed
    <2> QED BY <2>1, RestTells
  <1> QED BY <1>1, <1>2, <1>3, ExportTells, ImportRestTells, CrashTells
          DEF ExchangeNext, ExchangeStep

(* A row of product_mappings says what the shop said of the product, or     *)
(* what an import wrote, for any catalogues, batches and interleavings of   *)
(* exports and imports: a refused or lost request leaves no row that says   *)
(* otherwise (saveBatchMappings, persistExportMappingsSafe).                *)
THEOREM MappingsAreTold == ExchangeSpec => []MappingsTellTheShop
  <1>1. ExchangeInit => MappingsInv
    <2> SUFFICES ASSUME ExchangeInit PROVE MappingsInv
      OBVIOUS
    <2>2. exp = [r \in Runners |-> NoExport]
      BY DEF ExchangeInit
    <2>4. mappings = {}
      BY DEF ExchangeInit, ImportInit
    <2>3. Exporter(NoExport)
      BY NoExportFields DEF Exporter
    <2> QED BY <2>2, <2>3, <2>4 DEF MappingsInv
  <1>2. MappingsInv => MappingsTellTheShop
    BY DEF MappingsInv, Told, MappingsTellTheShop
  <1> QED BY <1>1, <1>2, StepTells, PTL DEF ExchangeSpec
-----------------------------------------------------------------------------
(* Sequences of any elements.                                              *)

IsSeq(s) == s \in Seq(ToSet(s))

LEMMA SeqIsSeq ==
  ASSUME NEW s, NEW S, s \in Seq(S) PROVE IsSeq(s)
  <1>1. /\ Len(s) \in Nat /\ DOMAIN s = 1 .. Len(s)
        /\ s = [i \in 1 .. Len(s) |-> s[i]]
    OBVIOUS
  <1>2. \A i \in 1 .. Len(s) : s[i] \in ToSet(s)
    BY <1>1 DEF ToSet
  <1>3. s \in [1 .. Len(s) -> ToSet(s)]
    BY <1>1, <1>2
  <1> QED BY <1>1, <1>3 DEF IsSeq

LEMMA SeqFacts ==
  ASSUME NEW s, IsSeq(s)
  PROVE  Len(s) \in Nat /\ DOMAIN s = 1 .. Len(s) /\ (s # <<>> => Len(s) > 0)
  BY DEF IsSeq

LEMMA AppendFacts ==
  ASSUME NEW s, IsSeq(s), NEW x
  PROVE  /\ IsSeq(Append(s, x))
         /\ Append(s, x) # <<>>
         /\ DOMAIN Append(s, x) = DOMAIN s \cup {Len(s) + 1}
         /\ Len(s) + 1 \notin DOMAIN s
         /\ Append(s, x)[Len(s) + 1] = x
         /\ \A i \in DOMAIN s : Append(s, x)[i] = s[i]
  <1> DEFINE S == ToSet(s) \cup {x}
  <1>1. s \in Seq(S) /\ x \in S
    BY DEF IsSeq
  <1> HIDE DEF S
  <1>2. Append(s, x) \in Seq(S)
    BY <1>1
  <1>3. /\ Len(Append(s, x)) = Len(s) + 1 /\ Append(s, x)[Len(s) + 1] = x
        /\ \A i \in 1 .. Len(s) : Append(s, x)[i] = s[i]
        /\ DOMAIN Append(s, x) = 1 .. Len(s) + 1
        /\ DOMAIN s = 1 .. Len(s) /\ Len(s) \in Nat
    BY <1>1
  <1>4. Append(s, x) # <<>>
    BY <1>1, <1>3
  <1>5. IsSeq(Append(s, x))
    BY <1>2, SeqIsSeq
  <1> QED BY <1>3, <1>4, <1>5

LEMMA TailFacts ==
  ASSUME NEW s, IsSeq(s), s # <<>>
  PROVE  /\ IsSeq(Tail(s))
         /\ \A i \in DOMAIN Tail(s) : i + 1 \in DOMAIN s /\ Tail(s)[i] = s[i + 1]
  <1> DEFINE S == ToSet(s)
  <1>1. s \in Seq(S)
    BY DEF IsSeq
  <1> HIDE DEF S
  <1>2. Tail(s) \in Seq(S)
    BY <1>1
  <1>3. IsSeq(Tail(s))
    BY <1>2, SeqIsSeq
  <1>4. /\ Len(Tail(s)) = Len(s) - 1 /\ DOMAIN Tail(s) = 1 .. Len(s) - 1 /\ Len(s) \in Nat
        /\ DOMAIN s = 1 .. Len(s) /\ \A i \in 1 .. Len(s) - 1 : Tail(s)[i] = s[i + 1]
    BY <1>1
  <1> QED BY <1>3, <1>4

LEMMA MapFacts ==
  ASSUME NEW s, IsSeq(s), NEW f, DOMAIN f = DOMAIN s, f = [i \in DOMAIN s |-> f[i]]
  PROVE  IsSeq(f)
  <1>1. DOMAIN s = 1 .. Len(s) /\ Len(s) \in Nat
    BY SeqFacts
  <1>2. f = [i \in 1 .. Len(s) |-> f[i]] /\ \A i \in 1 .. Len(s) : f[i] \in ToSet(f)
    BY <1>1 DEF ToSet
  <1>3. f \in [1 .. Len(s) -> ToSet(f)]
    BY <1>2
  <1> QED BY <1>1, <1>3 DEF IsSeq

-----------------------------------------------------------------------------
(* Every group that a product, an upsert, the cache or the rollback point   *)
(* holds is the code of a category, or one that a restore took away.        *)

GroupsOf(rows) == {rows[i].group : i \in DOMAIN rows}

FiledAmong(group, groups) ==
  \/ group \in groups \cup lostGroups
  \/ InitialGroups = <<>> /\ group = <<1>>

Product(x) == DOMAIN x = {"tcod", "nnom", "group", "deleted"}

Categories(rows) == IsSeq(rows) /\ (rows = <<>> => InitialGroups = <<>>)

(* An upsert before the loop over its path has no parent; in the loop it    *)
(* has one, or still a part of the path before it.                          *)
Holds(u) ==
  /\ DOMAIN u = DOMAIN NoUpsert
  /\ u.pc \in {"match", "category"} => u.parent = <<>>
  /\ u.pc \in {"node", "newNode"} => Filed(u.parent) \/ (u.parent = <<>> /\ u.rest # <<>>)
  /\ u.pc \in {"write", "insert"} => Filed(u.group)

HoldersFiled == DOMAIN up = Runners /\ \A r \in Runners : Holds(up[r])

CacheFiled ==
  /\ IsSeq(categoryCache)
  /\ \A i \in DOMAIN categoryCache : Filed(categoryCache[i][2])

ProductsFiled == \A x \in name2 : Product(x) /\ (x.deleted \/ Filed(x.group))

SavedFiled ==
  saved # <<>> =>
    /\ Categories(saved[1].name)
    /\ \A x \in saved[1].name2 :
         Product(x) /\ (x.deleted \/ FiledAmong(x.group, GroupsOf(saved[1].name)))

FiledInv == Categories(name) /\ HoldersFiled /\ CacheFiled /\ ProductsFiled /\ SavedFiled

LEMMA UpsertFields ==
  /\ DOMAIN NoUpsert = {"pc", "sku", "barcode", "path", "tcod", "parent", "rest", "node",
                        "group"}
  /\ NoUpsert.pc = "idle" /\ NoUpsert.parent = <<>>
  BY DEF NoUpsert

LEMMA CachedFacts ==
  ASSUME IsSeq(categoryCache), NEW path, NEW group
  PROVE  /\ IsSeq(Cached(path, group))
         /\ \A i \in DOMAIN Cached(path, group) :
              \/ \E j \in DOMAIN categoryCache : Cached(path, group)[i] = categoryCache[j]
              \/ Cached(path, group)[i] = <<path, group>>
  <1> DEFINE kept == IF Len(categoryCache) >= CacheSize THEN Tail(categoryCache)
                     ELSE categoryCache
  <1>0. PICK k : k = kept
    OBVIOUS
  <1>1. IsSeq(k) /\ \A i \in DOMAIN k : \E j \in DOMAIN categoryCache : k[i] = categoryCache[j]
    <2>1. CASE Len(categoryCache) >= CacheSize
      <3>1. categoryCache # <<>>
        BY <2>1, UpsertAssumption
      <3> QED BY <1>0, <2>1, <3>1, TailFacts
    <2>2. CASE ~(Len(categoryCache) >= CacheSize)
      BY <1>0, <2>2
    <2> QED BY <2>1, <2>2
  <1> DEFINE over == [i \in DOMAIN k |-> IF k[i][1] = path THEN <<path, group>> ELSE k[i]]
  <1>2. Cached(path, group) = over \/ Cached(path, group) = Append(k, <<path, group>>)
    BY <1>0 DEF Cached
  <1>3. IsSeq(over)
    <2>1. PICK f : f = over
      OBVIOUS
    <2>2. DOMAIN f = DOMAIN k /\ f = [i \in DOMAIN k |-> f[i]]
      BY <2>1
    <2>3. IsSeq(f)
      BY <1>1, <2>2, MapFacts
    <2> QED BY <2>1, <2>3
  <1>4. CASE Cached(path, group) = over
    BY <1>1, <1>3, <1>4
  <1>5. CASE Cached(path, group) = Append(k, <<path, group>>)
    <2>1. PICK p : p = <<path, group>>
      OBVIOUS
    <2>2. /\ IsSeq(Append(k, p)) /\ DOMAIN Append(k, p) = DOMAIN k \cup {Len(k) + 1}
          /\ Append(k, p)[Len(k) + 1] = p
          /\ \A i \in DOMAIN k : Append(k, p)[i] = k[i]
      BY <1>1, AppendFacts
    <2> QED BY <1>1, <1>5, <2>1, <2>2
  <1> QED BY <1>2, <1>4, <1>5

(* Categories come and none goes.                                          *)
Grows == Groups \subseteq Groups' /\ lostGroups \subseteq lostGroups'

LEMMA FiledStays == ASSUME Grows, NEW g, Filed(g) PROVE Filed(g)'
  BY DEF Grows, Filed

LEMMA HoldsStays == ASSUME Grows, NEW u, Holds(u) PROVE Holds(u)'
  BY FiledStays DEF Holds

LEMMA DefaultFiled == ASSUME Categories(name) PROVE Filed(DefaultGroup)
  <1>1. CASE name = <<>>
    BY <1>1 DEF Categories, Filed, DefaultGroup
  <1>2. CASE name # <<>>
    <2>1. 1 \in DOMAIN name
      BY <1>2, SeqFacts DEF Categories
    <2> QED BY <1>2, <2>1 DEF DefaultGroup, Filed, Groups
  <1> QED BY <1>1, <1>2

(* One runner's locals change; the others hold what they held.             *)
LEMMA HolderMoves ==
  ASSUME HoldersFiled, Grows, NEW r \in Runners, NEW u, up' = [up EXCEPT ![r] = u], Holds(u)'
  PROVE  HoldersFiled'
  <1>1. DOMAIN up' = Runners /\ up'[r] = u /\ \A s \in Runners \ {r} : up'[s] = up[s]
    BY DEF HoldersFiled
  <1>2. ASSUME NEW s \in Runners PROVE Holds(up[s])'
    <2>1. CASE s = r
      BY <1>1, <2>1
    <2>2. CASE s # r
      <3>1. PICK d : d = up[s]
        OBVIOUS
      <3>2. Holds(d)'
        BY <3>1, HoldsStays DEF HoldersFiled
      <3> QED BY <1>1, <2>2, <3>1, <3>2
    <2> QED BY <2>1, <2>2
  <1> QED BY <1>1, <1>2 DEF HoldersFiled

LEMMA HoldersRest ==
  ASSUME HoldersFiled, Grows, up' = up PROVE HoldersFiled'
  <1>1. ASSUME NEW s \in Runners PROVE Holds(up[s])'
    <2>1. PICK d : d = up[s]
      OBVIOUS
    <2>2. Holds(d)'
      BY <2>1, HoldsStays DEF HoldersFiled
    <2> QED BY <2>1, <2>2
  <1> QED BY <1>1 DEF HoldersFiled

LEMMA CacheRests ==
  ASSUME CacheFiled, Grows, categoryCache' = categoryCache PROVE CacheFiled'
  <1>1. ASSUME NEW i \in DOMAIN categoryCache PROVE Filed(categoryCache[i][2])'
    <2>1. PICK g : g = categoryCache[i][2]
      OBVIOUS
    <2>2. Filed(g)'
      BY <2>1, FiledStays DEF CacheFiled
    <2> QED BY <2>1, <2>2
  <1> QED BY <1>1 DEF CacheFiled

LEMMA CacheLearns ==
  ASSUME CacheFiled, Grows, NEW path, NEW g, categoryCache' = Cached(path, g), Filed(g)'
  PROVE  CacheFiled'
  <1>1. /\ IsSeq(Cached(path, g))
        /\ \A i \in DOMAIN Cached(path, g) :
              \/ \E j \in DOMAIN categoryCache : Cached(path, g)[i] = categoryCache[j]
              \/ Cached(path, g)[i] = <<path, g>>
    BY CachedFacts DEF CacheFiled
  <1>2. ASSUME NEW i \in DOMAIN categoryCache' PROVE Filed(categoryCache[i][2])'
    <2>1. PICK h : h = categoryCache'[i][2]
      OBVIOUS
    <2>2. h = g \/ \E j \in DOMAIN categoryCache : h = categoryCache[j][2]
      BY <1>1, <2>1
    <2>3. Filed(h)'
      BY <2>2, FiledStays DEF CacheFiled
    <2> QED BY <2>1, <2>3
  <1> QED BY <1>1, <1>2 DEF CacheFiled

LEMMA ProductsRest ==
  ASSUME ProductsFiled, Grows, name2' = name2 PROVE ProductsFiled'
  <1>1. ASSUME NEW x \in name2 PROVE Product(x) /\ (x.deleted \/ Filed(x.group)')
    <2>1. PICK g : g = x.group
      OBVIOUS
    <2>2. Filed(g) => Filed(g)'
      BY FiledStays
    <2> QED BY <2>1, <2>2 DEF ProductsFiled
  <1> QED BY <1>1 DEF ProductsFiled

LEMMA SavedRests ==
  ASSUME SavedFiled, lostGroups \subseteq lostGroups', saved' = saved PROVE SavedFiled'
  BY DEF SavedFiled, FiledAmong, Categories

LEMMA CategoryIsFiled ==
  ASSUME FiledInv, Grows, NEW r \in Runners, NEW g, CategoryIs(r, g), Filed(g)'
  PROVE  HoldersFiled'
  <1>1. PICK u : u = [up[r] EXCEPT !.pc = "write", !.group = g]
    OBVIOUS
  <1>2. DOMAIN up[r] = DOMAIN NoUpsert
    BY DEF FiledInv, HoldersFiled, Holds
  <1>3. DOMAIN u = DOMAIN NoUpsert /\ u.pc = "write" /\ u.group = g
    BY <1>1, <1>2, UpsertFields
  <1>4. Holds(u)'
    BY <1>3 DEF Holds
  <1>5. up' = [up EXCEPT ![r] = u]
    BY <1>1, <1>2 DEF CategoryIs, FiledInv, HoldersFiled
  <1> QED BY <1>4, <1>5, HolderMoves DEF FiledInv

(* Steps that change no table.                                             *)
TablesRest == UNCHANGED <<name2, name, saved, lostGroups>>

LEMMA TablesRestFiled ==
  ASSUME FiledInv, TablesRest
  PROVE  Grows /\ Categories(name)' /\ ProductsFiled' /\ SavedFiled'
  <1>1. Grows
    BY DEF TablesRest, Grows, Groups
  <1>2. Categories(name)'
    BY DEF FiledInv, TablesRest, Categories
  <1> QED BY <1>1, <1>2, ProductsRest, SavedRests DEF FiledInv, TablesRest

LEMMA MatchFiled ==
  ASSUME FiledInv, NEW r \in Runners, Match(r), TablesRest PROVE FiledInv'
  <1>1. PICK t : up' = [up EXCEPT ![r].pc = "category", ![r].tcod = t]
    BY DEF Match
  <1>2. PICK u : u = [up[r] EXCEPT !.pc = "category", !.tcod = t]
    OBVIOUS
  <1>3. DOMAIN up[r] = DOMAIN NoUpsert /\ up[r].parent = <<>>
    BY DEF FiledInv, HoldersFiled, Holds, Match
  <1>4. DOMAIN u = DOMAIN NoUpsert /\ u.pc = "category" /\ u.parent = <<>>
    BY <1>2, <1>3, UpsertFields
  <1>5. Holds(u)'
    BY <1>4 DEF Holds
  <1>6. up' = [up EXCEPT ![r] = u] /\ categoryCache' = categoryCache
    BY <1>1, <1>2 DEF Match, FiledInv, HoldersFiled
  <1>7. HoldersFiled' /\ CacheFiled'
    BY <1>5, <1>6, TablesRestFiled, HolderMoves, CacheRests DEF FiledInv
  <1> QED BY <1>7, TablesRestFiled DEF FiledInv

LEMMA FindCategoryFiled ==
  ASSUME FiledInv, NEW r \in Runners, FindCategory(r), TablesRest PROVE FiledInv'
  <1>0. Grows /\ Categories(name) /\ CacheFiled
    BY TablesRestFiled DEF FiledInv
  <1>1. CASE \E g : CategoryIs(r, g) /\ Filed(g) /\ categoryCache' = categoryCache
    <2>1. PICK g : CategoryIs(r, g) /\ Filed(g) /\ categoryCache' = categoryCache
      BY <1>1
    <2>2. Filed(g)'
      BY <1>0, <2>1, FiledStays
    <2>3. HoldersFiled' /\ CacheFiled'
      BY <1>0, <2>1, <2>2, CategoryIsFiled, CacheRests
    <2> QED BY <2>3, TablesRestFiled DEF FiledInv
  <1>2. CASE \E path, g : /\ CategoryIs(r, g) /\ Filed(g)
                          /\ categoryCache' = Cached(path, g)
    <2>1. PICK path, g : CategoryIs(r, g) /\ Filed(g) /\ categoryCache' = Cached(path, g)
      BY <1>2
    <2>2. Filed(g)'
      BY <1>0, <2>1, FiledStays
    <2>3. HoldersFiled' /\ CacheFiled'
      BY <1>0, <2>1, <2>2, CategoryIsFiled, CacheLearns
    <2> QED BY <2>3, TablesRestFiled DEF FiledInv
  <1>3. CASE /\ up' = [up EXCEPT ![r].pc = "node", ![r].rest = up[r].path]
             /\ up[r].path # <<>> /\ categoryCache' = categoryCache
    <2>1. PICK u : u = [up[r] EXCEPT !.pc = "node", !.rest = up[r].path]
      OBVIOUS
    <2>2. DOMAIN up[r] = DOMAIN NoUpsert /\ up[r].parent = <<>>
      BY DEF FiledInv, HoldersFiled, Holds, FindCategory
    <2>3. DOMAIN u = DOMAIN NoUpsert /\ u.pc = "node" /\ u.parent = <<>> /\ u.rest # <<>>
      BY <1>3, <2>1, <2>2, UpsertFields
    <2>4. Holds(u)'
      BY <2>3 DEF Holds
    <2>5. up' = [up EXCEPT ![r] = u]
      BY <1>3, <2>1 DEF FiledInv, HoldersFiled
    <2>6. HoldersFiled' /\ CacheFiled'
      BY <1>0, <1>3, <2>4, <2>5, HolderMoves, CacheRests DEF FiledInv
    <2> QED BY <2>6, TablesRestFiled DEF FiledInv
  <1>4. Filed(DefaultGroup)
    BY <1>0, DefaultFiled
  <1>5. \A i \in DOMAIN categoryCache : Filed(categoryCache[i][2])
    BY <1>0 DEF CacheFiled
  <1>6. \A n : \A row \in RowsNamed(n) : Filed(row.group)
    BY DEF RowsNamed, ToSet, Filed, Groups
  <1>7. \/ /\ CategoryIs(r, DefaultGroup) /\ categoryCache' = categoryCache
        \/ \E i \in DOMAIN categoryCache : /\ CategoryIs(r, categoryCache[i][2])
                                           /\ categoryCache' = categoryCache
        \/ \E row \in RowsNamed(up[r].path[1]) :
              CategoryIs(r, row.group) /\ categoryCache' = Cached(up[r].path, row.group)
        \/ /\ up' = [up EXCEPT ![r].pc = "node", ![r].rest = up[r].path]
           /\ up[r].path # <<>> /\ categoryCache' = categoryCache
    BY DEF FindCategory
  <1> QED BY <1>1, <1>2, <1>3, <1>4, <1>5, <1>6, <1>7

LEMMA FindNodeFiled ==
  ASSUME FiledInv, NEW r \in Runners, FindNode(r), TablesRest PROVE FiledInv'
  <1>0. /\ Grows /\ Categories(name) /\ CacheFiled
        /\ DOMAIN up[r] = DOMAIN NoUpsert /\ up[r].pc = "node"
        /\ Filed(up[r].parent) \/ (up[r].parent = <<>> /\ up[r].rest # <<>>)
    BY TablesRestFiled DEF FiledInv, HoldersFiled, Holds, FindNode
  <1>1. CASE /\ up[r].rest = <<>> /\ CategoryIs(r, up[r].parent)
             /\ categoryCache' = Cached(up[r].path, up[r].parent)
    <2>1. PICK g, path : g = up[r].parent /\ path = up[r].path
      OBVIOUS
    <2>2. Filed(g)' /\ CategoryIs(r, g) /\ categoryCache' = Cached(path, g)
      BY <1>0, <1>1, <2>1, FiledStays
    <2>3. HoldersFiled' /\ CacheFiled'
      BY <1>0, <2>2, CategoryIsFiled, CacheLearns
    <2> QED BY <2>3, TablesRestFiled DEF FiledInv
  <1>2. ASSUME NEW row \in Children(up[r].parent), categoryCache' = categoryCache,
               up' = [up EXCEPT ![r].parent = row.group, ![r].rest = Tail(@)]
        PROVE  FiledInv'
    <2>1. PICK u : u = [up[r] EXCEPT !.parent = row.group, !.rest = Tail(@)]
      OBVIOUS
    <2>2. DOMAIN u = DOMAIN NoUpsert /\ u.pc = "node" /\ u.parent = row.group
      BY <1>0, <2>1, UpsertFields
    <2>3. PICK g : g = row.group
      OBVIOUS
    <2>4. Filed(g)
      BY <2>3 DEF Children, ToSet, Filed, Groups
    <2>5. Filed(g)'
      BY <1>0, <2>4, FiledStays
    <2>6. Holds(u)'
      BY <2>2, <2>3, <2>5 DEF Holds
    <2>7. up' = [up EXCEPT ![r] = u]
      BY <1>2, <2>1 DEF FiledInv, HoldersFiled
    <2>8. HoldersFiled' /\ CacheFiled'
      BY <1>0, <1>2, <2>6, <2>7, HolderMoves, CacheRests DEF FiledInv
    <2> QED BY <2>8, TablesRestFiled DEF FiledInv
  <1>3. ASSUME NEW g, categoryCache' = categoryCache,
               up' = [up EXCEPT ![r].pc = "newNode", ![r].node = g]
        PROVE  FiledInv'
    <2>1. PICK u : u = [up[r] EXCEPT !.pc = "newNode", !.node = g]
      OBVIOUS
    <2>2. /\ DOMAIN u = DOMAIN NoUpsert /\ u.pc = "newNode"
          /\ u.parent = up[r].parent /\ u.rest = up[r].rest
      BY <1>0, <2>1, UpsertFields
    <2>3. Holds(u)
      BY <1>0, <2>2 DEF Holds
    <2>4. Holds(u)'
      BY <1>0, <2>3, HoldsStays
    <2>5. up' = [up EXCEPT ![r] = u]
      BY <1>3, <2>1 DEF FiledInv, HoldersFiled
    <2>6. HoldersFiled' /\ CacheFiled'
      BY <1>0, <1>3, <2>4, <2>5, HolderMoves, CacheRests DEF FiledInv
    <2> QED BY <2>6, TablesRestFiled DEF FiledInv
  <1>4. \/ /\ up[r].rest = <<>> /\ CategoryIs(r, up[r].parent)
           /\ categoryCache' = Cached(up[r].path, up[r].parent)
        \/ /\ categoryCache' = categoryCache
           /\ \E row \in Children(up[r].parent) :
                up' = [up EXCEPT ![r].parent = row.group, ![r].rest = Tail(@)]
        \/ /\ categoryCache' = categoryCache
           /\ \E g : up' = [up EXCEPT ![r].pc = "newNode", ![r].node = g]
    BY DEF FindNode
  <1> QED BY <1>1, <1>2, <1>3, <1>4

LEMMA InsertNodeFiled ==
  ASSUME FiledInv, NEW r \in Runners, InsertNode(r), UNCHANGED <<saved, lostGroups>>
  PROVE  FiledInv'
  <1>1. PICK row : row = [group |-> up[r].node, name_g |-> Head(up[r].rest),
                          parent |-> up[r].parent]
    OBVIOUS
  <1>2. name' = Append(name, row) /\ row.group = up[r].node
    BY <1>1 DEF InsertNode
  <1>3. /\ IsSeq(Append(name, row)) /\ Append(name, row) # <<>>
        /\ DOMAIN Append(name, row) = DOMAIN name \cup {Len(name) + 1}
        /\ Append(name, row)[Len(name) + 1] = row
        /\ \A i \in DOMAIN name : Append(name, row)[i] = name[i]
    BY AppendFacts DEF FiledInv, Categories
  <1>4. Categories(name)'
    BY <1>2, <1>3 DEF Categories
  <1>5. Grows
    BY <1>2, <1>3 DEF Grows, Groups
  <1>6. PICK u : u = [up[r] EXCEPT !.pc = "node", !.parent = up[r].node, !.rest = Tail(@)]
    OBVIOUS
  <1>7. DOMAIN u = DOMAIN NoUpsert /\ u.pc = "node" /\ u.parent = row.group
    BY <1>2, <1>6, UpsertFields DEF FiledInv, HoldersFiled, Holds
  <1>8. PICK g : g = row.group
    OBVIOUS
  <1>9. Filed(g)'
    BY <1>2, <1>3, <1>8 DEF Filed, Groups
  <1>10. Holds(u)'
    BY <1>7, <1>8, <1>9 DEF Holds
  <1>11. up' = [up EXCEPT ![r] = u] /\ categoryCache' = categoryCache /\ name2' = name2
    BY <1>6 DEF InsertNode, FiledInv, HoldersFiled
  <1>12. HoldersFiled' /\ CacheFiled' /\ ProductsFiled' /\ SavedFiled'
    BY <1>5, <1>10, <1>11, HolderMoves, CacheRests, ProductsRest, SavedRests DEF FiledInv
  <1> QED BY <1>4, <1>12 DEF FiledInv

LEMMA CategoryFailsFiled ==
  ASSUME FiledInv, NEW r \in Runners, CategoryFails(r), TablesRest PROVE FiledInv'
  <1>1. PICK g, path : g = DefaultGroup /\ path = up[r].path
    OBVIOUS
  <1>2. Filed(g)
    BY <1>1, DefaultFiled DEF FiledInv
  <1>3. Filed(g)'
    BY <1>2, FiledStays, TablesRestFiled
  <1>4. CategoryIs(r, g) /\ categoryCache' = Cached(path, g)
    BY <1>1 DEF CategoryFails
  <1>5. HoldersFiled' /\ CacheFiled'
    BY <1>3, <1>4, TablesRestFiled, CategoryIsFiled, CacheLearns DEF FiledInv
  <1> QED BY <1>5, TablesRestFiled DEF FiledInv

(* The locals of a runner change so that it holds no other group.           *)
LEMMA StageFiled ==
  ASSUME FiledInv, Grows, NEW r \in Runners, NEW u, up' = [up EXCEPT ![r] = u],
         DOMAIN u = DOMAIN NoUpsert, u.group = up[r].group,
         u.pc \notin {"match", "category", "node", "newNode"},
         u.pc = "insert" => up[r].pc = "write", u.pc # "write"
  PROVE  HoldersFiled'
  <1>1. PICK g : g = up[r].group
    OBVIOUS
  <1>2. u.pc = "insert" => Filed(g)
    BY <1>1 DEF FiledInv, HoldersFiled, Holds
  <1>3. u.pc = "insert" => Filed(g)'
    BY <1>2, FiledStays
  <1>4. Holds(u)'
    BY <1>1, <1>3 DEF Holds
  <1> QED BY <1>4, HolderMoves DEF FiledInv

LEMMA ProductWritten ==
  ASSUME FiledInv, Grows,
         \A x \in name2' : x \in name2 \/ (Product(x) /\ (x.deleted \/ Filed(x.group)'))
  PROVE  ProductsFiled'
  <1>1. ASSUME NEW x \in name2 PROVE Product(x) /\ (x.deleted \/ Filed(x.group)')
    <2>1. PICK g : g = x.group
      OBVIOUS
    <2>2. Filed(g) => Filed(g)'
      BY FiledStays
    <2> QED BY <2>1, <2>2 DEF FiledInv, ProductsFiled
  <1> QED BY <1>1 DEF ProductsFiled

LEMMA UpdateFiled ==
  ASSUME FiledInv, NEW r \in Runners, UpdateProduct(r), UNCHANGED <<saved, lostGroups>>
  PROVE  FiledInv'
  <1>1. Grows /\ Categories(name)' /\ SavedFiled' /\ categoryCache' = categoryCache
    BY SavedRests DEF UpdateProduct, Grows, Groups, FiledInv, Categories
  <1>2. PICK u : u = up[r]
    OBVIOUS
  <1>3. DOMAIN u = DOMAIN NoUpsert /\ u.pc = "write" /\ Filed(u.group)
    BY <1>2 DEF FiledInv, HoldersFiled, Holds, UpdateProduct
  <1>4. PICK g : g = u.group
    OBVIOUS
  <1>5. Filed(g)'
    BY <1>1, <1>3, <1>4, FiledStays
  <1>6. ASSUME NEW x \in name2
        PROVE  Product(Updated(x, u)) /\ Updated(x, u).group = g
    <2>1. Product(x)
      BY DEF FiledInv, ProductsFiled
    <2> QED BY <1>4, <2>1 DEF Product, Updated
  <1>7. \A x \in name2' : x \in name2 \/ (Product(x) /\ (x.deleted \/ Filed(x.group)'))
    <2>1. ASSUME NEW y \in name2'
          PROVE  y \in name2 \/ (Product(y) /\ y.group = g)
      <3>1. PICK x \in name2 : y = IF x.tcod = u.tcod THEN Updated(x, u) ELSE x
        BY <1>2 DEF UpdateProduct
      <3> QED BY <3>1, <1>6
    <2> QED BY <1>5, <2>1
  <1>8. ProductsFiled'
    BY <1>1, <1>7, ProductWritten
  <1>9. PICK v : v = [up[r] EXCEPT !.pc = "updated"]
    OBVIOUS
  <1>10. DOMAIN v = DOMAIN NoUpsert /\ v.pc = "updated" /\ v.group = up[r].group
    BY <1>2, <1>3, <1>9, UpsertFields
  <1>11. up' = [up EXCEPT ![r] = v]
    BY <1>9 DEF UpdateProduct, FiledInv, HoldersFiled
  <1>12. HoldersFiled'
    BY <1>1, <1>10, <1>11, StageFiled
  <1> QED BY <1>1, <1>8, <1>12, CacheRests DEF FiledInv

LEMMA TakeCodeFiled ==
  ASSUME FiledInv, NEW r \in Runners, TakeCode(r), TablesRest PROVE FiledInv'
  <1>1. PICK c : up' = [up EXCEPT ![r].pc = "insert", ![r].tcod = c]
    BY DEF TakeCode
  <1>2. PICK v : v = [up[r] EXCEPT !.pc = "insert", !.tcod = c]
    OBVIOUS
  <1>3. /\ DOMAIN v = DOMAIN NoUpsert /\ v.pc = "insert" /\ v.group = up[r].group
        /\ up[r].pc = "write"
    BY <1>2, UpsertFields DEF FiledInv, HoldersFiled, Holds, TakeCode
  <1>4. up' = [up EXCEPT ![r] = v] /\ categoryCache' = categoryCache
    BY <1>1, <1>2 DEF TakeCode, FiledInv, HoldersFiled
  <1>5. HoldersFiled' /\ CacheFiled'
    BY <1>3, <1>4, TablesRestFiled, StageFiled, CacheRests DEF FiledInv
  <1> QED BY <1>5, TablesRestFiled DEF FiledInv

LEMMA InsertFiled ==
  ASSUME FiledInv, NEW r \in Runners, InsertProduct(r), UNCHANGED <<saved, lostGroups>>
  PROVE  FiledInv'
  <1>1. Grows /\ Categories(name)' /\ SavedFiled' /\ categoryCache' = categoryCache
    BY SavedRests DEF InsertProduct, Grows, Groups, FiledInv, Categories
  <1>2. PICK g : g = up[r].group
    OBVIOUS
  <1>3. DOMAIN up[r] = DOMAIN NoUpsert /\ Filed(g)
    BY <1>2 DEF FiledInv, HoldersFiled, Holds, InsertProduct
  <1>4. Filed(g)'
    BY <1>1, <1>3, FiledStays
  <1>5. PICK row : row = [tcod |-> up[r].tcod, nnom |-> StoredBarcode(up[r].sku, up[r].barcode),
                          group |-> up[r].group, deleted |-> FALSE]
    OBVIOUS
  <1>6. name2' = name2 \cup {row}
    BY <1>5 DEF InsertProduct
  <1>7. Product(row) /\ row.group = g
    BY <1>2, <1>5 DEF Product
  <1>8. \A x \in name2' : x \in name2 \/ (Product(x) /\ (x.deleted \/ Filed(x.group)'))
    BY <1>4, <1>6, <1>7
  <1>9. ProductsFiled'
    BY <1>1, <1>8, ProductWritten
  <1>10. PICK v : v = [up[r] EXCEPT !.pc = "created"]
    OBVIOUS
  <1>11. DOMAIN v = DOMAIN NoUpsert /\ v.pc = "created" /\ v.group = up[r].group
    BY <1>3, <1>10, UpsertFields
  <1>12. up' = [up EXCEPT ![r] = v]
    BY <1>10 DEF InsertProduct, FiledInv, HoldersFiled
  <1>13. HoldersFiled'
    BY <1>1, <1>11, <1>12, StageFiled
  <1> QED BY <1>1, <1>9, <1>13, CacheRests DEF FiledInv

LEMMA UpsertFailsFiled ==
  ASSUME FiledInv, NEW r \in Runners, UpsertFails(r), TablesRest PROVE FiledInv'
  <1>1. PICK v : v = [up[r] EXCEPT !.pc = "failed"]
    OBVIOUS
  <1>2. DOMAIN v = DOMAIN NoUpsert /\ v.pc = "failed" /\ v.group = up[r].group
    BY <1>1, UpsertFields DEF FiledInv, HoldersFiled, Holds
  <1>3. up' = [up EXCEPT ![r] = v] /\ categoryCache' = categoryCache
    BY <1>1 DEF UpsertFails, FiledInv, HoldersFiled
  <1>4. HoldersFiled' /\ CacheFiled'
    BY <1>2, <1>3, TablesRestFiled, StageFiled, CacheRests DEF FiledInv
  <1> QED BY <1>4, TablesRestFiled DEF FiledInv

LEMMA UpsertsFiled ==
  ASSUME FiledInv, NEW r \in Runners, Upserts(r) PROVE FiledInv'
  <1>1. CASE Match(r) \/ FindCategory(r) \/ FindNode(r) \/ CategoryFails(r) \/ UpsertFails(r)
               \/ TakeCode(r)
    <2>1. TablesRest
      BY <1>1 DEF Upserts, TablesRest, Match, FindCategory, FindNode, CategoryFails,
                  UpsertFails, TakeCode, tables
    <2> QED BY <1>1, <2>1, MatchFiled, FindCategoryFiled, FindNodeFiled, CategoryFailsFiled,
               UpsertFailsFiled, TakeCodeFiled
  <1>2. CASE InsertNode(r)
    BY <1>2, InsertNodeFiled DEF Upserts
  <1>3. CASE UpdateProduct(r)
    BY <1>3, UpdateFiled DEF Upserts
  <1>4. CASE InsertProduct(r)
    BY <1>4, InsertFiled DEF Upserts
  <1> QED BY <1>1, <1>2, <1>3, <1>4 DEF Upserts, UpsertStep

LEMMA FrameFiled == ASSUME FiledInv, Frame PROVE FiledInv'
  <1>1. TablesRest /\ up' = up /\ categoryCache' = categoryCache
    BY DEF Frame, TablesRest
  <1>2. HoldersFiled' /\ CacheFiled'
    BY <1>1, TablesRestFiled, HoldersRest, CacheRests DEF FiledInv
  <1> QED BY <1>1, <1>2, TablesRestFiled DEF FiledInv

LEMMA TakesFiled == ASSUME FiledInv, NEW r \in Runners, Takes(r) PROVE FiledInv'
  <1>1. PICK skip, barcode : TakeCard(r, skip, barcode)
    BY DEF Takes
  <1>2. TablesRest /\ categoryCache' = categoryCache
    BY <1>1 DEF TakeCard, TablesRest, tables
  <1>3. CASE up' = up
    BY <1>2, <1>3, TablesRestFiled, HoldersRest, CacheRests DEF FiledInv
  <1>4. ASSUME NEW sku, NEW path, StartUpsert(r, sku, barcode, path) PROVE FiledInv'
    <2>1. PICK u : u = [NoUpsert EXCEPT !.pc = "match", !.sku = sku, !.barcode = barcode,
                                        !.path = path]
      OBVIOUS
    <2>2. DOMAIN u = DOMAIN NoUpsert /\ u.pc = "match" /\ u.parent = <<>>
      BY <2>1, UpsertFields
    <2>3. Holds(u)'
      BY <2>2 DEF Holds
    <2>4. up' = [up EXCEPT ![r] = u]
      BY <1>4, <2>1 DEF StartUpsert
    <2> QED BY <1>2, <2>3, <2>4, TablesRestFiled, HolderMoves, CacheRests DEF FiledInv
  <1> QED BY <1>1, <1>3, <1>4 DEF TakeCard

LEMMA TurnsFiled == ASSUME FiledInv, NEW r \in Runners, Turns(r) PROVE FiledInv'
  <1>1. TablesRest /\ categoryCache' = categoryCache
    BY DEF Turns, TablesRest
  <1>2. PICK u : u = NoUpsert
    OBVIOUS
  <1>3. Holds(u)'
    BY <1>2, UpsertFields DEF Holds
  <1>4. up' = [up EXCEPT ![r] = u]
    BY <1>2 DEF Turns, NextCard
  <1> QED BY <1>1, <1>3, <1>4, TablesRestFiled, HolderMoves, CacheRests DEF FiledInv

LEMMA RollbackPointFiled ==
  ASSUME FiledInv, NEW r \in Runners, TakeRollbackPoint(r) PROVE FiledInv'
  <1>1. UNCHANGED <<name2, name, lostGroups, up, categoryCache>>
    BY DEF TakeRollbackPoint, upsertVars, tables
  <1>2. Grows /\ Categories(name)'
    BY <1>1 DEF Grows, Groups, FiledInv, Categories
  <1>3. SavedFiled'
    <2>1. CASE saved' = saved
      BY <1>1, <2>1, SavedRests DEF FiledInv
    <2>2. CASE saved' = <<[name2 |-> name2, strihcod |-> strihcod, name |-> name]>>
      <3>1. saved'[1].name2 = name2 /\ saved'[1].name = name
        BY <2>2
      <3>2. \A g : Filed(g) => FiledAmong(g, GroupsOf(name))'
        BY <1>1 DEF Filed, FiledAmong, Groups, GroupsOf
      <3>3. \A x \in name2 : Product(x) /\ (x.deleted \/ FiledAmong(x.group, GroupsOf(name))')
        BY <3>2 DEF FiledInv, ProductsFiled
      <3> QED BY <1>1, <3>1, <3>3 DEF SavedFiled, FiledInv, Categories, FiledAmong, GroupsOf
    <2> QED BY <2>1, <2>2 DEF TakeRollbackPoint
  <1> QED BY <1>1, <1>2, <1>3, HoldersRest, CacheRests, ProductsRest DEF FiledInv

LEMMA DeleteFiled == ASSUME FiledInv, NEW row \in Live, Delete(row) PROVE FiledInv'
  <1>1. UNCHANGED <<name, saved, lostGroups, up, categoryCache>>
    BY DEF Delete
  <1>2. Grows /\ Categories(name)'
    BY <1>1 DEF Grows, Groups, FiledInv, Categories
  <1>3. PICK gone : gone = [row EXCEPT !.deleted = TRUE]
    OBVIOUS
  <1>4. Product(gone) /\ gone.deleted
    BY <1>3 DEF Live, FiledInv, ProductsFiled, Product
  <1>5. \A x \in name2' : x \in name2 \/ x = gone
    BY <1>3 DEF Delete
  <1>6. ProductsFiled'
    BY <1>2, <1>4, <1>5, ProductWritten
  <1> QED BY <1>1, <1>2, <1>6, HoldersRest, CacheRests, SavedRests DEF FiledInv

(* What the cache and the upserts still hold is either in the tables that   *)
(* come back or remembered as lost.                                         *)
LEMMA RestoreFiled == ASSUME FiledInv, Restore PROVE FiledInv'
  <1>1. /\ saved # <<>> /\ saved' = saved /\ up' = up /\ categoryCache' = categoryCache
        /\ name2' = saved[1].name2 /\ name' = saved[1].name
        /\ lostGroups \subseteq lostGroups'
    BY DEF Restore
  <1>2. \A i \in DOMAIN categoryCache :
          categoryCache[i][2] \in Groups' \cup lostGroups'
    <2>1. \A i \in DOMAIN categoryCache :
            categoryCache[i][2] \in {categoryCache[k][2] : k \in DOMAIN categoryCache}
      OBVIOUS
    <2> QED BY <2>1 DEF Restore, Groups
  <1>3. \A r \in Runners :
          up[r].group \in Groups' \cup lostGroups' /\ up[r].parent \in Groups' \cup lostGroups'
    <2>1. \A r \in Runners :
            /\ up[r].group \in UNION {{up[s].group, up[s].parent, up[s].node} : s \in Runners}
            /\ up[r].parent \in UNION {{up[s].group, up[s].parent, up[s].node} : s \in Runners}
      OBVIOUS
    <2> QED BY <2>1 DEF Restore, Groups
  <1>4. HoldersFiled'
    <2>1. ASSUME NEW r \in Runners PROVE Holds(up[r])'
      BY <1>1, <1>3 DEF FiledInv, HoldersFiled, Holds, Filed
    <2> QED BY <1>1, <2>1 DEF FiledInv, HoldersFiled
  <1>5. CacheFiled'
    BY <1>1, <1>2 DEF FiledInv, CacheFiled, Filed
  <1>6. Categories(name)'
    BY <1>1 DEF FiledInv, SavedFiled, Categories
  <1>7. ProductsFiled'
    BY <1>1 DEF FiledInv, SavedFiled, ProductsFiled, FiledAmong, Filed, Groups, GroupsOf
  <1> QED BY <1>1, <1>4, <1>5, <1>6, <1>7, SavedRests DEF FiledInv

LEMMA RestartFiled == ASSUME FiledInv, Restart PROVE FiledInv'
  <1>1. TablesRest /\ up' = [r \in Runners |-> NoUpsert] /\ categoryCache' = <<>>
    BY DEF Restart, TablesRest, tables
  <1>2. PICK u : u = NoUpsert
    OBVIOUS
  <1>3. Holds(u)'
    BY <1>2, UpsertFields DEF Holds
  <1>4. \A r \in Runners : up'[r] = u
    BY <1>1, <1>2
  <1>5. HoldersFiled'
    BY <1>1, <1>3, <1>4 DEF HoldersFiled
  <1>6. <<>> \in Seq({})
    OBVIOUS
  <1>7. IsSeq(<<>>)
    BY <1>6, SeqIsSeq
  <1>8. CacheFiled'
    BY <1>1, <1>7 DEF CacheFiled
  <1> QED BY <1>1, <1>5, <1>8, TablesRestFiled DEF FiledInv

LEMMA StepFiled == ASSUME FiledInv, [ExchangeNext]_exchangeVars PROVE FiledInv'
  BY StepKinds, FrameFiled, UpsertsFiled, TakesFiled, TurnsFiled, RollbackPointFiled,
     DeleteFiled, RestoreFiled, RestartFiled DEF Kinds

LEMMA InitFiled == ASSUME ExchangeInit PROVE FiledInv
  <1>1. /\ name2 = InitialRows /\ name = InitialGroups /\ categoryCache = <<>>
        /\ saved = <<>> /\ up = [r \in Runners |-> NoUpsert]
    BY DEF ExchangeInit, ImportInit, UpsertInit
  <1>2. Categories(name)
    BY <1>1, CategoryAssumption DEF Categories, IsSeq
  <1>3. PICK u : u = NoUpsert
    OBVIOUS
  <1>4. Holds(u)
    BY <1>3, UpsertFields DEF Holds
  <1>5. HoldersFiled
    BY <1>1, <1>3, <1>4 DEF HoldersFiled
  <1>6. <<>> \in Seq({})
    OBVIOUS
  <1>7. IsSeq(<<>>)
    BY <1>6, SeqIsSeq
  <1>8. CacheFiled
    BY <1>1, <1>7 DEF CacheFiled
  <1>9. ProductsFiled
    <2>1. \A x \in InitialRows : Product(x)
      BY UpsertAssumption DEF Product
    <2>2. \A x \in InitialRows :
            x.deleted \/ \E i \in DOMAIN InitialGroups : InitialGroups[i].group = x.group
      BY CategoryAssumption
    <2> QED BY <1>1, <2>1, <2>2 DEF ProductsFiled, Filed, Groups
  <1>10. SavedFiled
    BY <1>1 DEF SavedFiled
  <1> QED BY <1>2, <1>5, <1>8, <1>9, <1>10 DEF FiledInv

(* A product is filed under a category that exists, whatever the cache      *)
(* answers and whichever upserts make categories or fail; the exceptions    *)
(* are groups a restore took away from under the cache or an upsert, and    *)
(* "01" of a tenant that had no category (resolveCategoryGroup).            *)
THEOREM ProductsAreFiled == ExchangeSpec => []FiledUnderACategory
  <1>1. FiledInv => FiledUnderACategory
    BY DEF FiledInv, ProductsFiled, FiledUnderACategory, Live
  <1> QED BY <1>1, InitFiled, StepFiled, PTL DEF ExchangeSpec

-----------------------------------------------------------------------------
(* The codes of the categories.  A category has the code of its parent and  *)
(* one number more, or at the depth limit the very code of its parent, so   *)
(* that a number that is free under its parent is free everywhere.          *)

Child(group, parent) ==
  /\ group \in Seq(Nat) /\ parent \in Seq(Nat)
  /\ group = parent \/ \E n \in Nat : group = Append(parent, n)

Tree == \A i \in DOMAIN name : Child(name[i].group, name[i].parent)

(* What an upsert has chosen and not yet inserted.                         *)
Choice(u) ==
  /\ u.pc \in {"match", "category", "node", "newNode"} => u.parent \in Seq(Nat)
  /\ u.pc = "newNode" => Child(u.node, u.parent)

Unused(u) ==
  \/ u.node \in racedGroups
  \/ u.node = u.parent
  \/ \A i \in DOMAIN name : name[i].group = u.node => name[i].parent = u.node

Pending == \A r \in Runners : Choice(up[r]) /\ (up[r].pc = "newNode" => Unused(up[r]))

Together ==
  \A r, s \in Runners :
    r # s /\ up[r].pc = "newNode" /\ up[s].pc = "newNode" /\ up[r].node = up[s].node
      => up[r].node \in racedGroups

(* Categories are only added, until a restore takes the newest away.        *)
SavedFirst ==
  saved # <<>> =>
    \A i \in DOMAIN saved[1].name : i \in DOMAIN name /\ saved[1].name[i] = name[i]

TreeInv == Tree /\ Pending /\ Together /\ SavedFirst /\ CategoryCodesDistinct

LEMMA ParentIsOne ==
  ASSUME NEW p \in Seq(Nat), NEW q \in Seq(Nat), NEW m \in Nat, NEW n \in Nat,
         Append(p, m) = Append(q, n)
  PROVE  p = q
  <1>1. Len(p) + 1 = Len(q) + 1 /\ Len(p) \in Nat /\ Len(q) \in Nat
    <2>1. Len(Append(p, m)) = Len(p) + 1 /\ Len(Append(q, n)) = Len(q) + 1
      OBVIOUS
    <2> QED BY <2>1
  <1>2. Len(p) = Len(q)
    BY <1>1
  <1>3. ASSUME NEW i \in 1 .. Len(p) PROVE p[i] = q[i]
    <2>1. Append(p, m)[i] = p[i] /\ Append(q, n)[i] = q[i]
      BY <1>2
    <2> QED BY <2>1
  <1>4. /\ p = [i \in 1 .. Len(p) |-> p[i]] /\ q = [i \in 1 .. Len(q) |-> q[i]]
    OBVIOUS
  <1> QED BY <1>2, <1>3, <1>4

LEMMA FrontIsParent ==
  ASSUME NEW s \in Seq(Nat), s # <<>> PROVE Child(s, Front(s))
  <1>1. Len(s) \in Nat /\ Len(s) > 0
    OBVIOUS
  <1>2. PICK p : p = SubSeq(s, 1, Len(s) - 1)
    OBVIOUS
  <1>3. /\ p \in Seq(Nat) /\ Len(p) = Len(s) - 1
        /\ \A i \in 1 .. Len(s) - 1 : p[i] = s[i]
    <2>1. PICK m \in Nat : m = Len(s) - 1
      BY <1>1
    <2>2. \A i \in 1 .. m : s[i] \in Nat
      BY <1>1, <2>1
    <2>3. DOMAIN p = 1 .. m /\ Len(p) = m
      BY <1>2, <2>1
    <2>4. \A i \in 1 .. m : p[i] = s[i]
      BY <1>2, <2>1, <2>2
    <2>5. p \in Seq(Nat)
      BY <1>2, <2>1, <2>2
    <2> QED BY <2>1, <2>3, <2>4, <2>5
  <1>4. s[Len(s)] \in Nat
    BY <1>1
  <1>5. PICK n \in Nat : n = s[Len(s)]
    BY <1>4
  <1>6. Append(p, n) \in Seq(Nat) /\ Len(Append(p, n)) = Len(s)
    BY <1>1, <1>3
  <1>7. ASSUME NEW i \in 1 .. Len(s) PROVE Append(p, n)[i] = s[i]
    BY <1>1, <1>3, <1>5
  <1>8. s = Append(p, n)
    <2>1. PICK t : t = Append(p, n)
      OBVIOUS
    <2>2. t \in Seq(Nat) /\ Len(t) = Len(s) /\ \A i \in 1 .. Len(s) : t[i] = s[i]
      BY <1>6, <1>7, <2>1
    <2>3. s = [i \in 1 .. Len(s) |-> s[i]] /\ t = [i \in 1 .. Len(t) |-> t[i]]
      BY <2>2
    <2>4. s = t
      BY <1>1, <2>2, <2>3
    <2> QED BY <2>1, <2>4
  <1> QED BY <1>2, <1>3, <1>8 DEF Child, Front

(* An upsert moves and chooses no code.                                     *)
LEMMA CalmTree ==
  ASSUME FiledInv, TreeInv, NEW r \in Runners, NEW u, up' = [up EXCEPT ![r] = u],
         u.pc # "newNode", Choice(u), UNCHANGED <<name, saved, racedGroups>>
  PROVE  TreeInv'
  <1>1. DOMAIN up' = Runners /\ up'[r] = u /\ \A s \in Runners \ {r} : up'[s] = up[s]
    BY DEF FiledInv, HoldersFiled
  <1>2. Tree' /\ SavedFirst' /\ CategoryCodesDistinct'
    BY DEF TreeInv, Tree, SavedFirst, CategoryCodesDistinct
  <1>3. Pending'
    BY <1>1 DEF TreeInv, Pending, Choice, Unused
  <1>4. Together'
    BY <1>1 DEF TreeInv, Together
  <1> QED BY <1>2, <1>3, <1>4 DEF TreeInv

LEMMA FrameTree ==
  ASSUME TreeInv, UNCHANGED <<name, saved, racedGroups, up>> PROVE TreeInv'
  <1>1. Tree' /\ SavedFirst' /\ CategoryCodesDistinct'
    BY DEF TreeInv, Tree, SavedFirst, CategoryCodesDistinct
  <1>2. Pending' /\ Together'
    BY DEF TreeInv, Pending, Choice, Unused, Together
  <1> QED BY <1>1, <1>2 DEF TreeInv

Fields(r) == DOMAIN up[r] = DOMAIN NoUpsert

LEMMA HasFields == ASSUME FiledInv, NEW r \in Runners PROVE Fields(r)
  BY DEF FiledInv, HoldersFiled, Holds, Fields

LEMMA MatchTree ==
  ASSUME FiledInv, TreeInv, NEW r \in Runners, Match(r), saved' = saved PROVE TreeInv'
  <1>1. PICK t : up' = [up EXCEPT ![r].pc = "category", ![r].tcod = t]
    BY DEF Match
  <1>2. PICK u : u = [up[r] EXCEPT !.pc = "category", !.tcod = t]
    OBVIOUS
  <1>3. u.pc = "category" /\ u.parent = up[r].parent /\ up[r].pc = "match"
    BY <1>2, HasFields, UpsertFields DEF Fields, Match
  <1>4. Choice(u)
    BY <1>3 DEF Choice, TreeInv, Pending
  <1>5. up' = [up EXCEPT ![r] = u] /\ UNCHANGED <<name, racedGroups>>
    BY <1>1, <1>2 DEF Match, tables, FiledInv, HoldersFiled
  <1> QED BY <1>3, <1>4, <1>5, CalmTree

(* Any step that takes an upsert out of the loop.                           *)
LEMMA LeavesTree ==
  ASSUME FiledInv, TreeInv, NEW r \in Runners, NEW u, up' = [up EXCEPT ![r] = u],
         u.pc \notin {"match", "category", "node", "newNode"},
         UNCHANGED <<name, saved, racedGroups>>
  PROVE  TreeInv'
  <1>1. Choice(u) /\ u.pc # "newNode"
    BY DEF Choice
  <1> QED BY <1>1, CalmTree

LEMMA CategoryIsTree ==
  ASSUME FiledInv, TreeInv, NEW r \in Runners, NEW g, CategoryIs(r, g),
         UNCHANGED <<name, saved, racedGroups>>
  PROVE  TreeInv'
  <1>1. PICK u : u = [up[r] EXCEPT !.pc = "write", !.group = g]
    OBVIOUS
  <1>2. u.pc = "write"
    BY <1>1, HasFields, UpsertFields DEF Fields
  <1>3. up' = [up EXCEPT ![r] = u]
    BY <1>1 DEF CategoryIs, FiledInv, HoldersFiled
  <1> QED BY <1>2, <1>3, LeavesTree

LEMMA FindCategoryTree ==
  ASSUME FiledInv, TreeInv, NEW r \in Runners, FindCategory(r), saved' = saved PROVE TreeInv'
  <1>1. UNCHANGED <<name, racedGroups>> /\ up[r].pc = "category"
    BY DEF FindCategory, tables
  <1>2. CASE \E g : CategoryIs(r, g)
    BY <1>1, <1>2, CategoryIsTree
  <1>3. CASE up' = [up EXCEPT ![r].pc = "node", ![r].rest = up[r].path]
    <2>1. PICK u : u = [up[r] EXCEPT !.pc = "node", !.rest = up[r].path]
      OBVIOUS
    <2>2. u.pc = "node" /\ u.parent = up[r].parent
      BY <2>1, HasFields, UpsertFields DEF Fields
    <2>3. Choice(u)
      BY <1>1, <2>2 DEF Choice, TreeInv, Pending
    <2>4. up' = [up EXCEPT ![r] = u]
      BY <1>3, <2>1 DEF FiledInv, HoldersFiled
    <2> QED BY <1>1, <2>2, <2>3, <2>4, CalmTree
  <1> QED BY <1>2, <1>3 DEF FindCategory

(* The code that is chosen is a child's of the parent, and unused unless it *)
(* is remembered as raced.                                                  *)
LEMMA NextGroupIsChild ==
  ASSUME NEW p \in Seq(Nat), NEW g \in NextGroup(p) PROVE Child(g, p)
  <1>1. g = p \/ \E n \in Nat : g = Append(p, n)
    <2>1. ASSUME NEW N \in SUBSET Nat
          PROVE  \A h \in FreeUnder(p, N) : \E n \in Nat : h = Append(p, n)
      BY DEF FreeUnder
    <2>2. Roots \in SUBSET Nat /\ 1 .. Width \in SUBSET Nat /\ 0 .. Width \in SUBSET Nat
      BY UpsertAssumption
    <2> QED BY <2>1, <2>2 DEF NextGroup
  <1> QED BY <1>1 DEF Child

LEMMA FreeIsUnused ==
  ASSUME TreeInv, NEW p \in Seq(Nat), NEW N \in SUBSET Nat, NEW g \in FreeUnder(p, N),
         NEW i \in DOMAIN name, name[i].group = g
  PROVE  name[i].parent = g
  <1>1. PICK n \in N : g = Append(p, n) /\ g \notin {row.group : row \in Children(p)}
    BY DEF FreeUnder
  <1>2. name[i].parent # p
    BY <1>1 DEF Children, ToSet
  <1>3. Child(g, name[i].parent)
    BY DEF TreeInv, Tree
  <1>4. ASSUME NEW m \in Nat, g = Append(name[i].parent, m) PROVE FALSE
    BY <1>1, <1>2, <1>3, <1>4, ParentIsOne DEF Child
  <1> QED BY <1>3, <1>4 DEF Child

LEMMA ChosenIsUnused ==
  ASSUME TreeInv, NEW p \in Seq(Nat), NEW g \in NextGroup(p), ~UsedUp(p), g # p,
         NEW i \in DOMAIN name, name[i].group = g
  PROVE  name[i].parent = g
  <1>1. Roots \in SUBSET Nat /\ 1 .. Width \in SUBSET Nat
    BY UpsertAssumption
  <1>2. g \in FreeUnder(p, Roots) \/ g \in FreeUnder(p, 1 .. Width)
    BY DEF NextGroup
  <1> QED BY <1>1, <1>2, FreeIsUnused

LEMMA NewNodeTree ==
  ASSUME FiledInv, TreeInv, NEW r \in Runners, up[r].pc = "node", NEW g \in NextGroup(up[r].parent),
         up' = [up EXCEPT ![r].pc = "newNode", ![r].node = g],
         racedGroups' = racedGroups \cup
           IF UsedUp(up[r].parent)
              \/ \E s \in Runners \ {r} : up[s].pc = "newNode" /\ up[s].node = g
           THEN {g} ELSE {},
         UNCHANGED <<name, saved>>
  PROVE  TreeInv'
  <1>1. PICK u : u = [up[r] EXCEPT !.pc = "newNode", !.node = g]
    OBVIOUS
  <1>2. u.pc = "newNode" /\ u.node = g /\ u.parent = up[r].parent
    BY <1>1, HasFields, UpsertFields DEF Fields
  <1>3. up[r].parent \in Seq(Nat)
    BY DEF TreeInv, Pending, Choice
  <1>4. /\ DOMAIN up' = Runners /\ up'[r] = u /\ \A s \in Runners \ {r} : up'[s] = up[s]
        /\ racedGroups \subseteq racedGroups'
    BY <1>1 DEF FiledInv, HoldersFiled
  <1>5. Choice(u)
    BY <1>2, <1>3, NextGroupIsChild DEF Choice
  <1>6. UsedUp(up[r].parent) \/ (\E s \in Runners \ {r} : up[s].pc = "newNode" /\ up[s].node = g)
          => g \in racedGroups'
    OBVIOUS
  <1>7. Unused(u)'
    <2>1. CASE UsedUp(up[r].parent)
      BY <1>2, <1>6, <2>1 DEF Unused
    <2>2. CASE ~UsedUp(up[r].parent)
      BY <1>2, <1>3, <2>2, ChosenIsUnused DEF Unused
    <2> QED BY <2>1, <2>2
  <1>8. Pending'
    <2>1. ASSUME NEW s \in Runners \ {r}
          PROVE  Choice(up'[s]) /\ (up'[s].pc = "newNode" => Unused(up[s])')
      BY <1>4 DEF TreeInv, Pending, Unused
    <2>2. Choice(up'[r]) /\ Unused(up[r])'
      BY <1>4, <1>5, <1>7 DEF Unused
    <2> QED BY <2>1, <2>2 DEF Pending, Choice
  <1>9. Together'
    BY <1>2, <1>4, <1>6 DEF TreeInv, Together
  <1>10. Tree' /\ SavedFirst' /\ CategoryCodesDistinct'
    BY <1>4 DEF TreeInv, Tree, SavedFirst, CategoryCodesDistinct
  <1> QED BY <1>8, <1>9, <1>10 DEF TreeInv

LEMMA FindNodeTree ==
  ASSUME FiledInv, TreeInv, NEW r \in Runners, FindNode(r), saved' = saved PROVE TreeInv'
  <1>1. name' = name /\ up[r].pc = "node"
    BY DEF FindNode, tables
  <1>2. CASE CategoryIs(r, up[r].parent) /\ racedGroups' = racedGroups
    BY <1>1, <1>2, CategoryIsTree
  <1>3. ASSUME NEW row \in Children(up[r].parent), racedGroups' = racedGroups,
               up' = [up EXCEPT ![r].parent = row.group, ![r].rest = Tail(@)]
        PROVE  TreeInv'
    <2>1. PICK u : u = [up[r] EXCEPT !.parent = row.group, !.rest = Tail(@)]
      OBVIOUS
    <2>2. u.pc = "node" /\ u.parent = row.group
      BY <1>1, <2>1, HasFields, UpsertFields DEF Fields
    <2>3. row.group \in Seq(Nat)
      BY DEF Children, ToSet, TreeInv, Tree, Child
    <2>4. Choice(u)
      BY <2>2, <2>3 DEF Choice
    <2>5. up' = [up EXCEPT ![r] = u]
      BY <1>3, <2>1 DEF FiledInv, HoldersFiled
    <2> QED BY <1>1, <1>3, <2>2, <2>4, <2>5, CalmTree
  <1>4. \/ CategoryIs(r, up[r].parent) /\ racedGroups' = racedGroups
        \/ /\ racedGroups' = racedGroups
           /\ \E row \in Children(up[r].parent) :
                up' = [up EXCEPT ![r].parent = row.group, ![r].rest = Tail(@)]
        \/ \E g \in NextGroup(up[r].parent) :
             /\ up' = [up EXCEPT ![r].pc = "newNode", ![r].node = g]
             /\ racedGroups' = racedGroups \cup
                  IF UsedUp(up[r].parent)
                     \/ \E s \in Runners \ {r} : up[s].pc = "newNode" /\ up[s].node = g
                  THEN {g} ELSE {}
    BY DEF FindNode
  <1> QED BY <1>1, <1>2, <1>3, <1>4, NewNodeTree

(* The code is inserted: whoever else has chosen it is remembered.          *)
LEMMA InsertNodeTree ==
  ASSUME FiledInv, TreeInv, NEW r \in Runners, InsertNode(r), saved' = saved PROVE TreeInv'
  <1>1. PICK row : row = [group |-> up[r].node, name_g |-> Head(up[r].rest),
                          parent |-> up[r].parent]
    OBVIOUS
  <1>2. /\ name' = Append(name, row) /\ row.group = up[r].node /\ row.parent = up[r].parent
        /\ racedGroups' = racedGroups /\ up[r].pc = "newNode"
    BY <1>1 DEF InsertNode
  <1>3. PICK k : k = Len(name) + 1
    OBVIOUS
  <1>4. /\ DOMAIN name' = DOMAIN name \cup {k} /\ k \notin DOMAIN name
        /\ name'[k] = row /\ \A i \in DOMAIN name : name'[i] = name[i]
    BY <1>2, <1>3, AppendFacts DEF FiledInv, Categories
  <1>5. PICK u : u = [up[r] EXCEPT !.pc = "node", !.parent = up[r].node, !.rest = Tail(@)]
    OBVIOUS
  <1>6. u.pc = "node" /\ u.parent = row.group
    BY <1>2, <1>5, HasFields, UpsertFields DEF Fields
  <1>7. up'[r] = u /\ \A s \in Runners \ {r} : up'[s] = up[s]
    BY <1>5 DEF InsertNode, FiledInv, HoldersFiled
  <1>8. Child(row.group, row.parent)
    BY <1>2 DEF TreeInv, Pending, Choice
  <1>9. Tree'
    BY <1>4, <1>8 DEF TreeInv, Tree
  <1>10. SavedFirst'
    BY <1>4 DEF TreeInv, SavedFirst
  <1>11. \/ row.group \in racedGroups
         \/ row.group = row.parent
         \/ \A i \in DOMAIN name : name[i].group = row.group => name[i].parent = row.group
    BY <1>2 DEF TreeInv, Pending, Unused
  <1>12. CategoryCodesDistinct'
    BY <1>2, <1>4, <1>11 DEF TreeInv, CategoryCodesDistinct
  <1>13. ASSUME NEW s \in Runners \ {r}, up[s].pc = "newNode" PROVE Unused(up[s])'
    <2>1. Unused(up[s]) /\ up'[s] = up[s]
      BY <1>7, <1>13 DEF TreeInv, Pending
    <2>2. CASE up[s].node = row.group
      BY <1>2, <1>13, <2>1, <2>2 DEF TreeInv, Together, Unused
    <2>3. CASE up[s].node # row.group
      BY <1>2, <1>4, <2>1, <2>3 DEF Unused
    <2> QED BY <2>2, <2>3
  <1>14. Choice(u)
    BY <1>6, <1>8 DEF Choice, Child
  <1>15. Pending'
    <2>1. ASSUME NEW s \in Runners
          PROVE  Choice(up'[s]) /\ (up'[s].pc = "newNode" => Unused(up[s])')
      BY <1>6, <1>7, <1>13, <1>14 DEF TreeInv, Pending
    <2> QED BY <2>1 DEF Pending, Choice
  <1>16. Together'
    BY <1>2, <1>6, <1>7 DEF TreeInv, Together
  <1> QED BY <1>9, <1>10, <1>12, <1>15, <1>16 DEF TreeInv

LEMMA WritesTree ==
  ASSUME FiledInv, TreeInv, NEW r \in Runners, saved' = saved,
         UpdateProduct(r) \/ TakeCode(r) \/ InsertProduct(r) \/ UpsertFails(r)
  PROVE  TreeInv'
  <1>0. UNCHANGED <<name, racedGroups>>
    BY DEF UpdateProduct, TakeCode, InsertProduct, UpsertFails, tables
  <1>1. ASSUME NEW pc \in {"updated", "created", "failed"}, up' = [up EXCEPT ![r].pc = pc]
        PROVE  TreeInv'
    <2>1. PICK u : u = [up[r] EXCEPT !.pc = pc]
      OBVIOUS
    <2>2. u.pc = pc
      BY <2>1, HasFields, UpsertFields DEF Fields
    <2>3. up' = [up EXCEPT ![r] = u]
      BY <1>1, <2>1 DEF FiledInv, HoldersFiled
    <2> QED BY <1>0, <2>2, <2>3, LeavesTree
  <1>2. ASSUME NEW c, up' = [up EXCEPT ![r].pc = "insert", ![r].tcod = c] PROVE TreeInv'
    <2>1. PICK u : u = [up[r] EXCEPT !.pc = "insert", !.tcod = c]
      OBVIOUS
    <2>2. u.pc = "insert"
      BY <2>1, HasFields, UpsertFields DEF Fields
    <2>3. up' = [up EXCEPT ![r] = u]
      BY <1>2, <2>1 DEF FiledInv, HoldersFiled
    <2> QED BY <1>0, <2>2, <2>3, LeavesTree
  <1>3. \/ \E pc \in {"updated", "created", "failed"} : up' = [up EXCEPT ![r].pc = pc]
        \/ \E c : up' = [up EXCEPT ![r].pc = "insert", ![r].tcod = c]
    BY DEF UpdateProduct, TakeCode, InsertProduct, UpsertFails
  <1> QED BY <1>1, <1>2, <1>3

LEMMA UpsertsTree ==
  ASSUME FiledInv, TreeInv, NEW r \in Runners, Upserts(r) PROVE TreeInv'
  <1>1. saved' = saved
    BY DEF Upserts
  <1>2. ASSUME CategoryFails(r) PROVE TreeInv'
    BY <1>1, <1>2, CategoryIsTree DEF CategoryFails, tables
  <1> QED BY <1>1, <1>2, MatchTree, FindCategoryTree, FindNodeTree, InsertNodeTree, WritesTree
          DEF Upserts, UpsertStep

LEMMA TakesTree == ASSUME FiledInv, TreeInv, NEW r \in Runners, Takes(r) PROVE TreeInv'
  <1>1. PICK skip, barcode : TakeCard(r, skip, barcode)
    BY DEF Takes
  <1>2. UNCHANGED <<name, saved, racedGroups>>
    BY <1>1 DEF TakeCard, tables
  <1>3. CASE up' = up
    BY <1>2, <1>3, FrameTree
  <1>4. ASSUME NEW sku, NEW path, StartUpsert(r, sku, barcode, path) PROVE TreeInv'
    <2>1. PICK u : u = [NoUpsert EXCEPT !.pc = "match", !.sku = sku, !.barcode = barcode,
                                        !.path = path]
      OBVIOUS
    <2>2. u.pc = "match" /\ u.parent = <<>>
      BY <2>1, UpsertFields
    <2>3. Choice(u) /\ u.pc # "newNode"
      BY <2>2 DEF Choice
    <2>4. up' = [up EXCEPT ![r] = u]
      BY <1>4, <2>1 DEF StartUpsert
    <2> QED BY <1>2, <2>3, <2>4, CalmTree
  <1> QED BY <1>1, <1>3, <1>4 DEF TakeCard

LEMMA TurnsTree == ASSUME FiledInv, TreeInv, NEW r \in Runners, Turns(r) PROVE TreeInv'
  <1>1. PICK u : u = NoUpsert
    OBVIOUS
  <1>2. u.pc = "idle"
    BY <1>1, UpsertFields
  <1>3. up' = [up EXCEPT ![r] = u] /\ UNCHANGED <<name, saved, racedGroups>>
    BY <1>1 DEF Turns, NextCard
  <1> QED BY <1>2, <1>3, LeavesTree

LEMMA RollbackPointTree ==
  ASSUME TreeInv, NEW r \in Runners, TakeRollbackPoint(r) PROVE TreeInv'
  <1>1. UNCHANGED <<name, racedGroups, up>>
    BY DEF TakeRollbackPoint, upsertVars, tables
  <1>2. Tree' /\ CategoryCodesDistinct'
    BY <1>1 DEF TreeInv, Tree, CategoryCodesDistinct
  <1>3. Pending' /\ Together'
    BY <1>1 DEF TreeInv, Pending, Choice, Unused, Together
  <1>4. saved' = saved \/ saved' = <<[name2 |-> name2, strihcod |-> strihcod, name |-> name]>>
    BY DEF TakeRollbackPoint
  <1>5. SavedFirst'
    BY <1>1, <1>4 DEF TreeInv, SavedFirst
  <1> QED BY <1>2, <1>3, <1>5 DEF TreeInv

LEMMA RestoreTree == ASSUME TreeInv, Restore PROVE TreeInv'
  <1>1. saved # <<>> /\ name' = saved[1].name /\ UNCHANGED <<saved, up, racedGroups>>
    BY DEF Restore
  <1>2. \A i \in DOMAIN name' : i \in DOMAIN name /\ name'[i] = name[i]
    BY <1>1 DEF TreeInv, SavedFirst
  <1>3. Tree' /\ SavedFirst' /\ CategoryCodesDistinct'
    BY <1>1, <1>2 DEF TreeInv, Tree, SavedFirst, CategoryCodesDistinct
  <1>4. Pending' /\ Together'
    BY <1>1, <1>2 DEF TreeInv, Pending, Choice, Unused, Together
  <1> QED BY <1>3, <1>4 DEF TreeInv

LEMMA RestartTree == ASSUME TreeInv, Restart PROVE TreeInv'
  <1>1. UNCHANGED <<name, saved, racedGroups>> /\ up' = [r \in Runners |-> NoUpsert]
    BY DEF Restart, tables
  <1>2. \A r \in Runners : up'[r].pc = "idle"
    BY <1>1, UpsertFields
  <1>3. Tree' /\ SavedFirst' /\ CategoryCodesDistinct'
    BY <1>1 DEF TreeInv, Tree, SavedFirst, CategoryCodesDistinct
  <1>4. Pending' /\ Together'
    BY <1>2 DEF Pending, Choice, Together
  <1> QED BY <1>3, <1>4 DEF TreeInv

LEMMA DeleteTree == ASSUME TreeInv, NEW row \in Live, Delete(row) PROVE TreeInv'
  BY FrameTree DEF Delete

LEMMA StepTree == ASSUME FiledInv, TreeInv, [ExchangeNext]_exchangeVars PROVE TreeInv'
  <1>1. Frame => TreeInv'
    BY FrameTree DEF Frame
  <1> QED BY <1>1, StepKinds, UpsertsTree, TakesTree, TurnsTree, RollbackPointTree,
             DeleteTree, RestoreTree, RestartTree DEF Kinds

LEMMA InitTree == ASSUME ExchangeInit PROVE TreeInv
  <1>1. name = InitialGroups /\ saved = <<>> /\ up = [r \in Runners |-> NoUpsert]
    BY DEF ExchangeInit, ImportInit, UpsertInit
  <1>2. \A r \in Runners : up[r].pc = "idle"
    BY <1>1, UpsertFields
  <1>3. Tree
    <2>1. ASSUME NEW i \in DOMAIN InitialGroups
          PROVE  Child(InitialGroups[i].group, InitialGroups[i].parent)
      BY CategoryAssumption, FrontIsParent
    <2> QED BY <1>1, <2>1 DEF Tree
  <1>4. CategoryCodesDistinct
    BY <1>1, CategoryAssumption DEF CategoryCodesDistinct
  <1>5. Pending /\ Together /\ SavedFirst
    BY <1>1, <1>2 DEF Pending, Choice, Together, SavedFirst
  <1> QED BY <1>3, <1>4, <1>5 DEF TreeInv

(* Two categories share a code only where two upserts chose it at once, or  *)
(* the clock gave it, or one of them has the code of its parent: for any    *)
(* tree, widths and depths, and across restores and restarts                *)
(* (generateNextCategoryGroup).                                             *)
THEOREM CategoryCodesAreDistinct == ExchangeSpec => []CategoryCodesDistinct
  <1>1. FiledInv /\ TreeInv => CategoryCodesDistinct
    BY DEF TreeInv
  <1> QED BY <1>1, InitFiled, StepFiled, InitTree, StepTree, PTL DEF ExchangeSpec

-----------------------------------------------------------------------------
(* Imports of what is new.  Who carried an article when the import began    *)
(* carries it still, deleted or not: a restore waits for the import, an     *)
(* article that is there is never replaced, and barcodes are only added.    *)
Carried(p) ==
  p \in strihcod \/ \E x \in name2 : x.tcod = p[2] /\ x.nnom = p[1] /\ x.nnom # 0

Gone(t) == \E x \in name2 : x.tcod = t /\ x.deleted

Started == {"page", "card", "upsert", "end"}

OnlyNew(r, i, u) ==
  /\ DOMAIN i = DOMAIN NoImport
  /\ u.pc # "idle" => i.pc = "upsert"
  /\ i.onlyNew => i.shop \in {"horoshop", "prom"}
  /\ i.onlyNew /\ i.pc \in Started \cup {"known"} => lock = r
  /\ i.onlyNew /\ i.pc \in Started =>
       \A p \in i.old : Carried(p) /\ (i.shop = "prom" => p[1] \in i.known)
  /\ i.onlyNew /\ i.pc = "upsert" =>
       \A p \in i.old : p[1] = u.sku => i.shop = "horoshop" /\ Gone(p[2])

NewInv == DOMAIN imp = Runners /\ \A r \in Runners : OnlyNew(r, imp[r], up[r])

(* What a step does to products and barcodes while an import is under way.  *)
Remain ==
  /\ strihcod \subseteq strihcod'
  /\ \A x \in name2 : \E y \in name2' : /\ y.tcod = x.tcod
                                        /\ x.nnom # 0 => y.nnom = x.nnom
                                        /\ x.deleted => y.deleted

LEMMA NoImportFields ==
  /\ DOMAIN NoImport = {"pc", "shop", "onlyNew", "limit", "known", "page", "cursor", "fetched",
                        "short", "queue", "card", "seen", "again", "start", "gone", "old"}
  /\ NoImport.pc = "idle" /\ NoImport.onlyNew = FALSE
  BY DEF NoImport

LEMMA SameRemain == ASSUME UNCHANGED <<name2, strihcod>> PROVE Remain
  BY DEF Remain

LEMMA CarriedRemains == ASSUME Remain, NEW p, Carried(p) PROVE Carried(p)'
  <1>1. CASE p \in strihcod
    BY <1>1 DEF Remain, Carried
  <1>2. CASE \E x \in name2 : x.tcod = p[2] /\ x.nnom = p[1] /\ x.nnom # 0
    <2>1. PICK x \in name2 : x.tcod = p[2] /\ x.nnom = p[1] /\ x.nnom # 0
      BY <1>2
    <2>2. PICK y \in name2' : y.tcod = x.tcod /\ (x.nnom # 0 => y.nnom = x.nnom)
      BY DEF Remain
    <2> QED BY <2>1, <2>2 DEF Carried
  <1> QED BY <1>1, <1>2 DEF Carried

LEMMA GoneRemains == ASSUME Remain, NEW t, Gone(t) PROVE Gone(t)'
  BY DEF Remain, Gone

LEMMA OnlyNewRemains ==
  ASSUME Remain, NEW r, NEW i, NEW u, OnlyNew(r, i, u), lock = r => lock' = r
  PROVE  OnlyNew(r, i, u)'
  BY CarriedRemains, GoneRemains DEF OnlyNew

(* One runner takes a step.                                                *)
LEMMA OneMoves ==
  ASSUME NewInv, Remain, NEW r \in Runners, NEW i, NEW u,
         DOMAIN imp' = Runners, imp'[r] = i, up'[r] = u,
         \A s \in Runners \ {r} : imp'[s] = imp[s] /\ up'[s] = up[s] /\ (lock = s => lock' = s),
         OnlyNew(r, i, u)'
  PROVE  NewInv'
  <1>1. ASSUME NEW s \in Runners PROVE OnlyNew(s, imp[s], up[s])'
    <2>1. CASE s = r
      BY <2>1
    <2>2. CASE s # r
      <3>1. PICK j, v : j = imp[s] /\ v = up[s]
        OBVIOUS
      <3>2. OnlyNew(s, j, v) /\ (lock = s => lock' = s) /\ imp'[s] = j /\ up'[s] = v
        BY <2>2, <3>1 DEF NewInv
      <3>3. OnlyNew(s, j, v)'
        BY <3>2, OnlyNewRemains
      <3> QED BY <3>2, <3>3
    <2> QED BY <2>1, <2>2
  <1> QED BY <1>1 DEF NewInv

(* Nobody does.                                                            *)
LEMMA NobodyMoves ==
  ASSUME NewInv, Remain, imp' = imp, \A s \in Runners : up'[s] = up[s],
         lock' = lock
  PROVE  NewInv'
  <1>1. ASSUME NEW s \in Runners PROVE OnlyNew(s, imp[s], up[s])'
    <2>1. PICK j, v : j = imp[s] /\ v = up[s]
      OBVIOUS
    <2>2. OnlyNew(s, j, v) /\ imp'[s] = j /\ up'[s] = v
      BY <2>1 DEF NewInv
    <2>3. OnlyNew(s, j, v)'
      BY <2>2, OnlyNewRemains
    <2> QED BY <2>2, <2>3
  <1> QED BY <1>1 DEF NewInv

-----------------------------------------------------------------------------
(* The upserts.                                                            *)

LEMMA UpdateRemains ==
  ASSUME FiledInv, NEW r \in Runners, UpdateProduct(r) PROVE Remain
  <1> DEFINE After(x) == IF x.tcod = up[r].tcod THEN Updated(x, up[r]) ELSE x
  <1>1. name2' = {After(x) : x \in name2} /\ strihcod \subseteq strihcod'
    BY DEF UpdateProduct, BarcodesWith
  <1>2. ASSUME NEW x \in name2
        PROVE  /\ After(x).tcod = x.tcod /\ After(x).deleted = x.deleted
               /\ x.nnom # 0 => After(x).nnom = x.nnom
    <2>1. DOMAIN x = {"tcod", "nnom", "group", "deleted"}
      BY DEF FiledInv, ProductsFiled, Product
    <2> QED BY <2>1 DEF Updated
  <1> HIDE DEF After
  <1> QED BY <1>1, <1>2 DEF Remain

LEMMA InsertRemains ==
  ASSUME NEW r \in Runners, InsertProduct(r) PROVE Remain
  <1>1. name2 \subseteq name2' /\ strihcod \subseteq strihcod'
    BY DEF InsertProduct, BarcodesWith
  <1> QED BY <1>1 DEF Remain

LEMMA UpsertRemains ==
  ASSUME FiledInv, NEW r \in Runners, UpsertStep(r) \/ CategoryFails(r) \/ UpsertFails(r)
  PROVE  Remain
  <1>1. CASE \/ Match(r) \/ FindCategory(r) \/ FindNode(r) \/ InsertNode(r) \/ TakeCode(r)
             \/ CategoryFails(r) \/ UpsertFails(r)
    <2>1. UNCHANGED <<name2, strihcod>>
      BY <1>1 DEF Match, FindCategory, FindNode, InsertNode, TakeCode, CategoryFails,
                  UpsertFails, tables
    <2> QED BY <2>1, SameRemain
  <1> QED BY <1>1, UpdateRemains, InsertRemains DEF UpsertStep

(* An upsert keeps the article it was called with.                         *)
Keeps(r) ==
  /\ up'[r].sku = up[r].sku
  /\ \A s \in Runners \ {r} : up'[s] = up[s]

LEMMA CategoryIsKeeps ==
  ASSUME FiledInv, NEW r \in Runners, NEW g, CategoryIs(r, g)
  PROVE  Keeps(r)
  <1>1. DOMAIN up[r] = DOMAIN NoUpsert /\ DOMAIN up = Runners
    BY HasFields DEF Fields, FiledInv, HoldersFiled
  <1> QED BY <1>1, UpsertFields DEF CategoryIs, Keeps

LEMMA ArticleStays ==
  ASSUME FiledInv, NEW r \in Runners, UpsertStep(r) \/ CategoryFails(r) \/ UpsertFails(r)
  PROVE  up[r].pc # "idle" /\ Keeps(r)
  <1>1. DOMAIN up[r] = DOMAIN NoUpsert /\ DOMAIN up = Runners
    BY HasFields DEF Fields, FiledInv, HoldersFiled
  <1>2. CASE FindCategory(r)
    <2>1. (\E g : CategoryIs(r, g)) \/ up' = [up EXCEPT ![r].pc = "node", ![r].rest = up[r].path]
      BY <1>2 DEF FindCategory
    <2>2. ASSUME up' = [up EXCEPT ![r].pc = "node", ![r].rest = up[r].path] PROVE Keeps(r)
      BY <1>1, <2>2, UpsertFields DEF Keeps
    <2>3. up[r].pc # "idle"
      BY <1>2 DEF FindCategory
    <2> QED BY <2>1, <2>2, <2>3, CategoryIsKeeps
  <1>3. CASE FindNode(r)
    <2>1. \/ \E g : CategoryIs(r, g)
          \/ \E p, q : up' = [up EXCEPT ![r].parent = p, ![r].rest = q]
          \/ \E g : up' = [up EXCEPT ![r].pc = "newNode", ![r].node = g]
      BY <1>3 DEF FindNode
    <2>2. ASSUME \E p, q : up' = [up EXCEPT ![r].parent = p, ![r].rest = q] PROVE Keeps(r)
      BY <1>1, <2>2, UpsertFields DEF Keeps
    <2>3. ASSUME \E g : up' = [up EXCEPT ![r].pc = "newNode", ![r].node = g] PROVE Keeps(r)
      BY <1>1, <2>3, UpsertFields DEF Keeps
    <2>4. up[r].pc # "idle"
      BY <1>3 DEF FindNode
    <2> QED BY <2>1, <2>2, <2>3, <2>4, CategoryIsKeeps
  <1>4. CASE CategoryFails(r)
    BY <1>4, CategoryIsKeeps DEF CategoryFails
  <1>5. CASE Match(r)
    <2>1. PICK t : up' = [up EXCEPT ![r].pc = "category", ![r].tcod = t]
      BY <1>5 DEF Match
    <2> QED BY <1>1, <1>5, <2>1, UpsertFields DEF Keeps, Match
  <1>6. CASE InsertNode(r)
    <2>1. PICK p, q : up' = [up EXCEPT ![r].pc = "node", ![r].parent = p, ![r].rest = q]
      BY <1>6 DEF InsertNode
    <2> QED BY <1>1, <1>6, <2>1, UpsertFields DEF Keeps, InsertNode
  <1>7. CASE TakeCode(r)
    <2>1. PICK c : up' = [up EXCEPT ![r].pc = "insert", ![r].tcod = c]
      BY <1>7 DEF TakeCode
    <2> QED BY <1>1, <1>7, <2>1, UpsertFields DEF Keeps, TakeCode
  <1>8. CASE UpdateProduct(r) \/ InsertProduct(r) \/ UpsertFails(r)
    <2>1. PICK pc : up' = [up EXCEPT ![r].pc = pc]
      BY <1>8 DEF UpdateProduct, InsertProduct, UpsertFails
    <2>2. up[r].pc # "idle"
      BY <1>8 DEF UpdateProduct, InsertProduct, UpsertFails
    <2> QED BY <1>1, <2>1, <2>2, UpsertFields DEF Keeps
  <1> QED BY <1>2, <1>3, <1>4, <1>5, <1>6, <1>7, <1>8 DEF UpsertStep

LEMMA UpsertsNew ==
  ASSUME FiledInv, NewInv, NEW r \in Runners,
         UpsertStep(r) \/ CategoryFails(r) \/ UpsertFails(r), imp' = imp, lock' = lock
  PROVE  NewInv'
  <1>1. Remain
    BY UpsertRemains
  <1>2. Keeps(r)
    BY ArticleStays
  <1>3. up[r].pc # "idle"
    BY ArticleStays
  <1>4. PICK i, v, u : i = imp[r] /\ v = up[r] /\ u = up'[r]
    OBVIOUS
  <1>5. OnlyNew(r, i, v) /\ u.sku = v.sku /\ v.pc # "idle"
    BY <1>2, <1>3, <1>4 DEF NewInv, Keeps
  <1>6. OnlyNew(r, i, u)
    BY <1>5 DEF OnlyNew
  <1>7. OnlyNew(r, i, u)'
    BY <1>1, <1>6, OnlyNewRemains
  <1>8. /\ DOMAIN imp' = Runners /\ imp'[r] = i /\ up'[r] = u
        /\ \A s \in Runners \ {r} : imp'[s] = imp[s] /\ up'[s] = up[s] /\ (lock = s => lock' = s)
    BY <1>2, <1>4 DEF NewInv, Keeps
  <1> QED BY <1>1, <1>7, <1>8, OneMoves

-----------------------------------------------------------------------------
(* The import's own steps.                                                 *)

(* One import takes a step that begins no upsert, and has none in hand.    *)
Goes(r, i, u) ==
  /\ DOMAIN imp' = Runners /\ imp'[r] = i /\ up'[r] = u
  /\ \A s \in Runners \ {r} : imp'[s] = imp[s] /\ up'[s] = up[s] /\ (lock = s => lock' = s)
  /\ UNCHANGED <<name2, strihcod>>

LEMMA GoesNew ==
  ASSUME NewInv, NEW r \in Runners, NEW i, NEW u, Goes(r, i, u), OnlyNew(r, i, u)'
  PROVE  NewInv'
  <1>1. Remain
    BY SameRemain DEF Goes
  <1> QED BY <1>1, OneMoves DEF Goes

(* One that may go on, with what it has read.                              *)
GoesOn(i, j) ==
  /\ DOMAIN j = DOMAIN NoImport
  /\ i.pc \in Started /\ j.pc \in Started \ {"upsert"}
  /\ j.shop = i.shop /\ j.onlyNew = i.onlyNew /\ j.old = i.old /\ j.known = i.known

LEMMA GoesOnNew ==
  ASSUME NewInv, NEW r \in Runners, NEW j, NEW u, u.pc = "idle", Goes(r, j, u),
         lock' = lock, GoesOn(imp[r], j)
  PROVE  NewInv'
  <1>1. PICK i, v : i = imp[r] /\ v = up[r]
    OBVIOUS
  <1>2. OnlyNew(r, i, v) /\ GoesOn(i, j)
    BY <1>1 DEF NewInv
  <1>3. OnlyNew(r, j, u)
    BY <1>2 DEF OnlyNew, GoesOn
  <1>4. Remain
    BY SameRemain DEF Goes
  <1>5. OnlyNew(r, j, u)'
    BY <1>3, <1>4, OnlyNewRemains
  <1> QED BY <1>5, GoesNew

(* One that ends.                                                          *)
LEMMA EndsNew ==
  ASSUME NewInv, NEW r \in Runners, NEW u, u.pc = "idle", Goes(r, NoImport, u)
  PROVE  NewInv'
  <1>1. PICK j : j = NoImport
    OBVIOUS
  <1>2. DOMAIN j = DOMAIN NoImport /\ j.pc = "idle" /\ j.onlyNew = FALSE
    BY <1>1, NoImportFields
  <1>3. OnlyNew(r, j, u)'
    BY <1>2 DEF OnlyNew
  <1> QED BY <1>1, <1>3, GoesNew

(* While an import is not at an upsert it has none in hand.                *)
LEMMA NoneInHand ==
  ASSUME NewInv, NEW r \in Runners, imp[r].pc # "upsert"
  PROVE  up[r].pc = "idle"
  BY DEF NewInv, OnlyNew

LEMMA Imports ==
  ASSUME NewInv, NEW r \in Runners
  PROVE  DOMAIN imp = Runners /\ DOMAIN imp[r] = DOMAIN NoImport
  BY DEF NewInv, OnlyNew

LEMMA StartNew ==
  ASSUME NewInv, NEW r \in Runners, ImportStarts(r) PROVE NewInv'
  <1>1. up' = up /\ lock' = lock /\ UNCHANGED <<name2, strihcod>> /\ imp[r].pc = "idle"
    BY DEF ImportStarts, TriggerHoroshopImport, TriggerPromImport, TriggerWooImport,
           StartHoroshopImport, StartPromImport, StartWooImport, ProductWebhook, Starts,
           upsertVars, tables
  <1>2. PICK j : /\ imp' = [imp EXCEPT ![r] = j]
                 /\ DOMAIN j = DOMAIN NoImport
                 /\ \/ j.pc = "backup" /\ j.shop \in {"horoshop", "prom"}
                    \/ j.pc # "upsert" /\ j.onlyNew = FALSE
    <2>1. ASSUME NEW pc, NEW shop, NEW onlyNew, NEW limit, Starts(r, pc, shop, onlyNew, limit),
                 \/ pc = "backup" /\ shop \in {"horoshop", "prom"}
                 \/ pc = "page" /\ onlyNew = FALSE
          PROVE  \E j : /\ imp' = [imp EXCEPT ![r] = j]
                        /\ DOMAIN j = DOMAIN NoImport
                        /\ \/ j.pc = "backup" /\ j.shop \in {"horoshop", "prom"}
                           \/ j.pc # "upsert" /\ j.onlyNew = FALSE
      <3>1. PICK j : j = [NoImport EXCEPT !.pc = pc, !.shop = shop, !.onlyNew = onlyNew,
                                          !.limit = limit, !.start = CardIds(shop)]
        OBVIOUS
      <3>2. /\ DOMAIN j = DOMAIN NoImport
            /\ j.pc = pc /\ j.shop = shop /\ j.onlyNew = onlyNew
        BY <3>1, NoImportFields
      <3>3. imp' = [imp EXCEPT ![r] = j]
        BY <2>1, <3>1 DEF Starts
      <3> QED BY <2>1, <3>2, <3>3
    <2>2. ASSUME NEW k, ProductWebhook(r, k)
          PROVE  \E j : /\ imp' = [imp EXCEPT ![r] = j]
                        /\ DOMAIN j = DOMAIN NoImport
                        /\ j.pc # "upsert" /\ j.onlyNew = FALSE
      <3>1. PICK card : card = goods["woocommerce"][k]
        OBVIOUS
      <3>2. PICK j : j = [NoImport EXCEPT !.pc = "card", !.shop = "woocommerce",
                            !.queue = <<card>>, !.short = TRUE, !.start = {card.id}]
        OBVIOUS
      <3>3. DOMAIN j = DOMAIN NoImport /\ j.pc = "card" /\ j.onlyNew = FALSE
        BY <3>2, NoImportFields
      <3>4. imp' = [imp EXCEPT ![r] = j]
        BY <2>2, <3>1, <3>2 DEF ProductWebhook
      <3> QED BY <3>3, <3>4
    <2> QED
      BY <2>1, <2>2 DEF ImportStarts, TriggerHoroshopImport, TriggerPromImport,
         TriggerWooImport, StartHoroshopImport, StartPromImport, StartWooImport
  <1>3. PICK u : u = up[r]
    OBVIOUS
  <1>4. u.pc = "idle"
    BY <1>1, <1>3, NoneInHand
  <1>5. OnlyNew(r, j, u)'
    BY <1>2, <1>4 DEF OnlyNew, Started
  <1>6. Goes(r, j, u)
    BY <1>1, <1>2, <1>3, Imports DEF Goes
  <1> QED BY <1>5, <1>6, GoesNew

LEMMA RollbackPointNew ==
  ASSUME NewInv, NEW r \in Runners, TakeRollbackPoint(r) PROVE NewInv'
  <1>1. /\ up' = up /\ lock' = lock /\ UNCHANGED <<name2, strihcod>> /\ imp[r].pc = "backup"
        /\ imp' = [imp EXCEPT ![r].pc = "lock"]
    BY DEF TakeRollbackPoint, upsertVars, tables
  <1>2. PICK i, j, u : i = imp[r] /\ j = [i EXCEPT !.pc = "lock"] /\ u = up[r]
    OBVIOUS
  <1>3. /\ DOMAIN j = DOMAIN NoImport /\ j.pc = "lock"
        /\ j.shop = i.shop /\ j.onlyNew = i.onlyNew
    BY <1>2, Imports, NoImportFields
  <1>4. OnlyNew(r, i, u) /\ u.pc = "idle"
    BY <1>1, <1>2, NoneInHand DEF NewInv
  <1>5. OnlyNew(r, j, u)'
    BY <1>3, <1>4 DEF OnlyNew, Started
  <1>6. Goes(r, j, u)
    BY <1>1, <1>2, Imports DEF Goes
  <1> QED BY <1>5, <1>6, GoesNew

LEMMA AcquireNew ==
  ASSUME NewInv, NEW r \in Runners, AcquireLock(r) PROVE NewInv'
  <1>1. up' = up /\ UNCHANGED <<name2, strihcod>> /\ imp[r].pc = "lock"
    BY DEF AcquireLock, upsertVars, tables
  <1>2. PICK i, u : i = imp[r] /\ u = up[r]
    OBVIOUS
  <1>3. OnlyNew(r, i, u) /\ u.pc = "idle"
    BY <1>1, <1>2, NoneInHand DEF NewInv
  <1>4. CASE lock = None /\ lock' = r /\ imp' = [imp EXCEPT ![r].pc = "known"]
    <2>1. PICK j : j = [i EXCEPT !.pc = "known"]
      OBVIOUS
    <2>2. /\ DOMAIN j = DOMAIN NoImport /\ j.pc = "known"
          /\ j.shop = i.shop /\ j.onlyNew = i.onlyNew
      BY <1>2, <2>1, Imports, NoImportFields
    <2>3. OnlyNew(r, j, u)'
      BY <1>3, <1>4, <2>2 DEF OnlyNew, Started
    <2>4. \A s \in Runners : lock # s
      BY <1>4, UpsertAssumption
    <2>5. Goes(r, j, u)
      BY <1>1, <1>2, <1>4, <2>1, <2>4, Imports DEF Goes
    <2> QED BY <2>3, <2>5, GoesNew
  <1>5. CASE lock' = lock /\ imp' = [imp EXCEPT ![r] = NoImport]
    <2>1. Goes(r, NoImport, u)
      BY <1>1, <1>2, <1>5, Imports DEF Goes
    <2> QED BY <1>3, <2>1, EndsNew
  <1> QED BY <1>4, <1>5 DEF AcquireLock

(* What is carried now is in the table, and known to Prom's import.        *)
LEMMA CarriedIsKnown ==
  ASSUME NEW p \in CarriedNow PROVE Carried(p) /\ p[1] \in AllExistingSkus
  <1>1. CASE p \in strihcod
    BY <1>1 DEF Carried, AllExistingSkus
  <1>2. CASE p \notin strihcod
    <2>1. PICK x \in Live : x.nnom # 0 /\ p = <<x.nnom, x.tcod>>
      BY <1>2 DEF CarriedNow
    <2>2. x \in name2 /\ p[1] = x.nnom /\ p[2] = x.tcod
      BY <2>1 DEF Live
    <2>3. Carried(p)
      BY <2>1, <2>2 DEF Carried
    <2>4. p[1] \in {row.nnom : row \in Live} \ {0}
      BY <2>1, <2>2
    <2> QED BY <2>3, <2>4 DEF AllExistingSkus
  <1> QED BY <1>1, <1>2

LEMMA ReadKnownNew ==
  ASSUME NewInv, NEW r \in Runners, ReadKnown(r) PROVE NewInv'
  <1>1. up' = up /\ lock' = lock /\ UNCHANGED <<name2, strihcod>> /\ imp[r].pc = "known"
    BY DEF ReadKnown, upsertVars, tables
  <1>2. PICK i, u : i = imp[r] /\ u = up[r]
    OBVIOUS
  <1>3. PICK j, known, old :
          /\ j = [i EXCEPT !.pc = "page", !.known = known, !.old = old]
          /\ old = CarriedNow
          /\ i.shop = "prom" /\ i.onlyNew => known = AllExistingSkus
          /\ imp' = [imp EXCEPT ![r] = j]
    <2>1. PICK known, old :
            /\ known = IF i.shop = "prom" /\ i.onlyNew THEN KnownSkus(r) ELSE {}
            /\ old = CarriedNow
      OBVIOUS
    <2>2. imp' = [imp EXCEPT ![r].pc = "page", ![r].known = known, ![r].old = old]
      BY <1>2, <2>1 DEF ReadKnown
    <2>3. PICK j : j = [i EXCEPT !.pc = "page", !.known = known, !.old = old]
      OBVIOUS
    <2>4. imp' = [imp EXCEPT ![r] = j]
      BY <1>2, <2>2, <2>3
    <2>5. i.shop = "prom" /\ i.onlyNew => known = AllExistingSkus
      BY <2>1 DEF KnownSkus
    <2> QED BY <2>1, <2>3, <2>4, <2>5
  <1>4. /\ DOMAIN j = DOMAIN NoImport /\ j.pc = "page" /\ j.old = old /\ j.known = known
        /\ j.shop = i.shop /\ j.onlyNew = i.onlyNew
    BY <1>2, <1>3, Imports, NoImportFields
  <1>5. OnlyNew(r, i, u) /\ u.pc = "idle"
    BY <1>1, <1>2, NoneInHand DEF NewInv
  <1>6. \A p \in old : Carried(p) /\ p[1] \in AllExistingSkus
    BY <1>3, CarriedIsKnown
  <1>7. OnlyNew(r, j, u)
    BY <1>1, <1>2, <1>3, <1>4, <1>5, <1>6 DEF OnlyNew, Started
  <1>8. Goes(r, j, u)
    BY <1>1, <1>2, <1>3, Imports DEF Goes
  <1>9. Remain
    BY <1>1, SameRemain
  <1>10. OnlyNew(r, j, u)'
    BY <1>1, <1>7, <1>9, OnlyNewRemains
  <1> QED BY <1>8, <1>10, GoesNew

LEMMA PagesNew ==
  ASSUME NewInv, NEW r \in Runners,
         FetchHoroshop(r) \/ FetchProm(r) \/ FetchWoo(r) \/ NextPage(r)
  PROVE  NewInv'
  <1>1. /\ up' = up /\ lock' = lock /\ UNCHANGED <<name2, strihcod>>
        /\ imp[r].pc \in {"page", "card"}
    BY DEF FetchHoroshop, FetchProm, FetchWoo, ReadsPage, NextPage, upsertVars, tables
  <1>2. PICK i, u : i = imp[r] /\ u = up[r]
    OBVIOUS
  <1>3. DOMAIN i = DOMAIN NoImport /\ u.pc = "idle"
    BY <1>1, <1>2, Imports, NoneInHand
  <1>4. PICK j : imp' = [imp EXCEPT ![r] = j] /\ GoesOn(i, j)
    <2>1. CASE imp' = [imp EXCEPT ![r] = [i EXCEPT !.pc = "end"]]
      <3>1. PICK j : j = [i EXCEPT !.pc = "end"]
        OBVIOUS
      <3>2. GoesOn(i, j)
        BY <1>1, <1>2, <1>3, <3>1, NoImportFields DEF GoesOn, Started
      <3> QED BY <2>1, <3>1, <3>2
    <2>2. ASSUME NEW page, NEW short,
                 imp' = [imp EXCEPT ![r] = [i EXCEPT !.pc = "card", !.queue = page,
                                                     !.short = short]]
          PROVE  \E j : imp' = [imp EXCEPT ![r] = j] /\ GoesOn(i, j)
      <3>1. PICK j : j = [i EXCEPT !.pc = "card", !.queue = page, !.short = short]
        OBVIOUS
      <3>2. GoesOn(i, j)
        BY <1>1, <1>2, <1>3, <3>1, NoImportFields DEF GoesOn, Started
      <3> QED BY <2>2, <3>1, <3>2
    <2>3. CASE imp' = [imp EXCEPT ![r].pc = "page", ![r].page = @ + 1, ![r].queue = <<>>]
      <3>1. PICK j : j = [i EXCEPT !.pc = "page", !.page = @ + 1, !.queue = <<>>]
        OBVIOUS
      <3>2. GoesOn(i, j)
        BY <1>1, <1>2, <1>3, <3>1, NoImportFields DEF GoesOn, Started
      <3>3. imp' = [imp EXCEPT ![r] = j]
        BY <1>2, <1>3, <2>3, <3>1, NoImportFields
      <3> QED BY <3>2, <3>3
    <2>4. ASSUME NEW page, NEW size, ReadsPage(r, page, size)
          PROVE  \E j : imp' = [imp EXCEPT ![r] = j] /\ GoesOn(i, j)
      <3>1. \/ imp' = [imp EXCEPT ![r] = [i EXCEPT !.pc = "end"]]
            \/ imp' = [imp EXCEPT ![r] = [i EXCEPT !.pc = "card", !.queue = page,
                                                   !.short = (Len(page) < size)]]
        BY <1>2, <2>4 DEF ReadsPage
      <3> QED BY <2>1, <2>2, <3>1
    <2>5. CASE NextPage(r)
      <3>1. imp' = [imp EXCEPT ![r].pc = "end"] =>
              imp' = [imp EXCEPT ![r] = [i EXCEPT !.pc = "end"]]
        BY <1>2
      <3> QED BY <2>1, <2>3, <2>5, <3>1 DEF NextPage
    <2> QED BY <2>4, <2>5 DEF FetchHoroshop, FetchProm, FetchWoo
  <1>6. Goes(r, j, u)
    BY <1>1, <1>2, <1>4, Imports DEF Goes
  <1> QED BY <1>1, <1>2, <1>3, <1>4, <1>6, GoesOnNew

LEMMA EndNew ==
  ASSUME NewInv, NEW r \in Runners,
         EndHoroshop(r) \/ EndProm(r) \/ EndWoo(r) \/ FetchFails(r)
  PROVE  NewInv'
  <1>1. /\ up' = up /\ UNCHANGED <<name2, strihcod>> /\ imp[r].pc # "upsert"
        /\ imp' = [imp EXCEPT ![r] = NoImport]
        /\ lock' = IF lock = r THEN None ELSE lock
    BY DEF EndHoroshop, EndProm, EndWoo, EndImport, FetchFails, upsertVars, tables
  <1>2. PICK u : u = up[r]
    OBVIOUS
  <1>3. u.pc = "idle"
    BY <1>1, <1>2, NoneInHand
  <1>4. Goes(r, NoImport, u)
    BY <1>1, <1>2, Imports DEF Goes
  <1> QED BY <1>3, <1>4, EndsNew

LEMMA WithCardFacts ==
  ASSUME NEW i, DOMAIN i = DOMAIN NoImport, NEW card, NEW j, j = WithCard(i, card)
  PROVE  /\ DOMAIN j = DOMAIN NoImport /\ j.pc = i.pc /\ j.shop = i.shop
         /\ j.onlyNew = i.onlyNew /\ j.old = i.old /\ j.known = i.known
  BY NoImportFields DEF WithCard

(* A card is handed to the upsert: for an import of what is new, only when  *)
(* whoever carried its article is gone.                                     *)
LEMMA CardNew ==
  ASSUME FiledInv, NewInv, NEW r \in Runners, NEW skip, NEW barcode,
         TakeCard(r, skip, barcode),
         ~skip /\ imp[r].onlyNew =>
           \A p \in imp[r].old : p[1] = Article(imp[r].shop, Head(imp[r].queue))
                                   => imp[r].shop = "horoshop" /\ Gone(p[2])
  PROVE  NewInv'
  <1>1. /\ imp[r].pc = "card" /\ lock' = lock /\ UNCHANGED <<name2, strihcod>>
        /\ DOMAIN up = Runners
    BY DEF TakeCard, tables, FiledInv, HoldersFiled
  <1>2. PICK i, v, card : i = imp[r] /\ v = up[r] /\ card = Head(i.queue)
    OBVIOUS
  <1>3. DOMAIN i = DOMAIN NoImport /\ v.pc = "idle" /\ OnlyNew(r, i, v)
    BY <1>1, <1>2, Imports, NoneInHand DEF NewInv
  <1>4. PICK w : w = WithCard(i, card)
    OBVIOUS
  <1>5. /\ DOMAIN w = DOMAIN NoImport /\ w.pc = i.pc /\ w.shop = i.shop
        /\ w.onlyNew = i.onlyNew /\ w.old = i.old /\ w.known = i.known
    BY <1>3, <1>4, WithCardFacts
  <1>6. CASE skip
    <2>1. Goes(r, w, v)
      BY <1>1, <1>2, <1>4, <1>6, Imports DEF Goes, TakeCard
    <2>2. GoesOn(i, w)
      BY <1>1, <1>2, <1>5 DEF GoesOn, Started
    <2> QED BY <1>1, <1>2, <1>3, <2>1, <2>2, GoesOnNew
  <1>7. CASE ~skip
    <2>1. PICK j : j = [w EXCEPT !.pc = "upsert", !.card = card]
      OBVIOUS
    <2>2. /\ DOMAIN j = DOMAIN NoImport /\ j.pc = "upsert" /\ j.shop = i.shop
          /\ j.onlyNew = i.onlyNew /\ j.old = i.old /\ j.known = i.known
      BY <1>5, <2>1, NoImportFields
    <2>3. PICK u : u = [NoUpsert EXCEPT !.pc = "match", !.sku = Article(i.shop, card),
                                        !.barcode = barcode, !.path = card.path]
      OBVIOUS
    <2>4. u.sku = Article(i.shop, card)
      BY <2>3, UpsertFields
    <2>5. imp' = [imp EXCEPT ![r] = j] /\ up' = [up EXCEPT ![r] = u]
      BY <1>2, <1>4, <1>7, <2>1, <2>3 DEF TakeCard, StartUpsert
    <2>6. OnlyNew(r, j, u)
      BY <1>1, <1>2, <1>3, <1>7, <2>2, <2>4 DEF OnlyNew, Started
    <2>7. Remain
      BY <1>1, SameRemain
    <2>8. OnlyNew(r, j, u)'
      BY <1>1, <2>6, <2>7, OnlyNewRemains
    <2>9. Goes(r, j, u)
      BY <1>1, <2>5, Imports DEF Goes
    <2> QED BY <2>8, <2>9, GoesNew
  <1> QED BY <1>6, <1>7

(* An article that nobody answers to was carried by nobody who is there.   *)
LEMMA NotFoundIsGone ==
  ASSUME NEW p, Carried(p), p[1] # 0, Found(p[1]) = {} PROVE Gone(p[2])
  <1>1. ByBarcode(p[1]) = {} /\ ByNnom(p[1]) = {}
    BY DEF Found
  <1>2. ASSUME p \in strihcod PROVE FALSE
    <2>1. p[2] \in ByBarcode(p[1])
      BY <1>2 DEF ByBarcode
    <2> QED BY <1>1, <2>1
  <1>3. PICK x \in name2 : x.tcod = p[2] /\ x.nnom = p[1]
    BY <1>2 DEF Carried
  <1>4. x \notin Live
    <2> SUFFICES ASSUME x \in Live PROVE FALSE
      OBVIOUS
    <2>1. x.tcod \in ByNnom(p[1])
      BY <1>3 DEF ByNnom
    <2> QED BY <1>1, <2>1
  <1> QED BY <1>3, <1>4 DEF Live, Gone

LEMMA CardsNew ==
  ASSUME FiledInv, NewInv, NEW r \in Runners,
         TakeHoroshopCard(r) \/ TakePromCard(r) \/ TakeWooCard(r)
  PROVE  NewInv'
  <1>1. PICK i, card : i = imp[r] /\ card = Head(i.queue)
    OBVIOUS
  <1>2. OnlyNew(r, i, up[r])
    BY <1>1 DEF NewInv
  <1>3. CASE TakeHoroshopCard(r)
    <2>1. PICK skip : skip = (card.sku = 0 \/ (i.onlyNew /\ Found(card.sku) # {}))
      OBVIOUS
    <2>2. i.shop = "horoshop" /\ TakeCard(r, skip, card.barcode) /\ i.pc = "card"
      BY <1>1, <1>3, <2>1 DEF TakeHoroshopCard, TakeCard
    <2>3. Article(i.shop, card) = card.sku
      BY <2>2 DEF Article
    <2>4. ASSUME ~skip, i.onlyNew, NEW p \in i.old, p[1] = card.sku PROVE Gone(p[2])
      <3>1. p[1] # 0 /\ Found(p[1]) = {}
        BY <2>1, <2>4
      <3>2. Carried(p)
        BY <1>2, <2>2, <2>4 DEF OnlyNew, Started
      <3> QED BY <3>1, <3>2, NotFoundIsGone
    <2> QED BY <1>1, <2>2, <2>3, <2>4, CardNew
  <1>4. CASE TakePromCard(r)
    <2>1. PICK skip : skip = (i.onlyNew /\ PromArticle(card) \in i.known)
      OBVIOUS
    <2>2. i.shop = "prom" /\ TakeCard(r, skip, card.sku) /\ i.pc = "card"
      BY <1>1, <1>4, <2>1 DEF TakePromCard, TakeCard
    <2>3. Article(i.shop, card) = PromArticle(card)
      BY <2>2 DEF Article
    <2>4. ASSUME ~skip, i.onlyNew, NEW p \in i.old, p[1] = PromArticle(card) PROVE FALSE
      <3>1. p[1] \in i.known
        BY <1>2, <2>2, <2>4 DEF OnlyNew, Started
      <3> QED BY <2>1, <2>4, <3>1
    <2> QED BY <1>1, <2>2, <2>3, <2>4, CardNew
  <1>5. CASE TakeWooCard(r)
    <2>1. i.shop = "woocommerce" /\ TakeCard(r, FALSE, WooBarcode(card))
      BY <1>1, <1>5 DEF TakeWooCard
    <2>2. ~i.onlyNew
      BY <1>2, <2>1 DEF OnlyNew
    <2> QED BY <1>1, <2>1, <2>2, CardNew
  <1> QED BY <1>3, <1>4, <1>5

LEMMA TurnsNew ==
  ASSUME FiledInv, NewInv, NEW r \in Runners,
         MapHoroshopProduct(r) \/ MapPromProduct(r) \/ WriteBack(r) \/ CardFails(r)
           \/ WriteBackFails(r)
  PROVE  NewInv'
  <1>1. /\ imp[r].pc = "upsert" /\ lock' = lock /\ UNCHANGED <<name2, strihcod>>
        /\ NextCard(r) /\ DOMAIN up = Runners
    BY DEF MapHoroshopProduct, MapPromProduct, MapProduct, WriteBack, CardFails,
           WriteBackFails, tables, FiledInv, HoldersFiled
  <1>2. PICK i : i = imp[r]
    OBVIOUS
  <1>3. DOMAIN i = DOMAIN NoImport
    BY <1>2, Imports
  <1>4. PICK q : q = IF LimitReached(i) THEN <<>> ELSE i.queue
    OBVIOUS
  <1>5. PICK j : j = [i EXCEPT !.pc = "card", !.card = None, !.queue = q]
    OBVIOUS
  <1>6. imp' = [imp EXCEPT ![r] = j]
    BY <1>1, <1>2, <1>3, <1>4, <1>5, NoImportFields DEF NextCard
  <1>7. GoesOn(i, j)
    BY <1>1, <1>2, <1>3, <1>5, NoImportFields DEF GoesOn, Started
  <1>8. PICK u : u = NoUpsert
    OBVIOUS
  <1>9. Goes(r, j, u)
    BY <1>1, <1>6, <1>8, Imports DEF Goes, NextCard
  <1> QED BY <1>1, <1>2, <1>7, <1>8, <1>9, GoesOnNew, UpsertFields

-----------------------------------------------------------------------------
(* What happens around the imports.                                        *)

LEMMA DeleteNew ==
  ASSUME FiledInv, NewInv, NEW row \in Live, Delete(row) PROVE NewInv'
  <1>1. PICK after : after = [row EXCEPT !.deleted = TRUE]
    OBVIOUS
  <1>2. /\ row \in name2 /\ name2' = (name2 \ {row}) \cup {after} /\ strihcod' = strihcod
        /\ up' = up /\ imp' = imp /\ lock' = lock
    BY <1>1 DEF Delete, Live
  <1>3. DOMAIN row = {"tcod", "nnom", "group", "deleted"}
    BY <1>2 DEF FiledInv, ProductsFiled, Product
  <1>4. after.tcod = row.tcod /\ after.nnom = row.nnom /\ after.deleted
    BY <1>1, <1>3
  <1>5. Remain
    BY <1>2, <1>4 DEF Remain
  <1> QED BY <1>2, <1>5, NobodyMoves

(* A restore waits for every import of what is new that holds the lock.    *)
LEMMA RestoreNew == ASSUME NewInv, Restore PROVE NewInv'
  <1>1. lock = None /\ lock' = lock /\ imp' = imp /\ up' = up
    BY DEF Restore
  <1>2. ASSUME NEW r \in Runners PROVE OnlyNew(r, imp[r], up[r])'
    <2>1. PICK i, u : i = imp[r] /\ u = up[r]
      OBVIOUS
    <2>2. OnlyNew(r, i, u) /\ imp'[r] = i /\ up'[r] = u
      BY <1>1, <2>1 DEF NewInv
    <2>3. lock # r
      BY <1>1, UpsertAssumption
    <2>4. OnlyNew(r, i, u)'
      BY <2>2, <2>3 DEF OnlyNew, Started
    <2> QED BY <2>2, <2>4
  <1> QED BY <1>1, <1>2 DEF NewInv

LEMMA RestartNew == ASSUME Restart PROVE NewInv'
  <1>1. up' = [r \in Runners |-> NoUpsert] /\ imp' = [r \in Runners |-> NoImport]
    BY DEF Restart
  <1>2. PICK i, u : i = NoImport /\ u = NoUpsert
    OBVIOUS
  <1>3. ASSUME NEW r \in Runners PROVE OnlyNew(r, imp[r], up[r])'
    <2>1. imp'[r] = i /\ up'[r] = u
      BY <1>1, <1>2
    <2>2. /\ DOMAIN i = DOMAIN NoImport /\ i.pc = "idle" /\ i.onlyNew = FALSE /\ u.pc = "idle"
      BY <1>2, NoImportFields, UpsertFields
    <2>3. OnlyNew(r, i, u)'
      BY <2>2 DEF OnlyNew
    <2> QED BY <2>1, <2>3
  <1> QED BY <1>1, <1>3 DEF NewInv

(* Exports, the feed and the shops touch neither products nor imports.     *)
Elsewhere == UNCHANGED <<name2, strihcod, up, imp, lock>>

LEMMA ElsewhereNew == ASSUME NewInv, Elsewhere PROVE NewInv'
  <1>1. Remain
    BY SameRemain DEF Elsewhere
  <1> QED BY <1>1, NobodyMoves DEF Elsewhere

LEMMA ExportElsewhere ==
  ASSUME NEW r \in Runners, ExportStep(r) \/ SendFails(r) \/ ExportStarts(r) PROVE Elsewhere
  <1>1. CASE ReadHoroshopPage(r) \/ ReadPromPage(r)
    BY <1>1 DEF Elsewhere, ReadHoroshopPage, ReadPromPage, ReadPage, importVars, upsertVars,
                tables
  <1>2. CASE FilterHoroshop(r) \/ FilterProm(r)
    BY <1>2 DEF Elsewhere, FilterHoroshop, FilterProm, FilterByMode, importVars, upsertVars,
                tables
  <1>3. CASE AskFeed(r)
    BY <1>3 DEF Elsewhere, AskFeed, importVars, upsertVars, tables
  <1>4. CASE SendToHoroshop(r) \/ SendToProm(r)
    BY <1>4 DEF Elsewhere, SendToHoroshop, SendToProm, Answers, upsertVars, tables
  <1>5. CASE PersistHoroshop(r) \/ PersistProm(r)
    BY <1>5 DEF Elsewhere, PersistHoroshop, PersistProm, Persist, upsertVars, tables
  <1>6. CASE SendFails(r)
    BY <1>6 DEF Elsewhere, SendFails, tables
  <1>7. CASE ExportStarts(r)
    BY <1>7 DEF Elsewhere, ExportStarts, TriggerHoroshopExport, TriggerPromExport,
                StartHoroshopExport, StartPromExport, StartExport, upsertVars, tables
  <1> QED BY <1>1, <1>2, <1>3, <1>4, <1>5, <1>6, <1>7 DEF ExportStep

LEMMA ImportNew ==
  ASSUME FiledInv, NewInv, NEW r \in Runners, ImportStep(r) \/ ImportStarts(r) PROVE NewInv'
  <1>1. CASE ImportOwnStep(r)
    BY <1>1, RollbackPointNew, AcquireNew, ReadKnownNew, PagesNew, CardsNew, TurnsNew, EndNew
       DEF ImportOwnStep
  <1>2. CASE UpsertStep(r) /\ UNCHANGED importOnly
    BY <1>2, UpsertsNew DEF importOnly
  <1> QED BY <1>1, <1>2, StartNew DEF ImportStep

(* A card that is taken out is noted by the imports of its shop.           *)
LEMMA TakenOutNew == ASSUME NewInv, NEW shop \in Shops, TakenOut(shop) PROVE NewInv'
  <1>1. Remain /\ UNCHANGED <<up, lock>> /\ DOMAIN imp' = Runners
    BY SameRemain DEF TakenOut, tables
  <1>2. ASSUME NEW r \in Runners PROVE OnlyNew(r, imp[r], up[r])'
    <2>1. PICK i, j, v : i = imp[r] /\ j = imp'[r] /\ v = up[r]
      OBVIOUS
    <2>2. OnlyNew(r, i, v)
      BY <2>1 DEF NewInv
    <2>3. \/ j = i
          \/ j = [i EXCEPT !.gone = @ \cup {Head(goods[shop]).id}]
      BY <2>1 DEF TakenOut
    <2>4. /\ DOMAIN j = DOMAIN i /\ j.pc = i.pc /\ j.shop = i.shop /\ j.onlyNew = i.onlyNew
          /\ j.old = i.old /\ j.known = i.known
      BY <2>2, <2>3, NoImportFields DEF OnlyNew
    <2>5. OnlyNew(r, j, v)
      BY <2>2, <2>4 DEF OnlyNew
    <2>6. OnlyNew(r, j, v)'
      BY <1>1, <2>5, OnlyNewRemains
    <2> QED BY <1>1, <2>1, <2>6
  <1> QED BY <1>1, <1>2 DEF NewInv

LEMMA FaultNew == ASSUME FiledInv, NewInv, ImportFaults PROVE NewInv'
  <1>1. ASSUME NEW r \in Runners, FetchFails(r) \/ WriteBackFails(r) PROVE NewInv'
    BY <1>1, EndNew, TurnsNew
  <1>2. ASSUME NEW r \in Runners, CategoryFails(r) \/ UpsertFails(r), UNCHANGED importOnly
        PROVE  NewInv'
    BY <1>2, UpsertsNew DEF importOnly
  <1>3. ASSUME NEW shop \in Shops, TakenOut(shop) PROVE NewInv'
    BY <1>3, TakenOutNew
  <1> QED BY <1>1, <1>2, <1>3, DeleteNew, RestoreNew DEF ImportFaults

LEMMA StepNew == ASSUME FiledInv, NewInv, [ExchangeNext]_exchangeVars PROVE NewInv'
  <1>1. CASE UNCHANGED exchangeVars
    BY <1>1, ElsewhereNew DEF Elsewhere, exchangeVars, importVars, upsertVars, tables
  <1>2. CASE ExchangeCrash
    BY <1>2, RestartNew DEF ExchangeCrash
  <1>3. ASSUME NEW r \in Runners, ExportStep(r) \/ SendFails(r) \/ ExportStarts(r) PROVE NewInv'
    BY <1>3, ExportElsewhere, ElsewhereNew
  <1>4. CASE SendFeed \/ PromReadsFeed
    BY <1>4, ElsewhereNew DEF Elsewhere, SendFeed, PromReadsFeed, upsertVars, tables
  <1>5. ASSUME NEW r \in Runners, ImportStep(r) \/ ImportStarts(r) PROVE NewInv'
    BY <1>5, ImportNew
  <1> QED BY <1>1, <1>2, <1>3, <1>4, <1>5, FaultNew DEF ExchangeNext, ExchangeStep

LEMMA InitNew == ASSUME ExchangeInit PROVE NewInv
  <1>1. up = [r \in Runners |-> NoUpsert] /\ imp = [r \in Runners |-> NoImport]
    BY DEF ExchangeInit, ImportInit, UpsertInit
  <1>2. ASSUME NEW r \in Runners PROVE OnlyNew(r, imp[r], up[r])
    <2>1. /\ DOMAIN imp[r] = DOMAIN NoImport /\ imp[r].pc = "idle" /\ ~imp[r].onlyNew
          /\ up[r].pc = "idle"
      BY <1>1, NoImportFields, UpsertFields
    <2> QED BY <2>1 DEF OnlyNew
  <1> QED BY <1>1, <1>2 DEF NewInv

(* An import of what is new never rewrites a product that carried the       *)
(* card's article when it began, unless it was deleted meanwhile: for any   *)
(* number of imports, webhooks, exports, restores and crashes beside it.    *)
THEOREM OldIsKept == ExchangeSpec => OnlyNewKeepsOld
  <1>1. ASSUME NewInv, NEW r \in Runners, up[r].pc = "write", imp[r].onlyNew,
               <<up[r].sku, up[r].tcod>> \in imp[r].old
        PROVE  /\ imp[r].shop = "horoshop"
               /\ \E row \in name2 : row.tcod = up[r].tcod /\ row.deleted
    <2>1. OnlyNew(r, imp[r], up[r])
      BY <1>1 DEF NewInv
    <2>2. imp[r].pc = "upsert"
      BY <1>1, <2>1 DEF OnlyNew
    <2>3. PICK p \in imp[r].old : p = <<up[r].sku, up[r].tcod>>
      BY <1>1
    <2>4. p[1] = up[r].sku /\ p[2] = up[r].tcod
      BY <2>3
    <2> QED BY <1>1, <2>1, <2>2, <2>4 DEF OnlyNew, Gone
  <1>2. NewInv =>
          [\A r \in Runners :
             up[r].pc = "write" /\ up'[r].pc = "updated" /\ imp[r].onlyNew
               => \/ <<up[r].sku, up[r].tcod>> \notin imp[r].old
                  \/ /\ imp[r].shop = "horoshop"
                     /\ \E row \in name2 : row.tcod = up[r].tcod /\ row.deleted]_importVars
    BY <1>1
  <1> QED BY <1>2, InitFiled, StepFiled, InitNew, StepNew, PTL DEF ExchangeSpec, OnlyNewKeepsOld

-----------------------------------------------------------------------------
(* Barcodes.  A product has an identifier that leads to its code, by nnom   *)
(* or by strihcod, unless it is deleted; a code that a restore took counts, *)
(* for a later product may get it.                                          *)
Marked(rows, t) == \E x \in rows : x.tcod = t /\ x.deleted

Has(rows, bars, id, t) ==
  /\ \/ \E x \in bars : x[1] = id /\ x[2] = t
     \/ \E x \in rows : ~x.deleted /\ x.nnom = id /\ id # 0 /\ x.tcod = t
  /\ ~Marked(rows, t)

Excused(id) == id \in contested \/ id \in lostCodes \/ \E x \in name2 : x.tcod = id

OneHolder(rows, bars) ==
  \A id : Excused(id) \/ \A s, t : Has(rows, bars, id, s) /\ Has(rows, bars, id, t) => s = t

NoZero(rows, bars) == (\A x \in rows : x.tcod # 0) /\ \A x \in bars : x[2] # 0

(* An upsert between its match and its write.                               *)
Chosen(u) == u.pc \in {"category", "node", "newNode", "write", "insert"}

Bar(u) == StoredBarcode(u.sku, u.barcode)

(* Nobody else has the barcode it is about to store: its match found that,  *)
(* and whoever gave it away since had it in hand at the same time.          *)
Hand(u) ==
  /\ u.pc = "insert" => u.tcod # 0
  /\ Chosen(u) /\ Bar(u) # 0 /\ ~Excused(Bar(u)) =>
       /\ u.tcod = 0 \/ u.pc = "insert" => \A t : ~Has(name2, strihcod, Bar(u), t)
       /\ u.tcod # 0 /\ u.pc # "insert" =>
            \/ Marked(name2, u.tcod)
            \/ \A t : Has(name2, strihcod, Bar(u), t) => t = u.tcod

Hands == \A r \in Runners : Hand(up[r])

Both(u, v) ==
  u.pc # "idle" /\ v.pc # "idle" => Identifiers(u) \cap Identifiers(v) \subseteq contested

Apart == \A r, s \in Runners : r # s => Both(up[r], up[s])

SavedHolders ==
  saved # <<>> => /\ OneHolder(saved[1].name2, saved[1].strihcod)
                  /\ NoZero(saved[1].name2, saved[1].strihcod)

BarInv ==
  /\ OneHolder(name2, strihcod) /\ NoZero(name2, strihcod)
  /\ SavedHolders /\ Hands /\ Apart

(* What a step may do to what excuses an identifier, and to who has it.     *)
NotesGrow == contested \subseteq contested' /\ lostCodes \subseteq lostCodes'

CodesStay == \A x \in name2 : x.tcod \in lostCodes' \/ \E y \in name2' : y.tcod = x.tcod

Loses(id) == \A t : Has(name2, strihcod, id, t)' => Has(name2, strihcod, id, t)

MarksStay == \A t : Marked(name2, t) => Marked(name2, t)'

LEMMA ExcusedStays == ASSUME NotesGrow, CodesStay, NEW id, Excused(id) PROVE Excused(id)'
  BY DEF NotesGrow, CodesStay, Excused

LEMMA HandStays ==
  ASSUME NotesGrow, CodesStay, MarksStay, NEW u, Hand(u), Excused(Bar(u)) \/ Loses(Bar(u))
  PROVE  Hand(u)'
  <1>1. PICK b : b = Bar(u)
    OBVIOUS
  <1>2. Excused(b) => Excused(b)'
    BY ExcusedStays
  <1>3. Bar(u)' = b
    BY <1>1 DEF Bar
  <1>4. u.pc = "insert" => u.tcod # 0
    BY DEF Hand
  <1>5. ASSUME Chosen(u), b # 0, ~Excused(b)', u.tcod = 0 \/ u.pc = "insert", NEW t
        PROVE  ~Has(name2, strihcod, b, t)'
    BY <1>1, <1>2, <1>5 DEF Hand, Loses
  <1>6. ASSUME Chosen(u), b # 0, ~Excused(b)', u.tcod # 0, u.pc # "insert"
        PROVE  \/ Marked(name2, u.tcod)'
               \/ \A t : Has(name2, strihcod, b, t)' => t = u.tcod
    BY <1>1, <1>2, <1>6 DEF Hand, Loses, MarksStay
  <1> QED BY <1>3, <1>4, <1>5, <1>6 DEF Hand, Chosen

LEMMA BothStays == ASSUME NotesGrow, NEW u, NEW v, Both(u, v) PROVE Both(u, v)'
  BY DEF NotesGrow, Both, Identifiers

LEMMA OneHolderStays ==
  ASSUME NotesGrow, CodesStay, OneHolder(name2, strihcod),
         \A id : Excused(id)' \/ Loses(id)
  PROVE  OneHolder(name2, strihcod)'
  BY ExcusedStays DEF OneHolder, Loses

LEMMA SavedHoldersStay ==
  ASSUME NotesGrow, CodesStay, SavedHolders, saved' = saved PROVE SavedHolders'
  BY ExcusedStays DEF SavedHolders, OneHolder, NoZero, Has, Marked

(* One upsert goes on with the same identifiers, or ends; the others rest.  *)
LEMMA ApartMoves ==
  ASSUME NotesGrow, Apart, NEW r \in Runners,
         \A s \in Runners \ {r} : up'[s] = up[s],
         \/ up'[r].pc = "idle"
         \/ up[r].pc # "idle" /\ up'[r].sku = up[r].sku /\ up'[r].barcode = up[r].barcode
  PROVE  Apart'
  <1>1. ASSUME NEW a \in Runners, NEW b \in Runners, a # b PROVE Both(up[a], up[b])'
    <2>1. Both(up[a], up[b])
      BY <1>1 DEF Apart
    <2>2. Identifiers(up[a])' = Identifiers(up'[a]) /\ Identifiers(up[b])' = Identifiers(up'[b])
      BY DEF Identifiers
    <2>3. ASSUME up'[a].pc # "idle", up'[b].pc # "idle"
          PROVE  /\ up[a].pc # "idle" /\ up[b].pc # "idle"
                 /\ Identifiers(up'[a]) = Identifiers(up[a])
                 /\ Identifiers(up'[b]) = Identifiers(up[b])
      BY <1>1, <2>3 DEF Identifiers
    <2> QED BY <2>1, <2>2, <2>3 DEF Both, NotesGrow
  <1> QED BY <1>1 DEF Apart

LEMMA HandsMove ==
  ASSUME Hands, NotesGrow, CodesStay, MarksStay, NEW r \in Runners,
         \A s \in Runners \ {r} : /\ up'[s] = up[s]
                                  /\ Excused(Bar(up[s])) \/ Loses(Bar(up[s])),
         Hand(up[r])'
  PROVE  Hands'
  <1>1. ASSUME NEW s \in Runners PROVE Hand(up[s])'
    <2>1. CASE s = r
      BY <2>1
    <2>2. CASE s # r
      <3>1. PICK u : u = up[s]
        OBVIOUS
      <3>2. Hand(u)'
        BY <2>2, <3>1, HandStays DEF Hands
      <3> QED BY <2>2, <3>1, <3>2
    <2> QED BY <2>1, <2>2
  <1> QED BY <1>1 DEF Hands

(* Steps that leave products, barcodes and the rollback point alone.        *)
Undone == UNCHANGED <<name2, strihcod, saved>>

LEMMA UndoneKeeps ==
  ASSUME Undone, NotesGrow
  PROVE  CodesStay /\ MarksStay /\ \A id : Loses(id)
  BY DEF Undone, CodesStay, MarksStay, Marked, Loses, Has

LEMMA OneMovesBar ==
  ASSUME BarInv, Undone, NotesGrow, NEW r \in Runners,
         \A s \in Runners \ {r} : up'[s] = up[s], Hand(up[r])', Apart'
  PROVE  BarInv'
  <1>1. CodesStay /\ MarksStay /\ \A id : Loses(id)
    BY UndoneKeeps
  <1>2. Hands'
    BY <1>1, HandsMove DEF BarInv
  <1>3. OneHolder(name2, strihcod)' /\ SavedHolders'
    BY <1>1, OneHolderStays, SavedHoldersStay DEF BarInv, Undone
  <1>4. NoZero(name2, strihcod)'
    BY DEF BarInv, NoZero, Undone
  <1> QED BY <1>2, <1>3, <1>4 DEF BarInv

LEMMA NobodyMovesBar ==
  ASSUME BarInv, Undone, NotesGrow, up' = up PROVE BarInv'
  <1>1. CodesStay /\ MarksStay /\ \A id : Loses(id)
    BY UndoneKeeps
  <1>2. ASSUME NEW s \in Runners PROVE Hand(up[s])'
    <2>1. PICK u : u = up[s]
      OBVIOUS
    <2>2. Hand(u)'
      BY <1>1, <2>1, HandStays DEF Hands, BarInv
    <2> QED BY <2>1, <2>2
  <1>3. OneHolder(name2, strihcod)' /\ SavedHolders'
    BY <1>1, OneHolderStays, SavedHoldersStay DEF BarInv, Undone
  <1>4. NoZero(name2, strihcod)'
    BY DEF BarInv, NoZero, Undone
  <1>5. ASSUME NEW a \in Runners, NEW b \in Runners, a # b PROVE Both(up[a], up[b])'
    <2>1. PICK u, v : u = up[a] /\ v = up[b]
      OBVIOUS
    <2>2. Both(u, v)'
      BY <1>5, <2>1, BothStays DEF Apart, BarInv
    <2> QED BY <2>1, <2>2
  <1> QED BY <1>2, <1>3, <1>4, <1>5 DEF BarInv, Hands, Apart

-----------------------------------------------------------------------------
(* Upserts.                                                                *)

(* An upsert keeps the identifiers it was called with.                      *)
Same(u, v) == v.sku = u.sku /\ v.barcode = u.barcode

(* From the match to the write: an upsert looks for its category.           *)
Searches(r) ==
  /\ up[r].pc \in {"category", "node", "newNode"} /\ up'[r].pc \in {"node", "newNode", "write"}
  /\ Same(up[r], up'[r]) /\ up'[r].tcod = up[r].tcod
  /\ \A s \in Runners \ {r} : up'[s] = up[s]

LEMMA SearchSteps ==
  ASSUME FiledInv, NEW r \in Runners,
         FindCategory(r) \/ FindNode(r) \/ InsertNode(r) \/ CategoryFails(r)
  PROVE  Searches(r) /\ UNCHANGED <<name2, strihcod, contested>>
  <1>1. DOMAIN up[r] = DOMAIN NoUpsert /\ DOMAIN up = Runners
    BY HasFields DEF Fields, FiledInv, HoldersFiled
  <1>2. UNCHANGED <<name2, strihcod, contested>>
    BY DEF FindCategory, FindNode, InsertNode, CategoryFails, tables
  <1>3. up[r].pc \in {"category", "node", "newNode"}
    BY DEF FindCategory, FindNode, InsertNode, CategoryFails
  <1>4. ASSUME NEW g, CategoryIs(r, g) PROVE Searches(r)
    <2>1. up' = [up EXCEPT ![r].pc = "write", ![r].group = g]
      BY <1>4 DEF CategoryIs
    <2> QED BY <1>1, <1>3, <2>1, UpsertFields DEF Searches, Same
  <1>5. ASSUME NEW p, up' = [up EXCEPT ![r].pc = "node", ![r].rest = p] PROVE Searches(r)
    BY <1>1, <1>3, <1>5, UpsertFields DEF Searches, Same
  <1>6. ASSUME NEW p, NEW q, FindNode(r), up' = [up EXCEPT ![r].parent = p, ![r].rest = q]
        PROVE  Searches(r)
    <2>1. up[r].pc = "node"
      BY <1>6 DEF FindNode
    <2> QED BY <1>1, <1>6, <2>1, UpsertFields DEF Searches, Same
  <1>7. ASSUME NEW g, up' = [up EXCEPT ![r].pc = "newNode", ![r].node = g] PROVE Searches(r)
    BY <1>1, <1>3, <1>7, UpsertFields DEF Searches, Same
  <1>8. ASSUME NEW p, NEW q, up' = [up EXCEPT ![r].pc = "node", ![r].parent = p, ![r].rest = q]
        PROVE  Searches(r)
    BY <1>1, <1>3, <1>8, UpsertFields DEF Searches, Same
  <1>9. CASE FindCategory(r)
    <2>1. (\E g : CategoryIs(r, g)) \/ \E p : up' = [up EXCEPT ![r].pc = "node", ![r].rest = p]
      BY <1>9 DEF FindCategory
    <2> QED BY <1>2, <1>4, <1>5, <2>1
  <1>10. CASE FindNode(r)
    <2>1. \/ \E g : CategoryIs(r, g)
          \/ \E p, q : up' = [up EXCEPT ![r].parent = p, ![r].rest = q]
          \/ \E g : up' = [up EXCEPT ![r].pc = "newNode", ![r].node = g]
      BY <1>10 DEF FindNode
    <2> QED BY <1>2, <1>4, <1>6, <1>7, <1>10, <2>1
  <1>11. CASE InsertNode(r)
    <2>1. \E p, q : up' = [up EXCEPT ![r].pc = "node", ![r].parent = p, ![r].rest = q]
      BY <1>11 DEF InsertNode
    <2> QED BY <1>2, <1>8, <2>1
  <1>12. CASE CategoryFails(r)
    <2>1. \E g : CategoryIs(r, g)
      BY <1>12 DEF CategoryFails
    <2> QED BY <1>2, <1>4, <2>1
  <1> QED BY <1>9, <1>10, <1>11, <1>12

LEMMA SearchesBar ==
  ASSUME BarInv, NEW r \in Runners, Undone, NotesGrow, Searches(r) PROVE BarInv'
  <1>1. CodesStay /\ MarksStay /\ \A id : Loses(id)
    BY UndoneKeeps
  <1>2. Apart'
    BY ApartMoves DEF Searches, Same, BarInv
  <1>3. PICK u, v : u = up[r] /\ v = up'[r]
    OBVIOUS
  <1>4. Hand(u)
    BY <1>3 DEF BarInv, Hands
  <1>5. /\ u.pc \in {"category", "node", "newNode"} /\ v.pc \in {"node", "newNode", "write"}
        /\ v.sku = u.sku /\ v.barcode = u.barcode /\ v.tcod = u.tcod
    BY <1>3 DEF Searches, Same
  <1>6. Bar(v) = Bar(u)
    BY <1>5 DEF Bar
  <1>7. Hand(v)
    BY <1>4, <1>5, <1>6 DEF Hand, Chosen
  <1>8. Hand(v)'
    BY <1>1, <1>7, HandStays
  <1>9. Hand(up[r])'
    BY <1>3, <1>8
  <1> QED BY <1>2, <1>9, OneMovesBar DEF Searches

(* An upsert that is over, or has only begun.                               *)
LEMMA LeavesBar ==
  ASSUME BarInv, NEW r \in Runners, Undone, NotesGrow, NEW u, up' = [up EXCEPT ![r] = u],
         DOMAIN up = Runners, ~Chosen(u), Apart'
  PROVE  BarInv'
  <1>1. Hand(u)'
    BY DEF Hand, Chosen
  <1>2. up'[r] = u /\ \A s \in Runners \ {r} : up'[s] = up[s]
    OBVIOUS
  <1>3. Hand(up[r])'
    BY <1>1, <1>2
  <1> QED BY <1>2, <1>3, OneMovesBar

LEMMA UpsertFailsBar ==
  ASSUME BarInv, FiledInv, NEW r \in Runners, UpsertFails(r), saved' = saved, NotesGrow
  PROVE  BarInv'
  <1>1. DOMAIN up[r] = DOMAIN NoUpsert /\ DOMAIN up = Runners
    BY HasFields DEF Fields, FiledInv, HoldersFiled
  <1>2. PICK u : u = [up[r] EXCEPT !.pc = "failed"]
    OBVIOUS
  <1>3. up' = [up EXCEPT ![r] = u] /\ Undone /\ up[r].pc # "idle"
    BY <1>1, <1>2 DEF UpsertFails, Undone, tables
  <1>4. u.pc = "failed" /\ Same(up[r], u)
    BY <1>1, <1>2, UpsertFields DEF Same
  <1>5. up'[r] = u /\ \A s \in Runners \ {r} : up'[s] = up[s]
    BY <1>1, <1>3
  <1>6. Apart'
    BY <1>3, <1>4, <1>5, ApartMoves DEF Same, BarInv
  <1> QED BY <1>1, <1>3, <1>4, <1>6, LeavesBar DEF Chosen

LEMMA TakeCodeBar ==
  ASSUME BarInv, FiledInv, NEW r \in Runners, TakeCode(r), saved' = saved, NotesGrow
  PROVE  BarInv'
  <1>1. DOMAIN up[r] = DOMAIN NoUpsert /\ DOMAIN up = Runners
    BY HasFields DEF Fields, FiledInv, HoldersFiled
  <1>2. PICK c \in Codes : up' = [up EXCEPT ![r].pc = "insert", ![r].tcod = c]
    BY DEF TakeCode
  <1>3. PICK u, v : u = up[r] /\ v = [u EXCEPT !.pc = "insert", !.tcod = c]
    OBVIOUS
  <1>4. up'[r] = v /\ Undone /\ \A s \in Runners \ {r} : up'[s] = up[s]
    BY <1>1, <1>2, <1>3 DEF TakeCode, Undone, tables
  <1>5. v.pc = "insert" /\ v.tcod = c /\ v.sku = u.sku /\ v.barcode = u.barcode
    BY <1>1, <1>3, UpsertFields
  <1>6. u.pc = "write" /\ u.tcod = 0 /\ Hand(u) /\ c # 0
    BY <1>3, UpsertAssumption DEF TakeCode, BarInv, Hands, Codes
  <1>7. Bar(v) = Bar(u)
    BY <1>5 DEF Bar
  <1>8. Hand(v)
    BY <1>5, <1>6, <1>7 DEF Hand, Chosen
  <1>9. CodesStay /\ MarksStay /\ \A id : Loses(id)
    BY <1>4, UndoneKeeps
  <1>10. Hand(v)'
    BY <1>8, <1>9, HandStays
  <1>11. Apart'
    BY <1>3, <1>4, <1>5, <1>6, ApartMoves DEF BarInv
  <1>12. Hand(up[r])'
    BY <1>4, <1>10
  <1> QED BY <1>4, <1>11, <1>12, OneMovesBar

-----------------------------------------------------------------------------
(* The match.                                                              *)

LEMMA FoundCodes ==
  ASSUME BarInv, NEW id, NEW t \in Found(id) PROVE t # 0 /\ id # 0
  BY DEF BarInv, NoZero, Found, ByCode, ByBarcode, ByNnom, Live

(* Whom an identifier leads to that is nobody's code.                       *)
LEMMA FoundMeans ==
  ASSUME BarInv, NEW id, ~Excused(id), id # 0
  PROVE  /\ Found(id) = {} => \A t : ~Has(name2, strihcod, id, t)
         /\ \A t : Found(id) \subseteq {t} =>
              Marked(name2, t) \/ \A s : Has(name2, strihcod, id, s) => s = t
  <1>1. ByCode(id) = {}
    BY DEF Excused, ByCode, Live
  <1>2. ASSUME NEW s PROVE Has(name2, strihcod, id, s) => s \in ByBarcode(id) \cup ByNnom(id)
    BY DEF Has, ByBarcode, ByNnom, Live
  <1>3. ASSUME NEW s \in ByBarcode(id), ~Marked(name2, s) PROVE Has(name2, strihcod, id, s)
    BY <1>3 DEF Has, ByBarcode
  <1>4. \A s, t : Has(name2, strihcod, id, s) /\ Has(name2, strihcod, id, t) => s = t
    BY DEF BarInv, OneHolder
  <1>5. CASE ByBarcode(id) # {}
    <2>1. Found(id) = ByBarcode(id)
      BY <1>1, <1>5 DEF Found
    <2>2. ASSUME NEW t, Found(id) \subseteq {t}, ~Marked(name2, t)
          PROVE  \A s : Has(name2, strihcod, id, s) => s = t
      BY <1>3, <1>4, <1>5, <2>1, <2>2
    <2> QED BY <1>5, <2>1, <2>2
  <1>6. CASE ByBarcode(id) = {}
    BY <1>1, <1>2, <1>6 DEF Found
  <1> QED BY <1>5, <1>6

LEMMA MatchBar ==
  ASSUME BarInv, FiledInv, NEW r \in Runners, Match(r), saved' = saved, NotesGrow
  PROVE  BarInv'
  <1>1. DOMAIN up[r] = DOMAIN NoUpsert /\ DOMAIN up = Runners
    BY HasFields DEF Fields, FiledInv, HoldersFiled
  <1>2. PICK t \in IF Existing(up[r]) = {} THEN {0} ELSE Existing(up[r]) :
          up' = [up EXCEPT ![r].pc = "category", ![r].tcod = t]
    BY DEF Match
  <1>3. PICK u, v : u = up[r] /\ v = [u EXCEPT !.pc = "category", !.tcod = t]
    OBVIOUS
  <1>4. up'[r] = v /\ Undone /\ \A s \in Runners \ {r} : up'[s] = up[s]
    BY <1>1, <1>2, <1>3 DEF Match, Undone, tables
  <1>5. v.pc = "category" /\ v.tcod = t /\ v.sku = u.sku /\ v.barcode = u.barcode
    BY <1>1, <1>3, UpsertFields
  <1>6. CodesStay /\ MarksStay /\ \A id : Loses(id)
    BY <1>4, UndoneKeeps
  <1>7. PICK b : b = Bar(u)
    OBVIOUS
  <1>8. Bar(v)' = b
    BY <1>5, <1>7 DEF Bar
  <1>9. b # 0 => b \in Identifiers(u) /\ (b = u.sku \/ b = u.barcode)
    BY <1>7 DEF Bar, StoredBarcode, Identifiers
  <1>10. ASSUME b # 0, ~Excused(b)'
         PROVE  /\ t = 0 => \A s : ~Has(name2, strihcod, b, s)'
                /\ t # 0 => Marked(name2, t)' \/ \A s : Has(name2, strihcod, b, s)' => s = t
    <2>1. ~Excused(b)
      BY <1>6, <1>10, ExcusedStays
    <2>2. ~Several(Found(u.sku) \cup Found(u.barcode))
      BY <1>3, <1>9, <1>10 DEF Match, Excused
    <2>3. CASE t = 0
      <3>1. Existing(u) = {}
        BY <1>3, <2>3, FoundCodes DEF Existing
      <3>2. Found(b) = {}
        BY <1>9, <1>10, <3>1 DEF Existing
      <3> QED BY <1>6, <1>10, <2>1, <2>3, <3>2, FoundMeans DEF Loses
    <2>4. CASE t # 0
      <3>1. t \in Found(u.sku) \cup Found(u.barcode)
        BY <1>3, <2>4 DEF Existing
      <3>2. Found(b) \subseteq {t}
        BY <1>9, <1>10, <2>2, <3>1 DEF Several
      <3>3. Marked(name2, t) \/ \A s : Has(name2, strihcod, b, s) => s = t
        BY <1>10, <2>1, <3>2, FoundMeans
      <3> QED BY <1>6, <2>4, <3>3 DEF Loses, MarksStay
    <2> QED BY <2>3, <2>4
  <1>11. Hand(v)'
    BY <1>5, <1>8, <1>10 DEF Hand
  <1>12. u.pc = "match"
    BY <1>3 DEF Match
  <1>13. Apart'
    BY <1>3, <1>4, <1>5, <1>12, ApartMoves DEF BarInv
  <1>14. Hand(up[r])'
    BY <1>4, <1>11
  <1> QED BY <1>4, <1>13, <1>14, OneMovesBar

-----------------------------------------------------------------------------
(* The writes.                                                             *)

(* The upsert of r stores its barcode for the product t, and is over.       *)
LEMMA WritesBar ==
  ASSUME BarInv, NEW r \in Runners, NEW b, NEW t, b = Bar(up[r]),
         saved' = saved, NotesGrow, CodesStay, MarksStay, NoZero(name2, strihcod)',
         up[r].pc # "idle", up'[r].pc \in {"created", "updated"}, Same(up[r], up'[r]),
         \A s \in Runners \ {r} : up'[s] = up[s],
         \A id : b = 0 \/ id # b => Loses(id),
         b # 0 => \A s : Has(name2, strihcod, b, s)' => Has(name2, strihcod, b, s) \/ s = t,
         b # 0 /\ ~Excused(b) =>
           Loses(b) \/ \A s : Has(name2, strihcod, b, s) => s = t
  PROVE  BarInv'
  <1>1. ASSUME NEW id, ~Excused(id)', NEW s, NEW q, Has(name2, strihcod, id, s)',
               Has(name2, strihcod, id, q)'
        PROVE  s = q
    <2>1. ~Excused(id)
      BY <1>1, ExcusedStays
    <2>2. CASE Loses(id)
      BY <1>1, <2>1, <2>2 DEF Loses, BarInv, OneHolder
    <2>3. CASE ~Loses(id)
      <3>1. id = b /\ b # 0
        BY <2>3
      <3> QED BY <1>1, <2>1, <2>3, <3>1
    <2> QED BY <2>2, <2>3
  <1>2. OneHolder(name2, strihcod)'
    BY <1>1 DEF OneHolder
  <1>3. SavedHolders'
    BY SavedHoldersStay DEF BarInv
  <1>4. Apart'
    BY ApartMoves DEF Same, BarInv
  <1>5. ASSUME NEW s \in Runners PROVE Hand(up[s])'
    <2>1. CASE s = r
      <3>1. PICK v : v = up'[r]
        OBVIOUS
      <3>2. Hand(v)'
        BY <3>1 DEF Hand, Chosen
      <3> QED BY <2>1, <3>1, <3>2
    <2>2. CASE s # r
      <3>1. PICK u : u = up[s] /\ u = up'[s]
        BY <2>2
      <3>2. Hand(u)
        BY <3>1 DEF BarInv, Hands
      <3>3. CASE u.pc = "idle"
        <4>1. Hand(u)'
          BY <3>3 DEF Hand, Chosen
        <4> QED BY <3>1, <4>1
      <3>4. CASE u.pc # "idle" /\ Bar(u) = b /\ b # 0
        <4>1. b \in Identifiers(u) /\ b \in Identifiers(up[r])
          BY <3>4 DEF Bar, StoredBarcode, Identifiers
        <4>2. b \in contested
          BY <2>2, <3>1, <3>4, <4>1 DEF BarInv, Apart, Both
        <4>3. Hand(u)'
          BY <3>2, <3>4, <4>2, HandStays DEF Excused
        <4> QED BY <3>1, <4>3
      <3>5. CASE Bar(u) # b \/ b = 0
        <4>1. Hand(u)'
          BY <3>2, <3>5, HandStays
        <4> QED BY <3>1, <4>1
      <3> QED BY <3>3, <3>4, <3>5
    <2> QED BY <2>1, <2>2
  <1> QED BY <1>2, <1>3, <1>4, <1>5 DEF BarInv, Hands

LEMMA OverFields ==
  ASSUME FiledInv, NEW r \in Runners, NEW pc, up' = [up EXCEPT ![r].pc = pc]
  PROVE  /\ up'[r].pc = pc /\ Same(up[r], up'[r])
         /\ \A s \in Runners \ {r} : up'[s] = up[s]
  <1>1. DOMAIN up[r] = DOMAIN NoUpsert /\ DOMAIN up = Runners
    BY HasFields DEF Fields, FiledInv, HoldersFiled
  <1> QED BY <1>1, UpsertFields DEF Same

LEMMA UpdateBar ==
  ASSUME BarInv, FiledInv, NEW r \in Runners, UpdateProduct(r), saved' = saved, NotesGrow
  PROVE  BarInv'
  <1> DEFINE After(x) == IF x.tcod = up[r].tcod THEN Updated(x, up[r]) ELSE x
  <1>1. PICK b, t : b = Bar(up[r]) /\ t = up[r].tcod
    OBVIOUS
  <1>2. name2' = {After(x) : x \in name2}
    BY DEF UpdateProduct
  <1>3. ASSUME NEW x \in name2
        PROVE  /\ After(x).tcod = x.tcod /\ After(x).deleted = x.deleted
               /\ \/ After(x).nnom = x.nnom
                  \/ x.nnom = 0 /\ x.tcod = t /\ After(x).nnom = b
    <2>1. DOMAIN x = {"tcod", "nnom", "group", "deleted"}
      BY DEF FiledInv, ProductsFiled, Product
    <2> QED BY <1>1, <2>1 DEF Updated, Bar
  <1> HIDE DEF After
  <1>4. strihcod' = strihcod \cup (IF b = 0 THEN {} ELSE {<<b, t>>})
    BY <1>1 DEF UpdateProduct, BarcodesWith, Bar
  <1>5. up[r].pc = "write" /\ t # 0
    BY <1>1 DEF UpdateProduct
  <1>6. \A s : Marked(name2, s) <=> Marked(name2, s)'
    BY <1>2, <1>3 DEF Marked
  <1>7. CodesStay /\ MarksStay
    BY <1>2, <1>3, <1>6 DEF CodesStay, MarksStay
  <1>8. NoZero(name2, strihcod)'
    BY <1>2, <1>3, <1>4, <1>5 DEF NoZero, BarInv
  <1>9. ASSUME NEW id, NEW s, Has(name2, strihcod, id, s)'
        PROVE  Has(name2, strihcod, id, s) \/ (b # 0 /\ id = b /\ s = t)
    <2>1. ~Marked(name2, s)
      BY <1>6, <1>9 DEF Has
    <2>2. CASE \E x \in strihcod' : x[1] = id /\ x[2] = s
      <3>1. PICK x \in strihcod' : x[1] = id /\ x[2] = s
        BY <2>2
      <3>2. CASE x \in strihcod
        BY <2>1, <3>1, <3>2 DEF Has
      <3>3. CASE x \notin strihcod
        BY <1>4, <3>1, <3>3
      <3> QED BY <3>2, <3>3
    <2>3. CASE \E x \in name2' : ~x.deleted /\ x.nnom = id /\ id # 0 /\ x.tcod = s
      <3>1. PICK x \in name2 : /\ ~After(x).deleted /\ After(x).nnom = id /\ id # 0
                               /\ After(x).tcod = s
        BY <1>2, <2>3
      <3>2. x.tcod = s /\ ~x.deleted /\ id # 0
        BY <1>3, <3>1
      <3>3. CASE x.nnom = id
        BY <2>1, <3>2, <3>3 DEF Has
      <3>4. CASE x.nnom # id
        BY <1>3, <3>1, <3>2, <3>4
      <3> QED BY <3>3, <3>4
    <2> QED BY <1>9, <2>2, <2>3 DEF Has
  <1>10. ASSUME b # 0, ~Excused(b)
         PROVE  Loses(b) \/ \A s : Has(name2, strihcod, b, s) => s = t
    <2>1. Hand(up[r])
      BY DEF BarInv, Hands
    <2>2. CASE Marked(name2, t)
      <3>1. \A s : Has(name2, strihcod, b, s)' => s # t
        BY <1>6, <2>2 DEF Has
      <3> QED BY <1>9, <3>1 DEF Loses
    <2>3. CASE ~Marked(name2, t)
      BY <1>1, <1>5, <1>10, <2>1, <2>3 DEF Hand, Chosen
    <2> QED BY <2>2, <2>3
  <1>11. \A id : b = 0 \/ id # b => Loses(id)
    BY <1>9 DEF Loses
  <1>12. /\ up'[r].pc = "updated" /\ Same(up[r], up'[r])
         /\ \A s \in Runners \ {r} : up'[s] = up[s]
    BY OverFields DEF UpdateProduct
  <1> QED BY <1>1, <1>5, <1>7, <1>8, <1>9, <1>10, <1>11, <1>12, WritesBar

LEMMA InsertBar ==
  ASSUME BarInv, FiledInv, NEW r \in Runners, InsertProduct(r), saved' = saved, NotesGrow
  PROVE  BarInv'
  <1>1. PICK b, t : b = Bar(up[r]) /\ t = up[r].tcod
    OBVIOUS
  <1>2. PICK y : y = [tcod |-> t, nnom |-> b, group |-> up[r].group, deleted |-> FALSE]
    OBVIOUS
  <1>3. name2' = name2 \cup {y}
    BY <1>1, <1>2 DEF InsertProduct, Bar
  <1>4. strihcod' = strihcod \cup (IF b = 0 THEN {} ELSE {<<b, t>>})
    BY <1>1 DEF InsertProduct, BarcodesWith, Bar
  <1>5. y.tcod = t /\ y.nnom = b /\ y.deleted = FALSE
    BY <1>2
  <1>6. Hand(up[r]) /\ up[r].pc = "insert"
    BY DEF InsertProduct, BarInv, Hands
  <1>7. t # 0
    BY <1>1, <1>6 DEF Hand
  <1>8. \A s : Marked(name2, s) <=> Marked(name2, s)'
    BY <1>3, <1>5 DEF Marked
  <1>9. CodesStay /\ MarksStay
    BY <1>3, <1>8 DEF CodesStay, MarksStay
  <1>10. NoZero(name2, strihcod)'
    BY <1>3, <1>4, <1>5, <1>7 DEF NoZero, BarInv
  <1>11. ASSUME NEW id, NEW s, Has(name2, strihcod, id, s)'
         PROVE  Has(name2, strihcod, id, s) \/ (b # 0 /\ id = b /\ s = t)
    <2>1. ~Marked(name2, s)
      BY <1>8, <1>11 DEF Has
    <2>2. CASE \E x \in strihcod' : x[1] = id /\ x[2] = s
      <3>1. PICK x \in strihcod' : x[1] = id /\ x[2] = s
        BY <2>2
      <3>2. CASE x \in strihcod
        BY <2>1, <3>1, <3>2 DEF Has
      <3>3. CASE x \notin strihcod
        BY <1>4, <3>1, <3>3
      <3> QED BY <3>2, <3>3
    <2>3. CASE \E x \in name2' : ~x.deleted /\ x.nnom = id /\ id # 0 /\ x.tcod = s
      BY <1>3, <1>5, <2>1, <2>3 DEF Has
    <2> QED BY <1>11, <2>2, <2>3 DEF Has
  <1>12. b # 0 /\ ~Excused(b) => \A s : ~Has(name2, strihcod, b, s)
    BY <1>1, <1>6 DEF Hand, Chosen
  <1>13. \A id : b = 0 \/ id # b => Loses(id)
    BY <1>11 DEF Loses
  <1>14. /\ up'[r].pc = "created" /\ Same(up[r], up'[r])
         /\ \A s \in Runners \ {r} : up'[s] = up[s]
    BY OverFields DEF InsertProduct
  <1> QED BY <1>1, <1>6, <1>9, <1>10, <1>11, <1>12, <1>13, <1>14, WritesBar

LEMMA UpsertsBar ==
  ASSUME BarInv, FiledInv, NEW r \in Runners, Upserts(r), NotesGrow PROVE BarInv'
  <1>1. saved' = saved
    BY DEF Upserts
  <1>2. CASE FindCategory(r) \/ FindNode(r) \/ InsertNode(r) \/ CategoryFails(r)
    BY <1>1, <1>2, SearchSteps, SearchesBar DEF Undone
  <1> QED BY <1>1, <1>2, MatchBar, TakeCodeBar, UpdateBar, InsertBar, UpsertFailsBar
          DEF Upserts, UpsertStep

-----------------------------------------------------------------------------
(* The other steps.                                                        *)

LEMMA TakesBar ==
  ASSUME BarInv, FiledInv, NEW r \in Runners, Takes(r), NotesGrow PROVE BarInv'
  <1>1. PICK skip, barcode : TakeCard(r, skip, barcode)
    BY DEF Takes
  <1>2. Undone
    BY <1>1 DEF TakeCard, Undone, tables
  <1>3. CASE up' = up
    BY <1>2, <1>3, NobodyMovesBar
  <1>4. ASSUME NEW sku, NEW path, StartUpsert(r, sku, barcode, path) PROVE BarInv'
    <2>1. PICK u : u = [NoUpsert EXCEPT !.pc = "match", !.sku = sku, !.barcode = barcode,
                                        !.path = path]
      OBVIOUS
    <2>2. u.pc = "match" /\ u.sku = sku /\ u.barcode = barcode
      BY <2>1, UpsertFields
    <2>3. up' = [up EXCEPT ![r] = u] /\ DOMAIN up = Runners
      BY <1>4, <2>1 DEF StartUpsert, FiledInv, HoldersFiled
    <2>4. up'[r] = u /\ \A s \in Runners \ {r} : up'[s] = up[s]
      BY <2>3
    <2>5. ASSUME NEW s \in Runners \ {r}, up[s].pc # "idle"
          PROVE  Identifiers(u) \cap Identifiers(up[s]) \subseteq contested'
      BY <1>4, <2>2, <2>5 DEF StartUpsert, Shared, Identifiers
    <2>6. ASSUME NEW p \in Runners, NEW q \in Runners, p # q PROVE Both(up[p], up[q])'
      <3>1. CASE p # r /\ q # r
        <4>1. PICK v, w : v = up[p] /\ w = up[q]
          OBVIOUS
        <4>2. Both(v, w)'
          BY <2>6, <4>1, BothStays DEF Apart, BarInv
        <4> QED BY <2>4, <3>1, <4>1, <4>2
      <3>2. CASE p = r \/ q = r
        BY <2>4, <2>5, <2>6, <3>2 DEF Both, Identifiers
      <3> QED BY <3>1, <3>2
    <2>7. Apart'
      BY <2>6 DEF Apart
    <2> QED BY <1>2, <2>2, <2>3, <2>7, LeavesBar DEF Chosen
  <1> QED BY <1>1, <1>3, <1>4 DEF TakeCard

LEMMA TurnsBar ==
  ASSUME BarInv, FiledInv, NEW r \in Runners, Turns(r), NotesGrow PROVE BarInv'
  <1>1. PICK u : u = NoUpsert
    OBVIOUS
  <1>2. u.pc = "idle"
    BY <1>1, UpsertFields
  <1>3. up' = [up EXCEPT ![r] = u] /\ Undone /\ DOMAIN up = Runners
    BY <1>1 DEF Turns, NextCard, Undone, FiledInv, HoldersFiled
  <1>4. Apart'
    BY <1>2, <1>3, ApartMoves DEF BarInv
  <1> QED BY <1>2, <1>3, <1>4, LeavesBar DEF Chosen

LEMMA RollbackPointBar ==
  ASSUME BarInv, NEW r \in Runners, TakeRollbackPoint(r), NotesGrow PROVE BarInv'
  <1>1. UNCHANGED <<name2, strihcod, up, contested, lostCodes>>
    BY DEF TakeRollbackPoint, upsertVars, tables
  <1>2. \A id : Excused(id)' <=> Excused(id)
    BY <1>1 DEF Excused
  <1>3. OneHolder(name2, strihcod)' /\ NoZero(name2, strihcod)'
    BY <1>1, <1>2 DEF BarInv, OneHolder, NoZero
  <1>4. Hands' /\ Apart'
    BY <1>1 DEF BarInv, Hands, Hand, Excused, Bar, Chosen, Apart, Both, Identifiers
  <1>5. SavedHolders'
    <2>1. CASE saved' = saved
      BY <1>2, <2>1 DEF BarInv, SavedHolders, OneHolder, NoZero
    <2>2. CASE saved' = <<[name2 |-> name2, strihcod |-> strihcod, name |-> name]>>
      <3>1. saved'[1].name2 = name2 /\ saved'[1].strihcod = strihcod
        BY <2>2
      <3>2. OneHolder(saved[1].name2, saved[1].strihcod)'
        BY <1>2, <3>1 DEF BarInv, OneHolder
      <3> QED BY <3>1, <3>2 DEF BarInv, SavedHolders, NoZero
    <2> QED BY <2>1, <2>2 DEF TakeRollbackPoint
  <1> QED BY <1>3, <1>4, <1>5 DEF BarInv

LEMMA DeleteBar ==
  ASSUME BarInv, FiledInv, CodesInv, NEW row \in Live, Delete(row), NotesGrow PROVE BarInv'
  <1>1. PICK after : after = [row EXCEPT !.deleted = TRUE]
    OBVIOUS
  <1>2. row \in name2 /\ ~row.deleted /\ name2' = (name2 \ {row}) \cup {after}
    BY <1>1 DEF Delete, Live
  <1>3. after.tcod = row.tcod /\ after.nnom = row.nnom /\ after.deleted = TRUE
    BY <1>1, <1>2 DEF FiledInv, ProductsFiled, Product
  <1>4. UNCHANGED <<strihcod, up, saved>>
    BY DEF Delete
  <1>5. CodesStay /\ MarksStay
    BY <1>2, <1>3 DEF CodesStay, MarksStay, Marked
  <1>6. \A id : Loses(id)
    <2>1. \A s : Marked(name2, s) => Marked(name2, s)'
      BY <1>5 DEF MarksStay
    <2> QED BY <1>2, <1>3, <1>4, <2>1 DEF Loses, Has
  <1>7. NoZero(name2, strihcod)'
    BY <1>2, <1>3, <1>4 DEF BarInv, NoZero
  <1>8. OneHolder(name2, strihcod)' /\ SavedHolders'
    BY <1>4, <1>5, <1>6, OneHolderStays, SavedHoldersStay DEF BarInv
  <1>9. ASSUME NEW s \in Runners PROVE Hand(up[s])'
    <2>1. PICK u : u = up[s] /\ u = up'[s]
      BY <1>4
    <2>2. Hand(u)'
      BY <1>5, <1>6, <2>1, HandStays DEF Hands, BarInv
    <2> QED BY <2>1, <2>2
  <1>10. Apart'
    BY <1>4 DEF BarInv, Apart, Both, Identifiers, NotesGrow
  <1> QED BY <1>7, <1>8, <1>9, <1>10 DEF BarInv, Hands

LEMMA RestoreBar ==
  ASSUME BarInv, FiledInv, CodesInv, Restore, NotesGrow PROVE BarInv'
  <1>1. /\ saved # <<>> /\ UNCHANGED <<up, saved>>
        /\ name2' = saved[1].name2 /\ strihcod' = saved[1].strihcod
    BY DEF Restore
  <1>2. CodesStay
    <2>1. ASSUME NEW x \in name2, x.tcod \notin lostCodes'
          PROVE  \E y \in name2' : y.tcod = x.tcod
      BY <2>1 DEF Restore
    <2> QED BY <2>1 DEF CodesStay
  <1>3. SavedHolders'
    BY <1>1, <1>2, SavedHoldersStay DEF BarInv
  <1>4. OneHolder(name2, strihcod)' /\ NoZero(name2, strihcod)'
    BY <1>1, <1>3 DEF SavedHolders, OneHolder, NoZero, Has, Marked, Excused
  <1>5. ASSUME NEW r \in Runners PROVE Hand(up[r])'
    <2>1. PICK u : u = up[r] /\ u = up'[r]
      BY <1>1
    <2>2. u.pc # "insert"
      BY <2>1, UpsertAssumption DEF CodesInv, Inserting, Restore
    <2>3. CASE Chosen(u) /\ Bar(u) # 0
      <3>1. Bar(u) \in Identifiers(u)
        BY <2>3 DEF Bar, StoredBarcode, Identifiers
      <3>2. r \in Matched
        BY <2>1, <2>2, <2>3 DEF Matched, Chosen
      <3>3. Bar(u) \in contested'
        BY <2>1, <3>1, <3>2 DEF Restore
      <3>4. PICK b : b = Bar(u) /\ b = Bar(u)'
        BY DEF Bar
      <3>5. Excused(b)'
        BY <3>3, <3>4 DEF Excused
      <3>6. Hand(u)'
        BY <2>2, <3>4, <3>5 DEF Hand
      <3> QED BY <2>1, <3>6
    <2>4. CASE ~Chosen(u) \/ Bar(u) = 0
      <3>1. Hand(u)'
        BY <2>2, <2>4 DEF Hand, Chosen, Bar
      <3> QED BY <2>1, <3>1
    <2> QED BY <2>3, <2>4
  <1>6. Apart'
    BY <1>1 DEF BarInv, Apart, Both, Identifiers, NotesGrow
  <1> QED BY <1>3, <1>4, <1>5, <1>6 DEF BarInv, Hands

LEMMA RestartBar ==
  ASSUME BarInv, Restart, NotesGrow PROVE BarInv'
  <1>1. Undone
    BY DEF Restart, Undone, tables
  <1>2. CodesStay /\ MarksStay /\ \A id : Loses(id)
    BY <1>1, UndoneKeeps
  <1>3. \A s \in Runners : up'[s].pc = "idle"
    BY UpsertFields DEF Restart
  <1>4. Hands' /\ Apart'
    BY <1>3 DEF Hands, Hand, Chosen, Apart, Both
  <1>5. OneHolder(name2, strihcod)' /\ SavedHolders'
    BY <1>1, <1>2, OneHolderStays, SavedHoldersStay DEF BarInv, Undone
  <1>6. NoZero(name2, strihcod)'
    BY <1>1 DEF BarInv, NoZero, Undone
  <1> QED BY <1>4, <1>5, <1>6 DEF BarInv

(* What excuses an identifier is never forgotten.                           *)
LEMMA NotesStay == ASSUME [ExchangeNext]_exchangeVars PROVE NotesGrow
  <1>1. CASE UNCHANGED exchangeVars
    BY <1>1 DEF NotesGrow, exchangeVars, importVars, upsertVars
  <1>2. CASE ExchangeCrash
    BY <1>2 DEF NotesGrow, ExchangeCrash, Restart
  <1>3. ASSUME NEW r \in Runners, ExportStep(r) \/ SendFails(r) \/ ExportStarts(r)
        PROVE  NotesGrow
    BY <1>3 DEF NotesGrow, ExportStep, ReadHoroshopPage, ReadPromPage, ReadPage,
       FilterHoroshop, FilterProm, FilterByMode, AskFeed, SendToHoroshop, SendToProm, Answers,
       PersistHoroshop, PersistProm, Persist, SendFails, ExportStarts, TriggerHoroshopExport,
       TriggerPromExport, StartHoroshopExport, StartPromExport, StartExport, importVars,
       upsertVars
  <1>4. CASE SendFeed \/ PromReadsFeed
    BY <1>4 DEF NotesGrow, SendFeed, PromReadsFeed, upsertVars
  <1>5. ASSUME NEW r \in Runners, UpsertStep(r), UNCHANGED importOnly PROVE NotesGrow
    BY <1>5 DEF NotesGrow, UpsertStep, Match, FindCategory, FindNode, InsertNode,
       UpdateProduct, TakeCode, InsertProduct, importOnly
  <1>6. ASSUME NEW r \in Runners, ImportOwnStep(r) PROVE NotesGrow
    <2>1. CASE TakeRollbackPoint(r) \/ AcquireLock(r) \/ ReadKnown(r) \/ NextPage(r)
      BY <2>1 DEF NotesGrow, TakeRollbackPoint, AcquireLock, ReadKnown, NextPage, upsertVars
    <2>2. CASE FetchHoroshop(r) \/ FetchProm(r) \/ FetchWoo(r)
      BY <2>2 DEF NotesGrow, FetchHoroshop, FetchProm, FetchWoo, ReadsPage, upsertVars
    <2>3. CASE TakeHoroshopCard(r) \/ TakePromCard(r) \/ TakeWooCard(r)
      BY <2>3 DEF NotesGrow, TakeHoroshopCard, TakePromCard, TakeWooCard, TakeCard, StartUpsert
    <2>4. CASE MapHoroshopProduct(r) \/ MapPromProduct(r) \/ WriteBack(r) \/ CardFails(r)
      BY <2>4 DEF NotesGrow, MapHoroshopProduct, MapPromProduct, MapProduct, WriteBack,
                  CardFails
    <2>5. CASE EndHoroshop(r) \/ EndProm(r) \/ EndWoo(r)
      BY <2>5 DEF NotesGrow, EndHoroshop, EndProm, EndWoo, EndImport, upsertVars
    <2> QED BY <1>6, <2>1, <2>2, <2>3, <2>4, <2>5 DEF ImportOwnStep
  <1>7. ASSUME NEW r \in Runners, ImportStarts(r) PROVE NotesGrow
    BY <1>7 DEF NotesGrow, ImportStarts, TriggerHoroshopImport, TriggerPromImport,
       TriggerWooImport, StartHoroshopImport, StartPromImport, StartWooImport, ProductWebhook,
       Starts, upsertVars
  <1>8. CASE ImportFaults
    BY <1>8 DEF NotesGrow, ImportFaults, FetchFails, WriteBackFails, CategoryFails,
       UpsertFails, importOnly, TakenOut, Delete, Restore
  <1> QED BY <1>1, <1>2, <1>3, <1>4, <1>5, <1>6, <1>7, <1>8
          DEF ExchangeNext, ExchangeStep, ImportStep

LEMMA StepBar ==
  ASSUME BarInv, FiledInv, CodesInv, [ExchangeNext]_exchangeVars PROVE BarInv'
  <1>1. NotesGrow
    BY NotesStay
  <1>2. Frame => BarInv'
    BY <1>1, NobodyMovesBar DEF Frame, Undone
  <1>3. Kinds
    BY StepKinds
  <1> QED BY <1>1, <1>2, <1>3, UpsertsBar, TakesBar, TurnsBar, RollbackPointBar, DeleteBar,
             RestoreBar, RestartBar DEF Kinds

LEMMA InitBar == ASSUME ExchangeInit PROVE BarInv
  <1>1. /\ name2 = InitialRows /\ strihcod = InitialBarcodes /\ saved = <<>>
        /\ up = [r \in Runners |-> NoUpsert]
        /\ contested = {id \in {pair[1] : pair \in CarriedNow} : Several(Carriers(id))}
    BY DEF ExchangeInit, ImportInit, UpsertInit
  <1>2. \A r \in Runners : up[r].pc = "idle"
    BY <1>1, UpsertFields
  <1>3. Hands /\ Apart /\ SavedHolders
    BY <1>1, <1>2 DEF Hands, Hand, Chosen, Apart, Both, SavedHolders
  <1>4. NoZero(name2, strihcod)
    <2>1. \A x \in name2 : x.tcod \in Codes
      BY <1>1, UpsertAssumption
    <2>2. \A x \in strihcod : \E y \in name2 : y.tcod = x[2]
      BY <1>1, UpsertAssumption
    <2>3. 0 \notin Codes
      BY UpsertAssumption DEF Codes
    <2> QED BY <2>1, <2>2, <2>3 DEF NoZero
  <1>5. ASSUME NEW id, NEW t, Has(name2, strihcod, id, t)
        PROVE  t \in Carriers(id) /\ id \in {pair[1] : pair \in CarriedNow}
    <2>1. PICK p \in CarriedNow : p[1] = id /\ p[2] = t
      <3>1. CASE \E x \in strihcod : x[1] = id /\ x[2] = t
        BY <3>1 DEF CarriedNow
      <3>2. CASE \E x \in name2 : ~x.deleted /\ x.nnom = id /\ id # 0 /\ x.tcod = t
        <4>1. PICK x \in name2 : ~x.deleted /\ x.nnom = id /\ id # 0 /\ x.tcod = t
          BY <3>2
        <4>2. PICK p : p = <<x.nnom, x.tcod>>
          OBVIOUS
        <4>3. p \in CarriedNow
          BY <4>1, <4>2 DEF CarriedNow, Live
        <4> QED BY <4>1, <4>2, <4>3
      <3> QED BY <1>5, <3>1, <3>2 DEF Has
    <2>2. PICK y \in name2 : y.tcod = t
      <3>1. CASE \E x \in strihcod : x[1] = id /\ x[2] = t
        BY <1>1, <3>1, UpsertAssumption
      <3> QED BY <1>5, <3>1 DEF Has
    <2>3. t \in LiveCodes
      BY <1>5, <2>2 DEF Has, Marked, LiveCodes, Live
    <2> QED BY <2>1, <2>3 DEF Carriers
  <1>6. OneHolder(name2, strihcod)
    <2>1. ASSUME NEW id, ~Excused(id), NEW s, NEW t, Has(name2, strihcod, id, s),
                 Has(name2, strihcod, id, t)
          PROVE  s = t
      BY <1>1, <1>5, <2>1 DEF Excused, Several
    <2> QED BY <2>1 DEF OneHolder
  <1> QED BY <1>3, <1>4, <1>6 DEF BarInv

(* A barcode leads to one product, for any number of imports, webhooks and  *)
(* restores: a match takes the product that has it, and whoever stores it   *)
(* between that match and the transaction had it in hand at the same time   *)
(* (resolveExistingProductTcod, saveStrihcod).                              *)
THEOREM BarcodesAreUnique == ExchangeSpec => []OneProductPerBarcode
  <1>1. ASSUME BarInv, CodesInv PROVE OneProductPerBarcode
    <2>1. ASSUME NEW id, NEW t \in Carriers(id) PROVE Has(name2, strihcod, id, t)
      <3>1. PICK p \in CarriedNow : p[1] = id /\ p[2] = t
        BY DEF Carriers
      <3>2. ~Marked(name2, t)
        <4>1. PICK y \in name2 : ~y.deleted /\ y.tcod = t
          BY DEF Carriers, LiveCodes, Live
        <4>2. \A x \in name2 : x.tcod = t => x = y
          BY <1>1, <4>1 DEF CodesInv, Table
        <4> QED BY <4>1, <4>2 DEF Marked
      <3>3. CASE p \in strihcod
        BY <3>1, <3>2, <3>3 DEF Has
      <3>4. CASE p \notin strihcod
        <4>1. PICK x \in Live : p = <<x.nnom, x.tcod>> /\ x.nnom # 0
          BY <3>4 DEF CarriedNow
        <4> QED BY <3>1, <3>2, <4>1 DEF Has, Live
      <3> QED BY <3>3, <3>4
    <2>2. ASSUME NEW id, Several(Carriers(id)), id \notin contested,
                 id \notin {row.tcod : row \in name2}, id \notin lostCodes
          PROVE  FALSE
      <3>1. ~Excused(id)
        BY <2>2 DEF Excused
      <3>2. PICK s \in Carriers(id), t \in Carriers(id) : s # t
        BY <2>2 DEF Several
      <3>3. Has(name2, strihcod, id, s) /\ Has(name2, strihcod, id, t)
        BY <2>1
      <3> QED BY <1>1, <3>1, <3>2, <3>3 DEF BarInv, OneHolder
    <2> QED BY <2>2 DEF OneProductPerBarcode
  <1> QED BY <1>1, InitBar, StepBar, InitFiled, StepFiled, InitCodes, StepCodes, PTL
          DEF ExchangeSpec
-----------------------------------------------------------------------------
(* Ranks.  The members of a finite set of numbers, in their order.          *)

Listing(S) == S \subseteq Int /\ IsFiniteSet(S)

LEMMA ListingPart == ASSUME NEW S, Listing(S), NEW T \in SUBSET S PROVE Listing(T)
  BY FS_Subset DEF Listing

(* The ranks grow with the members, ...                                     *)
LEMMA RankGrows ==
  ASSUME NEW S, Listing(S), NEW i \in S
  PROVE  /\ Cardinality(S) \in Nat /\ Rank(S, i) \in 1 .. Cardinality(S)
         /\ \A j \in S : i < j => Rank(S, i) < Rank(S, j)
  <1> DEFINE Below(j) == {k \in S : k <= j}
  <1>1. S \subseteq Int /\ IsFiniteSet(S) /\ Cardinality(S) \in Nat
    BY FS_CardinalityType DEF Listing
  <1>2. \A j \in S : IsFiniteSet(Below(j)) /\ Cardinality(Below(j)) \in Nat
    <2>1. \A j \in S : IsFiniteSet(Below(j))
      BY <1>1, FS_Subset
    <2> QED BY <2>1, FS_CardinalityType
  <1>3. Cardinality(Below(i)) <= Cardinality(S)
    BY <1>1, FS_Subset
  <1>4. Cardinality(Below(i)) # 0
    <2>1. i \in Below(i)
      BY <1>1
    <2> QED BY <1>2, <2>1, FS_EmptySet
  <1>5. ASSUME NEW j \in S, i < j
        PROVE  Cardinality(Below(i)) < Cardinality(Below(j))
    <2>1. Below(i) \in SUBSET Below(j) /\ j \in Below(j) /\ j \notin Below(i)
      <3>1. \A k \in Int : (k <= i => k <= j) /\ k <= k
        BY <1>1, <1>5
      <3>2. ~(j <= i)
        BY <1>1, <1>5
      <3> QED BY <1>1, <3>1, <3>2
    <2>2. /\ Cardinality(Below(i)) <= Cardinality(Below(j))
          /\ Cardinality(Below(i)) = Cardinality(Below(j)) => Below(i) = Below(j)
      <3> HIDE DEF Below
      <3> QED BY <1>2, <2>1, FS_Subset
    <2>3. Below(i) # Below(j)
      BY <2>1
    <2> QED BY <1>2, <2>2, <2>3
  <1>6. \A j : Rank(S, j) = Cardinality(Below(j))
    BY DEF Rank
  <1> HIDE DEF Below
  <1> QED BY <1>1, <1>2, <1>3, <1>4, <1>5, <1>6

LEMMA RankOnce ==
  ASSUME NEW S, Listing(S), NEW i \in S, NEW j \in S, Rank(S, i) = Rank(S, j) PROVE i = j
  <1>0. Cardinality(S) \in Nat /\ Rank(S, i) \in 1 .. Cardinality(S)
    BY RankGrows
  <1>1. i \in Int /\ j \in Int /\ Rank(S, i) \in Int
    BY <1>0 DEF Listing
  <1>2. ~(i < j) /\ ~(j < i)
    BY <1>1, RankGrows
  <1> QED BY <1>1, <1>2

(* ... and none is left out: so many members as ranks.                      *)
LEMMA RankOnto ==
  ASSUME NEW S, Listing(S), NEW k \in 1 .. Cardinality(S) PROVE \E i \in S : Rank(S, i) = k
  <1> DEFINE N == Cardinality(S)
             f == [i \in S |-> Rank(S, i)]
  <1>1. N \in Nat /\ IsFiniteSet(1 .. N) /\ Cardinality(1 .. N) = N
    <2>1. N \in Nat
      BY FS_CardinalityType DEF Listing
    <2> QED BY <2>1, FS_Interval
  <1>2. f \in Injection(S, 1 .. N)
    <2>1. f \in [S -> 1 .. N]
      BY RankGrows
    <2>2. \A i, j \in S : f[i] = f[j] => i = j
      BY RankOnce
    <2> QED BY <2>1, <2>2 DEF Injection, IsInjective
  <1>3. f \in Surjection(S, 1 .. N)
    <2> HIDE DEF f
    <2> QED BY <1>1, <1>2, FS_Injection DEF Listing
  <1> QED BY <1>3 DEF Surjection

(* The list of the members.                                                 *)
LEMMA InOrderIs ==
  ASSUME NEW S, Listing(S)
  PROVE  /\ InOrder(S) \in Seq(S) /\ Len(InOrder(S)) = Cardinality(S)
         /\ Cardinality(S) \in Nat /\ DOMAIN InOrder(S) = 1 .. Cardinality(S)
         /\ \A k \in 1 .. Cardinality(S) : InOrder(S)[k] \in S /\ Rank(S, InOrder(S)[k]) = k
         /\ \A i \in S : /\ Rank(S, i) \in 1 .. Cardinality(S)
                         /\ InOrder(S)[Rank(S, i)] = i
         /\ \A k, l \in 1 .. Cardinality(S) : k < l <=> InOrder(S)[k] < InOrder(S)[l]
  <1>1. PICK N \in Nat : N = Cardinality(S)
    BY FS_CardinalityType DEF Listing
  <1>2. PICK s : s = InOrder(S)
    OBVIOUS
  <1>3. s = [k \in 1 .. N |-> CHOOSE i \in S : Rank(S, i) = k]
    BY <1>1, <1>2 DEF InOrder
  <1>4. ASSUME NEW k \in 1 .. N PROVE s[k] \in S /\ Rank(S, s[k]) = k
    <2>1. \E i \in S : Rank(S, i) = k
      BY <1>1, RankOnto
    <2> QED BY <1>3, <2>1
  <1>5. s \in [1 .. N -> S]
    BY <1>3, <1>4
  <1>6. s \in Seq(S) /\ Len(s) = N /\ DOMAIN s = 1 .. N
    BY <1>5
  <1>7. ASSUME NEW i \in S PROVE Rank(S, i) \in 1 .. N /\ s[Rank(S, i)] = i
    <2>1. Rank(S, i) \in 1 .. N
      BY <1>1, RankGrows
    <2> QED BY <1>4, <2>1, RankOnce
  <1>8. ASSUME NEW k \in 1 .. N, NEW l \in 1 .. N PROVE k < l <=> s[k] < s[l]
    <2>1. s[k] \in Int /\ s[l] \in Int
      BY <1>4 DEF Listing
    <2>2. s[k] < s[l] => k < l
      BY <1>4, RankGrows
    <2>3. s[l] < s[k] => l < k
      BY <1>4, RankGrows
    <2>4. s[k] = s[l] => k = l
      BY <1>4
    <2> QED BY <2>1, <2>2, <2>3, <2>4
  <1> QED BY <1>1, <1>2, <1>4, <1>6, <1>7, <1>8

(* The terms at some positions: at each of them, once, in their order.      *)
LEMMA PickedIs ==
  ASSUME NEW s, NEW P, Listing(P)
  PROVE  /\ DOMAIN Picked(s, P) = 1 .. Cardinality(P) /\ Cardinality(P) \in Nat
         /\ \A k \in 1 .. Cardinality(P) : /\ InOrder(P)[k] \in P
                                           /\ Picked(s, P)[k] = s[InOrder(P)[k]]
         /\ \A p \in P : \E k \in 1 .. Cardinality(P) : InOrder(P)[k] = p
         /\ IsSeq(Picked(s, P)) /\ Len(Picked(s, P)) = Cardinality(P)
  <1>1. PICK N \in Nat : N = Cardinality(P)
    BY FS_CardinalityType DEF Listing
  <1>2. PICK t : t = Picked(s, P)
    OBVIOUS
  <1>3. t = [k \in 1 .. N |-> s[InOrder(P)[k]]]
    BY <1>1, <1>2 DEF Picked
  <1>4. DOMAIN t = 1 .. N /\ \A k \in 1 .. N : t[k] = s[InOrder(P)[k]]
    BY <1>3
  <1>5. \A k \in 1 .. N : t[k] \in ToSet(t)
    BY <1>4 DEF ToSet
  <1>6. t \in [1 .. N -> ToSet(t)]
    BY <1>3, <1>5
  <1>7. IsSeq(t) /\ Len(t) = N
    BY <1>6 DEF IsSeq
  <1> QED BY <1>1, <1>2, <1>4, <1>7, InOrderIs
-----------------------------------------------------------------------------
(* An export reads the catalogue in pages.  While no product comes or goes  *)
(* it has read the first products of the catalogue it began with, in their  *)
(* order, each page behind the last.                                        *)
WholePages(e) == e.limit = 0 \/ e.limit <= FetchBatch \/ e.limit % FetchBatch = 0

PageOf(e) == IF e.limit # 0 /\ e.limit < FetchBatch THEN e.limit ELSE FetchBatch

Distinct(rows) == \A i, j \in DOMAIN rows : rows[i].tcod = rows[j].tcod => i = j

(* The first products of what there was at the start.                       *)
FirstOnes(e, rows) ==
  /\ IsSeq(rows) /\ Len(rows) <= Cardinality(e.start)
  /\ \A k \in 1 .. Len(rows) : rows[k].tcod \in e.start /\ Rank(e.start, rows[k].tcod) = k

WhileReading(e, live) ==
  e.pc = "read" =>
    /\ e.start = live /\ e.page \in Nat \ {0} /\ FirstOnes(e, e.all)
    /\ Len(e.all) = (e.page - 1) * PageOf(e)
    /\ e.limit # 0 => Len(e.all) < e.limit

WhenRead(e) ==
  e.pc = "filter" =>
    /\ FirstOnes(e, e.all)
    /\ Len(e.all) = Cardinality(e.start) \/ (e.limit # 0 /\ Len(e.all) >= e.limit)

WhileSending(e) ==
  e.pc \in {"feed", "send", "persist"} =>
    /\ IsSeq(e.rest) /\ Distinct(e.rest) /\ ~e.again /\ e.sent \cap CodesOf(e.rest) = {}
    /\ e.limit = 0 => e.due \subseteq e.sent \cup CodesOf(e.rest)
    /\ e.limit # 0 /\ e.mode = "full_overwrite" =>
         Cardinality(e.sent \cup CodesOf(e.rest)) >= Min({e.limit, Cardinality(e.due)})

Undisturbed(e, live) ==
  WholePages(e) => WhileReading(e, live) /\ WhenRead(e) /\ WhileSending(e)

(* Rows of the catalogue.                                                   *)
ReadRows(list) == IsSeq(list) /\ CodesOf(list) \subseteq Codes

Job(e) ==
  /\ DOMAIN e = DOMAIN NoExport /\ e.limit \in Nat /\ e.start \subseteq Codes
  /\ ReadRows(e.all) /\ ReadRows(e.rest)
  /\ e.pc \in {"idle", "read", "filter"} => ~e.again /\ e.sent = {}

ExportInv ==
  /\ DOMAIN exp = Runners
  /\ \A r \in Runners : Job(exp[r]) /\ (r \notin moved => Undisturbed(exp[r], LiveCodes))

LEMMA CodesList == ASSUME NEW S, S \subseteq Codes PROVE Listing(S)
  <1>1. Codes \subseteq Int /\ IsFiniteSet(Codes)
    BY UpsertAssumption, FS_Interval DEF Codes
  <1> QED BY <1>1, FS_Subset DEF Listing

LEMMA LiveIs == ASSUME CodesInv PROVE LiveCodes \subseteq Codes
  BY DEF CodesInv, Table, LiveCodes, Live

LEMMA FetchIs == FetchBatch \in Nat /\ FetchBatch > 0 /\ ExportBatch \in Nat /\ ExportBatch > 0
  BY ExportAssumption

LEMMA LeastOf ==
  ASSUME NEW x \in Int, NEW y \in Int
  PROVE  Min({x, y}) = (IF x <= y THEN x ELSE y)
  BY DEF Min

LEMMA RightNumber ==
  ASSUME NEW e, Job(e), WholePages(e)
  PROVE  PageOf(e) \in Nat \ {0}
  BY FetchIs DEF PageOf, Job

(* Every page asks for as many products as the first.                       *)
LEMMA PagesAreWhole ==
  ASSUME NEW e, Job(e), WholePages(e), e.pc = "read", WhileReading(e, LiveCodes)
  PROVE  ReadSize(e) = PageOf(e) /\ ReadOffset(e) = Len(e.all)
  <1>1. /\ e.page \in Nat \ {0} /\ Len(e.all) \in Nat /\ e.limit \in Nat
        /\ Len(e.all) = (e.page - 1) * PageOf(e)
        /\ e.limit # 0 => Len(e.all) < e.limit
    BY SeqFacts DEF WhileReading, FirstOnes, Job
  <1>2. PICK F \in Nat, n \in Nat, L \in Nat, M \in Nat :
          F = FetchBatch /\ n = e.page - 1 /\ L = Len(e.all) /\ M = e.limit
    BY <1>1, FetchIs
  <1>3. F > 0 /\ L = n * PageOf(e) /\ (M # 0 => L < M)
    BY <1>1, <1>2, FetchIs
  <1>4. ReadSize(e) = PageOf(e)
    <2>1. CASE M = 0
      BY <1>2, <2>1 DEF ReadSize, PageOf
    <2>2. CASE M # 0 /\ M < F
      <3>1. PageOf(e) = M /\ L = n * M /\ L < M
        BY <1>2, <1>3, <2>2 DEF PageOf
      <3>2. L = 0
        <4>1. n = 0 \/ n * M >= M
          BY <2>2
        <4> QED BY <3>1, <4>1
      <3>3. Min({F, M - L}) = M
        BY <2>2, <3>2, LeastOf
      <3> QED BY <1>2, <2>2, <3>1, <3>3 DEF ReadSize
    <2>3. CASE M # 0 /\ M >= F
      <3>1. PageOf(e) = F /\ L = n * F /\ L < M
        BY <1>2, <1>3, <2>3 DEF PageOf
      <3>2. F <= M - L
        <4>1. M = F \/ M % F = 0
          BY <1>2, <2>3 DEF WholePages
        <4>2. PICK q \in Nat : M = q * F
          <5>1. CASE M = F
            <6>1. M = 1 * F /\ 1 \in Nat
              BY <5>1
            <6> QED BY <6>1
          <5>2. CASE M % F = 0
            <6>1. M = F * (M \div F) + (M % F) /\ M \div F \in Nat
              BY <1>3
            <6>2. M = (M \div F) * F
              BY <5>2, <6>1
            <6> QED BY <6>1, <6>2
          <5> QED BY <4>1, <5>1, <5>2
        <4>3. n < q
          <5>1. n >= q => n * F >= q * F
            OBVIOUS
          <5> QED BY <3>1, <4>2, <5>1
        <4>4. (q - n) * F >= F /\ M - L = (q - n) * F
          <5>1. q - n \in Nat /\ q - n >= 1
            BY <4>3
          <5> QED BY <3>1, <4>2, <5>1
        <4> QED BY <4>4
      <3>3. Min({F, M - L}) = F
        BY <3>2, LeastOf
      <3> QED BY <1>2, <2>3, <3>1, <3>3 DEF ReadSize
    <2> QED BY <2>1, <2>2, <2>3
  <1> QED BY <1>1, <1>4 DEF ReadOffset

(* The members that follow the first a, up to the b-th.                     *)
Between(S, a, b) == {i \in S : a < Rank(S, i) /\ Rank(S, i) <= b}

LEMMA BetweenIs ==
  ASSUME NEW S, Listing(S), NEW a \in Nat, NEW b \in Nat, a <= b, b <= Cardinality(S)
  PROVE  Cardinality(Between(S, a, b)) = b - a
  <1> DEFINE T == Between(S, a, b)
             f == [i \in T |-> Rank(S, i)]
  <1>1. \A i \in S : Cardinality(S) \in Nat /\ Rank(S, i) \in 1 .. Cardinality(S)
    BY RankGrows
  <1>2. \A i \in T : i \in S /\ Rank(S, i) \in a + 1 .. b
    BY <1>1 DEF Between
  <1>3. \A i, j \in T : f[i] = f[j] => i = j
    BY <1>2, RankOnce
  <1>4. ASSUME NEW k \in a + 1 .. b PROVE \E i \in T : f[i] = k
    <2>1. Cardinality(S) \in Nat
      BY FS_CardinalityType DEF Listing
    <2>2. k \in 1 .. Cardinality(S) /\ a < k /\ k <= b
      BY <1>4, <2>1
    <2>3. PICK i \in S : Rank(S, i) = k
      BY <2>2, RankOnto
    <2> QED BY <2>2, <2>3 DEF Between
  <1>5. f \in [T -> a + 1 .. b]
    BY <1>2
  <1> HIDE DEF f
  <1>6. f \in Bijection(T, a + 1 .. b)
    BY <1>3, <1>4, <1>5 DEF Bijection, Injection, Surjection, IsInjective
  <1>7. IsFiniteSet(T)
    <2>1. T \in SUBSET S
      BY DEF Between
    <2> QED BY <2>1, FS_Subset DEF Listing
  <1>8. Cardinality(a + 1 .. b) = Cardinality(T)
    BY <1>6, <1>7, FS_Bijection DEF ExistsBijection
  <1>9. Cardinality(a + 1 .. b) = b - a
    <2>1. a + 1 \in Int /\ b \in Int /\ (a + 1 > b => b - a = 0) /\ b - (a + 1) + 1 = b - a
      OBVIOUS
    <2>2. Cardinality(a + 1 .. b) = IF a + 1 > b THEN 0 ELSE b - (a + 1) + 1
      BY <2>1, FS_Interval
    <2> QED BY <2>1, <2>2
  <1> QED BY <1>8, <1>9

LEMMA BetweenRanks ==
  ASSUME NEW S, Listing(S), NEW a \in Nat, NEW b \in Nat, a <= b, b <= Cardinality(S),
         NEW t \in Between(S, a, b)
  PROVE  Rank(Between(S, a, b), t) = Rank(S, t) - a
  <1> DEFINE T == Between(S, a, b)
  <1>1. /\ Cardinality(S) \in Nat /\ Rank(S, t) \in 1 .. Cardinality(S) /\ t \in S
        /\ a < Rank(S, t) /\ Rank(S, t) <= b
    BY RankGrows DEF Between
  <1>2. ASSUME NEW j \in S
        PROVE  /\ j <= t <=> Rank(S, j) <= Rank(S, t)
               /\ Rank(S, j) \in Int
    <2>1. j \in Int /\ t \in Int /\ Rank(S, j) \in 1 .. Cardinality(S)
      BY <1>1, RankGrows DEF Listing
    <2>2. (j < t => Rank(S, j) < Rank(S, t)) /\ (t < j => Rank(S, t) < Rank(S, j))
      BY <1>1, RankGrows
    <2> QED BY <1>1, <2>1, <2>2
  <1>3. {j \in T : j <= t} = Between(S, a, Rank(S, t))
    BY <1>1, <1>2 DEF Between
  <1>4. Cardinality(Between(S, a, Rank(S, t))) = Rank(S, t) - a
    <2>1. Rank(S, t) \in Nat /\ a <= Rank(S, t) /\ Rank(S, t) <= Cardinality(S)
      BY <1>1
    <2> QED BY <2>1, BetweenIs
  <1> QED BY <1>3, <1>4 DEF Rank

LEMMA BetweenInOrder ==
  ASSUME NEW S, Listing(S), NEW a \in Nat, NEW b \in Nat, a <= b, b <= Cardinality(S),
         NEW page, page = InOrder(Between(S, a, b))
  PROVE  /\ DOMAIN page = 1 .. b - a
         /\ \A k \in 1 .. b - a : page[k] \in S /\ Rank(S, page[k]) = a + k
  <1> DEFINE T == Between(S, a, b)
  <1>1. T \in SUBSET S
    BY DEF Between
  <1>2. Listing(T) /\ Cardinality(T) = b - a
    BY <1>1, BetweenIs, ListingPart
  <1> HIDE DEF T
  <1>3. /\ DOMAIN page = 1 .. b - a
        /\ \A k \in 1 .. b - a : page[k] \in T /\ Rank(T, page[k]) = k
    BY <1>2, InOrderIs DEF T
  <1>4. ASSUME NEW k \in 1 .. b - a
        PROVE  page[k] \in S /\ Rank(S, page[k]) = a + k
    <2>1. PICK t \in T : t = page[k] /\ Rank(T, t) = k
      BY <1>3
    <2>2. Rank(T, t) = Rank(S, t) - a
      BY <2>1, BetweenRanks DEF T
    <2>3. Rank(S, t) \in Int
      <3>1. Cardinality(S) \in Nat /\ Rank(S, t) \in 1 .. Cardinality(S)
        BY <1>1, <2>1, RankGrows
      <3> QED BY <3>1
    <2> QED BY <1>1, <2>1, <2>2, <2>3
  <1> QED BY <1>3, <1>4

LEMMA JoinFacts ==
  ASSUME NEW s, NEW t, IsSeq(s), IsSeq(t)
  PROVE  /\ IsSeq(s \o t) /\ Len(s \o t) = Len(s) + Len(t)
         /\ \A k \in 1 .. Len(s) : (s \o t)[k] = s[k]
         /\ \A k \in 1 .. Len(t) : (s \o t)[Len(s) + k] = t[k]
  <1> DEFINE S == ToSet(s) \cup ToSet(t)
  <1>1. s \in Seq(S) /\ t \in Seq(S)
    BY DEF IsSeq
  <1> HIDE DEF S
  <1>2. s \o t \in Seq(S)
    BY <1>1
  <1>3. IsSeq(s \o t)
    BY <1>2, SeqIsSeq
  <1> QED BY <1>1, <1>3

(* One page, behind what was read before.                                   *)
LEMMA PageIs ==
  ASSUME NEW e, Job(e), WholePages(e), e.pc = "read", WhileReading(e, LiveCodes)
  PROVE  LET items == CatalogPage(e)
             N == Cardinality(e.start)
         IN /\ IsSeq(items) /\ N \in Nat
            /\ Len(items) = IF Len(e.all) + PageOf(e) <= N THEN PageOf(e) ELSE N - Len(e.all)
            /\ FirstOnes(e, e.all \o items)
            /\ Len(e.all \o items) = Len(e.all) + Len(items)
  <1>1. PICK S : S = LiveCodes /\ S = e.start
    BY DEF WhileReading
  <1>2. Listing(S)
    BY <1>1, CodesList DEF Job
  <1>3. PICK N \in Nat : N = Cardinality(S)
    BY <1>2, FS_CardinalityType DEF Listing
  <1>4. PICK a \in Nat, z \in Nat \ {0} : a = Len(e.all) /\ z = PageOf(e)
    BY RightNumber, SeqFacts DEF WhileReading, FirstOnes
  <1>5. /\ IsSeq(e.all) /\ a <= N
        /\ \A k \in 1 .. a : e.all[k].tcod \in S /\ Rank(S, e.all[k].tcod) = k
    BY <1>1, <1>3, <1>4 DEF WhileReading, FirstOnes
  <1>6. PICK b \in Nat : b = IF a + z <= N THEN a + z ELSE N
    OBVIOUS
  <1>7. a <= b /\ b <= N
    BY <1>5, <1>6
  <1>8. {t \in LiveCodes : /\ ReadOffset(e) < Rank(LiveCodes, t)
                           /\ Rank(LiveCodes, t) <= ReadOffset(e) + ReadSize(e)}
          = Between(S, a, b)
    <2>1. \A t \in S : Rank(S, t) \in 1 .. N
      BY <1>2, <1>3, RankGrows
    <2>2. ReadOffset(e) = a /\ ReadSize(e) = z
      BY <1>4, PagesAreWhole
    <2> QED BY <1>1, <1>6, <2>1, <2>2 DEF Between
  <1>9. PICK page : page = InOrder(Between(S, a, b))
    OBVIOUS
  <1>10. PICK items : items = CatalogPage(e)
    OBVIOUS
  <1>11. items = [k \in DOMAIN page |-> [tcod |-> page[k], path |-> CategoryName(e, page[k])]]
    BY <1>8, <1>9, <1>10 DEF CatalogPage
  <1>12. /\ DOMAIN page = 1 .. b - a
         /\ \A k \in 1 .. b - a : page[k] \in S /\ Rank(S, page[k]) = a + k
    <2>1. b <= Cardinality(S)
      BY <1>3, <1>7
    <2> QED BY <1>2, <1>7, <1>9, <2>1, BetweenInOrder
  <1>13. PICK m \in Nat : m = b - a
    BY <1>7
  <1>14. DOMAIN items = 1 .. m /\ \A k \in 1 .. m : items[k].tcod = page[k]
    BY <1>11, <1>12, <1>13
  <1>15. IsSeq(items) /\ Len(items) = m
    <2>1. \A k \in 1 .. m : items[k] \in ToSet(items)
      BY <1>14 DEF ToSet
    <2>2. items = [k \in 1 .. m |-> items[k]]
      BY <1>11, <1>12, <1>13, <1>14
    <2>3. items \in [1 .. m -> ToSet(items)]
      BY <2>1, <2>2
    <2> QED BY <2>3 DEF IsSeq
  <1>16. PICK rows : rows = e.all \o items
    OBVIOUS
  <1>17. /\ IsSeq(rows) /\ Len(rows) = a + m
         /\ \A k \in 1 .. a : rows[k] = e.all[k]
         /\ \A k \in 1 .. m : rows[a + k] = items[k]
    <2>1. PICK s : s = e.all
      OBVIOUS
    <2>2. IsSeq(s) /\ Len(s) = a /\ rows = s \o items
      BY <1>4, <1>5, <1>16, <2>1
    <2>3. /\ IsSeq(s \o items) /\ Len(s \o items) = Len(s) + Len(items)
          /\ \A k \in 1 .. Len(s) : (s \o items)[k] = s[k]
          /\ \A k \in 1 .. Len(items) : (s \o items)[Len(s) + k] = items[k]
      BY <1>15, <2>2, JoinFacts
    <2> QED BY <1>15, <2>1, <2>2, <2>3
  <1>18. ASSUME NEW k \in 1 .. a + m
         PROVE  rows[k].tcod \in S /\ Rank(S, rows[k].tcod) = k
    <2>1. CASE k <= a
      BY <1>5, <1>17, <2>1
    <2>2. CASE k > a
      <3>1. PICK l \in 1 .. m : k = a + l
        <4>1. k - a \in 1 .. m /\ k = a + (k - a)
          BY <1>18, <2>2
        <4> QED BY <4>1
      <3> QED BY <1>12, <1>13, <1>14, <1>17, <3>1
    <2> QED BY <2>1, <2>2
  <1>19. FirstOnes(e, rows)
    <2>1. Len(rows) <= Cardinality(e.start)
      BY <1>1, <1>3, <1>7, <1>13, <1>17
    <2> QED BY <1>1, <1>17, <1>18, <2>1 DEF FirstOnes
  <1>20. m = IF a + z <= N THEN z ELSE N - a
    BY <1>6, <1>13
  <1> QED BY <1>1, <1>3, <1>4, <1>10, <1>15, <1>16, <1>17, <1>19, <1>20

LEMMA NobodyReads == ASSUME NEW e, e.pc = "idle", NEW live PROVE Undisturbed(e, live)
  BY DEF Undisturbed, WhileReading, WhenRead, WhileSending

LEMMA NothingRead == ReadRows(<<>>)
  BY DEF ReadRows, IsSeq, CodesOf

LEMMA NoExportIs == Job(NoExport) /\ \A live : Undisturbed(NoExport, live)
  <1>1. /\ NoExport.pc = "idle" /\ NoExport.limit = 0 /\ NoExport.start = {}
        /\ ~NoExport.again /\ NoExport.sent = {} /\ NoExport.all = <<>> /\ NoExport.rest = <<>>
    BY DEF NoExport
  <1> QED BY <1>1, NobodyReads, NothingRead DEF Job

(* Until the first request an export has sent nothing.                      *)
Follows(f, e) ==
  /\ DOMAIN f = DOMAIN e /\ f.limit = e.limit /\ f.start = e.start /\ f.mode = e.mode
  /\ f.again = e.again /\ f.sent = e.sent

(* One page more.                                                           *)
LEMMA OnePageMore ==
  ASSUME NEW e, Job(e), e.pc = "read",
         NEW items, items = CatalogPage(e), NEW all, all = e.all \o items,
         NEW f, Follows(f, e), f.pc = "read", f.all = all, f.page = e.page + 1,
         ReadRows(all), f.rest = e.rest,
         ~(Len(items) < ReadSize(e)), ~(e.limit # 0 /\ Len(all) >= e.limit)
  PROVE  Job(f) /\ (Undisturbed(e, LiveCodes) => Undisturbed(f, LiveCodes))
  <1>1. /\ DOMAIN f = DOMAIN NoExport /\ f.limit = e.limit /\ f.start = e.start
        /\ f.again = e.again /\ f.sent = e.sent
        /\ f.pc = "read" /\ f.all = all /\ f.page = e.page + 1 /\ f.rest = e.rest
    BY DEF Job, Follows
  <1>2. Job(f)
    BY <1>1 DEF Job
  <1>3. ASSUME Undisturbed(e, LiveCodes), WholePages(f)
        PROVE  WhileReading(f, LiveCodes)
    <2>1. WholePages(e) /\ PageOf(f) = PageOf(e)
      BY <1>1, <1>3 DEF WholePages, PageOf
    <2>2. WhileReading(e, LiveCodes)
      BY <1>3, <2>1 DEF Undisturbed
    <2>3. PICK N \in Nat, n \in Nat, z \in Nat \ {0}, a \in Nat :
            /\ N = Cardinality(e.start) /\ n = e.page - 1 /\ e.page = n + 1
            /\ z = PageOf(e) /\ a = Len(e.all)
      <3>1. Cardinality(e.start) \in Nat
        BY <2>1, <2>2, PageIs
      <3>2. e.page \in Nat \ {0}
        BY <2>2 DEF WhileReading
      <3>3. PICK p : p = e.page
        OBVIOUS
      <3>4. PICK n \in Nat : n = p - 1 /\ p = n + 1
        <4>1. p - 1 \in Nat /\ p = (p - 1) + 1
          BY <3>2, <3>3
        <4> QED BY <4>1
      <3>5. PageOf(e) \in Nat \ {0} /\ Len(e.all) \in Nat
        BY <2>1, <2>2, RightNumber, SeqFacts DEF WhileReading, FirstOnes
      <3> QED BY <3>1, <3>3, <3>4, <3>5
    <2>4. a = n * z
      BY <2>2, <2>3 DEF WhileReading
    <2>5. /\ Len(items) = (IF a + z <= N THEN z ELSE N - a)
          /\ FirstOnes(e, all) /\ Len(all) = a + Len(items) /\ ReadSize(e) = z
      BY <2>1, <2>2, <2>3, PageIs, PagesAreWhole
    <2>6. Len(items) = z
      BY <2>3, <2>5
    <2>7. Len(all) = (n + 1) * z
      BY <2>4, <2>5, <2>6
    <2>8. f.page - 1 = n + 1 /\ f.page \in Nat \ {0}
      BY <1>1, <2>3
    <2>9. f.limit # 0 => Len(all) < f.limit
      BY <1>1, <2>3, <2>5, <2>6 DEF Job
    <2>10. FirstOnes(f, all)
      BY <1>1, <2>5 DEF FirstOnes
    <2>11. f.start = LiveCodes
      BY <1>1, <2>2 DEF WhileReading
    <2> QED BY <1>1, <2>1, <2>3, <2>7, <2>8, <2>9, <2>10, <2>11 DEF WhileReading
  <1> QED BY <1>1, <1>2, <1>3 DEF Undisturbed, WhenRead, WhileSending

(* The last page.                                                           *)
LEMMA LastPage ==
  ASSUME NEW e, Job(e), e.pc = "read",
         NEW items, items = CatalogPage(e), NEW all, all = e.all \o items,
         NEW f, Follows(f, e), f.pc = "filter", f.all = all, ReadRows(all), f.rest = e.rest,
         Len(items) < ReadSize(e) \/ Len(all) >= Cardinality(LiveCodes)
           \/ (e.limit # 0 /\ Len(all) >= e.limit)
  PROVE  Job(f) /\ (Undisturbed(e, LiveCodes) => Undisturbed(f, LiveCodes))
  <1>1. /\ DOMAIN f = DOMAIN NoExport /\ f.limit = e.limit /\ f.start = e.start
        /\ f.again = e.again /\ f.sent = e.sent
        /\ f.pc = "filter" /\ f.all = all /\ f.rest = e.rest
    BY DEF Job, Follows
  <1>2. Job(f)
    BY <1>1 DEF Job
  <1>3. ASSUME Undisturbed(e, LiveCodes), WholePages(f)
        PROVE  WhenRead(f)
    <2>1. WholePages(e)
      BY <1>1, <1>3 DEF WholePages
    <2>2. WhileReading(e, LiveCodes)
      BY <1>3, <2>1 DEF Undisturbed
    <2>3. PICK N \in Nat, z \in Nat \ {0}, a \in Nat :
            N = Cardinality(e.start) /\ z = PageOf(e) /\ a = Len(e.all)
      <3>1. Cardinality(e.start) \in Nat
        BY <2>1, <2>2, PageIs
      <3> QED BY <2>1, <2>2, <3>1, RightNumber, SeqFacts DEF WhileReading, FirstOnes
    <2>4. /\ Len(items) = (IF a + z <= N THEN z ELSE N - a)
          /\ FirstOnes(e, all) /\ Len(all) = a + Len(items) /\ ReadSize(e) = z
      BY <2>1, <2>2, <2>3, PageIs, PagesAreWhole
    <2>5. Len(all) <= N /\ N = Cardinality(LiveCodes)
      BY <2>2, <2>3, <2>4 DEF FirstOnes, WhileReading
    <2>6. Len(all) = N \/ (e.limit # 0 /\ Len(all) >= e.limit)
      BY <2>3, <2>4, <2>5
    <2>7. FirstOnes(f, all)
      BY <1>1, <2>4 DEF FirstOnes
    <2> QED BY <1>1, <2>3, <2>6, <2>7 DEF WhenRead
  <1> QED BY <1>1, <1>2, <1>3 DEF Undisturbed, WhileReading, WhileSending

(* The steps of an export leave the products alone.                         *)
Advances(r, f) ==
  /\ exp' = [exp EXCEPT ![r] = f]
  /\ LiveCodes' = LiveCodes
  /\ Job(f) /\ (Undisturbed(exp[r], LiveCodes) => Undisturbed(f, LiveCodes))

StillMoved ==
  moved' = {r \in Runners : /\ exp'[r].pc # "idle"
                            /\ r \in moved \/ (r \in Reading /\ LiveCodes' # LiveCodes)}

LEMMA AdvancesKeeps ==
  ASSUME ExportInv, StillMoved, NEW r \in Runners, NEW f, Advances(r, f) PROVE ExportInv'
  <1>1. DOMAIN exp' = Runners /\ exp'[r] = f /\ \A q \in Runners : q # r => exp'[q] = exp[q]
    BY DEF ExportInv, Advances
  <1>2. ASSUME NEW q \in Runners PROVE Job(exp'[q])
    BY <1>1 DEF ExportInv, Advances
  <1>3. ASSUME NEW q \in Runners, q \notin moved' PROVE Undisturbed(exp'[q], LiveCodes')
    <2>1. CASE exp'[q].pc = "idle"
      BY <2>1, NobodyReads
    <2>2. CASE exp'[q].pc # "idle"
      <3>1. q \notin moved
        BY <1>3, <2>2 DEF StillMoved
      <3>2. Undisturbed(exp[q], LiveCodes)
        BY <3>1 DEF ExportInv
      <3>3. Undisturbed(exp'[q], LiveCodes)
        BY <1>1, <3>2 DEF Advances
      <3> QED BY <3>3 DEF Advances
    <2> QED BY <2>1, <2>2
  <1>4. \A q \in Runners : Job(exp[q])'
    BY <1>2 DEF Job
  <1>5. \A q \in Runners : q \notin moved' => Undisturbed(exp[q], LiveCodes)'
    BY <1>3 DEF Undisturbed, WhileReading, WhenRead, WhileSending, WholePages, PageOf,
                FirstOnes, Distinct
  <1> QED BY <1>1, <1>4, <1>5 DEF ExportInv

LEMMA PageRows ==
  ASSUME CodesInv, NEW e PROVE ReadRows(CatalogPage(e))
  <1>1. PICK T : T = {t \in LiveCodes : /\ ReadOffset(e) < Rank(LiveCodes, t)
                                        /\ Rank(LiveCodes, t) <= ReadOffset(e) + ReadSize(e)}
    OBVIOUS
  <1>2. T \subseteq Codes
    BY <1>1, LiveIs
  <1>8. PICK page : page = InOrder(T)
    OBVIOUS
  <1>3. PICK n \in Nat : DOMAIN page = 1 .. n /\ \A k \in 1 .. n : page[k] \in T
    <2>1. Listing(T)
      BY <1>2, CodesList
    <2>2. Cardinality(T) \in Nat /\ DOMAIN page = 1 .. Cardinality(T)
          /\ \A k \in 1 .. Cardinality(T) : page[k] \in T
      BY <1>8, <2>1, InOrderIs
    <2> QED BY <2>2
  <1>4. PICK items : items = CatalogPage(e)
    OBVIOUS
  <1>5. items = [k \in 1 .. n |-> [tcod |-> page[k], path |-> CategoryName(e, page[k])]]
    BY <1>1, <1>3, <1>4, <1>8 DEF CatalogPage
  <1>6. IsSeq(items)
    <2>1. \A k \in 1 .. n : items[k] \in ToSet(items)
      BY <1>5 DEF ToSet
    <2>2. items \in [1 .. n -> ToSet(items)]
      BY <1>5, <2>1
    <2> QED BY <2>2 DEF IsSeq
  <1>7. CodesOf(items) \subseteq Codes
    <2>1. DOMAIN items = 1 .. n /\ \A k \in 1 .. n : items[k].tcod = page[k]
      BY <1>5
    <2> QED BY <1>2, <1>3, <2>1 DEF CodesOf
  <1> QED BY <1>4, <1>6, <1>7 DEF ReadRows

LEMMA JoinRows ==
  ASSUME NEW s, NEW t, ReadRows(s), ReadRows(t) PROVE ReadRows(s \o t)
  <1>1. PICK w : w = s \o t
    OBVIOUS
  <1>2. IsSeq(s) /\ IsSeq(t)
    BY DEF ReadRows
  <1>3. PICK m \in Nat, n \in Nat : /\ m = Len(s) /\ DOMAIN s = 1 .. m
                                    /\ n = Len(t) /\ DOMAIN t = 1 .. n
    BY <1>2, SeqFacts
  <1>4. /\ IsSeq(w) /\ Len(w) = m + n
        /\ \A k \in 1 .. m : w[k] = s[k]
        /\ \A k \in 1 .. n : w[m + k] = t[k]
    BY <1>1, <1>2, <1>3, JoinFacts
  <1>5. DOMAIN w = 1 .. m + n
    BY <1>4, SeqFacts
  <1>6. ASSUME NEW k \in 1 .. m + n PROVE w[k].tcod \in Codes
    <2>1. CASE k <= m
      <3>1. k \in 1 .. m
        BY <2>1
      <3>2. s[k].tcod \in CodesOf(s) /\ w[k] = s[k]
        BY <1>3, <1>4, <3>1 DEF CodesOf
      <3> QED BY <3>2 DEF ReadRows
    <2>2. CASE k > m
      <3>1. k - m \in 1 .. n /\ m + (k - m) = k
        BY <2>2
      <3>2. w[k] = t[k - m] /\ t[k - m].tcod \in CodesOf(t)
        BY <1>3, <1>4, <3>1 DEF CodesOf
      <3> QED BY <3>2 DEF ReadRows
    <2> QED BY <2>1, <2>2
  <1> QED BY <1>1, <1>4, <1>5, <1>6 DEF ReadRows, CodesOf

LEMMA ReadAdvances ==
  ASSUME ExportInv, CodesInv, NEW r \in Runners, ReadPage(r) PROVE \E f : Advances(r, f)
  <1>1. PICK e : e = exp[r]
    OBVIOUS
  <1>9. PICK items, all : items = CatalogPage(e) /\ all = e.all \o items
    OBVIOUS
  <1>2. Job(e) /\ e.pc = "read"
    BY <1>1 DEF ExportInv, ReadPage
  <1>10. ReadRows(all)
    BY <1>2, <1>9, PageRows, JoinRows DEF Job
  <1>3. LiveCodes' = LiveCodes
    BY DEF ReadPage, importVars, upsertVars, tables, LiveCodes, Live
  <1>4. PICK last \in BOOLEAN :
          last = (Len(items) < ReadSize(e) \/ Len(all) >= Cardinality(LiveCodes)
                    \/ (e.limit # 0 /\ Len(all) >= e.limit))
    OBVIOUS
  <1>5. exp' = [exp EXCEPT ![r] =
          IF ~last THEN [e EXCEPT !.all = all, !.page = @ + 1]
          ELSE IF all = <<>> THEN NoExport
          ELSE [e EXCEPT !.all = all, !.pc = "filter"]]
    BY <1>1, <1>4, <1>9 DEF ReadPage
  <1>6. CASE ~last
    <2>1. PICK f : f = [e EXCEPT !.all = all, !.page = @ + 1]
      OBVIOUS
    <2>2. ~(Len(items) < ReadSize(e)) /\ ~(e.limit # 0 /\ Len(all) >= e.limit)
      BY <1>4, <1>6
    <2>4. Follows(f, e) /\ f.pc = "read" /\ f.all = all /\ f.page = e.page + 1
          /\ f.rest = e.rest
      BY <1>2, <2>1, NoExportFields DEF Job, Follows
    <2>3. Job(f) /\ (Undisturbed(e, LiveCodes) => Undisturbed(f, LiveCodes))
      BY <1>2, <1>9, <1>10, <2>2, <2>4, OnePageMore
    <2> QED BY <1>1, <1>3, <1>5, <1>6, <2>1, <2>3 DEF Advances
  <1>7. CASE last /\ all = <<>>
    BY <1>3, <1>5, <1>7, NoExportIs DEF Advances
  <1>8. CASE last /\ all # <<>>
    <2>1. PICK f : f = [e EXCEPT !.all = all, !.pc = "filter"]
      OBVIOUS
    <2>3. Follows(f, e) /\ f.pc = "filter" /\ f.all = all /\ f.rest = e.rest
      BY <1>2, <2>1, NoExportFields DEF Job, Follows
    <2>2. Job(f) /\ (Undisturbed(e, LiveCodes) => Undisturbed(f, LiveCodes))
      BY <1>2, <1>4, <1>8, <1>9, <1>10, <2>3, LastPage
    <2> QED BY <1>1, <1>3, <1>5, <1>8, <2>1, <2>2 DEF Advances
  <1> QED BY <1>6, <1>7, <1>8

(* Rows without a repetition have as many codes.                            *)
LEMMA ManyCodes ==
  ASSUME NEW rows, IsSeq(rows), Distinct(rows)
  PROVE  Cardinality(CodesOf(rows)) = Len(rows) /\ IsFiniteSet(CodesOf(rows))
  <1> DEFINE f == [k \in 1 .. Len(rows) |-> rows[k].tcod]
  <1>1. Len(rows) \in Nat /\ DOMAIN rows = 1 .. Len(rows)
    BY SeqFacts
  <1>2. f \in Bijection(1 .. Len(rows), CodesOf(rows))
    <2>1. f \in [1 .. Len(rows) -> CodesOf(rows)]
      BY <1>1 DEF CodesOf
    <2>2. \A i, j \in 1 .. Len(rows) : f[i] = f[j] => i = j
      BY <1>1 DEF Distinct
    <2>3. \A t \in CodesOf(rows) : \E k \in 1 .. Len(rows) : f[k] = t
      BY <1>1 DEF CodesOf
    <2> QED BY <2>1, <2>2, <2>3 DEF Bijection, Injection, Surjection, IsInjective
  <1>3. IsFiniteSet(1 .. Len(rows)) /\ Cardinality(1 .. Len(rows)) = Len(rows)
    <2>1. PICK n \in Nat : n = Len(rows)
      BY <1>1
    <2>2. IsFiniteSet(1 .. n) /\ Cardinality(1 .. n) = n
      BY FS_Interval
    <2> QED BY <2>1, <2>2
  <1> HIDE DEF f
  <1> QED BY <1>2, <1>3, FS_Bijection DEF ExistsBijection

(* What the mode asks for, of all that was read.                            *)
LEMMA FilterSends ==
  ASSUME NEW e, Job(e), e.pc = "filter", NEW live, NEW mapped,
         NEW P \in SUBSET DOMAIN e.all, NEW due \in SUBSET e.start,
         \A k \in DOMAIN e.all : k \in P <=> Wanted(e.mode, mapped, e.all[k].tcod),
         \A t \in e.start : t \in due <=> Wanted(e.mode, mapped, t),
         NEW rows, rows = Picked(e.all, P),
         NEW f, Follows(f, e), f.pc \in {"send", "feed"}, f.rest = rows, f.due = due,
         f.all = e.all
  PROVE  Job(f) /\ (Undisturbed(e, live) => Undisturbed(f, live))
  <1>1. /\ DOMAIN f = DOMAIN NoExport /\ f.limit = e.limit /\ f.start = e.start
        /\ f.again = e.again /\ f.sent = e.sent /\ f.mode = e.mode
        /\ f.pc \in {"send", "feed"} /\ f.rest = rows /\ f.due = due /\ f.all = e.all
    BY DEF Job, Follows
  <1>5. ReadRows(rows)
    <2>1. PICK all : all = e.all
      OBVIOUS
    <2>2. IsSeq(all) /\ CodesOf(all) \subseteq Codes
      BY <2>1 DEF Job, ReadRows
    <2>3. PICK n \in Nat : DOMAIN all = 1 .. n
      BY <2>2, SeqFacts
    <2>4. Listing(P)
      <3>1. IsFiniteSet(1 .. n)
        BY FS_Interval
      <3>2. Listing(1 .. n) /\ P \in SUBSET (1 .. n)
        BY <2>1, <2>3, <3>1 DEF Listing
      <3> QED BY <3>2, ListingPart
    <2>8. PICK order : order = InOrder(P)
      OBVIOUS
    <2>9. PICK m \in Nat : m = Cardinality(P)
      BY <2>4, FS_CardinalityType DEF Listing
    <2>5. /\ DOMAIN rows = 1 .. m /\ IsSeq(rows)
          /\ \A k \in 1 .. m : order[k] \in P /\ rows[k] = all[order[k]]
      <3>1. rows = Picked(all, P)
        BY <2>1
      <3> QED BY ONLY <2>4, <2>8, <2>9, <3>1, PickedIs
    <2>6. \A k \in 1 .. m : rows[k].tcod \in CodesOf(all)
      BY <2>1, <2>5 DEF CodesOf
    <2>7. \A t \in CodesOf(rows) : \E k \in 1 .. m : t = rows[k].tcod
      BY <2>5 DEF CodesOf
    <2> QED BY <2>2, <2>5, <2>6, <2>7 DEF ReadRows
  <1>2. Job(f)
    BY <1>1, <1>5 DEF Job
  <1>3. ASSUME WhenRead(e)
        PROVE  /\ IsSeq(rows) /\ Distinct(rows)
               /\ e.limit = 0 => due \subseteq CodesOf(rows)
               /\ e.limit # 0 /\ e.mode = "full_overwrite" =>
                    Cardinality(CodesOf(rows)) >= Min({e.limit, Cardinality(due)})
    <2>1. PICK all : all = e.all
      OBVIOUS
    <2>2. PICK S : S = e.start
      OBVIOUS
    <2>3. /\ IsSeq(all) /\ Len(all) <= Cardinality(S)
          /\ \A k \in 1 .. Len(all) : all[k].tcod \in S /\ Rank(S, all[k].tcod) = k
          /\ Len(all) = Cardinality(S) \/ (e.limit # 0 /\ Len(all) >= e.limit)
      BY <1>3, <2>1, <2>2 DEF WhenRead, FirstOnes
    <2>4. Listing(S)
      BY <2>2, CodesList DEF Job
    <2>5. PICK n \in Nat, N \in Nat : n = Len(all) /\ N = Cardinality(S)
      BY <2>3, <2>4, SeqFacts, FS_CardinalityType DEF Listing
    <2>6. DOMAIN all = 1 .. n
      BY <2>3, <2>5, SeqFacts
    <2>7. Listing(1 .. n) /\ Cardinality(1 .. n) = n
      <3>1. IsFiniteSet(1 .. n) /\ Cardinality(1 .. n) = n
        BY FS_Interval
      <3>2. 1 .. n \subseteq Int
        OBVIOUS
      <3> QED BY <3>1, <3>2 DEF Listing
    <2>8. P \subseteq 1 .. n /\ \A k \in 1 .. n : k \in P <=> Wanted(e.mode, mapped, all[k].tcod)
      BY <2>1, <2>6
    <2>9. Listing(P)
      BY <2>7, <2>8, ListingPart
    <2>10. PICK order : order = InOrder(P)
      OBVIOUS
    <2>11. PICK m \in Nat : m = Cardinality(P)
      BY <2>9, FS_CardinalityType DEF Listing
    <2>17. rows = Picked(all, P)
      BY <2>1
    <2>12. /\ DOMAIN rows = 1 .. m /\ IsSeq(rows) /\ Len(rows) = m
           /\ \A k \in 1 .. m : order[k] \in P /\ rows[k] = all[order[k]]
           /\ \A p \in P : \E k \in 1 .. m : order[k] = p
      BY ONLY <2>9, <2>10, <2>11, <2>17, PickedIs
    <2>13. \A k, l \in 1 .. m : k < l <=> order[k] < order[l]
      BY <2>9, <2>10, <2>11, InOrderIs
    <2>14. Distinct(rows)
      <3>1. ASSUME NEW i \in 1 .. m, NEW j \in 1 .. m, rows[i].tcod = rows[j].tcod PROVE i = j
        <4>1. order[i] \in 1 .. n /\ order[j] \in 1 .. n
          BY <2>8, <2>12
        <4>2. all[order[i]].tcod = all[order[j]].tcod
          BY <2>12, <3>1
        <4>3. order[i] = order[j]
          BY <2>3, <2>5, <4>1, <4>2
        <4>4. ~(i < j) /\ ~(j < i)
          BY <2>13, <4>1, <4>3
        <4> QED BY <4>4
      <3> QED BY <2>12, <3>1 DEF Distinct
    <2>15. ASSUME e.limit = 0, NEW t \in due PROVE t \in CodesOf(rows)
      <3>1. t \in S /\ Wanted(e.mode, mapped, t)
        BY <2>2, <2>15
      <3>2. N = n
        BY <2>3, <2>5, <2>15
      <3>3. PICK k \in 1 .. n : k = Rank(S, t)
        <4>1. Rank(S, t) \in 1 .. N
          BY <2>4, <2>5, <3>1, RankGrows
        <4> QED BY <3>2, <4>1
      <3>4. all[k].tcod \in S /\ Rank(S, all[k].tcod) = k
        BY <2>3, <2>5
      <3>5. all[k].tcod = t
        BY <2>4, <3>1, <3>3, <3>4, RankOnce
      <3>6. PICK l \in 1 .. m : order[l] = k
        BY <2>8, <2>12, <3>1, <3>5
      <3>7. rows[l].tcod = t /\ l \in DOMAIN rows
        BY <2>12, <3>5, <3>6
      <3> QED BY <3>7 DEF CodesOf
    <2>16. ASSUME e.limit # 0, e.mode = "full_overwrite"
           PROVE  Cardinality(CodesOf(rows)) >= Min({e.limit, Cardinality(due)})
      <3>1. P = 1 .. n /\ due = S
        BY <2>2, <2>8, <2>16 DEF Wanted
      <3>2. m = n
        BY <2>7, <2>11, <3>1
      <3>3. Cardinality(CodesOf(rows)) = n
        BY <2>12, <2>14, <3>2, ManyCodes
      <3>4. Min({e.limit, N}) = (IF e.limit <= N THEN e.limit ELSE N)
        BY LeastOf DEF Job
      <3>5. n >= (IF e.limit <= N THEN e.limit ELSE N)
        BY <2>3, <2>5 DEF Job
      <3> QED BY <2>5, <3>1, <3>3, <3>4, <3>5
    <2> QED BY <2>12, <2>14, <2>15, <2>16
  <1>4. ASSUME Undisturbed(e, live), WholePages(f) PROVE WhileSending(f)
    <2>1. WhenRead(e)
      BY <1>1, <1>4 DEF Undisturbed, WholePages
    <2>2. ~f.again /\ f.sent = {}
      BY <1>1 DEF Job
    <2>3. /\ f.sent \cap CodesOf(f.rest) = {}
          /\ f.sent \cup CodesOf(f.rest) = CodesOf(rows)
      BY <1>1, <2>2
    <2> QED BY <1>1, <1>3, <2>1, <2>2, <2>3 DEF WhileSending
  <1> QED BY <1>1, <1>2, <1>4 DEF Undisturbed, WhileReading, WhenRead

LEMMA FilterAdvances ==
  ASSUME ExportInv, NEW r \in Runners, NEW next \in {"send", "feed"}, FilterByMode(r, next)
  PROVE  \E f : Advances(r, f)
  <1>1. PICK e : e = exp[r]
    OBVIOUS
  <1>2. Job(e) /\ e.pc = "filter"
    BY <1>1 DEF ExportInv, FilterByMode
  <1>3. LiveCodes' = LiveCodes
    BY DEF FilterByMode, importVars, upsertVars, tables, LiveCodes, Live
  <1>4. PICK mapped : mapped = AllMappedTcods(e.shop)
    OBVIOUS
  <1>5. PICK P : P = {k \in DOMAIN e.all : Wanted(e.mode, mapped, e.all[k].tcod)}
    OBVIOUS
  <1>6. PICK rows, due : /\ rows = Picked(e.all, P)
                         /\ due = {t \in e.start : Wanted(e.mode, mapped, t)}
    OBVIOUS
  <1>7. PICK f : f = [e EXCEPT !.pc = next, !.rest = rows, !.due = due]
    OBVIOUS
  <1>8. exp' = [exp EXCEPT ![r] = IF rows = <<>> THEN NoExport ELSE f]
    BY <1>1, <1>4, <1>5, <1>6, <1>7 DEF FilterByMode
  <1>9. Job(f) /\ (Undisturbed(e, LiveCodes) => Undisturbed(f, LiveCodes))
    <2>1. /\ Follows(f, e) /\ f.pc = next /\ f.rest = rows /\ f.due = due
          /\ f.all = e.all
      BY <1>2, <1>7, NoExportFields DEF Job, Follows
    <2>2. /\ P \in SUBSET DOMAIN e.all /\ due \in SUBSET e.start
          /\ \A k \in DOMAIN e.all : k \in P <=> Wanted(e.mode, mapped, e.all[k].tcod)
          /\ \A t \in e.start : t \in due <=> Wanted(e.mode, mapped, t)
      BY <1>5, <1>6
    <2> QED BY <1>2, <1>6, <2>1, <2>2, FilterSends
  <1>10. CASE rows = <<>>
    BY <1>3, <1>8, <1>10, NoExportIs DEF Advances
  <1>11. CASE rows # <<>>
    BY <1>1, <1>3, <1>8, <1>9, <1>11 DEF Advances
  <1> QED BY <1>10, <1>11

(* A request takes the first rows.                                          *)
Cut(s, n, first, c, others, m) ==
  /\ DOMAIN s = 1 .. n /\ c <= n /\ m = n - c
  /\ IsSeq(first) /\ DOMAIN first = 1 .. c /\ Len(first) = c
  /\ \A k \in 1 .. c : first[k] = s[k]
  /\ IsSeq(others) /\ DOMAIN others = 1 .. m
  /\ \A k \in 1 .. m : others[k] = s[c + k]

LEMMA ChunkIs ==
  ASSUME NEW e, IsSeq(e.rest), NEW s, s = e.rest,
         NEW first, first = Chunk(e), NEW others, others = Rest(e)
  PROVE  \E n \in Nat, c \in Nat, m \in Nat : Cut(s, n, first, c, others, m)
  <1>1. s = e.rest
    OBVIOUS
  <1>2. PICK n \in Nat : n = Len(s)
    BY <1>1, SeqFacts
  <1>3. IsSeq(s) /\ DOMAIN s = 1 .. n /\ s \in Seq(ToSet(s))
    BY <1>1, <1>2, SeqFacts DEF IsSeq
  <1>4. PICK c \in Nat : c <= n /\ c = Min({n, ExportBatch})
    BY <1>2, FetchIs, LeastOf
  <1>21. c <= n /\ \A i \in 1 .. c : i \in 1 .. n
    <2>1. c <= n
      BY <1>4
    <2> QED BY <2>1
  <1>5. PICK T : s \in Seq(T)
    BY <1>3
  <1>19. \A k \in 1 .. n : s[k] \in T
    BY <1>2, <1>5
  <1>6. first = SubSeq(s, 1, c) /\ others = SubSeq(s, c + 1, n)
    <2>1. first = SubSeq(s, 1, c)
      BY <1>1, <1>2, <1>4 DEF Chunk
    <2>3. Len(SubSeq(s, 1, c)) = c
      <3>1. \A k \in 1 .. c : s[k] \in T
        BY <1>19, <1>21
      <3>2. Len(SubSeq(s, 1, c)) = IF 1 <= c THEN c - 1 + 1 ELSE 0
        BY <3>1, SubSeqProperties
      <3> QED BY <3>2
    <2> QED BY <1>1, <1>2, <2>1, <2>3 DEF Rest
  <1>7. /\ first \in Seq(T) /\ Len(first) = c /\ DOMAIN first = 1 .. c
        /\ \A k \in 1 .. c : first[k] = s[k]
    <2>1. \A k \in 1 .. c : s[k] \in T
      BY <1>4, <1>19
    <2>2. /\ SubSeq(s, 1, c) \in Seq(T)
          /\ Len(SubSeq(s, 1, c)) = IF 1 <= c THEN c - 1 + 1 ELSE 0
          /\ \A k \in 1 .. c - 1 + 1 : SubSeq(s, 1, c)[k] = s[1 + k - 1]
      BY <2>1, SubSeqProperties
    <2>3. first \in Seq(T) /\ Len(first) = c
      BY <1>6, <2>2
    <2>4. ASSUME NEW k \in 1 .. c PROVE first[k] = s[k]
      <3>1. k \in 1 .. c - 1 + 1 /\ 1 + k - 1 = k
        OBVIOUS
      <3> QED BY <1>6, <2>2, <3>1
    <2> QED BY <2>3, <2>4
  <1>8. PICK m \in Nat : m = n - c
    BY <1>4
  <1>9. /\ others \in Seq(T) /\ Len(others) = m /\ DOMAIN others = 1 .. m
        /\ \A k \in 1 .. m : others[k] = s[c + k]
    <2>5. PICK b \in Int : b = c + 1
      OBVIOUS
    <2>1. n \in Int /\ \A k \in b .. n : s[k] \in T
      BY <1>19, <2>5
    <2>2. /\ SubSeq(s, b, n) \in Seq(T)
          /\ Len(SubSeq(s, b, n)) = IF b <= n THEN n - b + 1 ELSE 0
          /\ \A k \in 1 .. n - b + 1 : SubSeq(s, b, n)[k] = s[b + k - 1]
      BY ONLY <2>1, <2>5, SubSeqProperties
    <2>6. others = SubSeq(s, b, n)
      BY <1>6, <2>5
    <2>7. m = IF b <= n THEN n - b + 1 ELSE 0
      BY <1>8, <1>21, <2>5
    <2>3. others \in Seq(T) /\ Len(others) = m
      BY <2>2, <2>6, <2>7
    <2>4. ASSUME NEW k \in 1 .. m PROVE others[k] = s[c + k]
      <3>1. k \in 1 .. n - b + 1 /\ b + k - 1 = c + k
        BY <1>8, <2>5
      <3> QED BY <2>2, <2>6, <3>1
    <2> QED BY <2>3, <2>4
  <1>11. IsSeq(first) /\ IsSeq(others)
    BY <1>7, <1>9, SeqIsSeq
  <1>12. DOMAIN s = 1 .. n /\ c <= n /\ m = n - c
    BY ONLY <1>3, <1>8, <1>21
  <1>13. /\ IsSeq(first) /\ DOMAIN first = 1 .. c /\ Len(first) = c
         /\ \A k \in 1 .. c : first[k] = s[k]
    BY ONLY <1>7, <1>11
  <1>14. /\ IsSeq(others) /\ DOMAIN others = 1 .. m
         /\ \A k \in 1 .. m : others[k] = s[c + k]
    BY ONLY <1>9, <1>11
  <1>15. Cut(s, n, first, c, others, m)
    BY ONLY <1>12, <1>13, <1>14 DEF Cut
  <1>16. c \in Nat /\ m \in Nat /\ n \in Nat
    BY <1>2, <1>4, <1>8
  <1> QED BY ONLY <1>15, <1>16

LEMMA ChunkFacts ==
  ASSUME NEW e, IsSeq(e.rest)
  PROVE  /\ IsSeq(Chunk(e)) /\ IsSeq(Rest(e)) /\ Len(Chunk(e)) \in Nat
         /\ CodesOf(e.rest) = CodesOf(Chunk(e)) \cup CodesOf(Rest(e))
         /\ Distinct(e.rest) =>
              /\ Distinct(Rest(e)) /\ CodesOf(Chunk(e)) \cap CodesOf(Rest(e)) = {}
              /\ Cardinality(CodesOf(Chunk(e))) = Len(Chunk(e))
  <1>1. PICK s, first, others : s = e.rest /\ first = Chunk(e) /\ others = Rest(e)
    OBVIOUS
  <1>5. PICK n \in Nat, c \in Nat, m \in Nat : Cut(s, n, first, c, others, m)
    BY <1>1, ChunkIs
  <1>2. /\ DOMAIN s = 1 .. n /\ c <= n /\ m = n - c
        /\ IsSeq(first) /\ DOMAIN first = 1 .. c /\ Len(first) = c
        /\ \A k \in 1 .. c : first[k] = s[k]
        /\ IsSeq(others) /\ DOMAIN others = 1 .. m
        /\ \A k \in 1 .. m : others[k] = s[c + k]
    BY <1>5 DEF Cut
  <1>3. c <= n /\ m = n - c /\ \A i \in 1 .. c : i \in 1 .. n
    BY <1>2
  <1>13. ASSUME NEW k \in 1 .. n
         PROVE  s[k].tcod \in CodesOf(first) \cup CodesOf(others)
    <2>1. CASE k <= c
      <3>1. k \in 1 .. c
        BY <2>1
      <3>2. first[k] = s[k] /\ k \in DOMAIN first
        BY <1>2, <3>1
      <3> QED BY <3>2 DEF CodesOf
    <2>2. CASE k > c
      <3>1. k - c \in 1 .. m /\ c + (k - c) = k
        BY <1>3, <2>2
      <3>2. others[k - c] = s[k]
        BY <1>2, <3>1
      <3> QED BY <1>2, <3>1, <3>2 DEF CodesOf
    <2> QED BY <2>1, <2>2
  <1>14. ASSUME NEW t \in CodesOf(first) PROVE \E i \in 1 .. c : i \in 1 .. n /\ t = s[i].tcod
    <2>1. PICK i \in DOMAIN first : t = first[i].tcod
      BY DEF CodesOf
    <2>2. i \in 1 .. c
      BY <1>2, <2>1
    <2>3. first[i] = s[i] /\ i \in 1 .. n
      BY <1>2, <1>3, <2>2
    <2> QED BY <2>1, <2>2, <2>3
  <1>15. ASSUME NEW t \in CodesOf(others)
         PROVE  \E j \in 1 .. n : j > c /\ t = s[j].tcod
    <2>1. PICK i \in DOMAIN others : t = others[i].tcod
      BY DEF CodesOf
    <2>2. i \in 1 .. m
      BY <1>2, <2>1
    <2>3. c + i \in 1 .. n /\ c + i > c
      BY <1>3, <2>2
    <2>4. others[i] = s[c + i]
      BY <1>2, <2>2
    <2> QED BY <2>1, <2>3, <2>4
  <1>16. CodesOf(s) = CodesOf(first) \cup CodesOf(others)
    <2>1. \A t \in CodesOf(s) : \E k \in 1 .. n : t = s[k].tcod
      BY <1>2 DEF CodesOf
    <2>2. \A k \in 1 .. n : s[k].tcod \in CodesOf(s)
      BY <1>2 DEF CodesOf
    <2> QED BY <1>13, <1>14, <1>15, <2>1, <2>2
  <1>4. ASSUME Distinct(s)
        PROVE  /\ Distinct(others) /\ CodesOf(first) \cap CodesOf(others) = {}
               /\ Cardinality(CodesOf(first)) = c
    <2>1. \A i, j \in 1 .. n : s[i].tcod = s[j].tcod => i = j
      BY <1>2, <1>4 DEF Distinct
    <2>2. Distinct(first)
      <3>1. ASSUME NEW i \in 1 .. c, NEW j \in 1 .. c, first[i].tcod = first[j].tcod PROVE i = j
        <4>1. i \in 1 .. n /\ j \in 1 .. n /\ s[i].tcod = s[j].tcod
          BY <1>2, <1>3, <3>1
        <4> QED BY <2>1, <4>1
      <3> QED BY <1>2, <3>1 DEF Distinct
    <2>3. ASSUME NEW i \in 1 .. m, NEW j \in 1 .. m, others[i].tcod = others[j].tcod PROVE i = j
      <3>1. c + i \in 1 .. n /\ c + j \in 1 .. n
        BY <1>3
      <3>2. c + i = c + j
        <4>1. s[c + i].tcod = s[c + j].tcod
          BY <1>2, <2>3
        <4> QED BY <2>1, <3>1, <4>1
      <3> QED BY <3>2
    <2>4. ASSUME NEW t \in CodesOf(first), t \in CodesOf(others) PROVE FALSE
      <3>1. PICK i \in 1 .. c : i \in 1 .. n /\ t = s[i].tcod
        BY <1>14
      <3>2. PICK j \in 1 .. n : j > c /\ t = s[j].tcod
        BY <1>15, <2>4
      <3>3. i = j
        BY <2>1, <3>1, <3>2
      <3> QED BY <3>1, <3>2, <3>3
    <2>5. Cardinality(CodesOf(first)) = c
      BY <1>2, <2>2, ManyCodes
    <2> QED BY <1>2, <2>3, <2>4, <2>5 DEF Distinct
  <1> QED BY <1>1, <1>2, <1>4, <1>16

(* What an export is for stays the same while it sends.                     *)
Continues(f, e) ==
  /\ DOMAIN f = DOMAIN NoExport /\ f.limit = e.limit /\ f.start = e.start
  /\ f.mode = e.mode /\ f.due = e.due /\ f.all = e.all
  /\ f.pc \in {"feed", "send", "persist"}

LEMMA ChunkSent ==
  ASSUME NEW e, Job(e), e.pc = "send", NEW live,
         NEW f, Continues(f, e), f.rest = Rest(e), f.sent = e.sent \cup CodesOf(Chunk(e)),
         f.again = (e.again \/ CodesOf(Chunk(e)) \cap e.sent # {}
                            \/ Cardinality(CodesOf(Chunk(e))) < Len(Chunk(e)))
  PROVE  Job(f) /\ (Undisturbed(e, live) => Undisturbed(f, live))
  <1>1. Job(f)
    <2>1. ReadRows(f.rest)
      BY ChunkFacts DEF Job, ReadRows
    <2> QED BY <2>1 DEF Continues, Job
  <1>2. ASSUME WhileSending(e) PROVE WhileSending(f)
    <2>1. IsSeq(e.rest) /\ Distinct(e.rest) /\ ~e.again /\ e.sent \cap CodesOf(e.rest) = {}
      BY <1>2 DEF WhileSending
    <2>2. /\ IsSeq(Rest(e)) /\ Distinct(Rest(e))
          /\ CodesOf(e.rest) = CodesOf(Chunk(e)) \cup CodesOf(Rest(e))
          /\ CodesOf(Chunk(e)) \cap CodesOf(Rest(e)) = {}
          /\ Cardinality(CodesOf(Chunk(e))) = Len(Chunk(e)) /\ Len(Chunk(e)) \in Nat
      BY <2>1, ChunkFacts
    <2>3. ~f.again
      <3>1. CodesOf(Chunk(e)) \cap e.sent = {} /\ ~(Cardinality(CodesOf(Chunk(e))) < Len(Chunk(e)))
        BY <2>1, <2>2
      <3> QED BY <2>1, <3>1
    <2>4. f.sent \cap CodesOf(f.rest) = {}
      BY <2>1, <2>2
    <2>5. f.sent \cup CodesOf(f.rest) = e.sent \cup CodesOf(e.rest)
      BY <2>2
    <2> QED BY <1>2, <2>2, <2>3, <2>4, <2>5 DEF WhileSending, Continues
  <1> QED BY <1>1, <1>2 DEF Undisturbed, WhileReading, WhenRead, Continues, WholePages

LEMMA ContinuesOn ==
  ASSUME NEW e, Job(e), e.pc \in {"feed", "send", "persist"}, NEW live,
         NEW f, Continues(f, e), f.rest = e.rest, f.sent = e.sent, f.again = e.again
  PROVE  Job(f) /\ (Undisturbed(e, live) => Undisturbed(f, live))
  <1>1. Job(f)
    BY DEF Continues, Job
  <1>2. WhileSending(e) => WhileSending(f)
    BY DEF WhileSending, Continues
  <1> QED BY <1>1, <1>2 DEF Undisturbed, WhileReading, WhenRead, Continues, WholePages

LEMMA AfterChunkGoesOn ==
  ASSUME NEW e, Job(e), e.pc \in {"send", "persist"}, NEW live
  PROVE  Job(AfterChunk(e)) /\ (Undisturbed(e, live) => Undisturbed(AfterChunk(e), live))
  <1>1. PICK f : f = [e EXCEPT !.pc = "send", !.chunk = <<>>, !.log = {}, !.row = 1]
    OBVIOUS
  <1>2. Continues(f, e) /\ f.rest = e.rest /\ f.sent = e.sent /\ f.again = e.again
    BY <1>1, NoExportFields DEF Job, Continues
  <1>3. Job(f) /\ (Undisturbed(e, live) => Undisturbed(f, live))
    BY <1>2, ContinuesOn
  <1>4. AfterChunk(e) = NoExport \/ AfterChunk(e) = f
    BY <1>1 DEF AfterChunk
  <1> QED BY <1>3, <1>4, NoExportIs

LEMMA AnswersAdvances ==
  ASSUME ExportInv, NEW r \in Runners, NEW accepted, Answers(r, accepted), exp[r].pc = "send"
  PROVE  \E f : Advances(r, f)
  <1>1. PICK e : e = exp[r]
    OBVIOUS
  <1>2. Job(e) /\ e.pc = "send"
    BY <1>1 DEF ExportInv
  <1>3. PICK n : n = NoteSent(e)
    OBVIOUS
  <1>4. /\ DOMAIN n = DOMAIN NoExport /\ n.limit = e.limit /\ n.start = e.start
        /\ n.mode = e.mode /\ n.due = e.due /\ n.all = e.all
        /\ n.sent = e.sent \cup CodesOf(Chunk(e))
        /\ n.again = (e.again \/ CodesOf(Chunk(e)) \cap e.sent # {}
                              \/ Cardinality(CodesOf(Chunk(e))) < Len(Chunk(e)))
    BY <1>2, <1>3, NoExportFields DEF Job, NoteSent
  <1>5. PICK f : f = [n EXCEPT !.pc = "persist", !.chunk = Chunk(e), !.log = accepted,
                               !.rest = Rest(e)]
    OBVIOUS
  <1>6. Continues(f, e) /\ f.rest = Rest(e) /\ f.sent = n.sent /\ f.again = n.again
    BY <1>4, <1>5, NoExportFields DEF Continues
  <1>7. Job(f) /\ (Undisturbed(e, LiveCodes) => Undisturbed(f, LiveCodes))
    BY <1>2, <1>4, <1>6, ChunkSent
  <1>8. exp' = [exp EXCEPT ![r] = f]
    BY <1>1, <1>3, <1>5 DEF Answers
  <1>9. LiveCodes' = LiveCodes
    BY DEF Answers, upsertVars, tables, LiveCodes, Live
  <1> QED BY <1>1, <1>7, <1>8, <1>9 DEF Advances

LEMMA FailsAdvances ==
  ASSUME ExportInv, NEW r \in Runners, SendFails(r) PROVE \E f : Advances(r, f)
  <1>1. PICK e : e = exp[r]
    OBVIOUS
  <1>2. Job(e) /\ e.pc = "send"
    BY <1>1 DEF ExportInv, SendFails
  <1>3. PICK n : n = NoteSent(e)
    OBVIOUS
  <1>4. /\ DOMAIN n = DOMAIN NoExport /\ n.limit = e.limit /\ n.start = e.start
        /\ n.mode = e.mode /\ n.due = e.due /\ n.pc = e.pc /\ n.all = e.all
        /\ n.sent = e.sent \cup CodesOf(Chunk(e))
        /\ n.again = (e.again \/ CodesOf(Chunk(e)) \cap e.sent # {}
                              \/ Cardinality(CodesOf(Chunk(e))) < Len(Chunk(e)))
    BY <1>2, <1>3, NoExportFields DEF Job, NoteSent
  <1>5. PICK f : f = [n EXCEPT !.rest = Rest(e)]
    OBVIOUS
  <1>6. /\ Continues(f, e) /\ f.rest = Rest(e) /\ f.sent = n.sent /\ f.again = n.again
        /\ f.pc = "send"
    BY <1>2, <1>4, <1>5, NoExportFields DEF Continues
  <1>7. Job(f) /\ (Undisturbed(e, LiveCodes) => Undisturbed(f, LiveCodes))
    BY <1>2, <1>4, <1>6, ChunkSent
  <1>8. PICK g : g = AfterChunk(f)
    OBVIOUS
  <1>9. Job(g) /\ (Undisturbed(f, LiveCodes) => Undisturbed(g, LiveCodes))
    BY <1>6, <1>7, <1>8, AfterChunkGoesOn
  <1>10. exp' = [exp EXCEPT ![r] = g]
    BY <1>1, <1>3, <1>5, <1>8 DEF SendFails
  <1>11. LiveCodes' = LiveCodes
    BY DEF SendFails, tables, LiveCodes, Live
  <1> QED BY <1>1, <1>7, <1>9, <1>10, <1>11 DEF Advances

LEMMA FeedAdvances ==
  ASSUME ExportInv, NEW r \in Runners, AskFeed(r) PROVE \E f : Advances(r, f)
  <1>1. PICK e : e = exp[r]
    OBVIOUS
  <1>2. Job(e) /\ e.pc = "feed"
    BY <1>1 DEF ExportInv, AskFeed
  <1>3. PICK f : f = [e EXCEPT !.pc = "send"]
    OBVIOUS
  <1>4. Continues(f, e) /\ f.rest = e.rest /\ f.sent = e.sent /\ f.again = e.again
    BY <1>2, <1>3, NoExportFields DEF Job, Continues
  <1>5. Job(f) /\ (Undisturbed(e, LiveCodes) => Undisturbed(f, LiveCodes))
    BY <1>2, <1>4, ContinuesOn
  <1>6. exp' = [exp EXCEPT ![r] = f]
    BY <1>1, <1>3 DEF AskFeed, ExportInv
  <1>7. LiveCodes' = LiveCodes
    BY DEF AskFeed, importVars, upsertVars, tables, LiveCodes, Live
  <1> QED BY <1>1, <1>5, <1>6, <1>7 DEF Advances

LEMMA PersistAdvances ==
  ASSUME ExportInv, NEW r \in Runners, NEW skip, NEW row, Persist(r, skip, row)
  PROVE  \E f : Advances(r, f)
  <1>1. PICK e : e = exp[r]
    OBVIOUS
  <1>2. Job(e) /\ e.pc = "persist"
    BY <1>1 DEF ExportInv, Persist
  <1>3. LiveCodes' = LiveCodes
    BY DEF Persist, upsertVars, tables, LiveCodes, Live
  <1>4. PICK a : a = AfterChunk(e)
    OBVIOUS
  <1>5. Job(a) /\ (Undisturbed(e, LiveCodes) => Undisturbed(a, LiveCodes))
    BY <1>2, <1>4, AfterChunkGoesOn
  <1>6. PICK f : f = [e EXCEPT !.row = @ + 1]
    OBVIOUS
  <1>7. Continues(f, e) /\ f.rest = e.rest /\ f.sent = e.sent /\ f.again = e.again
    BY <1>2, <1>6, NoExportFields DEF Job, Continues
  <1>8. Job(f) /\ (Undisturbed(e, LiveCodes) => Undisturbed(f, LiveCodes))
    BY <1>2, <1>7, ContinuesOn
  <1>9. exp' = [exp EXCEPT ![r] = a] \/ exp' = [exp EXCEPT ![r] = f]
    BY <1>1, <1>4, <1>6 DEF Persist
  <1> QED BY <1>1, <1>3, <1>5, <1>8, <1>9 DEF Advances

LEMMA StartAdvances ==
  ASSUME ExportInv, CodesInv, NEW r \in Runners, NEW shop, NEW mode, NEW limit \in ExportLimits,
         StartExport(r, shop, mode, limit)
  PROVE  \E f : Advances(r, f)
  <1>1. PICK names :
          exp' = [exp EXCEPT ![r] =
            [NoExport EXCEPT !.pc = "read", !.shop = shop, !.mode = mode, !.limit = limit,
                             !.names = names, !.start = LiveCodes]]
    BY DEF StartExport
  <1>2. PICK f : f = [NoExport EXCEPT !.pc = "read", !.shop = shop, !.mode = mode,
                                      !.limit = limit, !.names = names, !.start = LiveCodes]
    OBVIOUS
  <1>3. /\ NoExport.all = <<>> /\ NoExport.rest = <<>> /\ NoExport.page = 1
        /\ ~NoExport.again /\ NoExport.sent = {}
    BY DEF NoExport
  <1>4. /\ DOMAIN f = DOMAIN NoExport /\ f.pc = "read" /\ f.limit = limit /\ f.start = LiveCodes
        /\ f.all = <<>> /\ f.rest = <<>> /\ f.page = 1 /\ ~f.again /\ f.sent = {}
    BY <1>2, <1>3, NoExportFields
  <1>5. limit \in Nat
    BY ExportAssumption
  <1>6. LiveCodes \subseteq Codes /\ Cardinality(LiveCodes) \in Nat
    <2>1. LiveCodes \subseteq Codes
      BY LiveIs
    <2> QED BY <2>1, CodesList, FS_CardinalityType DEF Listing
  <1>7. Job(f)
    BY <1>4, <1>5, <1>6, NothingRead DEF Job
  <1>8. ASSUME WholePages(f) PROVE WhileReading(f, LiveCodes)
    <2>1. PICK z \in Nat : z = PageOf(f)
      BY <1>7, <1>8, RightNumber
    <2>2. IsSeq(<<>>) /\ Len(<<>>) = 0
      BY DEF IsSeq
    <2>3. FirstOnes(f, f.all) /\ Len(f.all) = 0
      BY <1>4, <1>6, <2>2 DEF FirstOnes
    <2>4. (f.page - 1) * z = 0
      BY <1>4
    <2>5. f.limit # 0 => 0 < f.limit
      BY <1>4, <1>5
    <2> QED BY <1>4, <2>1, <2>3, <2>4, <2>5 DEF WhileReading
  <1>9. Undisturbed(f, LiveCodes)
    BY <1>4, <1>8 DEF Undisturbed, WhenRead, WhileSending
  <1>10. LiveCodes' = LiveCodes
    BY DEF StartExport, upsertVars, tables, LiveCodes, Live
  <1> QED BY <1>1, <1>2, <1>7, <1>9, <1>10 DEF Advances

(* What others do to the products concerns an export only while it reads,   *)
(* and moved keeps a note of it.                                            *)
LEMMA OtherStepKeeps ==
  ASSUME ExportInv, StillMoved, exp' = exp PROVE ExportInv'
  <1>1. ASSUME NEW q \in Runners, q \notin moved' PROVE Undisturbed(exp[q], LiveCodes')
    <2>1. CASE exp[q].pc = "idle"
      BY <2>1, NobodyReads
    <2>2. CASE exp[q].pc # "idle"
      <3>1. q \notin moved /\ (exp[q].pc = "read" => LiveCodes' = LiveCodes)
        BY <1>1, <2>2 DEF StillMoved, Reading
      <3>2. Undisturbed(exp[q], LiveCodes)
        BY <3>1 DEF ExportInv
      <3> QED BY <3>1, <3>2 DEF Undisturbed, WhileReading
    <2> QED BY <2>1, <2>2
  <1>2. \A q \in Runners : Job(exp[q])'
    BY DEF Job, ExportInv
  <1>3. \A q \in Runners : q \notin moved' => Undisturbed(exp[q], LiveCodes)'
    <2>1. \A q \in Runners : q \notin moved' => Undisturbed(exp'[q], LiveCodes')
      BY <1>1
    <2> QED BY ONLY <2>1 DEF Undisturbed, WhileReading, WhenRead, WhileSending, WholePages,
                             PageOf, FirstOnes, Distinct
  <1> QED BY <1>2, <1>3 DEF ExportInv

LEMMA ExportStepAdvances ==
  ASSUME ExportInv, CodesInv, NEW r \in Runners, ExportStep(r) \/ SendFails(r)
  PROVE  \E f : Advances(r, f)
  <1>1. CASE ReadHoroshopPage(r) \/ ReadPromPage(r)
    BY <1>1, ReadAdvances DEF ReadHoroshopPage, ReadPromPage
  <1>2. CASE FilterHoroshop(r) \/ FilterProm(r)
    <2>1. FilterByMode(r, "send") \/ FilterByMode(r, "feed")
      BY <1>2 DEF FilterHoroshop, FilterProm
    <2> QED BY <2>1, FilterAdvances
  <1>3. CASE SendToHoroshop(r) \/ SendToProm(r)
    <2>1. exp[r].pc = "send" /\ \E accepted : Answers(r, accepted)
      BY <1>3 DEF SendToHoroshop, SendToProm
    <2> QED BY <2>1, AnswersAdvances
  <1>4. CASE PersistHoroshop(r) \/ PersistProm(r)
    <2>1. \E skip, row : Persist(r, skip, row)
      BY <1>4 DEF PersistHoroshop, PersistProm
    <2> QED BY <2>1, PersistAdvances
  <1> QED BY <1>1, <1>2, <1>3, <1>4, FeedAdvances, FailsAdvances DEF ExportStep

LEMMA StepExport ==
  ASSUME ExportInv, CodesInv, [ExchangeNext]_exchangeVars PROVE ExportInv'
  <1>1. CASE UNCHANGED exchangeVars
    <2>1. exp' = exp /\ moved' = moved /\ LiveCodes' = LiveCodes
      BY <1>1 DEF exchangeVars, importVars, upsertVars, tables, LiveCodes, Live
    <2>2. \A r \in Runners : Job(exp[r])'
      BY <2>1 DEF Job, ExportInv
    <2>3. ASSUME NEW r \in Runners, r \notin moved PROVE Undisturbed(exp[r], LiveCodes)'
      <3>1. Undisturbed(exp[r], LiveCodes)
        BY <2>3 DEF ExportInv
      <3>2. Undisturbed(exp'[r], LiveCodes')
        BY <2>1, <3>1
      <3> QED BY <3>2 DEF Undisturbed, WhileReading, WhenRead, WhileSending, WholePages, PageOf,
                          FirstOnes, Distinct
    <2> QED BY <2>1, <2>2, <2>3 DEF ExportInv
  <1>2. CASE ExchangeNext
    <2>1. StillMoved
      BY <1>2 DEF ExchangeNext, StillMoved
    <2>2. ASSUME NEW r \in Runners, ExportStep(r) \/ SendFails(r) PROVE ExportInv'
      BY <2>1, <2>2, ExportStepAdvances, AdvancesKeeps
    <2>3. ASSUME NEW r \in Runners, ExportStarts(r) PROVE ExportInv'
      <3>1. PICK shop, mode, limit : limit \in ExportLimits /\ StartExport(r, shop, mode, limit)
        BY <2>3 DEF ExportStarts, TriggerHoroshopExport, TriggerPromExport, StartHoroshopExport,
                    StartPromExport
      <3> QED BY <2>1, <3>1, StartAdvances, AdvancesKeeps
    <2>4. CASE SendFeed \/ PromReadsFeed \/ UNCHANGED exp
      <3>1. exp' = exp
        BY <2>4 DEF SendFeed, PromReadsFeed
      <3> QED BY <2>1, <3>1, OtherStepKeeps
    <2>5. CASE ExchangeCrash
      <3>1. exp' = [r \in Runners |-> NoExport]
        BY <2>5 DEF ExchangeCrash
      <3>2. \A r \in Runners : Job(exp[r])'
        BY <3>1, NoExportIs DEF Job
      <3>3. \A r \in Runners : Undisturbed(exp[r], LiveCodes)'
        <4>1. \A r \in Runners : Undisturbed(exp'[r], LiveCodes')
          BY <3>1, NoExportIs
        <4> QED BY <4>1 DEF Undisturbed, WhileReading, WhenRead, WhileSending, WholePages, PageOf,
                            FirstOnes, Distinct
      <3> QED BY <3>1, <3>2, <3>3 DEF ExportInv
    <2> QED BY <1>2, <2>2, <2>3, <2>4, <2>5 DEF ExchangeNext, ExchangeStep
  <1> QED BY <1>1, <1>2

LEMMA InitExport == ASSUME ExchangeInit PROVE ExportInv
  BY NoExportIs DEF ExchangeInit, ExportInv

(* A restart of the process takes an event.                                 *)
LeftNext == left' = left \/ left' = left - 1

LEMMA UpsertLeft ==
  ASSUME NEW r \in Runners, UpsertStep(r) \/ CategoryFails(r) \/ UpsertFails(r) PROVE LeftNext
  <1>1. CASE Match(r) \/ FindCategory(r) \/ FindNode(r) \/ InsertNode(r)
    BY <1>1 DEF LeftNext, Match, FindCategory, FindNode, InsertNode
  <1>2. CASE UpdateProduct(r) \/ TakeCode(r) \/ InsertProduct(r)
    BY <1>2 DEF LeftNext, UpdateProduct, TakeCode, InsertProduct
  <1>3. CASE CategoryFails(r) \/ UpsertFails(r)
    BY <1>3 DEF LeftNext, CategoryFails, UpsertFails, Event
  <1> QED BY <1>1, <1>2, <1>3 DEF UpsertStep

LEMMA OwnStepLeft == ASSUME NEW r \in Runners, ImportOwnStep(r) PROVE LeftNext
  <1>1. CASE TakeRollbackPoint(r) \/ AcquireLock(r) \/ ReadKnown(r) \/ NextPage(r)
    BY <1>1 DEF LeftNext, TakeRollbackPoint, AcquireLock, ReadKnown, NextPage, upsertVars
  <1>2. CASE FetchHoroshop(r) \/ FetchProm(r) \/ FetchWoo(r)
    BY <1>2 DEF LeftNext, FetchHoroshop, FetchProm, FetchWoo, ReadsPage, upsertVars
  <1>3. CASE TakeHoroshopCard(r) \/ TakePromCard(r) \/ TakeWooCard(r)
    BY <1>3 DEF LeftNext, TakeHoroshopCard, TakePromCard, TakeWooCard, TakeCard
  <1>4. CASE MapHoroshopProduct(r) \/ MapPromProduct(r) \/ WriteBack(r) \/ CardFails(r)
    BY <1>4 DEF LeftNext, MapHoroshopProduct, MapPromProduct, MapProduct, WriteBack, CardFails
  <1>5. CASE EndHoroshop(r) \/ EndProm(r) \/ EndWoo(r)
    BY <1>5 DEF LeftNext, EndHoroshop, EndProm, EndWoo, EndImport, upsertVars
  <1> QED BY <1>1, <1>2, <1>3, <1>4, <1>5 DEF ImportOwnStep

LEMMA FaultsLeft == ASSUME ImportFaults PROVE LeftNext
  <1>1. ASSUME NEW r \in Runners, FetchFails(r) \/ WriteBackFails(r) PROVE LeftNext
    BY <1>1 DEF LeftNext, FetchFails, WriteBackFails, Event
  <1>2. ASSUME NEW shop \in Shops, TakenOut(shop) PROVE LeftNext
    BY <1>2 DEF LeftNext, TakenOut, Event
  <1>3. ASSUME NEW row \in Live, Delete(row) PROVE LeftNext
    BY <1>3 DEF LeftNext, Delete, Event
  <1>4. CASE Restore
    BY <1>4 DEF LeftNext, Restore, Event
  <1> QED BY <1>1, <1>2, <1>3, <1>4, UpsertLeft DEF ImportFaults

LEMMA ExportLeft == ASSUME NEW r \in Runners, ExportStep(r) \/ SendFails(r) PROVE LeftNext
  <1>1. CASE ReadHoroshopPage(r) \/ ReadPromPage(r)
    BY <1>1 DEF LeftNext, ReadHoroshopPage, ReadPromPage, ReadPage, importVars, upsertVars
  <1>2. CASE FilterHoroshop(r) \/ FilterProm(r)
    BY <1>2 DEF LeftNext, FilterHoroshop, FilterProm, FilterByMode, importVars, upsertVars
  <1>3. CASE AskFeed(r)
    BY <1>3 DEF LeftNext, AskFeed, importVars, upsertVars
  <1>4. CASE SendToHoroshop(r) \/ SendToProm(r)
    BY <1>4 DEF LeftNext, SendToHoroshop, SendToProm, Answers, upsertVars
  <1>5. CASE PersistHoroshop(r) \/ PersistProm(r)
    BY <1>5 DEF LeftNext, PersistHoroshop, PersistProm, Persist, upsertVars
  <1>6. CASE SendFails(r)
    BY <1>6 DEF LeftNext, SendFails, Event
  <1> QED BY <1>1, <1>2, <1>3, <1>4, <1>5, <1>6 DEF ExportStep

LEMMA StartsLeft == ASSUME NEW r \in Runners, ImportStarts(r) \/ ExportStarts(r) PROVE LeftNext
  <1>1. CASE ImportStarts(r)
    BY <1>1 DEF LeftNext, ImportStarts, TriggerHoroshopImport, TriggerPromImport,
         TriggerWooImport, StartHoroshopImport, StartPromImport, StartWooImport, ProductWebhook,
         Starts, upsertVars
  <1>2. CASE ExportStarts(r)
    BY <1>2 DEF LeftNext, ExportStarts, TriggerHoroshopExport, TriggerPromExport,
         StartHoroshopExport, StartPromExport, StartExport, upsertVars
  <1> QED BY <1>1, <1>2

LEMMA StepLeft == ASSUME [ExchangeNext]_exchangeVars PROVE LeftNext
  <1>1. CASE UNCHANGED exchangeVars
    BY <1>1 DEF LeftNext, exchangeVars, importVars, upsertVars
  <1>2. CASE ExchangeCrash
    BY <1>2 DEF LeftNext, ExchangeCrash, Event
  <1>3. CASE SendFeed \/ PromReadsFeed
    BY <1>3 DEF LeftNext, SendFeed, PromReadsFeed, upsertVars
  <1>4. ASSUME NEW r \in Runners, ImportStep(r) PROVE LeftNext
    BY <1>4, OwnStepLeft, UpsertLeft DEF ImportStep
  <1> QED BY <1>1, <1>2, <1>3, <1>4, FaultsLeft, ExportLeft, StartsLeft
          DEF ExchangeNext, ExchangeStep

(* An export that ends by itself has sent its last request.                 *)
LEMMA LastRequest ==
  ASSUME ExportInv, CodesInv, left \in Int, ExchangeNext, left' = left,
         NEW r \in Runners, exp[r].pc = "persist", exp'[r].pc = "idle"
  PROVE  exp[r].rest = <<>>
  <1>1. ~ExchangeCrash
    BY DEF ExchangeCrash, Event
  <1>2. exp' # exp
    OBVIOUS
  <1>3. \A q \in Runners : ~ExportStarts(q)
    <2>1. ASSUME NEW q \in Runners, ExportStarts(q) PROVE FALSE
      <3>1. exp[q].pc = "idle" /\ \E e : exp' = [exp EXCEPT ![q] = e]
        BY <2>1 DEF ExportStarts, TriggerHoroshopExport, TriggerPromExport, StartHoroshopExport,
                    StartPromExport, StartExport
      <3> QED BY <3>1 DEF ExportInv
    <2> QED BY <2>1
  <1>4. PICK q \in Runners : ExportStep(q) \/ SendFails(q)
    BY <1>1, <1>2, <1>3 DEF ExchangeNext, ExchangeStep, SendFeed, PromReadsFeed
  <1>5. q = r
    <2>1. \E e : exp' = [exp EXCEPT ![q] = e]
      BY <1>4, ExportStepAdvances DEF Advances
    <2> QED BY <2>1 DEF ExportInv
  <1>6. PersistHoroshop(r) \/ PersistProm(r)
    BY <1>4, <1>5 DEF ExportStep, SendFails, ReadHoroshopPage, ReadPromPage, ReadPage,
       FilterHoroshop, FilterProm, FilterByMode, SendToHoroshop, SendToProm, AskFeed
  <1>7. PICK e : e = exp[r]
    OBVIOUS
  <1>8. \/ exp' = [exp EXCEPT ![r] = AfterChunk(e)]
        \/ exp' = [exp EXCEPT ![r] = [e EXCEPT !.row = @ + 1]]
    BY <1>6, <1>7 DEF PersistHoroshop, PersistProm, Persist
  <1>9. Job(e) /\ e.pc = "persist"
    BY <1>7 DEF ExportInv
  <1>10. [e EXCEPT !.row = @ + 1].pc # "idle"
    BY <1>9, NoExportFields DEF Job
  <1>11. exp' = [exp EXCEPT ![r] = AfterChunk(e)] /\ AfterChunk(e).pc = "idle"
    BY <1>8, <1>10 DEF ExportInv
  <1>12. [e EXCEPT !.pc = "send", !.chunk = <<>>, !.log = {}, !.row = 1].pc # "idle"
    BY <1>9, NoExportFields DEF Job
  <1> QED BY <1>7, <1>11, <1>12 DEF AfterChunk

(* An export that ends has sent every product its mode asks for, once, for  *)
(* any catalogue, pages, batches and limits and whatever else runs, if no   *)
(* product came or went while it read (page * limit of getProducts, the     *)
(* loops of both export processors).                                        *)
THEOREM ExportsAreComplete == ExchangeSpec => ExportComplete
  <1>1. ExchangeInit => left \in Int
    <2>1. MaxEvents \in Int
      BY UpsertAssumption
    <2> QED BY <2>1 DEF ExchangeInit, ImportInit, UpsertInit
  <1>2. left \in Int /\ [ExchangeNext]_exchangeVars => (left \in Int)'
    BY StepLeft DEF LeftNext
  <1>3. ASSUME ExportInv, CodesInv, left \in Int, ExchangeNext,
               NEW r \in Runners, exp[r].pc = "persist", exp'[r].pc = "idle", left' = left,
               r \notin moved, WholePages(exp[r])
        PROVE  /\ ~exp[r].again
               /\ exp[r].limit = 0 => exp[r].due \subseteq exp[r].sent
               /\ exp[r].limit # 0 /\ exp[r].mode = "full_overwrite" =>
                    Cardinality(exp[r].sent) >= Min({exp[r].limit, Cardinality(exp[r].due)})
    <2>1. PICK e : e = exp[r]
      OBVIOUS
    <2>2. e.rest = <<>>
      BY <1>3, <2>1, LastRequest
    <2>3. CodesOf(e.rest) = {}
      BY <2>2 DEF CodesOf
    <2>4. e.sent \cup CodesOf(e.rest) = e.sent
      BY <2>3
    <2>5. WhileSending(e) /\ e.pc = "persist"
      BY <1>3, <2>1 DEF ExportInv, Undisturbed
    <2> QED BY <2>1, <2>4, <2>5 DEF WhileSending
  <1>4. ExportInv /\ CodesInv /\ left \in Int /\ [ExchangeNext]_exchangeVars =>
          [\A r \in Runners :
             LET e == exp[r]
                 wholePages == e.limit = 0 \/ e.limit <= FetchBatch \/ e.limit % FetchBatch = 0
             IN e.pc = "persist" /\ exp'[r].pc = "idle" /\ left' = left /\ r \notin moved
                  /\ wholePages =>
                  /\ ~e.again
                  /\ e.limit = 0 => e.due \subseteq e.sent
                  /\ e.limit # 0 /\ e.mode = "full_overwrite"
                       => Cardinality(e.sent) >= Min({e.limit, Cardinality(e.due)})]_exchangeVars
    BY <1>3 DEF WholePages
  <1> QED BY <1>1, <1>2, <1>4, InitExport, StepExport, InitCodes, StepCodes, PTL
          DEF ExchangeSpec, ExportComplete
-----------------------------------------------------------------------------
(* The cards of the shops.  A card has a number of its own, and Prom lists  *)
(* its cards by number; a card that an export created at Horoshop has the   *)
(* code of its product as its number and as its article.                    *)
Ids(list) == {list[k].id : k \in DOMAIN list}

OnceEach(list) == \A k, l \in DOMAIN list : list[k].id = list[l].id => k = l

Cards(shop, list) ==
  /\ IsSeq(list) /\ OnceEach(list)
  /\ \A k \in DOMAIN list : "id" \in DOMAIN list[k] /\ list[k].id \in Nat \ {0}
  /\ shop = "horoshop" =>
       \A k \in DOMAIN list : list[k].id \in Codes => list[k].sku = list[k].id
  /\ shop = "prom" => \A k, l \in DOMAIN list : k < l => list[k].id < list[l].id

GoodsInv == DOMAIN goods = Shops /\ \A shop \in Shops : Cards(shop, goods[shop])

(* A list with the same cards in front.                                     *)
Longer(old, new) ==
  Len(old) <= Len(new) /\ \A k \in DOMAIN old : k \in DOMAIN new /\ new[k].id = old[k].id

GoodsGrow == GoodsInv' /\ \A shop \in Shops : Longer(goods[shop], goods'[shop])

LEMMA ListIs ==
  ASSUME NEW shop, NEW list, Cards(shop, list)
  PROVE  \E n \in Nat : Len(list) = n /\ DOMAIN list = 1 .. n
  BY SeqFacts DEF Cards

LEMMA LongerIds ==
  ASSUME NEW old, NEW new, Longer(old, new) PROVE Ids(old) \subseteq Ids(new)
  <1>1. ASSUME NEW k \in DOMAIN old PROVE old[k].id \in Ids(new)
    <2>1. k \in DOMAIN new /\ new[k].id = old[k].id
      BY DEF Longer
    <2> QED BY <2>1 DEF Ids
  <1> QED BY <1>1 DEF Ids

LEMMA SameGoods == ASSUME GoodsInv, goods' = goods PROVE GoodsGrow
  <1>1. GoodsInv'
    BY DEF GoodsInv, Cards, OnceEach
  <1>2. \A shop \in Shops : Len(goods[shop]) \in Nat
    BY ListIs DEF GoodsInv
  <1> QED BY <1>1, <1>2 DEF GoodsGrow, Longer

LEMMA ListChanges ==
  ASSUME GoodsInv, NEW shop \in Shops, NEW list, goods' = [goods EXCEPT ![shop] = list],
         Cards(shop, list)
  PROVE  /\ DOMAIN goods' = Shops /\ goods'[shop] = list
         /\ \A s \in Shops \ {shop} : goods'[s] = goods[s]
         /\ GoodsInv'
  <1>1. /\ DOMAIN goods' = Shops /\ goods'[shop] = list
        /\ \A s \in Shops \ {shop} : goods'[s] = goods[s]
    BY DEF GoodsInv
  <1>2. \A s \in Shops : Cards(s, goods'[s])
    BY <1>1 DEF GoodsInv
  <1>3. \A s \in Shops : Cards(s, goods[s])'
    BY ONLY <1>2 DEF Cards, OnceEach, IsSeq, ToSet
  <1> QED BY <1>1, <1>3 DEF GoodsInv

LEMMA ListGrows ==
  ASSUME GoodsInv, NEW shop \in Shops, NEW list, goods' = [goods EXCEPT ![shop] = list],
         Cards(shop, list), Longer(goods[shop], list)
  PROVE  GoodsGrow
  <1>1. \A s \in Shops : Len(goods[s]) \in Nat
    BY ListIs DEF GoodsInv
  <1>2. \A s \in Shops : Longer(goods[s], goods[s])
    BY <1>1 DEF Longer
  <1> QED BY <1>2, ListChanges DEF GoodsGrow

LEMMA InitGoods == ASSUME ExchangeInit PROVE GoodsInv
  <1>1. goods = InitialGoods
    BY DEF ExchangeInit, ImportInit
  <1>2. ASSUME NEW shop \in Shops PROVE Cards(shop, InitialGoods[shop])
    <2>1. PICK list : list = InitialGoods[shop]
      OBVIOUS
    <2>2. IsSeq(list)
      BY <2>1, ImportAssumption DEF IsSeq
    <2>3. OnceEach(list)
      BY <2>1, ImportAssumption DEF OnceEach
    <2>4. \A k \in DOMAIN list : "id" \in DOMAIN list[k]
      BY <2>1, ImportAssumption
    <2>5. \A k \in DOMAIN list : list[k].id \in Nat /\ list[k].id > MaxCode
      BY <2>1, ExportAssumption
    <2>6. \A k \in DOMAIN list : list[k].id \in Nat \ {0} /\ list[k].id \notin Codes
      <3>1. MaxCode \in Nat
        BY UpsertAssumption
      <3> QED BY <2>5, <3>1 DEF Codes
    <2>7. shop = "prom" => \A k, l \in DOMAIN list : k < l => list[k].id < list[l].id
      BY <2>1, ImportAssumption
    <2> QED BY <2>1, <2>2, <2>3, <2>4, <2>6, <2>7 DEF Cards
  <1>3. DOMAIN InitialGoods = Shops
    BY ImportAssumption
  <1> QED BY <1>1, <1>2, <1>3 DEF GoodsInv

(* A finite set of numbers has a largest one.                               *)
LEMMA LargestOf ==
  ASSUME NEW S, Listing(S), S # {}
  PROVE  Max(S) \in S /\ \A x \in S : x <= Max(S)
  <1>1. Cardinality(S) \in Nat /\ Cardinality(S) # 0
    BY FS_CardinalityType, FS_EmptySet DEF Listing
  <1>2. PICK n \in Nat : n = Cardinality(S)
    BY <1>1
  <1>3. PICK m \in S : Rank(S, m) = n
    <2>1. n \in 1 .. Cardinality(S)
      BY <1>1, <1>2
    <2> QED BY <2>1, RankOnto
  <1>4. ASSUME NEW x \in S PROVE m >= x
    <2>1. m < x => Rank(S, m) < Rank(S, x)
      BY RankGrows
    <2>2. Rank(S, x) \in 1 .. n
      BY <1>2, RankGrows
    <2>3. m \in Int /\ x \in Int
      BY DEF Listing
    <2> QED BY <1>3, <2>1, <2>2, <2>3
  <1>5. \E x \in S : \A y \in S : x >= y
    BY <1>4
  <1>6. Max(S) \in S /\ \A y \in S : Max(S) >= y
    BY <1>5 DEF Max
  <1>7. \A x \in S : x \in Int
    BY DEF Listing
  <1> QED BY <1>6, <1>7

LEMMA IdsOf ==
  ASSUME NEW shop, NEW list, Cards(shop, list)
  PROVE  Listing(Ids(list)) /\ Ids(list) \subseteq Nat \ {0}
  <1>1. PICK n \in Nat : DOMAIN list = 1 .. n
    BY ListIs
  <1>2. Ids(list) \subseteq Nat \ {0}
    BY DEF Cards, Ids
  <1>3. PICK f : f = [k \in 1 .. n |-> list[k].id]
    OBVIOUS
  <1>4. f \in Surjection(1 .. n, Ids(list))
    <2>1. f \in [1 .. n -> Ids(list)]
      BY <1>1, <1>3 DEF Ids
    <2>2. \A x \in Ids(list) : \E k \in 1 .. n : f[k] = x
      BY <1>1, <1>3 DEF Ids
    <2> QED BY <2>1, <2>2 DEF Surjection
  <1>5. IsFiniteSet(1 .. n)
    BY FS_Interval
  <1>6. IsFiniteSet(Ids(list))
    BY <1>4, <1>5, FS_Surjection
  <1> QED BY <1>2, <1>6 DEF Listing

(* Cards of other numbers, behind the others.                               *)
LEMMA JoinedCards ==
  ASSUME NEW shop, NEW list, Cards(shop, list), NEW more, Cards(shop, more),
         \A x \in Ids(list), y \in Ids(more) : x # y /\ (shop = "prom" => x < y)
  PROVE  Cards(shop, list \o more) /\ Longer(list, list \o more)
  <1>1. PICK w : w = list \o more
    OBVIOUS
  <1>2. PICK m \in Nat, n \in Nat : /\ m = Len(list) /\ DOMAIN list = 1 .. m
                                    /\ n = Len(more) /\ DOMAIN more = 1 .. n
    <2>1. PICK m \in Nat : m = Len(list) /\ DOMAIN list = 1 .. m
      BY ListIs
    <2>2. PICK n \in Nat : n = Len(more) /\ DOMAIN more = 1 .. n
      BY ListIs
    <2> QED BY <2>1, <2>2
  <1>3. /\ IsSeq(w) /\ Len(w) = m + n
        /\ \A k \in 1 .. m : w[k] = list[k]
        /\ \A k \in 1 .. n : w[m + k] = more[k]
    BY <1>1, <1>2, JoinFacts DEF Cards
  <1>4. DOMAIN w = 1 .. m + n
    BY <1>3, SeqFacts
  <1>5. \A k \in 1 .. m + n : \/ k \in 1 .. m /\ w[k] = list[k]
                              \/ k > m /\ k - m \in 1 .. n /\ w[k] = more[k - m]
    <2>1. ASSUME NEW k \in 1 .. m + n, k > m PROVE k - m \in 1 .. n /\ w[k] = more[k - m]
      <3>1. k - m \in 1 .. n /\ m + (k - m) = k
        BY <2>1
      <3> QED BY <1>3, <3>1
    <2> QED BY <1>3, <2>1
  <1>6. ASSUME NEW k \in 1 .. m + n
        PROVE  /\ "id" \in DOMAIN w[k] /\ w[k].id \in Nat \ {0}
               /\ shop = "horoshop" => (w[k].id \in Codes => w[k].sku = w[k].id)
    <2>1. CASE k \in 1 .. m /\ w[k] = list[k]
      BY <1>2, <2>1 DEF Cards
    <2>2. ASSUME NEW l \in 1 .. n, w[k] = more[l]
          PROVE  /\ "id" \in DOMAIN w[k] /\ w[k].id \in Nat \ {0}
                 /\ shop = "horoshop" => (w[k].id \in Codes => w[k].sku = w[k].id)
      BY <1>2, <2>2 DEF Cards
    <2> QED BY <1>5, <2>1, <2>2
  <1>7. ASSUME NEW k \in 1 .. m, NEW l \in 1 .. n
        PROVE  list[k].id # more[l].id /\ (shop = "prom" => list[k].id < more[l].id)
    BY <1>2 DEF Ids
  <1>8. ASSUME NEW k \in 1 .. m + n, NEW l \in 1 .. m + n, k < l
        PROVE  w[k].id # w[l].id /\ (shop = "prom" => w[k].id < w[l].id)
    <2>1. CASE l \in 1 .. m
      <3>1. k \in 1 .. m /\ k # l /\ w[k] = list[k] /\ w[l] = list[l]
        BY <1>3, <1>8, <2>1
      <3> QED BY <1>2, <1>8, <2>1, <3>1 DEF Cards, OnceEach
    <2>2. CASE l > m /\ k \in 1 .. m
      <3>1. w[k] = list[k] /\ w[l] = more[l - m] /\ l - m \in 1 .. n
        BY <1>3, <1>5, <2>2
      <3> QED BY <1>7, <2>2, <3>1
    <2>3. CASE l > m /\ k > m
      <3>1. /\ w[k] = more[k - m] /\ w[l] = more[l - m] /\ k - m \in 1 .. n
            /\ l - m \in 1 .. n
        BY <1>5, <2>3
      <3>2. k - m < l - m /\ k - m # l - m
        BY <1>8
      <3> QED BY <1>2, <3>1, <3>2 DEF Cards, OnceEach
    <2> QED BY <1>8, <2>1, <2>2, <2>3
  <1>9. OnceEach(w)
    <2>1. ASSUME NEW k \in 1 .. m + n, NEW l \in 1 .. m + n, w[k].id = w[l].id PROVE k = l
      <3>1. ~(k < l) /\ ~(l < k)
        BY <1>8, <2>1
      <3> QED BY <3>1
    <2> QED BY <1>4, <2>1 DEF OnceEach
  <1>10. Cards(shop, w)
    BY <1>3, <1>4, <1>6, <1>8, <1>9 DEF Cards
  <1>11. Longer(list, w)
    <2>1. Len(list) <= Len(w)
      BY <1>2, <1>3
    <2>2. \A k \in DOMAIN list : k \in DOMAIN w /\ w[k].id = list[k].id
      BY <1>2, <1>3, <1>4
    <2> QED BY <2>1, <2>2 DEF Longer
  <1> QED BY <1>1, <1>10, <1>11

(* WooCommerce's product gets the code as its SKU: the numbers stay.        *)
LEMMA WriteBackGrows ==
  ASSUME GoodsInv, NEW r \in Runners, WriteBack(r) PROVE GoodsGrow
  <1>1. PICK list : list = goods["woocommerce"]
    OBVIOUS
  <1>2. PICK x, t : x = imp[r].card.id /\ t = up[r].tcod
    OBVIOUS
  <1>3. PICK w : w = [k \in DOMAIN list |-> IF list[k].id = x THEN [list[k] EXCEPT !.sku = t]
                                            ELSE list[k]]
    OBVIOUS
  <1>4. goods' = [goods EXCEPT !["woocommerce"] = w]
    BY <1>1, <1>2, <1>3 DEF WriteBack
  <1>5. Cards("woocommerce", list)
    BY <1>1 DEF GoodsInv, Shops
  <1>6. PICK n \in Nat : Len(list) = n /\ DOMAIN list = 1 .. n
    BY <1>5, ListIs
  <1>7. DOMAIN w = 1 .. n
    BY <1>3, <1>6
  <1>8. ASSUME NEW k \in 1 .. n
        PROVE  DOMAIN w[k] = DOMAIN list[k] /\ w[k].id = list[k].id
    <2>1. "id" \in DOMAIN list[k]
      BY <1>5, <1>6 DEF Cards
    <2>2. w[k] = list[k] \/ w[k] = [list[k] EXCEPT !.sku = t]
      BY <1>3, <1>6
    <2> QED BY <2>1, <2>2
  <1>9. IsSeq(list)
    BY <1>5 DEF Cards
  <1>10. IsSeq(w)
    <2>1. DOMAIN w = DOMAIN list
      BY <1>6, <1>7
    <2>2. w = [k \in DOMAIN list |-> w[k]]
      BY <1>3
    <2> QED BY <1>9, <2>1, <2>2, MapFacts
  <1>11. Len(w) = n
    BY <1>6, <1>7, <1>10, SeqFacts
  <1>12. OnceEach(w)
    BY <1>5, <1>6, <1>7, <1>8 DEF Cards, OnceEach
  <1>13. Cards("woocommerce", w)
    BY <1>5, <1>6, <1>7, <1>8, <1>10, <1>12 DEF Cards
  <1>14. Longer(list, w)
    BY <1>6, <1>7, <1>8, <1>11 DEF Longer
  <1> QED BY <1>1, <1>4, <1>13, <1>14, ListGrows DEF Shops

(* What an export creates at Horoshop: cards whose number is a code, for    *)
(* codes no card had.                                                       *)
LEMMA ItemFacts ==
  ASSUME NEW row
  PROVE  /\ "id" \in DOMAIN HoroshopItem(row)
         /\ HoroshopItem(row).id = row.tcod /\ HoroshopItem(row).sku = row.tcod
  BY DEF HoroshopItem

LEMMA SendGrows ==
  ASSUME GoodsInv, ExportInv, NEW r \in Runners, SendToHoroshop(r) PROVE GoodsGrow
  <1> DEFINE first == Chunk(exp[r])
             New(accepted) == {k \in DOMAIN first :
               /\ first[k].tcod \in accepted /\ HoroshopCards(first[k].tcod) = {}
               /\ \A j \in 1 .. k - 1 : first[j].tcod # first[k].tcod}
             Made(accepted) == Picked(first, New(accepted))
  <1>2. PICK accepted :
          goods' = [goods EXCEPT !["horoshop"] = @ \o
            [k \in DOMAIN Made(accepted) |-> HoroshopItem(Made(accepted)[k])]]
    BY DEF SendToHoroshop
  <1>1. PICK chunk : chunk = first
    OBVIOUS
  <1>23. PICK P : P = New(accepted)
    OBVIOUS
  <1>3. \A j \in P : /\ j \in DOMAIN chunk /\ HoroshopCards(chunk[j].tcod) = {}
                    /\ \A l \in 1 .. j - 1 : chunk[l].tcod # chunk[j].tcod
    BY <1>1, <1>23
  <1> HIDE DEF New
  <1>4. PICK created : created = Made(accepted) /\ created = Picked(chunk, P)
    BY <1>1, <1>23
  <1> HIDE DEF Made
  <1>5. PICK more : more = [k \in DOMAIN created |-> HoroshopItem(created[k])]
    OBVIOUS
  <1>6. PICK list : list = goods["horoshop"]
    OBVIOUS
  <1>7. goods' = [goods EXCEPT !["horoshop"] = list \o more]
    BY <1>2, <1>4, <1>5, <1>6
  <1>8. IsSeq(chunk) /\ CodesOf(chunk) \subseteq Codes
    <2>1. ReadRows(exp[r].rest)
      BY DEF ExportInv, Job
    <2> QED BY <1>1, <2>1, ChunkFacts DEF ReadRows
  <1>9. PICK c \in Nat : DOMAIN chunk = 1 .. c
    BY <1>8, SeqFacts
  <1>10. Listing(P)
    <2>1. Listing(1 .. c)
      <3>1. IsFiniteSet(1 .. c)
        BY FS_Interval
      <3> QED BY <3>1 DEF Listing
    <2>2. P \in SUBSET (1 .. c)
      BY <1>3, <1>9
    <2> QED BY <2>1, <2>2, ListingPart
  <1>11. PICK m \in Nat : m = Cardinality(P)
    BY <1>10, FS_CardinalityType DEF Listing
  <1>12. /\ DOMAIN created = 1 .. m
         /\ \A k \in 1 .. m : InOrder(P)[k] \in P /\ created[k] = chunk[InOrder(P)[k]]
         /\ IsSeq(created)
    BY <1>4, <1>10, <1>11, PickedIs
  <1>13. \A k, l \in 1 .. m : k < l <=> InOrder(P)[k] < InOrder(P)[l]
    BY <1>10, <1>11, InOrderIs
  <1>14. /\ DOMAIN more = 1 .. m
         /\ \A k \in 1 .. m : /\ "id" \in DOMAIN more[k]
                              /\ more[k].id = created[k].tcod /\ more[k].sku = created[k].tcod
    BY <1>5, <1>12, ItemFacts
  <1>15. ASSUME NEW k \in 1 .. m
         PROVE  created[k].tcod \in Codes /\ HoroshopCards(created[k].tcod) = {}
    <2>1. PICK p \in P : p = InOrder(P)[k] /\ created[k] = chunk[p]
      BY <1>12
    <2>2. p \in DOMAIN chunk /\ HoroshopCards(chunk[p].tcod) = {}
      BY <1>3, <2>1
    <2>3. chunk[p].tcod \in CodesOf(chunk)
      BY <2>2 DEF CodesOf
    <2> QED BY <1>8, <2>1, <2>2, <2>3
  <1>16. ASSUME NEW k \in 1 .. m, NEW l \in 1 .. m, k < l
         PROVE  created[k].tcod # created[l].tcod
    <2>1. PICK p \in P : p = InOrder(P)[k] /\ created[k] = chunk[p]
      BY <1>12
    <2>2. PICK q \in P : q = InOrder(P)[l] /\ created[l] = chunk[q]
      BY <1>12
    <2>3. p < q /\ p \in 1 .. c /\ q \in 1 .. c
      BY <1>3, <1>9, <1>13, <1>16, <2>1, <2>2
    <2>4. p \in 1 .. q - 1
      BY <2>3
    <2>5. chunk[p].tcod # chunk[q].tcod
      BY <1>3, <2>4
    <2> QED BY <2>1, <2>2, <2>5
  <1>17. IsSeq(more)
    <2>1. more = [k \in DOMAIN created |-> more[k]] /\ DOMAIN more = DOMAIN created
      BY <1>5
    <2> QED BY <1>12, <2>1, MapFacts
  <1>18. OnceEach(more)
    <2>1. ASSUME NEW k \in 1 .. m, NEW l \in 1 .. m, more[k].id = more[l].id PROVE k = l
      <3>1. created[k].tcod = created[l].tcod
        BY <1>14, <2>1
      <3>2. ~(k < l) /\ ~(l < k)
        BY <1>16, <3>1
      <3> QED BY <3>2
    <2> QED BY <1>14, <2>1 DEF OnceEach
  <1>19. Cards("horoshop", more)
    <2>1. ASSUME NEW k \in 1 .. m
          PROVE  "id" \in DOMAIN more[k] /\ more[k].id \in Nat \ {0} /\ more[k].sku = more[k].id
      <3>1. more[k].id \in Codes
        BY <1>14, <1>15
      <3>2. Codes \subseteq Nat \ {0}
        BY UpsertAssumption DEF Codes
      <3> QED BY <1>14, <3>1, <3>2
    <2> QED BY <1>14, <1>17, <1>18, <2>1 DEF Cards
  <1>20. Cards("horoshop", list)
    BY <1>6 DEF GoodsInv, Shops
  <1>21. ASSUME NEW x \in Ids(list), NEW y \in Ids(more) PROVE x # y
    <2>1. PICK i \in DOMAIN list : x = list[i].id
      BY DEF Ids
    <2>2. PICK k \in 1 .. m : y = created[k].tcod
      BY <1>14 DEF Ids
    <2>3. y \in Codes /\ HoroshopCards(y) = {}
      BY <1>15, <2>2
    <2>4. x = y => list[i].sku = y
      BY <1>20, <2>1, <2>3 DEF Cards
    <2>5. list[i].sku # y
      BY <1>6, <2>3 DEF HoroshopCards
    <2> QED BY <2>4, <2>5
  <1>22. Cards("horoshop", list \o more) /\ Longer(list, list \o more)
    BY <1>19, <1>20, <1>21, JoinedCards
  <1> QED BY <1>6, <1>7, <1>22, ListGrows DEF Shops

(* What Prom creates from the feed: cards under new, larger numbers.        *)
LEMMA FeedGrows ==
  ASSUME GoodsInv, CodesInv, PromReadsFeed PROVE GoodsGrow
  <1>1. PICK offered \in SUBSET LiveCodes :
          goods' = [goods EXCEPT !["prom"] = @ \o
            [k \in DOMAIN InOrder({t \in offered : PromCards(t) = {}}) |->
               [id |-> Max({1000} \cup CardIds("prom")) + k,
                external |-> InOrder({t \in offered : PromCards(t) = {}})[k],
                sku |-> 0, barcode |-> 0, path |-> <<>>]]]
    BY DEF PromReadsFeed
  <1>2. PICK T : T = {t \in offered : PromCards(t) = {}}
    OBVIOUS
  <1>3. PICK created : created = InOrder(T)
    OBVIOUS
  <1>4. PICK last : last = Max({1000} \cup CardIds("prom"))
    OBVIOUS
  <1>5. PICK more : more = [k \in DOMAIN created |->
                              [id |-> last + k, external |-> created[k],
                               sku |-> 0, barcode |-> 0, path |-> <<>>]]
    OBVIOUS
  <1>6. PICK list : list = goods["prom"]
    OBVIOUS
  <1>7. goods' = [goods EXCEPT !["prom"] = list \o more]
    BY <1>1, <1>2, <1>3, <1>4, <1>5, <1>6
  <1>8. Cards("prom", list)
    BY <1>6 DEF GoodsInv, Shops
  <1>9. CardIds("prom") = Ids(list)
    BY <1>6 DEF CardIds, Ids
  <1>10. last \in Nat /\ last >= 1000 /\ \A x \in Ids(list) : x \in Nat /\ x <= last
    <2>1. PICK S : S = {1000} \cup Ids(list)
      OBVIOUS
    <2>2. Listing(Ids(list)) /\ Ids(list) \subseteq Nat \ {0}
      BY <1>8, IdsOf
    <2>3. IsFiniteSet(Ids(list) \cup {1000})
      BY <2>2, FS_AddElement DEF Listing
    <2>4. S = Ids(list) \cup {1000}
      BY <2>1
    <2>5. Listing(S) /\ S # {} /\ 1000 \in S
      BY <2>1, <2>2, <2>3, <2>4 DEF Listing
    <2>6. last \in S /\ \A x \in S : x <= last
      BY <1>4, <1>9, <2>1, <2>5, LargestOf
    <2> QED BY <2>1, <2>2, <2>6
  <1>11. PICK m \in Nat : DOMAIN created = 1 .. m /\ IsSeq(created)
    <2>1. Listing(T)
      BY <1>2, LiveIs, CodesList
    <2>2. created \in Seq(T)
      BY <1>3, <2>1, InOrderIs
    <2>3. IsSeq(created)
      BY <2>2, SeqIsSeq
    <2> QED BY <2>3, SeqFacts
  <1>12. /\ DOMAIN more = 1 .. m
         /\ \A k \in 1 .. m : "id" \in DOMAIN more[k] /\ more[k].id = last + k
    BY <1>5, <1>11
  <1>13. IsSeq(more)
    <2>1. more = [k \in DOMAIN created |-> more[k]] /\ DOMAIN more = DOMAIN created
      BY <1>5
    <2> QED BY <1>11, <2>1, MapFacts
  <1>14. Cards("prom", more)
    <2>1. OnceEach(more)
      <3>1. ASSUME NEW k \in 1 .. m, NEW l \in 1 .. m, more[k].id = more[l].id PROVE k = l
        <4>1. last + k = last + l
          BY <1>12, <3>1
        <4> QED BY <1>10, <4>1
      <3> QED BY <1>12, <3>1 DEF OnceEach
    <2>2. \A k \in 1 .. m : more[k].id \in Nat \ {0}
      BY <1>10, <1>12
    <2>3. \A k, l \in 1 .. m : k < l => more[k].id < more[l].id
      BY <1>10, <1>12
    <2> QED BY <1>12, <1>13, <2>1, <2>2, <2>3 DEF Cards
  <1>15. ASSUME NEW x \in Ids(list), NEW y \in Ids(more) PROVE x < y /\ x # y
    <2>1. PICK k \in 1 .. m : y = last + k
      BY <1>12 DEF Ids
    <2> QED BY <1>10, <2>1
  <1>16. Cards("prom", list \o more) /\ Longer(list, list \o more)
    BY <1>8, <1>14, <1>15, JoinedCards
  <1> QED BY <1>6, <1>7, <1>16, ListGrows DEF Shops
-----------------------------------------------------------------------------
(* What an import has taken.  Horoshop's and WooCommerce's pages are cut by *)
(* number from a list that only grows while nothing is taken out, so that   *)
(* what was taken are its first cards; Prom's pages follow the last number  *)
(* that was read, so that every card up to it was taken, whatever was taken *)
(* out meanwhile.                                                           *)
FirstIds(list, n) == {list[k].id : k \in 1 .. n}

PageStep(i) ==
  IF i.shop = "woocommerce" /\ i.limit # 0 /\ i.limit < PageSize THEN i.limit ELSE PageSize

Listed(i) == i.start \ i.gone

Steady(i) == i.shop = "prom" \/ i.gone = {}

Whole(i) == i.shop # "woocommerce" \/ i.limit <= PageSize \/ i.limit % PageSize = 0

Fresh(i) ==
  /\ i.page = 1 /\ i.cursor = 0 /\ i.fetched = 0 /\ i.seen = {} /\ ~i.again /\ ~i.short
  /\ i.queue = <<>>

Counted(i) == IsFiniteSet(i.seen) /\ Cardinality(i.seen) = i.fetched /\ ~i.again

Ended(i) == i.pc = "end" => LimitReached(i) \/ Listed(i) \subseteq i.seen

ByNumber(i, list) ==
  /\ i.pc # "end" =>
       /\ i.page \in Nat \ {0} /\ i.fetched \in Nat
       /\ i.fetched + Len(i.queue) <= Len(list) /\ i.seen = FirstIds(list, i.fetched)
       /\ \A k \in DOMAIN i.queue : i.queue[k].id = list[i.fetched + k].id
  /\ i.pc = "page" =>
       i.fetched = (i.page - 1) * PageStep(i) /\ ~LimitReached(i) /\ i.queue = <<>>
  /\ i.pc \in {"card", "upsert"} /\ ~LimitReached(i) =>
       IF i.short THEN Listed(i) \subseteq FirstIds(list, i.fetched + Len(i.queue))
       ELSE i.fetched + Len(i.queue) = i.page * PageStep(i)

(* WooCommerce's webhook: one card.                                         *)
ByHook(i) ==
  /\ i.pc \in {"card", "upsert", "end"} /\ i.short /\ i.limit = 0
  /\ \/ Len(i.queue) = 1 /\ i.start = {i.queue[1].id} /\ i.seen = {}
     \/ i.queue = <<>> /\ i.seen = i.start

ByCursor(i) ==
  /\ i.cursor \in Int /\ \A x \in i.seen : x \in Int /\ x <= i.cursor
  /\ \A x \in Listed(i) : x <= i.cursor => x \in i.seen
  /\ i.pc \in {"card", "upsert"} =>
       /\ \A k \in DOMAIN i.queue : i.queue[k].id \in Int /\ i.queue[k].id > i.cursor
       /\ \A k, l \in DOMAIN i.queue : k < l => i.queue[k].id < i.queue[l].id
       /\ \A x \in Listed(i), k \in DOMAIN i.queue :
            x <= i.queue[k].id => x \in i.seen \cup Ids(i.queue)
       /\ i.short /\ ~LimitReached(i) => Listed(i) \subseteq i.seen \cup Ids(i.queue)

Gathered(i, list) ==
  /\ IsSeq(i.queue) /\ Counted(i) /\ Ended(i)
  /\ i.shop = "prom" => ByCursor(i)
  /\ i.shop # "prom" => ByHook(i) \/ ByNumber(i, list)

Gathers(i, g) ==
  /\ DOMAIN i = DOMAIN NoImport /\ i.limit \in Nat
  /\ i.pc # "idle" => i.shop \in Shops /\ Listed(i) \subseteq Ids(g[i.shop])
  /\ i.pc \in {"backup", "lock", "known"} => Fresh(i)
  /\ i.pc \in Started /\ Steady(i) /\ Whole(i) => Gathered(i, g[i.shop])

GatherInv == DOMAIN imp = Runners /\ \A r \in Runners : Gathers(imp[r], goods)

LEMMA NoImportGathers ==
  ASSUME NEW g PROVE Gathers(NoImport, g)
  <1>1. PICK i : i = NoImport
    OBVIOUS
  <1>2. DOMAIN i = DOMAIN NoImport /\ i.limit = 0 /\ i.pc = "idle"
    BY <1>1 DEF NoImport
  <1>3. Gathers(i, g)
    BY <1>2 DEF Gathers, Started
  <1> QED BY <1>1, <1>3

(* A longer list disturbs nobody.                                           *)
LEMMA FirstStay ==
  ASSUME NEW old, NEW new, IsSeq(old), Longer(old, new), NEW n \in Nat, n <= Len(old)
  PROVE  FirstIds(new, n) = FirstIds(old, n)
  <1>1. \A k \in 1 .. n : k \in DOMAIN old
    BY SeqFacts
  <1>2. \A k \in 1 .. n : new[k].id = old[k].id
    BY <1>1 DEF Longer
  <1> QED BY <1>2 DEF FirstIds

LEMMA LongerKeeps ==
  ASSUME NEW i, NEW old, NEW new, Cards(i.shop, old), Cards(i.shop, new), Longer(old, new),
         Gathered(i, old)
  PROVE  Gathered(i, new)
  <1> SUFFICES ASSUME ByNumber(i, old) PROVE ByNumber(i, new)
    BY DEF Gathered
  <1> SUFFICES ASSUME i.pc # "end" PROVE ByNumber(i, new)
    BY DEF ByNumber
  <1>1. PICK q \in Nat, f \in Nat, m \in Nat, n \in Nat :
          /\ q = Len(i.queue) /\ DOMAIN i.queue = 1 .. q /\ f = i.fetched
          /\ m = Len(old) /\ DOMAIN old = 1 .. m /\ n = Len(new) /\ DOMAIN new = 1 .. n
    <2>1. PICK q \in Nat : q = Len(i.queue) /\ DOMAIN i.queue = 1 .. q
      BY SeqFacts DEF Gathered
    <2>2. i.fetched \in Nat
      BY DEF ByNumber
    <2>3. PICK m \in Nat : m = Len(old) /\ DOMAIN old = 1 .. m
      BY ListIs
    <2>4. PICK n \in Nat : n = Len(new) /\ DOMAIN new = 1 .. n
      BY ListIs
    <2> QED BY <2>1, <2>2, <2>3, <2>4
  <1>2. f + q <= m /\ m <= n
    BY <1>1 DEF ByNumber, Longer
  <1>3. FirstIds(new, f) = FirstIds(old, f) /\ FirstIds(new, f + q) = FirstIds(old, f + q)
    BY <1>1, <1>2, FirstStay DEF Cards
  <1>4. \A k \in 1 .. q : new[f + k].id = old[f + k].id
    <2>1. \A k \in 1 .. q : f + k \in 1 .. m
      BY <1>2
    <2> QED BY <1>1, <2>1 DEF Longer
  <1>5. f + q <= n
    BY <1>2
  <1> QED BY <1>1, <1>3, <1>4, <1>5 DEF ByNumber

LEMMA GrowKeeps ==
  ASSUME NEW i, GoodsInv, GoodsGrow, Gathers(i, goods) PROVE Gathers(i, goods')
  <1>1. ASSUME i.pc # "idle" PROVE Listed(i) \subseteq Ids(goods'[i.shop])
    BY <1>1, LongerIds DEF Gathers, GoodsGrow
  <1>2. ASSUME i.shop \in Shops, Gathered(i, goods[i.shop]) PROVE Gathered(i, goods'[i.shop])
    <2>1. PICK old, new : old = goods[i.shop] /\ new = goods'[i.shop]
      OBVIOUS
    <2>2. Cards(i.shop, old)
      BY <1>2, <2>1 DEF GoodsInv
    <2>3. Cards(i.shop, new)
      <3>1. \A s \in Shops : Cards(s, goods[s])'
        BY DEF GoodsGrow, GoodsInv
      <3>2. \A s \in Shops : Cards(s, goods'[s])
        BY ONLY <3>1 DEF Cards, OnceEach, IsSeq, ToSet
      <3> QED BY <1>2, <2>1, <3>2
    <2> QED BY <1>2, <2>1, <2>2, <2>3, LongerKeeps DEF GoodsGrow
  <1> QED BY <1>1, <1>2 DEF Gathers, Started

(* The steps of one import, and of nobody.                                  *)
Collects(r, j) == imp' = [imp EXCEPT ![r] = j] /\ Gathers(j, goods)

LEMMA Primed ==
  ASSUME \A r \in Runners : Gathers(imp'[r], goods'), DOMAIN imp' = Runners PROVE GatherInv'
  <1>1. ASSUME NEW r \in Runners PROVE Gathers(imp[r], goods)'
    <2>1. Gathers(imp'[r], goods')
      OBVIOUS
    <2> QED BY ONLY <2>1 DEF Gathers, Gathered, Started, Fresh, Steady, Whole, Listed, Ids,
            Counted, Ended, ByHook, ByNumber, ByCursor, LimitReached, FirstIds, PageStep, IsSeq,
            ToSet, NoImport, Shops
  <1> QED BY <1>1 DEF GatherInv

LEMMA CollectsKeeps ==
  ASSUME GoodsInv, GoodsGrow, GatherInv, NEW r \in Runners, NEW j, Collects(r, j)
  PROVE  GatherInv'
  <1>1. \A s \in Runners : Gathers(imp'[s], goods)
    BY DEF GatherInv, Collects
  <1>2. \A s \in Runners : Gathers(imp'[s], goods')
    BY <1>1, GrowKeeps
  <1>3. DOMAIN imp' = Runners
    BY DEF GatherInv, Collects
  <1> QED BY <1>2, <1>3, Primed

LEMMA NobodyCollects ==
  ASSUME GoodsInv, GoodsGrow, GatherInv, imp' = imp PROVE GatherInv'
  <1>1. \A s \in Runners : Gathers(imp'[s], goods)
    BY DEF GatherInv
  <1>2. \A s \in Runners : Gathers(imp'[s], goods')
    BY <1>1, GrowKeeps
  <1> QED BY <1>2, Primed DEF GatherInv

(* An import goes on with what it is for.                                   *)
Alike(i, j) ==
  /\ DOMAIN j = DOMAIN NoImport /\ j.pc \in Started
  /\ j.shop = i.shop /\ j.limit = i.limit /\ j.start = i.start /\ j.gone = i.gone

Untaken(i, j) ==
  j.fetched = i.fetched /\ j.seen = i.seen /\ j.again = i.again /\ j.cursor = i.cursor

LEMMA AlikeGathers ==
  ASSUME NEW i, NEW g, Gathers(i, g), i.pc # "idle", NEW j, Alike(i, j),
         Steady(i) /\ Whole(i) => Gathered(j, g[i.shop])
  PROVE  Gathers(j, g)
  <1>1. Listed(j) = Listed(i) /\ (Steady(j) <=> Steady(i)) /\ (Whole(j) <=> Whole(i))
    BY DEF Alike, Listed, Steady, Whole
  <1> QED BY <1>1 DEF Gathers, Alike, Started

LEMMA SizeIs == PageSize \in Nat /\ PageSize > 0
  BY ImportAssumption

LEMMA RightStep ==
  ASSUME NEW i, i.limit \in Nat PROVE PageStep(i) \in Nat \ {0}
  BY SizeIs DEF PageStep

(* The start.                                                               *)
LEMMA Begins ==
  ASSUME NEW i, Fresh(i), i.pc = "page", i.shop \in Shops, i.limit \in Nat,
         NEW list, Cards(i.shop, list), Listed(i) \subseteq Ids(list)
  PROVE  Gathered(i, list)
  <1>1. IsSeq(i.queue) /\ Len(i.queue) = 0
    <2>1. <<>> \in Seq({}) /\ Len(<<>>) = 0
      OBVIOUS
    <2> QED BY <2>1, SeqIsSeq DEF Fresh
  <1>2. Counted(i) /\ Ended(i)
    BY FS_EmptySet DEF Counted, Ended, Fresh
  <1>3. ByCursor(i)
    <2>1. \A x \in Listed(i) : x \in Nat /\ x # 0
      BY IdsOf
    <2>2. \A x \in Listed(i) : ~(x <= 0)
      BY <2>1
    <2> QED BY <2>2 DEF ByCursor, Fresh
  <1>4. ByNumber(i, list)
    <2>1. PICK n \in Nat : Len(list) = n
      BY ListIs
    <2>2. FirstIds(list, 0) = {}
      BY DEF FirstIds
    <2>3. PICK z \in Nat : z = PageStep(i)
      BY RightStep
    <2>4. (1 - 1) * z = 0
      BY <2>3
    <2>5. ~LimitReached(i)
      BY DEF LimitReached, Fresh
    <2>6. i.fetched = (i.page - 1) * PageStep(i)
      BY <2>3, <2>4 DEF Fresh
    <2>7. i.fetched + Len(i.queue) <= Len(list)
      BY <1>1, <2>1 DEF Fresh
    <2>8. \A k \in DOMAIN i.queue : FALSE
      BY DEF Fresh
    <2> QED BY <2>2, <2>5, <2>6, <2>7, <2>8 DEF ByNumber, Fresh
  <1> QED BY <1>1, <1>2, <1>3, <1>4 DEF Gathered

(* Pages by number begin where the last one ended.                          *)
LEMMA NumberedSize ==
  ASSUME NEW i, i.limit \in Nat, Whole(i), NEW list, ByNumber(i, list), i.pc = "page"
  PROVE  /\ i.shop = "woocommerce" => LeftOfLimit(i) = PageStep(i)
         /\ i.shop # "woocommerce" => PageSize = PageStep(i)
  <1> SUFFICES ASSUME i.shop = "woocommerce" PROVE LeftOfLimit(i) = PageStep(i)
    BY DEF PageStep
  <1>1. PICK F \in Nat, n \in Nat, L \in Nat, M \in Nat :
          F = PageSize /\ n = i.page - 1 /\ L = i.fetched /\ M = i.limit
    <2>1. i.page \in Nat \ {0} /\ i.fetched \in Nat
      BY DEF ByNumber
    <2>2. i.page - 1 \in Nat
      BY <2>1
    <2> QED BY <2>1, <2>2, SizeIs
  <1>2. F > 0 /\ L = n * PageStep(i) /\ (M # 0 => L < M)
    BY <1>1, SizeIs DEF ByNumber, LimitReached
  <1>3. CASE M = 0
    BY <1>1, <1>3 DEF LeftOfLimit, PageStep
  <1>4. CASE M # 0 /\ M < F
    <2>1. PageStep(i) = M /\ L = n * M /\ L < M
      BY <1>1, <1>2, <1>4 DEF PageStep
    <2>2. L = 0
      <3>1. n = 0 \/ n * M >= M
        BY <1>4
      <3> QED BY <2>1, <3>1
    <2>3. Min({F, M - L}) = M
      BY <1>4, <2>2, LeastOf
    <2> QED BY <1>1, <1>4, <2>1, <2>3 DEF LeftOfLimit
  <1>5. CASE M # 0 /\ M >= F
    <2>1. PageStep(i) = F /\ L = n * F /\ L < M
      BY <1>1, <1>2, <1>5 DEF PageStep
    <2>2. PICK q \in Nat : M = q * F
      <3>1. CASE M = F
        <4>1. M = 1 * F /\ 1 \in Nat
          BY <3>1
        <4> QED BY <4>1
      <3>2. CASE M % F = 0
        <4>1. M = F * (M \div F) + (M % F) /\ M \div F \in Nat
          BY <1>2
        <4>2. M = (M \div F) * F
          BY <3>2, <4>1
        <4> QED BY <4>1, <4>2
      <3>3. M = F \/ M % F = 0
        BY <1>1, <1>5 DEF Whole
      <3> QED BY <3>1, <3>2, <3>3
    <2>3. n < q
      <3>1. n >= q => n * F >= q * F
        OBVIOUS
      <3> QED BY <2>1, <2>2, <3>1
    <2>4. F <= M - L
      <3>1. q - n \in Nat /\ q - n >= 1
        BY <2>3
      <3>2. (q - n) * F >= F /\ M - L = (q - n) * F
        BY <2>1, <2>2, <3>1
      <3> QED BY <3>2
    <2>5. Min({F, M - L}) = F
      BY <2>4, LeastOf
    <2> QED BY <1>1, <1>5, <2>1, <2>5 DEF LeftOfLimit
  <1> QED BY <1>3, <1>4, <1>5

(* The cards of a page, behind the first f of the list.                     *)
Slice(list, n, f, page, c, z) ==
  /\ n = Len(list) /\ DOMAIN list = 1 .. n /\ f <= n
  /\ IsSeq(page) /\ Len(page) = c /\ DOMAIN page = 1 .. c
  /\ c = IF f + z <= n THEN z ELSE n - f
  /\ \A k \in 1 .. c : page[k] = list[f + k]

LEMMA SliceIs ==
  ASSUME NEW i, i.limit \in Nat, NEW list, Cards(i.shop, list), ByNumber(i, list), i.pc = "page",
         goods[i.shop] = list, NEW z \in Nat, z = PageStep(i), z > 0,
         NEW page, page = PageByNumber(i, z), NEW f \in Nat, f = i.fetched
  PROVE  \E n \in Nat, c \in Nat : Slice(list, n, f, page, c, z)
  <1>1. PICK n \in Nat : n = Len(list) /\ DOMAIN list = 1 .. n
    BY ListIs
  <1>2. i.page \in Nat \ {0} /\ f = (i.page - 1) * z
    BY DEF ByNumber
  <1>3. i.page * z = f + z
    BY <1>2
  <1>4. f <= n
    <2>1. i.queue = <<>> /\ f + Len(i.queue) <= n
      BY <1>1 DEF ByNumber
    <2>2. Len(<<>>) = 0
      OBVIOUS
    <2> QED BY <2>1, <2>2
  <1>5. PICK e \in Nat : e = Min({n, f + z})
    BY LeastOf
  <1>6. e = IF n <= f + z THEN n ELSE f + z
    BY <1>5, LeastOf
  <1>7. page = SubSeq(list, f + 1, e)
    BY <1>1, <1>2, <1>3, <1>5 DEF PageByNumber
  <1>8. PICK c \in Nat : c = e - f
    BY <1>4, <1>6
  <1>9. PICK T : T = ToSet(list)
    OBVIOUS
  <1>10. \A k \in f + 1 .. e : list[k] \in T
    <2>1. \A k \in f + 1 .. e : k \in 1 .. n
      BY <1>6
    <2> QED BY <1>1, <1>9, <2>1 DEF ToSet
  <1>11. /\ page \in Seq(T)
         /\ Len(page) = IF f + 1 <= e THEN e - (f + 1) + 1 ELSE 0
         /\ \A k \in 1 .. e - (f + 1) + 1 : page[k] = list[f + 1 + k - 1]
    <2>1. PICK b \in Int : b = f + 1
      OBVIOUS
    <2>2. e \in Int /\ \A k \in b .. e : list[k] \in T
      BY <1>10, <2>1
    <2>3. /\ SubSeq(list, b, e) \in Seq(T)
          /\ Len(SubSeq(list, b, e)) = IF b <= e THEN e - b + 1 ELSE 0
          /\ \A k \in 1 .. e - b + 1 : SubSeq(list, b, e)[k] = list[b + k - 1]
      BY ONLY <2>1, <2>2, SubSeqProperties
    <2>4. page = SubSeq(list, b, e)
      BY <1>7, <2>1
    <2> QED BY ONLY <2>1, <2>3, <2>4
  <1>12. IsSeq(page) /\ Len(page) = c
    <2>1. IsSeq(page)
      BY <1>11, SeqIsSeq
    <2>2. Len(page) = IF f + 1 <= e THEN e - (f + 1) + 1 ELSE 0
      BY <1>11
    <2>3. (IF f + 1 <= e THEN e - (f + 1) + 1 ELSE 0) = c
      BY <1>8
    <2> QED BY <2>1, <2>2, <2>3
  <1>13. DOMAIN page = 1 .. c
    BY <1>12, SeqFacts
  <1>14. ASSUME NEW k \in 1 .. c PROVE page[k] = list[f + k]
    <2>1. k \in 1 .. e - (f + 1) + 1 /\ f + 1 + k - 1 = f + k
      BY <1>8
    <2> QED BY <1>11, <2>1
  <1>15. c = IF f + z <= n THEN z ELSE n - f
    BY <1>6, <1>8
  <1> QED BY <1>1, <1>4, <1>12, <1>13, <1>14, <1>15 DEF Slice

(* A page by number: an empty one ends the import, ...                      *)
LEMMA FirstAll ==
  ASSUME NEW list, NEW n \in Nat, DOMAIN list = 1 .. n
  PROVE  FirstIds(list, n) = Ids(list)
  BY DEF FirstIds, Ids

LEMMA NumberedEnds ==
  ASSUME NEW i, NEW list, Gathered(i, list), ByNumber(i, list), i.pc = "page",
         Listed(i) \subseteq Ids(list), i.shop # "prom",
         NEW n \in Nat, NEW f \in Nat, f = i.fetched, NEW z \in Nat, z > 0,
         NEW page, NEW c \in Nat, Slice(list, n, f, page, c, z), page = <<>>,
         NEW j, Alike(i, j), Untaken(i, j), j.pc = "end", j.queue = i.queue
  PROVE  Gathered(j, list)
  <1>1. n = f
    <2>1. c = 0
      <3>1. Len(<<>>) = 0
        OBVIOUS
      <3> QED BY <3>1 DEF Slice
    <2>2. f <= n /\ c = IF f + z <= n THEN z ELSE n - f
      BY DEF Slice
    <2> QED BY <2>1, <2>2
  <1>2. Listed(i) \subseteq i.seen
    <2>1. FirstIds(list, n) = Ids(list)
      BY FirstAll DEF Slice
    <2> QED BY <1>1, <2>1 DEF ByNumber
  <1>3. Listed(j) = Listed(i)
    BY DEF Alike, Listed
  <1>4. ByNumber(j, list)
    BY DEF ByNumber
  <1> QED BY <1>2, <1>3, <1>4 DEF Gathered, Alike, Untaken, Counted, Ended

(* ... another is taken as it is.                                           *)
LEMMA NumberedReads ==
  ASSUME NEW i, NEW list, Gathered(i, list), ByNumber(i, list), i.pc = "page",
         Listed(i) \subseteq Ids(list), i.shop # "prom",
         NEW n \in Nat, NEW f \in Nat, f = i.fetched, NEW z \in Nat, z > 0, z = PageStep(i),
         NEW page, NEW c \in Nat, Slice(list, n, f, page, c, z),
         NEW j, Alike(i, j), Untaken(i, j), j.pc = "card", j.queue = page, j.page = i.page,
         j.short <=> c < z
  PROVE  Gathered(j, list)
  <1>1. /\ n = Len(list) /\ DOMAIN list = 1 .. n /\ f <= n
        /\ IsSeq(page) /\ Len(page) = c /\ DOMAIN page = 1 .. c
        /\ c = IF f + z <= n THEN z ELSE n - f
        /\ \A k \in 1 .. c : page[k] = list[f + k]
    BY DEF Slice
  <1>2. i.page \in Nat \ {0} /\ f = (i.page - 1) * z /\ i.seen = FirstIds(list, f)
    BY DEF ByNumber
  <1>3. f + c <= n
    BY <1>1
  <1>4. j.page * PageStep(j) = f + z
    <2>1. PageStep(j) = z
      BY DEF PageStep, Alike
    <2> QED BY <1>2, <2>1
  <1>5. ASSUME j.short PROVE Listed(j) \subseteq FirstIds(list, f + c)
    <2>1. f + c = n
      BY <1>1, <1>5
    <2>2. FirstIds(list, n) = Ids(list)
      BY <1>1, FirstAll
    <2> QED BY <2>1, <2>2 DEF Alike, Listed
  <1>6. ~j.short => f + c = f + z
    BY <1>1
  <1>7. ByNumber(j, list)
    <2>1. /\ j.page \in Nat \ {0} /\ j.fetched = f /\ j.queue = page
          /\ j.seen = FirstIds(list, f)
      BY <1>2 DEF Untaken
    <2>2. \A k \in DOMAIN page : page[k].id = list[f + k].id
      BY <1>1
    <2> QED BY <1>1, <1>3, <1>4, <1>5, <1>6, <2>1, <2>2 DEF ByNumber
  <1>8. Counted(j) /\ Ended(j)
    BY DEF Gathered, Untaken, Counted, Ended
  <1> QED BY <1>1, <1>7, <1>8 DEF Gathered, Alike

(* Prom's page: the next cards after the last number.                       *)
NextCards(list, cursor, size, page) ==
  /\ IsSeq(page)
  /\ \A k \in DOMAIN page : \E m \in DOMAIN list : page[k] = list[m] /\ list[m].id > cursor
  /\ \A k, l \in DOMAIN page : k < l => page[k].id < page[l].id
  /\ \A m \in DOMAIN list, k \in DOMAIN page :
       list[m].id > cursor /\ list[m].id <= page[k].id => list[m].id \in Ids(page)
  /\ size > 0 /\ Len(page) < size =>
       \A m \in DOMAIN list : list[m].id > cursor => list[m].id \in Ids(page)

LEMMA PromPageIs ==
  ASSUME GoodsInv, NEW i, i.cursor \in Int, NEW size \in Int, size = LeftOfLimit(i),
         NEW list, list = goods["prom"], NEW page, page = PromPage(i)
  PROVE  NextCards(list, i.cursor, size, page)
  <1>1. PICK after : after = {k \in DOMAIN list : list[k].id > i.cursor}
    OBVIOUS
  <1>2. PICK P : P = {k \in after : Rank(after, k) <= size}
    OBVIOUS
  <1>3. page = Picked(list, P)
    BY <1>1, <1>2 DEF PromPage
  <1>4. Cards("prom", list)
    BY DEF GoodsInv, Shops
  <1>5. PICK n \in Nat : DOMAIN list = 1 .. n
    BY <1>4, ListIs
  <1>6. \A k \in 1 .. n : list[k].id \in Nat
    BY <1>4, <1>5 DEF Cards
  <1>7. \A k, l \in 1 .. n : k < l => list[k].id < list[l].id
    BY <1>4, <1>5 DEF Cards
  <1>8. Listing(after)
    <2>1. IsFiniteSet(1 .. n)
      BY FS_Interval
    <2>2. Listing(1 .. n)
      BY <2>1 DEF Listing
    <2>3. after \in SUBSET (1 .. n)
      BY <1>1, <1>5
    <2> QED BY <2>2, <2>3, ListingPart
  <1>9. Listing(P)
    <2>1. P \in SUBSET after
      BY <1>2
    <2> QED BY <1>8, <2>1, ListingPart
  <1>10. PICK c \in Nat : c = Cardinality(P)
    BY <1>9, FS_CardinalityType DEF Listing
  <1>11. /\ DOMAIN page = 1 .. c /\ IsSeq(page) /\ Len(page) = c
         /\ \A k \in 1 .. c : InOrder(P)[k] \in P /\ page[k] = list[InOrder(P)[k]]
         /\ \A p \in P : \E k \in 1 .. c : InOrder(P)[k] = p
    BY <1>3, <1>9, <1>10, PickedIs
  <1>12. \A k, l \in 1 .. c : k < l <=> InOrder(P)[k] < InOrder(P)[l]
    BY <1>9, <1>10, InOrderIs
  <1>13. ASSUME NEW p \in P PROVE p \in 1 .. n /\ list[p].id > i.cursor /\ p \in after
    BY <1>1, <1>2, <1>5, <1>13
  <1>14. ASSUME NEW p \in P PROVE list[p].id \in Ids(page)
    <2>1. PICK k \in 1 .. c : page[k] = list[p]
      BY <1>11
    <2> QED BY <1>11, <2>1 DEF Ids
  <1>15. ASSUME NEW k \in DOMAIN page
         PROVE  \E m \in DOMAIN list : page[k] = list[m] /\ list[m].id > i.cursor
    <2>1. PICK p \in P : page[k] = list[p]
      BY <1>11, <1>15
    <2> QED BY <1>5, <1>13, <2>1
  <1>16. ASSUME NEW k \in 1 .. c, NEW l \in 1 .. c, k < l PROVE page[k].id < page[l].id
    <2>1. PICK p \in P : p = InOrder(P)[k] /\ page[k] = list[p]
      BY <1>11
    <2>2. PICK q \in P : q = InOrder(P)[l] /\ page[l] = list[q]
      BY <1>11
    <2>3. p < q /\ p \in 1 .. n /\ q \in 1 .. n
      BY <1>12, <1>13, <1>16, <2>1, <2>2
    <2> QED BY <1>7, <2>1, <2>2, <2>3
  <1>17. ASSUME NEW m \in 1 .. n, NEW k \in 1 .. c, list[m].id > i.cursor,
                list[m].id <= page[k].id
         PROVE  list[m].id \in Ids(page)
    <2>1. PICK p \in P : page[k] = list[p]
      BY <1>11
    <2>2. p \in 1 .. n /\ p \in after /\ m \in after
      BY <1>1, <1>5, <1>13, <1>17
    <2>3. m <= p
      <3>1. p < m => list[p].id < list[m].id
        BY <1>7, <2>2
      <3>2. list[m].id \in Nat /\ list[p].id \in Nat /\ list[m].id <= list[p].id
        BY <1>6, <1>17, <2>1, <2>2
      <3> QED BY <2>2, <3>1, <3>2
    <2>4. Rank(after, m) <= Rank(after, p)
      <3>1. m < p => Rank(after, m) < Rank(after, p)
        BY <1>8, <2>2, RankGrows
      <3>2. Cardinality(after) \in Nat /\ Rank(after, p) \in 1 .. Cardinality(after)
        BY <1>8, <2>2, RankGrows
      <3>3. Rank(after, m) \in 1 .. Cardinality(after)
        BY <1>8, <2>2, RankGrows
      <3> QED BY <2>2, <2>3, <3>1, <3>2, <3>3
    <2>5. Rank(after, m) <= size
      <3>1. Rank(after, p) <= size
        BY <1>2
      <3>2. Cardinality(after) \in Nat /\ Rank(after, p) \in 1 .. Cardinality(after)
        BY <1>8, <2>2, RankGrows
      <3>3. Rank(after, m) \in 1 .. Cardinality(after)
        BY <1>8, <2>2, RankGrows
      <3> QED BY <2>4, <3>1, <3>2, <3>3
    <2>6. m \in P
      BY <1>2, <2>2, <2>5
    <2> QED BY <1>14, <2>6
  <1>18. ASSUME size > 0, c < size, NEW m \in 1 .. n, list[m].id > i.cursor
         PROVE  list[m].id \in Ids(page)
    <2>1. m \in after
      BY <1>1, <1>5, <1>18
    <2>2. Cardinality(after) \in Nat /\ Rank(after, m) \in 1 .. Cardinality(after)
      BY <1>8, <2>1, RankGrows
    <2>3. Rank(after, m) <= size
      <3> SUFFICES ASSUME Rank(after, m) > size PROVE FALSE
        BY <2>2
      <3>1. size \in Nat /\ 0 <= size /\ size <= Cardinality(after)
        BY <1>18, <2>2
      <3>2. Cardinality(Between(after, 0, size)) = size - 0
        BY <1>8, <3>1, BetweenIs
      <3>3. P = Between(after, 0, size)
        <4>1. \A k \in after : 0 < Rank(after, k)
          <5>1. \A k \in after : Rank(after, k) \in 1 .. Cardinality(after)
            BY <1>8, RankGrows
          <5> QED BY <2>2, <5>1
        <4> QED BY <1>2, <4>1 DEF Between
      <3> QED BY <1>10, <1>18, <3>1, <3>2, <3>3
    <2>4. m \in P
      BY <1>2, <2>1, <2>3
    <2> QED BY <1>14, <2>4
  <1> QED BY <1>5, <1>11, <1>15, <1>16, <1>17, <1>18 DEF NextCards

LEMMA CountIs ==
  ASSUME NEW i, Counted(i) PROVE i.fetched \in Nat
  BY FS_CardinalityType DEF Counted

LEMMA LeftIs ==
  ASSUME NEW i, i.limit \in Nat, i.fetched \in Nat
  PROVE  /\ LeftOfLimit(i) \in Int
         /\ LeftOfLimit(i) <= 0 => LimitReached(i)
  <1>1. CASE i.limit = 0
    BY <1>1, SizeIs DEF LeftOfLimit
  <1>2. CASE i.limit # 0
    <2>1. PICK d \in Int : d = i.limit - i.fetched
      OBVIOUS
    <2>2. LeftOfLimit(i) = IF PageSize <= d THEN PageSize ELSE d
      BY <1>2, <2>1, SizeIs, LeastOf DEF LeftOfLimit
    <2>3. d <= 0 => LimitReached(i)
      BY <1>2, <2>1 DEF LimitReached
    <2> QED BY <2>2, <2>3, SizeIs
  <1> QED BY <1>1, <1>2

LEMMA PromEnds ==
  ASSUME NEW i, i.limit \in Nat, i.shop = "prom", NEW list, Cards("prom", list),
         Gathered(i, list), Listed(i) \subseteq Ids(list),
         NEW size, size = LeftOfLimit(i), NEW page, NextCards(list, i.cursor, size, page),
         size <= 0 \/ page = <<>>,
         NEW j, Alike(i, j), Untaken(i, j), j.pc = "end", j.queue = i.queue
  PROVE  Gathered(j, list)
  <1>1. ByCursor(i) /\ Counted(i) /\ IsSeq(i.queue)
    BY DEF Gathered
  <1>2. size \in Int /\ (size <= 0 => LimitReached(i))
    BY <1>1, CountIs, LeftIs
  <1>3. ASSUME size > 0 PROVE Listed(i) \subseteq i.seen
    <2>1. page = <<>> /\ Len(page) = 0 /\ DOMAIN page = {}
      BY <1>2, <1>3
    <2>2. \A m \in DOMAIN list : ~(list[m].id > i.cursor)
      BY <1>3, <2>1 DEF NextCards, Ids
    <2>3. ASSUME NEW x \in Listed(i) PROVE x \in i.seen
      <3>1. PICK m \in DOMAIN list : x = list[m].id
        BY DEF Ids
      <3>2. x \in Nat /\ i.cursor \in Int /\ ~(x > i.cursor)
        BY <1>1, <2>2, <3>1 DEF Cards, ByCursor
      <3>3. x <= i.cursor
        BY <3>2
      <3> QED BY <1>1, <3>3 DEF ByCursor
    <2> QED BY <2>3
  <1>4. LimitReached(i) \/ Listed(i) \subseteq i.seen
    BY <1>2, <1>3
  <1>5. Listed(j) = Listed(i) /\ (LimitReached(j) <=> LimitReached(i))
    BY DEF Alike, Untaken, Listed, LimitReached
  <1>6. Ended(j)
    BY <1>4, <1>5 DEF Ended, Untaken
  <1>7. ByCursor(j)
    BY <1>1, <1>5 DEF ByCursor, Untaken
  <1> QED BY <1>1, <1>6, <1>7 DEF Gathered, Alike, Untaken, Counted

LEMMA PromReads ==
  ASSUME NEW i, i.limit \in Nat, i.shop = "prom", NEW list, Cards("prom", list),
         Gathered(i, list), Listed(i) \subseteq Ids(list),
         NEW size \in Int, size > 0, NEW page, NextCards(list, i.cursor, size, page),
         NEW j, Alike(i, j), Untaken(i, j), j.pc = "card", j.queue = page,
         j.short <=> Len(page) < size
  PROVE  Gathered(j, list)
  <1>1. ByCursor(i) /\ Counted(i)
    BY DEF Gathered
  <1>2. i.cursor \in Int /\ \A m \in DOMAIN list : list[m].id \in Nat
    BY <1>1 DEF ByCursor, Cards
  <1>3. ASSUME NEW k \in DOMAIN page PROVE page[k].id \in Int /\ page[k].id > i.cursor
    <2>1. PICK m \in DOMAIN list : page[k] = list[m] /\ list[m].id > i.cursor
      BY <1>3 DEF NextCards
    <2> QED BY <1>2, <2>1
  <1>4. ASSUME NEW x \in Listed(i), x \notin i.seen
        PROVE  \E m \in DOMAIN list : x = list[m].id /\ list[m].id > i.cursor
    <2>1. PICK m \in DOMAIN list : x = list[m].id
      BY DEF Ids
    <2>2. ~(x <= i.cursor)
      BY <1>1, <1>4 DEF ByCursor
    <2> QED BY <1>2, <2>1, <2>2
  <1>5. ASSUME NEW x \in Listed(i), NEW k \in DOMAIN page, x <= page[k].id
        PROVE  x \in i.seen \cup Ids(page)
    BY <1>4, <1>5 DEF NextCards
  <1>6. ASSUME Len(page) < size, NEW x \in Listed(i) PROVE x \in i.seen \cup Ids(page)
    BY <1>4, <1>6 DEF NextCards
  <1>7. Listed(j) = Listed(i)
    BY DEF Alike, Listed
  <1>8. ByCursor(j)
    <2>1. \A k, l \in DOMAIN page : k < l => page[k].id < page[l].id
      BY DEF NextCards
    <2> QED BY <1>1, <1>3, <1>5, <1>6, <1>7, <2>1 DEF ByCursor, Untaken
  <1>9. Counted(j) /\ Ended(j) /\ IsSeq(page)
    BY <1>1 DEF Counted, Ended, Untaken, NextCards
  <1> QED BY <1>8, <1>9 DEF Gathered, Alike

(* What a request for a page comes to.                                      *)
Turned(r, i, j, page, size) ==
  /\ imp' = [imp EXCEPT ![r] = j] /\ Alike(i, j) /\ Untaken(i, j) /\ j.page = i.page
  /\ \/ /\ size <= 0 \/ page = <<>>
        /\ j.pc = "end" /\ j.queue = i.queue
     \/ /\ ~(size <= 0) /\ page # <<>>
        /\ j.pc = "card" /\ j.queue = page /\ (j.short <=> Len(page) < size)

LEMMA ReadsTurns ==
  ASSUME NEW r, NEW page, NEW size, ReadsPage(r, page, size), NEW i, i = imp[r],
         DOMAIN i = DOMAIN NoImport
  PROVE  \E j : Turned(r, i, j, page, size)
  <1>1. CASE size <= 0 \/ page = <<>>
    <2>1. PICK j : j = [i EXCEPT !.pc = "end"]
      OBVIOUS
    <2>2. imp' = [imp EXCEPT ![r] = j]
      BY <1>1, <2>1 DEF ReadsPage
    <2>3. Alike(i, j) /\ Untaken(i, j) /\ j.page = i.page /\ j.pc = "end" /\ j.queue = i.queue
      BY <2>1, NoImportFields DEF Alike, Untaken, Started
    <2> QED BY <1>1, <2>2, <2>3 DEF Turned
  <1>2. CASE ~(size <= 0 \/ page = <<>>)
    <2>1. PICK short : short = (Len(page) < size)
      OBVIOUS
    <2>2. PICK j : j = [i EXCEPT !.pc = "card", !.queue = page, !.short = short]
      OBVIOUS
    <2>3. imp' = [imp EXCEPT ![r] = j]
      BY <1>2, <2>1, <2>2 DEF ReadsPage
    <2>4. /\ Alike(i, j) /\ Untaken(i, j) /\ j.page = i.page /\ j.pc = "card"
          /\ j.queue = page /\ j.short = short
      BY <2>2, NoImportFields DEF Alike, Untaken, Started
    <2>5. j.short <=> Len(page) < size
      BY <2>1, <2>4
    <2> QED BY <1>2, <2>3, <2>4, <2>5 DEF Turned
  <1> QED BY <1>1, <1>2

LEMMA NumberedCollects ==
  ASSUME GoodsInv, GatherInv, NEW r \in Runners, NEW i, i = imp[r], i.pc = "page",
         i.shop # "prom",
         NEW size, Whole(i) /\ ByNumber(i, goods[i.shop]) => size = PageStep(i),
         NEW page, page = PageByNumber(i, size),
         NEW j, Turned(r, i, j, page, size)
  PROVE  Gathers(j, goods)
  <1>1. Gathers(i, goods) /\ i.shop \in Shops
    BY DEF GatherInv, Gathers
  <1>2. PICK list : list = goods[i.shop]
    OBVIOUS
  <1>3. Cards(i.shop, list) /\ i.limit \in Nat /\ Listed(i) \subseteq Ids(list)
    BY <1>1, <1>2 DEF GoodsInv, Gathers
  <1>4. ASSUME Steady(i), Whole(i) PROVE Gathered(j, list)
    <2>1. Gathered(i, list)
      BY <1>1, <1>2, <1>4 DEF Gathers, Started
    <2>2. ByNumber(i, list)
      BY <2>1 DEF Gathered, ByHook
    <2>3. PICK z \in Nat : z = PageStep(i) /\ z > 0
      BY <1>3, RightStep
    <2>4. size = z
      BY <1>2, <1>4, <2>2, <2>3
    <2>5. PICK f \in Nat : f = i.fetched
      BY <2>2 DEF ByNumber
    <2>6. PICK n \in Nat, c \in Nat : Slice(list, n, f, page, c, z)
      BY <1>2, <1>3, <2>2, <2>3, <2>4, <2>5, SliceIs
    <2>7. CASE size <= 0 \/ page = <<>>
      <3>1. page = <<>>
        BY <2>3, <2>4, <2>7
      <3>2. Alike(i, j) /\ Untaken(i, j) /\ j.pc = "end" /\ j.queue = i.queue
        BY <2>7 DEF Turned
      <3> QED BY <1>3, <2>1, <2>2, <2>3, <2>5, <2>6, <3>1, <3>2, NumberedEnds
    <2>8. CASE ~(size <= 0 \/ page = <<>>)
      <3>1. Len(page) = c
        BY <2>6 DEF Slice
      <3>2. /\ Alike(i, j) /\ Untaken(i, j) /\ j.pc = "card" /\ j.queue = page
            /\ j.page = i.page /\ (j.short <=> c < z)
        BY <2>4, <2>8, <3>1 DEF Turned
      <3> QED BY <1>3, <2>1, <2>2, <2>3, <2>5, <2>6, <3>2, NumberedReads
    <2> QED BY <2>7, <2>8
  <1>5. Alike(i, j)
    BY DEF Turned
  <1> QED BY <1>1, <1>2, <1>4, <1>5, AlikeGathers

LEMMA PromCollects ==
  ASSUME GoodsInv, GatherInv, NEW r \in Runners, NEW i, i = imp[r], i.pc = "page",
         i.shop = "prom", NEW size, size = LeftOfLimit(i), NEW page, page = PromPage(i),
         NEW j, Turned(r, i, j, page, size)
  PROVE  Gathers(j, goods)
  <1>1. Gathers(i, goods) /\ i.shop \in Shops
    BY DEF GatherInv, Gathers
  <1>2. PICK list : list = goods["prom"]
    OBVIOUS
  <1>3. Cards("prom", list) /\ i.limit \in Nat /\ Listed(i) \subseteq Ids(list)
    BY <1>1, <1>2 DEF GoodsInv, Gathers, Shops
  <1>4. ASSUME Steady(i), Whole(i) PROVE Gathered(j, list)
    <2>1. Gathered(i, list)
      BY <1>1, <1>2, <1>4 DEF Gathers, Started
    <2>2. ByCursor(i) /\ Counted(i)
      BY <2>1 DEF Gathered
    <2>3. i.cursor \in Int /\ size \in Int
      BY <1>3, <2>2, CountIs, LeftIs DEF ByCursor
    <2>4. NextCards(list, i.cursor, size, page)
      BY <1>2, <2>3, PromPageIs
    <2>5. CASE size <= 0 \/ page = <<>>
      <3>1. Alike(i, j) /\ Untaken(i, j) /\ j.pc = "end" /\ j.queue = i.queue
        BY <2>5 DEF Turned
      <3> QED BY <1>3, <2>1, <2>4, <2>5, <3>1, PromEnds
    <2>6. CASE ~(size <= 0 \/ page = <<>>)
      <3>1. /\ Alike(i, j) /\ Untaken(i, j) /\ j.pc = "card" /\ j.queue = page
            /\ (j.short <=> Len(page) < size)
        BY <2>6 DEF Turned
      <3>2. size > 0
        BY <2>3, <2>6
      <3> QED BY <1>3, <2>1, <2>3, <2>4, <3>1, <3>2, PromReads
    <2> QED BY <2>5, <2>6
  <1>5. Alike(i, j)
    BY DEF Turned
  <1> QED BY <1>1, <1>2, <1>4, <1>5, AlikeGathers

LEMMA FetchCollects ==
  ASSUME GoodsInv, GatherInv, NEW r \in Runners,
         FetchHoroshop(r) \/ FetchProm(r) \/ FetchWoo(r)
  PROVE  \E j : Collects(r, j)
  <1>1. PICK i : i = imp[r]
    OBVIOUS
  <1>2. DOMAIN i = DOMAIN NoImport /\ i.limit \in Nat
    BY <1>1 DEF GatherInv, Gathers
  <1>3. i.pc = "page"
    BY <1>1 DEF FetchHoroshop, FetchProm, FetchWoo, ReadsPage
  <1>4. CASE FetchHoroshop(r)
    <2>1. PICK page : page = PageByNumber(i, PageSize)
      OBVIOUS
    <2>2. i.shop = "horoshop" /\ ReadsPage(r, page, PageSize)
      BY <1>1, <1>4, <2>1 DEF FetchHoroshop, HoroshopPage
    <2>3. PICK j : Turned(r, i, j, page, PageSize)
      BY <1>1, <1>2, <2>2, ReadsTurns
    <2>4. Whole(i) /\ ByNumber(i, goods[i.shop]) => PageSize = PageStep(i)
      BY <1>2, <1>3, <2>2, NumberedSize
    <2>5. Gathers(j, goods)
      BY <1>1, <1>3, <2>1, <2>2, <2>3, <2>4, NumberedCollects
    <2> QED BY <2>3, <2>5 DEF Collects, Turned
  <1>5. CASE FetchWoo(r)
    <2>1. PICK size : size = LeftOfLimit(i)
      OBVIOUS
    <2>2. PICK page : page = PageByNumber(i, size)
      OBVIOUS
    <2>3. i.shop = "woocommerce" /\ ReadsPage(r, page, size)
      BY <1>1, <1>5, <2>1, <2>2 DEF FetchWoo, WooPage
    <2>4. PICK j : Turned(r, i, j, page, size)
      BY <1>1, <1>2, <2>3, ReadsTurns
    <2>5. Whole(i) /\ ByNumber(i, goods[i.shop]) => size = PageStep(i)
      BY <1>2, <1>3, <2>1, <2>3, NumberedSize
    <2>6. Gathers(j, goods)
      BY <1>1, <1>3, <2>2, <2>3, <2>4, <2>5, NumberedCollects
    <2> QED BY <2>4, <2>6 DEF Collects, Turned
  <1>6. CASE FetchProm(r)
    <2>1. PICK size : size = LeftOfLimit(i)
      OBVIOUS
    <2>2. PICK page : page = PromPage(i)
      OBVIOUS
    <2>3. i.shop = "prom" /\ ReadsPage(r, page, size)
      BY <1>1, <1>6, <2>1, <2>2 DEF FetchProm
    <2>4. PICK j : Turned(r, i, j, page, size)
      BY <1>1, <1>2, <2>3, ReadsTurns
    <2>5. Gathers(j, goods)
      BY <1>1, <1>3, <2>1, <2>2, <2>3, <2>4, PromCollects
    <2> QED BY <2>4, <2>5 DEF Collects, Turned
  <1> QED BY <1>4, <1>5, <1>6

(* After the last card of a page.                                           *)
LEMMA PageDone ==
  ASSUME NEW i, i.limit \in Nat, NEW list, Gathered(i, list), i.pc = "card", i.queue = <<>>,
         NEW j, Alike(i, j), Untaken(i, j), j.queue = <<>>, j.short = i.short,
         \/ (LimitReached(i) \/ i.short) /\ j.pc = "end" /\ j.page = i.page
         \/ ~(LimitReached(i) \/ i.short) /\ j.pc = "page" /\ j.page = i.page + 1
  PROVE  Gathered(j, list)
  <1>1. Len(i.queue) = 0 /\ Ids(i.queue) = {}
    BY DEF Ids
  <1>2. IsSeq(j.queue) /\ Counted(j)
    BY DEF Gathered, Counted, Untaken
  <1>3. Listed(j) = Listed(i) /\ (LimitReached(j) <=> LimitReached(i))
    BY DEF Alike, Untaken, Listed, LimitReached
  <1>4. ASSUME i.shop = "prom" PROVE ByCursor(j) /\ Ended(j)
    <2>1. ByCursor(i)
      BY <1>4 DEF Gathered
    <2>2. ByCursor(j)
      BY <1>3, <2>1 DEF ByCursor, Untaken
    <2>3. ~LimitReached(i) /\ i.short => Listed(i) \subseteq i.seen
      BY <1>1, <2>1 DEF ByCursor
    <2> QED BY <1>3, <2>2, <2>3 DEF Ended, Untaken
  <1>5. ASSUME ByHook(i) PROVE ByHook(j) /\ Ended(j)
    <2>1. i.seen = i.start /\ i.short /\ j.pc = "end"
      BY <1>1, <1>5 DEF ByHook
    <2>2. Listed(j) \subseteq j.seen
      BY <1>3, <2>1 DEF Listed, Untaken
    <2>3. Ended(j)
      BY <2>2 DEF Ended
    <2>4. j.short /\ j.limit = 0 /\ j.seen = j.start
      BY <1>5, <2>1 DEF Untaken, Alike, ByHook
    <2> QED BY <2>1, <2>3, <2>4 DEF ByHook
  <1>6. ASSUME ByNumber(i, list) PROVE ByNumber(j, list) /\ Ended(j)
    <2>1. PICK f \in Nat, p \in Nat, z \in Nat :
            f = i.fetched /\ p = i.page /\ z = PageStep(i) /\ z = PageStep(j)
      <3>1. i.fetched \in Nat /\ i.page \in Nat
        BY <1>6 DEF ByNumber
      <3>2. PageStep(i) = PageStep(j)
        BY DEF PageStep, Alike
      <3> QED BY <3>1, <3>2, RightStep
    <2>2. f + Len(i.queue) = f
      BY <1>1
    <2>3. CASE j.pc = "end"
      <3>1. LimitReached(i) \/ i.short
        BY <2>3
      <3>2. ~LimitReached(i) => Listed(i) \subseteq i.seen
        BY <1>6, <2>1, <2>2, <3>1 DEF ByNumber
      <3> QED BY <1>3, <2>3, <3>2 DEF ByNumber, Ended, Untaken
    <2>4. CASE j.pc = "page"
      <3>1. ~LimitReached(i) /\ ~i.short /\ j.page = p + 1
        BY <2>1, <2>4
      <3>2. f = p * z
        BY <1>6, <2>1, <2>2, <3>1 DEF ByNumber
      <3>3. f = (j.page - 1) * z
        BY <3>1, <3>2
      <3>4. /\ j.page \in Nat \ {0} /\ j.fetched = f /\ j.seen = FirstIds(list, f)
            /\ f + Len(j.queue) <= Len(list)
        BY <1>6, <2>1, <3>1 DEF ByNumber, Untaken
      <3>5. \A k \in DOMAIN j.queue : FALSE
        OBVIOUS
      <3> QED BY <1>3, <2>1, <2>4, <3>1, <3>3, <3>4, <3>5 DEF ByNumber, Ended
    <2> QED BY <2>3, <2>4
  <1> QED BY <1>2, <1>4, <1>5, <1>6 DEF Gathered, Alike

LEMMA NextPageCollects ==
  ASSUME GatherInv, NEW r \in Runners, NextPage(r)
  PROVE  \E j : Collects(r, j)
  <1>1. PICK i : i = imp[r]
    OBVIOUS
  <1>2. /\ DOMAIN i = DOMAIN NoImport /\ i.limit \in Nat /\ Gathers(i, goods)
        /\ i.pc = "card" /\ i.queue = <<>> /\ i.pc # "idle"
    BY <1>1 DEF GatherInv, Gathers, NextPage
  <1>3. PICK j : /\ imp' = [imp EXCEPT ![r] = j]
                 /\ Alike(i, j) /\ Untaken(i, j) /\ j.queue = <<>> /\ j.short = i.short
                 /\ \/ (LimitReached(i) \/ i.short) /\ j.pc = "end" /\ j.page = i.page
                    \/ ~(LimitReached(i) \/ i.short) /\ j.pc = "page" /\ j.page = i.page + 1
    <2>1. CASE LimitReached(i) \/ i.short
      <3>1. PICK j : j = [i EXCEPT !.pc = "end"]
        OBVIOUS
      <3>2. imp' = [imp EXCEPT ![r] = j]
        BY <1>1, <2>1, <3>1 DEF NextPage
      <3>3. /\ Alike(i, j) /\ Untaken(i, j) /\ j.queue = <<>> /\ j.pc = "end"
            /\ j.page = i.page /\ j.short = i.short
        BY <1>2, <3>1, NoImportFields DEF Alike, Untaken, Started
      <3> QED BY <2>1, <3>2, <3>3
    <2>2. CASE ~(LimitReached(i) \/ i.short)
      <3>1. PICK j : j = [i EXCEPT !.pc = "page", !.page = @ + 1, !.queue = <<>>]
        OBVIOUS
      <3>2. imp' = [imp EXCEPT ![r].pc = "page", ![r].page = @ + 1, ![r].queue = <<>>]
        BY <1>1, <2>2 DEF NextPage
      <3>3. imp' = [imp EXCEPT ![r] = j]
        BY <1>1, <1>2, <3>1, <3>2, NoImportFields
      <3>4. /\ Alike(i, j) /\ Untaken(i, j) /\ j.queue = <<>> /\ j.pc = "page"
            /\ j.page = i.page + 1 /\ j.short = i.short
        BY <1>2, <3>1, NoImportFields DEF Alike, Untaken, Started
      <3> QED BY <2>2, <3>3, <3>4
    <2> QED BY <2>1, <2>2
  <1>4. Steady(i) /\ Whole(i) => Gathered(j, goods[i.shop])
    <2>1. Steady(i) /\ Whole(i) => Gathered(i, goods[i.shop])
      BY <1>2 DEF Gathers, Started
    <2> QED BY <1>2, <1>3, <2>1, PageDone
  <1>5. Gathers(j, goods)
    BY <1>2, <1>3, <1>4, AlikeGathers
  <1> QED BY <1>3, <1>5 DEF Collects

(* One card more.                                                           *)
Took(i, j) ==
  /\ Alike(i, j) /\ j.page = i.page /\ j.short = i.short /\ j.pc \in {"card", "upsert"}
  /\ j.queue = Tail(i.queue) /\ j.fetched = i.fetched + 1 /\ j.cursor = Head(i.queue).id
  /\ j.seen = i.seen \cup {Head(i.queue).id}
  /\ j.again = (i.again \/ Head(i.queue).id \in i.seen)

(* The queue without its first card.                                        *)
Rests(queue, card, rest, q) ==
  /\ Len(queue) = q + 1 /\ DOMAIN queue = 1 .. q + 1 /\ queue[1] = card
  /\ IsSeq(rest) /\ Len(rest) = q /\ DOMAIN rest = 1 .. q
  /\ \A k \in 1 .. q : rest[k] = queue[k + 1]

LEMMA RestsIs ==
  ASSUME NEW queue, IsSeq(queue), queue # <<>>
  PROVE  \E q \in Nat : Rests(queue, Head(queue), Tail(queue), q)
  <1>1. PICK S : queue \in Seq(S)
    BY DEF IsSeq
  <1>2. PICK n \in Nat : n = Len(queue) /\ DOMAIN queue = 1 .. n /\ n > 0
    BY SeqFacts
  <1>3. PICK q \in Nat : n = q + 1
    <2>1. n - 1 \in Nat /\ n = (n - 1) + 1
      BY <1>2
    <2> QED BY <2>1
  <1>4. /\ Head(queue) = queue[1] /\ Tail(queue) \in Seq(S) /\ Len(Tail(queue)) = q
        /\ \A k \in 1 .. q : Tail(queue)[k] = queue[k + 1]
    BY <1>1, <1>2, <1>3
  <1>5. IsSeq(Tail(queue))
    BY <1>4, SeqIsSeq
  <1>6. DOMAIN Tail(queue) = 1 .. q
    BY <1>4, <1>5, SeqFacts
  <1> QED BY <1>2, <1>3, <1>4, <1>5, <1>6 DEF Rests

LEMMA RestIds ==
  ASSUME NEW queue, NEW card, NEW rest, NEW q \in Nat, Rests(queue, card, rest, q)
  PROVE  /\ Ids(queue) = {card.id} \cup Ids(rest)
         /\ \A k \in DOMAIN queue : k = 1 \/ \E l \in DOMAIN rest : queue[k] = rest[l] /\ k = l + 1
  <1>1. \A k \in 1 .. q + 1 : k = 1 \/ (k - 1 \in 1 .. q /\ k = (k - 1) + 1)
    OBVIOUS
  <1>2. ASSUME NEW k \in 1 .. q + 1, k # 1
        PROVE  \E l \in DOMAIN rest : queue[k] = rest[l] /\ k = l + 1
    <2>1. k - 1 \in 1 .. q /\ k = (k - 1) + 1
      BY <1>1, <1>2
    <2>2. rest[k - 1] = queue[k]
      BY <2>1 DEF Rests
    <2> QED BY <2>1, <2>2 DEF Rests
  <1>3. \A k \in 1 .. q : k + 1 \in DOMAIN queue /\ rest[k] = queue[k + 1]
    BY DEF Rests
  <1>4. Ids(queue) \subseteq {card.id} \cup Ids(rest)
    <2>1. ASSUME NEW k \in DOMAIN queue PROVE queue[k].id \in {card.id} \cup Ids(rest)
      <3>1. k = 1 => queue[k].id = card.id
        BY DEF Rests
      <3>2. k # 1 => \E l \in DOMAIN rest : queue[k] = rest[l]
        BY <1>2, <2>1 DEF Rests
      <3> QED BY <3>1, <3>2 DEF Ids
    <2> QED BY <2>1 DEF Ids
  <1>5. {card.id} \cup Ids(rest) \subseteq Ids(queue)
    <2>1. card.id \in Ids(queue)
      <3>1. 1 \in DOMAIN queue /\ queue[1] = card
        BY DEF Rests
      <3> QED BY <3>1 DEF Ids
    <2>2. ASSUME NEW k \in DOMAIN rest PROVE rest[k].id \in Ids(queue)
      <3>1. k + 1 \in DOMAIN queue /\ rest[k] = queue[k + 1]
        BY <1>3, <2>2 DEF Rests
      <3> QED BY <3>1 DEF Ids
    <2> QED BY <2>1, <2>2 DEF Ids
  <1>6. \A k \in DOMAIN queue : k = 1 \/ \E l \in DOMAIN rest : queue[k] = rest[l] /\ k = l + 1
    BY <1>2 DEF Rests
  <1> QED BY <1>4, <1>5, <1>6

LEMMA TookCounted ==
  ASSUME NEW i, i.limit \in Nat, Counted(i), NEW j, Took(i, j), Head(i.queue).id \notin i.seen
  PROVE  Counted(j) /\ (LimitReached(i) => LimitReached(j))
  <1>1. PICK x : x = Head(i.queue).id
    OBVIOUS
  <1>2. IsFiniteSet(j.seen) /\ Cardinality(j.seen) = i.fetched + 1
    <2>1. PICK S : S = i.seen
      OBVIOUS
    <2>2. IsFiniteSet(S) /\ Cardinality(S) = i.fetched /\ x \notin S
      BY <1>1, <2>1 DEF Counted
    <2>3. IsFiniteSet(S \cup {x}) /\ Cardinality(S \cup {x}) = i.fetched + 1
      BY <2>2, FS_AddElement
    <2>4. j.seen = S \cup {x}
      BY <1>1, <2>1 DEF Took
    <2> QED BY <2>3, <2>4
  <1>3. ~j.again
    BY DEF Took, Counted
  <1>4. LimitReached(i) => LimitReached(j)
    <2>1. PICK f \in Nat : f = i.fetched
      BY CountIs
    <2>2. j.fetched = f + 1 /\ j.limit = i.limit
      BY <2>1 DEF Took, Alike
    <2>3. f >= i.limit => f + 1 >= i.limit
      OBVIOUS
    <2> QED BY <2>1, <2>2, <2>3 DEF LimitReached
  <1> QED BY <1>2, <1>3, <1>4 DEF Counted, Took

LEMMA PromTook ==
  ASSUME NEW i, i.limit \in Nat, i.pc = "card", IsSeq(i.queue), i.queue # <<>>,
         Counted(i), ByCursor(i), NEW j, Took(i, j)
  PROVE  Counted(j) /\ ByCursor(j)
  <1>1. PICK queue, card, rest : queue = i.queue /\ card = Head(queue) /\ rest = Tail(queue)
    OBVIOUS
  <1>2. PICK q \in Nat : Rests(queue, card, rest, q)
    BY <1>1, RestsIs
  <1>3. /\ Len(queue) = q + 1 /\ DOMAIN queue = 1 .. q + 1 /\ queue[1] = card
        /\ DOMAIN rest = 1 .. q /\ \A k \in 1 .. q : rest[k] = queue[k + 1]
    BY <1>2 DEF Rests
  <1>4. PICK x : x = card.id
    OBVIOUS
  <1>5. /\ i.cursor \in Int /\ (\A y \in i.seen : y \in Int /\ y <= i.cursor)
        /\ \A k \in 1 .. q + 1 : queue[k].id \in Int /\ queue[k].id > i.cursor
        /\ \A k, l \in 1 .. q + 1 : k < l => queue[k].id < queue[l].id
    BY <1>1, <1>3 DEF ByCursor
  <1>6. x \in Int /\ x > i.cursor /\ 1 \in 1 .. q + 1 /\ queue[1].id = x
    BY <1>3, <1>4, <1>5
  <1>7. x \notin i.seen
    BY <1>5, <1>6
  <1>8. Counted(j) /\ (LimitReached(i) => LimitReached(j))
    BY <1>1, <1>4, <1>7, TookCounted
  <1>9. j.cursor = x /\ j.seen = i.seen \cup {x} /\ j.queue = rest /\ Listed(j) = Listed(i)
    BY <1>1, <1>4 DEF Took, Alike, Listed
  <1>10. Ids(queue) = {x} \cup Ids(rest)
    BY <1>2, <1>4, RestIds
  <1>11. \A k \in 1 .. q : /\ k + 1 \in 1 .. q + 1 /\ 1 < k + 1 /\ rest[k] = queue[k + 1]
    BY <1>3
  <1>12. \A k \in 1 .. q : rest[k].id \in Int /\ rest[k].id > x
    BY <1>5, <1>6, <1>11
  <1>13. \A k, l \in 1 .. q : k < l => rest[k].id < rest[l].id
    BY <1>5, <1>11
  <1>14. ASSUME NEW y \in Listed(i), y <= x PROVE y \in j.seen
    <2>1. y \in i.seen \cup Ids(queue)
      BY <1>1, <1>3, <1>6, <1>14 DEF ByCursor
    <2>2. ASSUME y \in Ids(rest) PROVE FALSE
      <3>1. PICK k \in 1 .. q : y = rest[k].id
        BY <1>3, <2>2 DEF Ids
      <3> QED BY <1>6, <1>12, <1>14, <3>1
    <2> QED BY <1>9, <1>10, <2>1, <2>2
  <1>15. ASSUME NEW y \in Listed(i), NEW k \in 1 .. q, y <= rest[k].id
         PROVE  y \in j.seen \cup Ids(rest)
    <2>1. k + 1 \in DOMAIN i.queue /\ y <= i.queue[k + 1].id
      BY <1>1, <1>3, <1>11, <1>15
    <2>2. y \in i.seen \cup Ids(queue)
      BY <1>1, <2>1 DEF ByCursor
    <2> QED BY <1>9, <1>10, <2>2
  <1>16. ASSUME j.short, ~LimitReached(j) PROVE Listed(i) \subseteq j.seen \cup Ids(rest)
    <2>1. i.short /\ ~LimitReached(i)
      BY <1>8, <1>16 DEF Took
    <2>2. Listed(i) \subseteq i.seen \cup Ids(queue)
      BY <1>1, <2>1 DEF ByCursor
    <2> QED BY <1>9, <1>10, <2>2
  <1>17. \A y \in j.seen : y \in Int /\ y <= x
    BY <1>5, <1>6, <1>9
  <1> QED BY <1>3, <1>6, <1>8, <1>9, <1>12, <1>13, <1>14, <1>15, <1>16, <1>17 DEF ByCursor

LEMMA HookTook ==
  ASSUME NEW i, i.limit \in Nat, i.pc = "card", IsSeq(i.queue), i.queue # <<>>,
         Counted(i), ByHook(i), NEW j, Took(i, j)
  PROVE  Counted(j) /\ ByHook(j)
  <1>1. PICK queue, card, rest : queue = i.queue /\ card = Head(queue) /\ rest = Tail(queue)
    OBVIOUS
  <1>2. PICK q \in Nat : Rests(queue, card, rest, q)
    BY <1>1, RestsIs
  <1>3. Len(queue) = q + 1 /\ queue[1] = card /\ IsSeq(rest) /\ Len(rest) = q
    BY <1>2 DEF Rests
  <1>4. Len(queue) = 1 /\ i.start = {queue[1].id} /\ i.seen = {}
    BY <1>1 DEF ByHook
  <1>5. rest = <<>>
    <2>1. Len(queue) = 1
      BY <1>1, <1>4
    <2>2. q + 1 = 1 /\ q \in Nat
      BY <1>2, <1>3, <2>1
    <2>4. q = 0
      BY <2>2
    <2>3. Len(rest) = 0 /\ IsSeq(rest)
      BY <1>3, <2>4
    <2> QED BY <2>3, SeqFacts
  <1>6. Counted(j)
    BY <1>4, TookCounted
  <1>7. j.seen = j.start /\ j.queue = <<>> /\ j.short /\ j.limit = 0 /\ j.pc \in {"card", "upsert"}
    BY <1>1, <1>3, <1>4, <1>5 DEF Took, Alike, ByHook
  <1> QED BY <1>6, <1>7 DEF ByHook

LEMMA NumberTook ==
  ASSUME NEW i, i.limit \in Nat, i.pc = "card", IsSeq(i.queue), i.queue # <<>>,
         NEW list, Cards(i.shop, list), Counted(i), ByNumber(i, list), NEW j, Took(i, j)
  PROVE  Counted(j) /\ ByNumber(j, list)
  <1>1. PICK queue, card, rest : queue = i.queue /\ card = Head(queue) /\ rest = Tail(queue)
    OBVIOUS
  <1>2. PICK q \in Nat : Rests(queue, card, rest, q)
    BY <1>1, RestsIs
  <1>3. /\ Len(queue) = q + 1 /\ DOMAIN queue = 1 .. q + 1 /\ queue[1] = card
        /\ Len(rest) = q /\ DOMAIN rest = 1 .. q /\ \A k \in 1 .. q : rest[k] = queue[k + 1]
    BY <1>2 DEF Rests
  <1>4. PICK f \in Nat, p \in Nat \ {0}, n \in Nat :
          f = i.fetched /\ p = i.page /\ n = Len(list) /\ DOMAIN list = 1 .. n
    <2>1. i.fetched \in Nat /\ i.page \in Nat \ {0}
      BY DEF ByNumber
    <2> QED BY <2>1, ListIs
  <1>5. /\ f + (q + 1) <= n /\ i.seen = FirstIds(list, f)
        /\ \A k \in 1 .. q + 1 : queue[k].id = list[f + k].id
    BY <1>1, <1>3, <1>4 DEF ByNumber
  <1>6. f + 1 \in 1 .. n /\ card.id = list[f + 1].id /\ 1 \in 1 .. q + 1
    BY <1>3, <1>5
  <1>7. card.id \notin i.seen
    <2>1. \A k \in 1 .. f : list[k].id # list[f + 1].id
      <3>1. \A k \in 1 .. f : k \in 1 .. n /\ k # f + 1
        BY <1>6
      <3> QED BY <1>4, <1>6, <3>1 DEF Cards, OnceEach
    <2> QED BY <1>5, <1>6, <2>1 DEF FirstIds
  <1>8. Counted(j) /\ (LimitReached(i) => LimitReached(j))
    BY <1>1, <1>7, TookCounted
  <1>9. /\ j.fetched = f + 1 /\ j.page = p /\ j.queue = rest /\ j.pc \in {"card", "upsert"}
        /\ j.short = i.short /\ j.seen = i.seen \cup {card.id} /\ Listed(j) = Listed(i)
        /\ PageStep(j) = PageStep(i)
    BY <1>1, <1>4 DEF Took, Alike, Listed, PageStep
  <1>10. j.seen = FirstIds(list, f + 1)
    <2>1. 1 .. f + 1 = (1 .. f) \cup {f + 1}
      OBVIOUS
    <2> QED BY <1>5, <1>6, <1>9, <2>1 DEF FirstIds
  <1>11. f + 1 + q <= n /\ f + 1 + q = f + (q + 1)
    BY <1>5
  <1>12. ASSUME NEW k \in 1 .. q PROVE rest[k].id = list[f + 1 + k].id
    <2>1. k + 1 \in 1 .. q + 1 /\ f + (k + 1) = f + 1 + k
      OBVIOUS
    <2> QED BY <1>3, <1>5, <2>1
  <1>13. ~LimitReached(j) =>
           IF j.short THEN Listed(j) \subseteq FirstIds(list, f + 1 + q)
           ELSE f + 1 + q = p * PageStep(j)
    <2>1. ~LimitReached(i) =>
            IF i.short THEN Listed(i) \subseteq FirstIds(list, f + (q + 1))
            ELSE f + (q + 1) = p * PageStep(i)
      BY <1>1, <1>3, <1>4 DEF ByNumber
    <2> QED BY <1>8, <1>9, <1>11, <2>1
  <1>14. j.pc # "page"
    BY <1>9
  <1>15. /\ j.page \in Nat \ {0} /\ j.fetched \in Nat
         /\ j.fetched + Len(j.queue) <= Len(list) /\ j.seen = FirstIds(list, j.fetched)
    BY <1>3, <1>4, <1>9, <1>10, <1>11
  <1>16. \A k \in DOMAIN j.queue : j.queue[k].id = list[j.fetched + k].id
    BY <1>3, <1>9, <1>12
  <1>17. ~LimitReached(j) =>
           IF j.short THEN Listed(j) \subseteq FirstIds(list, j.fetched + Len(j.queue))
           ELSE j.fetched + Len(j.queue) = j.page * PageStep(j)
    BY <1>3, <1>9, <1>13
  <1>18. ByNumber(j, list)
    BY ONLY <1>14, <1>15, <1>16, <1>17 DEF ByNumber
  <1> QED BY <1>8, <1>18

LEMMA CardTaken ==
  ASSUME NEW i, i.limit \in Nat, i.pc = "card", i.queue # <<>>,
         NEW list, Cards(i.shop, list), Gathered(i, list), NEW j, Took(i, j)
  PROVE  Gathered(j, list)
  <1>1. IsSeq(j.queue)
    BY TailFacts DEF Gathered, Took
  <1>2. j.shop = i.shop /\ Ended(j)
    BY DEF Took, Alike, Ended
  <1>3. CASE i.shop = "prom"
    BY <1>1, <1>2, <1>3, PromTook DEF Gathered
  <1>4. CASE i.shop # "prom" /\ ByHook(i)
    BY <1>1, <1>2, <1>4, HookTook DEF Gathered
  <1>5. CASE i.shop # "prom" /\ ByNumber(i, list)
    BY <1>1, <1>2, <1>5, NumberTook DEF Gathered
  <1> QED BY <1>3, <1>4, <1>5 DEF Gathered

LEMMA TakesCollects ==
  ASSUME GoodsInv, GatherInv, NEW r \in Runners, NEW skip, NEW barcode,
         TakeCard(r, skip, barcode), imp[r].queue # <<>>
  PROVE  \E j : Collects(r, j)
  <1>1. PICK i, card : i = imp[r] /\ card = Head(i.queue)
    OBVIOUS
  <1>2. /\ DOMAIN i = DOMAIN NoImport /\ i.limit \in Nat /\ Gathers(i, goods)
        /\ i.pc = "card" /\ i.queue # <<>> /\ i.pc # "idle"
    BY <1>1 DEF GatherInv, Gathers, TakeCard
  <1>3. PICK w : w = WithCard(i, card)
    OBVIOUS
  <1>4. /\ DOMAIN w = DOMAIN NoImport /\ w.pc = i.pc /\ w.shop = i.shop /\ w.limit = i.limit
        /\ w.start = i.start /\ w.gone = i.gone /\ w.page = i.page /\ w.short = i.short
        /\ w.queue = Tail(i.queue) /\ w.fetched = i.fetched + 1 /\ w.cursor = card.id
        /\ w.seen = i.seen \cup {card.id} /\ w.again = (i.again \/ card.id \in i.seen)
    BY <1>2, <1>3, NoImportFields DEF WithCard
  <1>5. PICK j : imp' = [imp EXCEPT ![r] = j] /\ Took(i, j)
    <2>1. CASE skip
      <3>1. imp' = [imp EXCEPT ![r] = w]
        BY <1>1, <1>3, <2>1 DEF TakeCard
      <3>2. Took(i, w)
        BY <1>1, <1>2, <1>4 DEF Took, Alike, Started
      <3> QED BY <3>1, <3>2
    <2>2. CASE ~skip
      <3>1. PICK j : j = [w EXCEPT !.pc = "upsert", !.card = card]
        OBVIOUS
      <3>2. imp' = [imp EXCEPT ![r] = j]
        BY <1>1, <1>3, <2>2, <3>1 DEF TakeCard
      <3>3. /\ DOMAIN j = DOMAIN NoImport /\ j.pc = "upsert" /\ j.shop = w.shop
            /\ j.limit = w.limit /\ j.start = w.start /\ j.gone = w.gone /\ j.page = w.page
            /\ j.short = w.short /\ j.queue = w.queue /\ j.fetched = w.fetched
            /\ j.cursor = w.cursor /\ j.seen = w.seen /\ j.again = w.again
        BY <1>4, <3>1, NoImportFields
      <3>4. Took(i, j)
        BY <1>1, <1>4, <3>3 DEF Took, Alike, Started
      <3> QED BY <3>2, <3>4
    <2> QED BY <2>1, <2>2
  <1>6. Steady(i) /\ Whole(i) => Gathered(j, goods[i.shop])
    <2>1. i.shop \in Shops /\ Cards(i.shop, goods[i.shop])
      BY <1>2 DEF Gathers, GoodsInv
    <2>2. Steady(i) /\ Whole(i) => Gathered(i, goods[i.shop])
      BY <1>2 DEF Gathers, Started
    <2> QED BY <1>2, <1>5, <2>1, <2>2, CardTaken
  <1>7. Gathers(j, goods)
    BY <1>2, <1>5, <1>6, AlikeGathers DEF Took
  <1> QED BY <1>5, <1>7 DEF Collects

(* After a card: the limit empties the page.                                *)
LEMMA CardDone ==
  ASSUME NEW i, i.limit \in Nat, i.pc = "upsert", NEW list, Gathered(i, list),
         Len(list) \in Nat,
         NEW j, Alike(i, j), Untaken(i, j), j.pc = "card", j.page = i.page, j.short = i.short,
         j.queue = i.queue \/ (LimitReached(i) /\ j.queue = <<>>)
  PROVE  Gathered(j, list)
  <1>1. /\ Listed(j) = Listed(i) /\ (LimitReached(j) <=> LimitReached(i))
        /\ PageStep(j) = PageStep(i)
    BY DEF Alike, Untaken, Listed, LimitReached, PageStep
  <1>2. Counted(j) /\ Ended(j)
    BY DEF Gathered, Counted, Ended, Untaken
  <1>3. CASE j.queue = i.queue
    <2>1. ByCursor(i) => ByCursor(j)
      BY <1>1, <1>3 DEF ByCursor, Untaken
    <2>2. ByHook(i) => ByHook(j)
      BY <1>3 DEF ByHook, Untaken, Alike
    <2>3. ByNumber(i, list) => ByNumber(j, list)
      BY <1>1, <1>3 DEF ByNumber, Untaken
    <2> QED BY <1>2, <1>3, <2>1, <2>2, <2>3 DEF Gathered, Alike
  <1>4. CASE LimitReached(i) /\ j.queue = <<>>
    <2>1. IsSeq(j.queue) /\ Len(j.queue) = 0
      <3>1. <<>> \in Seq({}) /\ Len(<<>>) = 0
        OBVIOUS
      <3> QED BY <1>4, <3>1, SeqIsSeq
    <2>2. \A k \in DOMAIN j.queue : FALSE
      BY <1>4
    <2>3. ByCursor(i) => ByCursor(j)
      BY <1>1, <1>4, <2>2 DEF ByCursor, Untaken
    <2>4. ~ByHook(i)
      BY <1>4 DEF ByHook, LimitReached
    <2>5. ASSUME ByNumber(i, list) PROVE ByNumber(j, list)
      <3>1. PICK f \in Nat, q \in Nat, n \in Nat :
              f = i.fetched /\ q = Len(i.queue) /\ n = Len(list)
        BY <2>5, SeqFacts DEF ByNumber, Gathered
      <3>2. f + q <= n
        BY <2>5, <3>1 DEF ByNumber
      <3>3. j.fetched + Len(j.queue) <= Len(list)
        BY <2>1, <3>1, <3>2 DEF Untaken
      <3> QED BY <1>1, <1>4, <2>2, <2>5, <3>3 DEF ByNumber, Untaken
    <2> QED BY <1>2, <2>1, <2>3, <2>4, <2>5 DEF Gathered, Alike
  <1> QED BY <1>3, <1>4

LEMMA TurnsCollects ==
  ASSUME GoodsInv, GatherInv, NEW r \in Runners, imp[r].pc = "upsert", NextCard(r)
  PROVE  \E j : Collects(r, j)
  <1>1. PICK i : i = imp[r]
    OBVIOUS
  <1>2. /\ DOMAIN i = DOMAIN NoImport /\ i.limit \in Nat /\ Gathers(i, goods)
        /\ i.pc = "upsert" /\ i.pc # "idle"
    BY <1>1 DEF GatherInv, Gathers
  <1>3. PICK q : q = IF LimitReached(i) THEN <<>> ELSE i.queue
    OBVIOUS
  <1>4. PICK j : j = [i EXCEPT !.pc = "card", !.card = None, !.queue = q]
    OBVIOUS
  <1>5. imp' = [imp EXCEPT ![r] = j]
    BY <1>1, <1>2, <1>3, <1>4, NoImportFields DEF NextCard
  <1>6. /\ Alike(i, j) /\ Untaken(i, j) /\ j.pc = "card" /\ j.page = i.page
        /\ j.short = i.short /\ j.queue = q
    BY <1>2, <1>4, NoImportFields DEF Alike, Untaken, Started
  <1>7. Steady(i) /\ Whole(i) => Gathered(j, goods[i.shop])
    <2>1. Len(goods[i.shop]) \in Nat
      BY <1>2, ListIs DEF Gathers, GoodsInv
    <2>2. Steady(i) /\ Whole(i) => Gathered(i, goods[i.shop])
      BY <1>2 DEF Gathers, Started
    <2> QED BY <1>2, <1>3, <1>6, <2>1, <2>2, CardDone
  <1>8. Gathers(j, goods)
    BY <1>2, <1>6, <1>7, AlikeGathers
  <1> QED BY <1>5, <1>8 DEF Collects
-----------------------------------------------------------------------------
(* The start and the end of an import.                                      *)
LEMMA FreshStarts ==
  ASSUME NEW j, j = NoImport
  PROVE  Fresh(j) /\ DOMAIN j = DOMAIN NoImport /\ j.limit = 0 /\ j.gone = {}
  BY DEF NoImport, Fresh

LEMMA FreshGathers ==
  ASSUME GoodsInv, NEW j, DOMAIN j = DOMAIN NoImport, j.limit \in Nat, j.shop \in Shops,
         Listed(j) \subseteq Ids(goods[j.shop]), Fresh(j),
         j.pc \in {"backup", "lock", "known", "page"}
  PROVE  Gathers(j, goods)
  <1>1. Cards(j.shop, goods[j.shop])
    BY DEF GoodsInv
  <1>2. j.pc = "page" => Gathered(j, goods[j.shop])
    BY <1>1, Begins
  <1> QED BY <1>2 DEF Gathers, Started

LEMMA StartCollects ==
  ASSUME GoodsInv, NEW r \in Runners, NEW pc, NEW shop, NEW onlyNew, NEW limit,
         Starts(r, pc, shop, onlyNew, limit), pc \in {"backup", "page"}, shop \in Shops,
         limit \in Nat
  PROVE  \E j : Collects(r, j)
  <1>1. PICK n : n = NoImport
    OBVIOUS
  <1>2. PICK j : j = [n EXCEPT !.pc = pc, !.shop = shop, !.onlyNew = onlyNew,
                               !.limit = limit, !.start = CardIds(shop)]
    OBVIOUS
  <1>3. imp' = [imp EXCEPT ![r] = j]
    BY <1>1, <1>2 DEF Starts
  <1>4. Fresh(n) /\ DOMAIN n = DOMAIN NoImport
    BY <1>1, FreshStarts
  <1>5. /\ DOMAIN j = DOMAIN NoImport /\ j.pc = pc /\ j.shop = shop /\ j.limit = limit
        /\ j.start = CardIds(shop) /\ j.page = n.page /\ j.cursor = n.cursor
        /\ j.fetched = n.fetched /\ j.seen = n.seen /\ (j.again <=> n.again)
        /\ (j.short <=> n.short) /\ j.queue = n.queue
    BY <1>2, <1>4, NoImportFields
  <1>6. Fresh(j)
    BY <1>4, <1>5 DEF Fresh
  <1>7. Listed(j) \subseteq Ids(goods[j.shop])
    BY <1>5 DEF Listed, CardIds, Ids
  <1>8. Gathers(j, goods)
    BY <1>5, <1>6, <1>7, FreshGathers
  <1> QED BY <1>3, <1>8 DEF Collects

(* WooCommerce's webhook has its one card at once.                          *)
LEMMA OneIs ==
  ASSUME NEW card PROVE IsSeq(<<card>>) /\ Len(<<card>>) = 1 /\ <<card>>[1] = card
  <1>1. <<card>> \in Seq({card})
    OBVIOUS
  <1>2. IsSeq(<<card>>)
    BY <1>1, SeqIsSeq
  <1> QED BY <1>2

LEMMA HookCollects ==
  ASSUME GoodsInv, NEW r \in Runners, NEW k, ProductWebhook(r, k) PROVE \E j : Collects(r, j)
  <1>1. PICK list, card, q : list = goods["woocommerce"] /\ card = list[k] /\ q = <<card>>
    OBVIOUS
  <1>2. k \in DOMAIN list
    BY <1>1 DEF ProductWebhook
  <1>3. PICK n : n = NoImport
    OBVIOUS
  <1>4. PICK j : j = [n EXCEPT !.pc = "card", !.shop = "woocommerce", !.queue = q,
                               !.short = TRUE, !.start = {card.id}]
    OBVIOUS
  <1>5. imp' = [imp EXCEPT ![r] = j]
    BY <1>1, <1>3, <1>4 DEF ProductWebhook
  <1>6. Fresh(n) /\ DOMAIN n = DOMAIN NoImport /\ n.limit = 0
    BY <1>3, FreshStarts
  <1>7. /\ DOMAIN j = DOMAIN NoImport /\ j.pc = "card" /\ j.shop = "woocommerce"
        /\ j.limit = n.limit /\ j.start = {card.id} /\ j.fetched = n.fetched
        /\ j.seen = n.seen /\ (j.again <=> n.again) /\ (j.short <=> TRUE) /\ j.queue = q
    BY <1>4, <1>6, NoImportFields
  <1>8. j.limit = 0 /\ j.fetched = 0 /\ j.seen = {} /\ ~j.again /\ j.short
    BY <1>6, <1>7 DEF Fresh
  <1>9. Counted(j)
    BY <1>8, FS_EmptySet DEF Counted
  <1>10. IsSeq(q) /\ Len(q) = 1 /\ q[1] = card
    BY <1>1, OneIs
  <1>11. ByHook(j)
    BY <1>7, <1>8, <1>10 DEF ByHook
  <1>12. Gathered(j, list)
    BY <1>7, <1>9, <1>10, <1>11 DEF Gathered, Ended
  <1>13. Listed(j) \subseteq Ids(list)
    BY <1>1, <1>2, <1>7 DEF Listed, Ids
  <1>14. Gathers(j, goods)
    BY <1>1, <1>7, <1>8, <1>12, <1>13 DEF Gathers, Shops
  <1> QED BY <1>5, <1>14 DEF Collects

LEMMA StartsCollect ==
  ASSUME GoodsInv, NEW r \in Runners, ImportStarts(r) PROVE \E j : Collects(r, j)
  <1>1. Limits \subseteq Nat
    BY ImportAssumption
  <1>2. CASE TriggerHoroshopImport(r)
    <2>1. PICK limit \in Limits, onlyNew \in BOOLEAN :
            Starts(r, "backup", "horoshop", onlyNew, limit)
      BY <1>2 DEF TriggerHoroshopImport, StartHoroshopImport
    <2> QED BY <1>1, <2>1, StartCollects DEF Shops
  <1>3. CASE TriggerPromImport(r)
    <2>1. PICK limit \in Limits, onlyNew \in BOOLEAN :
            Starts(r, "backup", "prom", onlyNew, limit)
      BY <1>3 DEF TriggerPromImport, StartPromImport
    <2> QED BY <1>1, <2>1, StartCollects DEF Shops
  <1>4. CASE TriggerWooImport(r)
    <2>1. PICK limit \in Limits : Starts(r, "page", "woocommerce", FALSE, limit)
      BY <1>4 DEF TriggerWooImport, StartWooImport
    <2> QED BY <1>1, <2>1, StartCollects DEF Shops
  <1> QED BY <1>2, <1>3, <1>4, HookCollects DEF ImportStarts

(* Before the first page nothing was taken.                                 *)
SameSoFar(i, j) ==
  /\ j.shop = i.shop /\ j.limit = i.limit /\ j.start = i.start /\ j.gone = i.gone
  /\ j.page = i.page /\ j.cursor = i.cursor /\ j.fetched = i.fetched /\ j.seen = i.seen
  /\ j.again = i.again /\ j.short = i.short /\ j.queue = i.queue

LEMMA FirstStepsCollect ==
  ASSUME GoodsInv, GatherInv, NEW r \in Runners, NEW i, i = imp[r],
         i.pc \in {"backup", "lock", "known"}, NEW j, DOMAIN j = DOMAIN NoImport,
         imp' = [imp EXCEPT ![r] = j], j.pc \in {"lock", "known", "page"},
         SameSoFar(i, j)
  PROVE  Collects(r, j)
  <1>1. Gathers(i, goods) /\ i.pc # "idle"
    BY DEF GatherInv
  <1>2. Fresh(j)
    BY <1>1 DEF Gathers, Fresh, SameSoFar
  <1>3. j.limit \in Nat /\ j.shop \in Shops /\ Listed(j) \subseteq Ids(goods[j.shop])
    BY <1>1 DEF Gathers, Listed, SameSoFar
  <1>4. Gathers(j, goods)
    BY <1>2, <1>3, FreshGathers
  <1> QED BY <1>4 DEF Collects

LEMMA NoneCollects ==
  ASSUME NEW r, imp' = [imp EXCEPT ![r] = NoImport] PROVE \E j : Collects(r, j)
  BY NoImportGathers DEF Collects

LEMMA EarlyCollects ==
  ASSUME GoodsInv, GatherInv, NEW r \in Runners,
         TakeRollbackPoint(r) \/ AcquireLock(r) \/ ReadKnown(r)
  PROVE  \E j : Collects(r, j)
  <1>1. PICK i : i = imp[r]
    OBVIOUS
  <1>2. DOMAIN i = DOMAIN NoImport
    BY <1>1 DEF GatherInv, Gathers
  <1>3. CASE TakeRollbackPoint(r)
    <2>1. PICK j : j = [i EXCEPT !.pc = "lock"]
      OBVIOUS
    <2>2. imp' = [imp EXCEPT ![r] = j] /\ i.pc = "backup"
      BY <1>1, <1>3, <2>1 DEF TakeRollbackPoint
    <2>3. DOMAIN j = DOMAIN NoImport /\ j.pc = "lock" /\ SameSoFar(i, j)
      BY <1>2, <2>1, NoImportFields DEF SameSoFar
    <2> QED BY <1>1, <2>2, <2>3, FirstStepsCollect
  <1>4. CASE AcquireLock(r)
    <2>1. i.pc = "lock"
      BY <1>1, <1>4 DEF AcquireLock
    <2>2. CASE imp' = [imp EXCEPT ![r] = NoImport]
      BY <2>2, NoneCollects
    <2>3. CASE imp' = [imp EXCEPT ![r].pc = "known"]
      <3>1. PICK j : j = [i EXCEPT !.pc = "known"]
        OBVIOUS
      <3>2. imp' = [imp EXCEPT ![r] = j]
        BY <1>1, <2>3, <3>1
      <3>3. DOMAIN j = DOMAIN NoImport /\ j.pc = "known" /\ SameSoFar(i, j)
        BY <1>2, <3>1, NoImportFields DEF SameSoFar
      <3> QED BY <1>1, <2>1, <3>2, <3>3, FirstStepsCollect
    <2> QED BY <1>4, <2>2, <2>3 DEF AcquireLock
  <1>5. CASE ReadKnown(r)
    <2>1. PICK known, old :
            /\ known = IF i.shop = "prom" /\ i.onlyNew THEN KnownSkus(r) ELSE {}
            /\ old = CarriedNow
      OBVIOUS
    <2>2. imp' = [imp EXCEPT ![r].pc = "page", ![r].known = known, ![r].old = old]
      BY <1>1, <1>5, <2>1 DEF ReadKnown
    <2>3. PICK j : j = [i EXCEPT !.pc = "page", !.known = known, !.old = old]
      OBVIOUS
    <2>4. imp' = [imp EXCEPT ![r] = j]
      BY <1>1, <1>2, <2>2, <2>3, NoImportFields
    <2>5. i.pc = "known"
      BY <1>1, <1>5 DEF ReadKnown
    <2>6. DOMAIN j = DOMAIN NoImport /\ j.pc = "page" /\ SameSoFar(i, j)
      BY <1>2, <2>3, NoImportFields DEF SameSoFar
    <2> QED BY <1>1, <2>4, <2>5, <2>6, FirstStepsCollect
  <1> QED BY <1>3, <1>4, <1>5

LEMMA EndCollects ==
  ASSUME NEW r, EndHoroshop(r) \/ EndProm(r) \/ EndWoo(r) \/ FetchFails(r)
  PROVE  \E j : Collects(r, j)
  BY NoneCollects DEF EndHoroshop, EndProm, EndWoo, EndImport, FetchFails
-----------------------------------------------------------------------------
(* The steps of one import: what the shops list only grows.                 *)
LEMMA OwnStepGathers ==
  ASSUME GoodsInv, GatherInv, NEW r \in Runners, ImportOwnStep(r) \/ ImportStarts(r)
  PROVE  GoodsGrow /\ GatherInv'
  <1>1. CASE TakeRollbackPoint(r) \/ AcquireLock(r) \/ ReadKnown(r)
    <2>1. goods' = goods
      BY <1>1 DEF TakeRollbackPoint, AcquireLock, ReadKnown
    <2> QED BY <1>1, <2>1, SameGoods, EarlyCollects, CollectsKeeps
  <1>2. CASE FetchHoroshop(r) \/ FetchProm(r) \/ FetchWoo(r)
    <2>1. goods' = goods
      BY <1>2 DEF FetchHoroshop, FetchProm, FetchWoo, ReadsPage
    <2> QED BY <1>2, <2>1, SameGoods, FetchCollects, CollectsKeeps
  <1>3. CASE NextPage(r)
    <2>1. goods' = goods
      BY <1>3 DEF NextPage
    <2> QED BY <1>3, <2>1, SameGoods, NextPageCollects, CollectsKeeps
  <1>4. CASE TakeHoroshopCard(r) \/ TakePromCard(r) \/ TakeWooCard(r)
    <2>1. PICK skip, barcode : TakeCard(r, skip, barcode)
      BY <1>4 DEF TakeHoroshopCard, TakePromCard, TakeWooCard
    <2>2. imp[r].queue # <<>> /\ goods' = goods
      BY <1>4 DEF TakeHoroshopCard, TakePromCard, TakeWooCard, TakeCard
    <2> QED BY <2>1, <2>2, SameGoods, TakesCollects, CollectsKeeps
  <1>5. CASE MapHoroshopProduct(r) \/ MapPromProduct(r) \/ CardFails(r)
    <2>1. imp[r].pc = "upsert" /\ NextCard(r) /\ goods' = goods
      BY <1>5 DEF MapHoroshopProduct, MapPromProduct, MapProduct, CardFails
    <2> QED BY <2>1, SameGoods, TurnsCollects, CollectsKeeps
  <1>6. CASE WriteBack(r)
    <2>1. imp[r].pc = "upsert" /\ NextCard(r)
      BY <1>6 DEF WriteBack
    <2> QED BY <1>6, <2>1, WriteBackGrows, TurnsCollects, CollectsKeeps
  <1>7. CASE EndHoroshop(r) \/ EndProm(r) \/ EndWoo(r)
    <2>1. goods' = goods
      BY <1>7 DEF EndHoroshop, EndProm, EndWoo, EndImport
    <2> QED BY <1>7, <2>1, SameGoods, EndCollects, CollectsKeeps
  <1>8. CASE ImportStarts(r)
    <2>1. goods' = goods
      BY <1>8 DEF ImportStarts, TriggerHoroshopImport, TriggerPromImport, TriggerWooImport,
         StartHoroshopImport, StartPromImport, StartWooImport, ProductWebhook, Starts
    <2> QED BY <1>8, <2>1, SameGoods, StartsCollect, CollectsKeeps
  <1> QED BY <1>1, <1>2, <1>3, <1>4, <1>5, <1>6, <1>7, <1>8 DEF ImportOwnStep

LEMMA OthersGather ==
  ASSUME GoodsInv, GatherInv, imp' = imp, goods' = goods PROVE GoodsGrow /\ GatherInv'
  BY SameGoods, NobodyCollects

LEMMA FailsGather ==
  ASSUME GoodsInv, GatherInv, NEW r \in Runners, FetchFails(r) \/ WriteBackFails(r)
  PROVE  GoodsGrow /\ GatherInv'
  <1>1. CASE FetchFails(r)
    <2>1. goods' = goods
      BY <1>1 DEF FetchFails
    <2> QED BY <1>1, <2>1, SameGoods, EndCollects, CollectsKeeps
  <1>2. CASE WriteBackFails(r)
    <2>1. imp[r].pc = "upsert" /\ NextCard(r) /\ goods' = goods
      BY <1>2 DEF WriteBackFails
    <2> QED BY <2>1, SameGoods, TurnsCollects, CollectsKeeps
  <1> QED BY <1>1, <1>2

(* The list without its first card.                                         *)
LEMMA ShorterList ==
  ASSUME NEW shop, NEW list, Cards(shop, list), list # <<>>,
         NEW rest, rest = Tail(list)
  PROVE  /\ Cards(shop, rest)
         /\ Ids(list) \ {Head(list).id} \subseteq Ids(rest)
  <1>1. PICK n \in Nat : Rests(list, Head(list), rest, n)
    BY RestsIs DEF Cards
  <1>2. /\ DOMAIN list = 1 .. n + 1 /\ IsSeq(rest) /\ DOMAIN rest = 1 .. n
        /\ \A k \in 1 .. n : rest[k] = list[k + 1]
    BY <1>1 DEF Rests
  <1>3. ASSUME NEW k \in 1 .. n PROVE k + 1 \in DOMAIN list /\ rest[k] = list[k + 1]
    BY <1>2
  <1>4. ASSUME NEW k \in 1 .. n, NEW l \in 1 .. n, rest[k].id = rest[l].id PROVE k = l
    <2>1. k + 1 = l + 1
      <3>1. list[k + 1].id = list[l + 1].id
        BY <1>3, <1>4
      <3> QED BY <1>3, <3>1 DEF Cards, OnceEach
    <2> QED BY <2>1
  <1>5. OnceEach(rest)
    BY <1>2, <1>4 DEF OnceEach
  <1>6. ASSUME shop = "prom", NEW k \in 1 .. n, NEW l \in 1 .. n, k < l
        PROVE  rest[k].id < rest[l].id
    <2>1. k + 1 < l + 1
      BY <1>6
    <2> QED BY <1>3, <1>6, <2>1 DEF Cards
  <1>7. Cards(shop, rest)
    BY <1>2, <1>3, <1>5, <1>6 DEF Cards
  <1>8. Ids(list) = {Head(list).id} \cup Ids(rest)
    BY <1>1, RestIds
  <1> QED BY <1>7, <1>8

(* Prom's import misses nothing of what stays.                              *)
LEMMA LessListed ==
  ASSUME NEW i, i.shop = "prom", NEW old, Gathered(i, old),
         NEW j, DOMAIN j = DOMAIN NoImport, j.pc = i.pc, Untaken(i, j), j.shop = i.shop,
         j.limit = i.limit, j.short = i.short, j.queue = i.queue,
         Listed(j) \subseteq Listed(i), NEW new
  PROVE  Gathered(j, new)
  <1>1. LimitReached(j) <=> LimitReached(i)
    BY DEF LimitReached, Untaken
  <1>2. IsSeq(j.queue) /\ Counted(j) /\ Ended(j)
    BY <1>1 DEF Gathered, Counted, Ended, Untaken
  <1>3. ByCursor(i)
    BY DEF Gathered
  <1>4. ByCursor(j)
    BY <1>1, <1>3 DEF ByCursor, Untaken
  <1> QED BY <1>2, <1>4 DEF Gathered

LEMMA TakenOutGathers ==
  ASSUME GoodsInv, GatherInv, NEW shop \in Shops, TakenOut(shop) PROVE GoodsInv' /\ GatherInv'
  <1>1. PICK list : list = goods[shop]
    OBVIOUS
  <1>2. PICK rest : rest = Tail(list)
    OBVIOUS
  <1>3. PICK x : x = Head(list).id
    OBVIOUS
  <1>4. goods' = [goods EXCEPT ![shop] = rest] /\ list # <<>>
    BY <1>1, <1>2 DEF TakenOut
  <1>5. Cards(shop, list)
    BY <1>1 DEF GoodsInv
  <1>6. Cards(shop, rest) /\ Ids(list) \ {x} \subseteq Ids(rest)
    BY <1>2, <1>3, <1>4, <1>5, ShorterList
  <1>7. /\ goods'[shop] = rest /\ GoodsInv'
        /\ \A s \in Shops \ {shop} : goods'[s] = goods[s]
    BY <1>4, <1>6, ListChanges
  <1>8. imp' = [r \in Runners |-> IF imp[r].shop # shop THEN imp[r]
                                  ELSE [imp[r] EXCEPT !.gone = @ \cup {x}]]
    BY <1>1, <1>3 DEF TakenOut
  <1>9. ASSUME NEW r \in Runners PROVE Gathers(imp'[r], goods')
    <2>1. PICK i, j : i = imp[r] /\ j = imp'[r]
      OBVIOUS
    <2>2. Gathers(i, goods)
      BY <2>1 DEF GatherInv
    <2>3. CASE i.shop # shop
      <3>1. j = i
        BY <1>8, <2>1, <2>3
      <3>2. i.shop \in Shops => goods'[i.shop] = goods[i.shop]
        BY <1>7, <2>3
      <3>3. Gathers(i, goods')
        BY <2>2, <3>2 DEF Gathers, Started
      <3> QED BY <2>1, <3>1, <3>3
    <2>4. CASE i.shop = shop
      <3>1. j = [i EXCEPT !.gone = @ \cup {x}]
        BY <1>8, <2>1, <2>4
      <3>2. /\ DOMAIN j = DOMAIN NoImport /\ j.gone = i.gone \cup {x} /\ j.pc = i.pc
            /\ j.shop = i.shop /\ j.limit = i.limit /\ j.start = i.start /\ j.page = i.page
            /\ j.cursor = i.cursor /\ j.fetched = i.fetched /\ j.seen = i.seen
            /\ j.again = i.again /\ j.short = i.short /\ j.queue = i.queue
        BY <2>2, <3>1, NoImportFields DEF Gathers
      <3>3. Listed(j) = Listed(i) \ {x}
        BY <3>2 DEF Listed
      <3>4. j.pc # "idle" => j.shop \in Shops /\ Listed(j) \subseteq Ids(goods'[j.shop])
        BY <1>1, <1>6, <1>7, <2>2, <2>4, <3>2, <3>3 DEF Gathers
      <3>5. j.pc \in {"backup", "lock", "known"} => Fresh(j)
        BY <2>2, <3>2 DEF Gathers, Fresh
      <3>6. ASSUME j.pc \in Started, Steady(j), Whole(j) PROVE Gathered(j, rest)
        <4>1. j.gone # {}
          BY <3>2
        <4>2. i.shop = "prom" /\ Steady(i) /\ Whole(i)
          BY <3>2, <3>6, <4>1 DEF Steady, Whole
        <4>3. Gathered(i, list)
          BY <1>1, <2>2, <2>4, <3>2, <3>6, <4>2 DEF Gathers
        <4> QED BY <3>2, <3>3, <4>2, <4>3, LessListed DEF Untaken
      <3> QED BY <1>7, <2>1, <2>2, <2>4, <3>2, <3>4, <3>5, <3>6 DEF Gathers
    <2> QED BY <2>3, <2>4
  <1>10. DOMAIN imp' = Runners
    BY <1>8
  <1> QED BY <1>7, <1>9, <1>10, Primed

LEMMA RestartGathers ==
  ASSUME GoodsInv, Restart PROVE GoodsInv' /\ GatherInv'
  <1>1. goods' = goods /\ imp' = [r \in Runners |-> NoImport]
    BY DEF Restart
  <1>2. DOMAIN imp' = Runners /\ \A r \in Runners : Gathers(imp'[r], goods')
    BY <1>1, NoImportGathers
  <1> QED BY <1>1, <1>2, SameGoods, Primed DEF GoodsGrow

LEMMA FaultsGather ==
  ASSUME GoodsInv, GatherInv, ImportFaults PROVE GoodsInv' /\ GatherInv'
  <1>1. ASSUME NEW r \in Runners, FetchFails(r) \/ WriteBackFails(r)
        PROVE  GoodsInv' /\ GatherInv'
    BY <1>1, FailsGather DEF GoodsGrow
  <1>2. CASE imp' = imp /\ goods' = goods
    BY <1>2, OthersGather DEF GoodsGrow
  <1>3. ASSUME NEW r \in Runners, (CategoryFails(r) \/ UpsertFails(r)) /\ UNCHANGED importOnly
        PROVE  imp' = imp /\ goods' = goods
    BY <1>3 DEF importOnly
  <1>4. ASSUME NEW row \in Live, Delete(row) PROVE imp' = imp /\ goods' = goods
    BY <1>4 DEF Delete
  <1>5. CASE Restore
    BY <1>2, <1>5 DEF Restore
  <1> QED BY <1>1, <1>2, <1>3, <1>4, <1>5, TakenOutGathers DEF ImportFaults

LEMMA ExportGathers ==
  ASSUME GoodsInv, GatherInv, ExportInv, NEW r \in Runners,
         ExportStep(r) \/ SendFails(r) \/ ExportStarts(r)
  PROVE  GoodsGrow /\ GatherInv'
  <1>1. CASE SendToHoroshop(r)
    <2>1. imp' = imp
      BY <1>1 DEF SendToHoroshop, Answers
    <2> QED BY <1>1, <2>1, SendGrows, NobodyCollects
  <1>2. CASE imp' = imp /\ goods' = goods
    BY <1>2, OthersGather
  <1>3. CASE ReadHoroshopPage(r) \/ ReadPromPage(r)
    BY <1>2, <1>3 DEF ReadHoroshopPage, ReadPromPage, ReadPage, importVars
  <1>4. CASE FilterHoroshop(r) \/ FilterProm(r)
    BY <1>2, <1>4 DEF FilterHoroshop, FilterProm, FilterByMode, importVars
  <1>5. CASE AskFeed(r)
    BY <1>2, <1>5 DEF AskFeed, importVars
  <1>6. CASE SendToProm(r)
    BY <1>2, <1>6 DEF SendToProm, Answers
  <1>7. CASE PersistHoroshop(r) \/ PersistProm(r)
    BY <1>2, <1>7 DEF PersistHoroshop, PersistProm, Persist
  <1>8. CASE SendFails(r)
    BY <1>2, <1>8 DEF SendFails
  <1>9. CASE ExportStarts(r)
    BY <1>2, <1>9 DEF ExportStarts, TriggerHoroshopExport, TriggerPromExport,
       StartHoroshopExport, StartPromExport, StartExport
  <1> QED BY <1>1, <1>3, <1>4, <1>5, <1>6, <1>7, <1>8, <1>9 DEF ExportStep

LEMMA StepGather ==
  ASSUME CodesInv, ExportInv, GoodsInv, GatherInv, [ExchangeNext]_exchangeVars
  PROVE  GoodsInv' /\ GatherInv'
  <1>1. CASE UNCHANGED exchangeVars
    <2>1. imp' = imp /\ goods' = goods
      BY <1>1 DEF exchangeVars, importVars
    <2> QED BY <2>1, OthersGather DEF GoodsGrow
  <1>2. CASE ExchangeCrash
    BY <1>2, RestartGathers DEF ExchangeCrash
  <1>3. ASSUME NEW r \in Runners, ExportStep(r) \/ SendFails(r) \/ ExportStarts(r)
        PROVE  GoodsInv' /\ GatherInv'
    BY <1>3, ExportGathers DEF GoodsGrow
  <1>4. CASE SendFeed
    <2>1. imp' = imp /\ goods' = goods
      BY <1>4 DEF SendFeed
    <2> QED BY <2>1, OthersGather DEF GoodsGrow
  <1>5. CASE PromReadsFeed
    <2>1. imp' = imp
      BY <1>5 DEF PromReadsFeed
    <2> QED BY <1>5, <2>1, FeedGrows, NobodyCollects DEF GoodsGrow
  <1>6. ASSUME NEW r \in Runners, ImportOwnStep(r) \/ ImportStarts(r)
        PROVE  GoodsInv' /\ GatherInv'
    BY <1>6, OwnStepGathers DEF GoodsGrow
  <1>7. ASSUME NEW r \in Runners, UpsertStep(r), UNCHANGED importOnly
        PROVE  GoodsInv' /\ GatherInv'
    <2>1. imp' = imp /\ goods' = goods
      BY <1>7 DEF importOnly
    <2> QED BY <2>1, OthersGather DEF GoodsGrow
  <1> QED BY <1>1, <1>2, <1>3, <1>4, <1>5, <1>6, <1>7, FaultsGather
          DEF ExchangeNext, ExchangeStep, ImportStep

LEMMA InitGather == ASSUME ExchangeInit PROVE GatherInv
  <1>1. imp = [r \in Runners |-> NoImport]
    BY DEF ExchangeInit, ImportInit
  <1> QED BY <1>1, NoImportGathers DEF GatherInv

(* At its end an import has what was asked for.                             *)
LEMMA EndIsComplete ==
  ASSUME GoodsInv, GatherInv, NEW r \in Runners, NEW i, i = imp[r], i.pc = "end",
         Steady(i), Whole(i)
  PROVE  /\ ~i.again
         /\ i.limit = 0 => Listed(i) \subseteq i.seen
         /\ i.limit # 0 => Cardinality(i.seen) >= Min({i.limit, Cardinality(Listed(i))})
  <1>1. PICK list : list = goods[i.shop]
    OBVIOUS
  <1>2. Gathers(i, goods) /\ i.pc \in Started
    BY DEF GatherInv, Started
  <1>3. Gathered(i, list) /\ i.limit \in Nat /\ Listed(i) \subseteq Ids(list)
    BY <1>1, <1>2 DEF Gathers
  <1>4. Cards(i.shop, list)
    BY <1>1, <1>2 DEF Gathers, GoodsInv
  <1>5. ~i.again /\ IsFiniteSet(i.seen) /\ Cardinality(i.seen) = i.fetched
    BY <1>3 DEF Gathered, Counted
  <1>6. LimitReached(i) \/ Listed(i) \subseteq i.seen
    BY <1>3 DEF Gathered, Ended
  <1>7. i.limit = 0 => Listed(i) \subseteq i.seen
    BY <1>6 DEF LimitReached
  <1>8. ASSUME i.limit # 0
        PROVE  Cardinality(i.seen) >= Min({i.limit, Cardinality(Listed(i))})
    <2>1. IsFiniteSet(Listed(i))
      BY <1>3, <1>4, IdsOf, FS_Subset DEF Listing
    <2>2. PICK n \in Nat, c \in Nat, m \in Nat :
            n = Cardinality(Listed(i)) /\ c = Cardinality(i.seen) /\ m = i.limit
      BY <1>3, <1>5, <2>1, FS_CardinalityType
    <2>3. Min({m, n}) = IF m <= n THEN m ELSE n
      BY LeastOf
    <2>4. CASE LimitReached(i)
      <3>1. c >= m
        BY <1>5, <2>2, <2>4 DEF LimitReached
      <3> QED BY <2>2, <2>3, <3>1
    <2>5. CASE Listed(i) \subseteq i.seen
      <3>1. n <= c
        BY <1>5, <2>2, <2>5, FS_Subset
      <3> QED BY <2>2, <2>3, <3>1
    <2> QED BY <1>6, <2>4, <2>5
  <1> QED BY <1>5, <1>7, <1>8

(* An import that ends by itself has taken every card that was listed       *)
(* throughout, once, or as many as its limit allows, for any lists, pages   *)
(* and limits, whatever other imports, webhooks and exports put at the end  *)
(* of the lists (getProducts' last_id, exportCatalog's and                  *)
(* importAllProducts' pages by number).                                     *)
THEOREM ImportsAreComplete == ExchangeSpec => ImportComplete
  <1>1. ExchangeInit => CodesInv /\ ExportInv /\ GoodsInv /\ GatherInv
    BY InitCodes, InitExport, InitGoods, InitGather
  <1>2. CodesInv /\ ExportInv /\ GoodsInv /\ GatherInv /\ [ExchangeNext]_exchangeVars =>
          (CodesInv /\ ExportInv /\ GoodsInv /\ GatherInv)'
    BY StepCodes, StepExport, StepGather
  <1>3. GoodsInv /\ GatherInv =>
          [\A r \in Runners :
             LET i == imp[r]
                 listed == i.start \ i.gone
                 steady == i.shop = "prom" \/ i.gone = {}
                 whole == i.shop # "woocommerce" \/ i.limit <= PageSize
                            \/ i.limit % PageSize = 0
             IN i.pc = "end" /\ imp'[r].pc = "idle" /\ left' = left /\ steady /\ whole =>
                  /\ ~i.again
                  /\ i.limit = 0 => listed \subseteq i.seen
                  /\ i.limit # 0 =>
                       Cardinality(i.seen) >= Min({i.limit, Cardinality(listed)})]_importVars
    BY EndIsComplete DEF Listed, Steady, Whole
  <1> QED BY <1>1, <1>2, <1>3, PTL DEF ExchangeSpec, ImportComplete
=============================================================================
