# TLA+ verification of limansoft web API

The server (`src/src`, a NestJS application) is a gateway of many tenants
between the Limansoft accounting database of each tenant (MariaDB) and the shops
Prom.ua, Horoshop, Rozetka and WooCommerce. It imports and exports catalogues,
sends prices and stock to the shops, takes orders from them and deducts their
products from stock, and makes and restores backups of the product tables. A React
client (`src/client`) edits the tenants and starts the jobs; a WordPress plugin
(`src/packages/limansoft-sync-woocommerce`) announces orders and products and has
an import of its own.

This directory has TLA+ modules translated from the source, instances
that TLC checks, and theorems that TLAPS proves. `PROJECT.json` lists, for every
definition, the source lines it stands for.

    tlc -workers 2 -config TenantOpsSafety.cfg MCTenantOps     (see "Runs")
    for m in *_proofs.tla ; do tlapm $m ; done                  (see "Theorems")

## 1. Inventory

Paths are under `src/src/modules` unless they begin with `src/`. "Hard" is what
a unit test would hardly reach.

### Backups and the tenant lock (`backup/`)

*State*: the Redis key `lock:tenant:{id}:busy` (SET NX PX, five minutes), the
tenant's directory of `.sql.gz` files, the product tables.
*Operations*: createBackup, restoreBackup, deleteBackup, rotation; the Horoshop
and Prom imports take the same key (`horoshop-import.processor.ts`,
`prom-import.processor.ts`), the WooCommerce import writes the same tables
without it.
*Hard*: the key expires under a long operation and the release is
unconditional; the reply to SET NX is lost; a dump reads its tables one after
the other; a dump that is half written when the process dies; a restore that
fails in the middle, and whose DDL cannot be rolled back; a parser that has to
find the ends of statements.
*Correct when*: operations never overlap and release only their own key; the key
always goes away; a backup is a copy of one instant; a restore that says success
is exact; rotation drops only the oldest; a failed restore does no harm.

### Order intake and stock deduction (`liman/liman-order.service.ts`, webhook and sync services)

*State*: the in-memory set of processed order ids, `name2ost` (stock), the
document counter `ndok` and the draft documents.
*Operations*: order webhooks of four shops, polls by the schedulers or by
`POST sync/orders`, deduction line by line (mode 1) or in a document (mode 2).
*Hard*: repeated and late webhooks that race polls; restarts, which empty the
set; the set at its limit; SELECT and UPDATE of two orders interleaved; two
documents at once under REPEATABLE READ; an order that is remembered and then
fails.
*Correct when*: no line is deducted twice, no order is lost, stock is initial
stock less what was deducted, numbers of documents are unique.

### Schedulers and stock queue (`prom/prom-scheduler.service.ts`, `horoshop/horoshop-scheduler.service.ts`, `queue/`)

*State*: `tenant.lastSyncAt`, `isTickRunning`, the BullMQ queue `sync-stock`.
*Operations*: a tick per minute and shop, adding a job, taking, failing,
retrying and finishing it, `POST sync/stock`, the administrator's retry.
*Hard*: two schedulers that share one time stamp; retries that read stale pages;
a restart inside a job; a tick that throws.
*Correct when*: the stock of a shop becomes right and stays right once it no
longer moves, and never goes backwards.

### Price and stock passes (`*-sync.service.ts`, `LimanService.getProducts`)

*State*: none of their own but the loop's locals; `product_mappings`.
*Operations*: page by page, SELECT with LIMIT and OFFSET, one request to the
shop, mappings.
*Hard*: the catalogue changes between pages, the last page is shorter, a request
fails and the loop goes on, two passes overlap.
*Correct when*: a pass over a catalogue at rest requests every product exactly
once, and mappings say synced only for what the shop took.

### Catalogue import (`*-import.*`, `LimanService.upsertProductFromExternal`, `tenant/product-mapping.service.ts`)

*State*: the product tables `name2`, `strihcod`, `name`, the category cache, the
rows of `product_mappings`, the loop's locals.
*Operations*: the imports of Horoshop and Prom (under the tenant's key), the import of
WooCommerce and its product webhook (without it), each card by card.
*Hard*: the match and the category are settled before the transaction begins; the
next code is `MAX(tcod)+1`; a new category's code is chosen one await before its
INSERT; the cache outlives a restore; the set of known SKUs is read once.
*Correct when*: no code twice, a barcode leads to one product, each product is filed
under a category that exists, only_new rewrites nothing, no card is skipped.

### Catalogue export (`*-export.processor.ts`, `prom/prom-feed.*`)

*State*: the loop's locals, the mappings.
*Operations*: read the catalogue page by page, filter by mode, send in chunks,
store mappings; ask Prom to read the feed.
*Hard*: the LIMIT of the last page, lost and partly refused requests, only_new
that trusts the mappings, imports at the same time.
*Correct when*: what the mode asks for is sent once, and a mapping says what the
shop said.

### Tenants, keys, integrations and pools (`tenant/`, `src/src/common/guards`, `liman/tenant-connection-manager.service.ts`)

*State*: the tenants' rows, `tenant_integrations`, one pool per tenant id, the
forms that are open in browsers.
*Operations*: create, update, rotate the key, remove; the seeding and the migration from
SQLite at a start; find-or-create of an integration; getPool; six forms, each of which
sends other fields.
*Hard*: every handler saves the whole row it loaded an await earlier; forms send
masks and old values back; the migration and the first requests create rows at
once; pools outlive the settings they were made from.
*Correct when*: a row is what its users meant, a key opens its own tenant only and
a replaced one nothing, one integration per platform, a pool serves the database
its row names.

### Tokens (`horoshop/horoshop-auth.service.ts`, `rozetka/rozetka-auth.service.ts` and their clients)

*State*: one cached token per tenant.
*Hard*: several calls renew at once, a refused call clears a token that another has
just stored, tokens are revoked under way.
*Correct when*: no call carries a token that grew too old, and one revocation never fails a
call that was allowed to log in again.

### WooCommerce client (`woocommerce/woocommerce-api.client.ts`)

*State*: the map from SKU to card, shared by all passes for ten minutes.
*Hard*: a map of which a page failed, cards that come and go, batches whose
answer refuses single cards.
*Correct when*: a product counted as synced was written.

### The client's windows (`src/client/src/components/portal`, `queue/sync.service.ts`)

*State*: the timer, the report and the job a window watches.
*Hard*: `setInterval` does not wait for the answer before; answers overtake each other.
*Correct when*: a window shows the job it started last, as it ended.

### WordPress plugin (`src/packages/limansoft-sync-woocommerce`)

*State*: the orders' flags, the lock on a card, the cards its own import makes.
*Hard*: PHP requests run beside each other and die; the lock drops changes; the
clean-up deletes by lists it read before.
*Correct when*: each paid order is announced, the last change of a card arrives, no
SKU loses its last card.

### Not modelled

* Alerts (`alert/`): Telegram is pure I/O; the throttling is sequential and nothing
  depends on it.
* The feeds of Rozetka and Horoshop, media, activity log: read only.
* `updateStock` of `liman-stock.controller.ts` (one UPDATE), the pictures and descriptions
  of products, prices (a version number in `CatalogPass`).
* The client's display, filters and translations; the plugin's stock
  synchronization, cron schedule and collector of pictures.

### How the parts interact

Schedulers and controllers put jobs into Redis; workers in the same process run
them. Workers, webhooks and HTTP requests share, without any lock, the tenant's
MariaDB, the tenant's row with `lastSyncAt`, the mappings and the in-memory caches. The key of
the tenant is the only lock across requests, the row of `ndok` the only one
across transactions. Everything in one process is asynchronous: code runs
undisturbed between two awaits, and anything may happen at an await. So a step of
the models is the code between two awaits that matter.

## 2. Modules

| Module | Models | Extends / uses |
|---|---|---|
| `TenantOps` | key, backup, restore, imports as users of the key, rotation, crashes | `SnapshotStore` by refinement |
| `SnapshotStore` | abstract: archives are instantaneous copies | |
| `TenantOps_proofs` | theorems about `TenantOps`, its refinement of `SnapshotStore` included | |
| `RestoreScript` | text of a dump, its parser, its execution with MariaDB's implicit commits | |
| `RestoreScript_proofs` | theorems about `RestoreScript` | |
| `OrderIntake` | webhooks, polls, cache, deduction, documents | |
| `OrderIntake_proofs` | theorems about `OrderIntake` | |
| `Ranks` | the members of a finite set in order: ORDER BY tcod, Prom's list by number | |
| `CatalogPass` | the paging loops of the four shops | extends `Ranks` |
| `SyncQueue` | schedulers, queue, worker, passes in HTTP requests | extends `CatalogPass` |
| `SyncQueue_proofs` | theorems about `SyncQueue` and its passes | |
| `ProductUpsert` | one product of a shop becomes one of Limansoft: match, category, transaction | |
| `ProductMappings` | rows of `product_mappings` and their unique keys | |
| `CatalogImport` | the three imports, the product webhook, restore and deletion beside them | extends the two above and `Ranks` |
| `CatalogExport` | the two exports and Prom's feed, beside the imports | extends `CatalogImport` |
| `CatalogExchange_proofs` | theorems about `CatalogExport` and all below it | |
| `Registry` | tenants' rows, forms, keys, integrations, pools | |
| `Registry_proofs` | theorems about `Registry` | |
| `ShopTokens` | the cached tokens of Horoshop and Rozetka | |
| `SkuMap` | WooCommerce's map from SKU to card and the split by it | |
| `JobWatch` | windows that watch a job | |
| `ShopClients_proofs` | theorems about `ShopTokens`, `SkuMap` and `JobWatch` | |
| `PluginOrders`, `PluginCards`, `PluginCatalog` | the plugin's order hooks, product hooks, own import and clean-up | |
| `Plugin_proofs` | theorems about the three | |
| `MCParts` | the parts that share no state, one at a time | `RestoreScript` and the seven above |
| `MC*` | constants of the instances | |

### TenantOps

`lock` is the Redis key. Its value is the operation that set it; the code stores
a constant, and no step tests whose key it is, which is the point of
`OnlyOwnKeyDeleted`. `pc` and `loc` are the position and the locals of each
operation. `files` is the directory; a file exists from `createWriteStream`
(`OpenFile`) on and is complete after `CloseFile`. A table's content is the number of
the last product transaction in it, or `Lost` (no such table, or skipped) or
`Cut` (a page failed and the rest was left out). `AcquireLock` has three
outcomes: taken, refused, and taken while the caller is told that it is busy (the
connection to Redis drops and the client sends the command again). `ReleaseLock`
is the DEL of every `finally`. An import job first makes a backup, which takes
and releases the key, and then takes the key for itself; between the two another
operation may get it, and then the attempt fails and BullMQ runs it again.
`RestoreTable` abstracts `RestoreScript`: per table, one of created, skipped,
error. `ReadMissingArchive` is the read stream without an error listener: the
process dies of a file deleted after the check. Outside events
(`Events`, bounded by `MaxEvents`): a lost table, a crash, a lost reply of
Redis, a failing query, an ageing file, a deleted file.

`torn` records that a WooCommerce import wrote during a backup. It is history: no
guard reads it.

### RestoreScript

A line of the dump is a record of its kind, its table, its rows, whether it ends
with a semicolon and which quote states of the parser it reverses
(`flips`). `AddLine` is one line of `parseSqlStatements`, and `ParseSqlStatements` the
recursive function that begins with `Unparsed` and adds line after line. The kinds that matter:
a comment has no semicolon, so it and the DROP TABLE below it are one statement,
which begins with `--` and is skipped; a warning holds an error message, whose
apostrophes may leave the parser in the wrong quote state. `Results` says what
MariaDB answers; `Executed` and `RolledBack` keep apart what other connections
see (`db`) and what the restoring one sees (`tx`), because data definition
statements commit implicitly and what follows them is committed by itself.

### OrderIntake

A worker is one delivery of a webhook or one polling loop. `cache` is
`processedOrderCache` in insertion order. `OrderWebhook` and `NextOrder` remember the
order before the first await; `Unchecked` orders by-pass the cache (all of
Rozetka, and webhooks whose payload has no id). `ReadStock` and `WriteStock` are
the SELECT and the UPDATE of `deductStock`; `BeginDocument` .. `Commit` are the
transaction of `createOrderDocument`, with the row lock on `ndok`, the snapshot
of the first plain SELECT and the row locks of its UPDATEs. A poll reads the
integration (`FindPollIntegration`), asks for one page of `PageSize` pending orders
(`Pages`: which of them the shop lists first is its own affair), and goes through it
with `SkipOrder`, `TakeOrder` and `EndPoll`, the three outcomes of its loop. History
variables: `marked`, `forgotten`, `applied`, `overlapped`.

An order that is pending and remembered is listed again by every poll. So a page of
`PageSize` has to hold all pending orders if each is to be taken: with `PageSize = 1` and
two pending orders TLC refutes `PendingGetsDeducted`, since the shop may list the same one
for ever.

### CatalogPass and SyncQueue

`pass[r]` is the loop of runner `r` (a worker or an HTTP request). `Size` and `Offset` are the
LIMIT and OFFSET of the next page as each shop's loop computes them; `More` is the test at its
end. `SendPage` is the request and the writing of the mappings, `FailPage` the request that
fails, after which the loop goes on. A product the shop does not know is in `Unlisted`. Prices
and stock are one version number per product.

`SyncQueue` adds the two schedulers (a tick is four steps, `CronTick`, `ProcessTenant`,
`StampTick`, `EndTick`), the queue with attempts, backoff, kept failures and stalled jobs, one
worker at a time, and the users. A pass of a job writes `lastSyncAt` at its end (`StampPass`)
and the job again (`FinishJob`); a pass in a request writes it if its shop has a scheduler
(`EndRequest`) and not otherwise (`EndUnstamped`). `age` is the number of minutes since
`lastSyncAt`, which both schedulers read and which the scheduler of Horoshop, every pass of Prom
or Horoshop and every finished job reset.

### ProductUpsert, ProductMappings, CatalogImport, CatalogExport

They are one system: `CatalogExport` extends the others and `ExchangeNext` lets
imports, webhooks, exports, restores and deletions interleave over the same tables.
`up[r]` is where runner `r` stands in `upsertProductFromExternal`: `Match` (reads),
`FindCategory`, `FindNode` and `InsertNode` (one level of the category each),
`UpdateProduct`, or `TakeCode` and `InsertProduct`, between which `maxLock` stands for
the rows that `SELECT MAX(tcod) ... FOR UPDATE` locks. `imp[r]` is the loop of an import,
`exp[r]` that of an export; a runner executes one of them. An identifier is an integer:
positive ones are numbers, which the code may take for product codes, negative ones text.
A category code is a sequence of two-digit numbers. `Event` counts what goes wrong: a
failing query, a restore of the rollback point, a deleted product, a failing or changing
shop, a restart. The mappings of an export are saved row by row (`exp[r].row`), so that an
import, a restart or a failing query may come between two rows of one answer. A category
whose parent has no number left (`UsedUp`) gets digits of the clock, which may be in use;
`racedGroups` has those codes too. History, read by properties only: `contested` (identifiers two
upserts had in hand at once, or that led to two products already), `racedGroups`,
`lostGroups`, `lostCodes`, `writes`, `answered`, `moved` (the exports during whose reading of the
catalogue a product came or went) and the cards taken out since an import began
(`imp[r].gone`).

### Registry

`rows` holds the tenants as TypeORM saves them. A handler is two steps, the load into
`req[p].row` and the save of that row with the fields of the request over it; the two processes
of a start, `Seed` and `Migration`, run beside the handlers. A form remembers what it was shown
(`Masked`, `Sanitized`, or the row itself after `Reveal`) and sends back what that form sends
(`Submits`, `ModalPayload`); `Accepted` is the DTO. `Unmasked` is the test against both masks.
`meant` follows what each user changed; `raced` has the tenants that two handlers or forms had
in hand at once, for which the last save wins.

### ShopTokens, SkuMap, JobWatch

`ShopTokens` counts time in steps of 30 seconds, which are the timeout of a call.
A behaviour is about one of the shops; they differ in `Fresh` (expiry with or
without margin), `Dropped` and what a 401 does (Horoshop repeats the call once, Rozetka
reports it). `SkuMap` has the maps as objects, since a pass keeps the one it got
after another replaced it. `JobWatch` has both ways the client polls: a modal with one
timer reference, a button with a timer, promise and watchdog of its own; the server's answer is
two reads (`ReadRecord`, `ReadState`). `MayStart` and `MayReset` are the buttons that the window
shows: a modal offers its start again only after its report was put away.

### PluginOrders, PluginCards, PluginCatalog

A PHP request is a script with a program counter; WordPress and WooCommerce are
external and modelled from how the plugin calls them. In `PluginOrders` a request
loads the order, saves it and runs its two hooks. In `PluginCards` a save runs the
hook, which tests and sets the lock (two steps), and the server reads, imports and
writes the SKU back. In `PluginCatalog` tasks make cards group by group and language by
language, others clean up, and any of them may die.

## 3. Runs

Passing runs:

| Run | Instance | Shows |
|---|---|---|
| `tenant_safety` | one backup, one restore, one import with two attempts, WooCommerce items; 2 tables, 1 kept file, 1 product transaction, 1 event of any kind | `MutualExclusion`, `OnlyOwnKeyDeleted`, `DumpIsSnapshot`, `RestoreExact`, `RotationKeepsNewest`, `ImplementsSnapshots` |
| `tenant_live` | the same without WooCommerce, 1 table, fair | `KeyFreed`, `OpsSettle` |
| `order_safety` | 2 webhooks, 1 poll, 3 orders over 2 products (one product on two lines of an order), two with documents, one of Rozetka, cache of 1, 1 crash or failing query | `DeductedOnce`, `RecentNeverRepeated`, `StockExact`, `DocNumbersUnique`, `DocumentsSerialize` |
| `order_live` | 1 webhook, 1 poll, 2 orders, 1 crash, fair | `PendingGetsDeducted` |
| `sync_passes` | 2 jobs and 1 pass over HTTP to any shop with limit 0 or 1; 3 products, batches of 2, 1 change, 1 event | `CompletePass`, `MappingSound`, `NoStaleOverwrite` |
| `sync_live` | Horoshop scheduled, a job of Prom by hand, 3 products, 1 change, 1 event, fair | `ShopConverges` |
| `exchange` | two runners; any two imports, product webhooks, exports or requests for the feed, with limit 0 or 1; 2 products, 4 cards in 3 shops, new categories of one to three levels of which two fit, 1 event | `CodesUnique`, `OneProductPerBarcode`, `FiledUnderACategory`, `CategoryCodesDistinct`, `MappingsTellTheShop`, `OnlyNewKeepsOld`, `ImportComplete`, `ExportComplete` |
| `parts` | eight parts, one at a time; see below | script: `RestoreFaithful`, `NothingRemoved`, `FailureLeavesPrefix`; registry: `SettingsKept`, `KeysOpenTheirTenant`, `OneIntegration`, `PoolsServeTheirTenant`; tokens: `AgeNeverRefused`, `OneRefusalIsHidden`; windows: `OneJobShown`; SKU map: `SyncedIsWritten`; plugin: `OrdersAnnounced`, `CardChangesArrive`, `CleanupKeepsSkus` |

The parts of `parts` share no variable. `MCParts` chooses one of them (`part`) and lets the
others rest in one initial state, so that the run is the sum of eight small ones and not their
product. Its instances: *script*, 3 tables of up to 2 rows, pages of 1 row, 1 failing query, 1
change before the restore; *registry*, 2 tenants, one of them in the old SQLite file, 2
handlers, 2 databases, 2 secrets, 3 requests or forms; *tokens*, 2 calls, 1 revocation, 1
transient error, a life of 5 steps; *watch*, 2 jobs, 2 questions on their way; *skus*, 2 passes,
2 products on 2 pages, 2 maps, 1 change by others; *orders*, 1 order, 2 requests at once, 4 in
all; *cards*, 2 cards, 3 requests, 3 saves; *catalog*, 3 products in 2 groups, two of one name,
2 tasks at once, 3 in all, 5 cards.

Runs in which TLC finds what a document promises violated:

| Run | Counterexample |
|---|---|
| `script_guarantee` | A whole dump restored over the very database it was taken from fails: no DROP TABLE is ever sent, CREATE TABLE finds the table (HOWITWORKS.md:1319). |
| `order_lost` | A query fails after the order was remembered; every later delivery and poll takes it for a duplicate (HOWITWORKS.md:941). |
| `sync_tail` | The last product of a catalogue that is not a whole number of batches never reaches Prom, in any pass (TASK-09:28). |
| `exchange_reimport` | With a fifth card: one whose article is a number and that has no barcode is inserted again by the next only_new import (TASK-22:120). |

### What the properties except

Several invariants hold except where the code itself has no answer, and the exception is a
history variable, so that it is no wider than that: two handlers on one tenant (`raced`), two
first look-ups of an integration (`doubled`), a database changed since the start (`moved` of
`Registry`), identifiers that two upserts hold at once, that led to two products at the start,
that belong to two products and stand on one card, or that a match held when a restore came
(`contested`), codes of products a restore took away (`lostCodes`), products that come or go
while an export reads the catalogue page by page (`moved` of `CatalogExport`), category codes
two upserts choose at once (`racedGroups`), groups a restore takes from under the cache
(`lostGroups`), two deductions of one product that overlap (`overlapped`), a catalogue that
changes during a pass (`disturbed`), a login that crosses a revocation (`overtaken`), a card
that others create or delete (`excused`), a script that dies (`unheard`, `missed`), the third
card of one title (`spoiled`). Each of them is reached in its run (but for two products of one
identifier at the start), and section 6 lists those that matter as what the code does.

### Bounds, and why they are enough

* *Events* happen once per behaviour. Every single failure is met at every
  step, which is where the code's error paths differ. Two independent failures
  are not explored.
* *Actors*: the races are between two operations, of a kind or of two kinds; every
  kind is there at least once, and where one kind races itself (backups under an
  expired key, webhooks, documents, jobs) it is there twice. `TenantOps_proofs`
  covers any number for the key.
* *Exchange*: two runners are what a race needs, and three shops make every pair of
  different loops possible. Pages of one card and a catalogue of two products in batches of two
  give full, short and empty pages; a limit of 1 ends inside a page. `Width = 1` and
  `Depth = 2` make the numbers of a parent run out; a cache of one entry evicts.
* *Parts*: three requests let a form be opened, overtaken and submitted; two maps let a
  pass hold an old one; three scripts are a change, its echo and one more; three tasks are
  two imports and a clean-up, or the reverse, and five cards a title three times over with its
  language pairs.
* *Tables and pages*: two tables let a writer come between them; three tables
  let a restore fail with one before and one after. One row per page gives two
  pages. Three products in batches of two give a whole and a short page; a change
  to two products gives the catalogue of whole batches that the counting loops
  need for `CompletePass`.
* *Limits at their edge*: a cache of one entry, one kept backup, one kept failed
  job, two attempts.
* *Counters*: `MaxVersion`, `MaxChanges`, `MaxAdded`, `MaxJobs` are guards. The queue
  has room for `MaxJobs` jobs, and adding to a full one waits; the real
  queue has no bound.
* `sync_passes` identifies its two workers and `exchange` its two runners by symmetry; they
  have no liveness property.

Deadlock is not checked: every instance stops when its requests are answered
and its bounds are used up.

### Fairness

* `TenantOps`: weak fairness of each operation's own steps and of the expiry of
  the key: the event loop goes on with what it has begun, BullMQ hands out what it has queued,
  Redis keeps its clock. A product transaction of an import (`ImportItem`) and
  the outside events are not fair; `EndImport` is, since the loop over pages ends.
* `OrderIntake`: weak fairness of each worker's steps, which includes the
  scheduler's poll. Nobody has to deliver a webhook or to place or close an order.
* `SyncQueue`: weak fairness of the minute, the backoff timer, each step of a tick
  and the worker's steps. No user has to do anything and no query has to fail.

## 4. Theorems

Each theorem holds for every value of the constants that satisfies the ASSUMEs of its module,
which the passing runs evaluate. Of the 40 properties that the passing runs check, 36 are
theorems: all but the four of liveness. The argument is the same everywhere: an inductive
invariant, checked by TLC on an instance first, that holds initially, is preserved by every
action (one lemma or step per action, or per kind of action where many actions do the same to
the variables in question), and implies the property. What follows says which invariant, and why
the property alone is not inductive.

### `TenantOps_proofs`

All but `TypeCorrect` assume `~OutlivesTTL`: no operation runs longer than the key lives. The
assumption is necessary for the first two, which TLC refutes without it (section 6).

* `TypeCorrect` (`TypeOK`). A dump reads the table `loc[p].cur`, which must exist, so
  `CursorInv` adds: an operation that still has a table to handle has `cur <= NT`, and one
  that has not begun has `cur = 1`.
* `Exclusion` (`MutualExclusion`), `OwnKeyOnly` (`OnlyOwnKeyDeleted`). `KeyInv`: whoever
  believes that it holds the key is the one whose SET created the key that exists now. SET
  NX keeps it because there is no key; DEL because it is the holder's own; expiry by
  the assumption; a crash because it takes every holder with it.
* `DumpsAreSnapshots` (`DumpIsSnapshot`), `RestoresAreExact` (`RestoreExact`),
  `RotationIsRight` (`RotationKeepsNewest`), from `ArchiveInv`. What a dump has read is what
  the database holds now (`DumpInv`), since only a WooCommerce item writes without the key
  and then `torn` is set; what is in the file is what was read (`FileInv`); a restore has
  brought back the tables before its cursor, or the table at its cursor exists (`ExecInv`).
  The second case is what a WooCommerce item leaves behind: it can write only when every
  table exists, and then the next CREATE TABLE fails, so that no such restore reports
  success. So `RestoreExact` needs no exception for that import, although it ignores the
  lock. Rotation needs `DirInv`: names and times come from one clock, so files
  are ordered, and an injection from the kept files bounds their number.
* `SnapshotsImplemented` (`ImplementsSnapshots`): initial states map to initial states,
  and every step to a step of `SnapshotStore` or a stutter. `ArchiveInv` is what
  makes the step that completes a file a `Snapshot` of the database.

### `RestoreScript_proofs`

For any sequence of distinct tables, any finite set of rows, any page size, any number of failing
queries and changes:

* `RestoresAreFaithful` (`RestoreFaithful`), `RestoresRemoveNothing` (`NothingRemoved`),
  `FailuresLeaveAPrefix` (`FailureLeavesPrefix`), from `RestoreInv`.

The proof has three parts. *The parser*: whatever lines it gets of which each DROP TABLE
follows a comment and each literal is closed, every statement it returns begins with a line of
the text, in order, and none with a DROP; if the quotes of all warnings are balanced, every
CREATE and INSERT begins a statement (`Statements`). This is an induction over the lines.
The library's induction theorems take an operator as a parameter, which the
provers cannot instantiate, so it is done with the least line a statement fails for: `LeastNumber`
follows from the well-foundedness of `<` on `Nat`, which is stated with a set, and `UpTo` from
it. *The text*: `TextInv` says that a dump is such a text, whose tables come in the order
of `Tables`, with START TRANSACTION before the first CREATE TABLE. *The restore*: while the
statements are sent, the first `n` of them have been, and what they have built (`Built`) is
what the restoring connection sees; if the quotes are balanced, others see it as well,
because the transaction is over once the first table is created, so that a rollback takes nothing
back. `Kept` needs no such condition: nothing that is sent removes anything.
The whole script gives `RestoreFaithful` (`BuiltAll`), a part of it `FailureLeavesPrefix`
(`BuiltPrefix`: the last statement with content tells the table it failed at).

### `OrderIntake_proofs`

For any deliveries, polls, orders, lines, shops' modes, page and cache sizes and events:

* `TypeCorrect`: every variable has its type, and `FlowInv`: a worker at a step of an order
  has that order, its mode and only its lines in hand.
* `NumbersUnique` (`DocNumbersUnique`). `LockInv`: a worker between SELECT ... FOR UPDATE and
  COMMIT is the one that holds the row of `ndok`, and the number it read is the next one;
  no document has a number above the counter.
* `Serialized` (`DocumentsSerialize`): no snapshot of a transaction that is still to
  deduct is older than the last document, since the snapshot is taken under the lock.
* `CacheForgetsLate` (`RecentNeverRepeated`). `CacheInv`: the cache is the end of what was
  remembered since the start, without repetition, and all of it until it is full.
* `NeverDeductedTwice` (`DeductedOnce`). `OnceInv`: an order that the cache has not lost is in
  the hands of at most one worker, which has deducted nothing of what is still ahead of
  it, and nothing was deducted of an order that is not remembered.
* `StockIsExact` (`StockExact`). `ExactInv` has four parts. `StockInv`: the stock of a product
  that is not `overlapped` is the initial stock less all deductions, not below zero. `RaceInv`:
  of such a product at most one worker is between its read and its write. `TxShape`: a
  transaction holds the rows of what it has written, each line once. `ReadIsStock`: what a
  worker has read of such a product is still the stock, and what its transaction has written is
  what the stock will be when it commits; without it the step that writes could not know what it
  writes. The deductions of a product are a sum over the lines of all orders, a fold of the
  library over a set. What such a sum does when one line is added is proved by induction over
  the size of the set (`Sums`, `Total`).

### `SyncQueue_proofs`

* `RefusedIsNotSynced` (`MappingSound`): `Confirmed` of a Horoshop pass is what was accepted.
* `StockNeverGoesBack` (`NoStaleOverwrite`, an action property). `Behind`: neither the shop nor
  a page in hand is newer than the stock. `Aware`: two passes to one shop know of each
  other, and workers take turns. `Newer`: a page that is about to be sent to a shop is not
  older than what the shop shows, or its pass has met another one.
* `PassIsComplete` (`CompletePass`, an action property). `PassInv`: as long as the catalogue has
  not changed since the pass began, it is `Regular`: it has tried the products with a rank up to
  where its page starts (`Before`) and no other, and the page in hand is the next ones (`Rows`).
  The shops that count what they sent (Prom, WooCommerce) are so only while what is left is
  whole batches (`Steady`), which is the exception of the property. The argument needs that
  ranks number the products of a finite catalogue from 1 without gaps, so that a page that is
  not full is the last.

### `CatalogExchange_proofs`

For any runners, cards, pages, limits, categories and events:

* `CodesAreUnique` (`CodesUnique`). `CodesInv` has four parts. `Table`: the codes are distinct.
  `Inserting`: a runner between `TakeCode` and `InsertProduct` holds `maxLock`, so there is at
  most one, and its code is above every code of the table, which nobody can change
  meanwhile: an insert needs the lock, a restore waits for it, updates and
  deletions keep codes. `SavedTable`: the rollback point is a table that once was. `Locals`:
  the types the rest needs.
* `MappingsAreTold` (`MappingsTellTheShop`). `MappingsInv`: a runner that is saving the rows of
  an answer has been told by the shop of every product among them, every other row was
  written by an import, and what was answered stays answered.
* `ProductsAreFiled` (`FiledUnderACategory`). `FiledInv`: not only the products but every group
  that somebody holds (an upsert between two awaits, the cache, the rollback point) is the code
  of a category, or one that a restore took away and `lostGroups` has. Without that the step
  that writes a product could not know where its group comes from.
* `CategoryCodesAreDistinct` (`CategoryCodesDistinct`). `TreeInv`: a category has the code of its
  parent and one number more, or at the depth limit the very code of its parent (`Tree`), so
  that a number free under its parent is free everywhere; a code that was chosen and is not
  yet inserted is still free or was raced for (`Pending`, `Together`); the rollback point's
  categories are the first ones of the table (`SavedFirst`).
* `OldIsKept` (`OnlyNewKeepsOld`, an action property). `NewInv`: an import of what is new holds
  the lock, so that no restore comes between; who carried an article when it began carries it
  still, deleted or not, because an article that is there is never replaced and barcodes are
  only added; and once a card is in the hands of the upsert, whoever carried its article is
  deleted. The attempt to prove it without that exception failed for a reason: Horoshop's import
  asks by article, a deleted product does not answer, and the card's barcode then leads to it
  all the same. TLC shows it with one product, one card and one deletion (section 6).
* `BarcodesAreUnique` (`OneProductPerBarcode`). `BarInv`: at most one product has an identifier
  (`OneHolder`), in the tables and in the rollback point (`SavedHolders`), which come back
  together; an upsert that is past its match either found the product that has the barcode it is
  about to store, or nobody had it, and so it is still (`Hands`); and two upserts have no
  identifier in common that is not in `contested` (`Apart`). The attempt to prove it failed for
  a reason first: with two events, a deleted product is made anew and a restore brings the first
  one back beside it, and an upsert that matched before a restore writes after it. `contested`
  and `lostCodes` name just these.
* `ExportsAreComplete` (`ExportComplete`, an action property). `ExportInv`: while an export
  reads, it has the first products by rank, page behind page, none twice; once it has read, the
  list is the catalogue (`Undisturbed`, for exports not in `moved`); while it sends, what was
  sent and the rest of the list are disjoint and together have everything that is due. Every
  request takes the first of the rest, refused or not. A restart takes an event, so an export
  that ends without one has sent its last request.
* `ImportsAreComplete` (`ImportComplete`, an action property). `GoodsInv`: in each shop's list
  the numbers differ, Prom's are in order; lists only grow at the end, except that cards are
  taken out. `GatherInv` has one part for each way to page. By page number (`ByNumber`): what
  was taken are the first cards of the list, and the page in hand the ones behind them. By
  cursor (`ByCursor`): every listed card up to the last number was taken, which remains true
  when cards are taken out, so Prom's import needs no exception there. The webhook (`ByHook`)
  has one card.

### `Registry_proofs`

For any tenants, handlers, forms, databases, secrets, requests and restarts, the two processes
of a start included. Every action is first brought under one of five kinds (a process takes a
handler on, passes it on, ends it with a save or a removal, the process restarts, nothing
happens to the rows), and the invariants are preserved kind by kind.

* `SettingsAreKept` (`SettingsKept`). `Alone`: two processes that change one tenant have raced.
  `Loaded`: an edit that has not raced holds the row as it is, and what it will write with the
  masks taken out is what the user meant.
* `KeysOpenOneTenant` (`KeysOpenTheirTenant`). `KeyInv`: a key has one owner, counting the
  handlers that will save it and the SQLite file; a key given out and not yet saved is in
  no row; a key in the row of a tenant that was not raced for was not replaced.
* `IntegrationIsUnique` (`OneIntegration`) and `PoolsServeOneTenant` (`PoolsServeTheirTenant`):
  whoever is about to insert found none, and whoever is about to open a pool read the row that
  is there.

### `ShopClients_proofs`

* `OneJobIsShown` (`OneJobShown`). `WindowInv`: as long as no job was started before an answer
  about an older one, every question is about the job started last and its timer is the
  only one. The answer's two reads cannot disagree about a success (`PollsInv`).
* `TokensAreYoungEnough` (`AgeNeverRefused`). `InTime`: how old a token can be at every
  stage of a login and a call. It needs a life above one login and one call (`TokenAssumption`).
* `RefusedOnce` (`OneRefusalIsHidden`). `Alive`: while a refused call tries again, every token
  in the cache or on its way is newer than the revocation.
* `SyncedWasWritten` (`SyncedIsWritten`). `MapsInv`: a map that is loaded agrees with the shop
  but for the cards it is excused of, or a pass that got the answer is about to correct it;
  two passes that create the same card are both excused.

### `Plugin_proofs`

* `OrdersAreAnnounced` (`OrdersAnnounced`): an order that was to be announced is heard of, or
  has a reason, or a PHP request will announce it.
* `ChangesArrive` (`CardChangesArrive`). `Arrives`: at most one import of a card is under way,
  and a hook has still to read the card or what was read last is the last version.
* `SkusAreKept` (`CleanupKeepsSkus`, an action property). `CleanInv`: what a clean-up has on its
  list has an older card with its SKU, or is the third card of a title, also after cards were
  made, saved and deleted since it was read.

### What stays with TLC, and why

* Liveness under fairness: `KeyFreed`, `OpsSettle`, `PendingGetsDeducted`, `ShopConverges`.

These are all. The other 36 properties are theorems, though several are about sums and about
what loops gather page by page. The library's induction theorems take an operator as a
parameter, which the provers cannot instantiate; instead a least counterexample is taken
(`LeastNumber`), sets are counted down by their cardinality, and pages are described by ranks in
place of recursion.

The lemmas about sequences (`AppendFacts`, `JoinIs`, `TailFacts`, ...) are stated in the
modules that use them: no module is extended by two of the proof modules.

## 5. Assumptions

* MariaDB is InnoDB at REPEATABLE READ; a statement is atomic; the row of `ndok`
  exists.
* BullMQ runs `sync-stock` with its default concurrency of one; a job that is retried by
  hand keeps its count of attempts, so it has one more; and BullMQ gives a
  stalled job back once.
* One tenant: the key, the directory, the database, the queue entries and the cache
  entries are per tenant.
* Webhooks that are refused, of disabled integrations or without a product line change nothing
  and are left out. A poll gets every order that the shop lists.
* `product_mappings` is written for one integration per shop; `OneIntegration` of `Registry` says
  when that is so. The search for a mapping and its save are one step: two saves at once end
  in the same refusal by the unique keys.
* Horoshop accepts a token longer than the 23 hours it is cached, as the code supposes.
* What WooCommerce does with the `_sku` that `mapProductToWoo` puts into the meta data is not
  in the repository; the SKU field decides in `SkuMap`.
* A job of an import or export starts at any time after it was asked for; its attempts are in
  `TenantOps` and `SyncQueue`, and the exchange modules run each job once.
* Constants. The masks are no password or secret anybody has (`RegistryAssumption`); an access
  token lives longer than a login and a call take (`TokenAssumption`); the categories at the
  start have codes of their own, each its parent's and two digits more, and the products are
  filed under them (`CategoryAssumption`); there are finitely many orders (`OrderAssumption`),
  products in the stock pass, and rows in a dump, whose tables have different names
  (`ScriptAssumption`). The cards a shop lists at the start have different numbers, Prom's in
  increasing order, since it lists by `last_id` (`ImportAssumption`); the numbers a shop gives
  are larger than any product code (`ExportAssumption`), so that a card that an export makes,
  which the model numbers by its code, is told from them.
* A restore or a backup meets at most the events named above. Disk space is not modelled.

## 6. What the code does that documents do not say, without a run

Read in the source while modelling, or found with an instance that is not kept:

* `lastSyncAt` is shared by the schedulers. With Prom every minute and Horoshop every
  two (`PromMoreOften` in `MCSyncQueue`), jobs of Prom reset it before Horoshop is due, for ever:
  TLC finds `ShopConverges` violated for Horoshop. HOWITWORKS.md:595 speaks of an
  interval of each platform.
* A job of Rozetka or WooCommerce in `sync-stock` reads all pages, sends nothing
  and ends with progress 100 (HOWITWORKS.md:989); `Execute` in `SyncQueue`.
* `lastSyncAt` is written although every request of a Prom pass failed
  (`prom-sync.service.ts:254`); the comment in `prom-scheduler.service.ts:88` says only after
  success.
* Prom's pass marks the first `processed` products of a request as synced, whichever were
  processed; `Confirmed` in `CatalogPass`.
* `syncFullCatalog` of WooCommerce, its import and the exports with a limit have the OFFSET
  error of `sync_tail`; `ImportComplete` and `ExportComplete` except a limit that ends inside a
  later page.
* The orders' lock in Redis is a set in memory; a restart forgets it, and an order
  the shop still lists is deducted again. Rozetka's orders are not tested at all.
* A draft document takes stock at once (HOWITWORKS.md:909); an existing document
  of an order is not looked for (HOWITWORKS.md:942).
* The WooCommerce import ignores the tenant's key (TASK-23:35), and the id of the
  backup an import made is not kept with it (`horoshop-import.processor.ts:24`).
* A restore is not one transaction (PROGRESS_REPORT.md:156), and an error message with an odd
  number of apostrophes in a dump hides what follows it from the parser (HOWITWORKS.md:1038).
* A backup that runs longer than the five minutes of the key deletes the key of the one that
  followed; HOWITWORKS.md:1101 speaks of a UUID that is compared first. With
  `OutlivesTTL = TRUE` and two backups TLC refutes `OnlyOwnKeyDeleted`.
* Two orders read the same stock and one deduction is lost, although README.md:85 and the
  comment at `liman.service.ts:567` say "atomic". `StockExact` without its exception fails
  for two orders of one product.

Catalogues:

* A barcode may lead to two products, and two categories may share a code, when two upserts
  work at once: the WooCommerce import and its webhook take no lock.
* After a restore the category cache answers groups that no longer exist, and one failing
  query is remembered as the default category (`liman.service.ts:742`).
* The search by additional barcode finds deleted products. So an import of what is new rewrites a
  product that was deleted while it ran: its article is no longer found, and its barcode
  still leads to it (`liman.service.ts:669`); `OnlyNewKeepsOld` excepts that.
* An insert ignores the tenant's price column, and an update of a product without a category
  moves it to the default one.
* An export sends the barcode as `gtin`, an import reads `barcode`.
* Cards that only_new skips do not count for the limit; WooCommerce's limit is 1000 when none is
  given.
* A refused mapping makes a created product count as an error as well.
* The product webhook of Horoshop writes an activity "успешно обработан" and nothing else
  (`horoshop-sync.controller.ts:401`).

Tenants, keys, tokens:

* Two handlers on a tenant lose one's fields; a save loaded before a rotation brings the old
  key back (`tenant.controller.ts:93`: "Старый ключ инвалидируется немедленно").
* `TenantModal` sends `id`, `createdAt` and `updatedAt` along, and the ValidationPipe refuses
  unknown fields: its save always answers 400 (HOWITWORKS.md:722 describes it as working).
* A removed tenant that the SQLite file still has, or the seeded one, comes back at the next
  start with its old key.
* The link that SuperAdminPage copies holds the mask of the key when the key is not shown.
* Requests of a tenant go to the pool made first, whatever its settings say since
  (HOWITWORKS.md:345); `closePool` has no caller (TASK-04:19).
* The throttling window of the alerts begins with the last alert sent (TASK-15:19 reads as if
  it began with the first).

WooCommerce and the plugin:

* A SKU map of which a page failed is kept for ten minutes, and its missing cards are created
  anew, which the shop refuses: the comment at `woocommerce-api.client.ts:54` says that
  duplicates are excluded. Refusals inside an answer are counted as synced.
* `syncStockAndPrices` creates cards without a name for products that are new.
* An order whose announcement fails is never announced again. A paid order may be sent twice,
  since `handle_order` does not look at the flag (`class-webhook.php:55` says it does); the
  server drops the second. The order note speaks of deducted stock whenever the answer is 200.
* The lock on a card is not set by the server's own writes (`class-webhook.php:173`), so a pass of
  stock comes back as a product import.
* `import_language` is not sent by the settings form. A card whose title exists is neither
  created nor updated (`class-migrator.php:156` says "Create or Update"), and a simple card that
  grows into a group leaves a parent without variations.
* The clean-up deletes products that share a name from the third on.
* A window whose job's record is gone says that it runs, for ever.

## 7. Plan

Done: the key and the backups, the script, orders, passes and the queue, the exchange of
catalogues, the registry, tokens, SKU map, windows and the plugin's hooks and import; the
theorems of section 4, which cover 36 of the 40 properties, all but the four of liveness.

Next, in this order, each with its theorems:

1. An abstract specification of the queue (every job queued is done or kept as
   failed) that `SyncQueue` implements, and one of deduction (each order takes its
   lines once) that `OrderIntake` implements while the process does not restart.
2. The composition of the exchange with the orders' UPDATE of the stock and `updateStock`, and of
   `PluginCards` with `ProductUpsert` at its server's end.
3. The plugin's stock synchronization beside the server's passes.

Runs are merged where a new module checks the question of an old run in a larger
setting, and parts that share no state are checked in one run.
