------------------------------ MODULE Registry ------------------------------
(***************************************************************************)
(* The master database: the rows of tenants with their settings, secrets   *)
(* and API keys, the rows of tenant_integrations, the pools of connections *)
(* built from the settings, and the forms of the portal and of the         *)
(* administrator that edit them.  Every handler loads a row, awaits, and   *)
(* saves the whole row it loaded (TenantService); nothing locks a tenant   *)
(* against a second handler, another tab or a pass that stores lastSyncAt. *)
(***************************************************************************)
EXTENDS Integers, FiniteSets, Functions

CONSTANTS
  Tenants,     \* ids of tenants, Columb among them
  Columb,      \* the tenant that is seeded at the first start
  Legacy,      \* ids found in the old SQLite file, at most one, with the key 0
  Handlers,    \* requests and passes in flight at once
  Databases,   \* values of the connection settings
  Secrets,     \* values of a shop's secret
  Stars, Dots, \* what sanitizeTenant and maskTenant show of a secret
  Free,        \* stands for no row, no pool, no value
  MaxRequests  \* bound: requests and forms of a behaviour

ASSUME RegistryAssumption ==
  /\ Columb \in Tenants /\ Legacy \subseteq Tenants /\ \A t, u \in Legacy : t = u
  /\ Databases # {} /\ Secrets # {}
  /\ Free \notin Nat \cup Databases
  /\ \A x \in {Stars, Dots} : x \notin Databases \cup Secrets \cup BOOLEAN
  /\ MaxRequests \in Nat

Seed == "seed"
Migration == "migration"
Masks == {Stars, Dots}
Processes == Handlers \cup {Seed, Migration}

VARIABLES
  rows,         \* tenants: Free or the row of each id
  integrations, \* tenant_integrations of one platform: [tenant, name]
  pools,        \* TenantConnectionManager.pools: Free or the database
  req,          \* locals of the handler each process executes
  minted,       \* keys given out so far: 1..minted
  todo,         \* legacy tenants the migration has not come to
  requests,     \* requests and forms that may still begin
  meant,        \* read by properties: the rows as their users meant them
  raced,        \* read by properties: tenants two handlers or forms edited at once
  doubled,      \* read by properties: tenants two lookups of an integration met on
  moved,        \* read by properties: tenants whose database changed since the start
  revoked       \* read by properties: keys a rotation has replaced

registryVars == <<rows, integrations, pools, req, minted, todo, requests, meant,
                  raced, doubled, moved, revoked>>
historyVars == <<meant, raced, doubled, moved, revoked>>

NoHandler == [pc |-> "idle", form |-> Free, t |-> Free, row |-> Free, patch |-> <<>>, as |-> Free,
              intent |-> <<>>, stale |-> FALSE]

RegistryInit ==
  /\ rows = [t \in Tenants |-> Free]
  /\ integrations = {}
  /\ pools = [t \in Tenants |-> Free]
  /\ req = [p \in Processes |-> NoHandler]
  /\ minted = 0 /\ todo = Legacy /\ requests = MaxRequests
  /\ meant = rows
  /\ raced = {} /\ doubled = {} /\ moved = {} /\ revoked = {}

(* A row: connection settings, a shop's secret, the API key, and whether a  *)
(* pass has stored lastSyncAt.                                              *)
Row(db, secret, key) == [db |-> db, secret |-> secret, key |-> key, synced |-> FALSE]
Fields == {"db", "secret", "key", "synced"}
Only(f, v) == [x \in {f} |-> v]

Overwrite(row, patch) ==
  [f \in Fields |-> IF f \in DOMAIN patch THEN patch[f] ELSE row[f]]

-----------------------------------------------------------------------------
(* One handler: load, await, save.                                         *)

Busy(p, t) ==
  req[p].t = t /\ req[p].pc \in {"seed", "migrate", "create", "update", "rotate", "remove"}

Loads(p, t, handler) ==
  /\ req' = [req EXCEPT ![p] = handler]
  /\ raced' = IF \E q \in Processes \ {p} : Busy(q, t) THEN raced \cup {t} ELSE raced

(* A unique index on apiKey refuses a key another tenant has.               *)
KeyFree(t, row) == \A u \in Tenants \ {t} : rows[u] # Free => rows[u].key # row.key

(* save(): the row as the handler holds it, inserted anew if it is gone.    *)
(* Forms that show the tenant are now stale.                                *)
Saves(p, t, row, intended, next) ==
  /\ req' = [q \in Processes |->
       IF q = p THEN next
       ELSE IF req[q].t = t /\ req[q].pc = "form" THEN [req[q] EXCEPT !.stale = TRUE]
       ELSE req[q]]
  /\ IF KeyFree(t, row)
     THEN /\ rows' = [rows EXCEPT ![t] = row]
          /\ meant' = [meant EXCEPT ![t] = intended]
          /\ moved' = IF rows[t] # Free /\ rows[t].db = row.db THEN moved ELSE moved \cup {t}
     ELSE UNCHANGED <<rows, meant, moved>>

Up == req[Seed].pc = "done" /\ req[Migration].pc = "done"

Begins(p) == p \in Handlers /\ Up /\ req[p].pc = "idle" /\ requests > 0
             /\ requests' = requests - 1

-----------------------------------------------------------------------------
AdmitsAny(key, t) == \* mutant: the id of the path is not compared
  key = Free \/ \E u \in Tenants : rows[u] # Free /\ rows[u].key = key

(* ApiKeyGuard: the master key (Free here) opens everything; a tenant's key *)
(* its own profile.                                                         *)
Admits(key, t) ==
  \/ key = Free
  \/ \E u \in Tenants : /\ rows[u] # Free /\ rows[u].key = key
                        /\ u = t

-----------------------------------------------------------------------------
(* Start: seeding and migration run side by side, before the first request. *)

SeedLooks ==
  /\ req[Seed].pc = "idle"
  /\ IF rows[Columb] = Free
     THEN Loads(Seed, Columb, [NoHandler EXCEPT !.pc = "seed", !.t = Columb])
     ELSE req' = [req EXCEPT ![Seed].pc = "done"] /\ UNCHANGED raced
  /\ UNCHANGED <<rows, integrations, pools, minted, todo, requests, meant, doubled,
                 moved, revoked>>

(* The settings of the environment, and of the SQLite file.                 *)
FirstRow(key) == Row(CHOOSE db \in Databases : TRUE, CHOOSE s \in Secrets : TRUE, key)

SeedSaves ==
  LET row == FirstRow(minted + 1) IN
  /\ req[Seed].pc = "seed"
  /\ minted' = minted + 1
  /\ Saves(Seed, Columb, row, row, [NoHandler EXCEPT !.pc = "done"])
  /\ UNCHANGED <<integrations, pools, todo, requests, raced, doubled, revoked>>

MigrationLooks(t) ==
  /\ req[Migration].pc = "idle" /\ t \in todo
  /\ todo' = todo \ {t}
  /\ Loads(Migration, t, [NoHandler EXCEPT
       !.pc = IF rows[t] = Free THEN "migrate" ELSE "lookup", !.t = t])
  /\ UNCHANGED <<rows, integrations, pools, minted, requests, meant, doubled, moved,
                 revoked>>

(* The row of the SQLite file, with the key it has there.                   *)
MigrationSaves ==
  LET t == req[Migration].t
      row == FirstRow(0)
  IN /\ req[Migration].pc = "migrate"
     /\ Saves(Migration, t, row, row, [NoHandler EXCEPT !.pc = "lookup", !.t = t])
     /\ revoked' = revoked \ {0}
     /\ UNCHANGED <<integrations, pools, minted, todo, requests, raced, doubled>>

MigrationEnds ==
  /\ req[Migration].pc = "idle" /\ todo = {}
  /\ req' = [req EXCEPT ![Migration].pc = "done"]
  /\ UNCHANGED <<rows, integrations, pools, minted, todo, requests, historyVars>>

-----------------------------------------------------------------------------
(* TenantService                                                           *)

Create(p, t, db, secret) ==
  /\ Begins(p) /\ rows[t] = Free
  /\ Loads(p, t, [NoHandler EXCEPT !.pc = "create", !.t = t,
                                   !.row = Row(db, secret, minted + 1)])
  /\ minted' = minted + 1
  /\ UNCHANGED <<rows, integrations, pools, todo, meant, doubled, moved, revoked>>

SaveCreated(p) ==
  /\ req[p].pc = "create"
  /\ Saves(p, req[p].t, req[p].row, req[p].row, NoHandler)
  /\ UNCHANGED <<integrations, pools, minted, todo, requests, raced, doubled, revoked>>

UnmaskedStars(patch) == \* mutant: only the mask of sanitizeTenant is known
  Restrict(patch, {f \in DOMAIN patch : patch[f] # Stars})

(* A secret that comes back as the mask the answers show is not a value.    *)
Unmasked(patch) == Restrict(patch, {f \in DOMAIN patch : patch[f] \notin Masks})

(* update(): what a pass stores when it ends.                               *)
StoreLastSync(p, t) ==
  /\ Begins(p) /\ rows[t] # Free
  /\ Loads(p, t, [NoHandler EXCEPT !.pc = "update", !.t = t, !.row = rows[t],
                    !.patch = [synced |-> TRUE], !.intent = [synced |-> TRUE]])
  /\ UNCHANGED <<rows, integrations, pools, minted, todo, meant, doubled, moved,
                 revoked>>

SaveUpdate(p) ==
  LET h == req[p] IN
  /\ h.pc = "update"
  /\ Saves(p, h.t, Overwrite(h.row, Unmasked(h.patch)),
           Overwrite(IF meant[h.t] = Free THEN h.row ELSE meant[h.t], h.intent), NoHandler)
  /\ UNCHANGED <<integrations, pools, minted, todo, requests, raced, doubled, revoked>>

RotateApiKey(p, t) ==
  /\ Begins(p) /\ rows[t] # Free
  /\ Loads(p, t, [NoHandler EXCEPT !.pc = "rotate", !.t = t, !.row = rows[t],
                    !.patch = [key |-> minted + 1]])
  /\ minted' = minted + 1
  /\ UNCHANGED <<rows, integrations, pools, todo, meant, doubled, moved, revoked>>

SaveRotated(p) ==
  LET h == req[p] IN
  /\ h.pc = "rotate"
  /\ Saves(p, h.t, Overwrite(h.row, h.patch),
           Overwrite(IF meant[h.t] = Free THEN h.row ELSE meant[h.t], h.patch), NoHandler)
  /\ revoked' = revoked \cup {h.row.key}
  /\ UNCHANGED <<integrations, pools, minted, todo, requests, raced, doubled>>

RemoveTenant(p, t) ==
  /\ Begins(p) /\ rows[t] # Free
  /\ Loads(p, t, [NoHandler EXCEPT !.pc = "remove", !.t = t])
  /\ UNCHANGED <<rows, integrations, pools, minted, todo, meant, doubled, moved,
                 revoked>>

(* The rows that refer to the tenant go with it.                            *)
Removed(p) ==
  LET t == req[p].t IN
  /\ req[p].pc = "remove"
  /\ rows' = [rows EXCEPT ![t] = Free] /\ meant' = [meant EXCEPT ![t] = Free]
  /\ integrations' = {i \in integrations : i.tenant # t}
  /\ moved' = moved \cup {t}
  /\ req' = [req EXCEPT ![p] = NoHandler]
  /\ UNCHANGED <<pools, minted, todo, requests, raced, doubled, revoked>>

-----------------------------------------------------------------------------
(* Forms.  A form shows an answer of the server, and is sent back later     *)
(* with one field changed.                                                  *)

Extra == {"id", "createdAt", "updatedAt"}

(* sanitizeTenant (GET /tenants/:id) and maskTenant (GET /admin/tenants).   *)
Sanitized(row) == [row EXCEPT !.secret = Stars]
Masked(row) == [row EXCEPT !.secret = Dots, !.key = Dots]

(* The portal's tabs open on the tenant's own key and show sanitizeTenant,  *)
(* which leaves Prom's key readable; the administrator's forms open on the  *)
(* master key and show maskTenant; "client" is a program that sends the     *)
(* fields of an answer back.                                                *)
Tabs == {"settings", "horoshop", "prom", "rozetka", "woocommerce"}

Shown(form, row) ==
  CASE form = "prom" -> row
    [] form \in Tabs \ {"prom"} -> Sanitized(row)
    [] OTHER -> Masked(row)

OpenForm(p, t, form) ==
  /\ Begins(p) /\ rows[t] # Free
  /\ req' = [req EXCEPT ![p] = [NoHandler EXCEPT !.pc = "form", !.form = form, !.t = t,
       !.row = Shown(form, rows[t]), !.as = IF form \in Tabs THEN rows[t].key ELSE Free]]
  /\ UNCHANGED <<rows, integrations, pools, minted, todo, historyVars>>

(* ensureCredentialsRevealed, handleTogglePassword: the secret itself takes *)
(* the place of its mask in the form.                                       *)
Reveal(p) ==
  LET h == req[p] IN
  /\ h.pc = "form" /\ h.form # "client" /\ h.row.secret \in Masks
  /\ rows[h.t] # Free /\ Admits(h.as, h.t)
  /\ req' = [req EXCEPT ![p].row.secret = rows[h.t].secret]
  /\ UNCHANGED <<rows, integrations, pools, minted, todo, requests, historyVars>>

(* ValidationPipe refuses a field that UpdateTenantDto does not declare.    *)
Accepted(payload) == DOMAIN payload \subseteq Fields

Submits(p, form, f, v, payload) ==
  LET h == req[p] IN
  /\ h.pc = "form" /\ h.form = form /\ h.row[f] # v
  /\ IF Admits(h.as, h.t) /\ Accepted(payload) /\ rows[h.t] # Free
     THEN /\ req' = [req EXCEPT ![p] = [NoHandler EXCEPT !.pc = "update", !.t = h.t,
                       !.row = rows[h.t], !.patch = payload, !.intent = Only(f, v)]]
          /\ raced' = IF h.stale \/ \E q \in Processes \ {p} : Busy(q, h.t)
                      THEN raced \cup {h.t} ELSE raced
     ELSE req' = [req EXCEPT ![p] = NoHandler] /\ UNCHANGED raced
  /\ UNCHANGED <<rows, integrations, pools, minted, todo, requests, meant, doubled,
                 moved, revoked>>

(* Every tab sends the fields it edits.  A secret goes with them unless the *)
(* form holds a mask; Horoshop's, and the database's, only if it was typed  *)
(* or revealed.                                                             *)
Typed(h, f, v) == Unmasked(Restrict(Overwrite(h.row, Only(f, v)), {"secret"}))

SaveSettingsTab(p, db) == Submits(p, "settings", "db", db, Only("db", db))
SaveHoroshopTab(p, v) == Submits(p, "horoshop", "secret", v, Typed(req[p], "secret", v))
SavePromTab(p, v) == Submits(p, "prom", "secret", v, Typed(req[p], "secret", v))
SaveRozetkaTab(p, v) == Submits(p, "rozetka", "secret", v, Typed(req[p], "secret", v))
SaveWooTab(p, v) == Submits(p, "woocommerce", "secret", v, Typed(req[p], "secret", v))

(* A client of the API: the declared fields of the answer, masks included.  *)
SendBack(p, f, v) ==
  Submits(p, "client", f, v, Restrict(Overwrite(req[p].row, Only(f, v)), Fields \ {"synced"}))

(* TenantModal.handleSubmit: the whole answer the form was opened with,     *)
(* less the secrets that are masked.                                        *)
ModalPayload(h, f, v) ==
  LET changed == Overwrite(h.row, Only(f, v))
      kept == {x \in Fields : x = "secret" => changed[x] \notin Masks}
  IN [x \in kept \cup Extra |-> IF x \in Fields THEN changed[x] ELSE Free]

SaveModal(p, f, v) == Submits(p, "modal", f, v, ModalPayload(req[p], f, v))

-----------------------------------------------------------------------------
(* Integrations and pools.                                                 *)

(* Every import, export and pass begins with its tenant's row and pool.     *)
LoadTenant(p, t) ==
  /\ Begins(p) /\ rows[t] # Free
  /\ req' = [req EXCEPT ![p] = [NoHandler EXCEPT !.pc = "pool", !.t = t, !.row = rows[t]]]
  /\ UNCHANGED <<rows, integrations, pools, minted, todo, historyVars>>

PoolShared(t, db) == \* mutant: pools are cached under a key all tenants share
  LET known == {u \in Tenants : pools[u] # Free}
  IN [pools EXCEPT ![t] = IF known = {} THEN db ELSE pools[CHOOSE u \in known : TRUE]]

(* getPool: the first caller's settings build the pool for good.            *)
PoolFor(t, db) == IF pools[t] = Free THEN [pools EXCEPT ![t] = db] ELSE pools

GetPool(p) ==
  LET h == req[p] IN
  /\ h.pc = "pool"
  /\ pools' = PoolFor(h.t, h.row.db)
  /\ moved' = IF pools[h.t] = Free /\ (rows[h.t] = Free \/ rows[h.t].db = h.row.db)
              THEN moved \ {h.t} ELSE moved
  /\ req' = [req EXCEPT ![p].pc = "lookup"]
  /\ UNCHANGED <<rows, integrations, minted, todo, requests, meant, raced, doubled,
                 revoked>>

IntegrationsNamed(t, name) == \* mutant: the lookup asks for the name as well
  {i \in integrations : i.tenant = t /\ i.name = name}

(* findOrCreateIntegration and the migration look for the platform, by      *)
(* whatever name.                                                           *)
IntegrationsOf(t, name) == {i \in integrations : i.tenant = t}

NameBy(p) == IF p = Migration THEN "migrated" ELSE "created"

FindIntegration(p) ==
  LET t == req[p].t IN
  /\ req[p].pc = "lookup"
  /\ IF IntegrationsOf(t, NameBy(p)) # {}
     THEN req' = [req EXCEPT ![p] = NoHandler] /\ UNCHANGED doubled
     ELSE /\ req' = [req EXCEPT ![p].pc = "insert"]
          /\ doubled' = IF \E q \in Processes \ {p} : req[q].t = t /\ req[q].pc = "insert"
                        THEN doubled \cup {t} ELSE doubled
  /\ UNCHANGED <<rows, integrations, pools, minted, todo, requests, meant, raced, moved,
                 revoked>>

(* A row of the one platform; its key is a new UUID, here whoever made it.  *)
Integration(t, name, p) == [tenant |-> t, name |-> name, by |-> p]

(* The foreign key refuses an integration of a tenant that is gone.         *)
CreateIntegration(p) ==
  /\ req[p].pc = "insert"
  /\ integrations' = IF rows[req[p].t] = Free THEN integrations
       ELSE integrations \cup {Integration(req[p].t, NameBy(p), p)}
  /\ req' = [req EXCEPT ![p] = NoHandler]
  /\ UNCHANGED <<rows, pools, minted, todo, requests, historyVars>>

(* The process restarts: pools, handlers and forms' sessions are gone, and  *)
(* the next start seeds and migrates again.                                 *)
RegistryRestart ==
  /\ Up /\ requests > 0 /\ requests' = requests - 1
  /\ pools' = [t \in Tenants |-> Free]
  /\ req' = [p \in Processes |-> IF req[p].pc = "form" THEN req[p] ELSE NoHandler]
  /\ todo' = Legacy
  /\ moved' = {}
  /\ UNCHANGED <<rows, integrations, minted, meant, raced, doubled, revoked>>

RegistryNext ==
  \/ SeedLooks \/ SeedSaves \/ MigrationSaves \/ MigrationEnds \/ RegistryRestart
  \/ \E t \in Tenants : MigrationLooks(t)
  \/ \E p \in Handlers, t \in Tenants :
       \/ \E db \in Databases, s \in Secrets : Create(p, t, db, s)
       \/ StoreLastSync(p, t) \/ RotateApiKey(p, t) \/ RemoveTenant(p, t) \/ LoadTenant(p, t)
       \/ \E form \in Tabs \cup {"client", "modal"} : OpenForm(p, t, form)
  \/ \E p \in Handlers :
       \/ SaveCreated(p) \/ SaveUpdate(p) \/ SaveRotated(p) \/ Removed(p) \/ GetPool(p)
       \/ Reveal(p)
       \/ \E db \in Databases :
            SaveSettingsTab(p, db) \/ SendBack(p, "db", db) \/ SaveModal(p, "db", db)
       \/ \E s \in Secrets :
            \/ SaveHoroshopTab(p, s) \/ SavePromTab(p, s) \/ SaveRozetkaTab(p, s)
            \/ SaveWooTab(p, s) \/ SendBack(p, "secret", s) \/ SaveModal(p, "secret", s)
  \/ \E p \in Processes : FindIntegration(p) \/ CreateIntegration(p)

RegistrySpec == RegistryInit /\ [][RegistryNext]_registryVars

-----------------------------------------------------------------------------
(* Unless two handlers or forms worked on a tenant at once, its row is what *)
(* the users meant: each field has the value its last accepted edit gave    *)
(* it, and no edit has stored the mask of a secret it did not touch.        *)
SettingsKept == \A t \in Tenants \ raced : rows[t] = meant[t]

(* A key opens the profile of the tenant that has it and no other, and a    *)
(* key that was replaced opens nothing, unless a save that had been loaded  *)
(* before the rotation wrote it back.                                       *)
KeysOpenTheirTenant ==
  \A t \in Tenants, k \in 0 .. minted :
    Admits(k, t) => rows[t] # Free /\ rows[t].key = k /\ (t \in raced \/ k \notin revoked)

(* A tenant has one integration of a platform, whoever created it, unless   *)
(* two of its first requests looked for it at the same moment.              *)
OneIntegration ==
  \A t \in Tenants \ doubled : Cardinality({i \in integrations : i.tenant = t}) <= 1

(* A pool reaches the database that the tenant's row names, unless the row  *)
(* was changed or replaced since the process started.                       *)
PoolsServeTheirTenant ==
  \A t \in Tenants \ moved : pools[t] # Free /\ rows[t] # Free => pools[t] = rows[t].db
=============================================================================
