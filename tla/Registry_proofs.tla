-------------------------- MODULE Registry_proofs --------------------------
(* Theorems about the master database: settings are kept, keys open one      *)
(* tenant, an integration is unique and a pool serves its tenant, for any    *)
(* number of tenants, handlers, forms and restarts.  Every action is first   *)
(* brought under one of five kinds (Takes, Passes, Ends, Restarts, Rests);   *)
(* the invariants are then preserved kind by kind.                           *)
EXTENDS Registry, FiniteSetTheorems, TLAPS

-----------------------------------------------------------------------------
(* Shapes.                                                                  *)

IsRow(r) == r = [f \in Fields |-> r[f]] /\ r.db \in Databases

IsHandler(h) ==
  h = [pc |-> h.pc, form |-> h.form, t |-> h.t, row |-> h.row, patch |-> h.patch,
       as |-> h.as, intent |-> h.intent, stale |-> h.stale]

(* A form shows the tenant's row, or did when it was opened.                *)
Shows(h) ==
  /\ IsRow(h.row)
  /\ h.form = "client" => h.row.key = Dots /\ h.row.secret = Dots
  /\ ~h.stale /\ rows[h.t] # Free => h.row.db = rows[h.t].db

Saving == {"seed", "migrate", "create", "update", "rotate", "remove"}

(* What a form changes: never the key, and a database only for a database.  *)
Harmless(patch) ==
  "key" \notin DOMAIN patch /\ ("db" \in DOMAIN patch => patch["db"] \in Databases)

HandlerShape(h) ==
  /\ IsHandler(h)
  /\ h.pc \notin {"idle", "done"} => h.t \in Tenants
  /\ h.pc \in {"create", "update", "rotate", "pool"} => IsRow(h.row)
  /\ h.pc = "form" => Shows(h)
  /\ h.pc = "seed" => h.t = Columb
  /\ h.pc = "migrate" => h.t \in Legacy
  /\ h.pc = "update" => Harmless(Unmasked(h.patch))
  /\ h.pc = "rotate" => h.patch = [key |-> h.patch.key]

Shape ==
  /\ DOMAIN rows = Tenants /\ DOMAIN meant = Tenants /\ DOMAIN pools = Tenants
  /\ \A t \in Tenants : rows[t] # Free => IsRow(rows[t])
  /\ DOMAIN req = Processes /\ \A p \in Processes : HandlerShape(req[p])
  /\ minted \in Nat /\ todo \subseteq Legacy

-----------------------------------------------------------------------------
(* What a handler does to the rows, whichever it is.                        *)

(* Process p begins to change a tenant: it knows the tenant's row.          *)
Takes(p, h) ==
  /\ h.pc \in Saving /\ h.t \in Tenants /\ IsHandler(h)
  /\ req' = [req EXCEPT ![p] = h]
  /\ raced \subseteq raced'
  /\ h.t \notin raced' => \A q \in Processes \ {p} : ~Busy(q, h.t)
  /\ UNCHANGED <<rows, meant, revoked>>
  /\ h.pc = "seed" => h.t = Columb
  /\ h.pc = "migrate" => h.t \in Legacy
  /\ IF h.pc = "create"
     THEN minted' = minted + 1 /\ IsRow(h.row) /\ h.row.key = minted + 1
     ELSE IF h.pc = "rotate"
     THEN /\ minted' = minted + 1 /\ h.patch = [key |-> minted + 1]
          /\ rows[h.t] # Free /\ h.row = rows[h.t]
     ELSE minted' = minted
  /\ h.pc = "update" =>
       /\ rows[h.t] # Free /\ h.row = rows[h.t]
       /\ Harmless(Unmasked(h.patch))
       /\ h.t \notin raced' =>
            Overwrite(h.row, Unmasked(h.patch)) = Overwrite(h.row, h.intent)

(* Process p does something else.                                           *)
Passes(p, h) ==
  /\ h.pc \notin Saving /\ IsHandler(h)
  /\ h.pc \notin {"idle", "done"} => h.t \in Tenants
  /\ h.pc = "pool" => rows[h.t] # Free /\ h.row = rows[h.t]
  /\ h.pc = "insert" => FindIntegration(p)
  /\ h.pc = "form" => Shows(h)
  /\ req' = [req EXCEPT ![p] = h]
  /\ raced \subseteq raced'
  /\ UNCHANGED <<rows, meant, minted, revoked>>

(* Process p saves what it holds.                                           *)
Ends(p) ==
  LET h == req[p] IN
  /\ h.pc \in Saving
  /\ raced' = raced
  /\ \/ /\ h.pc = "seed" /\ minted' = minted + 1 /\ revoked' = revoked
        /\ Saves(p, Columb, FirstRow(minted + 1), FirstRow(minted + 1),
                 [NoHandler EXCEPT !.pc = "done"])
     \/ /\ h.pc = "migrate" /\ minted' = minted /\ revoked' = revoked \ {0}
        /\ Saves(p, h.t, FirstRow(0), FirstRow(0), [NoHandler EXCEPT !.pc = "lookup", !.t = h.t])
     \/ /\ h.pc = "create" /\ minted' = minted /\ revoked' = revoked
        /\ Saves(p, h.t, h.row, h.row, NoHandler)
     \/ /\ h.pc = "update" /\ minted' = minted /\ revoked' = revoked
        /\ Saves(p, h.t, Overwrite(h.row, Unmasked(h.patch)),
                 Overwrite(IF meant[h.t] = Free THEN h.row ELSE meant[h.t], h.intent), NoHandler)
     \/ /\ h.pc = "rotate" /\ minted' = minted /\ revoked' = revoked \cup {h.row.key}
        /\ Saves(p, h.t, Overwrite(h.row, h.patch),
                 Overwrite(IF meant[h.t] = Free THEN h.row ELSE meant[h.t], h.patch), NoHandler)
     \/ /\ h.pc = "remove" /\ minted' = minted /\ revoked' = revoked
        /\ rows' = [rows EXCEPT ![h.t] = Free] /\ meant' = [meant EXCEPT ![h.t] = Free]
        /\ req' = [req EXCEPT ![p] = NoHandler]

Restarts ==
  /\ req' = [p \in Processes |-> IF req[p].pc = "form" THEN req[p] ELSE NoHandler]
  /\ UNCHANGED <<rows, meant, minted, raced, revoked>>

Rests == UNCHANGED <<rows, meant, minted, raced, revoked, req>>

LEMMA IdleHandler == IsHandler(NoHandler) /\ NoHandler.pc = "idle"
  BY DEF NoHandler, IsHandler

LEMMA RowFacts ==
  ASSUME NEW db \in Databases, NEW s, NEW k
  PROVE  IsRow(Row(db, s, k)) /\ Row(db, s, k).key = k
  BY DEF IsRow, Row, Fields

LEMMA FirstRowFacts ==
  ASSUME NEW k
  PROVE  IsRow(FirstRow(k)) /\ FirstRow(k).key = k
  <1>1. (CHOOSE d \in Databases : TRUE) \in Databases
    BY RegistryAssumption DEF RegistryAssumption
  <1> QED BY <1>1, RowFacts DEF FirstRow

LEMMA OverwriteFacts ==
  ASSUME NEW r, IsRow(r), NEW patch, "db" \in DOMAIN patch => patch["db"] \in Databases
  PROVE  /\ IsRow(Overwrite(r, patch))
         /\ "key" \notin DOMAIN patch => Overwrite(r, patch).key = r.key
         /\ "key" \in DOMAIN patch => Overwrite(r, patch).key = patch["key"]
  BY DEF IsRow, Overwrite, Fields

LEMMA StartKinds ==
  ASSUME Shape, SeedLooks \/ SeedSaves \/ MigrationSaves \/ MigrationEnds
                  \/ \E t \in Tenants : MigrationLooks(t)
  PROVE  \E p \in Processes : Ends(p) \/ \E h : Takes(p, h) \/ Passes(p, h)
  <1>0. Seed \in Processes /\ Migration \in Processes
    BY DEF Processes
  <1>1. CASE SeedLooks
    <2>1. CASE rows[Columb] = Free
      <3>1. PICK h : h = [NoHandler EXCEPT !.pc = "seed", !.t = Columb]
        OBVIOUS
      <3>2. IsHandler(h) /\ h.pc = "seed" /\ h.t = Columb
        BY <3>1 DEF NoHandler, IsHandler
      <3>3. Loads(Seed, h.t, h) /\ UNCHANGED <<rows, meant, revoked>> /\ minted' = minted
        BY <1>1, <2>1, <3>1, <3>2 DEF SeedLooks
      <3>4. Takes(Seed, h)
        BY <1>0, <3>2, <3>3, RegistryAssumption DEF Takes, Loads, Saving, RegistryAssumption
      <3> QED BY <1>0, <3>4
    <2>2. CASE rows[Columb] # Free
      <3>1. PICK h : h = [req[Seed] EXCEPT !.pc = "done"]
        OBVIOUS
      <3>2. IsHandler(h) /\ h.pc = "done"
        <4>1. IsHandler(req[Seed])
          BY <1>0 DEF Shape, HandlerShape
        <4> QED BY <3>1, <4>1 DEF IsHandler
      <3>3. req' = [req EXCEPT ![Seed] = h]
        BY <1>1, <2>2, <3>1 DEF SeedLooks
      <3>4. Passes(Seed, h)
        BY <1>1, <2>2, <3>2, <3>3 DEF SeedLooks, Passes, Saving
      <3> QED BY <1>0, <3>4
    <2> QED BY <2>1, <2>2
  <1>2. CASE SeedSaves
    BY <1>0, <1>2 DEF SeedSaves, Ends, Saving
  <1>3. CASE MigrationSaves
    BY <1>0, <1>3 DEF MigrationSaves, Ends, Saving
  <1>4. CASE MigrationEnds
    <2>1. PICK h : h = [req[Migration] EXCEPT !.pc = "done"]
      OBVIOUS
    <2>2. IsHandler(h) /\ h.pc = "done"
      <3>1. IsHandler(req[Migration])
        BY <1>0 DEF Shape, HandlerShape
      <3> QED BY <2>1, <3>1 DEF IsHandler
    <2>3. Passes(Migration, h)
      BY <1>4, <2>1, <2>2 DEF MigrationEnds, Passes, Saving, historyVars
    <2> QED BY <1>0, <2>3
  <1>5. ASSUME NEW t \in Tenants, MigrationLooks(t)
        PROVE  \E h : Takes(Migration, h) \/ Passes(Migration, h)
    <2>1. PICK h : h = [NoHandler EXCEPT
            !.pc = IF rows[t] = Free THEN "migrate" ELSE "lookup", !.t = t]
      OBVIOUS
    <2>2. IsHandler(h) /\ h.pc \in {"migrate", "lookup"} /\ h.t = t
      <3>1. PICK l : l = IF rows[t] = Free THEN "migrate" ELSE "lookup"
        OBVIOUS
      <3>2. h = [NoHandler EXCEPT !.pc = l, !.t = t]
        BY <2>1, <3>1
      <3> QED BY <3>1, <3>2 DEF NoHandler, IsHandler
    <2>3. t \in Legacy /\ Loads(Migration, t, h) /\ UNCHANGED <<rows, meant, minted, revoked>>
      BY <1>5, <2>1 DEF MigrationLooks, Shape, HandlerShape
    <2>4. CASE h.pc = "migrate"
      BY <2>2, <2>3, <2>4 DEF Takes, Loads, Saving
    <2>5. CASE h.pc = "lookup"
      BY <2>2, <2>3, <2>5 DEF Passes, Loads, Saving
    <2> QED BY <2>2, <2>4, <2>5
  <1> QED BY <1>0, <1>1, <1>2, <1>3, <1>4, <1>5

LEMMA ServiceKinds ==
  ASSUME Shape, NEW p \in Handlers, NEW t \in Tenants,
         \/ \E db \in Databases, s \in Secrets : Create(p, t, db, s)
         \/ StoreLastSync(p, t) \/ RotateApiKey(p, t) \/ RemoveTenant(p, t) \/ LoadTenant(p, t)
         \/ \E form \in Tabs \cup {"client", "modal"} : OpenForm(p, t, form)
  PROVE  \E h : Takes(p, h) \/ Passes(p, h)
  <1>0. p \in Processes
    BY DEF Processes
  <1>1. ASSUME NEW db \in Databases, NEW s \in Secrets, Create(p, t, db, s)
        PROVE  \E h : Takes(p, h)
    <2>1. PICK r : r = Row(db, s, minted + 1)
      OBVIOUS
    <2>2. PICK h : h = [NoHandler EXCEPT !.pc = "create", !.t = t, !.row = r]
      OBVIOUS
    <2>3. IsHandler(h) /\ h.pc = "create" /\ h.t = t /\ h.row = r
      BY <2>2 DEF NoHandler, IsHandler
    <2>4. IsRow(r) /\ r.key = minted + 1
      BY <2>1, RowFacts
    <2>5. Loads(p, t, h) /\ minted' = minted + 1 /\ UNCHANGED <<rows, meant, revoked>>
      BY <1>1, <2>1, <2>2 DEF Create
    <2>6. Takes(p, h)
      BY <2>3, <2>4, <2>5 DEF Takes, Loads, Saving
    <2> QED BY <2>6
  <1>2. CASE StoreLastSync(p, t)
    <2>1. PICK h : h = [NoHandler EXCEPT !.pc = "update", !.t = t, !.row = rows[t],
                    !.patch = [synced |-> TRUE], !.intent = [synced |-> TRUE]]
      OBVIOUS
    <2>2. /\ IsHandler(h) /\ h.pc = "update" /\ h.t = t /\ h.row = rows[t]
          /\ h.patch = [synced |-> TRUE] /\ h.intent = h.patch
      BY <2>1 DEF NoHandler, IsHandler
    <2>3. /\ rows[t] # Free /\ Loads(p, t, h) /\ UNCHANGED <<rows, meant, minted, revoked>>
      BY <1>2, <2>1 DEF StoreLastSync
    <2>4. DOMAIN h.patch = {"synced"} /\ h.patch["synced"] = TRUE
      BY <2>2
    <2>5. TRUE \notin Masks
      BY RegistryAssumption DEF RegistryAssumption, Masks
    <2>6. Unmasked(h.patch) = h.patch
      <3>1. {f \in DOMAIN h.patch : h.patch[f] \notin Masks} = {"synced"}
        BY <2>4, <2>5
      <3> QED BY <2>2, <2>4, <3>1 DEF Unmasked, Restrict
    <2>7. Takes(p, h)
      BY <2>2, <2>3, <2>4, <2>6 DEF Takes, Loads, Saving, Harmless
    <2> QED BY <2>7
  <1>3. CASE RotateApiKey(p, t)
    <2>1. PICK h : h = [NoHandler EXCEPT !.pc = "rotate", !.t = t, !.row = rows[t],
                    !.patch = [key |-> minted + 1]]
      OBVIOUS
    <2>2. /\ IsHandler(h) /\ h.pc = "rotate" /\ h.t = t /\ h.row = rows[t]
          /\ h.patch = [key |-> minted + 1]
      BY <2>1 DEF NoHandler, IsHandler
    <2>3. Takes(p, h)
      BY <1>3, <2>1, <2>2 DEF RotateApiKey, Takes, Loads, Saving
    <2> QED BY <2>3
  <1>4. CASE RemoveTenant(p, t)
    <2>1. PICK h : h = [NoHandler EXCEPT !.pc = "remove", !.t = t]
      OBVIOUS
    <2>2. IsHandler(h) /\ h.pc = "remove" /\ h.t = t
      BY <2>1 DEF NoHandler, IsHandler
    <2>3. Takes(p, h)
      BY <1>4, <2>1, <2>2 DEF RemoveTenant, Takes, Loads, Saving
    <2> QED BY <2>3
  <1>5. CASE LoadTenant(p, t)
    <2>1. PICK h : h = [NoHandler EXCEPT !.pc = "pool", !.t = t, !.row = rows[t]]
      OBVIOUS
    <2>2. IsHandler(h) /\ h.pc = "pool" /\ h.t = t /\ h.row = rows[t]
      BY <2>1 DEF NoHandler, IsHandler
    <2>3. Passes(p, h)
      BY <1>5, <2>1, <2>2 DEF LoadTenant, Passes, Saving, historyVars, Shape, HandlerShape
    <2> QED BY <2>3
  <1>6. ASSUME NEW form \in Tabs \cup {"client", "modal"}, OpenForm(p, t, form)
        PROVE  \E h : Passes(p, h)
    <2>1. PICK r : r = Shown(form, rows[t])
      OBVIOUS
    <2>2. PICK as : as = IF form \in Tabs THEN rows[t].key ELSE Free
      OBVIOUS
    <2>3. PICK h : h = [NoHandler EXCEPT !.pc = "form", !.form = form, !.t = t, !.row = r,
                          !.as = as]
      OBVIOUS
    <2>4. /\ IsHandler(h) /\ h.pc = "form" /\ h.t = t /\ h.row = r /\ h.form = form
          /\ h.stale = FALSE
      BY <2>3 DEF NoHandler, IsHandler
    <2>5. IsRow(rows[t]) /\ rows[t] # Free
      BY <1>6 DEF OpenForm, Shape, HandlerShape
    <2>6. IsRow(r) /\ r.db = rows[t].db
      <3>1. CASE form = "prom"
        BY <2>1, <2>5, <3>1 DEF Shown
      <3>2. CASE form # "prom" /\ form \in Tabs
        <4>1. r = Sanitized(rows[t])
          BY <2>1, <3>2 DEF Shown
        <4> QED BY <2>5, <4>1 DEF Sanitized, IsRow, Fields
      <3>3. CASE form # "prom" /\ form \notin Tabs
        <4>1. r = Masked(rows[t])
          BY <2>1, <3>3 DEF Shown
        <4> QED BY <2>5, <4>1 DEF Masked, IsRow, Fields
      <3> QED BY <3>1, <3>2, <3>3
    <2>7. form = "client" => r.key = Dots /\ r.secret = Dots
      BY <2>1, <2>5 DEF Shown, Masked, IsRow, Fields, Tabs
    <2>8. req' = [req EXCEPT ![p] = h] /\ UNCHANGED <<rows, meant, minted, raced, revoked>>
      BY <1>6, <2>1, <2>2, <2>3 DEF OpenForm, historyVars
    <2>9. Passes(p, h)
      BY <2>4, <2>6, <2>7, <2>8 DEF Passes, Shows, Saving
    <2> QED BY <2>9
  <1> QED BY <1>1, <1>2, <1>3, <1>4, <1>5, <1>6

LEMMA SaveKinds ==
  ASSUME Shape, NEW p \in Handlers,
         SaveCreated(p) \/ SaveUpdate(p) \/ SaveRotated(p) \/ Removed(p) \/ GetPool(p) \/ Reveal(p)
  PROVE  Ends(p) \/ \E h : Passes(p, h)
  <1>0. p \in Processes /\ IsHandler(req[p])
    BY DEF Processes, Shape, HandlerShape
  <1>1. CASE SaveCreated(p) \/ SaveUpdate(p) \/ SaveRotated(p) \/ Removed(p)
    BY <1>1 DEF SaveCreated, SaveUpdate, SaveRotated, Removed, Ends, Saving
  <1>2. CASE GetPool(p)
    <2>1. PICK h : h = [req[p] EXCEPT !.pc = "lookup"]
      OBVIOUS
    <2>2. IsHandler(h) /\ h.pc = "lookup" /\ h.t = req[p].t
      BY <1>0, <2>1 DEF IsHandler
    <2>3. h.t \in Tenants
      BY <1>0, <1>2, <2>2 DEF GetPool, Shape, HandlerShape
    <2>4. req' = [req EXCEPT ![p] = h]
      BY <1>2, <2>1 DEF GetPool
    <2>5. Passes(p, h)
      BY <1>2, <2>2, <2>3, <2>4 DEF GetPool, Passes, Saving
    <2> QED BY <2>5
  <1>3. CASE Reveal(p)
    <2>1. PICK v : v = rows[req[p].t].secret
      OBVIOUS
    <2>2. PICK h : h = [req[p] EXCEPT !.row.secret = v]
      OBVIOUS
    <2>3. Shows(req[p]) /\ req[p].t \in Tenants /\ req[p].pc = "form" /\ req[p].form # "client"
      BY <1>0, <1>3 DEF Reveal, Shape, HandlerShape
    <2>4. /\ IsHandler(h) /\ h.pc = "form" /\ h.t = req[p].t /\ h.form = req[p].form
          /\ h.stale = req[p].stale /\ h.row = [req[p].row EXCEPT !.secret = v]
      BY <1>0, <2>2, <2>3 DEF IsHandler
    <2>5. IsRow(h.row) /\ h.row.db = req[p].row.db
      BY <2>3, <2>4 DEF Shows, IsRow, Fields
    <2>6. req' = [req EXCEPT ![p] = h]
      BY <1>3, <2>1, <2>2 DEF Reveal
    <2>7. UNCHANGED <<rows, meant, minted, raced, revoked>>
      BY <1>3 DEF Reveal, historyVars
    <2>8. Shows(h)
      BY <2>3, <2>4, <2>5 DEF Shows
    <2>9. Passes(p, h)
      BY <2>3, <2>4, <2>6, <2>7, <2>8 DEF Passes, Saving
    <2> QED BY <2>9
  <1> QED BY <1>1, <1>2, <1>3

(* What a form sends and a handler accepts changes the row as its user      *)
(* meant, unless the form was stale.                                        *)
LEMMA SubmitKinds ==
  ASSUME Shape, NEW p \in Handlers, NEW form, NEW f, NEW v, NEW payload,
         Submits(p, form, f, v, payload),
         Accepted(payload) =>
           /\ Harmless(Unmasked(payload))
           /\ \A r : IsRow(r) /\ (~req[p].stale => req[p].row.db = r.db) /\ ~req[p].stale
                => Overwrite(r, Unmasked(payload)) = Overwrite(r, Only(f, v))
  PROVE  \E h : Takes(p, h) \/ Passes(p, h)
  <1>0. p \in Processes /\ IsHandler(req[p])
    BY DEF Processes, Shape, HandlerShape
  <1>1. Shows(req[p]) /\ req[p].t \in Tenants /\ req[p].pc = "form"
    BY <1>0 DEF Submits, Shape, HandlerShape
  <1>2. PICK t : t = req[p].t
    OBVIOUS
  <1>3. CASE Admits(req[p].as, t) /\ Accepted(payload) /\ rows[t] # Free
    <2>1. PICK h : h = [NoHandler EXCEPT !.pc = "update", !.t = t,
                       !.row = rows[t], !.patch = payload, !.intent = Only(f, v)]
      OBVIOUS
    <2>2. /\ IsHandler(h) /\ h.pc = "update" /\ h.t = t /\ h.row = rows[t]
          /\ h.patch = payload /\ h.intent = Only(f, v)
      BY <2>1 DEF NoHandler, IsHandler
    <2>3. /\ req' = [req EXCEPT ![p] = h] /\ UNCHANGED <<rows, meant, minted, revoked>>
          /\ raced' = IF req[p].stale \/ \E q \in Processes \ {p} : Busy(q, t)
                      THEN raced \cup {t} ELSE raced
      BY <1>2, <1>3, <2>1 DEF Submits
    <2>4. IsRow(rows[t])
      BY <1>1, <1>2, <1>3 DEF Shape, HandlerShape
    <2>5. ~req[p].stale => req[p].row.db = rows[t].db
      BY <1>1, <1>2, <1>3 DEF Shows
    <2>6. t \notin raced' =>
            Overwrite(rows[t], Unmasked(payload)) = Overwrite(rows[t], Only(f, v))
      BY <1>3, <2>3, <2>4, <2>5
    <2>7. Takes(p, h)
      BY <1>1, <1>2, <1>3, <2>2, <2>3, <2>6 DEF Takes, Saving
    <2> QED BY <2>7
  <1>4. CASE ~(Admits(req[p].as, t) /\ Accepted(payload) /\ rows[t] # Free)
    <2>1. Passes(p, NoHandler)
      BY <1>2, <1>4, IdleHandler DEF Submits, Passes, Saving
    <2> QED BY <2>1
  <1> QED BY <1>3, <1>4

(* What a form's payload changes.                                           *)
LEMMA UnmaskedFacts ==
  ASSUME NEW payload
  PROVE  /\ DOMAIN Unmasked(payload) = {x \in DOMAIN payload : payload[x] \notin Masks}
         /\ \A x \in DOMAIN Unmasked(payload) : Unmasked(payload)[x] = payload[x]
  BY DEF Unmasked, Restrict

(* The tabs send one field, the one that was edited.                        *)
LEMMA TabKinds ==
  ASSUME Shape, NEW p \in Handlers, NEW form, NEW f \in {"db", "secret"},
         NEW v, v \notin Masks, f = "db" => v \in Databases,
         NEW payload, DOMAIN payload = {f}, payload[f] = v,
         Submits(p, form, f, v, payload)
  PROVE  \E h : Takes(p, h) \/ Passes(p, h)
  <1>1. DOMAIN Unmasked(payload) = {f} /\ Unmasked(payload)[f] = v
    BY UnmaskedFacts
  <1>2. DOMAIN Only(f, v) = {f} /\ Only(f, v)[f] = v
    BY DEF Only
  <1>3. \A r : Overwrite(r, Unmasked(payload)) = Overwrite(r, Only(f, v))
    BY <1>1, <1>2 DEF Overwrite
  <1>4. Harmless(Unmasked(payload))
    BY <1>1 DEF Harmless
  <1>5. Accepted(payload) =>
           /\ Harmless(Unmasked(payload))
           /\ \A r : IsRow(r) /\ (~req[p].stale => req[p].row.db = r.db) /\ ~req[p].stale
                => Overwrite(r, Unmasked(payload)) = Overwrite(r, Only(f, v))
    BY <1>3, <1>4
  <1> QED BY <1>5, SubmitKinds

LEMMA TypedFacts ==
  ASSUME NEW h, NEW v, v \notin Masks
  PROVE  DOMAIN Typed(h, "secret", v) = {"secret"} /\ Typed(h, "secret", v)["secret"] = v
  <1>1. PICK o : o = Overwrite(h.row, Only("secret", v))
    OBVIOUS
  <1>2. DOMAIN o = Fields /\ o["secret"] = v
    BY <1>1 DEF Overwrite, Only, Fields
  <1>3. PICK r : r = Restrict(o, {"secret"})
    OBVIOUS
  <1>4. DOMAIN r = {"secret"} /\ r["secret"] = v
    BY <1>2, <1>3 DEF Restrict
  <1>5. Typed(h, "secret", v) = Unmasked(r)
    BY <1>1, <1>3 DEF Typed
  <1> QED BY <1>4, <1>5, UnmaskedFacts

LEMMA BackKinds ==
  ASSUME Shape, NEW p \in Handlers, NEW f \in {"db", "secret"}, NEW v, v \notin Masks,
         f = "db" => v \in Databases, SendBack(p, f, v)
  PROVE  \E h : Takes(p, h) \/ Passes(p, h)
  <1>0. p \in Processes
    BY DEF Processes
  <1>1. PICK o : o = Overwrite(req[p].row, Only(f, v))
    OBVIOUS
  <1>2. PICK payload : payload = Restrict(o, Fields \ {"synced"})
    OBVIOUS
  <1>3. Submits(p, "client", f, v, payload)
    BY <1>1, <1>2 DEF SendBack
  <1>4. req[p].row.key = Dots /\ req[p].row.secret = Dots
    BY <1>0, <1>3 DEF Submits, Shape, HandlerShape, Shows
  <1>5. /\ DOMAIN o = Fields /\ o[f] = v
        /\ \A x \in Fields \ {f} : o[x] = req[p].row[x]
    BY <1>1 DEF Overwrite, Only, Fields
  <1>6. DOMAIN payload = {"db", "secret", "key"} /\ \A x \in DOMAIN payload : payload[x] = o[x]
    BY <1>2 DEF Restrict, Fields
  <1>7. /\ DOMAIN Unmasked(payload) = {x \in DOMAIN payload : payload[x] \notin Masks}
        /\ \A x \in DOMAIN Unmasked(payload) : Unmasked(payload)[x] = payload[x]
    BY UnmaskedFacts
  <1>8. payload["key"] = Dots /\ payload[f] = v /\ (f # "secret" => payload["secret"] = Dots)
        /\ (f # "db" => payload["db"] = req[p].row.db)
    BY <1>4, <1>5, <1>6 DEF Fields
  <1>9. "key" \notin DOMAIN Unmasked(payload)
    BY <1>7, <1>8 DEF Masks
  <1>10. ASSUME NEW r, req[p].row.db = r.db
         PROVE  Overwrite(r, Unmasked(payload)) = Overwrite(r, Only(f, v))
    <2>1. f \in DOMAIN Unmasked(payload) /\ Unmasked(payload)[f] = v
      BY <1>6, <1>7, <1>8
    <2>2. \A x \in DOMAIN Unmasked(payload) \ {f} : x = "db" /\ Unmasked(payload)[x] = r.db
      BY <1>6, <1>7, <1>8, <1>9, <1>10 DEF Masks
    <2>3. DOMAIN Only(f, v) = {f} /\ Only(f, v)[f] = v
      BY DEF Only
    <2> QED BY <2>1, <2>2, <2>3 DEF Overwrite
  <1>11. Harmless(Unmasked(payload))
    <2>1. req[p].row.db \in Databases
      BY <1>0, <1>3 DEF Submits, Shape, HandlerShape, Shows, IsRow
    <2> QED BY <1>7, <1>8, <1>9, <2>1 DEF Harmless
  <1>12. Accepted(payload) =>
           /\ Harmless(Unmasked(payload))
           /\ \A r : IsRow(r) /\ (~req[p].stale => req[p].row.db = r.db) /\ ~req[p].stale
                => Overwrite(r, Unmasked(payload)) = Overwrite(r, Only(f, v))
    BY <1>10, <1>11
  <1> QED BY <1>3, <1>12, SubmitKinds

(* The administrator's form sends the whole answer, which is refused.       *)
LEMMA ModalKinds ==
  ASSUME Shape, NEW p \in Handlers, NEW f, NEW v, SaveModal(p, f, v)
  PROVE  \E h : Takes(p, h) \/ Passes(p, h)
  <1>1. "id" \in DOMAIN ModalPayload(req[p], f, v) /\ "id" \notin Fields
    BY DEF ModalPayload, Extra, Fields
  <1>2. ~Accepted(ModalPayload(req[p], f, v))
    BY <1>1 DEF Accepted
  <1>3. Passes(p, NoHandler)
    BY <1>2, IdleHandler DEF SaveModal, Submits, Passes, Saving
  <1> QED BY <1>3

LEMMA FormKinds ==
  ASSUME Shape, NEW p \in Handlers,
         \/ \E db \in Databases :
              SaveSettingsTab(p, db) \/ SendBack(p, "db", db) \/ SaveModal(p, "db", db)
         \/ \E s \in Secrets :
              \/ SaveHoroshopTab(p, s) \/ SavePromTab(p, s) \/ SaveRozetkaTab(p, s)
              \/ SaveWooTab(p, s) \/ SendBack(p, "secret", s) \/ SaveModal(p, "secret", s)
  PROVE  \E h : Takes(p, h) \/ Passes(p, h)
  <1>0. \A v \in Databases \cup Secrets : v \notin Masks
    BY RegistryAssumption DEF RegistryAssumption, Masks
  <1>1. ASSUME NEW db \in Databases, SaveSettingsTab(p, db)
        PROVE  \E h : Takes(p, h) \/ Passes(p, h)
    <2>1. DOMAIN Only("db", db) = {"db"} /\ Only("db", db)["db"] = db
      BY DEF Only
    <2>2. Submits(p, "settings", "db", db, Only("db", db)) /\ db \notin Masks
      BY <1>0, <1>1 DEF SaveSettingsTab
    <2> QED BY <2>1, <2>2, TabKinds
  <1>2. ASSUME NEW s \in Secrets,
               \/ SaveHoroshopTab(p, s) \/ SavePromTab(p, s)
               \/ SaveRozetkaTab(p, s) \/ SaveWooTab(p, s)
        PROVE  \E h : Takes(p, h) \/ Passes(p, h)
    <2>1. s \notin Masks
      BY <1>0
    <2>2. /\ DOMAIN Typed(req[p], "secret", s) = {"secret"}
          /\ Typed(req[p], "secret", s)["secret"] = s
      BY <2>1, TypedFacts
    <2>3. PICK payload : payload = Typed(req[p], "secret", s)
      OBVIOUS
    <2>4. PICK form : Submits(p, form, "secret", s, payload)
      BY <1>2, <2>3 DEF SaveHoroshopTab, SavePromTab, SaveRozetkaTab, SaveWooTab
    <2> QED BY <2>1, <2>2, <2>3, <2>4, TabKinds
  <1>3. ASSUME NEW db \in Databases, SendBack(p, "db", db) \/ SaveModal(p, "db", db)
        PROVE  \E h : Takes(p, h) \/ Passes(p, h)
    BY <1>0, <1>3, BackKinds, ModalKinds
  <1>4. ASSUME NEW s \in Secrets, SendBack(p, "secret", s) \/ SaveModal(p, "secret", s)
        PROVE  \E h : Takes(p, h) \/ Passes(p, h)
    BY <1>0, <1>4, BackKinds, ModalKinds
  <1> QED BY <1>1, <1>2, <1>3, <1>4

LEMMA LookupKinds ==
  ASSUME Shape, NEW p \in Processes, FindIntegration(p) \/ CreateIntegration(p)
  PROVE  \E h : Passes(p, h)
  <1>1. CASE FindIntegration(p)
    <2>1. PICK h : h = [req[p] EXCEPT !.pc = "insert"]
      OBVIOUS
    <2>2. IsHandler(h) /\ h.pc = "insert" /\ h.t = req[p].t
      <3>1. IsHandler(req[p])
        BY DEF Shape, HandlerShape
      <3> QED BY <2>1, <3>1 DEF IsHandler
    <2>3. h.t \in Tenants
      BY <1>1, <2>2 DEF FindIntegration, Shape, HandlerShape
    <2>4. CASE req' = [req EXCEPT ![p] = NoHandler]
      BY <1>1, <2>4, IdleHandler DEF FindIntegration, Passes, Saving
    <2>5. CASE req' = [req EXCEPT ![p] = h]
      BY <1>1, <2>2, <2>3, <2>5 DEF FindIntegration, Passes, Saving
    <2> QED BY <1>1, <2>1, <2>4, <2>5 DEF FindIntegration
  <1>2. CASE CreateIntegration(p)
    BY <1>2, IdleHandler DEF CreateIntegration, Passes, Saving, historyVars
  <1> QED BY <1>1, <1>2

(* Every step is of one of these kinds.                                     *)
LEMMA NextKinds ==
  ASSUME Shape, [RegistryNext]_registryVars
  PROVE  Rests \/ Restarts \/ \E p \in Processes : Ends(p) \/ \E h : Takes(p, h) \/ Passes(p, h)
  <1>0. Handlers \subseteq Processes
    BY DEF Processes
  <1>1. CASE UNCHANGED registryVars
    BY <1>1 DEF registryVars, Rests
  <1>2. CASE SeedLooks \/ SeedSaves \/ MigrationSaves \/ MigrationEnds
               \/ \E t \in Tenants : MigrationLooks(t)
    BY <1>2, StartKinds
  <1>3. CASE RegistryRestart
    BY <1>3 DEF RegistryRestart, Restarts
  <1>4. ASSUME NEW p \in Handlers, NEW t \in Tenants,
         \/ \E db \in Databases, s \in Secrets : Create(p, t, db, s)
         \/ StoreLastSync(p, t) \/ RotateApiKey(p, t) \/ RemoveTenant(p, t) \/ LoadTenant(p, t)
         \/ \E form \in Tabs \cup {"client", "modal"} : OpenForm(p, t, form)
        PROVE  \E h : Takes(p, h) \/ Passes(p, h)
    BY <1>4, ServiceKinds
  <1>5. ASSUME NEW p \in Handlers,
         \/ SaveCreated(p) \/ SaveUpdate(p) \/ SaveRotated(p) \/ Removed(p) \/ GetPool(p)
         \/ Reveal(p)
        PROVE  Ends(p) \/ \E h : Passes(p, h)
    BY <1>5, SaveKinds
  <1>6. ASSUME NEW p \in Handlers,
         \/ \E db \in Databases :
              SaveSettingsTab(p, db) \/ SendBack(p, "db", db) \/ SaveModal(p, "db", db)
         \/ \E s \in Secrets :
              \/ SaveHoroshopTab(p, s) \/ SavePromTab(p, s) \/ SaveRozetkaTab(p, s)
              \/ SaveWooTab(p, s) \/ SendBack(p, "secret", s) \/ SaveModal(p, "secret", s)
        PROVE  \E h : Takes(p, h) \/ Passes(p, h)
    BY <1>6, FormKinds
  <1>7. ASSUME NEW p \in Processes, FindIntegration(p) \/ CreateIntegration(p)
        PROVE  \E h : Passes(p, h)
    BY <1>7, LookupKinds
  <1>8. CASE RegistryNext
    BY <1>0, <1>2, <1>3, <1>4, <1>5, <1>6, <1>7, <1>8 DEF RegistryNext
  <1> QED BY <1>1, <1>8

LEMMA ToDoShrinks ==
  ASSUME Shape, [RegistryNext]_registryVars
  PROVE  todo' \subseteq Legacy /\ DOMAIN pools' = Tenants
  <1>0. \A t, db : DOMAIN PoolFor(t, db) = DOMAIN pools
    BY DEF PoolFor
  <1>1. CASE UNCHANGED registryVars
    BY <1>1 DEF Shape, HandlerShape, registryVars
  <1>2. CASE SeedLooks \/ SeedSaves \/ MigrationSaves \/ MigrationEnds \/ RegistryRestart
               \/ \E t \in Tenants : MigrationLooks(t)
    BY <1>2 DEF Shape, SeedLooks, SeedSaves, MigrationSaves, MigrationEnds, RegistryRestart,
      MigrationLooks
  <1>3. ASSUME NEW p \in Handlers, NEW t \in Tenants,
               \/ \E db \in Databases, s \in Secrets : Create(p, t, db, s)
               \/ StoreLastSync(p, t) \/ RotateApiKey(p, t) \/ RemoveTenant(p, t)
               \/ LoadTenant(p, t)
               \/ \E form \in Tabs \cup {"client", "modal"} : OpenForm(p, t, form)
        PROVE  UNCHANGED <<todo, pools>>
    BY <1>3 DEF Create, StoreLastSync, RotateApiKey, RemoveTenant, LoadTenant, OpenForm
  <1>4. ASSUME NEW p \in Handlers, SaveCreated(p) \/ SaveUpdate(p) \/ SaveRotated(p)
                                     \/ Removed(p) \/ GetPool(p) \/ Reveal(p)
        PROVE  todo' = todo /\ DOMAIN pools' = DOMAIN pools
    BY <1>0, <1>4 DEF SaveCreated, SaveUpdate, SaveRotated, Removed, GetPool, Reveal
  <1>5. \A p, form, f, v, payload :
          Submits(p, form, f, v, payload) => UNCHANGED <<todo, pools>>
    BY DEF Submits
  <1>6. ASSUME NEW p \in Handlers,
         \/ \E db \in Databases :
              SaveSettingsTab(p, db) \/ SendBack(p, "db", db) \/ SaveModal(p, "db", db)
         \/ \E s \in Secrets :
              \/ SaveHoroshopTab(p, s) \/ SavePromTab(p, s) \/ SaveRozetkaTab(p, s)
              \/ SaveWooTab(p, s) \/ SendBack(p, "secret", s) \/ SaveModal(p, "secret", s)
        PROVE  UNCHANGED <<todo, pools>>
    BY <1>5, <1>6 DEF SaveSettingsTab, SaveHoroshopTab, SavePromTab, SaveRozetkaTab,
      SaveWooTab, SendBack, SaveModal
  <1>7. ASSUME NEW p \in Processes, FindIntegration(p) \/ CreateIntegration(p)
        PROVE  UNCHANGED <<todo, pools>>
    BY <1>7 DEF FindIntegration, CreateIntegration
  <1>8. CASE RegistryNext
    BY <1>2, <1>3, <1>4, <1>6, <1>7, <1>8 DEF RegistryNext, Shape, HandlerShape
  <1> QED BY <1>1, <1>8

(* The handlers that a save leaves alone, but for the mark on the forms.    *)
SameHandler(h, g) ==
  /\ g.pc = h.pc /\ g.t = h.t /\ g.row = h.row /\ g.patch = h.patch /\ g.form = h.form
  /\ g.intent = h.intent /\ (g.stale = h.stale \/ g.stale)

(* The rows that the five kinds of edits write.                             *)
Wrote(p, t, row, intended) ==
  \/ /\ req[p].pc = "seed" /\ minted' = minted + 1 /\ revoked' = revoked
     /\ row.key = minted + 1 /\ intended = row
  \/ /\ req[p].pc = "migrate" /\ minted' = minted /\ revoked' = revoked \ {0}
     /\ row.key = 0 /\ intended = row /\ t \in Legacy
  \/ /\ req[p].pc = "create" /\ minted' = minted /\ revoked' = revoked
     /\ row = req[p].row /\ intended = row
  \/ /\ req[p].pc = "update" /\ minted' = minted /\ revoked' = revoked
     /\ row.key = req[p].row.key
     /\ row = Overwrite(req[p].row, Unmasked(req[p].patch))
     /\ intended = Overwrite(IF meant[t] = Free THEN req[p].row ELSE meant[t], req[p].intent)
  \/ /\ req[p].pc = "rotate" /\ minted' = minted /\ revoked' = revoked \cup {req[p].row.key}
     /\ row.key = req[p].patch.key
     /\ row = Overwrite(req[p].row, req[p].patch)
     /\ intended = Overwrite(IF meant[t] = Free THEN req[p].row ELSE meant[t], req[p].patch)

(* What an edit saves, whoever made it.                                     *)
LEMMA EndsSave ==
  ASSUME Shape, NEW p \in Processes, Ends(p)
  PROVE  \/ /\ req[p].pc = "remove" /\ minted' = minted /\ revoked' = revoked
            /\ rows' = [rows EXCEPT ![req[p].t] = Free]
            /\ meant' = [meant EXCEPT ![req[p].t] = Free]
            /\ req' = [req EXCEPT ![p] = NoHandler]
         \/ \E row, intended, next :
              /\ Saves(p, req[p].t, row, intended, next)
              /\ IsRow(row) /\ IsHandler(next) /\ next.pc \in {"idle", "done", "lookup"}
              /\ next.pc = "lookup" => next.t = req[p].t
              /\ Wrote(p, req[p].t, row, intended)
  <1> DEFINE h == req[p]
  <1>0. /\ h.t \in Tenants
        /\ h.pc = "seed" => h.t = Columb
        /\ h.pc = "migrate" => h.t \in Legacy
    BY DEF Ends, Saving, Shape, HandlerShape
  <1>1. CASE h.pc = "seed"
    <2>1. PICK next : next = [NoHandler EXCEPT !.pc = "done"]
      OBVIOUS
    <2>2. IsHandler(next) /\ next.pc = "done"
      BY <2>1 DEF NoHandler, IsHandler
    <2>3. PICK row : row = FirstRow(minted + 1)
      OBVIOUS
    <2>4. IsRow(row) /\ row.key = minted + 1
      BY <2>3, FirstRowFacts
    <2>5. /\ Saves(p, h.t, row, row, next) /\ minted' = minted + 1 /\ revoked' = revoked
      BY <1>0, <1>1, <2>1, <2>3 DEF Ends
    <2> QED BY <1>0, <1>1, <2>2, <2>4, <2>5 DEF Wrote
  <1>2. CASE h.pc = "migrate"
    <2>1. PICK next : next = [NoHandler EXCEPT !.pc = "lookup", !.t = h.t]
      OBVIOUS
    <2>2. IsHandler(next) /\ next.pc = "lookup" /\ next.t = h.t
      BY <2>1 DEF NoHandler, IsHandler
    <2>3. PICK row : row = FirstRow(0)
      OBVIOUS
    <2>4. IsRow(row) /\ row.key = 0
      BY <2>3, FirstRowFacts
    <2>5. Saves(p, h.t, row, row, next) /\ minted' = minted /\ revoked' = revoked \ {0}
      BY <1>2, <2>1, <2>3 DEF Ends
    <2> QED BY <1>0, <1>2, <2>2, <2>4, <2>5 DEF Wrote
  <1>3. CASE h.pc = "create"
    <2>1. IsRow(h.row)
      BY <1>3 DEF Shape, HandlerShape
    <2>2. Saves(p, h.t, h.row, h.row, NoHandler) /\ minted' = minted /\ revoked' = revoked
      BY <1>3 DEF Ends
    <2> QED BY <1>3, <2>1, <2>2, IdleHandler DEF Wrote
  <1>4. CASE h.pc = "update"
    <2>1. PICK row : row = Overwrite(h.row, Unmasked(h.patch))
      OBVIOUS
    <2>2. IsRow(row) /\ row.key = h.row.key
      <3>1. IsRow(h.row) /\ Harmless(Unmasked(h.patch))
        BY <1>4 DEF Shape, HandlerShape
      <3> QED BY <2>1, <3>1, OverwriteFacts DEF Harmless
    <2>3. PICK intended : intended = Overwrite(IF meant[h.t] = Free THEN h.row
                                               ELSE meant[h.t], h.intent)
      OBVIOUS
    <2>4. Saves(p, h.t, row, intended, NoHandler) /\ minted' = minted /\ revoked' = revoked
      BY <1>4, <2>1, <2>3 DEF Ends
    <2> QED BY <1>4, <2>1, <2>2, <2>3, <2>4, IdleHandler DEF Wrote
  <1>5. CASE h.pc = "rotate"
    <2>1. PICK row : row = Overwrite(h.row, h.patch)
      OBVIOUS
    <2>2. IsRow(row) /\ row.key = h.patch.key
      <3>1. h.patch = [key |-> h.patch.key]
        BY <1>5 DEF Shape, HandlerShape
      <3>2. "key" \in DOMAIN h.patch /\ "db" \notin DOMAIN h.patch
        BY <3>1
      <3>3. IsRow(h.row)
        BY <1>5 DEF Shape, HandlerShape
      <3>4. IsRow(row) /\ row.key = h.patch["key"]
        BY <2>1, <3>2, <3>3, OverwriteFacts
      <3> QED BY <3>4
    <2>3. PICK intended : intended = Overwrite(IF meant[h.t] = Free THEN h.row
                                               ELSE meant[h.t], h.patch)
      OBVIOUS
    <2>4. /\ Saves(p, h.t, row, intended, NoHandler) /\ minted' = minted
          /\ revoked' = revoked \cup {h.row.key}
      BY <1>5, <2>1, <2>3 DEF Ends
    <2> QED BY <1>5, <2>1, <2>2, <2>3, <2>4, IdleHandler DEF Wrote
  <1>6. CASE h.pc = "remove"
    BY <1>6 DEF Ends
  <1> QED BY <1>1, <1>2, <1>3, <1>4, <1>5, <1>6 DEF Ends, Saving

(* What a save leaves of the handlers and of the rows.                      *)
LEMMA SavesFacts ==
  ASSUME Shape, NEW p \in Processes, NEW t \in Tenants, NEW row, NEW intended, NEW next,
         Saves(p, t, row, intended, next), IsRow(row), IsHandler(next)
  PROVE  /\ DOMAIN req' = Processes /\ req'[p] = next
         /\ \A q \in Processes \ {p} : /\ IsHandler(req'[q]) /\ SameHandler(req[q], req'[q])
                                       /\ req[q].pc = "form" /\ req[q].t = t => req'[q].stale
         /\ DOMAIN rows' = Tenants /\ DOMAIN meant' = Tenants
         /\ \A u \in Tenants \ {t} : rows'[u] = rows[u] /\ meant'[u] = meant[u]
         /\ \/ KeyFree(t, row) /\ rows'[t] = row /\ meant'[t] = intended
            \/ ~KeyFree(t, row) /\ rows'[t] = rows[t] /\ meant'[t] = meant[t]
  <1>1. DOMAIN req' = Processes /\ req'[p] = next
    BY DEF Saves
  <1>2. ASSUME NEW q \in Processes \ {p}
        PROVE  /\ IsHandler(req'[q]) /\ SameHandler(req[q], req'[q])
               /\ req[q].pc = "form" /\ req[q].t = t => req'[q].stale
    <2>1. PICK h : h = req[q]
      OBVIOUS
    <2>2. IsHandler(h)
      BY <2>1 DEF Shape, HandlerShape
    <2>3. CASE h.t = t /\ h.pc = "form"
      <3>1. PICK g : g = [h EXCEPT !.stale = TRUE]
        OBVIOUS
      <3>2. req'[q] = g
        BY <2>1, <2>3, <3>1 DEF Saves
      <3>3. IsHandler(g) /\ SameHandler(h, g) /\ g.stale
        BY <2>2, <3>1 DEF IsHandler, SameHandler
      <3> QED BY <2>1, <2>2, <2>3, <3>1, <3>2, <3>3 DEF IsHandler, SameHandler
    <2>4. CASE ~(h.t = t /\ h.pc = "form")
      <3>1. req'[q] = h
        BY <2>1, <2>4 DEF Saves
      <3> QED BY <2>1, <2>2, <2>4, <3>1 DEF SameHandler
    <2> QED BY <2>3, <2>4
  <1>3. /\ DOMAIN rows' = Tenants /\ DOMAIN meant' = Tenants
        /\ \A u \in Tenants \ {t} : rows'[u] = rows[u] /\ meant'[u] = meant[u]
        /\ \/ KeyFree(t, row) /\ rows'[t] = row /\ meant'[t] = intended
           \/ ~KeyFree(t, row) /\ rows'[t] = rows[t] /\ meant'[t] = meant[t]
    BY DEF Saves, Shape, HandlerShape
  <1> QED BY <1>1, <1>2, <1>3

LEMMA ShapeNext ==
  ASSUME Shape, [RegistryNext]_registryVars
  PROVE  Shape'
  <1>0. todo' \subseteq Legacy /\ DOMAIN pools' = Tenants
    BY ToDoShrinks
  <1>1. SUFFICES /\ DOMAIN rows' = Tenants /\ DOMAIN meant' = Tenants
                 /\ \A t \in Tenants : rows'[t] # Free => IsRow(rows'[t])
                 /\ DOMAIN req' = Processes /\ \A q \in Processes : HandlerShape(req[q])'
                 /\ minted' \in Nat
    BY <1>0 DEF Shape, IsRow
  <1>2. CASE Rests
    BY <1>2 DEF Rests, Shape, HandlerShape, Shows
  <1>3. CASE Restarts
    <2>1. ASSUME NEW q \in Processes
          PROVE  HandlerShape(req[q])'
      <3>1. req'[q] = req[q] \/ req'[q] = NoHandler
        BY <1>3 DEF Restarts
      <3>2. CASE req'[q] = req[q]
        BY <1>3, <3>2 DEF Restarts, Shape, HandlerShape, Shows
      <3>3. CASE req'[q] = NoHandler
        BY <3>3, IdleHandler DEF HandlerShape
      <3> QED BY <3>1, <3>2, <3>3
    <2> QED BY <1>3, <2>1 DEF Restarts, Shape
  <1>4. ASSUME NEW p \in Processes, NEW h, Passes(p, h)
        PROVE  /\ UNCHANGED <<rows, meant>> /\ minted' \in Nat
               /\ DOMAIN req' = Processes /\ \A q \in Processes : HandlerShape(req[q])'
    <2>1. ASSUME NEW q \in Processes
          PROVE  HandlerShape(req[q])'
      <3>1. CASE q = p
        <4>1. req'[q] = h /\ rows' = rows
          BY <1>4, <3>1 DEF Passes, Shape
        <4>2. h.pc = "pool" => IsRow(h.row)
          BY <1>4 DEF Passes, Shape
        <4> QED BY <1>4, <4>1, <4>2 DEF Passes, HandlerShape, Shows, Saving
      <3>2. CASE q # p
        BY <1>4, <3>2 DEF Passes, Shape, HandlerShape, Shows
      <3> QED BY <3>1, <3>2
    <2> QED BY <1>4, <2>1 DEF Passes, Shape
  <1>5. ASSUME NEW p \in Processes, NEW h, Takes(p, h)
        PROVE  /\ UNCHANGED <<rows, meant>> /\ minted' \in Nat
               /\ DOMAIN req' = Processes /\ \A q \in Processes : HandlerShape(req[q])'
    <2>1. ASSUME NEW q \in Processes
          PROVE  HandlerShape(req[q])'
      <3>1. CASE q = p
        <4>1. req'[q] = h /\ rows' = rows
          BY <1>5, <3>1 DEF Takes, Shape
        <4>2. h.pc = "rotate" => h.patch = [key |-> h.patch.key]
          BY <1>5 DEF Takes
        <4>3. h.pc \in {"create", "update", "rotate"} => IsRow(h.row)
          BY <1>5 DEF Takes, Shape
        <4> QED BY <1>5, <4>1, <4>2, <4>3 DEF Takes, HandlerShape, Saving
      <3>2. CASE q # p
        BY <1>5, <3>2 DEF Takes, Shape, HandlerShape, Shows
      <3> QED BY <3>1, <3>2
    <2> QED BY <1>5, <2>1 DEF Takes, Shape
  <1>6. ASSUME NEW p \in Processes, Ends(p)
        PROVE  /\ DOMAIN rows' = Tenants /\ DOMAIN meant' = Tenants
               /\ \A t \in Tenants : rows'[t] # Free => IsRow(rows'[t])
               /\ DOMAIN req' = Processes /\ \A q \in Processes : HandlerShape(req[q])'
               /\ minted' \in Nat
    <2>0. PICK t : t = req[p].t
      OBVIOUS
    <2>1. t \in Tenants
      BY <1>6, <2>0 DEF Ends, Saving, Shape, HandlerShape
    <2>2. CASE /\ req[p].pc = "remove" /\ minted' = minted
               /\ rows' = [rows EXCEPT ![t] = Free] /\ meant' = [meant EXCEPT ![t] = Free]
               /\ req' = [req EXCEPT ![p] = NoHandler]
      <3>1. ASSUME NEW q \in Processes
            PROVE  HandlerShape(req[q])'
        <4>1. CASE q = p
          BY <2>2, <4>1, IdleHandler DEF HandlerShape, Shape
        <4>2. CASE q # p
          BY <2>2, <4>2 DEF Shape, HandlerShape, Shows
        <4> QED BY <4>1, <4>2
      <3> QED BY <2>2, <3>1 DEF Shape
    <2>3. ASSUME NEW row, NEW intended, NEW next, Saves(p, t, row, intended, next),
                 IsRow(row), IsHandler(next), next.pc \in {"idle", "done", "lookup"},
                 next.pc = "lookup" => next.t = t
          PROVE  /\ DOMAIN rows' = Tenants /\ DOMAIN meant' = Tenants
                 /\ \A u \in Tenants : rows'[u] # Free => IsRow(rows'[u])
                 /\ DOMAIN req' = Processes /\ \A q \in Processes : HandlerShape(req[q])'
      <3>1. /\ DOMAIN req' = Processes /\ req'[p] = next
            /\ \A q \in Processes \ {p} : /\ IsHandler(req'[q]) /\ SameHandler(req[q], req'[q])
                                          /\ req[q].pc = "form" /\ req[q].t = t => req'[q].stale
            /\ DOMAIN rows' = Tenants /\ DOMAIN meant' = Tenants
            /\ \A u \in Tenants \ {t} : rows'[u] = rows[u] /\ meant'[u] = meant[u]
            /\ \/ KeyFree(t, row) /\ rows'[t] = row /\ meant'[t] = intended
               \/ ~KeyFree(t, row) /\ rows'[t] = rows[t] /\ meant'[t] = meant[t]
        BY <2>1, <2>3, SavesFacts
      <3>2. ASSUME NEW q \in Processes
            PROVE  HandlerShape(req[q])'
        <4>1. CASE q = p
          BY <2>1, <2>3, <3>1, <4>1 DEF HandlerShape
        <4>2. CASE q # p
          <5>1. HandlerShape(req[q])
            BY DEF Shape
          <5>2. /\ IsHandler(req'[q]) /\ SameHandler(req[q], req'[q])
                /\ req[q].pc = "form" /\ req[q].t = t => req'[q].stale
            BY <3>1, <4>2
          <5>3. req[q].pc = "form" => Shows(req[q])'
            <6>1. CASE req[q].pc = "form" /\ req[q].t = t
              BY <5>1, <5>2, <6>1 DEF HandlerShape, Shows, SameHandler
            <6>2. CASE req[q].pc = "form" /\ req[q].t # t
              <7>1. rows'[req[q].t] = rows[req[q].t]
                BY <3>1, <5>1, <6>2 DEF HandlerShape
              <7> QED BY <5>1, <5>2, <6>2, <7>1 DEF HandlerShape, Shows, SameHandler
            <6> QED BY <6>1, <6>2
          <5> QED BY <5>1, <5>2, <5>3 DEF HandlerShape, SameHandler
        <4> QED BY <4>1, <4>2
      <3> QED BY <2>3, <3>1, <3>2 DEF Shape
    <2>4. minted' \in Nat
      <3>1. minted' = minted \/ minted' = minted + 1
        BY <1>6 DEF Ends
      <3> QED BY <3>1 DEF Shape
    <2>5. \/ /\ req[p].pc = "remove" /\ minted' = minted
             /\ rows' = [rows EXCEPT ![t] = Free] /\ meant' = [meant EXCEPT ![t] = Free]
             /\ req' = [req EXCEPT ![p] = NoHandler]
          \/ \E row, intended, next :
               /\ Saves(p, t, row, intended, next)
               /\ IsRow(row) /\ IsHandler(next) /\ next.pc \in {"idle", "done", "lookup"}
               /\ next.pc = "lookup" => next.t = t
      BY <1>6, <2>0, EndsSave
    <2> QED BY <2>2, <2>3, <2>4, <2>5
  <1> QED BY <1>2, <1>3, <1>4, <1>5, <1>6, NextKinds DEF Shape

-----------------------------------------------------------------------------
(* What a step does to the rows and to the handlers that may still save.    *)

Keeps(q) == req'[q].pc \notin Saving \/ SameHandler(req[q], req'[q])

Quiet ==
  /\ \A q \in Processes : Keeps(q)
  /\ UNCHANGED <<rows, meant, minted, revoked>> /\ raced \subseteq raced'

Clears(p, t) ==
  /\ Busy(p, t) /\ req'[p].pc \notin Saving /\ \A q \in Processes : Keeps(q)
  /\ UNCHANGED <<minted, revoked, raced>>
  /\ rows' = [rows EXCEPT ![t] = Free] /\ meant' = [meant EXCEPT ![t] = Free]

Writes(p, t, row, intended) ==
  /\ Busy(p, t) /\ req'[p].pc \notin Saving /\ \A q \in Processes : Keeps(q)
  /\ raced' = raced /\ IsRow(row)
  /\ \A u \in Tenants \ {t} : rows'[u] = rows[u] /\ meant'[u] = meant[u]
  /\ \/ KeyFree(t, row) /\ rows'[t] = row /\ meant'[t] = intended
     \/ ~KeyFree(t, row) /\ rows'[t] = rows[t] /\ meant'[t] = meant[t]
  /\ Wrote(p, t, row, intended)

LEMMA EndEffects ==
  ASSUME Shape, NEW p \in Processes, Ends(p)
  PROVE  \E t \in Tenants : Clears(p, t) \/ \E row, intended : Writes(p, t, row, intended)
  <1>0. PICK t : t = req[p].t
    OBVIOUS
  <1>1. t \in Tenants /\ (req[p].pc = "migrate" => t \in Legacy)
    BY <1>0 DEF Ends, Saving, Shape, HandlerShape
  <1>2. req[p].pc \in Saving /\ raced' = raced
    BY DEF Ends
  <1>3. Busy(p, t)
    BY <1>0, <1>2 DEF Busy, Saving
  <1>4. CASE /\ req[p].pc = "remove" /\ minted' = minted /\ revoked' = revoked
             /\ rows' = [rows EXCEPT ![t] = Free] /\ meant' = [meant EXCEPT ![t] = Free]
             /\ req' = [req EXCEPT ![p] = NoHandler]
    <2>1. req'[p].pc \notin Saving
      BY <1>4, IdleHandler DEF Saving, Shape
    <2>2. ASSUME NEW q \in Processes
          PROVE  Keeps(q)
      BY <1>4, <2>1 DEF Keeps, SameHandler, Shape
    <2>3. Clears(p, t)
      BY <1>2, <1>3, <1>4, <2>1, <2>2 DEF Clears
    <2> QED BY <1>1, <2>3
  <1>5. ASSUME NEW row, NEW intended, NEW next,
               Saves(p, t, row, intended, next),
               IsRow(row) /\ IsHandler(next) /\ next.pc \in {"idle", "done", "lookup"},
               Wrote(p, t, row, intended),
               req[p].pc # "remove"
        PROVE  Writes(p, t, row, intended)
    <2>1. /\ DOMAIN req' = Processes /\ req'[p] = next
          /\ \A q \in Processes \ {p} : /\ IsHandler(req'[q]) /\ SameHandler(req[q], req'[q])
                                        /\ req[q].pc = "form" /\ req[q].t = t => req'[q].stale
          /\ DOMAIN rows' = Tenants /\ DOMAIN meant' = Tenants
          /\ \A u \in Tenants \ {t} : rows'[u] = rows[u] /\ meant'[u] = meant[u]
          /\ \/ KeyFree(t, row) /\ rows'[t] = row /\ meant'[t] = intended
             \/ ~KeyFree(t, row) /\ rows'[t] = rows[t] /\ meant'[t] = meant[t]
      BY <1>1, <1>5, SavesFacts
    <2>2. req'[p].pc \notin Saving
      BY <1>5, <2>1 DEF Saving
    <2>3. \A q \in Processes : Keeps(q)
      BY <2>1, <2>2 DEF Keeps
    <2>4. req[p].pc \in {"seed", "migrate", "create", "update", "rotate"}
      BY <1>2, <1>5 DEF Saving
    <2> QED BY <1>1, <1>2, <1>3, <1>5, <2>1, <2>2, <2>3, <2>4 DEF Writes
  <1> QED
    <2>1. CASE req[p].pc = "remove"
      BY <1>0, <1>1, <1>4, <2>1 DEF Ends
    <2>2. CASE req[p].pc # "remove"
      BY <1>0, <1>1, <1>5, <2>2, EndsSave
    <2> QED BY <2>1, <2>2

LEMMA NextEffects ==
  ASSUME Shape, [RegistryNext]_registryVars
  PROVE  \/ Quiet
         \/ \E p \in Processes :
              \/ \E h : Takes(p, h)
              \/ \E t \in Tenants : Clears(p, t) \/ \E row, intended : Writes(p, t, row, intended)
  <1>1. CASE Rests
    BY <1>1 DEF Rests, Quiet, Keeps, SameHandler
  <1>2. CASE Restarts
    <2>1. ASSUME NEW q \in Processes
          PROVE  Keeps(q)
      <3>1. req'[q] = req[q] \/ req'[q] = NoHandler
        BY <1>2 DEF Restarts
      <3> QED BY <3>1, IdleHandler DEF Keeps, SameHandler, Saving
    <2> QED BY <1>2, <2>1 DEF Restarts, Quiet
  <1>3. ASSUME NEW p \in Processes, NEW h, Passes(p, h)
        PROVE  Quiet
    BY <1>3 DEF Passes, Quiet, Keeps, SameHandler, Shape
  <1> QED BY <1>1, <1>2, <1>3, NextKinds, EndEffects

-----------------------------------------------------------------------------
(* Settings.                                                                *)

(* Two processes that change one tenant at once have raced.                 *)
Alone ==
  \A t \in Tenants : \A p, q \in Processes :
    p # q /\ Busy(p, t) /\ Busy(q, t) => t \in raced

(* An edit that has not raced holds the row as it is.                       *)
Loaded ==
  \A p \in Processes : req[p].pc \in {"update", "rotate"} /\ req[p].t \notin raced =>
    /\ rows[req[p].t] # Free /\ req[p].row = rows[req[p].t]
    /\ req[p].pc = "update" =>
         Overwrite(req[p].row, Unmasked(req[p].patch)) = Overwrite(req[p].row, req[p].intent)

SettingsInv == Shape /\ Alone /\ Loaded /\ SettingsKept

LEMMA AloneNext ==
  ASSUME Shape, Alone, [RegistryNext]_registryVars
  PROVE  Alone'
  <1>1. SUFFICES ASSUME NEW t \in Tenants, NEW p \in Processes, NEW q \in Processes, p # q,
                        Busy(p, t)', Busy(q, t)'
                 PROVE  t \in raced'
    BY DEF Alone
  <1>2. \A x \in Processes : Keeps(x) /\ Busy(x, t)' => Busy(x, t)
    BY DEF Keeps, SameHandler, Busy, Saving
  <1>3. ASSUME \A x \in Processes : Keeps(x), raced \subseteq raced'
        PROVE  t \in raced'
    BY <1>1, <1>2, <1>3 DEF Alone
  <1>4. ASSUME NEW r \in Processes, NEW h, Takes(r, h)
        PROVE  t \in raced'
    <2>1. raced \subseteq raced' /\ (\A x \in Processes \ {r} : req'[x] = req[x]) /\ req'[r] = h
      BY <1>4 DEF Takes, Shape
    <2>2. \A x \in Processes \ {r} : Busy(x, t)' => Busy(x, t)
      BY <2>1 DEF Busy
    <2>3. CASE r \notin {p, q}
      BY <1>1, <2>1, <2>2, <2>3 DEF Alone
    <2>4. CASE r \in {p, q}
      <3>1. h.t = t /\ \E x \in Processes \ {r} : Busy(x, t)
        BY <1>1, <2>1, <2>2, <2>4 DEF Busy
      <3> QED BY <1>4, <3>1 DEF Takes
    <2> QED BY <2>3, <2>4
  <1>5. CASE Quiet
    BY <1>3, <1>5 DEF Quiet
  <1>6. ASSUME NEW r \in Processes, NEW u \in Tenants, Clears(r, u)
        PROVE  t \in raced'
    BY <1>3, <1>6 DEF Clears
  <1>7. ASSUME NEW r \in Processes, NEW u \in Tenants, NEW row, NEW intended,
               Writes(r, u, row, intended)
        PROVE  t \in raced'
    BY <1>3, <1>7 DEF Writes
  <1> QED BY <1>4, <1>5, <1>6, <1>7, NextEffects

LEMMA LoadedNext ==
  ASSUME Shape, Alone, Loaded, [RegistryNext]_registryVars
  PROVE  Loaded'
  <1>1. SUFFICES ASSUME NEW p \in Processes, req'[p].pc \in {"update", "rotate"},
                        req'[p].t \notin raced'
                 PROVE  /\ rows'[req'[p].t] # Free /\ req'[p].row = rows'[req'[p].t]
                        /\ req'[p].pc = "update" =>
                             Overwrite(req'[p].row, Unmasked(req'[p].patch))
                               = Overwrite(req'[p].row, req'[p].intent)
    BY DEF Loaded, Overwrite, Unmasked, Restrict
  <1>2. ASSUME Keeps(p), raced \subseteq raced'
        PROVE  /\ req[p].pc = req'[p].pc /\ req[p].t = req'[p].t /\ req'[p].row = req[p].row
               /\ rows[req[p].t] # Free /\ req[p].row = rows[req[p].t]
               /\ req'[p].pc = "update" =>
                     Overwrite(req'[p].row, Unmasked(req'[p].patch))
                       = Overwrite(req'[p].row, req'[p].intent)
    <2>1. SameHandler(req[p], req'[p])
      BY <1>1, <1>2 DEF Keeps, Saving
    <2>2. req[p].pc \in {"update", "rotate"} /\ req[p].t \notin raced
      BY <1>1, <1>2, <2>1 DEF SameHandler
    <2> QED BY <1>1, <2>1, <2>2 DEF SameHandler, Loaded
  <1>3. CASE Quiet
    BY <1>2, <1>3 DEF Quiet
  <1>4. ASSUME NEW r \in Processes, NEW h, Takes(r, h)
        PROVE  /\ rows'[req'[p].t] # Free /\ req'[p].row = rows'[req'[p].t]
               /\ req'[p].pc = "update" =>
                    Overwrite(req'[p].row, Unmasked(req'[p].patch))
                      = Overwrite(req'[p].row, req'[p].intent)
    <2>1. CASE p = r
      <3>1. req'[p] = h /\ rows' = rows
        BY <1>4, <2>1 DEF Takes, Shape
      <3>2. CASE h.pc = "update"
        <4>1. /\ rows[h.t] # Free /\ h.row = rows[h.t]
              /\ Overwrite(h.row, Unmasked(h.patch)) = Overwrite(h.row, h.intent)
          BY <1>1, <1>4, <3>1, <3>2 DEF Takes
        <4> QED BY <3>1, <4>1
      <3>3. CASE h.pc = "rotate"
        BY <1>4, <3>1, <3>3 DEF Takes
      <3> QED BY <1>1, <3>1, <3>2, <3>3
    <2>2. CASE p # r
      <3>1. req'[p] = req[p] /\ rows' = rows /\ raced \subseteq raced'
        BY <1>4, <2>2 DEF Takes, Shape
      <3>2. Keeps(p)
        BY <3>1 DEF Keeps, SameHandler
      <3> QED BY <1>2, <3>1, <3>2
    <2> QED BY <2>1, <2>2
  <1>5. ASSUME NEW r \in Processes, NEW t \in Tenants, Busy(r, t), req'[r].pc \notin Saving,
               Keeps(p), raced' = raced,
               \A u \in Tenants \ {t} : rows'[u] = rows[u]
        PROVE  /\ rows'[req'[p].t] # Free /\ req'[p].row = rows'[req'[p].t]
               /\ req'[p].pc = "update" =>
                    Overwrite(req'[p].row, Unmasked(req'[p].patch))
                      = Overwrite(req'[p].row, req'[p].intent)
    <2>1. p # r
      BY <1>1, <1>5 DEF Saving
    <2>2. SameHandler(req[p], req'[p])
      BY <1>1, <1>5 DEF Keeps, Saving
    <2>3. req[p].t \in Tenants /\ Busy(p, req[p].t)
      BY <1>1, <2>2 DEF SameHandler, Busy, Shape, HandlerShape
    <2>4. req[p].t # t
      BY <1>1, <1>5, <2>1, <2>2, <2>3 DEF Alone, SameHandler
    <2> QED BY <1>2, <1>5, <2>3, <2>4
  <1>6. ASSUME NEW r \in Processes, NEW t \in Tenants, Clears(r, t)
        PROVE  /\ rows'[req'[p].t] # Free /\ req'[p].row = rows'[req'[p].t]
               /\ req'[p].pc = "update" =>
                    Overwrite(req'[p].row, Unmasked(req'[p].patch))
                      = Overwrite(req'[p].row, req'[p].intent)
    BY <1>5, <1>6 DEF Clears, Shape
  <1>7. ASSUME NEW r \in Processes, NEW t \in Tenants, NEW row, NEW intended,
               Writes(r, t, row, intended)
        PROVE  /\ rows'[req'[p].t] # Free /\ req'[p].row = rows'[req'[p].t]
               /\ req'[p].pc = "update" =>
                    Overwrite(req'[p].row, Unmasked(req'[p].patch))
                      = Overwrite(req'[p].row, req'[p].intent)
    BY <1>5, <1>7 DEF Writes
  <1> QED BY <1>3, <1>4, <1>6, <1>7, NextEffects

LEMMA KeptNext ==
  ASSUME SettingsInv, [RegistryNext]_registryVars
  PROVE  SettingsKept'
  <1>1. SUFFICES ASSUME NEW t \in Tenants, t \notin raced'
                 PROVE  rows'[t] = meant'[t]
    BY DEF SettingsKept
  <1>2. Shape /\ Alone /\ Loaded /\ SettingsKept
    BY DEF SettingsInv
  <1>3. ASSUME raced \subseteq raced', UNCHANGED <<rows, meant>>
        PROVE  rows'[t] = meant'[t]
    BY <1>1, <1>2, <1>3 DEF SettingsKept
  <1>4. CASE Quiet
    BY <1>3, <1>4 DEF Quiet
  <1>5. ASSUME NEW r \in Processes, NEW h, Takes(r, h)
        PROVE  rows'[t] = meant'[t]
    BY <1>3, <1>5 DEF Takes
  <1>6. ASSUME NEW r \in Processes, NEW u \in Tenants, Clears(r, u)
        PROVE  rows'[t] = meant'[t]
    BY <1>1, <1>2, <1>6 DEF Clears, Shape, SettingsKept
  <1>7. ASSUME NEW r \in Processes, NEW u \in Tenants, NEW row, NEW intended,
               Writes(r, u, row, intended)
        PROVE  rows'[t] = meant'[t]
    <2>1. raced' = raced /\ rows[t] = meant[t]
      BY <1>1, <1>2, <1>7 DEF Writes, SettingsKept
    <2>2. CASE t # u \/ ~KeyFree(u, row)
      BY <1>7, <2>1, <2>2 DEF Writes
    <2>3. CASE t = u /\ KeyFree(u, row)
      <3>1. rows'[t] = row /\ meant'[t] = intended /\ req[r].t = t
        BY <1>7, <2>3 DEF Writes, Busy
      <3>2. CASE req[r].pc \in {"update", "rotate"}
        <4>1. meant[t] # Free /\ meant[t] = req[r].row
          BY <1>1, <1>2, <2>1, <3>1, <3>2 DEF Loaded
        <4>2. CASE req[r].pc = "update"
          <5>1. Overwrite(req[r].row, Unmasked(req[r].patch)) = Overwrite(req[r].row, req[r].intent)
            BY <1>1, <1>2, <2>1, <3>1, <4>2 DEF Loaded
          <5>2. row = Overwrite(req[r].row, Unmasked(req[r].patch))
                  /\ intended = Overwrite(req[r].row, req[r].intent)
            BY <1>7, <2>3, <4>1, <4>2 DEF Writes, Wrote
          <5> QED BY <3>1, <5>1, <5>2
        <4>3. CASE req[r].pc = "rotate"
          <5>1. row = Overwrite(req[r].row, req[r].patch)
                  /\ intended = Overwrite(req[r].row, req[r].patch)
            BY <1>7, <2>3, <4>1, <4>3 DEF Writes, Wrote
          <5> QED BY <3>1, <5>1
        <4> QED BY <3>2, <4>2, <4>3
      <3>3. CASE req[r].pc \notin {"update", "rotate"}
        BY <1>7, <3>1, <3>3 DEF Writes, Wrote
      <3> QED BY <3>2, <3>3
    <2> QED BY <2>2, <2>3
  <1> QED BY <1>2, <1>4, <1>5, <1>6, <1>7, NextEffects

LEMMA SettingsInit ==
  ASSUME RegistryInit
  PROVE  SettingsInv
  <1>1. \A p \in Processes : req[p] = NoHandler
    BY DEF RegistryInit
  <1>2. \A p \in Processes : HandlerShape(req[p])
    BY <1>1, IdleHandler DEF HandlerShape
  <1>3. Shape
    BY <1>2 DEF RegistryInit, Shape
  <1>4. Alone /\ Loaded /\ SettingsKept
    BY <1>1, IdleHandler DEF RegistryInit, Alone, Loaded, SettingsKept, Busy
  <1> QED BY <1>3, <1>4 DEF SettingsInv

(* A tenant that no two handlers or forms worked on at once has the row its *)
(* users meant, whatever was saved, sent back masked, rotated or removed.   *)
THEOREM SettingsAreKept == RegistrySpec => []SettingsKept
  <1>1. RegistryInit => SettingsInv
    BY SettingsInit
  <1>2. SettingsInv /\ [RegistryNext]_registryVars => SettingsInv'
    BY ShapeNext, AloneNext, LoadedNext, KeptNext DEF SettingsInv
  <1>3. SettingsInv => SettingsKept
    BY DEF SettingsInv
  <1> QED BY <1>1, <1>2, <1>3, PTL DEF RegistrySpec

-----------------------------------------------------------------------------
(* Keys.                                                                    *)

RowKey(t, k) == rows[t] # Free /\ rows[t].key = k
Holds(p, k) == req[p].pc \in {"create", "update", "rotate"} /\ req[p].row.key = k
Mints(p, k) == req[p].pc = "rotate" /\ req[p].patch.key = k

(* Whose key it is: of a row, of a handler that will save it, of the SQLite *)
(* file.                                                                    *)
Owns(t, k) ==
  \/ RowKey(t, k)
  \/ \E p \in Processes : req[p].t = t /\ (Holds(p, k) \/ Mints(p, k))
  \/ t \in Legacy /\ k = 0

(* A key that was given out and is in no row yet.                           *)
Fresh(p, k) == Mints(p, k) \/ (req[p].pc = "create" /\ Holds(p, k))

KeysBounded ==
  revoked \subseteq 0 .. minted /\ \A t \in Tenants : \A k : Owns(t, k) => k \in 0 .. minted

KeysOwned == \A t, u \in Tenants : \A k : Owns(t, k) /\ Owns(u, k) => t = u

FreshUnused ==
  \A p \in Processes : \A k : Fresh(p, k) =>
    /\ k # 0 /\ k \notin revoked
    /\ \A t \in Tenants : ~RowKey(t, k)
    /\ \A q \in Processes \ {p} : ~Holds(q, k) /\ ~Mints(q, k)
    /\ req[p].pc = "rotate" => ~Holds(p, k)

(* A key in the row of a tenant that no two edits met on was not replaced.  *)
LiveKeys == \A t \in Tenants \ raced : \A k : RowKey(t, k) => k \notin revoked

KeyInv == SettingsInv /\ KeysBounded /\ KeysOwned /\ FreshUnused /\ LiveKeys

LEMMA KeptKeys ==
  ASSUME NEW q \in Processes, Keeps(q)
  PROVE  \A k : /\ Holds(q, k)' => Holds(q, k) /\ req'[q].t = req[q].t /\ req'[q].pc = req[q].pc
                /\ Mints(q, k)' => Mints(q, k) /\ req'[q].t = req[q].t /\ req'[q].pc = req[q].pc
                /\ Fresh(q, k)' => Fresh(q, k)
  BY DEF Keeps, SameHandler, Saving, Holds, Mints, Fresh

LEMMA TakenKeys ==
  ASSUME Shape, NEW r \in Processes, NEW h, Takes(r, h)
  PROVE  /\ \A q \in Processes \ {r} : \A k :
              /\ Holds(q, k)' => Holds(q, k) /\ req'[q].t = req[q].t
              /\ Mints(q, k)' => Mints(q, k) /\ req'[q].t = req[q].t
              /\ Fresh(q, k)' => Fresh(q, k) /\ req'[q].pc = req[q].pc
         /\ \A k : Holds(r, k)' => \/ RowKey(h.t, k) /\ req'[r].pc # "create"
                                   \/ req'[r].pc = "create" /\ minted' = minted + 1 /\ k = minted'
         /\ \A k : Mints(r, k)' => minted' = minted + 1 /\ k = minted'
         /\ req'[r].t = h.t /\ h.t \in Tenants /\ (minted' = minted \/ minted' = minted + 1)
  <1>1. req'[r] = h /\ \A q \in Processes \ {r} : req'[q] = req[q]
    BY DEF Takes, Shape
  <1>2. \A q \in Processes \ {r} : \A k :
              /\ Holds(q, k)' => Holds(q, k) /\ req'[q].t = req[q].t
              /\ Mints(q, k)' => Mints(q, k) /\ req'[q].t = req[q].t
              /\ Fresh(q, k)' => Fresh(q, k) /\ req'[q].pc = req[q].pc
    BY <1>1 DEF Holds, Mints, Fresh
  <1>3. \A k : Holds(r, k)' => \/ RowKey(h.t, k) /\ req'[r].pc # "create"
                               \/ req'[r].pc = "create" /\ minted' = minted + 1 /\ k = minted'
    BY <1>1 DEF Holds, RowKey, Takes
  <1>4. \A k : Mints(r, k)' => minted' = minted + 1 /\ k = minted'
    BY <1>1 DEF Mints, Takes
  <1>5. req'[r].t = h.t /\ h.t \in Tenants /\ (minted' = minted \/ minted' = minted + 1)
    BY <1>1 DEF Takes
  <1> QED BY <1>2, <1>3, <1>4, <1>5

(* The key that an edit writes is its own or a new one.                     *)
LEMMA WrittenKeys ==
  ASSUME Shape, NEW r \in Processes, NEW t \in Tenants, NEW row, NEW intended,
         Writes(r, t, row, intended)
  PROVE  /\ minted' = minted \/ minted' = minted + 1
         /\ \/ minted' = minted + 1 /\ row.key = minted' /\ revoked' = revoked
            \/ t \in Legacy /\ row.key = 0 /\ revoked' = revoked \ {0}
            \/ Fresh(r, row.key) /\ req[r].pc = "create" /\ revoked' = revoked
            \/ req[r].pc = "update" /\ Holds(r, row.key) /\ revoked' = revoked
            \/ /\ req[r].pc = "rotate" /\ Fresh(r, row.key) /\ Holds(r, req[r].row.key)
               /\ revoked' = revoked \cup {req[r].row.key}
         /\ req[r].t = t /\ req'[r].pc \notin Saving
         /\ \A u \in Tenants : \A k : RowKey(u, k)' => RowKey(u, k) \/ (u = t /\ k = row.key)
  <1>1. Wrote(r, t, row, intended) /\ req[r].t = t /\ req'[r].pc \notin Saving
    BY DEF Writes, Busy
  <1>2. minted' = minted \/ minted' = minted + 1
    BY <1>1 DEF Wrote
  <1>3. \/ minted' = minted + 1 /\ row.key = minted' /\ revoked' = revoked
        \/ t \in Legacy /\ row.key = 0 /\ revoked' = revoked \ {0}
        \/ Fresh(r, row.key) /\ req[r].pc = "create" /\ revoked' = revoked
        \/ req[r].pc = "update" /\ Holds(r, row.key) /\ revoked' = revoked
        \/ /\ req[r].pc = "rotate" /\ Fresh(r, row.key) /\ Holds(r, req[r].row.key)
           /\ revoked' = revoked \cup {req[r].row.key}
    BY <1>1 DEF Wrote, Fresh, Holds, Mints
  <1>4. ASSUME NEW u \in Tenants, NEW k, RowKey(u, k)'
        PROVE  RowKey(u, k) \/ (u = t /\ k = row.key)
    BY <1>4 DEF Writes, RowKey
  <1> QED BY <1>1, <1>2, <1>3, <1>4

LEMMA OwnsNext ==
  ASSUME Shape, [RegistryNext]_registryVars
  PROVE  \E m \in Tenants : \A t \in Tenants : \A k : Owns(t, k)' =>
           Owns(t, k) \/ (minted' = minted + 1 /\ k = minted' /\ t = m)
  <1>1. ASSUME \A q \in Processes : Keeps(q), NEW t \in Tenants, NEW k, Owns(t, k)', ~RowKey(t, k)'
        PROVE  Owns(t, k)
    BY <1>1, KeptKeys DEF Owns
  <1>2. CASE Quiet
    <2>1. ASSUME NEW t \in Tenants, NEW k, Owns(t, k)'
          PROVE  Owns(t, k)
      <3>1. RowKey(t, k)' => RowKey(t, k)
        BY <1>2 DEF Quiet, RowKey
      <3> QED BY <1>1, <1>2, <2>1, <3>1 DEF Quiet, Owns
    <2> QED BY <2>1, RegistryAssumption DEF RegistryAssumption
  <1>3. ASSUME NEW r \in Processes, NEW h, Takes(r, h)
        PROVE  \E m \in Tenants : \A t \in Tenants : \A k : Owns(t, k)' =>
                 Owns(t, k) \/ (minted' = minted + 1 /\ k = minted' /\ t = m)
    <2>1. /\ \A q \in Processes \ {r} : \A k :
               /\ Holds(q, k)' => Holds(q, k) /\ req'[q].t = req[q].t
               /\ Mints(q, k)' => Mints(q, k) /\ req'[q].t = req[q].t
          /\ \A k : Holds(r, k)' => RowKey(h.t, k) \/ (minted' = minted + 1 /\ k = minted')
          /\ \A k : Mints(r, k)' => minted' = minted + 1 /\ k = minted'
          /\ req'[r].t = h.t /\ h.t \in Tenants
      BY <1>3, TakenKeys
    <2>2. ASSUME NEW t \in Tenants, NEW k, Owns(t, k)'
          PROVE  Owns(t, k) \/ (minted' = minted + 1 /\ k = minted' /\ t = h.t)
      <3>1. CASE RowKey(t, k)'
        BY <1>3, <3>1 DEF Takes, RowKey, Owns
      <3>2. ASSUME NEW q \in Processes, req'[q].t = t, Holds(q, k)' \/ Mints(q, k)'
            PROVE  Owns(t, k) \/ (minted' = minted + 1 /\ k = minted' /\ t = h.t)
        <4>1. CASE q = r
          BY <2>1, <3>2, <4>1 DEF Owns
        <4>2. CASE q # r
          BY <2>1, <3>2, <4>2 DEF Owns
        <4> QED BY <4>1, <4>2
      <3>3. CASE t \in Legacy /\ k = 0
        BY <3>3 DEF Owns
      <3> QED BY <2>2, <3>1, <3>2, <3>3 DEF Owns
    <2> QED BY <2>1, <2>2
  <1>4. ASSUME NEW r \in Processes, NEW u \in Tenants, Clears(r, u)
        PROVE  \A t \in Tenants : \A k : Owns(t, k)' => Owns(t, k)
    <2>1. ASSUME NEW t \in Tenants, NEW k, Owns(t, k)'
          PROVE  Owns(t, k)
      <3>1. RowKey(t, k)' => RowKey(t, k)
        BY <1>4 DEF Clears, RowKey, Shape
      <3> QED BY <1>1, <1>4, <2>1, <3>1 DEF Clears, Owns
    <2> QED BY <2>1
  <1>5. ASSUME NEW r \in Processes, NEW u \in Tenants, NEW row, NEW intended,
               Writes(r, u, row, intended)
        PROVE  \A t \in Tenants : \A k : Owns(t, k)' =>
                 Owns(t, k) \/ (minted' = minted + 1 /\ k = minted' /\ t = u)
    <2>1. /\ \/ minted' = minted + 1 /\ row.key = minted'
             \/ u \in Legacy /\ row.key = 0
             \/ Fresh(r, row.key) \/ Holds(r, row.key)
          /\ req[r].t = u
          /\ \A t \in Tenants : \A k : RowKey(t, k)' => RowKey(t, k) \/ (t = u /\ k = row.key)
      BY <1>5, WrittenKeys
    <2>2. Owns(u, row.key) \/ (minted' = minted + 1 /\ row.key = minted')
      BY <2>1 DEF Owns, Fresh
    <2>3. ASSUME NEW t \in Tenants, NEW k, Owns(t, k)'
          PROVE  Owns(t, k) \/ (minted' = minted + 1 /\ k = minted' /\ t = u)
      <3>1. CASE RowKey(t, k)'
        BY <2>1, <2>2, <3>1 DEF Owns
      <3>2. CASE ~RowKey(t, k)'
        BY <1>1, <1>5, <2>3, <3>2 DEF Writes
      <3> QED BY <3>1, <3>2
    <2> QED BY <2>3
  <1> QED BY <1>2, <1>3, <1>4, <1>5, NextEffects, RegistryAssumption DEF RegistryAssumption

LEMMA MintedGrows ==
  ASSUME Shape, [RegistryNext]_registryVars
  PROVE  /\ minted' = minted \/ minted' = minted + 1
         /\ \/ revoked' \subseteq revoked
            \/ \E p \in Processes : req[p].pc = "rotate" /\ req[p].t \in Tenants
                 /\ Holds(p, req[p].row.key) /\ revoked' = revoked \cup {req[p].row.key}
  <1>1. CASE Quiet
    BY <1>1 DEF Quiet
  <1>2. ASSUME NEW r \in Processes, NEW h, Takes(r, h)
        PROVE  (minted' = minted \/ minted' = minted + 1) /\ revoked' = revoked
    BY <1>2 DEF Takes
  <1>3. ASSUME NEW r \in Processes, NEW u \in Tenants, Clears(r, u)
        PROVE  minted' = minted /\ revoked' = revoked
    BY <1>3 DEF Clears
  <1>4. ASSUME NEW r \in Processes, NEW u \in Tenants, NEW row, NEW intended,
               Writes(r, u, row, intended)
        PROVE  /\ minted' = minted \/ minted' = minted + 1
               /\ \/ revoked' \subseteq revoked
                  \/ req[r].pc = "rotate" /\ req[r].t \in Tenants
                       /\ Holds(r, req[r].row.key) /\ revoked' = revoked \cup {req[r].row.key}
    BY <1>4, WrittenKeys
  <1> QED BY <1>1, <1>2, <1>3, <1>4, NextEffects

LEMMA BoundedNext ==
  ASSUME KeyInv, [RegistryNext]_registryVars
  PROVE  KeysBounded' /\ KeysOwned'
  <1>1. Shape /\ KeysBounded /\ KeysOwned /\ minted \in Nat
    BY DEF KeyInv, SettingsInv, Shape
  <1>2. PICK m \in Tenants : \A t \in Tenants : \A k : Owns(t, k)' =>
           Owns(t, k) \/ (minted' = minted + 1 /\ k = minted' /\ t = m)
    BY <1>1, OwnsNext
  <1>3. /\ minted' = minted \/ minted' = minted + 1
        /\ \/ revoked' \subseteq revoked
           \/ \E p \in Processes : req[p].pc = "rotate" /\ req[p].t \in Tenants
                 /\ Holds(p, req[p].row.key) /\ revoked' = revoked \cup {req[p].row.key}
    BY <1>1, MintedGrows
  <1>4. 0 .. minted \subseteq 0 .. minted' /\ minted' \in 0 .. minted'
    BY <1>1, <1>3
  <1>5. revoked' \subseteq 0 .. minted
    <2>1. ASSUME NEW p \in Processes, req[p].t \in Tenants, Holds(p, req[p].row.key)
          PROVE  req[p].row.key \in 0 .. minted
      <3>1. Owns(req[p].t, req[p].row.key)
        BY <2>1 DEF Owns
      <3> QED BY <1>1, <2>1, <3>1 DEF KeysBounded
    <2>2. revoked \subseteq 0 .. minted
      BY <1>1 DEF KeysBounded
    <2>3. CASE revoked' \subseteq revoked
      BY <2>2, <2>3
    <2>4. ASSUME NEW p \in Processes, req[p].t \in Tenants, Holds(p, req[p].row.key),
                 revoked' = revoked \cup {req[p].row.key}
          PROVE  revoked' \subseteq 0 .. minted
      BY <2>1, <2>2, <2>4
    <2> QED BY <1>3, <2>3, <2>4
  <1>6. KeysBounded'
    <2>1. \A t \in Tenants : \A k : Owns(t, k)' => k \in 0 .. minted'
      BY <1>1, <1>2, <1>4 DEF KeysBounded
    <2> QED BY <1>4, <1>5, <2>1 DEF KeysBounded
  <1>7. KeysOwned'
    <2>1. SUFFICES ASSUME NEW t \in Tenants, NEW u \in Tenants, NEW k, Owns(t, k)', Owns(u, k)'
                   PROVE  t = u
      BY DEF KeysOwned
    <2>2. CASE Owns(t, k) /\ Owns(u, k)
      BY <1>1, <2>2 DEF KeysOwned
    <2>3. CASE ~Owns(t, k) \/ ~Owns(u, k)
      <3>1. minted' = minted + 1 /\ k = minted'
        BY <1>2, <2>1, <2>3
      <3>2. k \notin 0 .. minted
        BY <1>1, <3>1
      <3>3. ~Owns(t, k) /\ ~Owns(u, k)
        BY <1>1, <3>2 DEF KeysBounded
      <3> QED BY <1>2, <2>1, <3>3
    <2> QED BY <2>2, <2>3
  <1> QED BY <1>6, <1>7

LEMMA FreshNext ==
  ASSUME KeyInv, [RegistryNext]_registryVars
  PROVE  FreshUnused'
  <1>1. Shape /\ KeysBounded /\ KeysOwned /\ FreshUnused /\ minted \in Nat
    BY DEF KeyInv, SettingsInv, Shape
  <1> DEFINE Unused(p, k) ==
        /\ k # 0 /\ k \notin revoked
        /\ \A t \in Tenants : ~RowKey(t, k)
        /\ \A q \in Processes \ {p} : ~Holds(q, k) /\ ~Mints(q, k)
        /\ req[p].pc = "rotate" => ~Holds(p, k)
  <1>2. \A p \in Processes : \A k : Fresh(p, k) => Unused(p, k)
    BY <1>1 DEF FreshUnused
  <1>3. SUFFICES ASSUME NEW p \in Processes, NEW k, Fresh(p, k)'
                 PROVE  Unused(p, k)'
    BY DEF FreshUnused
  <1>4. \A q \in Processes : Fresh(q, k) => k \in 0 .. minted
    <2>1. ASSUME NEW q \in Processes, Fresh(q, k)
          PROVE  k \in 0 .. minted
      <3>1. req[q].t \in Tenants
        BY <1>1, <2>1 DEF Fresh, Holds, Mints, Shape, HandlerShape
      <3>2. Owns(req[q].t, k)
        BY <2>1 DEF Owns, Fresh
      <3> QED BY <1>1, <3>1, <3>2 DEF KeysBounded
    <2> QED BY <2>1
  <1>5. \A t \in Tenants : RowKey(t, minted + 1) => FALSE
    <2>1. minted + 1 \notin 0 .. minted
      BY <1>1
    <2> QED BY <1>1, <2>1 DEF Owns, KeysBounded
  <1>6. \A q \in Processes : ~Holds(q, minted + 1) /\ ~Mints(q, minted + 1)
    <2>1. minted + 1 \notin 0 .. minted
      BY <1>1
    <2>2. \A q \in Processes : req[q].pc \in {"create", "update", "rotate"} => req[q].t \in Tenants
      BY <1>1 DEF Shape, HandlerShape
    <2>3. ASSUME NEW q \in Processes, Holds(q, minted + 1) \/ Mints(q, minted + 1)
          PROVE  FALSE
      <3>1. req[q].t \in Tenants
        BY <2>2, <2>3 DEF Holds, Mints
      <3>2. Owns(req[q].t, minted + 1)
        BY <2>3 DEF Owns
      <3> QED BY <1>1, <2>1, <3>1, <3>2 DEF KeysBounded
    <2> QED BY <2>3
  <1>7. ASSUME \A q \in Processes : Keeps(q)
        PROVE  /\ Fresh(p, k) /\ Unused(p, k)
               /\ \A q \in Processes \ {p} : ~Holds(q, k)' /\ ~Mints(q, k)'
               /\ req'[p].pc = "rotate" => ~Holds(p, k)'
    <2>1. Fresh(p, k) /\ (req'[p].pc = "rotate" => req[p].pc = "rotate")
      BY <1>3, <1>7, KeptKeys DEF Keeps, SameHandler, Saving
    <2>2. \A q \in Processes : (Holds(q, k)' => Holds(q, k)) /\ (Mints(q, k)' => Mints(q, k))
      BY <1>7, KeptKeys
    <2> QED BY <1>2, <2>1, <2>2
  <1>8. CASE Quiet
    <2>1. \A t \in Tenants : ~RowKey(t, k)'
      BY <1>7, <1>8 DEF Quiet, RowKey
    <2> QED BY <1>7, <1>8, <2>1 DEF Quiet
  <1>9. ASSUME NEW r \in Processes, NEW h, Takes(r, h)
        PROVE  Unused(p, k)'
    <2>1. /\ \A q \in Processes \ {r} : \A j :
               /\ Holds(q, j)' => Holds(q, j) /\ req'[q].t = req[q].t
               /\ Mints(q, j)' => Mints(q, j) /\ req'[q].t = req[q].t
               /\ Fresh(q, j)' => Fresh(q, j) /\ req'[q].pc = req[q].pc
          /\ \A j : Holds(r, j)' => \/ RowKey(h.t, j) /\ req'[r].pc # "create"
                                    \/ req'[r].pc = "create" /\ minted' = minted + 1 /\ j = minted'
          /\ \A j : Mints(r, j)' => minted' = minted + 1 /\ j = minted'
          /\ req'[r].t = h.t /\ h.t \in Tenants /\ (minted' = minted \/ minted' = minted + 1)
      BY <1>1, <1>9, TakenKeys
    <2>2. rows' = rows /\ revoked' = revoked /\ \A t : RowKey(t, k)' => RowKey(t, k)
      BY <1>9 DEF Takes, RowKey
    <2>3. CASE p = r
      <3>1. k = minted + 1
        BY <1>3, <2>1, <2>3 DEF Fresh
      <3>2. k # 0 /\ k \notin revoked
        BY <1>1, <3>1 DEF KeysBounded
      <3>3. \A t \in Tenants : ~RowKey(t, k)'
        BY <1>5, <2>2, <3>1
      <3>4. \A q \in Processes \ {p} : ~Holds(q, k)' /\ ~Mints(q, k)'
        BY <1>6, <2>1, <2>3, <3>1
      <3>5. req'[p].pc = "rotate" => ~Holds(p, k)'
        BY <1>5, <2>1, <2>3, <3>1
      <3> QED BY <2>2, <3>2, <3>3, <3>4, <3>5
    <2>4. CASE p # r
      <3>1. Fresh(p, k) /\ Unused(p, k) /\ k \in 0 .. minted /\ req'[p].pc = req[p].pc
        BY <1>2, <1>3, <1>4, <2>1, <2>4
      <3>2. k # minted + 1
        BY <1>1, <3>1
      <3>3. ~Holds(r, k)' /\ ~Mints(r, k)'
        BY <2>1, <3>1, <3>2
      <3>4. \A q \in Processes \ {p} : ~Holds(q, k)' /\ ~Mints(q, k)'
        BY <2>1, <3>1, <3>3
      <3>5. req'[p].pc = "rotate" => ~Holds(p, k)'
        BY <2>1, <2>4, <3>1
      <3> QED BY <2>2, <3>1, <3>4, <3>5
    <2> QED BY <2>3, <2>4
  <1>10. ASSUME NEW r \in Processes, NEW u \in Tenants, Clears(r, u)
         PROVE  Unused(p, k)'
    <2>1. \A t \in Tenants : RowKey(t, k)' => RowKey(t, k)
      BY <1>1, <1>10 DEF Clears, RowKey, Shape
    <2>2. revoked' = revoked
      BY <1>10 DEF Clears
    <2>3. \A q \in Processes : Keeps(q)
      BY <1>10 DEF Clears
    <2> QED BY <1>7, <2>1, <2>2, <2>3
  <1>11. ASSUME NEW r \in Processes, NEW u \in Tenants, NEW row, NEW intended,
               Writes(r, u, row, intended)
         PROVE  Unused(p, k)'
    <2>1. /\ minted' = minted \/ minted' = minted + 1
          /\ \/ minted' = minted + 1 /\ row.key = minted' /\ revoked' = revoked
             \/ u \in Legacy /\ row.key = 0 /\ revoked' = revoked \ {0}
             \/ Fresh(r, row.key) /\ req[r].pc = "create" /\ revoked' = revoked
             \/ req[r].pc = "update" /\ Holds(r, row.key) /\ revoked' = revoked
             \/ /\ req[r].pc = "rotate" /\ Fresh(r, row.key) /\ Holds(r, req[r].row.key)
                /\ revoked' = revoked \cup {req[r].row.key}
          /\ req[r].t = u /\ req'[r].pc \notin Saving
          /\ \A t \in Tenants : \A j : RowKey(t, j)' => RowKey(t, j) \/ (t = u /\ j = row.key)
      BY <1>1, <1>11, WrittenKeys
    <2>2. \A q \in Processes : Keeps(q)
      BY <1>11 DEF Writes
    <2>3. /\ Fresh(p, k) /\ Unused(p, k)
          /\ \A q \in Processes \ {p} : ~Holds(q, k)' /\ ~Mints(q, k)'
          /\ req'[p].pc = "rotate" => ~Holds(p, k)'
      BY <1>7, <2>2
    <2>4. p # r
      BY <1>3, <2>1 DEF Fresh, Mints, Saving
    <2>5. ~Holds(r, k) /\ ~Mints(r, k) /\ ~Fresh(r, k) /\ k # minted + 1 /\ k # 0
      BY <1>1, <1>4, <2>3, <2>4 DEF Fresh
    <2>6. k # row.key /\ k \notin revoked'
      BY <2>1, <2>3, <2>5
    <2> QED BY <2>1, <2>3, <2>6
  <1> QED BY <1>1, <1>8, <1>9, <1>10, <1>11, NextEffects

LEMMA LiveNext ==
  ASSUME KeyInv, [RegistryNext]_registryVars
  PROVE  LiveKeys'
  <1>1. /\ Shape /\ Loaded /\ KeysBounded /\ KeysOwned /\ FreshUnused /\ LiveKeys
        /\ minted \in Nat
    BY DEF KeyInv, SettingsInv, Shape
  <1>2. SUFFICES ASSUME NEW t \in Tenants, t \notin raced', NEW k, RowKey(t, k)'
                 PROVE  k \notin revoked'
    BY DEF LiveKeys
  <1>3. ASSUME raced \subseteq raced', RowKey(t, k), revoked' \subseteq revoked
        PROVE  k \notin revoked'
    BY <1>1, <1>2, <1>3 DEF LiveKeys
  <1>4. CASE Quiet
    BY <1>2, <1>3, <1>4 DEF Quiet, RowKey
  <1>5. ASSUME NEW r \in Processes, NEW h, Takes(r, h)
        PROVE  k \notin revoked'
    BY <1>2, <1>3, <1>5 DEF Takes, RowKey
  <1>6. ASSUME NEW r \in Processes, NEW u \in Tenants, Clears(r, u)
        PROVE  k \notin revoked'
    <2>1. RowKey(t, k)
      BY <1>1, <1>2, <1>6 DEF Clears, RowKey, Shape
    <2> QED BY <1>3, <1>6, <2>1 DEF Clears
  <1>7. ASSUME NEW r \in Processes, NEW u \in Tenants, NEW row, NEW intended,
               Writes(r, u, row, intended)
        PROVE  k \notin revoked'
    <2>1. /\ \/ minted' = minted + 1 /\ row.key = minted' /\ revoked' = revoked
             \/ u \in Legacy /\ row.key = 0 /\ revoked' = revoked \ {0}
             \/ Fresh(r, row.key) /\ req[r].pc = "create" /\ revoked' = revoked
             \/ req[r].pc = "update" /\ Holds(r, row.key) /\ revoked' = revoked
             \/ /\ req[r].pc = "rotate" /\ Fresh(r, row.key) /\ Holds(r, req[r].row.key)
                /\ revoked' = revoked \cup {req[r].row.key}
          /\ req[r].t = u
      BY <1>1, <1>7, WrittenKeys
    <2>2. raced' = raced /\ t \notin raced
      BY <1>2, <1>7 DEF Writes
    <2>3. CASE t # u
      <3>1. RowKey(t, k)
        BY <1>2, <1>7, <2>3 DEF Writes, RowKey
      <3>2. k \notin revoked
        BY <1>1, <2>2, <3>1 DEF LiveKeys
      <3>3. ASSUME req[r].pc = "rotate", Holds(r, req[r].row.key)
            PROVE  k # req[r].row.key
        BY <1>1, <2>1, <2>3, <3>1, <3>3 DEF Owns, KeysOwned
      <3> QED BY <2>1, <3>2, <3>3
    <2>4. CASE t = u /\ KeyFree(u, row)
      <3>1. k = row.key
        BY <1>2, <1>7, <2>4 DEF Writes, RowKey, KeyFree
      <3>2. CASE minted' = minted + 1 /\ row.key = minted' /\ revoked' = revoked
        BY <1>1, <3>1, <3>2 DEF KeysBounded
      <3>3. CASE row.key = 0 /\ revoked' = revoked \ {0}
        BY <3>1, <3>3
      <3>4. CASE Fresh(r, row.key) /\ req[r].pc = "create" /\ revoked' = revoked
        BY <1>1, <3>1, <3>4 DEF FreshUnused
      <3>5. CASE req[r].pc = "update" /\ Holds(r, row.key) /\ revoked' = revoked
        <4>1. RowKey(t, k)
          BY <1>1, <2>1, <2>2, <2>4, <3>1, <3>5 DEF Loaded, Holds, RowKey
        <4> QED BY <1>1, <2>2, <3>5, <4>1 DEF LiveKeys
      <3>6. CASE /\ req[r].pc = "rotate" /\ Fresh(r, row.key) /\ Holds(r, req[r].row.key)
                 /\ revoked' = revoked \cup {req[r].row.key}
        <4>1. k \notin revoked /\ ~Holds(r, k)
          BY <1>1, <3>1, <3>6 DEF FreshUnused
        <4> QED BY <3>6, <4>1
      <3> QED BY <2>1, <3>2, <3>3, <3>4, <3>5, <3>6
    <2>5. CASE t = u /\ ~KeyFree(u, row)
      <3>1. RowKey(t, k)
        BY <1>2, <1>7, <2>5 DEF Writes, RowKey, KeyFree
      <3>2. k \notin revoked
        BY <1>1, <2>2, <3>1 DEF LiveKeys
      <3>3. \E v \in Tenants : RowKey(v, row.key)
        BY <2>5 DEF KeyFree, RowKey
      <3>4. ~Fresh(r, row.key)
        BY <1>1, <3>3 DEF FreshUnused
      <3> QED BY <2>1, <3>2, <3>4
    <2> QED BY <2>3, <2>4, <2>5
  <1> QED BY <1>1, <1>4, <1>5, <1>6, <1>7, NextEffects

LEMMA KeysInit ==
  ASSUME RegistryInit
  PROVE  KeyInv
  <1>1. \A p \in Processes : req[p] = NoHandler
    BY DEF RegistryInit
  <1>2. \A p \in Processes : \A k : ~Holds(p, k) /\ ~Mints(p, k) /\ ~Fresh(p, k)
    BY <1>1, IdleHandler DEF Holds, Mints, Fresh
  <1>3. \A t \in Tenants : \A k : ~RowKey(t, k)
    BY DEF RegistryInit, RowKey
  <1>4. \A t \in Tenants : \A k : Owns(t, k) => t \in Legacy /\ k = 0
    BY <1>2, <1>3 DEF Owns
  <1>5. KeysBounded
    BY <1>4 DEF RegistryInit, KeysBounded
  <1>6. KeysOwned
    BY <1>4, RegistryAssumption DEF RegistryAssumption, KeysOwned
  <1>7. FreshUnused /\ LiveKeys
    BY <1>2, <1>3 DEF FreshUnused, LiveKeys
  <1> QED BY <1>5, <1>6, <1>7, SettingsInit DEF KeyInv

(* A key opens the profile of the tenant whose row has it and no other, and *)
(* a key that was replaced opens nothing, unless two edits of the tenant    *)
(* met.                                                                     *)
THEOREM KeysOpenOneTenant == RegistrySpec => []KeysOpenTheirTenant
  <1>1. RegistryInit => KeyInv
    BY KeysInit
  <1>2. KeyInv /\ [RegistryNext]_registryVars => KeyInv'
    <2>1. ASSUME KeyInv, [RegistryNext]_registryVars
          PROVE  SettingsInv'
      BY <2>1, ShapeNext, AloneNext, LoadedNext, KeptNext DEF SettingsInv, KeyInv
    <2> QED BY <2>1, BoundedNext, FreshNext, LiveNext DEF KeyInv
  <1>3. KeyInv => KeysOpenTheirTenant
    <2>1. SUFFICES ASSUME KeyInv, NEW t \in Tenants, NEW k \in 0 .. minted, Admits(k, t)
                   PROVE  rows[t] # Free /\ rows[t].key = k /\ (t \in raced \/ k \notin revoked)
      BY DEF KeysOpenTheirTenant
    <2>2. minted \in Nat
      BY <2>1 DEF KeyInv, SettingsInv, Shape
    <2>3. k # Free
      BY <2>2, RegistryAssumption DEF RegistryAssumption
    <2>4. RowKey(t, k)
      BY <2>1, <2>3 DEF Admits, RowKey
    <2> QED BY <2>1, <2>4 DEF KeyInv, LiveKeys, RowKey
  <1> QED BY <1>1, <1>2, <1>3, PTL DEF RegistrySpec

-----------------------------------------------------------------------------
(* Integrations.                                                            *)

(* Only Removed and the two steps of the lookup touch integrations.         *)
LEMMA IntegrationFrame ==
  ASSUME [RegistryNext]_registryVars
  PROVE  \/ integrations' \subseteq integrations /\ doubled' = doubled
         \/ \E p \in Processes : FindIntegration(p) \/ CreateIntegration(p)
  <1>1. CASE UNCHANGED registryVars
    BY <1>1 DEF registryVars
  <1>2. CASE SeedLooks \/ SeedSaves \/ MigrationSaves \/ MigrationEnds \/ RegistryRestart
               \/ \E t \in Tenants : MigrationLooks(t)
    BY <1>2 DEF SeedLooks, SeedSaves, MigrationSaves, MigrationEnds, RegistryRestart,
      MigrationLooks, historyVars
  <1>3. ASSUME NEW p \in Handlers, NEW t \in Tenants,
               \/ \E db \in Databases, s \in Secrets : Create(p, t, db, s)
               \/ StoreLastSync(p, t) \/ RotateApiKey(p, t) \/ RemoveTenant(p, t)
               \/ LoadTenant(p, t)
               \/ \E form \in Tabs \cup {"client", "modal"} : OpenForm(p, t, form)
        PROVE  UNCHANGED <<integrations, doubled>>
    BY <1>3 DEF Create, StoreLastSync, RotateApiKey, RemoveTenant, LoadTenant, OpenForm,
      historyVars
  <1>4. ASSUME NEW p \in Handlers, SaveCreated(p) \/ SaveUpdate(p) \/ SaveRotated(p)
                                     \/ Removed(p) \/ GetPool(p) \/ Reveal(p)
        PROVE  integrations' \subseteq integrations /\ doubled' = doubled
    BY <1>4 DEF SaveCreated, SaveUpdate, SaveRotated, Removed, GetPool, Reveal, historyVars
  <1>5. \A p, form, f, v, payload :
          Submits(p, form, f, v, payload) => UNCHANGED <<integrations, doubled>>
    BY DEF Submits
  <1>6. ASSUME NEW p \in Handlers,
         \/ \E db \in Databases :
              SaveSettingsTab(p, db) \/ SendBack(p, "db", db) \/ SaveModal(p, "db", db)
         \/ \E s \in Secrets :
              \/ SaveHoroshopTab(p, s) \/ SavePromTab(p, s) \/ SaveRozetkaTab(p, s)
              \/ SaveWooTab(p, s) \/ SendBack(p, "secret", s) \/ SaveModal(p, "secret", s)
        PROVE  UNCHANGED <<integrations, doubled>>
    BY <1>5, <1>6 DEF SaveSettingsTab, SaveHoroshopTab, SavePromTab, SaveRozetkaTab,
      SaveWooTab, SendBack, SaveModal
  <1>7. CASE RegistryNext
    BY <1>2, <1>3, <1>4, <1>6, <1>7 DEF RegistryNext
  <1> QED BY <1>1, <1>7

(* A process comes to the insertion by a lookup that found nothing.         *)
LEMMA InsertFrame ==
  ASSUME Shape, [RegistryNext]_registryVars, NEW q \in Processes, req'[q].pc = "insert"
  PROVE  FindIntegration(q) \/ (req[q].pc = "insert" /\ req'[q].t = req[q].t)
  <1>2. CASE Rests
    BY <1>2 DEF Rests
  <1>3. CASE Restarts
    <2>1. req'[q] = req[q] \/ req'[q] = NoHandler
      BY <1>3 DEF Restarts
    <2> QED BY <2>1, IdleHandler
  <1>4. ASSUME NEW p \in Processes, NEW h, Takes(p, h) \/ Passes(p, h)
        PROVE  FindIntegration(q) \/ (req[q].pc = "insert" /\ req'[q].t = req[q].t)
    <2>1. req' = [req EXCEPT ![p] = h] /\ (h.pc = "insert" => FindIntegration(p))
      BY <1>4 DEF Takes, Passes, Saving
    <2>2. CASE q = p
      BY <2>1, <2>2 DEF Shape
    <2>3. CASE q # p
      BY <2>1, <2>3 DEF Shape
    <2> QED BY <2>2, <2>3
  <1>5. ASSUME NEW p \in Processes, Ends(p)
        PROVE  req[q].pc = "insert" /\ req'[q].t = req[q].t
    <2>1. CASE req' = [req EXCEPT ![p] = NoHandler]
      BY <2>1, IdleHandler DEF Shape
    <2>2. ASSUME NEW row, NEW intended, NEW next, Saves(p, req[p].t, row, intended, next),
                 next.pc \in {"idle", "done", "lookup"}
          PROVE  req[q].pc = "insert" /\ req'[q].t = req[q].t
      <3>1. CASE q = p
        BY <2>2, <3>1 DEF Saves
      <3>2. CASE q # p /\ req[q].t = req[p].t /\ req[q].pc = "form"
        <4>1. PICK h : h = req[q]
          OBVIOUS
        <4>2. req'[q] = [h EXCEPT !.stale = TRUE]
          BY <2>2, <3>2, <4>1 DEF Saves
        <4>3. IsHandler(h) /\ h.pc = "form"
          BY <3>2, <4>1 DEF Shape, HandlerShape
        <4>4. req'[q].pc = "form"
          BY <4>2, <4>3 DEF IsHandler
        <4> QED BY <4>4
      <3>3. CASE q # p /\ ~(req[q].t = req[p].t /\ req[q].pc = "form")
        <4>1. req'[q] = req[q]
          BY <2>2, <3>3 DEF Saves
        <4> QED BY <4>1
      <3> QED BY <3>1, <3>2, <3>3
    <2> QED BY <1>5, <2>1, <2>2, EndsSave
  <1> QED BY <1>2, <1>3, <1>4, <1>5, NextKinds

(* What a lookup that found nothing knows.                                  *)
OneInv ==
  /\ Shape
  /\ \A i, j \in integrations : i.tenant = j.tenant /\ i.tenant \in Tenants \ doubled => i = j
  /\ \A p \in Processes : req[p].pc = "insert" /\ req[p].t \notin doubled =>
       /\ \A i \in integrations : i.tenant # req[p].t
       /\ \A q \in Processes \ {p} : req[q].pc = "insert" => req[q].t # req[p].t

LEMMA OneNext ==
  ASSUME OneInv, [RegistryNext]_registryVars
  PROVE  OneInv'
  <1>0. Shape /\ Shape'
    BY ShapeNext DEF OneInv
  <1>1. \A q \in Processes : req'[q].pc = "insert" =>
          FindIntegration(q) \/ (req[q].pc = "insert" /\ req'[q].t = req[q].t)
    BY <1>0, InsertFrame
  <1>2. CASE /\ integrations' \subseteq integrations /\ doubled' = doubled
             /\ \A q \in Processes : ~FindIntegration(q)
    BY <1>0, <1>1, <1>2 DEF OneInv
  <1>3. ASSUME NEW p \in Processes, FindIntegration(p)
        PROVE  OneInv'
    <2>1. integrations' = integrations /\ req[p].pc = "lookup"
      BY <1>3 DEF FindIntegration
    <2>2. \A q \in Processes \ {p} : req'[q] = req[q]
      BY <1>0, <1>3 DEF FindIntegration, Shape
    <2>3. CASE IntegrationsOf(req[p].t, NameBy(p)) # {}
      <3>1. req'[p].pc # "insert" /\ doubled' = doubled
        BY <1>0, <1>3, <2>3, IdleHandler DEF FindIntegration, Shape
      <3> QED BY <1>0, <2>1, <2>2, <3>1 DEF OneInv
    <2>4. CASE IntegrationsOf(req[p].t, NameBy(p)) = {}
      <3>1. \A i \in integrations : i.tenant # req[p].t
        BY <2>4 DEF IntegrationsOf
      <3>2. /\ req' = [req EXCEPT ![p].pc = "insert"]
            /\ doubled' = IF \E q \in Processes \ {p} : req[q].t = req[p].t /\ req[q].pc = "insert"
                          THEN doubled \cup {req[p].t} ELSE doubled
        BY <1>3, <2>4 DEF FindIntegration
      <3>3. req'[p].pc = "insert" /\ req'[p].t = req[p].t
        <4>1. PICK h : h = req[p]
          OBVIOUS
        <4>2. IsHandler(h)
          BY <1>0, <4>1 DEF Shape, HandlerShape
        <4>3. req'[p] = [h EXCEPT !.pc = "insert"]
          BY <1>0, <3>2, <4>1 DEF Shape
        <4> QED BY <4>1, <4>2, <4>3 DEF IsHandler
      <3>4. doubled \subseteq doubled'
        BY <3>2
      <3>5. req[p].t \notin doubled' =>
              \A q \in Processes \ {p} : req[q].pc = "insert" => req[q].t # req[p].t
        BY <3>2
      <3>6. \A q \in Processes : req'[q].pc = "insert" /\ req'[q].t \notin doubled' =>
              /\ \A i \in integrations' : i.tenant # req'[q].t
              /\ \A r \in Processes \ {q} : req'[r].pc = "insert" => req'[r].t # req'[q].t
        <4>1. SUFFICES ASSUME NEW q \in Processes, req'[q].pc = "insert", req'[q].t \notin doubled'
                       PROVE  /\ \A i \in integrations : i.tenant # req'[q].t
                              /\ \A r \in Processes \ {q} :
                                   req'[r].pc = "insert" => req'[r].t # req'[q].t
          BY <2>1
        <4>2. CASE q = p
          BY <2>2, <3>1, <3>3, <3>5, <4>1, <4>2
        <4>3. CASE q # p
          <5>1. req[q].pc = "insert" /\ req[q].t = req'[q].t /\ req[q].t \notin doubled
            BY <2>2, <3>4, <4>1, <4>3
          <5>2. /\ \A i \in integrations : i.tenant # req[q].t
                /\ \A r \in Processes \ {q} : req[r].pc = "insert" => req[r].t # req[q].t
            BY <5>1 DEF OneInv
          <5>3. req[p].t # req[q].t
            BY <3>5, <4>1, <4>3, <5>1, <3>2
          <5> QED BY <2>2, <3>3, <5>1, <5>2, <5>3
        <4> QED BY <4>2, <4>3
      <3> QED BY <1>0, <2>1, <3>4, <3>6 DEF OneInv
    <2> QED BY <2>3, <2>4
  <1>4. ASSUME NEW p \in Processes, CreateIntegration(p)
        PROVE  OneInv'
    <2>1. doubled' = doubled /\ req[p].pc = "insert" /\ req' = [req EXCEPT ![p] = NoHandler]
      BY <1>4 DEF CreateIntegration, historyVars
    <2>2. req'[p].pc # "insert" /\ \A q \in Processes \ {p} : req'[q] = req[q]
      BY <1>0, <2>1, IdleHandler DEF Shape
    <2>3. PICK i : i = Integration(req[p].t, NameBy(p), p)
      OBVIOUS
    <2>4. i.tenant = req[p].t /\ integrations' \subseteq integrations \cup {i}
      BY <1>4, <2>3 DEF CreateIntegration, Integration
    <2>5. req[p].t \notin doubled => \A j \in integrations : j.tenant # i.tenant
      BY <2>1, <2>4 DEF OneInv
    <2>6. \A j, k \in integrations' : j.tenant = k.tenant /\ j.tenant \in Tenants \ doubled => j = k
      BY <2>4, <2>5 DEF OneInv
    <2>7. \A q \in Processes : req'[q].pc = "insert" /\ req'[q].t \notin doubled =>
              /\ \A j \in integrations' : j.tenant # req'[q].t
              /\ \A r \in Processes \ {q} : req'[r].pc = "insert" => req'[r].t # req'[q].t
      BY <2>1, <2>2, <2>4 DEF OneInv
    <2> QED BY <1>0, <2>1, <2>6, <2>7 DEF OneInv
  <1> QED BY <1>2, <1>3, <1>4, IntegrationFrame

(* A tenant has one integration of a platform unless two lookups met.       *)
THEOREM IntegrationIsUnique == RegistrySpec => []OneIntegration
  <1>1. RegistryInit => OneInv
    <2>1. RegistryInit => Shape
      BY SettingsInit DEF SettingsInv
    <2>2. RegistryInit => \A p \in Processes : req[p].pc # "insert"
      BY IdleHandler DEF RegistryInit
    <2> QED BY <2>1, <2>2 DEF RegistryInit, OneInv
  <1>2. OneInv /\ [RegistryNext]_registryVars => OneInv'
    BY OneNext
  <1>3. OneInv => OneIntegration
    <2>1. SUFFICES ASSUME OneInv, NEW t \in Tenants \ doubled
                   PROVE  Cardinality({i \in integrations : i.tenant = t}) <= 1
      BY DEF OneIntegration
    <2>2. CASE {i \in integrations : i.tenant = t} = {}
      <3>1. Cardinality({}) = 0
        BY FS_EmptySet
      <3>2. Cardinality({i \in integrations : i.tenant = t}) = 0
        BY <2>2, <3>1, Zenon
      <3> QED BY <3>2
    <2>3. CASE {i \in integrations : i.tenant = t} # {}
      <3>1. PICK i \in integrations : i.tenant = t
        BY <2>3
      <3>2. {j \in integrations : j.tenant = t} = {i}
        BY <2>1, <3>1 DEF OneInv
      <3>3. Cardinality({i}) = 1
        BY FS_Singleton
      <3> QED BY <3>2, <3>3
    <2> QED BY <2>2, <2>3
  <1> QED BY <1>1, <1>2, <1>3, PTL DEF RegistrySpec

-----------------------------------------------------------------------------
(* Pools.                                                                   *)

(* The row of a tenant that has not moved names the database it named.      *)
SameDatabase(t) == rows'[t] = rows[t] \/ (rows[t] # Free /\ rows'[t].db = rows[t].db)

Stays == moved \subseteq moved' /\ \A t \in Tenants : t \notin moved' => SameDatabase(t)

LEMMA SavesStay ==
  ASSUME Shape, NEW p, NEW t \in Tenants, NEW row, NEW intended, NEW next,
         Saves(p, t, row, intended, next)
  PROVE  Stays
  BY DEF Saves, Shape, Stays, SameDatabase

LEMMA PoolFrame ==
  ASSUME Shape, [RegistryNext]_registryVars
  PROVE  \/ pools' = pools /\ Stays
         \/ RegistryRestart
         \/ \E p \in Handlers : GetPool(p)
  <1>0. Columb \in Tenants
    BY RegistryAssumption DEF RegistryAssumption
  <1>1. UNCHANGED <<rows, moved>> => Stays
    BY DEF Stays, SameDatabase
  <1>2. CASE UNCHANGED registryVars
    BY <1>1, <1>2 DEF registryVars
  <1>3. CASE SeedSaves
    BY <1>0, <1>3, SavesStay DEF SeedSaves
  <1>4. CASE MigrationSaves
    <2>1. req[Migration].t \in Tenants
      BY <1>4 DEF MigrationSaves, Shape, HandlerShape, Processes
    <2> QED BY <1>4, <2>1, SavesStay DEF MigrationSaves
  <1>5. CASE SeedLooks \/ MigrationEnds \/ \E t \in Tenants : MigrationLooks(t)
    BY <1>1, <1>5 DEF SeedLooks, MigrationEnds, MigrationLooks, historyVars
  <1>6. ASSUME NEW p \in Handlers, NEW t \in Tenants,
               \/ \E db \in Databases, s \in Secrets : Create(p, t, db, s)
               \/ StoreLastSync(p, t) \/ RotateApiKey(p, t) \/ RemoveTenant(p, t)
               \/ LoadTenant(p, t)
               \/ \E form \in Tabs \cup {"client", "modal"} : OpenForm(p, t, form)
        PROVE  pools' = pools /\ Stays
    BY <1>1, <1>6 DEF Create, StoreLastSync, RotateApiKey, RemoveTenant, LoadTenant, OpenForm,
      historyVars
  <1>7. ASSUME NEW p \in Handlers, SaveCreated(p) \/ SaveUpdate(p) \/ SaveRotated(p)
        PROVE  pools' = pools /\ Stays
    <2>1. req[p].t \in Tenants
      BY <1>7 DEF SaveCreated, SaveUpdate, SaveRotated, Shape, HandlerShape, Processes
    <2> QED BY <1>7, <2>1, SavesStay DEF SaveCreated, SaveUpdate, SaveRotated
  <1>8. ASSUME NEW p \in Handlers, Removed(p)
        PROVE  pools' = pools /\ Stays
    BY <1>8 DEF Removed, Stays, SameDatabase, Shape
  <1>9. ASSUME NEW p \in Handlers, Reveal(p)
        PROVE  pools' = pools /\ Stays
    BY <1>1, <1>9 DEF Reveal, historyVars
  <1>10. \A p, form, f, v, payload :
          Submits(p, form, f, v, payload) => UNCHANGED <<pools, rows, moved>>
    BY DEF Submits
  <1>11. ASSUME NEW p \in Handlers,
         \/ \E db \in Databases :
              SaveSettingsTab(p, db) \/ SendBack(p, "db", db) \/ SaveModal(p, "db", db)
         \/ \E s \in Secrets :
              \/ SaveHoroshopTab(p, s) \/ SavePromTab(p, s) \/ SaveRozetkaTab(p, s)
              \/ SaveWooTab(p, s) \/ SendBack(p, "secret", s) \/ SaveModal(p, "secret", s)
         PROVE  UNCHANGED <<pools, rows, moved>>
    BY <1>10, <1>11 DEF SaveSettingsTab, SaveHoroshopTab, SavePromTab, SaveRozetkaTab,
      SaveWooTab, SendBack, SaveModal
  <1>12. ASSUME NEW p \in Processes, FindIntegration(p) \/ CreateIntegration(p)
         PROVE  pools' = pools /\ Stays
    BY <1>1, <1>12 DEF FindIntegration, CreateIntegration, historyVars
  <1>13. CASE RegistryNext
    BY <1>1, <1>3, <1>4, <1>5, <1>6, <1>7, <1>8, <1>9, <1>11, <1>12, <1>13 DEF RegistryNext
  <1> QED BY <1>2, <1>13

(* A process comes to getPool with the row it has just read.                *)
LEMMA PoolKinds ==
  ASSUME Shape, [RegistryNext]_registryVars, NEW q \in Processes, req'[q].pc = "pool"
  PROVE  \/ rows' = rows /\ rows[req'[q].t] # Free /\ req'[q].row = rows[req'[q].t]
         \/ req[q].pc = "pool" /\ req'[q].t = req[q].t /\ req'[q].row = req[q].row
  <1>1. CASE Rests
    BY <1>1 DEF Rests
  <1>2. CASE Restarts
    <2>1. req'[q] = req[q] \/ req'[q] = NoHandler
      BY <1>2 DEF Restarts
    <2> QED BY <2>1, IdleHandler
  <1>3. ASSUME NEW p \in Processes, NEW h, Takes(p, h) \/ Passes(p, h)
        PROVE  \/ rows' = rows /\ rows[req'[q].t] # Free /\ req'[q].row = rows[req'[q].t]
               \/ req[q].pc = "pool" /\ req'[q].t = req[q].t /\ req'[q].row = req[q].row
    <2>1. /\ req' = [req EXCEPT ![p] = h] /\ rows' = rows
          /\ h.pc = "pool" => rows[h.t] # Free /\ h.row = rows[h.t]
      BY <1>3 DEF Takes, Passes, Saving
    <2>2. CASE q = p
      BY <2>1, <2>2 DEF Shape
    <2>3. CASE q # p
      BY <2>1, <2>3 DEF Shape
    <2> QED BY <2>2, <2>3
  <1>4. ASSUME NEW p \in Processes, Ends(p)
        PROVE  req[q].pc = "pool" /\ req'[q].t = req[q].t /\ req'[q].row = req[q].row
    <2>1. CASE req' = [req EXCEPT ![p] = NoHandler]
      BY <2>1, IdleHandler DEF Shape
    <2>2. ASSUME NEW row, NEW intended, NEW next, Saves(p, req[p].t, row, intended, next),
                 IsRow(row), IsHandler(next), next.pc \in {"idle", "done", "lookup"}
          PROVE  req[q].pc = "pool" /\ req'[q].t = req[q].t /\ req'[q].row = req[q].row
      <3>1. req[p].t \in Tenants
        BY <1>4 DEF Ends, Saving, Shape, HandlerShape
      <3>2. req'[p] = next /\ \A r \in Processes \ {p} : SameHandler(req[r], req'[r])
        BY <2>2, <3>1, SavesFacts
      <3> QED BY <2>2, <3>2 DEF SameHandler
    <2> QED BY <1>4, <2>1, <2>2, EndsSave
  <1> QED BY <1>1, <1>2, <1>3, <1>4, NextKinds

(* What a process that has read its tenant's row knows of the pool it asks  *)
(* for.                                                                     *)
PoolInv ==
  /\ Shape /\ PoolsServeTheirTenant
  /\ \A p \in Processes : req[p].pc = "pool" /\ req[p].t \notin moved =>
       \/ rows[req[p].t] = Free \/ pools[req[p].t] # Free
       \/ rows[req[p].t].db = req[p].row.db

LEMMA PoolNext ==
  ASSUME PoolInv, [RegistryNext]_registryVars
  PROVE  PoolInv'
  <1>0. Shape /\ Shape'
    BY ShapeNext DEF PoolInv
  <1>1. \A q \in Processes : req'[q].pc = "pool" =>
          \/ rows' = rows /\ rows[req'[q].t] # Free /\ req'[q].row = rows[req'[q].t]
          \/ req[q].pc = "pool" /\ req'[q].t = req[q].t /\ req'[q].row = req[q].row
    BY <1>0, PoolKinds
  <1>2. CASE pools' = pools /\ Stays
    <2>1. ASSUME NEW t \in Tenants \ moved', pools'[t] # Free, rows'[t] # Free
          PROVE  pools'[t] = rows'[t].db
      BY <1>2, <2>1 DEF Stays, SameDatabase, PoolInv, PoolsServeTheirTenant
    <2>2. ASSUME NEW q \in Processes, req'[q].pc = "pool", req'[q].t \notin moved'
          PROVE  \/ rows'[req'[q].t] = Free \/ pools'[req'[q].t] # Free
                 \/ rows'[req'[q].t].db = req'[q].row.db
      <3>1. CASE rows' = rows /\ req'[q].row = rows[req'[q].t]
        BY <3>1
      <3>2. CASE req[q].pc = "pool" /\ req'[q].t = req[q].t /\ req'[q].row = req[q].row
        <4>1. req[q].t \in Tenants /\ req[q].t \notin moved
          BY <1>0, <1>2, <2>2, <3>2 DEF Stays, Shape, HandlerShape
        <4>2. \/ rows[req[q].t] = Free \/ pools[req[q].t] # Free
              \/ rows[req[q].t].db = req[q].row.db
          BY <3>2, <4>1 DEF PoolInv
        <4>3. SameDatabase(req[q].t)
          BY <1>2, <2>2, <3>2, <4>1 DEF Stays
        <4> QED BY <1>2, <3>2, <4>2, <4>3 DEF SameDatabase
      <3> QED BY <1>1, <2>2, <3>1, <3>2
    <2> QED BY <1>0, <2>1, <2>2 DEF PoolInv, PoolsServeTheirTenant
  <1>3. CASE RegistryRestart
    <2>1. \A t \in Tenants : pools'[t] = Free
      BY <1>3 DEF RegistryRestart
    <2>2. \A q \in Processes : req'[q].pc # "pool"
      BY <1>3, IdleHandler DEF RegistryRestart
    <2> QED BY <1>0, <2>1, <2>2 DEF PoolInv, PoolsServeTheirTenant
  <1>4. ASSUME NEW p \in Handlers, GetPool(p)
        PROVE  PoolInv'
    <2>1. /\ p \in Processes /\ req[p].pc = "pool" /\ rows' = rows
          /\ pools' = PoolFor(req[p].t, req[p].row.db)
          /\ moved' = IF /\ pools[req[p].t] = Free
                         /\ rows[req[p].t] = Free \/ rows[req[p].t].db = req[p].row.db
                      THEN moved \ {req[p].t} ELSE moved
      BY <1>4 DEF GetPool, Processes
    <2>2. PICK t : t = req[p].t
      OBVIOUS
    <2>3. PICK db : db = req[p].row.db
      OBVIOUS
    <2>4. t \in Tenants /\ db # Free
      <3>1. IsRow(req[p].row)
        BY <1>0, <2>1 DEF Shape, HandlerShape
      <3> QED BY <1>0, <2>1, <2>2, <2>3, <3>1, RegistryAssumption
              DEF Shape, HandlerShape, IsRow, RegistryAssumption
    <2>5. /\ moved \ {t} \subseteq moved' /\ \A u \in Tenants \ {t} : pools'[u] = pools[u]
          /\ pools'[t] # Free
      BY <1>0, <2>1, <2>2, <2>3, <2>4 DEF PoolFor, Shape
    <2>6. ASSUME t \notin moved', rows[t] # Free
          PROVE  pools'[t] = rows[t].db
      <3>1. CASE pools[t] # Free
        BY <2>1, <2>2, <2>4, <2>6, <3>1 DEF PoolFor, PoolInv, PoolsServeTheirTenant
      <3>2. CASE pools[t] = Free
        <4>1. pools'[t] = db
          BY <1>0, <2>1, <2>2, <2>3, <2>4, <3>2 DEF PoolFor, Shape
        <4>2. CASE rows[t].db = db
          BY <4>1, <4>2
        <4>3. CASE rows[t].db # db
          <5>1. t \notin moved
            BY <2>1, <2>2, <2>3, <2>6, <3>2, <4>3
          <5> QED BY <2>1, <2>2, <2>3, <2>6, <3>2, <4>3, <5>1 DEF PoolInv
        <4> QED BY <4>2, <4>3
      <3> QED BY <3>1, <3>2
    <2>7. \A u \in Tenants \ moved' : pools'[u] # Free /\ rows'[u] # Free => pools'[u] = rows'[u].db
      <3>1. ASSUME NEW u \in Tenants \ moved', u # t, pools'[u] # Free, rows'[u] # Free
            PROVE  pools'[u] = rows'[u].db
        BY <2>1, <2>5, <3>1 DEF PoolInv, PoolsServeTheirTenant
      <3> QED BY <2>1, <2>6, <3>1
    <2>8. ASSUME NEW q \in Processes, req'[q].pc = "pool", req'[q].t \notin moved'
          PROVE  \/ rows'[req'[q].t] = Free \/ pools'[req'[q].t] # Free
                 \/ rows'[req'[q].t].db = req'[q].row.db
      <3>1. CASE rows' = rows /\ req'[q].row = rows[req'[q].t]
        BY <3>1
      <3>2. CASE req[q].pc = "pool" /\ req'[q].t = req[q].t /\ req'[q].row = req[q].row
        <4>1. CASE req[q].t = t
          BY <2>5, <3>2, <4>1
        <4>2. CASE req[q].t # t
          <5>1. req[q].t \in Tenants /\ req[q].t \notin moved
            BY <1>0, <2>5, <2>8, <3>2, <4>2 DEF Shape, HandlerShape
          <5> QED BY <2>1, <2>5, <3>2, <4>2, <5>1 DEF PoolInv
        <4> QED BY <4>1, <4>2
      <3> QED BY <1>1, <2>8, <3>1, <3>2
    <2> QED BY <1>0, <2>7, <2>8 DEF PoolInv, PoolsServeTheirTenant
  <1> QED BY <1>0, <1>2, <1>3, <1>4, PoolFrame

(* A pool reaches the database that its tenant's row names unless the row   *)
(* was changed since the process started.                                   *)
THEOREM PoolsServeOneTenant == RegistrySpec => []PoolsServeTheirTenant
  <1>1. RegistryInit => PoolInv
    <2>1. RegistryInit => Shape
      BY SettingsInit DEF SettingsInv
    <2>2. RegistryInit => \A p \in Processes : req[p].pc # "pool"
      BY IdleHandler DEF RegistryInit
    <2>3. RegistryInit => \A t \in Tenants : pools[t] = Free
      BY DEF RegistryInit
    <2> QED BY <2>1, <2>2, <2>3 DEF PoolInv, PoolsServeTheirTenant
  <1>2. PoolInv /\ [RegistryNext]_registryVars => PoolInv'
    BY PoolNext
  <1>3. PoolInv => PoolsServeTheirTenant
    BY DEF PoolInv
  <1> QED BY <1>1, <1>2, <1>3, PTL DEF RegistrySpec
=============================================================================
