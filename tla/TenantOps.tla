------------------------------ MODULE TenantOps ------------------------------
(***************************************************************************)
(* The heavy operations on one tenant's Limansoft database and the Redis   *)
(* key lock:tenant:{id}:busy that is meant to keep them apart:             *)
(*                                                                         *)
(*   - createBackup   (backup.service.ts), called over HTTP and, first     *)
(*                    thing, by the catalog import jobs;                   *)
(*   - restoreBackup, deleteBackup (backup.service.ts), over HTTP;         *)
(*   - the Horoshop and Prom catalog imports (BullMQ jobs, two attempts);  *)
(*   - the WooCommerce catalog import, which writes the same tables and    *)
(*     never looks at the key.                                             *)
(*                                                                         *)
(* Every await of the code is a step boundary.  A table's content is the   *)
(* number of the last product transaction in it; a dump is the content its *)
(* reader saw, table by table.  One tenant is modelled: the key, the       *)
(* backup directory and the database are all per tenant.                   *)
(***************************************************************************)
EXTENDS Integers, FiniteSets

CONSTANTS
  Backups,      \* HTTP requests POST .../backups
  Restores,     \* HTTP requests POST .../backups/:filename/restore
  Imports,      \* catalog import jobs (Horoshop, Prom)
  Unbacked,     \* those of them queued with createBackup: false
  WooImports,   \* WooCommerce import jobs
  Free,         \* the Redis key does not exist
  Lost,         \* content of a table that does not exist, or was skipped
  Cut,          \* content of a table of which only the first pages were read
  NT,           \* number of tables in a dump (FAST_BACKUP_TABLES has 4)
  MaxBackups,   \* MAX_BACKUPS
  Attempts,     \* attempts option of the import jobs (2 in the code)
  OutlivesTTL,  \* may an operation run longer than REDIS_LOCK_TTL_MS?
  MaxVersion,   \* bound: product transactions
  Events,       \* the kinds of outside events that may happen
  MaxEvents     \* bound: how many of them happen

Ops == Backups \cup Restores \cup Imports
Tables == 1..NT
Content == Nat \cup {Lost, Cut}

(* A table is lost, the process crashes, Redis does not answer, a query     *)
(* fails, a file passes the retention age, a user deletes a file.           *)
EventKinds == {"lost", "crash", "redis", "query", "age", "delete"}

ASSUME OpsAssumption ==
  /\ Backups \cap Restores = {}
  /\ Backups \cap Imports = {}
  /\ Restores \cap Imports = {}
  /\ Unbacked \subseteq Imports
  /\ Free \notin Ops
ASSUME BoundsAssumption ==
  /\ NT \in Nat \ {0} /\ MaxBackups \in Nat \ {0} /\ Attempts \in Nat \ {0}
  /\ MaxVersion \in Nat
  /\ Events \subseteq EventKinds /\ MaxEvents \in Nat
  /\ OutlivesTTL \in BOOLEAN
  /\ Lost \notin Nat /\ Cut \notin Nat /\ Lost # Cut

VARIABLES
  lock,     \* Free, or the operation whose SET NX created the key.  The code
            \* stores the constant 'backup': no step below tests whose it is
  pc,       \* next step of each operation
  loc,      \* locals of each operation, see Locals
  point,    \* backupId of an import job, 0 while undefined
  runs,     \* attempts an import job has used up
  stalled,  \* import jobs a dead process has left behind once
  files,    \* the tenant's backup directory
  tick,     \* source of file names and mtimes
  db,       \* content of each table
  ver,      \* product transactions committed so far
  left      \* outside events that may still happen

jobVars == <<point, runs, stalled>>
diskVars == <<files, tick>>
dbVars == <<db, ver>>
vars == <<lock, pc, loc, jobVars, diskVars, dbVars, left>>

(* createBackup: acquire .. release; import: claim, import, unclaim;        *)
(* restoreBackup: racquire, read, exec, rrelease.                           *)
InBackup  == {"dump", "write", "flush", "rotate", "release"}
InImport  == {"import", "unclaim"}
InRestore == {"read", "exec", "rrelease"}
Asking    == {"acquire", "claim", "racquire"}
Terminal  == {"done", "failed"}
Pc == {"idle"} \cup Asking \cup InBackup \cup InImport \cup InRestore \cup Terminal

(* The operation believes it holds the key: SET NX answered OK and its own  *)
(* DEL has not run yet.                                                     *)
Holds(p) == pc[p] \in InBackup \cup InImport \cup InRestore

File == [id : Nat, mtime : Nat, content : [Tables -> Content],
         complete : BOOLEAN, old : BOOLEAN, torn : BOOLEAN]

(* Did the try block finish (ok), the next table of a dump or a restore     *)
(* (cur), the dump being built or read back (buf) and the id of the file    *)
(* being written or restored (file, 0 if none).  torn is history: did a     *)
(* WooCommerce import write during the backup?                              *)
Locals == [ok : BOOLEAN, cur : 1..(NT + 1), buf : [Tables -> Content], file : Nat,
           torn : BOOLEAN]

NoLocals == [ok |-> FALSE, cur |-> 1, buf |-> [t \in Tables |-> Lost], file |-> 0,
             torn |-> FALSE]

Init ==
  /\ lock = Free
  /\ pc = [p \in Ops |-> "idle"]
  /\ loc = [p \in Ops |-> NoLocals]
  /\ point = [p \in Imports |-> 0]
  /\ runs = [p \in Imports |-> 0]
  /\ stalled = {}
  /\ files = {}
  /\ tick = 0
  /\ db = [t \in Tables |-> 0]
  /\ ver = 0
  /\ left = MaxEvents

Event(kind) == kind \in Events /\ left > 0 /\ left' = left - 1

Goto(p, l) == pc' = [pc EXCEPT ![p] = l]

Return(p, l) == Goto(p, l) /\ loc' = [loc EXCEPT ![p] = NoLocals]

(* An attempt of job p throws: BullMQ runs it again at once (no backoff)    *)
(* while attempts remain.                                                   *)
AttemptFails(p) ==
  IF runs[p] + 1 < Attempts
  THEN Return(p, "idle") /\ runs' = [runs EXCEPT ![p] = @ + 1]
  ELSE Return(p, "failed") /\ runs' = runs

(* createBackup returns or throws to its caller: an HTTP request ends, an   *)
(* import logs the failure and carries on to take the key for itself.       *)
BackupReturns(p, success) ==
  Return(p, IF p \in Imports THEN "claim" ELSE IF success THEN "done" ELSE "failed")

-----------------------------------------------------------------------------
(* The key: SET NX PX, DEL, expiry.                                         *)

(* NX: the SET takes effect only if there is no key.                        *)
SetWithoutNX == TRUE  \* mutant

SetNX == lock = Free

(* acquireLock answered TRUE.                                               *)
Acquired(p) ==
  Goto(p, CASE pc[p] = "acquire"  -> "dump"
            [] pc[p] = "claim"    -> "import"
            [] pc[p] = "racquire" -> "read")

RefusedIgnored(p) ==  \* mutant: the import goes on without the key
  \/ pc[p] = "acquire"  /\ BackupReturns(p, FALSE) /\ runs' = runs
  \/ pc[p] = "claim"    /\ Goto(p, "import") /\ UNCHANGED <<loc, runs>>
  \/ pc[p] = "racquire" /\ Return(p, "failed") /\ runs' = runs

RefusedReleases(p) ==  \* mutant: finally without its test of lockAcquired
  \/ pc[p] = "acquire"  /\ BackupReturns(p, FALSE) /\ runs' = runs
  \/ pc[p] = "claim"    /\ Goto(p, "unclaim") /\ UNCHANGED <<loc, runs>>
  \/ pc[p] = "racquire" /\ Return(p, "failed") /\ runs' = runs

(* acquireLock answered FALSE: 409, or a job attempt that throws.           *)
Refused(p) ==
  \/ pc[p] = "acquire"  /\ BackupReturns(p, FALSE) /\ runs' = runs
  \/ pc[p] = "claim"    /\ AttemptFails(p)
  \/ pc[p] = "racquire" /\ Return(p, "failed") /\ runs' = runs

AcquireLock(p) ==
  /\ pc[p] \in Asking
  /\ \/ /\ SetNX
        /\ lock' = p
        /\ Acquired(p)
        /\ UNCHANGED <<loc, runs, left>>
     \/ /\ ~SetNX
        /\ Refused(p)
        /\ UNCHANGED <<lock, left>>
     \/ \* the connection drops after the SET: the command, sent again, finds
        \* the key it has just created and the caller is told "busy"
        /\ SetNX
        /\ Event("redis")
        /\ lock' = p
        /\ Refused(p)
  /\ UNCHANGED <<point, stalled, diskVars, dbVars>>

(* releaseLock, the DEL of a finally block: unconditional, whoever the key  *)
(* belongs to by now.  When Redis does not answer it throws instead, and    *)
(* the key stays until it expires.                                          *)
ReleaseLock(p) ==
  \E delivered \in BOOLEAN :
    LET result == loc[p].ok /\ delivered
    IN /\ IF delivered THEN lock' = Free /\ left' = left
                       ELSE lock' = lock /\ Event("redis")
       /\ \/ /\ pc[p] = "release"
             /\ BackupReturns(p, result)
             /\ point' = IF p \in Imports /\ result
                         THEN [point EXCEPT ![p] = loc[p].file] ELSE point
             /\ runs' = runs
          \/ /\ pc[p] = "unclaim"
             /\ IF result THEN Return(p, "done") /\ runs' = runs
                          ELSE AttemptFails(p)
             /\ point' = point
          \/ /\ pc[p] = "rrelease"
             /\ Return(p, IF result THEN "done" ELSE "failed")
             /\ UNCHANGED <<point, runs>>
       /\ UNCHANGED <<stalled, diskVars, dbVars>>

(* PX: the key disappears REDIS_LOCK_TTL_MS after the SET.  Unless          *)
(* OutlivesTTL, no operation is still running by then.                      *)
SetWithoutPX == FALSE /\ UNCHANGED vars  \* mutant

Expire ==
  /\ lock # Free
  /\ OutlivesTTL \/ ~Holds(lock)
  /\ lock' = Free
  /\ UNCHANGED <<pc, loc, jobVars, diskVars, dbVars, left>>

-----------------------------------------------------------------------------
(* createBackup.                                                            *)

(* The request arrives; an unknown tenant is a 404.                         *)
RequestBackup(p) ==
  /\ p \in Backups
  /\ pc[p] = "idle"
  /\ \E next \in {"acquire", "failed"} : Goto(p, next)
  /\ UNCHANGED <<lock, loc, jobVars, diskVars, dbVars, left>>

(* generateSqlDump, one table: a table that cannot be read is skipped, or   *)
(* cut short after some pages, with a comment, and the dump goes on.        *)
DumpTable(p) ==
  LET t == loc[p].cur
  IN /\ pc[p] = "dump"
     /\ \E content \in {db[t], Lost} \cup (IF db[t] = Lost THEN {} ELSE {Cut}) :
          /\ loc' = [loc EXCEPT ![p].buf[t] = content, ![p].cur = t + 1]
          /\ IF content = db[t] THEN left' = left ELSE Event("query")
     /\ pc' = IF t = NT THEN [pc EXCEPT ![p] = "write"] ELSE pc
     /\ UNCHANGED <<lock, jobVars, diskVars, dbVars>>

(* createWriteStream: the file exists, half-written, from here on.          *)
OpenFile(p) ==
  /\ pc[p] = "write"
  /\ tick' = tick + 1
  /\ loc' = [loc EXCEPT ![p].file = tick']
  /\ files' = files \cup {[id |-> tick', mtime |-> tick', content |-> loc[p].buf,
                           complete |-> FALSE, old |-> FALSE, torn |-> FALSE]}
  /\ Goto(p, "flush")
  /\ UNCHANGED <<lock, jobVars, dbVars, left>>

(* The pipeline ends and the file is read back for its size and hash, or    *)
(* one of the two fails and what was written so far stays.                  *)
CloseFile(p) ==
  /\ pc[p] = "flush"
  /\ \/ /\ \E f \in files :
             /\ f.id = loc[p].file
             /\ tick' = tick + 1
             /\ files' = (files \ {f})
                           \cup {[f EXCEPT !.complete = TRUE, !.mtime = tick',
                                                !.torn = loc[p].torn]}
        /\ Goto(p, "rotate")
     \/ /\ Goto(p, "release")
        /\ UNCHANGED diskVars
  /\ UNCHANGED <<lock, loc, jobVars, dbVars, left>>

(* The files rotateOldBackups keeps: the MaxBackups newest that are not     *)
(* past MAX_BACKUP_AGE_DAYS.                                                *)
KeptOldest(F) ==  \* mutant: sorted the other way round
  {f \in F : /\ ~f.old
             /\ Cardinality({g \in F : ~g.old /\ g.mtime < f.mtime}) < MaxBackups}

Kept(F) ==
  {f \in F : /\ ~f.old
             /\ Cardinality({g \in F : ~g.old /\ g.mtime > f.mtime}) < MaxBackups}

RotateOldBackups(p) ==
  /\ pc[p] = "rotate"
  /\ files' = Kept(files)
  /\ loc' = [loc EXCEPT ![p].ok = TRUE]
  /\ Goto(p, "release")
  /\ UNCHANGED <<lock, jobVars, tick, dbVars, left>>

-----------------------------------------------------------------------------
(* The import jobs.                                                         *)

(* process(): tenant and integration are looked up (a failure fails the     *)
(* attempt); then the backup, unless the job was queued without it.         *)
StartImport(p) ==
  /\ p \in Imports
  /\ pc[p] = "idle"
  /\ \/ /\ Goto(p, IF p \in Unbacked THEN "claim" ELSE "acquire")
        /\ UNCHANGED <<loc, runs>>
     \/ AttemptFails(p)
  /\ point' = [point EXCEPT ![p] = 0]
  /\ UNCHANGED <<lock, stalled, diskVars, dbVars, left>>

(* upsertProductFromExternal: one transaction over the product tables; it   *)
(* fails, and the item is counted as an error, if one of them is missing.   *)
CommitProduct ==
  /\ ver < MaxVersion
  /\ \A t \in Tables : db[t] # Lost
  /\ ver' = ver + 1
  /\ db' = [t \in Tables |-> ver']

ImportItem(p) ==
  /\ pc[p] = "import"
  /\ CommitProduct
  /\ UNCHANGED <<lock, pc, loc, jobVars, diskVars, left>>

(* The page loop ends, or a call of the platform's API throws.              *)
EndImportAfterAll(p) ==  \* mutant: ends only when every item succeeded
  /\ pc[p] = "import"
  /\ ver = MaxVersion
  /\ loc' = [loc EXCEPT ![p].ok = TRUE]
  /\ Goto(p, "unclaim")
  /\ UNCHANGED <<lock, jobVars, diskVars, dbVars, left>>

EndImport(p) ==
  /\ pc[p] = "import"
  /\ \E result \in BOOLEAN : loc' = [loc EXCEPT ![p].ok = result]
  /\ Goto(p, "unclaim")
  /\ UNCHANGED <<lock, jobVars, diskVars, dbVars, left>>

(* WoocommerceImportService.importProduct: the same upsert, no key.         *)
WooItem ==
  /\ WooImports # {}
  /\ CommitProduct
  /\ loc' = [p \in Ops |-> [loc[p] EXCEPT
                !.torn = @ \/ pc[p] \in {"dump", "write", "flush"}]]
  /\ UNCHANGED <<lock, pc, jobVars, diskVars, left>>

-----------------------------------------------------------------------------
(* restoreBackup and deleteBackup.                                          *)

(* getBackupFilePath tests that the file exists before the key is taken.    *)
RequestRestore(p) ==
  /\ p \in Restores
  /\ pc[p] = "idle"
  /\ \/ /\ \E f \in files : loc' = [loc EXCEPT ![p].file = f.id]
        /\ Goto(p, "racquire")
     \/ Return(p, "failed")
  /\ UNCHANGED <<lock, jobVars, diskVars, dbVars, left>>

(* decompressSql and parseSqlStatements.  A half-written archive makes      *)
(* gunzip throw.                                                            *)
ReadArchive(p) ==
  /\ pc[p] = "read"
  /\ \E f \in files :
       /\ f.id = loc[p].file
       /\ IF f.complete
          THEN Goto(p, "exec") /\ loc' = [loc EXCEPT ![p].buf = f.content]
          ELSE Goto(p, "rrelease") /\ loc' = loc
  /\ UNCHANGED <<lock, jobVars, diskVars, dbVars, left>>

(* Some tables were skipped or cut short.                                   *)
Partial(content) == \E t \in Tables : content[t] \in {Lost, Cut}

(* The warning that stands for the missing part can unbalance the quotes of *)
(* the script, and what follows it may be swallowed as one comment          *)
(* (RestoreScript has the details).                                         *)
Garbled(p) == \E s \in Tables : s < loc[p].cur /\ loc[p].buf[s] \in {Lost, Cut}

(* What becomes of the statements of table cur.  Its DROP TABLE is glued to *)
(* the comment above it and skipped, so CREATE TABLE fails if the table is  *)
(* there.                                                                   *)
TolerantOutcomes(p) ==  \* mutant: a failing statement is passed over
  LET t == loc[p].cur
  IN IF loc[p].buf[t] # Lost /\ db[t] = Lost THEN {"created"} ELSE {"skipped"}

Outcomes(p) ==
  LET t == loc[p].cur
      plain == IF loc[p].buf[t] = Lost THEN "skipped"
               ELSE IF db[t] = Lost THEN "created" ELSE "error"
  IN {plain} \cup (IF Garbled(p) THEN {"skipped", "error"} ELSE {})

(* DDL commits implicitly, so the rollback after an error undoes nothing.   *)
RestoreTable(p) ==
  LET t == loc[p].cur
  IN /\ pc[p] = "exec"
     /\ \E outcome \in Outcomes(p) :
          /\ db' = IF outcome = "created" THEN [db EXCEPT ![t] = loc[p].buf[t]] ELSE db
          /\ loc' = [loc EXCEPT ![p].ok = (outcome # "error" /\ t = NT),
                                ![p].cur = t + 1]
          /\ pc' = IF outcome = "error" \/ t = NT
                   THEN [pc EXCEPT ![p] = "rrelease"] ELSE pc
     /\ UNCHANGED <<lock, jobVars, diskVars, ver, left>>

(* deleteBackup takes no key.                                               *)
DeleteBackup ==
  /\ Event("delete")
  /\ \E f \in files : files' = files \ {f}
  /\ UNCHANGED <<lock, pc, loc, jobVars, tick, dbVars>>

-----------------------------------------------------------------------------
(* The environment.                                                         *)

(* MAX_BACKUP_AGE_DAYS pass for the oldest file that is not past it yet and *)
(* that no running operation is at work on.                                 *)
AgeFile ==
  /\ Event("age")
  /\ \E f \in files :
       /\ ~f.old
       /\ \A p \in Ops : Holds(p) => loc[p].file # f.id
       /\ \A g \in files : g.mtime < f.mtime => g.old
       /\ files' = (files \ {f}) \cup {[f EXCEPT !.old = TRUE]}
  /\ UNCHANGED <<lock, pc, loc, jobVars, tick, dbVars>>

(* What a restore is for: a table is dropped or corrupted while no          *)
(* operation is running.                                                    *)
LoseTable ==
  /\ \A p \in Ops : ~Holds(p)
  /\ Event("lost")
  /\ \E t \in Tables : db' = [db EXCEPT ![t] = Lost]
  /\ UNCHANGED <<lock, pc, loc, jobVars, diskVars, ver>>

(* The Node process dies: requests in flight are gone; a job in flight is   *)
(* found stalled and run again, once (BullMQ's maxStalledCount).  Redis,    *)
(* the files and MariaDB remain.                                            *)
InFlight(p) == pc[p] \notin Terminal \cup {"idle"}

ProcessDies ==
  /\ pc' = [p \in Ops |-> IF ~InFlight(p) THEN pc[p]
                          ELSE IF p \in Imports \ stalled THEN "idle" ELSE "failed"]
  /\ loc' = [p \in Ops |-> NoLocals]
  /\ stalled' = stalled \cup {p \in Imports : InFlight(p)}
  /\ UNCHANGED <<lock, point, runs, diskVars, dbVars>>

Crash == Event("crash") /\ ProcessDies

(* The archive was deleted after getBackupFilePath looked: the read         *)
(* stream's error event has no listener, so the whole process goes down.    *)
ReadMissingArchive(p) ==
  /\ pc[p] = "read"
  /\ \A f \in files : f.id # loc[p].file
  /\ ProcessDies
  /\ left' = left

-----------------------------------------------------------------------------
BackupStep(p) ==
  DumpTable(p) \/ OpenFile(p) \/ CloseFile(p) \/ RotateOldBackups(p)

RestoreStep(p) == ReadArchive(p) \/ RestoreTable(p) \/ ReadMissingArchive(p)

(* Everything an operation does on its own once it was asked for.           *)
Step(p) ==
  AcquireLock(p) \/ ReleaseLock(p) \/ BackupStep(p) \/ RestoreStep(p)
    \/ StartImport(p) \/ EndImport(p)

Request(p) == RequestBackup(p) \/ RequestRestore(p)

Environment == WooItem \/ DeleteBackup \/ AgeFile \/ LoseTable \/ Crash \/ Expire

Next == Environment \/ \E p \in Ops : Step(p) \/ ImportItem(p) \/ Request(p)

Spec == Init /\ [][Next]_vars

(* The event loop keeps running what it has started, BullMQ keeps serving   *)
(* its queue and Redis keeps its clock; nobody has to send a request.       *)
Fairness ==
  /\ \A p \in Ops : WF_vars(Step(p))
  /\ WF_vars(Expire)

FairSpec == Spec /\ Fairness

-----------------------------------------------------------------------------
TypeOK ==
  /\ lock \in Ops \cup {Free}
  /\ pc \in [Ops -> Pc]
  /\ loc \in [Ops -> Locals]
  /\ point \in [Imports -> Nat]
  /\ runs \in [Imports -> 0..(Attempts - 1)]
  /\ stalled \subseteq Imports
  /\ files \subseteq File
  /\ tick \in Nat
  /\ db \in [Tables -> Content]
  /\ ver \in Nat
  /\ left \in Nat

(* No two operations believe they hold the key of the tenant: a backup, a   *)
(* restore and a keyed import never overlap (backup.service.ts acquireLock).*)
MutualExclusion == \A p, q \in Ops : Holds(p) /\ Holds(q) => p = q

(* An operation that gives the key back gives back its own: its DEL never   *)
(* takes the key from under another one (releaseLock; HOWITWORKS.md 8.3     *)
(* says a UUID is compared first).                                          *)
OnlyOwnKeyDeleted ==
  [][\A p \in Ops :
       Holds(p) /\ ~Holds(p)' /\ lock # Free /\ lock' = Free => lock = p]_vars

(* A backup that completes is a copy of the database at one instant, except *)
(* for the tables it skipped or cut short, although its tables were read    *)
(* one after the other over several pooled connections (generateSqlDump):   *)
(* only the WooCommerce import, which takes no key, can tear it.            *)
DumpIsSnapshot ==
  [][\A p \in Ops :
       pc[p] = "flush" /\ pc'[p] = "rotate" /\ ~loc[p].torn
         => \A t \in Tables : loc[p].buf[t] \in {db[t], Lost, Cut}]_vars

(* A restore that reports success, from a backup in which no table was      *)
(* skipped or cut short, leaves the database exactly as the backup has it   *)
(* (restoreBackup executes every statement or throws).                      *)
RestoreExact ==
  [][\A p \in Restores :
       /\ pc[p] = "exec" /\ pc'[p] = "rrelease" /\ loc'[p].ok
       /\ ~Partial(loc[p].buf)
       => db' = loc[p].buf]_vars

(* After a backup the directory is within its limit, the backup just made   *)
(* is still there unless somebody deleted it, and a file younger than the   *)
(* retention age made room only for newer ones (rotateOldBackups).          *)
RotationKeepsNewest ==
  [][\A p \in Ops :
       pc[p] = "rotate" /\ pc'[p] = "release"
         => /\ Cardinality(files') <= MaxBackups
            /\ \A f \in files \ files' :
                 /\ f.id # loc[p].file
                 /\ f.old \/ \A g \in files' : g.mtime > f.mtime]_vars

(* The key never outlives its usefulness: whoever set it, and whether that  *)
(* operation finished, failed, lost its reply or died, the key goes away.   *)
KeyFreed == lock # Free ~> lock = Free

(* A request that was accepted is answered and a job that was queued ends,  *)
(* with success or with an error, unless the process keeps crashing.        *)
OpsSettle ==
  /\ \A p \in Backups \cup Restores : pc[p] # "idle" ~> pc[p] \in Terminal
  /\ \A p \in Imports : <>(pc[p] \in Terminal)

(* An archive that can be restored in full, and is what it says.            *)
Whole(f) == f.complete /\ ~f.torn /\ ~Partial(f.content)

(* The backups promised by SnapshotStore.                                   *)
Store == INSTANCE SnapshotStore WITH
           States  <- [Tables -> Content],
           data    <- db,
           archive <- {f.content : f \in {g \in files : Whole(g)}}

(* The whole archives of a tenant behave as instantaneous copies: reading   *)
(* the tables one by one, half-written files, rotation, deletion, crashes   *)
(* and lost replies add nothing to SnapshotStore.                           *)
ImplementsSnapshots == Store!Spec
=============================================================================
