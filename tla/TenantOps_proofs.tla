--------------------------- MODULE TenantOps_proofs ---------------------------
(* Theorems about TenantOps, for any number of requests, jobs, tables and   *)
(* faults.                                                                  *)
EXTENDS TenantOps, FiniteSetTheorems, TLAPS

(* What an operation believes about the key is true.  MutualExclusion is    *)
(* not inductive without it: a step that enters the key's protection only   *)
(* sees that the key is free, not where the other operations are.           *)
KeyInv == \A p \in Ops : Holds(p) => lock = p

(* A dump or a restore stands at a table that exists; the cursor passes the *)
(* last table only in the steps that no longer use it.                      *)
CursorInv ==
  \A p \in Ops : \/ pc[p] \in {"write", "flush", "rotate", "release", "rrelease"}
                 \/ loc[p].cur <= NT

-----------------------------------------------------------------------------
(* Helpers.                                                                 *)

LEMMA NoLocalsType == NoLocals \in Locals
  BY BoundsAssumption DEF NoLocals, Locals, Content, Tables

LEMMA EventType ==
  ASSUME TypeOK, NEW kind \in EventKinds, Event(kind)
  PROVE  left' \in Nat
  BY DEF TypeOK, Event

LEMMA ReturnType ==
  ASSUME TypeOK, NEW p \in Ops, NEW l \in Pc, Return(p, l)
  PROVE  pc' \in [Ops -> Pc] /\ loc' \in [Ops -> Locals]
  BY NoLocalsType DEF TypeOK, Return, Goto

LEMMA AttemptFailsType ==
  ASSUME TypeOK, NEW p \in Ops, AttemptFails(p)
  PROVE  /\ pc' \in [Ops -> Pc] /\ loc' \in [Ops -> Locals]
         /\ runs' \in [Imports -> 0..(Attempts - 1)]
  <1>1. "idle" \in Pc /\ "failed" \in Pc
    BY DEF Pc, Terminal
  <1>2. CASE runs[p] + 1 < Attempts
    <2>1. Return(p, "idle") /\ runs' = [runs EXCEPT ![p] = @ + 1]
      BY <1>2 DEF AttemptFails
    <2>2. p \in Imports => runs[p] + 1 \in 0..(Attempts - 1)
      BY <1>2, BoundsAssumption DEF TypeOK
    <2>3. runs' \in [Imports -> 0..(Attempts - 1)]
      BY <2>1, <2>2 DEF TypeOK
    <2> QED BY <1>1, <2>1, <2>3, ReturnType
  <1>3. CASE ~(runs[p] + 1 < Attempts)
    BY <1>1, <1>3, ReturnType DEF AttemptFails, TypeOK
  <1> QED BY <1>2, <1>3

LEMMA BackupReturnsType ==
  ASSUME TypeOK, NEW p \in Ops, NEW success, BackupReturns(p, success)
  PROVE  pc' \in [Ops -> Pc] /\ loc' \in [Ops -> Locals]
  <1>1. {"claim", "done", "failed"} \subseteq Pc
    BY DEF Pc, Asking, Terminal
  <1> QED BY <1>1, ReturnType DEF BackupReturns

-----------------------------------------------------------------------------
(* Type correctness.                                                        *)

LEMMA InitTypeOK == Init => TypeOK
  <1> SUFFICES ASSUME Init PROVE TypeOK
    OBVIOUS
  <1>1. pc \in [Ops -> Pc] /\ loc \in [Ops -> Locals] /\ lock \in Ops \cup {Free}
    BY NoLocalsType DEF Init, Pc
  <1>2. /\ point \in [Imports -> Nat] /\ runs \in [Imports -> 0..(Attempts - 1)]
        /\ stalled \subseteq Imports
    BY BoundsAssumption DEF Init
  <1>3. /\ files \subseteq File /\ tick \in Nat /\ ver \in Nat
        /\ db \in [Tables -> Content] /\ left \in Nat
    BY BoundsAssumption DEF Init, Content
  <1> QED BY <1>1, <1>2, <1>3 DEF TypeOK

LEMMA AcquireLockType ==
  ASSUME TypeOK, NEW p \in Ops, AcquireLock(p)
  PROVE  TypeOK'
  <1>1. /\ pc' \in [Ops -> Pc] /\ loc' \in [Ops -> Locals]
        /\ runs' \in [Imports -> 0..(Attempts - 1)]
    <2>1. CASE Acquired(p) /\ UNCHANGED <<loc, runs>>
      <3>1. {"dump", "import", "read"} \subseteq Pc
        BY DEF Pc, InBackup, InImport, InRestore
      <3> QED BY <2>1, <3>1 DEF Acquired, Goto, TypeOK, AcquireLock, Asking
    <2>2. CASE Refused(p)
      <3>1. CASE BackupReturns(p, FALSE) /\ runs' = runs
        BY <3>1, BackupReturnsType DEF TypeOK
      <3>2. CASE AttemptFails(p)
        BY <3>2, AttemptFailsType
      <3>3. CASE Return(p, "failed") /\ runs' = runs
        BY <3>3, ReturnType DEF TypeOK, Pc, Terminal
      <3> QED BY <2>2, <3>1, <3>2, <3>3 DEF Refused
    <2> QED BY <2>1, <2>2 DEF AcquireLock
  <1>2. lock' \in Ops \cup {Free}
    BY DEF AcquireLock, TypeOK
  <1>3. left' \in Nat
    BY EventType DEF AcquireLock, EventKinds, TypeOK
  <1> QED BY <1>1, <1>2, <1>3 DEF AcquireLock, TypeOK, diskVars, dbVars

LEMMA ReleaseLockType ==
  ASSUME TypeOK, NEW p \in Ops, ReleaseLock(p)
  PROVE  TypeOK'
  <1>1. PICK delivered \in BOOLEAN :
          LET result == loc[p].ok /\ delivered
          IN /\ IF delivered THEN lock' = Free /\ left' = left
                             ELSE lock' = lock /\ Event("redis")
             /\ \/ /\ pc[p] = "release"
                   /\ BackupReturns(p, result)
                   /\ point' = IF p \in Imports /\ result
                               THEN [point EXCEPT ![p] = loc[p].file] ELSE point
                   /\ runs' = runs
                \/ /\ pc[p] = "unclaim"
                   /\ IF result THEN Return(p, "done") /\ runs' = runs
                                ELSE AttemptFails(p)
                   /\ point' = point
                \/ /\ pc[p] = "rrelease"
                   /\ Return(p, IF result THEN "done" ELSE "failed")
                   /\ UNCHANGED <<point, runs>>
             /\ UNCHANGED <<stalled, diskVars, dbVars>>
    BY DEF ReleaseLock
  <1> DEFINE result == loc[p].ok /\ delivered
  <1>2. lock' \in Ops \cup {Free} /\ left' \in Nat
    BY <1>1, EventType DEF TypeOK, EventKinds
  <1>3. "done" \in Pc /\ "failed" \in Pc
    BY DEF Pc, Terminal
  <1>4. /\ pc' \in [Ops -> Pc] /\ loc' \in [Ops -> Locals]
        /\ runs' \in [Imports -> 0..(Attempts - 1)]
    <2>1. CASE BackupReturns(p, result) /\ runs' = runs
      BY <2>1, BackupReturnsType DEF TypeOK
    <2>2. CASE IF result THEN Return(p, "done") /\ runs' = runs ELSE AttemptFails(p)
      BY <2>2, <1>3, ReturnType, AttemptFailsType DEF TypeOK
    <2>3. CASE Return(p, IF result THEN "done" ELSE "failed") /\ runs' = runs
      BY <2>3, <1>3, ReturnType DEF TypeOK
    <2> QED BY <1>1, <2>1, <2>2, <2>3
  <1>5. point' \in [Imports -> Nat]
    <2>1. loc[p].file \in Nat
      BY DEF TypeOK, Locals
    <2> QED BY <1>1, <2>1 DEF TypeOK
  <1> QED BY <1>1, <1>2, <1>4, <1>5 DEF TypeOK, diskVars, dbVars

LEMMA BackupStepType ==
  ASSUME TypeOK, CursorInv, NEW p \in Ops, BackupStep(p)
  PROVE  TypeOK'
  <1> {"write", "flush", "rotate", "release"} \subseteq Pc
    BY DEF Pc, InBackup
  <1>0. /\ loc[p] \in Locals /\ loc[p].buf \in [Tables -> Content]
        /\ tick + 1 \in Nat
    BY DEF TypeOK, Locals
  <1>1. CASE DumpTable(p)
    <2> DEFINE t == loc[p].cur
    <2>1. t \in Tables /\ t + 1 \in 1..(NT + 1)
      BY <1>0, <1>1, BoundsAssumption, SMTT(20) DEF DumpTable, CursorInv, Locals, Tables
    <2>2. PICK content \in {db[t], Lost, Cut} :
            /\ loc' = [loc EXCEPT ![p].buf[t] = content, ![p].cur = t + 1]
            /\ IF content = db[t] THEN left' = left ELSE Event("query")
      <3>1. PICK c \in {db[t], Lost} \cup (IF db[t] = Lost THEN {} ELSE {Cut}) :
              /\ loc' = [loc EXCEPT ![p].buf[t] = c, ![p].cur = t + 1]
              /\ IF c = db[t] THEN left' = left ELSE Event("query")
        BY <1>1 DEF DumpTable
      <3>2. c \in {db[t], Lost, Cut}
        OBVIOUS
      <3> QED BY <3>1, <3>2
    <2>3. content \in Content
      BY <2>1, <2>2 DEF TypeOK, Content
    <2>4. loc' \in [Ops -> Locals]
      BY <1>0, <2>1, <2>2, <2>3 DEF TypeOK, Locals
    <2>5. left' \in Nat
      BY <2>2, EventType DEF TypeOK, EventKinds
    <2>6. pc' \in [Ops -> Pc]
      BY <1>1 DEF DumpTable, TypeOK
    <2> QED BY <1>1, <2>4, <2>5, <2>6 DEF DumpTable, TypeOK, jobVars, diskVars, dbVars
  <1>2. CASE OpenFile(p)
    <2>1. loc' \in [Ops -> Locals]
      BY <1>0, <1>2 DEF OpenFile, TypeOK, Locals
    <2> DEFINE new == [id |-> tick', mtime |-> tick', content |-> loc[p].buf,
                       complete |-> FALSE, old |-> FALSE, torn |-> FALSE]
    <2>2. tick' \in Nat /\ files' = files \cup {new}
      BY <1>0, <1>2 DEF OpenFile
    <2>3. new \in File
      BY <1>0, <2>2 DEF File
    <2>4. files' \subseteq File
      BY <2>2, <2>3 DEF TypeOK
    <2> QED BY <1>2, <2>1, <2>2, <2>4 DEF OpenFile, Goto, TypeOK, jobVars, dbVars
  <1>3. CASE CloseFile(p)
    <2>1. files' \subseteq File /\ tick' \in Nat
      <3>1. CASE UNCHANGED diskVars
        BY <3>1 DEF diskVars, TypeOK
      <3>2. CASE \E f \in files :
                   /\ f.id = loc[p].file
                   /\ tick' = tick + 1
                   /\ files' = (files \ {f})
                                 \cup {[f EXCEPT !.complete = TRUE, !.mtime = tick',
                                                  !.torn = loc[p].torn]}
        <4>1. loc[p].torn \in BOOLEAN
          BY <1>0 DEF Locals
        <4> QED BY <1>0, <3>2, <4>1 DEF TypeOK, File
      <3> QED BY <1>3, <3>1, <3>2 DEF CloseFile
    <2> QED BY <1>3, <2>1 DEF CloseFile, Goto, TypeOK, jobVars, dbVars
  <1>4. CASE RotateOldBackups(p)
    <2>1. loc' \in [Ops -> Locals]
      BY <1>0, <1>4 DEF RotateOldBackups, TypeOK, Locals
    <2> QED BY <1>4, <2>1 DEF RotateOldBackups, Kept, Goto, TypeOK, jobVars, dbVars
  <1> QED BY <1>1, <1>2, <1>3, <1>4 DEF BackupStep

LEMMA ProcessDiesType ==
  ASSUME TypeOK, ProcessDies, left' \in Nat
  PROVE  TypeOK'
  <1>1. pc' \in [Ops -> Pc]
    BY DEF ProcessDies, TypeOK, Pc, Terminal
  <1>2. loc' \in [Ops -> Locals] /\ stalled' \subseteq Imports
    BY NoLocalsType DEF ProcessDies, TypeOK
  <1> QED BY <1>1, <1>2 DEF ProcessDies, TypeOK, diskVars, dbVars

LEMMA RestoreStepType ==
  ASSUME TypeOK, CursorInv, NEW p \in Ops, RestoreStep(p)
  PROVE  TypeOK'
  <1> {"exec", "rrelease"} \subseteq Pc
    BY DEF Pc, InRestore
  <1>0. loc[p] \in Locals /\ loc[p].buf \in [Tables -> Content]
    BY DEF TypeOK, Locals
  <1>1. CASE ReadArchive(p)
    <2>1. PICK f \in files : loc' = loc \/ loc' = [loc EXCEPT ![p].buf = f.content]
      BY <1>1 DEF ReadArchive
    <2>2. f.content \in [Tables -> Content]
      BY DEF TypeOK, File
    <2>3. loc' \in [Ops -> Locals]
      BY <1>0, <2>1, <2>2 DEF TypeOK, Locals
    <2> QED BY <1>1, <2>3 DEF ReadArchive, Goto, TypeOK, jobVars, diskVars, dbVars
  <1>2. CASE RestoreTable(p)
    <2> DEFINE t == loc[p].cur
    <2>1. t \in Tables /\ t + 1 \in 1..(NT + 1)
      BY <1>0, <1>2, BoundsAssumption DEF RestoreTable, CursorInv, Locals, Tables
    <2>2. PICK outcome \in Outcomes(p) :
            /\ db' = IF outcome = "created" THEN [db EXCEPT ![t] = loc[p].buf[t]] ELSE db
            /\ loc' = [loc EXCEPT ![p].ok = (outcome # "error" /\ t = NT),
                                  ![p].cur = t + 1]
            /\ pc' = IF outcome = "error" \/ t = NT
                     THEN [pc EXCEPT ![p] = "rrelease"] ELSE pc
      BY <1>2 DEF RestoreTable
    <2>3. db' \in [Tables -> Content]
      BY <1>0, <2>1, <2>2 DEF TypeOK
    <2>4. loc' \in [Ops -> Locals]
      BY <1>0, <2>1, <2>2 DEF TypeOK, Locals
    <2>5. pc' \in [Ops -> Pc]
      BY <2>2 DEF TypeOK
    <2> QED BY <1>2, <2>3, <2>4, <2>5 DEF RestoreTable, TypeOK, jobVars, diskVars
  <1>3. CASE ReadMissingArchive(p)
    BY <1>3, ProcessDiesType DEF ReadMissingArchive, TypeOK
  <1> QED BY <1>1, <1>2, <1>3 DEF RestoreStep

LEMMA CommitProductType ==
  ASSUME TypeOK, CommitProduct
  PROVE  db' \in [Tables -> Content] /\ ver' \in Nat
  BY DEF TypeOK, CommitProduct, Content

LEMMA JobAndRequestType ==
  ASSUME TypeOK, NEW p \in Ops,
         StartImport(p) \/ EndImport(p) \/ ImportItem(p) \/ Request(p)
  PROVE  TypeOK'
  <1>0. {"acquire", "claim", "racquire", "unclaim", "failed"} \subseteq Pc
    BY DEF Pc, Asking, InImport, Terminal
  <1>1. CASE StartImport(p)
    <2>1. /\ pc' \in [Ops -> Pc] /\ loc' \in [Ops -> Locals]
          /\ runs' \in [Imports -> 0..(Attempts - 1)]
      <3>1. CASE AttemptFails(p)
        BY <3>1, AttemptFailsType
      <3>2. CASE ~AttemptFails(p)
        BY <1>0, <1>1, <3>2 DEF StartImport, Goto, TypeOK
      <3> QED BY <3>1, <3>2
    <2> QED BY <1>1, <2>1 DEF StartImport, TypeOK, diskVars, dbVars
  <1>2. CASE EndImport(p)
    <2>1. loc' \in [Ops -> Locals]
      BY <1>2 DEF EndImport, TypeOK, Locals
    <2> QED BY <1>0, <1>2, <2>1 DEF EndImport, Goto, TypeOK, jobVars, diskVars, dbVars
  <1>3. CASE ImportItem(p)
    BY <1>3, CommitProductType DEF ImportItem, TypeOK, jobVars, diskVars
  <1>4. CASE RequestBackup(p)
    BY <1>0, <1>4 DEF RequestBackup, Goto, TypeOK, jobVars, diskVars, dbVars
  <1>5. CASE RequestRestore(p)
    <2>1. pc' \in [Ops -> Pc] /\ loc' \in [Ops -> Locals]
      <3>1. CASE Return(p, "failed")
        BY <1>0, <3>1, ReturnType
      <3>2. CASE /\ \E f \in files : loc' = [loc EXCEPT ![p].file = f.id]
                 /\ Goto(p, "racquire")
        BY <1>0, <3>2 DEF Goto, TypeOK, Locals, File
      <3> QED BY <1>5, <3>1, <3>2 DEF RequestRestore
    <2> QED BY <1>5, <2>1 DEF RequestRestore, TypeOK, jobVars, diskVars, dbVars
  <1> QED BY <1>1, <1>2, <1>3, <1>4, <1>5 DEF Request

LEMMA EnvironmentType ==
  ASSUME TypeOK, Environment
  PROVE  TypeOK'
  <1>0. EventKinds = {"lost", "crash", "redis", "query", "age", "delete"}
    BY DEF EventKinds
  <1>1. CASE WooItem
    <2>1. \A p \in Ops : (loc[p].torn \/ pc[p] \in {"dump", "write", "flush"}) \in BOOLEAN
      OBVIOUS
    <2>2. loc' \in [Ops -> Locals]
      BY <1>1, <2>1 DEF WooItem, TypeOK, Locals
    <2> QED BY <1>1, <2>2, CommitProductType DEF WooItem, TypeOK, jobVars, diskVars
  <1>2. CASE DeleteBackup
    BY <1>0, <1>2, EventType DEF DeleteBackup, TypeOK, jobVars, dbVars
  <1>3. CASE AgeFile
    <2>1. files' \subseteq File
      BY <1>3 DEF AgeFile, TypeOK, File
    <2> QED BY <1>0, <1>3, <2>1, EventType DEF AgeFile, TypeOK, jobVars, dbVars
  <1>4. CASE LoseTable
    <2>1. db' \in [Tables -> Content]
      BY <1>4 DEF LoseTable, TypeOK, Content
    <2> QED BY <1>0, <1>4, <2>1, EventType DEF LoseTable, TypeOK, jobVars, diskVars
  <1>5. CASE Crash
    BY <1>0, <1>5, EventType, ProcessDiesType DEF Crash
  <1>6. CASE Expire
    BY <1>6 DEF Expire, TypeOK, jobVars, diskVars, dbVars
  <1> QED BY <1>1, <1>2, <1>3, <1>4, <1>5, <1>6 DEF Environment

LEMMA NextTypeOK ==
  ASSUME TypeOK, CursorInv, [Next]_vars
  PROVE  TypeOK'
  <1>1. CASE Environment
    BY <1>1, EnvironmentType
  <1>2. ASSUME NEW p \in Ops, Step(p) \/ ImportItem(p) \/ Request(p)
        PROVE  TypeOK'
    BY <1>2, AcquireLockType, ReleaseLockType, BackupStepType, RestoreStepType,
       JobAndRequestType DEF Step
  <1>3. CASE UNCHANGED vars
    BY <1>3 DEF vars, jobVars, diskVars, dbVars, TypeOK
  <1> QED BY <1>1, <1>2, <1>3 DEF Next

LEMMA InitCursor == Init => CursorInv
  BY BoundsAssumption DEF Init, CursorInv, NoLocals

LEMMA ReturnCursor ==
  ASSUME TypeOK, CursorInv, NEW p \in Ops, NEW l \in Pc, Return(p, l)
  PROVE  CursorInv'
  BY BoundsAssumption DEF TypeOK, CursorInv, Return, Goto, NoLocals

(* An attempt that ends, however it ends, leaves no cursor behind.          *)
LEMMA EndCursor ==
  ASSUME TypeOK, CursorInv, NEW p \in Ops,
         \/ AttemptFails(p)
         \/ \E success \in BOOLEAN : BackupReturns(p, success)
  PROVE  CursorInv'
  <1>1. {"idle", "claim", "done", "failed"} \subseteq Pc
    BY DEF Pc, Asking, Terminal
  <1> QED BY <1>1, ReturnCursor DEF AttemptFails, BackupReturns

LEMMA NextCursor ==
  ASSUME TypeOK, CursorInv, [Next]_vars
  PROVE  CursorInv'
  <1>0. {"done", "failed"} \subseteq Pc
    BY DEF Pc, Terminal
  <1>1. ASSUME NEW p \in Ops, AcquireLock(p)
        PROVE  CursorInv'
    <2>1. CASE Acquired(p) /\ UNCHANGED loc
      BY <1>1, <2>1 DEF Acquired, Goto, AcquireLock, Asking, CursorInv, TypeOK
    <2>2. CASE Refused(p)
      BY <1>0, <2>2, EndCursor, ReturnCursor DEF Refused
    <2> QED BY <1>1, <2>1, <2>2 DEF AcquireLock
  <1>2. ASSUME NEW p \in Ops, ReleaseLock(p)
        PROVE  CursorInv'
    <2>1. \/ AttemptFails(p)
          \/ \E success \in BOOLEAN : BackupReturns(p, success)
          \/ \E l \in {"done", "failed"} : Return(p, l)
      <3>1. (loc[p].ok /\ TRUE) \in BOOLEAN /\ (loc[p].ok /\ FALSE) \in BOOLEAN
        OBVIOUS
      <3> QED BY <1>2, <3>1 DEF ReleaseLock
    <2> QED BY <1>0, <2>1, EndCursor, ReturnCursor
  <1>3. ASSUME NEW p \in Ops, BackupStep(p) \/ ReadArchive(p) \/ RestoreTable(p)
        PROVE  CursorInv'
    <2>1. CASE DumpTable(p)
      BY <2>1 DEF DumpTable, CursorInv, TypeOK, Locals
    <2>2. CASE OpenFile(p)
      BY <2>2 DEF OpenFile, Goto, CursorInv, TypeOK, Locals
    <2>3. CASE CloseFile(p) \/ RotateOldBackups(p)
      BY <2>3 DEF CloseFile, RotateOldBackups, Goto, CursorInv, TypeOK, Locals
    <2>4. CASE ReadArchive(p)
      BY <2>4 DEF ReadArchive, Goto, CursorInv, TypeOK, Locals
    <2>5. CASE RestoreTable(p)
      BY <2>5, SMTT(20) DEF RestoreTable, CursorInv, TypeOK, Locals
    <2> QED BY <1>3, <2>1, <2>2, <2>3, <2>4, <2>5 DEF BackupStep
  <1>4. CASE ProcessDies
    BY <1>4, BoundsAssumption DEF ProcessDies, CursorInv, NoLocals
  <1>5. ASSUME NEW p \in Ops, StartImport(p)
        PROVE  CursorInv'
    <2>1. CASE AttemptFails(p)
      BY <2>1, EndCursor
    <2>2. CASE ~AttemptFails(p)
      BY <1>5, <2>2 DEF StartImport, Goto, CursorInv, TypeOK
    <2> QED BY <2>1, <2>2
  <1>6. ASSUME NEW p \in Ops, EndImport(p) \/ RequestBackup(p)
        PROVE  CursorInv'
    <2>1. CASE RequestBackup(p)
      BY <2>1 DEF RequestBackup, Goto, CursorInv, TypeOK
    <2>2. CASE EndImport(p)
      <3>1. \A q \in Ops : loc'[q].cur = loc[q].cur
        BY <2>2 DEF EndImport, TypeOK, Locals
      <3> QED BY <2>2, <3>1 DEF EndImport, Goto, CursorInv, TypeOK
    <2> QED BY <1>6, <2>1, <2>2
  <1>7. ASSUME NEW p \in Ops, RequestRestore(p)
        PROVE  CursorInv'
    <2>1. CASE Return(p, "failed")
      BY <1>0, <2>1, ReturnCursor
    <2>2. CASE ~Return(p, "failed")
      BY <1>7, <2>2 DEF RequestRestore, Goto, CursorInv, TypeOK, Locals
    <2> QED BY <2>1, <2>2
  <1>8. CASE UNCHANGED <<pc, loc>>
    BY <1>8 DEF CursorInv
  <1>9. ASSUME NEW p \in Ops, ImportItem(p)
        PROVE  UNCHANGED <<pc, loc>>
    BY <1>9 DEF ImportItem
  <1>10. CASE DeleteBackup \/ AgeFile \/ LoseTable \/ Expire
    BY <1>8, <1>10 DEF DeleteBackup, AgeFile, LoseTable, Expire
  <1>11. CASE WooItem
    BY <1>11 DEF WooItem, CursorInv, TypeOK, Locals
  <1> QED BY <1>1, <1>2, <1>3, <1>4, <1>5, <1>6, <1>7, <1>8, <1>9, <1>10, <1>11
          DEF Next, Environment, Crash, Step, RestoreStep, ReadMissingArchive,
              Request, vars

(* Every state the operations can reach is well typed; in particular a dump *)
(* or a restore never addresses a table beyond the last, and no import job  *)
(* is run more than its number of attempts.                                 *)
THEOREM TypeCorrect == Spec => []TypeOK
  <1>1. Init => TypeOK /\ CursorInv
    BY InitTypeOK, InitCursor
  <1>2. TypeOK /\ CursorInv /\ [Next]_vars => (TypeOK /\ CursorInv)'
    BY NextTypeOK, NextCursor
  <1> QED BY <1>1, <1>2, PTL DEF Spec

-----------------------------------------------------------------------------
(* Mutual exclusion, as long as no operation outlives the key.              *)

LEMMA InitKey == Init => KeyInv
  BY DEF Init, KeyInv, Holds, InBackup, InImport, InRestore

(* A step of one operation under the key, or away from it.                  *)
LEMMA OneMoves ==
  ASSUME TypeOK, KeyInv, NEW p \in Ops, NEW l, Goto(p, l), lock' = lock,
         Holds(p)' => Holds(p)
  PROVE  KeyInv'
  BY DEF TypeOK, KeyInv, Goto, Holds

(* An operation that does not hold the key does not come to hold it by a    *)
(* refusal or by the end of an attempt.                                     *)
LEMMA OutsideGoto ==
  ASSUME TypeOK, NEW p \in Ops, NEW success,
         AttemptFails(p) \/ BackupReturns(p, success) \/ Return(p, "done")
           \/ Return(p, "failed") \/ Refused(p)
  PROVE  \E l \in {"idle", "claim", "done", "failed"} : Goto(p, l)
  BY DEF AttemptFails, BackupReturns, Return, Refused

LEMMA OutsideKey ==
  ASSUME TypeOK, NEW p \in Ops, NEW l \in {"idle", "claim", "done", "failed"},
         Goto(p, l)
  PROVE  ~Holds(p)' /\ \A q \in Ops \ {p} : pc'[q] = pc[q]
  BY DEF TypeOK, Goto, Holds, InBackup, InImport, InRestore

LEMMA AcquireLockKey ==
  ASSUME TypeOK, KeyInv, NEW p \in Ops, AcquireLock(p)
  PROVE  KeyInv'
  <1>1. CASE SetNX /\ lock' = p
    <2>1. \A q \in Ops : ~Holds(q)
      BY <1>1, OpsAssumption DEF SetNX, KeyInv
    <2>2. \A q \in Ops \ {p} : pc'[q] = pc[q]
      <3>1. CASE Acquired(p)
        BY <3>1 DEF Acquired, Goto, TypeOK
      <3>2. CASE Refused(p)
        BY <3>2, OutsideGoto, OutsideKey
      <3> QED BY <3>1, <3>2 DEF AcquireLock
    <2> QED BY <1>1, <2>1, <2>2 DEF KeyInv, Holds
  <1>2. CASE Refused(p) /\ lock' = lock
    BY <1>2, OutsideGoto, OutsideKey DEF KeyInv, Holds
  <1> QED BY <1>1, <1>2 DEF AcquireLock

LEMMA ReleaseLockKey ==
  ASSUME TypeOK, KeyInv, NEW p \in Ops, ReleaseLock(p)
  PROVE  KeyInv'
  <1>1. lock = p
    BY DEF ReleaseLock, KeyInv, Holds, InBackup, InImport, InRestore
  <1>2. \E l \in {"idle", "claim", "done", "failed"} : Goto(p, l)
    <2>1. \E success \in BOOLEAN :
            AttemptFails(p) \/ BackupReturns(p, success) \/ Return(p, "done")
              \/ Return(p, "failed")
      <3>1. (loc[p].ok /\ TRUE) \in BOOLEAN /\ (loc[p].ok /\ FALSE) \in BOOLEAN
        OBVIOUS
      <3> QED BY <3>1 DEF ReleaseLock
    <2> QED BY <2>1, OutsideGoto
  <1> QED BY <1>1, <1>2, OutsideKey DEF KeyInv, Holds

LEMMA OperationKey ==
  ASSUME TypeOK, KeyInv, NEW p \in Ops,
         Step(p) \/ ImportItem(p) \/ Request(p)
  PROVE  KeyInv'
  <1>1. CASE AcquireLock(p) \/ ReleaseLock(p)
    BY <1>1, AcquireLockKey, ReleaseLockKey
  <1>2. CASE BackupStep(p) \/ EndImport(p) \/ ReadArchive(p) \/ RestoreTable(p)
    <2>1. \E l : Goto(p, l)
      <3>1. CASE DumpTable(p) \/ RestoreTable(p)
        <4>1. pc = [pc EXCEPT ![p] = pc[p]]
          BY DEF TypeOK
        <4> QED BY <3>1, <4>1 DEF DumpTable, RestoreTable, Goto
      <3> QED BY <1>2, <3>1 DEF BackupStep, OpenFile, CloseFile, RotateOldBackups,
                               EndImport, ReadArchive
    <2>2. Holds(p) /\ lock' = lock
      BY <1>2 DEF BackupStep, DumpTable, OpenFile, CloseFile, RotateOldBackups,
                  EndImport, ReadArchive, RestoreTable, Holds, InBackup, InImport,
                  InRestore
    <2> QED BY <2>1, <2>2, OneMoves
  <1>3. CASE ReadMissingArchive(p)
    BY <1>3 DEF ReadMissingArchive, ProcessDies, InFlight, Terminal, KeyInv, Holds,
                InBackup, InImport, InRestore
  <1>4. CASE StartImport(p) \/ Request(p)
    <2>1. \E l \in {"idle", "claim", "done", "failed", "acquire", "racquire"} : Goto(p, l)
      BY <1>4, OutsideGoto DEF StartImport, Request, RequestBackup, RequestRestore, Return
    <2>2. ~Holds(p)' /\ lock' = lock
      BY <1>4, <2>1 DEF StartImport, Request, RequestBackup, RequestRestore, Goto,
                        TypeOK, Holds, InBackup, InImport, InRestore
    <2> QED BY <2>1, <2>2, OneMoves
  <1>5. CASE ImportItem(p)
    BY <1>5 DEF ImportItem, KeyInv, Holds
  <1> QED BY <1>1, <1>2, <1>3, <1>4, <1>5 DEF Step, RestoreStep

LEMMA NextKey ==
  ASSUME TypeOK, KeyInv, [Next]_vars, ~OutlivesTTL
  PROVE  KeyInv'
  <1>1. CASE Crash
    BY <1>1 DEF Crash, ProcessDies, InFlight, Terminal, KeyInv, Holds, InBackup,
                InImport, InRestore
  <1>2. CASE Expire
    \* only a key nobody believes in expires
    BY <1>2 DEF Expire, KeyInv, Holds
  <1>3. CASE WooItem \/ DeleteBackup \/ AgeFile \/ LoseTable \/ UNCHANGED vars
    BY <1>3 DEF WooItem, DeleteBackup, AgeFile, LoseTable, vars, KeyInv, Holds
  <1> QED BY <1>1, <1>2, <1>3, OperationKey DEF Next, Environment

LEMMA KeyInvariant ==
  ASSUME ~OutlivesTTL
  PROVE  Spec => []KeyInv
  <1>1. Init => TypeOK /\ CursorInv /\ KeyInv
    BY InitTypeOK, InitCursor, InitKey
  <1>2. TypeOK /\ CursorInv /\ KeyInv /\ [Next]_vars => (TypeOK /\ CursorInv /\ KeyInv)'
    BY NextTypeOK, NextCursor, NextKey
  <1> QED BY <1>1, <1>2, PTL DEF Spec

(* A backup, a restore and a keyed import of one tenant never overlap, for  *)
(* any number of each and whatever crashes, lost replies and refusals       *)
(* happen, provided that none of them runs longer than the key lives.       *)
THEOREM Exclusion ==
  ASSUME ~OutlivesTTL
  PROVE  Spec => []MutualExclusion
  <1>1. KeyInv => MutualExclusion
    BY DEF KeyInv, MutualExclusion
  <1> QED BY <1>1, KeyInvariant, PTL

(* Under the same proviso the unconditional DEL of releaseLock needs no     *)
(* comparison of owners: it never deletes the key of another operation.     *)
THEOREM OwnKeyOnly ==
  ASSUME ~OutlivesTTL
  PROVE  Spec => OnlyOwnKeyDeleted
  <1> DEFINE Own == \A p \in Ops : Holds(p) /\ ~Holds(p)' /\ lock # Free /\ lock' = Free
                                   => lock = p
  <1>1. KeyInv => Own
    BY DEF KeyInv
  <1>2. KeyInv /\ [Next]_vars => [Own]_vars
    BY <1>1
  <1> HIDE DEF Own
  <1>3. Spec => [][Own]_vars
    BY <1>2, KeyInvariant, PTL DEF Spec
  <1> QED BY <1>3 DEF Own, OnlyOwnKeyDeleted

-----------------------------------------------------------------------------
(* Dumps, archives and restores under the key.                              *)

(* What a dump has read of table t is still what the database holds.        *)
Copied(p, t) == loc[p].buf[t] \in {db[t], Lost, Cut}

(* A dump or a restore begins at the first table.                           *)
StartInv(p) == pc[p] \in {"idle", "read"} \cup Asking \cup Terminal => loc[p].cur = 1

(* The tables read so far are those of this instant, or torn is set.        *)
DumpInv(p) ==
  /\ pc[p] = "dump" => loc[p].torn \/ \A t \in Tables : t < loc[p].cur => Copied(p, t)
  /\ pc[p] \in {"write", "flush"} => loc[p].torn \/ \A t \in Tables : Copied(p, t)

(* The file an operation writes is what it has read, and stays the newest.  *)
FileInv(p) ==
  pc[p] \in {"flush", "rotate"} =>
    \A f \in files : f.id = loc[p].file =>
      /\ ~f.old
      /\ pc[p] = "flush" => ~f.complete /\ f.content = loc[p].buf
      /\ pc[p] = "rotate" => f.mtime = tick

(* A restore from an unimpaired archive has brought back the tables up to   *)
(* the next one; or the next one is there, and the restore will fail at it. *)
(* The second is what remains when a WooCommerce import writes in between.  *)
ExecInv(p) ==
  pc[p] = "exec" /\ ~Partial(loc[p].buf) =>
    \/ \A t \in Tables : t < loc[p].cur => db[t] = loc[p].buf[t]
    \/ db[loc[p].cur] # Lost

OpInv(p) == StartInv(p) /\ DumpInv(p) /\ FileInv(p) /\ ExecInv(p)

(* File names and times of change come from one clock.                      *)
DirInv ==
  /\ IsFiniteSet(files)
  /\ \A f \in files : f.id <= tick /\ f.mtime <= tick
  /\ \A f, g \in files : f # g => f.id # g.id /\ f.mtime # g.mtime

ArchiveInv == DirInv /\ \A p \in Ops : OpInv(p)

LEMMA PcFacts ==
  /\ Pc = {"idle", "acquire", "claim", "racquire", "dump", "write", "flush", "rotate", "release",
           "import", "unclaim", "read", "exec", "rrelease", "done", "failed"}
  /\ Asking = {"acquire", "claim", "racquire"} /\ Terminal = {"done", "failed"}
  /\ \A p : Holds(p) <=> pc[p] \in {"dump", "write", "flush", "rotate", "release",
                                    "import", "unclaim", "read", "exec", "rrelease"}
  BY DEF Pc, Asking, Terminal, Holds, InBackup, InImport, InRestore

LEMMA InitArchive == Init => ArchiveInv
  <1> SUFFICES ASSUME Init PROVE ArchiveInv
    OBVIOUS
  <1>1. DirInv
    BY FS_EmptySet DEF Init, DirInv
  <1>2. ASSUME NEW p \in Ops PROVE OpInv(p)
    BY DEF Init, OpInv, StartInv, DumpInv, FileInv, ExecInv, NoLocals
  <1> QED BY <1>1, <1>2 DEF ArchiveInv

(* While p has the key, the others only come and are refused.               *)
LEMMA OthersWait ==
  ASSUME TypeOK, KeyInv, NEW p \in Ops, NEW q \in Ops, q # p,
         Step(q) \/ ImportItem(q) \/ Request(q), ~ProcessDies
  PROVE  /\ pc'[p] = pc[p] /\ loc'[p] = loc[p]
         /\ Holds(p) => UNCHANGED <<db, files, tick>>
  <1>1. pc'[p] = pc[p] /\ loc'[p] = loc[p]
    <2>1. ASSUME NEW success, AttemptFails(q) \/ BackupReturns(q, success) \/ Refused(q)
                   \/ Return(q, "done") \/ Return(q, "failed")
          PROVE  pc'[p] = pc[p] /\ loc'[p] = loc[p]
      BY <2>1 DEF AttemptFails, BackupReturns, Refused, Return, Goto, TypeOK
    <2>2. CASE AcquireLock(q)
      <3>1. CASE Refused(q)
        BY <2>1, <3>1
      <3>2. CASE Acquired(q) /\ loc' = loc
        BY <3>2 DEF Acquired, Goto, TypeOK
      <3> QED BY <2>2, <3>1, <3>2 DEF AcquireLock
    <2>3. CASE ReleaseLock(q)
      <3>1. \E success : AttemptFails(q) \/ BackupReturns(q, success)
                   \/ Return(q, "done") \/ Return(q, "failed")
        BY <2>3 DEF ReleaseLock
      <3> QED BY <2>1, <3>1
    <2>4. CASE BackupStep(q)
      BY <2>4 DEF BackupStep, DumpTable, OpenFile, CloseFile, RotateOldBackups, Goto, TypeOK
    <2>5. CASE RestoreStep(q)
      BY <2>5 DEF RestoreStep, ReadArchive, RestoreTable, ReadMissingArchive, Goto, TypeOK
    <2>6. CASE StartImport(q)
      <3>1. CASE AttemptFails(q)
        BY <2>1, <3>1
      <3> QED BY <2>6, <3>1 DEF StartImport, Goto, TypeOK
    <2>7. CASE EndImport(q) \/ ImportItem(q)
      BY <2>7 DEF EndImport, ImportItem, Goto, TypeOK
    <2>8. CASE Request(q)
      BY <2>8 DEF Request, RequestBackup, RequestRestore, Return, Goto, TypeOK
    <2> QED BY <2>2, <2>3, <2>4, <2>5, <2>6, <2>7, <2>8 DEF Step
  <1>2. ASSUME Holds(p)
        PROVE  UNCHANGED <<db, files, tick>>
    <2>1. ~Holds(q)
      BY <1>2 DEF KeyInv
    <2>2. ~(ReleaseLock(q) \/ BackupStep(q) \/ RestoreStep(q) \/ EndImport(q) \/ ImportItem(q))
      BY <2>1, PcFacts DEF ReleaseLock, BackupStep, DumpTable, OpenFile, CloseFile,
         RotateOldBackups, RestoreStep, ReadArchive, RestoreTable, ReadMissingArchive,
         EndImport, ImportItem
    <2> QED BY <2>2 DEF Step, AcquireLock, StartImport, Request, RequestBackup,
                        RequestRestore, diskVars, dbVars
  <1> QED BY <1>1, <1>2

(* The invariant of p survives when its locals and what it works on do, but *)
(* for the flag torn.                                                       *)
LEMMA OpKept ==
  ASSUME NEW p \in Ops, OpInv(p), pc'[p] = pc[p], loc'[p] = loc[p],
         Holds(p) => UNCHANGED <<db, files, tick>>
  PROVE  OpInv(p)'
  <1>1. CASE Holds(p)
    BY <1>1 DEF OpInv, StartInv, DumpInv, Copied, FileInv, ExecInv
  <1>2. CASE ~Holds(p)
    <2>1. pc[p] \notin {"dump", "write", "flush", "rotate", "exec"}
      BY <1>2, PcFacts
    <2> QED BY <2>1 DEF OpInv, StartInv, DumpInv, FileInv, ExecInv
  <1> QED BY <1>1, <1>2

(* An operation that returns leaves nothing behind.                         *)
LEMMA ReturnKeeps ==
  ASSUME TypeOK, NEW p \in Ops, NEW l \in {"idle", "claim", "done", "failed"}, Return(p, l)
  PROVE  OpInv(p)'
  <1>1. pc'[p] = l /\ loc'[p].cur = 1
    BY DEF Return, Goto, TypeOK, NoLocals
  <1> QED BY <1>1 DEF OpInv, StartInv, DumpInv, FileInv, ExecInv

LEMMA EndKeeps ==
  ASSUME TypeOK, NEW p \in Ops, NEW success,
         AttemptFails(p) \/ BackupReturns(p, success) \/ Return(p, "done")
           \/ Return(p, "failed") \/ Refused(p)
  PROVE  OpInv(p)'
  BY ReturnKeeps DEF AttemptFails, BackupReturns, Refused

(* A step away from the archives' work that keeps the cursor.               *)
LEMMA AsideKeeps ==
  ASSUME TypeOK, NEW p \in Ops, NEW l \in Pc \ {"dump", "write", "flush", "rotate", "exec"},
         pc'[p] = l, l \in {"idle", "read"} \cup Asking \cup Terminal => loc'[p].cur = 1
  PROVE  OpInv(p)'
  BY DEF OpInv, StartInv, DumpInv, FileInv, ExecInv

LEMMA KeyKeeps ==
  ASSUME TypeOK, NEW p \in Ops, OpInv(p), AcquireLock(p) \/ ReleaseLock(p)
  PROVE  OpInv(p)'
  <1>1. CASE Refused(p)
    BY <1>1, EndKeeps
  <1>2. CASE ReleaseLock(p)
    <2>1. \E success : AttemptFails(p) \/ BackupReturns(p, success)
                 \/ Return(p, "done") \/ Return(p, "failed")
      BY <1>2 DEF ReleaseLock
    <2> QED BY <2>1, EndKeeps
  <1>3. CASE Acquired(p) /\ loc' = loc /\ pc[p] \in Asking
    <2>1. loc'[p].cur = 1
      BY <1>3 DEF OpInv, StartInv
    <2>2. pc'[p] \in {"dump", "import", "read"}
      BY <1>3 DEF Acquired, Goto, Asking, TypeOK
    <2>3. \A t \in Tables : ~(t < 1)
      BY BoundsAssumption DEF Tables
    <2> QED BY <2>1, <2>2, <2>3 DEF OpInv, StartInv, DumpInv, FileInv, ExecInv
  <1> QED BY <1>1, <1>2, <1>3 DEF AcquireLock

LEMMA DumpKeeps ==
  ASSUME TypeOK, CursorInv, NEW p \in Ops, OpInv(p), DumpTable(p)
  PROVE  OpInv(p)'
  <1>1. PICK t : t = loc[p].cur
    OBVIOUS
  <1>2. t \in Tables /\ t \in Nat /\ loc[p] \in Locals /\ pc[p] = "dump"
    BY <1>1, BoundsAssumption, SMTT(20) DEF DumpTable, CursorInv, TypeOK, Locals, Tables
  <1>3. PICK content \in {db[t], Lost, Cut} :
          loc' = [loc EXCEPT ![p].buf[t] = content, ![p].cur = t + 1]
    <2>1. PICK c \in {db[t], Lost} \cup (IF db[t] = Lost THEN {} ELSE {Cut}) :
            loc' = [loc EXCEPT ![p].buf[t] = c, ![p].cur = t + 1]
      BY <1>1 DEF DumpTable
    <2>2. c \in {db[t], Lost, Cut}
      OBVIOUS
    <2> QED BY <2>1, <2>2
  <1>4. /\ loc'[p].cur = t + 1 /\ loc'[p].torn = loc[p].torn /\ loc'[p].buf[t] = content
        /\ \A s \in Tables \ {t} : loc'[p].buf[s] = loc[p].buf[s]
    BY <1>2, <1>3 DEF TypeOK, Locals
  <1>5. db' = db /\ pc'[p] = IF t = NT THEN "write" ELSE "dump"
    BY <1>1, <1>2 DEF DumpTable, TypeOK, dbVars
  <1>6. loc[p].torn \/ \A s \in Tables : s < t + 1 => loc'[p].buf[s] \in {db'[s], Lost, Cut}
    <2> SUFFICES ASSUME ~loc[p].torn, NEW s \in Tables, s < t + 1
                 PROVE  loc'[p].buf[s] \in {db'[s], Lost, Cut}
      OBVIOUS
    <2>1. CASE s = t
      BY <1>4, <1>5, <2>1
    <2>2. CASE s # t
      <3>1. s < t
        BY <1>2, <2>2 DEF Tables
      <3>2. loc[p].buf[s] \in {db[s], Lost, Cut}
        BY <1>1, <1>2, <3>1 DEF OpInv, DumpInv, Copied
      <3> QED BY <1>4, <1>5, <2>2, <3>2
    <2> QED BY <2>1, <2>2
  <1>7. t = NT => \A s \in Tables : s < t + 1
    BY BoundsAssumption DEF Tables
  <1> QED BY <1>4, <1>5, <1>6, <1>7
          DEF OpInv, StartInv, DumpInv, Copied, FileInv, ExecInv, Asking, Terminal

LEMMA FileKeeps ==
  ASSUME TypeOK, DirInv, NEW p \in Ops, OpInv(p),
         OpenFile(p) \/ CloseFile(p) \/ RotateOldBackups(p)
  PROVE  OpInv(p)'
  <1>0. {"release", "rotate", "flush"} \subseteq Pc /\ tick \in Nat
    BY PcFacts DEF TypeOK
  <1>1. CASE OpenFile(p)
    <2>1. PICK new : new = [id |-> tick', mtime |-> tick', content |-> loc[p].buf,
                       complete |-> FALSE, old |-> FALSE, torn |-> FALSE]
      OBVIOUS
    <2>2. /\ tick' = tick + 1 /\ files' = files \cup {new} /\ pc'[p] = "flush" /\ db' = db
          /\ loc'[p].file = tick + 1 /\ loc'[p].buf = loc[p].buf /\ loc'[p].torn = loc[p].torn
      BY <1>1, <2>1 DEF OpenFile, Goto, TypeOK, Locals, dbVars
    <2>3. \A f \in files : f.id # tick + 1
      BY <1>0 DEF DirInv, TypeOK, File
    <2>4. FileInv(p)'
      BY <2>1, <2>2, <2>3 DEF FileInv
    <2>5. DumpInv(p)'
      BY <1>1, <2>2 DEF OpInv, DumpInv, Copied, OpenFile
    <2> QED BY <2>2, <2>4, <2>5 DEF OpInv, StartInv, ExecInv, Asking, Terminal
  <1>2. CASE pc'[p] = "release"
    BY <1>0, <1>2, AsideKeeps DEF Asking, Terminal
  <1>3. CASE CloseFile(p) /\ pc'[p] # "release"
    <2>1. PICK f \in files :
             /\ f.id = loc[p].file
             /\ tick' = tick + 1
             /\ files' = (files \ {f})
                           \cup {[f EXCEPT !.complete = TRUE, !.mtime = tick',
                                                !.torn = loc[p].torn]}
      BY <1>3 DEF CloseFile, Goto, TypeOK
    <2>2. PICK new : new = [f EXCEPT !.complete = TRUE, !.mtime = tick', !.torn = loc[p].torn]
      OBVIOUS
    <2>3. new.old = f.old /\ new.mtime = tick'
      BY <2>2 DEF TypeOK, File
    <2>4. pc'[p] = "rotate" /\ loc' = loc /\ pc[p] = "flush"
      BY <1>3 DEF CloseFile, Goto, TypeOK
    <2>5. ~f.old
      BY <2>1, <2>4 DEF OpInv, FileInv
    <2>6. \A g \in files \ {f} : g.id # loc[p].file
      BY <2>1 DEF DirInv
    <2>7. FileInv(p)'
      BY <2>1, <2>2, <2>3, <2>4, <2>5, <2>6 DEF FileInv
    <2> QED BY <2>4, <2>7 DEF OpInv, StartInv, DumpInv, ExecInv, Asking, Terminal
  <1>4. RotateOldBackups(p) => pc'[p] = "release"
    BY DEF RotateOldBackups, Goto, TypeOK
  <1> QED BY <1>1, <1>2, <1>3, <1>4

LEMMA RestoreKeeps ==
  ASSUME TypeOK, CursorInv, NEW p \in Ops, OpInv(p), ReadArchive(p) \/ RestoreTable(p)
  PROVE  /\ OpInv(p)'
         /\ pc[p] = "exec" /\ pc'[p] = "rrelease" /\ loc'[p].ok /\ ~Partial(loc[p].buf)
              => db' = loc[p].buf
  <1>0. {"rrelease", "exec"} \subseteq Pc
    BY PcFacts
  <1>1. CASE ReadArchive(p)
    <2>1. pc[p] = "read" /\ loc[p].cur = 1
      BY <1>1 DEF ReadArchive, OpInv, StartInv
    <2>2. pc'[p] \in {"exec", "rrelease"} /\ loc'[p].cur = 1
      BY <1>1, <2>1 DEF ReadArchive, Goto, TypeOK, Locals
    <2>3. \A t \in Tables : ~(t < 1)
      BY BoundsAssumption DEF Tables
    <2>4. OpInv(p)'
      BY <2>2, <2>3 DEF OpInv, StartInv, DumpInv, FileInv, ExecInv, Asking, Terminal
    <2> QED BY <2>1, <2>4
  <1>2. CASE RestoreTable(p)
    <2>1. PICK t : t = loc[p].cur
      OBVIOUS
    <2>2. t \in Tables /\ t \in Nat /\ loc[p] \in Locals /\ pc[p] = "exec"
      <3>1. pc[p] = "exec" /\ loc[p] \in Locals
        BY <1>2 DEF RestoreTable, TypeOK
      <3>2. loc[p].cur <= NT /\ loc[p].cur \in 1 .. (NT + 1)
        BY <3>1 DEF CursorInv, Locals
      <3> QED BY <2>1, <3>1, <3>2, BoundsAssumption DEF Tables
    <2>3. PICK outcome \in Outcomes(p) :
            /\ db' = IF outcome = "created" THEN [db EXCEPT ![t] = loc[p].buf[t]] ELSE db
            /\ loc' = [loc EXCEPT ![p].ok = (outcome # "error" /\ t = NT), ![p].cur = t + 1]
            /\ pc' = IF outcome = "error" \/ t = NT THEN [pc EXCEPT ![p] = "rrelease"] ELSE pc
      BY <1>2, <2>1 DEF RestoreTable
    <2>4. /\ loc'[p].buf = loc[p].buf /\ loc'[p].cur = t + 1
          /\ loc'[p].ok => outcome # "error" /\ t = NT
          /\ pc'[p] = IF outcome = "error" \/ t = NT THEN "rrelease" ELSE "exec"
      BY <2>2, <2>3 DEF TypeOK, Locals
    <2>5. ASSUME ~Partial(loc[p].buf), outcome # "error"
          PROVE  \A s \in Tables : s < t + 1 => db'[s] = loc[p].buf[s]
      <3>1. loc[p].buf[t] # Lost /\ ~Garbled(p)
        BY <2>2, <2>5 DEF Partial, Garbled
      <3>2. outcome = "created" /\ db[t] = Lost
        BY <2>1, <2>3, <2>5, <3>1 DEF Outcomes
      <3>3. \A s \in Tables : s < t => db[s] = loc[p].buf[s]
        BY <2>1, <2>2, <2>5, <3>2 DEF OpInv, ExecInv
      <3>4. \A s \in Tables : s < t + 1 => s = t \/ s < t
        BY <2>2 DEF Tables
      <3> QED BY <2>2, <2>3, <3>2, <3>3, <3>4 DEF TypeOK
    <2>6. OpInv(p)'
      <3>1. CASE pc'[p] = "rrelease"
        BY <1>0, <3>1, AsideKeeps DEF Asking, Terminal
      <3>2. CASE pc'[p] = "exec" /\ outcome # "error"
        <4>1. ExecInv(p)'
          BY <2>4, <2>5, <3>2 DEF ExecInv, Partial
        <4> QED BY <3>2, <4>1 DEF OpInv, StartInv, DumpInv, FileInv, Asking, Terminal
      <3> QED BY <2>4, <3>1, <3>2
    <2>7. ASSUME loc'[p].ok, ~Partial(loc[p].buf)
          PROVE  db' = loc[p].buf
      <3>1. \A s \in Tables : db'[s] = loc[p].buf[s]
        BY <2>4, <2>5, <2>7, BoundsAssumption DEF Tables
      <3>2. db' \in [Tables -> Content] /\ loc[p].buf \in [Tables -> Content]
        BY <2>2, <2>3 DEF TypeOK, Locals
      <3> QED BY <3>1, <3>2
    <2> QED BY <2>6, <2>7
  <1> QED BY <1>1, <1>2

LEMMA JobKeeps ==
  ASSUME TypeOK, NEW p \in Ops, OpInv(p),
         StartImport(p) \/ EndImport(p) \/ ImportItem(p) \/ Request(p)
  PROVE  OpInv(p)'
  <1>0. {"acquire", "claim", "racquire", "failed", "unclaim", "import"} \subseteq Pc
    BY PcFacts
  <1>1. CASE AttemptFails(p) \/ Return(p, "failed")
    BY <1>1, EndKeeps
  <1>2. CASE /\ pc[p] = "idle" /\ loc' = loc
             /\ pc'[p] \in {"acquire", "claim", "failed"}
    BY <1>0, <1>2, AsideKeeps DEF OpInv, StartInv
  <1>3. CASE EndImport(p) \/ ImportItem(p)
    <2>1. pc'[p] \in {"unclaim", "import"}
      BY <1>3 DEF EndImport, ImportItem, Goto, TypeOK
    <2> QED BY <1>0, <2>1, AsideKeeps DEF Asking, Terminal
  <1>4. CASE pc'[p] = "racquire" /\ RequestRestore(p)
    <2>1. loc'[p].cur = 1
      BY <1>4 DEF RequestRestore, Return, Goto, TypeOK, Locals, OpInv, StartInv
    <2> QED BY <1>0, <1>4, <2>1, AsideKeeps
  <1>5. StartImport(p) =>
          \/ AttemptFails(p)
          \/ pc[p] = "idle" /\ loc' = loc /\ pc'[p] \in {"acquire", "claim", "failed"}
    BY DEF StartImport, Goto, TypeOK
  <1>6. RequestBackup(p) => /\ pc[p] = "idle" /\ loc' = loc
             /\ pc'[p] \in {"acquire", "claim", "failed"}
    BY DEF RequestBackup, Goto, TypeOK
  <1>7. RequestRestore(p) => Return(p, "failed") \/ pc'[p] = "racquire"
    BY DEF RequestRestore, Goto, TypeOK
  <1> QED BY <1>1, <1>2, <1>3, <1>4, <1>5, <1>6, <1>7 DEF Request

(* What happens around the operations.                                      *)
LEMMA EnvironmentKeeps ==
  ASSUME TypeOK, CursorInv, NEW p \in Ops, OpInv(p), Environment \/ ProcessDies
  PROVE  OpInv(p)'
  <1>1. CASE WooItem
    <2>1. /\ pc'[p] = pc[p] /\ loc'[p].cur = loc[p].cur /\ loc'[p].buf = loc[p].buf
          /\ loc'[p].file = loc[p].file
          /\ pc[p] \in {"dump", "write", "flush"} => loc'[p].torn
      BY <1>1 DEF WooItem, TypeOK, Locals
    <2>2. files' = files /\ tick' = tick /\ \A t \in Tables : db'[t] # Lost
      BY <1>1, BoundsAssumption DEF WooItem, CommitProduct, TypeOK, diskVars
    <2>3. pc[p] = "exec" => loc[p].cur \in Tables
      <3>1. pc[p] = "exec" => loc[p].cur <= NT /\ loc[p].cur \in 1 .. (NT + 1)
        BY DEF CursorInv, TypeOK, Locals
      <3> QED BY <3>1, BoundsAssumption DEF Tables
    <2>4. ExecInv(p)'
      BY <2>1, <2>2, <2>3 DEF ExecInv
    <2>5. FileInv(p)'
      BY <2>1, <2>2 DEF OpInv, FileInv
    <2> QED BY <2>1, <2>4, <2>5 DEF OpInv, StartInv, DumpInv
  <1>2. CASE DeleteBackup
    <2>1. files' \subseteq files /\ pc' = pc /\ loc' = loc /\ db' = db /\ tick' = tick
      BY <1>2 DEF DeleteBackup, dbVars
    <2>2. FileInv(p)'
      BY <2>1 DEF OpInv, FileInv
    <2> QED BY <2>1, <2>2 DEF OpInv, StartInv, DumpInv, Copied, ExecInv
  <1>3. CASE AgeFile
    <2>1. PICK f \in files :
            /\ Holds(p) => loc[p].file # f.id
            /\ files' = (files \ {f}) \cup {[f EXCEPT !.old = TRUE]}
      BY <1>3 DEF AgeFile
    <2>2. pc' = pc /\ loc' = loc /\ db' = db /\ tick' = tick
      BY <1>3 DEF AgeFile, dbVars
    <2>3. [f EXCEPT !.old = TRUE].id = f.id
      BY DEF TypeOK, File
    <2>4. FileInv(p)'
      BY <2>1, <2>2, <2>3, PcFacts DEF OpInv, FileInv
    <2> QED BY <2>2, <2>4 DEF OpInv, StartInv, DumpInv, Copied, ExecInv
  <1>4. CASE LoseTable
    <2>1. ~Holds(p) /\ pc' = pc /\ loc' = loc
      BY <1>4 DEF LoseTable
    <2> QED BY <2>1, OpKept
  <1>5. CASE Expire
    BY <1>5, OpKept DEF Expire, diskVars, dbVars
  <1>6. CASE ProcessDies
    <2>1. loc'[p].cur = 1 /\ pc'[p] \in {"idle", "done", "failed"}
      BY <1>6 DEF ProcessDies, InFlight, Terminal, NoLocals
    <2>2. {"idle", "done", "failed"} \subseteq Pc
      BY PcFacts
    <2> QED BY <2>1, <2>2, AsideKeeps
  <1> QED BY <1>1, <1>2, <1>3, <1>4, <1>5, <1>6 DEF Environment, Crash

(* The directory.                                                           *)
LEMMA DirNext ==
  ASSUME TypeOK, DirInv, [Next]_vars
  PROVE  DirInv'
  <1>0. tick \in Nat /\ \A f \in files : f \in File /\ f.id \in Nat /\ f.mtime \in Nat
    BY DEF TypeOK, File
  <1>1. CASE files' \subseteq files /\ tick' = tick
    <2>1. IsFiniteSet(files')
      BY <1>1, FS_Subset DEF DirInv
    <2> QED BY <1>1, <2>1 DEF DirInv
  <1>2. ASSUME NEW new, new.id = tick + 1, new.mtime = tick + 1,
               files' = files \cup {new}, tick' = tick + 1
        PROVE  DirInv'
    <2>1. IsFiniteSet(files')
      BY <1>2, FS_AddElement DEF DirInv
    <2>2. \A f \in files : f.id < tick + 1 /\ f.mtime < tick + 1
      BY <1>0 DEF DirInv
    <2>3. \A f \in files' : f.id <= tick' /\ f.mtime <= tick'
      BY <1>0, <1>2, <2>2
    <2>4. \A f, g \in files' : f # g => f.id # g.id /\ f.mtime # g.mtime
      BY <1>0, <1>2, <2>2 DEF DirInv
    <2> QED BY <2>1, <2>3, <2>4 DEF DirInv
  <1>3. ASSUME NEW f \in files, NEW new, new.id = f.id,
               files' = (files \ {f}) \cup {new},
               \/ new.mtime = f.mtime /\ tick' = tick
               \/ new.mtime = tick + 1 /\ tick' = tick + 1
        PROVE  DirInv'
    <2>1. IsFiniteSet(files')
      BY <1>3, FS_RemoveElement, FS_AddElement DEF DirInv
    <2>2. \A g \in files : g.mtime < tick + 1 /\ g.id < tick + 1
      BY <1>0 DEF DirInv
    <2>3. \A g \in files \ {f} : g.mtime # new.mtime /\ g.id # new.id
      BY <1>0, <1>3, <2>2 DEF DirInv
    <2>4. \A g \in files' : g.id <= tick' /\ g.mtime <= tick'
      BY <1>0, <1>3, <2>2 DEF DirInv
    <2>5. \A g, h \in files' : g # h => g.id # h.id /\ g.mtime # h.mtime
      BY <1>3, <2>3 DEF DirInv
    <2> QED BY <2>1, <2>4, <2>5 DEF DirInv
  <1>4. CASE files' = files /\ tick' = tick
    BY <1>1, <1>4
  <1>5. CASE Environment
    <2>1. CASE AgeFile
      <3>1. PICK f \in files : files' = (files \ {f}) \cup {[f EXCEPT !.old = TRUE]}
        BY <2>1 DEF AgeFile
      <3>2. [f EXCEPT !.old = TRUE].id = f.id /\ [f EXCEPT !.old = TRUE].mtime = f.mtime
        BY <1>0 DEF File
      <3>3. tick' = tick
        BY <2>1 DEF AgeFile
      <3> QED BY <1>3, <3>1, <3>2, <3>3
    <2>2. CASE DeleteBackup
      BY <1>1, <2>2 DEF DeleteBackup
    <2> QED BY <1>4, <1>5, <2>1, <2>2
            DEF Environment, WooItem, LoseTable, Crash, ProcessDies, Expire, diskVars
  <1>6. ASSUME NEW p \in Ops, BackupStep(p)
        PROVE  DirInv'
    <2>1. CASE OpenFile(p)
      <3>1. PICK new : new = [id |-> tick', mtime |-> tick', content |-> loc[p].buf,
                       complete |-> FALSE, old |-> FALSE, torn |-> FALSE]
        OBVIOUS
      <3> QED BY <1>2, <2>1, <3>1 DEF OpenFile
    <2>2. CASE CloseFile(p)
      <3>1. CASE UNCHANGED diskVars
        BY <1>4, <3>1 DEF diskVars
      <3>2. CASE ~UNCHANGED diskVars
        <4>1. PICK f \in files :
                /\ tick' = tick + 1
                /\ files' = (files \ {f})
                             \cup {[f EXCEPT !.complete = TRUE, !.mtime = tick',
                                             !.torn = loc[p].torn]}
          BY <2>2, <3>2 DEF CloseFile
        <4>2. PICK new : new = [f EXCEPT !.complete = TRUE, !.mtime = tick',
                                         !.torn = loc[p].torn]
          OBVIOUS
        <4>3. new.id = f.id /\ new.mtime = tick'
          BY <1>0, <4>2 DEF File
        <4> QED BY <1>3, <4>1, <4>2, <4>3
      <3> QED BY <3>1, <3>2
    <2>3. CASE RotateOldBackups(p)
      BY <1>1, <2>3 DEF RotateOldBackups, Kept
    <2>4. CASE DumpTable(p)
      BY <1>4, <2>4 DEF DumpTable, diskVars
    <2> QED BY <1>6, <2>1, <2>2, <2>3, <2>4 DEF BackupStep
  <1>7. ASSUME NEW p \in Ops, Step(p) \/ ImportItem(p) \/ Request(p), ~BackupStep(p)
        PROVE  DirInv'
    BY <1>4, <1>7 DEF Step, AcquireLock, ReleaseLock, RestoreStep, ReadArchive, RestoreTable,
       ReadMissingArchive, ProcessDies, StartImport, EndImport, ImportItem, Request,
       RequestBackup, RequestRestore, diskVars
  <1>8. CASE UNCHANGED vars
    BY <1>4, <1>8 DEF vars, diskVars
  <1> QED BY <1>5, <1>6, <1>7, <1>8 DEF Next, Step

LEMMA NextArchive ==
  ASSUME TypeOK, CursorInv, KeyInv, ArchiveInv, [Next]_vars
  PROVE  ArchiveInv'
  <1>1. DirInv'
    BY DirNext DEF ArchiveInv
  <1>2. ASSUME NEW p \in Ops
        PROVE  OpInv(p)'
    <2>0. OpInv(p) /\ DirInv
      BY DEF ArchiveInv
    <2>1. CASE Environment \/ ProcessDies
      BY <2>0, <2>1, EnvironmentKeeps
    <2>2. ASSUME NEW q \in Ops, Step(q) \/ ImportItem(q) \/ Request(q), ~ProcessDies
          PROVE  OpInv(p)'
      <3>1. CASE q # p
        BY <2>0, <2>2, <3>1, OthersWait, OpKept
      <3>2. CASE q = p
        <4>1. AcquireLock(p) \/ ReleaseLock(p) => OpInv(p)'
          BY <2>0, KeyKeeps
        <4>2. BackupStep(p) => OpInv(p)'
          BY <2>0, DumpKeeps, FileKeeps DEF BackupStep
        <4>3. RestoreStep(p) => OpInv(p)'
          BY <2>0, <2>2, RestoreKeeps DEF RestoreStep, ReadMissingArchive
        <4>4. StartImport(p) \/ EndImport(p) \/ ImportItem(p) \/ Request(p) => OpInv(p)'
          BY <2>0, JobKeeps
        <4> QED BY <2>2, <3>2, <4>1, <4>2, <4>3, <4>4 DEF Step
      <3> QED BY <3>1, <3>2
    <2>3. CASE UNCHANGED vars
      BY <2>0, <2>3, OpKept DEF vars, diskVars, dbVars
    <2> QED BY <2>1, <2>2, <2>3 DEF Next
  <1> QED BY <1>1, <1>2 DEF ArchiveInv

LEMMA ArchiveInvariant ==
  ASSUME ~OutlivesTTL
  PROVE  Spec => [](TypeOK /\ CursorInv /\ KeyInv /\ ArchiveInv)
  <1>1. Init => TypeOK /\ CursorInv /\ KeyInv /\ ArchiveInv
    BY InitTypeOK, InitCursor, InitKey, InitArchive
  <1>2. /\ TypeOK /\ CursorInv /\ KeyInv /\ ArchiveInv
        /\ [Next]_vars
        => (TypeOK /\ CursorInv /\ KeyInv /\ ArchiveInv)'
    BY NextTypeOK, NextCursor, NextKey, NextArchive
  <1> QED BY <1>1, <1>2, PTL DEF Spec

-----------------------------------------------------------------------------
(* The promises about backups.                                              *)

(* The step in which an operation reaches l from h is its own.              *)
LEMMA OwnMove ==
  ASSUME TypeOK, KeyInv, NEW p \in Ops, pc[p] \in {"flush", "exec", "rotate"},
         pc'[p] \in {"rotate", "rrelease", "release"}, pc'[p] # pc[p], Next
  PROVE  /\ pc[p] = "flush" => CloseFile(p)
         /\ pc[p] = "exec" => RestoreTable(p)
         /\ pc[p] = "rotate" => RotateOldBackups(p)
  <1>1. ~ProcessDies
    BY DEF ProcessDies, InFlight, Terminal
  <1>2. ~Environment
    BY <1>1 DEF Environment, WooItem, DeleteBackup, AgeFile, LoseTable, Crash, Expire
  <1>3. PICK q \in Ops : Step(q) \/ ImportItem(q) \/ Request(q)
    BY <1>2 DEF Next
  <1>4. q = p
    BY <1>1, <1>3, OthersWait
  <1> QED BY <1>1, <1>3, <1>4, PcFacts
          DEF Step, AcquireLock, ReleaseLock, BackupStep, DumpTable, OpenFile, CloseFile,
              RotateOldBackups, RestoreStep, ReadArchive, RestoreTable, ReadMissingArchive,
              StartImport, EndImport, ImportItem, Request, RequestBackup, RequestRestore

(* A backup that completes is a copy of the database at one instant, but    *)
(* for the tables it skipped or cut short, for any number of tables, other  *)
(* operations and faults: only WooCommerce's keyless import can tear it.    *)
THEOREM DumpsAreSnapshots ==
  ASSUME ~OutlivesTTL
  PROVE  Spec => DumpIsSnapshot
  <1> DEFINE Act == \A p \in Ops :
                      pc[p] = "flush" /\ pc'[p] = "rotate" /\ ~loc[p].torn
                        => \A t \in Tables : loc[p].buf[t] \in {db[t], Lost, Cut}
  <1>1. ArchiveInv => Act
    BY DEF ArchiveInv, OpInv, DumpInv, Copied
  <1>2. ArchiveInv /\ [Next]_vars => [Act]_vars
    BY <1>1
  <1> HIDE DEF Act
  <1>3. Spec => [][Act]_vars
    BY <1>2, ArchiveInvariant, PTL DEF Spec
  <1> QED BY <1>3 DEF Act, DumpIsSnapshot

(* A restore that reports success, from a backup with every table whole,    *)
(* leaves the database exactly as the backup has it, even if WooCommerce's  *)
(* import writes in between: it can write only when all tables are there,   *)
(* and then the restore fails at the next one.                              *)
THEOREM RestoresAreExact ==
  ASSUME ~OutlivesTTL
  PROVE  Spec => RestoreExact
  <1> DEFINE Act == \A p \in Restores :
                      /\ pc[p] = "exec" /\ pc'[p] = "rrelease" /\ loc'[p].ok
                      /\ ~Partial(loc[p].buf)
                      => db' = loc[p].buf
  <1> DEFINE IInv == TypeOK /\ CursorInv /\ KeyInv /\ ArchiveInv
  <1>1. IInv /\ Next => Act
    <2> SUFFICES ASSUME IInv, Next, NEW p \in Restores,
                        pc[p] = "exec", pc'[p] = "rrelease", loc'[p].ok,
                        ~Partial(loc[p].buf)
                 PROVE  db' = loc[p].buf
      OBVIOUS
    <2>1. p \in Ops
      BY DEF Ops
    <2>2. RestoreTable(p)
      BY <2>1, OwnMove
    <2> QED BY <2>1, <2>2, RestoreKeeps DEF ArchiveInv
  <1>2. IInv /\ [Next]_vars => [Act]_vars
    BY <1>1
  <1>3. Spec => []IInv
    BY ArchiveInvariant
  <1> HIDE DEF Act, IInv
  <1>4. Spec => [][Act]_vars
    BY <1>2, <1>3, PTL DEF Spec
  <1> QED BY <1>4 DEF Act, RestoreExact

(* The files of F that make f one of the older ones.                        *)
Newer(F, f) == {g \in F : ~g.old /\ g.mtime > f.mtime}

LEMMA NewerNests ==
  ASSUME NEW F, F \subseteq File, IsFiniteSet(F), NEW f \in F, NEW g \in F, f.mtime < g.mtime
  PROVE  /\ Cardinality(Newer(F, f)) \in Nat /\ Cardinality(Newer(F, g)) \in Nat
         /\ Cardinality(Newer(F, g)) <= Cardinality(Newer(F, f))
         /\ ~g.old => Cardinality(Newer(F, g)) # Cardinality(Newer(F, f))
  <1>1. \A h \in F : h.mtime \in Nat
    BY DEF File
  <1>2. Newer(F, g) \subseteq Newer(F, f) /\ Newer(F, f) \subseteq F
    BY <1>1 DEF Newer
  <1>3. IsFiniteSet(Newer(F, f))
    BY <1>2, FS_Subset
  <1>4. IsFiniteSet(Newer(F, g))
    BY <1>2, <1>3, FS_Subset
  <1>5. /\ Cardinality(Newer(F, g)) <= Cardinality(Newer(F, f))
        /\ Cardinality(Newer(F, f)) = Cardinality(Newer(F, g)) => Newer(F, f) = Newer(F, g)
    BY <1>2, <1>3, FS_Subset
  <1>6. ~g.old => g \in Newer(F, f) /\ g \notin Newer(F, g)
    BY <1>1 DEF Newer
  <1> QED BY <1>3, <1>4, <1>5, <1>6, FS_CardinalityType

(* rotateOldBackups keeps at most MaxBackups files: the kept ones have      *)
(* different numbers of newer files, all below MaxBackups.                  *)
LEMMA KeptBound ==
  ASSUME NEW F, F \subseteq File, IsFiniteSet(F),
         \A f, g \in F : f # g => f.mtime # g.mtime
  PROVE  Cardinality(Kept(F)) <= MaxBackups
  <1>0. MaxBackups \in Nat \ {0}
    BY BoundsAssumption
  <1> DEFINE Rank == [f \in Kept(F) |-> Cardinality(Newer(F, f))]
             Ranks == 0 .. (MaxBackups - 1)
  <1>1. Kept(F) \subseteq F /\ \A f \in Kept(F) : ~f.old /\ Cardinality(Newer(F, f)) < MaxBackups
    BY DEF Kept, Newer
  <1>2. \A f \in Kept(F) : Cardinality(Newer(F, f)) \in Nat
    <2> SUFFICES ASSUME NEW f \in Kept(F) PROVE Cardinality(Newer(F, f)) \in Nat
      OBVIOUS
    <2>1. Newer(F, f) \in SUBSET F
      BY DEF Newer
    <2> QED BY <2>1, FS_Subset, FS_CardinalityType
  <1>3. Rank \in [Kept(F) -> Ranks]
    BY <1>0, <1>1, <1>2
  <1>4. ASSUME NEW f \in Kept(F), NEW g \in Kept(F), Rank[f] = Rank[g]
        PROVE  f = g
    <2>1. Cardinality(Newer(F, f)) = Cardinality(Newer(F, g))
      BY <1>4
    <2>2. f \in F /\ g \in F /\ ~f.old /\ ~g.old /\ f.mtime \in Nat /\ g.mtime \in Nat
      BY <1>1 DEF File
    <2>3. ~(f.mtime < g.mtime) /\ ~(g.mtime < f.mtime)
      BY <2>1, <2>2, NewerNests
    <2>4. f.mtime = g.mtime
      BY <2>2, <2>3
    <2> QED BY <2>2, <2>4
  <1>5. Rank \in Injection(Kept(F), Ranks)
    <2> HIDE DEF Rank, Ranks
    <2>1. \A a, b \in Kept(F) : Rank[a] = Rank[b] => a = b
      BY <1>4
    <2> QED BY <1>3, <2>1 DEF Injection, IsInjective
  <1>6. IsFiniteSet(Ranks) /\ Cardinality(Ranks) = MaxBackups
    BY <1>0, FS_Interval
  <1> HIDE DEF Rank, Ranks
  <1> QED BY <1>5, <1>6, FS_Injection

(* After a backup the directory has at most MaxBackups files, the backup    *)
(* just made among them, and what was deleted was past its age or older     *)
(* than everything that is left (rotateOldBackups), for any limit.          *)
THEOREM RotationIsRight ==
  ASSUME ~OutlivesTTL
  PROVE  Spec => RotationKeepsNewest
  <1> DEFINE Act == \A p \in Ops :
                      pc[p] = "rotate" /\ pc'[p] = "release"
                        => /\ Cardinality(files') <= MaxBackups
                           /\ \A f \in files \ files' :
                                /\ f.id # loc[p].file
                                /\ f.old \/ \A g \in files' : g.mtime > f.mtime
  <1> DEFINE IInv == TypeOK /\ CursorInv /\ KeyInv /\ ArchiveInv
  <1>1. IInv /\ Next => Act
    <2> SUFFICES ASSUME IInv, Next, NEW p \in Ops, pc[p] = "rotate", pc'[p] = "release"
                 PROVE  /\ Cardinality(files') <= MaxBackups
                        /\ \A f \in files \ files' :
                             /\ f.id # loc[p].file
                             /\ f.old \/ \A g \in files' : g.mtime > f.mtime
      OBVIOUS
    <2>1. files' = Kept(files)
      BY OwnMove DEF RotateOldBackups
    <2>2. /\ files \subseteq File /\ IsFiniteSet(files) /\ tick \in Nat
          /\ \A f, g \in files : f # g => f.mtime # g.mtime
          /\ \A f \in files : f.mtime <= tick /\ f.mtime \in Nat
      BY DEF ArchiveInv, DirInv, TypeOK, File
    <2>3. Cardinality(files') <= MaxBackups
      BY <2>1, <2>2, KeptBound
    <2>4. ASSUME NEW f \in files \ files'
          PROVE  f.id # loc[p].file
      <3> SUFFICES ASSUME f.id = loc[p].file PROVE f \in Kept(files)
        BY <2>1
      <3>1. ~f.old /\ f.mtime = tick
        BY DEF ArchiveInv, OpInv, FileInv
      <3>2. {g \in files : ~g.old /\ g.mtime > f.mtime} = {}
        BY <2>2, <3>1
      <3>3. Cardinality({}) = 0
        BY FS_EmptySet
      <3>4. 0 < MaxBackups
        BY BoundsAssumption
      <3> QED BY <3>1, <3>2, <3>3, <3>4 DEF Kept
    <2>5. ASSUME NEW f \in files \ files', ~f.old, NEW g \in files'
          PROVE  g.mtime > f.mtime
      <3>1. g \in files /\ Cardinality(Newer(files, g)) < MaxBackups /\ g # f
        BY <2>1, <2>5 DEF Kept, Newer
      <3>2. ~(Cardinality(Newer(files, f)) < MaxBackups)
        BY <2>1, <2>5 DEF Kept, Newer
      <3>3. ~(g.mtime < f.mtime)
        <4> SUFFICES ASSUME g.mtime < f.mtime PROVE FALSE
          OBVIOUS
        <4>1. /\ Cardinality(Newer(files, f)) <= Cardinality(Newer(files, g))
              /\ Cardinality(Newer(files, f)) \in Nat /\ Cardinality(Newer(files, g)) \in Nat
          BY <2>2, <3>1, NewerNests
        <4> QED BY <3>1, <3>2, <4>1, BoundsAssumption
      <3> QED BY <2>2, <3>1, <3>3
    <2> QED BY <2>3, <2>4, <2>5
  <1>2. IInv /\ [Next]_vars => [Act]_vars
    BY <1>1
  <1>3. Spec => []IInv
    BY ArchiveInvariant
  <1> HIDE DEF Act, IInv
  <1>4. Spec => [][Act]_vars
    BY <1>2, <1>3, PTL DEF Spec
  <1> QED BY <1>4 DEF Act, RotationKeepsNewest

-----------------------------------------------------------------------------
(* TenantOps implements SnapshotStore.                                      *)

Archived == {f.content : f \in {g \in files : Whole(g)}}

LEMMA StoreStep ==
  ASSUME TypeOK, CursorInv, KeyInv, ArchiveInv, TypeOK', [Next]_vars
  PROVE  \/ db' \in [Tables -> Content] /\ Archived' = Archived
         \/ Archived' = Archived \cup {db} /\ db' = db
         \/ Archived' \subseteq Archived /\ db' = db
  <1>0. db' \in [Tables -> Content]
    BY DEF TypeOK
  <1>1. CASE files' = files
    BY <1>0, <1>1 DEF Archived
  <1>2. CASE files' \subseteq files /\ db' = db
    BY <1>2 DEF Archived
  <1>3. ASSUME NEW f \in files, NEW g, g.content = f.content, Whole(g) <=> Whole(f),
               files' = (files \ {f}) \cup {g}
        PROVE  Archived' = Archived
    BY <1>3 DEF Archived
  <1>4. ASSUME NEW g, ~Whole(g), files' = files \cup {g}
        PROVE  Archived' = Archived
    BY <1>4 DEF Archived
  <1>5. CASE Environment
    <2>1. CASE AgeFile
      <3>1. PICK f \in files : files' = (files \ {f}) \cup {[f EXCEPT !.old = TRUE]}
        BY <2>1 DEF AgeFile
      <3>2. PICK g : g = [f EXCEPT !.old = TRUE]
        OBVIOUS
      <3>3. g.content = f.content /\ g.complete = f.complete /\ g.torn = f.torn
        BY <3>2 DEF TypeOK, File
      <3> QED BY <1>0, <1>3, <3>1, <3>2, <3>3 DEF Whole
    <2>2. CASE DeleteBackup
      BY <1>2, <2>2 DEF DeleteBackup, dbVars
    <2> QED BY <1>1, <1>5, <2>1, <2>2
            DEF Environment, WooItem, LoseTable, Crash, ProcessDies, Expire, diskVars
  <1>6. ASSUME NEW p \in Ops, BackupStep(p)
        PROVE  \/ Archived' = Archived
               \/ Archived' = Archived \cup {db} /\ db' = db
               \/ Archived' \subseteq Archived /\ db' = db
    <2>1. CASE OpenFile(p)
      <3>1. PICK g : g = [id |-> tick', mtime |-> tick', content |-> loc[p].buf,
                       complete |-> FALSE, old |-> FALSE, torn |-> FALSE]
        OBVIOUS
      <3> QED BY <1>4, <2>1, <3>1 DEF OpenFile, Whole
    <2>2. CASE CloseFile(p)
      <3>1. CASE UNCHANGED diskVars
        BY <1>1, <3>1 DEF diskVars, Archived
      <3>2. CASE ~UNCHANGED diskVars
        <4>1. PICK f \in files :
                /\ f.id = loc[p].file
                /\ files' = (files \ {f})
                             \cup {[f EXCEPT !.complete = TRUE, !.mtime = tick',
                                             !.torn = loc[p].torn]}
          BY <2>2, <3>2 DEF CloseFile
        <4>2. PICK g : g = [f EXCEPT !.complete = TRUE, !.mtime = tick',
                                     !.torn = loc[p].torn]
          OBVIOUS
        <4>3. g.content = f.content /\ g.torn = loc[p].torn
          BY <4>2 DEF TypeOK, File
        <4>4. pc[p] = "flush" /\ OpInv(p) /\ db' = db
          BY <2>2 DEF CloseFile, ArchiveInv, dbVars
        <4>5. ~f.complete /\ f.content = loc[p].buf
          BY <4>1, <4>4 DEF OpInv, FileInv
        <4>6. Whole(g) => g.content = db
          <5> SUFFICES ASSUME Whole(g) PROVE g.content = db
            OBVIOUS
          <5>1. \A t \in Tables : loc[p].buf[t] \notin {Lost, Cut}
            BY <4>3, <4>5 DEF Whole, Partial
          <5>2. \A t \in Tables : loc[p].buf[t] = db[t]
            BY <4>3, <4>4, <5>1 DEF Whole, OpInv, DumpInv, Copied
          <5>3. loc[p].buf \in [Tables -> Content] /\ db \in [Tables -> Content]
            BY DEF TypeOK, Locals
          <5> QED BY <4>3, <4>5, <5>2, <5>3
        <4>7. ~Whole(f)
          BY <4>5 DEF Whole
        <4>8. CASE Whole(g)
          <5>1. {h \in files' : Whole(h)} = {h \in files : Whole(h)} \cup {g}
            BY <4>1, <4>2, <4>8, <4>7
          <5>2. Archived' = Archived \cup {g.content}
            BY <5>1 DEF Archived
          <5> QED BY <4>4, <4>6, <4>8, <5>2
        <4>9. CASE ~Whole(g)
          <5>1. {h \in files' : Whole(h)} = {h \in files : Whole(h)}
            BY <4>1, <4>2, <4>9, <4>7
          <5> QED BY <5>1 DEF Archived
        <4> QED BY <4>8, <4>9
      <3> QED BY <3>1, <3>2
    <2>3. CASE RotateOldBackups(p)
      BY <1>2, <2>3 DEF RotateOldBackups, Kept, dbVars, Archived
    <2>4. CASE DumpTable(p)
      BY <2>4 DEF DumpTable, diskVars, Archived
    <2> QED BY <1>6, <2>1, <2>2, <2>3, <2>4 DEF BackupStep
  <1>7. ASSUME NEW p \in Ops, Step(p) \/ ImportItem(p) \/ Request(p), ~BackupStep(p)
        PROVE  files' = files
    BY <1>7 DEF Step, AcquireLock, ReleaseLock, RestoreStep, ReadArchive, RestoreTable,
       ReadMissingArchive, ProcessDies, StartImport, EndImport, ImportItem, Request,
       RequestBackup, RequestRestore, diskVars
  <1>8. CASE UNCHANGED vars
    BY <1>1, <1>8 DEF vars, diskVars
  <1> QED BY <1>0, <1>1, <1>5, <1>6, <1>7, <1>8 DEF Next, Step

(* The whole archives of a tenant behave as instantaneous copies of the     *)
(* database, for any number of tables, files and operations.                *)
THEOREM SnapshotsImplemented ==
  ASSUME ~OutlivesTTL
  PROVE  Spec => ImplementsSnapshots
  <1>1. Init => Store!Init
    BY InitTypeOK DEF Init, Store!Init, TypeOK
  <1> DEFINE IInv == TypeOK /\ CursorInv /\ KeyInv /\ ArchiveInv
  <1>2. IInv /\ IInv' /\ [Next]_vars
          => [Store!Next]_<<db, {f.content : f \in {g \in files : Whole(g)}}>>
    BY StoreStep DEF Store!Next, Store!Modify, Store!Snapshot, Store!Forget, Archived
  <1>3. Spec => []IInv
    BY ArchiveInvariant
  <1> HIDE DEF IInv
  <1> QED BY <1>1, <1>2, <1>3, PTL DEF Spec, ImplementsSnapshots, Store!Spec
=============================================================================
