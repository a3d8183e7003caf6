---------------------------- MODULE RestoreScript ----------------------------
(***************************************************************************)
(* The text of a backup and what a restore makes of it: generateSqlDump    *)
(* writes lines, parseSqlStatements cuts them into statements at the       *)
(* semicolons outside quotes, restoreBackup skips the statements that      *)
(* begin with a comment and sends the others, one by one, to MariaDB.      *)
(*                                                                         *)
(* A line is a record; of its characters only the final semicolon and the  *)
(* balance of its quotes are kept.  A table's content is a set of rows.    *)
(* MariaDB ends the open transaction at every data definition statement,   *)
(* and from then on commits each statement by itself.                      *)
(* TenantOps has the same operations with the key, the files and the other *)
(* operations around them.                                                 *)
(***************************************************************************)
EXTENDS Naturals, Sequences, FiniteSets, SequencesExt

CONSTANTS
  Tables,     \* the tables of a backup, a sequence (FAST_BACKUP_TABLES)
  Rows,       \* the rows a table can have
  Batch,      \* rows per page (BATCH)
  Missing,    \* content of a table that does not exist
  MaxFailures,\* bound: queries of the dump that fail
  MaxChanges  \* bound: changes of the database between dump and restore

ASSUME ScriptAssumption ==
  /\ Tables \in Seq(STRING) /\ Len(Tables) > 0
  /\ \A i, j \in DOMAIN Tables : Tables[i] = Tables[j] => i = j
  /\ IsFiniteSet(Rows) /\ \A rows \in SUBSET Rows : rows # Missing
  /\ Batch \in Nat \ {0}
  /\ MaxFailures \in Nat /\ MaxChanges \in Nat

VARIABLES
  phase,    \* "dump", "idle", "exec", "ok" or "failed"
  db,       \* the database as other connections see it
  tx,       \* the database as the restoring connection sees it
  inTx,     \* has the restoring connection a transaction open?
  text,     \* lines of the dump
  next,     \* index of the next table to dump
  stmts,    \* statements still to be executed
  before,   \* the database when the restore began
  faults,   \* queries of the dump that failed
  changes,  \* changes of the database since the dump
  broken    \* has the restore met a fault of its connection?

vars == <<phase, db, tx, inTx, text, next, stmts, before, faults, changes, broken>>

Names == ToSet(Tables)
Database == [Names -> {Missing} \cup SUBSET Rows]

-----------------------------------------------------------------------------
(* The lines of a dump.  flips is the set of quote states of the parser     *)
(* (open: TRUE) that the line reverses.                                     *)
Line(kind, table, rows, ends, flips) ==
  [kind |-> kind, table |-> table, rows |-> rows, ends |-> ends, flips |-> flips]

Plain(kind, table) == Line(kind, table, {}, TRUE, {})

(* A comment ends without a semicolon.                                      *)
Comment == Line("comment", "", {}, FALSE, {})

Preamble == <<Comment, Plain("set", ""), Plain("set", ""), Plain("start", "")>>

Closing == <<Plain("commit", ""), Plain("set", "")>>

TableHeadBare(t) == <<Plain("drop", t), Plain("create", t)>>  \* mutant: no comment

TableHead(t) == <<Comment, Plain("drop", t), Plain("create", t)>>

(* One page of rows.  A literal may hold an apostrophe, written \': the     *)
(* parser passes over it inside the literal, but takes it for a quote when  *)
(* it has literals and the text between them the wrong way round.           *)
InsertUnescaped(t, rows, apostrophe) ==  \* mutant: the literal not escaped
  Line("insert", t, rows, TRUE, IF apostrophe THEN {FALSE} ELSE {})

Insert(t, rows, apostrophe) ==
  Line("insert", t, rows, TRUE, IF apostrophe THEN {TRUE} ELSE {})

(* The error message follows in the comment: Table 'x' doesn't exist has    *)
(* an odd number of apostrophes.                                            *)
Warning(t, odd) == Line("warning", t, {}, FALSE, IF odd THEN BOOLEAN ELSE {})

(* The pages LIMIT Batch OFFSET n of a table.                               *)
Pages(rows) ==
  LET s == SetToSeq(rows)
      count == (Len(s) + Batch - 1) \div Batch
      upto(i) == IF i * Batch < Len(s) THEN i * Batch ELSE Len(s)
  IN [i \in 1..count |-> ToSet(SubSeq(s, (i - 1) * Batch + 1, upto(i)))]

Inserts(t, pages, apostrophe) ==
  [i \in DOMAIN pages |-> Insert(t, pages[i], apostrophe)]

-----------------------------------------------------------------------------
(* parseSqlStatements: cut after a line that ends with a semicolon outside  *)
(* quotes; what is left at the end is a statement too.                      *)
AddLine(acc, line) ==
  LET open == IF acc.open \in line.flips THEN ~acc.open ELSE acc.open
      stmt == Append(acc.current, line)
  IN IF line.ends /\ ~open
     THEN [stmts |-> Append(acc.stmts, stmt), current |-> <<>>, open |-> FALSE]
     ELSE [stmts |-> acc.stmts, current |-> stmt, open |-> open]

Unparsed == [stmts |-> <<>>, current |-> <<>>, open |-> FALSE]

ParseSqlStatements(lines) ==
  LET parsed[n \in 0 .. Len(lines)] ==
        IF n = 0 THEN Unparsed ELSE AddLine(parsed[n - 1], lines[n])
      last == parsed[Len(lines)]
  IN IF last.current = <<>> THEN last.stmts ELSE Append(last.stmts, last.current)

(* trimmed.startsWith('--')                                                 *)
Skipped(stmt) == Head(stmt).kind \in {"comment", "warning"}

-----------------------------------------------------------------------------
Init ==
  /\ phase = "dump"
  /\ db \in Database
  /\ tx = db /\ before = db
  /\ inTx = FALSE
  /\ text = Preamble
  /\ next = 1
  /\ stmts = <<>>
  /\ faults = 0 /\ changes = 0
  /\ broken = FALSE

(* generateSqlDump, one table.                                              *)
DumpTable ==
  LET t == Tables[next]
  IN /\ phase = "dump" /\ next <= Len(Tables)
     /\ \E apostrophe, odd \in BOOLEAN :
          \/ \* SHOW CREATE TABLE and every page answer
             /\ db[t] # Missing
             /\ text' = text \o TableHead(t) \o Inserts(t, Pages(db[t]), apostrophe)
             /\ faults' = faults
          \/ \* there is no such table
             /\ db[t] = Missing
             /\ text' = Append(text, Warning(t, TRUE))
             /\ faults' = faults
          \/ \* SHOW CREATE TABLE fails
             /\ faults < MaxFailures
             /\ text' = Append(text, Warning(t, odd))
             /\ faults' = faults + 1
          \/ \* a page fails, after the pages before it were written
             /\ faults < MaxFailures /\ db[t] # Missing
             /\ \E n \in 0..(Len(Pages(db[t])) - 1) :
                  text' = text \o TableHead(t)
                              \o SubSeq(Inserts(t, Pages(db[t]), apostrophe), 1, n)
                              \o <<Warning(t, odd)>>
             /\ faults' = faults + 1
     /\ next' = next + 1
     /\ UNCHANGED <<phase, db, tx, inTx, stmts, before, changes, broken>>

FinishDump ==
  /\ phase = "dump" /\ next > Len(Tables)
  /\ text' = text \o Closing
  /\ phase' = "idle"
  /\ UNCHANGED <<db, tx, inTx, next, stmts, before, faults, changes, broken>>

(* Sales, imports and accidents: a table gets any content, or is dropped.   *)
Change ==
  /\ phase = "idle" /\ changes < MaxChanges
  /\ \E t \in Names, content \in {Missing} \cup SUBSET Rows :
       db' = [db EXCEPT ![t] = content]
  /\ changes' = changes + 1
  /\ UNCHANGED <<phase, tx, inTx, text, next, stmts, before, faults, broken>>

(* restoreBackup: the archive is read and parsed, and a transaction begun   *)
(* on a connection of the pool.                                             *)
BeginRestore ==
  /\ phase = "idle"
  /\ phase' = "exec"
  /\ stmts' = ParseSqlStatements(text)
  /\ tx' = db /\ before' = db /\ inTx' = TRUE
  /\ UNCHANGED <<db, text, next, faults, changes, broken>>

(* MariaDB executes a statement on content c: the results it may have.      *)
(* commits: what was pending before it is committed first.                  *)
Results(line, c) ==
  LET t == line.table
      Result(ok, content) == [ok |-> ok, content |-> content]
  IN CASE line.kind \in {"set", "start", "commit"} -> {Result(TRUE, c)}
       [] line.kind = "drop"   -> {Result(TRUE, [c EXCEPT ![t] = Missing])}
       [] line.kind = "create" -> IF c[t] = Missing
                                  THEN {Result(TRUE, [c EXCEPT ![t] = {}])}
                                  ELSE {Result(FALSE, c)}
       [] line.kind = "insert" ->
            IF c[t] = Missing THEN {Result(FALSE, c)}
            ELSE {Result(TRUE, [c EXCEPT ![t] = @ \cup line.rows])}
                   \* a row that is there already: refused if there is a key
                   \cup {Result(FALSE, c) : r \in c[t] \cap line.rows}

EndsTx(line) == line.kind \in {"start", "commit", "drop", "create"}

(* MariaDB after a statement that succeeded.                                *)
Executed(line, content) ==
  /\ tx' = content
  /\ inTx' = IF EndsTx(line) THEN line.kind = "start" ELSE inTx
  /\ db' = IF inTx /\ ~EndsTx(line) THEN db ELSE content

(* MariaDB after a statement that failed, and the rollback.                 *)
RolledBack(line) ==
  /\ db' = IF EndsTx(line) THEN tx ELSE db
  /\ tx' = db' /\ inTx' = FALSE

ExecStatementTolerant ==  \* mutant: an error is passed over
  /\ phase = "exec" /\ stmts # <<>>
  /\ LET line == Head(Head(stmts))
     IN IF Skipped(Head(stmts))
        THEN UNCHANGED <<db, tx, inTx>>
        ELSE \E result \in Results(line, tx) : Executed(line, result.content)
  /\ stmts' = Tail(stmts)
  /\ UNCHANGED <<phase, text, next, before, faults, changes, broken>>

(* The loop of restoreBackup, one statement.  An error ends it.             *)
ExecStatement ==
  /\ phase = "exec" /\ stmts # <<>>
  /\ LET line == Head(Head(stmts))
     IN IF Skipped(Head(stmts))
        THEN UNCHANGED <<phase, db, tx, inTx>> /\ stmts' = Tail(stmts)
        ELSE \E result \in Results(line, tx) :
               IF result.ok
               THEN Executed(line, result.content) /\ stmts' = Tail(stmts) /\ phase' = phase
               ELSE RolledBack(line) /\ stmts' = <<>> /\ phase' = "failed"
  /\ UNCHANGED <<text, next, before, faults, changes, broken>>

(* connection.commit(), and the restore reports success.                    *)
CommitRestore ==
  /\ phase = "exec" /\ stmts = <<>>
  /\ phase' = "ok"
  /\ db' = tx /\ inTx' = FALSE
  /\ UNCHANGED <<tx, text, next, stmts, before, faults, changes, broken>>

(* The connection breaks or the process dies.                               *)
BreakRestore ==
  /\ phase = "exec"
  /\ phase' = "failed" /\ broken' = TRUE
  /\ tx' = db /\ inTx' = FALSE
  /\ stmts' = <<>>
  /\ UNCHANGED <<db, text, next, before, faults, changes>>

Next ==
  \/ DumpTable \/ FinishDump \/ Change \/ BeginRestore
  \/ ExecStatement \/ CommitRestore \/ BreakRestore

Spec == Init /\ [][Next]_vars

-----------------------------------------------------------------------------
Warnings == {i \in DOMAIN text : text[i].kind = "warning"}
Unbalanced == \E i \in Warnings : text[i].flips # {}

(* The tables the archive has, and the rows it has of each.                 *)
Archived == {t \in Names : \E i \in DOMAIN text :
                             text[i].kind = "create" /\ text[i].table = t}
ArchivedRows(t) ==
  UNION {text[i].rows : i \in {j \in DOMAIN text : text[j].table = t}}

(* A restore that reports success, from a dump whose warnings leave the     *)
(* quotes balanced, has brought back every table of the dump, with exactly  *)
(* the rows of the dump, whatever apostrophes the data has; the tables that *)
(* were skipped are as they were (parseSqlStatements, restoreBackup).       *)
RestoreFaithful ==
  phase = "ok" /\ ~Unbalanced =>
    \A t \in Names : db[t] = IF t \in Archived THEN ArchivedRows(t) ELSE before[t]

(* A restore, whether it succeeds, fails or dies, removes no row and no     *)
(* table: the DROP TABLE lines stand behind a comment and are never sent.   *)
NothingRemoved ==
  phase \in {"exec", "ok", "failed"} =>
    \A t \in Names : before[t] # Missing => db[t] # Missing /\ before[t] \subseteq db[t]

(* The tables a restore has dealt with before it failed are complete, the   *)
(* one it failed at has the first pages of the dump or is as it was, and    *)
(* the tables after it are as they were: nothing of what has been executed  *)
(* is rolled back (restoreBackup sends the statements one by one).          *)
FailureLeavesPrefix ==
  phase = "failed" /\ ~Unbalanced =>
    \E k \in 1..Len(Tables) :
      /\ \A i \in 1..(k - 1) :
           db[Tables[i]] = IF Tables[i] \in Archived THEN ArchivedRows(Tables[i])
                                                    ELSE before[Tables[i]]
      /\ \/ db[Tables[k]] = before[Tables[k]]
         \/ \E n \in DOMAIN text :
              db[Tables[k]] = UNION {text[i].rows : i \in {j \in 1..n :
                                                     text[j].table = Tables[k]}}
      /\ \A i \in (k + 1)..Len(Tables) : db[Tables[i]] = before[Tables[i]]

-----------------------------------------------------------------------------
(* What the documentation says and the code does not do.                    *)

(* HOWITWORKS.md: the restore is a guaranteed rollback to the chosen dump.  *)
(* It does not fail unless the dump is partial or the connection breaks.    *)
RollbackGuaranteed ==
  phase = "failed" => broken \/ Warnings # {}
=============================================================================
