------------------------- MODULE RestoreScript_proofs -------------------------
(***************************************************************************)
(* Proofs about the text of a backup and its restore: what the parser makes *)
(* of the lines, what the lines of a dump are, and what the statements      *)
(* build.  For every sequence of tables, every finite set of rows, every    *)
(* page size and every number of failures and changes.                     *)
(*                                                                         *)
(* The parser is a function over the lines, and the library's induction     *)
(* theorems take an operator as a parameter; its induction is done with the *)
(* least number a statement fails for (LeastNumber, UpTo).                  *)
(***************************************************************************)
EXTENDS RestoreScript, WellFoundedInduction, FiniteSetTheorems, TLAPS
-----------------------------------------------------------------------------
(* Induction over numbers, from the least element of a set of them.         *)

LEMMA LeastNumber ==
  ASSUME NEW S \in SUBSET Nat, S # {}
  PROVE  \E n \in S : \A m \in S : n <= m
  <1> DEFINE R == OpToRel(<, Nat)
  <1>1. IsWellFoundedOn(R, Nat)
    BY NatLessThanWellFounded
  <1>2. \A x, y \in Nat : x < y => <<x, y>> \in R
    BY DEF OpToRel
  <1> HIDE DEF R
  <1>3. \E x \in S : \A y \in S : ~ (<<y, x>> \in R)
    BY <1>1, WFMin
  <1>4. PICK n \in S : \A y \in S : ~ (<<y, n>> \in R)
    BY <1>3
  <1>5. ASSUME NEW y \in S PROVE n <= y
    <2>1. n \in Nat /\ y \in Nat
      OBVIOUS
    <2>2. ~(y < n)
      BY <2>1, <1>2, <1>4
    <2> QED BY <2>1, <2>2
  <1> QED BY <1>4, <1>5

LEMMA UpTo ==
  ASSUME NEW N \in Nat, NEW S, 0 \in S, \A n \in 1 .. N : n - 1 \in S => n \in S
  PROVE  \A n \in 0 .. N : n \in S
  <1> SUFFICES ASSUME NEW k \in 0 .. N, k \notin S PROVE FALSE
    OBVIOUS
  <1> DEFINE Out == {n \in 0 .. N : n \notin S}
  <1>1. Out \in SUBSET Nat /\ Out # {}
    OBVIOUS
  <1>2. PICK n \in Out : \A m \in Out : n <= m
    <2> HIDE DEF Out
    <2> QED BY <1>1, LeastNumber
  <1>3. n \in 1 .. N /\ n - 1 \in 0 .. N /\ ~(n <= n - 1)
    OBVIOUS
  <1>4. n - 1 \in S
    BY <1>2, <1>3
  <1> QED BY <1>3, <1>4

-----------------------------------------------------------------------------
(* Lines.                                                                  *)

Lines ==
  {l \in [kind : {"set", "start", "commit", "comment", "warning", "drop", "create", "insert"},
          table : Names \cup {""}, rows : SUBSET Rows, ends : BOOLEAN, flips : SUBSET BOOLEAN] :
     /\ l.ends = (l.kind \notin {"comment", "warning"})
     /\ l.kind # "insert" => l.rows = {}
     /\ l.kind \in {"drop", "create", "insert"} => l.table \in Names
     /\ l.kind = "insert" => FALSE \notin l.flips
     /\ l.kind \notin {"insert", "warning"} => l.flips = {}}

(* The accumulators of the parser, as a function of the lines read.         *)
Reads(f, lines) ==
  /\ f[0] = Unparsed
  /\ \A n \in 1 .. Len(lines) : f[n] = AddLine(f[n - 1], lines[n])

Result(last) ==
  IF last.current = <<>> THEN last.stmts ELSE Append(last.stmts, last.current)

LEMMA ParserReads ==
  ASSUME NEW lines, Len(lines) \in Nat
  PROVE  \E f : Reads(f, lines) /\ ParseSqlStatements(lines) = Result(f[Len(lines)])
  <1> DEFINE Parser(g, n) ==
        g = [i \in 0 .. n |-> IF i = 0 THEN Unparsed ELSE AddLine(g[i - 1], lines[i])]
  <1>1. \A n \in 0 .. Len(lines) : n \in {k \in 0 .. Len(lines) : \E g : Parser(g, k)}
    <2> DEFINE S == {k \in 0 .. Len(lines) : \E g : Parser(g, k)}
    <2>1. 0 \in S
      <3> DEFINE g == [i \in 0 .. 0 |-> Unparsed]
      <3>1. Parser(g, 0)
        OBVIOUS
      <3> HIDE DEF g
      <3> QED BY <3>1
    <2>2. ASSUME NEW n \in 1 .. Len(lines), n - 1 \in S PROVE n \in S
      <3>1. PICK g : Parser(g, n - 1)
        BY <2>2
      <3> DEFINE h == [i \in 0 .. n |-> IF i = n THEN AddLine(g[n - 1], lines[n]) ELSE g[i]]
      <3>2. Parser(h, n)
        <4>1. ASSUME NEW i \in 0 .. n
              PROVE  h[i] = IF i = 0 THEN Unparsed ELSE AddLine(h[i - 1], lines[i])
          <5>1. CASE i = n
            <6>1. n # 0 /\ n - 1 \in 0 .. n /\ n - 1 # n
              OBVIOUS
            <6>2. h[i] = AddLine(g[n - 1], lines[n]) /\ h[n - 1] = g[n - 1]
              BY <5>1, <6>1
            <6> QED BY <5>1, <6>1, <6>2
          <5>2. CASE i # n
            <6>1. i \in 0 .. n - 1 /\ h[i] = g[i]
              BY <5>2
            <6>2. g[i] = IF i = 0 THEN Unparsed ELSE AddLine(g[i - 1], lines[i])
              BY <3>1, <6>1
            <6>3. i # 0 => i - 1 \in 0 .. n /\ i - 1 # n
              BY <5>2
            <6>4. i # 0 => h[i - 1] = g[i - 1]
              BY <6>3
            <6> QED BY <6>1, <6>2, <6>4
          <5> QED BY <5>1, <5>2
        <4> HIDE DEF h
        <4>2. DOMAIN h = 0 .. n /\ h = [i \in 0 .. n |-> h[i]]
          BY DEF h
        <4> QED BY <4>1, <4>2
      <3> HIDE DEF h
      <3> QED BY <3>2
    <2> HIDE DEF S
    <2>3. \A n \in 0 .. Len(lines) : n \in S
      BY <2>1, <2>2, UpTo
    <2> QED BY <2>3 DEF S
  <1>2. PICK g : Parser(g, Len(lines))
    BY <1>1
  <1>3. \E f : Parser(f, Len(lines)) /\ ParseSqlStatements(lines) = Result(f[Len(lines)])
    <2> DEFINE parsed == CHOOSE f : Parser(f, Len(lines))
    <2>1. Parser(parsed, Len(lines))
      BY <1>2
    <2>2. ParseSqlStatements(lines) = Result(parsed[Len(lines)])
      BY DEF ParseSqlStatements, Result
    <2> HIDE DEF parsed
    <2> QED BY <2>1, <2>2
  <1>4. PICK f : Parser(f, Len(lines)) /\ ParseSqlStatements(lines) = Result(f[Len(lines)])
    BY <1>3
  <1>5. Reads(f, lines)
    BY <1>4 DEF Reads
  <1> QED BY <1>4, <1>5

-----------------------------------------------------------------------------
(* A text that generateSqlDump may have written so far.                     *)

AfterComment(lines, i) == i - 1 \in DOMAIN lines /\ lines[i - 1].kind = "comment"
AfterStatement(lines, i) == i - 1 \in DOMAIN lines /\ lines[i - 1].ends

Script(lines) ==
  /\ lines \in Seq(Lines)
  /\ \A i \in DOMAIN lines :
       /\ lines[i].kind = "drop" => AfterComment(lines, i)
       /\ lines[i].kind \in {"create", "insert"} => AfterStatement(lines, i)
       /\ lines[i].kind = "insert" =>
            \E j \in 1 .. i - 1 : lines[j].kind = "create" /\ lines[j].table = lines[i].table

(* The warnings leave the quotes balanced.                                  *)
Even(lines) == \A i \in DOMAIN lines : lines[i].kind = "warning" => lines[i].flips = {}

(* The parser after n lines: at[i] is the line that begins the statement i. *)
Cut(lines, n, a, at) ==
  /\ a.stmts \in Seq(Seq(Lines)) /\ a.current \in Seq(Lines) /\ a.open \in BOOLEAN
  /\ at \in [1 .. Len(a.stmts) -> 1 .. n]
  /\ \A i \in 1 .. Len(a.stmts) :
       /\ a.stmts[i] # <<>> /\ Head(a.stmts[i]) = lines[at[i]]
       /\ lines[at[i]].kind # "drop"
  /\ \A i, j \in 1 .. Len(a.stmts) : i < j => at[i] < at[j]
  /\ a.current # <<>> =>
       \E k \in 1 .. n : /\ Head(a.current) = lines[k] /\ lines[k].kind # "drop"
                         /\ \A i \in 1 .. Len(a.stmts) : at[i] < k
  /\ n # 0 /\ ~lines[n].ends => a.current # <<>>

(* Outside quotes: every line that ends a statement is the end of one, so   *)
(* that every CREATE TABLE and every INSERT is a statement of its own.      *)
Outside(lines, n, a, at) ==
  /\ ~a.open
  /\ n = 0 \/ lines[n].ends => a.current = <<>>
  /\ a.current # <<>> => Head(a.current).kind \in {"comment", "warning"}
  /\ \A k \in 1 .. n :
       lines[k].kind \in {"create", "insert"} => \E i \in 1 .. Len(a.stmts) : at[i] = k

LEMMA LineFacts ==
  ASSUME NEW l \in Lines
  PROVE  /\ l.kind \in {"set", "start", "commit", "comment", "warning", "drop", "create",
                        "insert"}
         /\ l.rows \subseteq Rows /\ l.ends \in BOOLEAN
         /\ l.ends = (l.kind \notin {"comment", "warning"})
         /\ l.kind # "insert" => l.rows = {}
         /\ l.kind \in {"drop", "create", "insert"} => l.table \in Names
         /\ l.kind = "insert" => FALSE \notin l.flips
         /\ l.kind \notin {"insert", "warning"} => l.flips = {}
  BY DEF Lines

LEMMA AppendIs ==
  ASSUME NEW S, NEW s \in Seq(S), NEW x \in S
  PROVE  /\ Append(s, x) \in Seq(S) /\ Append(s, x) # <<>>
         /\ Len(Append(s, x)) = Len(s) + 1 /\ Len(s) \in Nat
         /\ Append(s, x)[Len(s) + 1] = x
         /\ \A i \in 1 .. Len(s) : Append(s, x)[i] = s[i]
         /\ Head(Append(s, x)) = IF s = <<>> THEN x ELSE Head(s)
  <1>1. /\ Append(s, x) \in Seq(S) /\ Len(Append(s, x)) = Len(s) + 1 /\ Len(s) \in Nat
        /\ Append(s, x)[Len(s) + 1] = x
        /\ \A i \in 1 .. Len(s) : Append(s, x)[i] = s[i]
    OBVIOUS
  <1>2. Append(s, x) # <<>>
    BY <1>1
  <1>3. CASE s = <<>>
    BY <1>1, <1>2, <1>3
  <1>4. CASE s # <<>>
    <2>1. 1 \in 1 .. Len(s)
      BY <1>4
    <2>2. Head(Append(s, x)) = Append(s, x)[1] /\ Head(s) = s[1]
      BY <1>1, <1>2, <1>4
    <2> QED BY <1>1, <1>4, <2>1, <2>2
  <1> QED BY <1>1, <1>2, <1>3, <1>4

LEMMA NextIndex ==
  \A m \in Nat : /\ m + 1 \in 1 .. m + 1
                 /\ \A i \in 1 .. m : i \in 1 .. m + 1 /\ i # m + 1
                 /\ \A i \in 1 .. m + 1 : i = m + 1 \/ i \in 1 .. m
  OBVIOUS

LEMMA CutStep ==
  ASSUME NEW lines, Script(lines), NEW n \in 1 .. Len(lines), NEW a, NEW at,
         Cut(lines, n - 1, a, at), Even(lines) => Outside(lines, n - 1, a, at)
  PROVE  \E p : /\ Cut(lines, n, AddLine(a, lines[n]), p)
                /\ Even(lines) => Outside(lines, n, AddLine(a, lines[n]), p)
  <1> DEFINE m == Len(a.stmts)
  <1>0. /\ n \in DOMAIN lines /\ lines[n] \in Lines /\ n \in Nat /\ n - 1 \in 0 .. Len(lines)
        /\ Len(lines) \in Nat /\ DOMAIN lines = 1 .. Len(lines) /\ n # 0
    BY DEF Script
  <1>1. PICK line : line = lines[n]
    OBVIOUS
  <1>2. PICK stmt : stmt = Append(a.current, line)
    OBVIOUS
  <1>3. PICK open : open = IF a.open \in line.flips THEN ~a.open ELSE a.open
    OBVIOUS
  <1>4. PICK b : b = AddLine(a, line)
    OBVIOUS
  <1>5. /\ b.stmts = IF line.ends /\ ~open THEN Append(a.stmts, stmt) ELSE a.stmts
        /\ b.current = IF line.ends /\ ~open THEN <<>> ELSE stmt
        /\ b.open = IF line.ends /\ ~open THEN FALSE ELSE open
    BY <1>2, <1>3, <1>4 DEF AddLine
  <1>6. /\ a.stmts \in Seq(Seq(Lines)) /\ a.current \in Seq(Lines) /\ a.open \in BOOLEAN
        /\ m \in Nat /\ at \in [1 .. m -> 1 .. n - 1]
    BY DEF Cut
  <1>7. /\ stmt \in Seq(Lines) /\ stmt # <<>>
        /\ Head(stmt) = IF a.current = <<>> THEN line ELSE Head(a.current)
    BY <1>0, <1>1, <1>2, <1>6, AppendIs
  <1>8. open \in BOOLEAN
    BY <1>3, <1>6
  (* The line that begins what is now being read. *)
  <1>9. PICK k \in 1 .. n : /\ Head(stmt) = lines[k] /\ lines[k].kind # "drop"
                            /\ \A i \in 1 .. m : at[i] < k
                            /\ a.current = <<>> => k = n
    <2>1. CASE a.current = <<>>
      <3>1. n = 1 \/ lines[n - 1].ends
        BY <1>0, <2>1 DEF Cut
      <3>2. line.kind # "drop"
        <4> SUFFICES ASSUME line.kind = "drop" PROVE FALSE
          OBVIOUS
        <4>1. n - 1 \in DOMAIN lines /\ lines[n - 1].kind = "comment"
          BY <1>0, <1>1 DEF Script, AfterComment
        <4>2. lines[n - 1] \in Lines
          BY <4>1 DEF Script
        <4>3. PICK l \in Lines : l = lines[n - 1]
          BY <4>2
        <4>4. ~l.ends
          BY <4>1, <4>3, LineFacts
        <4>5. ~lines[n - 1].ends /\ n # 1
          BY <1>0, <4>1, <4>3, <4>4
        <4> QED BY <3>1, <4>5
      <3>3. \A i \in 1 .. m : at[i] < n
        BY <1>0, <1>6
      <3> QED BY <1>0, <1>1, <1>7, <2>1, <3>2, <3>3
    <2>2. CASE a.current # <<>>
      <3>1. PICK k \in 1 .. n - 1 : /\ Head(a.current) = lines[k] /\ lines[k].kind # "drop"
                                    /\ \A i \in 1 .. m : at[i] < k
        BY <2>2 DEF Cut
      <3>2. k \in 1 .. n
        BY <1>0, <3>1
      <3>3. Head(stmt) = lines[k]
        BY <1>7, <2>2, <3>1
      <3> QED BY <2>2, <3>1, <3>2, <3>3
    <2> QED BY <2>1, <2>2
  <1>10. CASE line.ends /\ ~open
    <2>1. /\ b.stmts = Append(a.stmts, stmt) /\ b.current = <<>> /\ b.open = FALSE
      BY <1>5, <1>10
    <2>2. /\ b.stmts \in Seq(Seq(Lines)) /\ Len(b.stmts) = m + 1 /\ b.stmts[m + 1] = stmt
          /\ \A i \in 1 .. m : b.stmts[i] = a.stmts[i]
      BY <1>6, <1>7, <2>1, AppendIs
    <2>3. PICK p : p = [i \in 1 .. m + 1 |-> IF i = m + 1 THEN k ELSE at[i]]
      OBVIOUS
    <2>4. /\ p \in [1 .. m + 1 -> 1 .. n] /\ p[m + 1] = k
          /\ \A i \in 1 .. m : p[i] = at[i]
      <3>1. m + 1 \in 1 .. m + 1 /\ \A i \in 1 .. m : i \in 1 .. m + 1 /\ i # m + 1
        BY <1>6, NextIndex, Zenon
      <3>2. 1 .. n - 1 \subseteq 1 .. n /\ k \in 1 .. n
        BY <1>0
      <3>3. \A i \in 1 .. m + 1 : (IF i = m + 1 THEN k ELSE at[i]) \in 1 .. n
        <4>1. \A i \in 1 .. m + 1 : i = m + 1 \/ i \in 1 .. m
          BY <1>6, NextIndex, Zenon
        <4> QED BY <1>6, <3>2, <4>1, Zenon
      <3> QED BY <2>3, <3>1, <3>3, Zenon
    <2>5. ASSUME NEW i \in 1 .. m + 1
          PROVE  /\ b.stmts[i] # <<>> /\ Head(b.stmts[i]) = lines[p[i]]
                 /\ lines[p[i]].kind # "drop"
      <3>1. CASE i = m + 1
        BY <1>7, <1>9, <2>2, <2>4, <3>1
      <3>2. CASE i # m + 1
        <4>1. i \in 1 .. m
          BY <1>6, <3>2
        <4> QED BY <2>2, <2>4, <4>1 DEF Cut
      <3> QED BY <3>1, <3>2
    <2>6. ASSUME NEW i \in 1 .. m + 1, NEW j \in 1 .. m + 1, i < j PROVE p[i] < p[j]
      <3>1. i \in 1 .. m
        BY <1>6, <2>6
      <3>2. CASE j = m + 1
        BY <1>9, <2>4, <3>1, <3>2
      <3>3. CASE j # m + 1
        <4>1. j \in 1 .. m
          BY <1>6, <3>3
        <4>2. at[i] < at[j]
          BY <2>6, <3>1, <4>1 DEF Cut
        <4> QED BY <2>4, <3>1, <4>1, <4>2
      <3> QED BY <3>2, <3>3
    <2>7. Cut(lines, n, b, p)
      <3>0. <<>> \in Seq(Lines)
        OBVIOUS
      <3>1. b.current \in Seq(Lines) /\ b.open \in BOOLEAN
        BY <2>1, <3>0
      <3> QED BY <1>1, <1>10, <2>1, <2>2, <2>4, <2>5, <2>6, <3>1 DEF Cut
    <2>8. ASSUME Even(lines) PROVE Outside(lines, n, b, p)
      <3>1. Outside(lines, n - 1, a, at)
        BY <2>8
      <3>2. ASSUME NEW l \in 1 .. n, lines[l].kind \in {"create", "insert"}
            PROVE  \E i \in 1 .. m + 1 : p[i] = l
        <4>1. CASE l # n
          <5>1. l \in 1 .. n - 1
            BY <1>0, <4>1
          <5>2. PICK i \in 1 .. m : at[i] = l
            BY <3>1, <3>2, <5>1 DEF Outside
          <5>3. i \in 1 .. m + 1 /\ p[i] = l
            BY <1>6, <2>4, <5>2
          <5> QED BY <5>3
        <4>2. CASE l = n
          <5>1. lines[n - 1].ends
            BY <1>0, <3>2, <4>2 DEF Script, AfterStatement
          <5>2. a.current = <<>>
            BY <3>1, <5>1 DEF Outside
          <5>3. m + 1 \in 1 .. m + 1
            BY <1>6
          <5> QED BY <1>9, <2>4, <4>2, <5>2, <5>3
        <4> QED BY <4>1, <4>2
      <3> QED BY <2>1, <2>2, <3>2 DEF Outside
    <2> QED BY <1>1, <1>4, <2>7, <2>8
  <1>11. CASE ~(line.ends /\ ~open)
    <2>1. /\ b.stmts = a.stmts /\ b.current = stmt /\ b.open = open
      BY <1>5, <1>11
    <2>2. at \in [1 .. m -> 1 .. n]
      BY <1>0, <1>6
    <2>3. \A i \in 1 .. m :
            /\ a.stmts[i] # <<>> /\ Head(a.stmts[i]) = lines[at[i]]
            /\ lines[at[i]].kind # "drop"
      BY DEF Cut
    <2>4. \A i, j \in 1 .. m : i < j => at[i] < at[j]
      BY DEF Cut
    <2>5. Cut(lines, n, b, at)
      BY <1>6, <1>7, <1>8, <1>9, <2>1, <2>2, <2>3, <2>4 DEF Cut
    <2>6. ASSUME Even(lines) PROVE Outside(lines, n, b, at)
      <3>1. Outside(lines, n - 1, a, at)
        BY <2>6
      <3>2. a.open = FALSE
        BY <1>6, <3>1 DEF Outside
      <3>3. FALSE \notin line.flips
        <4>1. line \in Lines /\ (line.kind = "warning" => line.flips = {})
          BY <1>0, <1>1, <2>6 DEF Even
        <4> QED BY <4>1, LineFacts
      <3>4. open = FALSE
        BY <1>3, <3>2, <3>3
      <3>5. ~line.ends /\ line.kind \in {"comment", "warning"}
        <4>1. line \in Lines
          BY <1>0, <1>1
        <4> QED BY <1>11, <3>4, <4>1, LineFacts
      <3>6. Head(stmt).kind \in {"comment", "warning"}
        BY <1>7, <3>1, <3>5 DEF Outside
      <3>7. ASSUME NEW l \in 1 .. n, lines[l].kind \in {"create", "insert"}
            PROVE  \E i \in 1 .. m : at[i] = l
        <4>1. l # n
          BY <1>1, <3>5, <3>7
        <4>2. l \in 1 .. n - 1
          BY <1>0, <4>1
        <4> QED BY <3>1, <3>7, <4>2 DEF Outside
      <3> QED BY <1>0, <1>1, <2>1, <3>4, <3>5, <3>6, <3>7 DEF Outside
    <2> QED BY <1>1, <1>4, <2>5, <2>6
  <1> QED BY <1>10, <1>11

(* The statements of a script, and the lines that begin them.               *)
Begins(lines, all, at) ==
  /\ all \in Seq(Seq(Lines))
  /\ at \in [1 .. Len(all) -> 1 .. Len(lines)]
  /\ \A i \in 1 .. Len(all) :
       /\ all[i] # <<>> /\ Head(all[i]) = lines[at[i]]
       /\ lines[at[i]].kind # "drop"
  /\ \A i, j \in 1 .. Len(all) : i < j => at[i] < at[j]
  /\ Even(lines) =>
       \A k \in 1 .. Len(lines) :
         lines[k].kind \in {"create", "insert"} => \E i \in 1 .. Len(all) : at[i] = k

LEMMA Statements ==
  ASSUME NEW lines, Script(lines)
  PROVE  \E at : Begins(lines, ParseSqlStatements(lines), at)
  <1> DEFINE N == Len(lines)
  <1>1. N \in Nat /\ DOMAIN lines = 1 .. N
    BY DEF Script
  <1>2. PICK f : Reads(f, lines) /\ ParseSqlStatements(lines) = Result(f[N])
    BY <1>1, ParserReads
  <1> DEFINE S == {n \in 0 .. N : \E at : /\ Cut(lines, n, f[n], at)
                                          /\ Even(lines) => Outside(lines, n, f[n], at)}
  <1>3. 0 \in S
    <2>1. f[0].stmts = <<>> /\ f[0].current = <<>> /\ f[0].open = FALSE
      BY <1>2 DEF Reads, Unparsed
    <2>2. Cut(lines, 0, f[0], <<>>) /\ Outside(lines, 0, f[0], <<>>)
      <3>1. <<>> \in Seq(Seq(Lines)) /\ <<>> \in Seq(Lines) /\ Len(<<>>) = 0
        OBVIOUS
      <3>2. <<>> \in [1 .. 0 -> 1 .. 0]
        OBVIOUS
      <3>3. PICK a : a = f[0]
        OBVIOUS
      <3>4. /\ a.stmts = <<>> /\ a.current = <<>> /\ a.open = FALSE
            /\ Len(a.stmts) = 0 /\ 1 .. 0 = {}
        BY <2>1, <3>1, <3>3
      <3>5. Cut(lines, 0, a, <<>>)
        BY <3>1, <3>2, <3>4 DEF Cut
      <3>6. Outside(lines, 0, a, <<>>)
        BY <3>4 DEF Outside
      <3> QED BY <3>3, <3>5, <3>6
    <2> QED BY <1>1, <2>2
  <1>4. ASSUME NEW n \in 1 .. N, n - 1 \in S PROVE n \in S
    <2>1. PICK at : /\ Cut(lines, n - 1, f[n - 1], at)
                    /\ Even(lines) => Outside(lines, n - 1, f[n - 1], at)
      BY <1>4
    <2>2. f[n] = AddLine(f[n - 1], lines[n])
      BY <1>2 DEF Reads
    <2>3. \E p : /\ Cut(lines, n, f[n], p)
                 /\ Even(lines) => Outside(lines, n, f[n], p)
      BY <2>1, <2>2, CutStep
    <2> QED BY <2>3
  <1>5. N \in S
    <2> HIDE DEF S
    <2>1. \A n \in 0 .. N : n \in S
      BY <1>1, <1>3, <1>4, UpTo
    <2> QED BY <1>1, <2>1
  <1>6. PICK at : /\ Cut(lines, N, f[N], at)
                  /\ Even(lines) => Outside(lines, N, f[N], at)
    BY <1>5
  <1>7. PICK a : a = f[N]
    OBVIOUS
  <1>8. CASE a.current = <<>>
    <2>1. ParseSqlStatements(lines) = a.stmts
      BY <1>2, <1>7, <1>8 DEF Result
    <2>2. Begins(lines, a.stmts, at)
      BY <1>6, <1>7 DEF Begins, Cut, Outside
    <2> QED BY <2>1, <2>2
  <1>9. CASE a.current # <<>>
    <2> DEFINE m == Len(a.stmts)
    <2>1. PICK all : all = Append(a.stmts, a.current)
      OBVIOUS
    <2>2. ParseSqlStatements(lines) = all
      BY <1>2, <1>7, <1>9, <2>1 DEF Result
    <2>3. /\ a.stmts \in Seq(Seq(Lines)) /\ a.current \in Seq(Lines)
          /\ m \in Nat /\ at \in [1 .. m -> 1 .. N]
      BY <1>6, <1>7 DEF Cut
    <2>4. /\ all \in Seq(Seq(Lines)) /\ Len(all) = m + 1 /\ all[m + 1] = a.current
          /\ \A i \in 1 .. m : all[i] = a.stmts[i]
      BY <2>1, <2>3, AppendIs
    <2>5. PICK k \in 1 .. N : /\ Head(a.current) = lines[k] /\ lines[k].kind # "drop"
                              /\ \A i \in 1 .. m : at[i] < k
      BY <1>6, <1>7, <1>9 DEF Cut
    <2>6. PICK p : p = [i \in 1 .. m + 1 |-> IF i = m + 1 THEN k ELSE at[i]]
      OBVIOUS
    <2>7. /\ p \in [1 .. m + 1 -> 1 .. N] /\ p[m + 1] = k
          /\ \A i \in 1 .. m : p[i] = at[i]
      BY <2>3, <2>6
    <2>8. ASSUME NEW i \in 1 .. m + 1
          PROVE  /\ all[i] # <<>> /\ Head(all[i]) = lines[p[i]]
                 /\ lines[p[i]].kind # "drop"
      <3>1. CASE i = m + 1
        BY <1>9, <2>4, <2>5, <2>7, <3>1
      <3>2. CASE i # m + 1
        <4>1. i \in 1 .. m
          BY <2>3, <3>2
        <4> QED BY <1>6, <1>7, <2>4, <2>7, <4>1 DEF Cut
      <3> QED BY <3>1, <3>2
    <2>9. ASSUME NEW i \in 1 .. m + 1, NEW j \in 1 .. m + 1, i < j PROVE p[i] < p[j]
      <3>1. i \in 1 .. m
        BY <2>3, <2>9
      <3>2. CASE j = m + 1
        BY <2>5, <2>7, <3>1, <3>2
      <3>3. CASE j # m + 1
        <4>1. j \in 1 .. m
          BY <2>3, <3>3
        <4>2. at[i] < at[j]
          BY <1>6, <1>7, <2>9, <3>1, <4>1 DEF Cut
        <4> QED BY <2>7, <3>1, <4>1, <4>2
      <3> QED BY <3>2, <3>3
    <2>10. ASSUME Even(lines), NEW l \in 1 .. N, lines[l].kind \in {"create", "insert"}
           PROVE  \E i \in 1 .. m + 1 : p[i] = l
      <3>1. PICK i \in 1 .. m : at[i] = l
        BY <1>6, <1>7, <2>10 DEF Outside
      <3>2. i \in 1 .. m + 1 /\ p[i] = l
        BY <2>3, <2>7, <3>1
      <3> QED BY <3>2
    <2>11. Begins(lines, all, p)
      BY <2>4, <2>7, <2>8, <2>9, <2>10 DEF Begins
    <2> QED BY <2>2, <2>11
  <1> QED BY <1>8, <1>9

-----------------------------------------------------------------------------
(* What generateSqlDump writes is a script.                                 *)

LEMMA JoinIs ==
  ASSUME NEW S, NEW s \in Seq(S), NEW t \in Seq(S)
  PROVE  /\ s \o t \in Seq(S) /\ Len(s \o t) = Len(s) + Len(t)
         /\ Len(s) \in Nat /\ Len(t) \in Nat
         /\ \A i \in 1 .. Len(s) : (s \o t)[i] = s[i]
         /\ \A i \in 1 .. Len(t) : (s \o t)[Len(s) + i] = t[i]
         /\ \A i \in 1 .. Len(s) + Len(t) :
              i \in 1 .. Len(s) \/ \E k \in 1 .. Len(t) : i = Len(s) + k
  <1>1. /\ s \o t \in Seq(S) /\ Len(s \o t) = Len(s) + Len(t)
        /\ Len(s) \in Nat /\ Len(t) \in Nat
    OBVIOUS
  <1>2. \A i \in 1 .. Len(s) : (s \o t)[i] = s[i]
    OBVIOUS
  <1>3. \A i \in 1 .. Len(t) : (s \o t)[Len(s) + i] = t[i]
    OBVIOUS
  <1>4. ASSUME NEW i \in 1 .. Len(s) + Len(t), i \notin 1 .. Len(s)
        PROVE  i - Len(s) \in 1 .. Len(t) /\ i = Len(s) + (i - Len(s))
    BY <1>1, <1>4
  <1> QED BY <1>1, <1>2, <1>3, <1>4

LEMMA LinesJoin ==
  ASSUME NEW s \in Seq(Lines), NEW t \in Seq(Lines)
  PROVE  /\ s \o t \in Seq(Lines) /\ Len(s \o t) = Len(s) + Len(t)
         /\ \A i \in 1 .. Len(s) : (s \o t)[i] = s[i]
         /\ \A i \in 1 .. Len(t) : (s \o t)[Len(s) + i] = t[i]
         /\ \A i \in 1 .. Len(s) + Len(t) :
              i \in 1 .. Len(s) \/ \E k \in 1 .. Len(t) : i = Len(s) + k
  BY JoinIs

LEMMA JoinAssoc ==
  ASSUME NEW s \in Seq(Lines), NEW t \in Seq(Lines), NEW u \in Seq(Lines)
  PROVE  (s \o t) \o u = s \o (t \o u)
  OBVIOUS

LEMMA AppendJoins ==
  ASSUME NEW S, NEW s \in Seq(S), NEW x \in S PROVE Append(s, x) = s \o <<x>>
  OBVIOUS

LEMMA ScriptsJoin ==
  ASSUME NEW s, Script(s), NEW t, Script(t) PROVE Script(s \o t)
  <1>1. s \in Seq(Lines) /\ t \in Seq(Lines)
    BY DEF Script
  <1>2. PICK u : u = s \o t
    OBVIOUS
  <1>3. PICK m \in Nat, n \in Nat : m = Len(s) /\ n = Len(t)
    BY <1>1
  <1>4. /\ u \in Seq(Lines) /\ DOMAIN u = 1 .. m + n
        /\ \A i \in 1 .. m : u[i] = s[i]
        /\ \A i \in 1 .. n : u[m + i] = t[i]
        /\ \A i \in 1 .. m + n : i \in 1 .. m \/ \E k \in 1 .. n : i = m + k
        /\ DOMAIN s = 1 .. m /\ DOMAIN t = 1 .. n
    BY <1>1, <1>2, <1>3, JoinIs
  <1>5. ASSUME NEW i \in 1 .. m
        PROVE  /\ u[i].kind = "drop" => AfterComment(u, i)
               /\ u[i].kind \in {"create", "insert"} => AfterStatement(u, i)
               /\ u[i].kind = "insert" =>
                    \E j \in 1 .. i - 1 : u[j].kind = "create" /\ u[j].table = u[i].table
    <2>1. u[i] = s[i] /\ (i - 1 \in 1 .. m => u[i - 1] = s[i - 1] /\ i - 1 \in 1 .. m + n)
      BY <1>4
    <2>2. \A j \in 1 .. i - 1 : u[j] = s[j]
      BY <1>4
    <2>3. /\ s[i].kind = "drop" => AfterComment(s, i)
          /\ s[i].kind \in {"create", "insert"} => AfterStatement(s, i)
          /\ s[i].kind = "insert" =>
               \E j \in 1 .. i - 1 : s[j].kind = "create" /\ s[j].table = s[i].table
      BY <1>4 DEF Script
    <2> QED BY <1>4, <2>1, <2>2, <2>3 DEF AfterComment, AfterStatement
  <1>6. ASSUME NEW k \in 1 .. n
        PROVE  /\ u[m + k].kind = "drop" => AfterComment(u, m + k)
               /\ u[m + k].kind \in {"create", "insert"} => AfterStatement(u, m + k)
               /\ u[m + k].kind = "insert" =>
                    \E j \in 1 .. (m + k) - 1 :
                      u[j].kind = "create" /\ u[j].table = u[m + k].table
    <2>1. /\ u[m + k] = t[k] /\ (m + k) - 1 = m + (k - 1)
          /\ k - 1 \in 1 .. n => u[m + (k - 1)] = t[k - 1] /\ m + (k - 1) \in 1 .. m + n
      BY <1>4
    <2>2. \A j \in 1 .. k - 1 : u[m + j] = t[j] /\ m + j \in 1 .. (m + k) - 1
      BY <1>4
    <2>3. /\ t[k].kind = "drop" => AfterComment(t, k)
          /\ t[k].kind \in {"create", "insert"} => AfterStatement(t, k)
          /\ t[k].kind = "insert" =>
               \E j \in 1 .. k - 1 : t[j].kind = "create" /\ t[j].table = t[k].table
      BY <1>4 DEF Script
    <2>4. t[k].kind = "drop" => AfterComment(u, m + k)
      BY <1>4, <2>1, <2>3 DEF AfterComment
    <2>5. t[k].kind \in {"create", "insert"} => AfterStatement(u, m + k)
      BY <1>4, <2>1, <2>3 DEF AfterStatement
    <2>6. ASSUME t[k].kind = "insert"
          PROVE  \E j \in 1 .. (m + k) - 1 : u[j].kind = "create" /\ u[j].table = t[k].table
      <3>1. PICK j \in 1 .. k - 1 : t[j].kind = "create" /\ t[j].table = t[k].table
        BY <2>3, <2>6
      <3> QED BY <2>2, <3>1
    <2> QED BY <2>1, <2>4, <2>5, <2>6
  <1>7. ASSUME NEW i \in 1 .. m + n
        PROVE  /\ u[i].kind = "drop" => AfterComment(u, i)
               /\ u[i].kind \in {"create", "insert"} => AfterStatement(u, i)
               /\ u[i].kind = "insert" =>
                    \E j \in 1 .. i - 1 : u[j].kind = "create" /\ u[j].table = u[i].table
    <2>1. CASE i \in 1 .. m
      BY <1>5, <2>1
    <2>2. CASE \E k \in 1 .. n : i = m + k
      BY <1>6, <2>2
    <2> QED BY <1>4, <2>1, <2>2
  <1>8. Script(u)
    BY <1>4, <1>7 DEF Script
  <1> QED BY <1>2, <1>8

(* What DumpTable writes of the table t.                                   *)
Block(b, t) ==
  /\ Script(b)
  /\ \A i \in DOMAIN b : /\ b[i].kind # "start"
                         /\ b[i].kind \in {"create", "insert"} => b[i].table = t

LEMMA BlocksJoin ==
  ASSUME NEW t, NEW a, Block(a, t), NEW b, Block(b, t) PROVE Block(a \o b, t)
  <1>0. Script(a) /\ Script(b)
    BY DEF Block
  <1>1. a \in Seq(Lines) /\ b \in Seq(Lines) /\ Script(a \o b)
    <2>1. Script(a \o b)
      BY <1>0, ScriptsJoin
    <2> QED BY <1>0, <2>1 DEF Script
  <1>2. ASSUME NEW i \in DOMAIN (a \o b)
        PROVE  /\ (a \o b)[i].kind # "start"
               /\ (a \o b)[i].kind \in {"create", "insert"} => (a \o b)[i].table = t
    <2>1. i \in 1 .. Len(a) + Len(b)
      BY <1>1
    <2>2. CASE i \in 1 .. Len(a)
      BY <1>1, <2>2 DEF Block
    <2>3. CASE \E k \in 1 .. Len(b) : i = Len(a) + k
      <3>1. PICK k \in 1 .. Len(b) : i = Len(a) + k
        BY <2>3
      <3>2. (a \o b)[i] = b[k]
        BY <1>1, <3>1, JoinIs
      <3> QED BY <1>1, <3>2 DEF Block
    <2> QED BY <1>1, <2>1, <2>2, <2>3, JoinIs
  <1> QED BY <1>1, <1>2 DEF Block

LEMMA WarningBlock ==
  ASSUME NEW t \in Names, NEW odd \in BOOLEAN
  PROVE  Warning(t, odd) \in Lines /\ Block(<<Warning(t, odd)>>, t)
  <1>1. PICK w : w = Warning(t, odd)
    OBVIOUS
  <1>2. w \in Lines /\ w.kind = "warning"
    BY <1>1 DEF Warning, Line, Lines
  <1>3. <<w>> \in Seq(Lines) /\ DOMAIN <<w>> = 1 .. 1 /\ <<w>>[1] = w
    BY <1>2
  <1>4. \A i \in DOMAIN <<w>> : <<w>>[i].kind = "warning"
    BY <1>2, <1>3
  <1>5. Block(<<w>>, t)
    BY <1>3, <1>4 DEF Block, Script
  <1> QED BY <1>1, <1>2, <1>5

(* CREATE TABLE and pages of rows.                                         *)
InsertsOf(s, t) ==
  s \in Seq(Lines) /\ \A i \in 1 .. Len(s) : s[i].kind = "insert" /\ s[i].table = t

LEMMA HeadFacts ==
  ASSUME NEW t \in Names
  PROVE  /\ TableHead(t) \in Seq(Lines) /\ Len(TableHead(t)) = 3
         /\ TableHead(t)[1].kind = "comment"
         /\ TableHead(t)[2].kind = "drop" /\ TableHead(t)[2].ends
         /\ TableHead(t)[3].kind = "create" /\ TableHead(t)[3].ends
         /\ TableHead(t)[3].table = t
  <1>1. Comment \in Lines /\ Comment.kind = "comment"
    <2>1. Comment = [kind |-> "comment", table |-> "", rows |-> {}, ends |-> FALSE, flips |-> {}]
      BY DEF Comment, Line
    <2> QED BY <2>1 DEF Lines
  <1>2. Plain("drop", t) \in Lines /\ Plain("drop", t).kind = "drop" /\ Plain("drop", t).ends
    BY DEF Plain, Line, Lines
  <1>3. /\ Plain("create", t) \in Lines /\ Plain("create", t).kind = "create"
        /\ Plain("create", t).ends /\ Plain("create", t).table = t
    BY DEF Plain, Line, Lines
  <1>4. PICK c, d, e : c = Comment /\ d = Plain("drop", t) /\ e = Plain("create", t)
    OBVIOUS
  <1>5. TableHead(t) = <<c, d, e>>
    BY <1>4 DEF TableHead
  <1>6. <<c, d, e>> \in Seq(Lines) /\ Len(<<c, d, e>>) = 3
    BY <1>1, <1>2, <1>3, <1>4
  <1> QED BY <1>1, <1>2, <1>3, <1>4, <1>5, <1>6

LEMMA TableBlock ==
  ASSUME NEW t \in Names, NEW s, InsertsOf(s, t) PROVE Block(TableHead(t) \o s, t)
  <1>1. PICK h : h = TableHead(t)
    OBVIOUS
  <1>2. /\ h \in Seq(Lines) /\ Len(h) = 3 /\ h[1].kind = "comment"
        /\ h[2].kind = "drop" /\ h[2].ends
        /\ h[3].kind = "create" /\ h[3].ends /\ h[3].table = t
    BY <1>1, HeadFacts
  <1>3. PICK n \in Nat : n = Len(s)
    BY DEF InsertsOf
  <1>4. PICK b : b = h \o s
    OBVIOUS
  <1>5. /\ b \in Seq(Lines) /\ DOMAIN b = 1 .. 3 + n
        /\ b[1] = h[1] /\ b[2] = h[2] /\ b[3] = h[3]
        /\ \A k \in 1 .. n : b[3 + k] = s[k]
        /\ \A i \in 1 .. 3 + n : i \in 1 .. 3 \/ \E k \in 1 .. n : i = 3 + k
    <2>1. s \in Seq(Lines) /\ h \in Seq(Lines)
      BY <1>2 DEF InsertsOf
    <2>2. /\ h \o s \in Seq(Lines) /\ Len(h \o s) = Len(h) + Len(s)
          /\ \A i \in 1 .. Len(h) : (h \o s)[i] = h[i]
          /\ \A i \in 1 .. Len(s) : (h \o s)[Len(h) + i] = s[i]
          /\ \A i \in 1 .. Len(h) + Len(s) :
               i \in 1 .. Len(h) \/ \E k \in 1 .. Len(s) : i = Len(h) + k
      BY <2>1, LinesJoin, Zenon
    <2>3. /\ b \in Seq(Lines) /\ Len(b) = 3 + n
          /\ \A i \in 1 .. 3 : b[i] = h[i]
          /\ \A k \in 1 .. n : b[3 + k] = s[k]
          /\ \A i \in 1 .. 3 + n : i \in 1 .. 3 \/ \E k \in 1 .. n : i = 3 + k
      BY <1>2, <1>3, <1>4, <2>2
    <2> QED BY <2>3
  <1>6. \A k \in 1 .. n : /\ b[3 + k].kind = "insert" /\ b[3 + k].table = t
                          /\ b[3 + k] \in Lines
    BY <1>3, <1>5 DEF InsertsOf
  <1>7. \A k \in 1 .. n : b[3 + k].ends
    <2>1. ASSUME NEW k \in 1 .. n PROVE b[3 + k].ends
      <3>1. PICK l \in Lines : l = b[3 + k]
        BY <1>6
      <3> QED BY <1>6, <3>1, LineFacts
    <2> QED BY <2>1
  <1>8. ASSUME NEW i \in 1 .. 3 + n
        PROVE  /\ b[i].kind = "drop" => AfterComment(b, i)
               /\ b[i].kind \in {"create", "insert"} => AfterStatement(b, i) /\ b[i].table = t
               /\ b[i].kind = "insert" =>
                    \E j \in 1 .. i - 1 : b[j].kind = "create" /\ b[j].table = b[i].table
               /\ b[i].kind # "start"
    <2>1. CASE i \in 1 .. 3
      <3>1. i = 1 \/ i = 2 \/ i = 3
        BY <2>1
      <3> QED BY <1>2, <1>5, <3>1 DEF AfterComment, AfterStatement
    <2>2. CASE \E k \in 1 .. n : i = 3 + k
      <3>1. PICK k \in 1 .. n : i = 3 + k
        BY <2>2
      <3>2. AfterStatement(b, i)
        <4>1. i - 1 = 3 \/ (k - 1 \in 1 .. n /\ i - 1 = 3 + (k - 1))
          BY <3>1
        <4>2. i - 1 \in 1 .. 3 + n
          BY <3>1
        <4> QED BY <1>2, <1>5, <1>7, <4>1, <4>2 DEF AfterStatement
      <3>3. 3 \in 1 .. i - 1
        BY <3>1
      <3> QED BY <1>2, <1>5, <1>6, <3>1, <3>2, <3>3
    <2> QED BY <1>5, <2>1, <2>2
  <1>9. Block(b, t)
    BY <1>5, <1>8 DEF Block, Script
  <1> QED BY <1>1, <1>4, <1>9

-----------------------------------------------------------------------------
(* Pages of rows.                                                          *)

LEMMA SetIsListed ==
  ASSUME NEW S, IsFiniteSet(S) PROVE SetToSeq(S) \in Seq(S)
  <1>1. Cardinality(S) \in Nat /\ ExistsBijection(1 .. Cardinality(S), S)
    BY FS_CardinalityType
  <1>2. PICK f \in Bijection(1 .. Cardinality(S), S) : TRUE
    BY <1>1 DEF ExistsBijection
  <1>3. f \in [1 .. Cardinality(S) -> S] /\ IsInjective(f)
    BY <1>2 DEF Bijection, Injection, IsInjective
  <1>4. SetToSeq(S) \in [1 .. Cardinality(S) -> S]
    BY <1>3 DEF SetToSeq
  <1> QED BY <1>1, <1>4

LEMMA PagesAre ==
  ASSUME NEW rows \in SUBSET Rows
  PROVE  \E n \in Nat : /\ DOMAIN Pages(rows) = 1 .. n
                        /\ Pages(rows) \in [1 .. n -> SUBSET Rows]
  <1>1. IsFiniteSet(rows)
    BY ScriptAssumption, FS_Subset
  <1>2. PICK s : s = SetToSeq(rows)
    OBVIOUS
  <1>3. s \in Seq(rows) /\ Len(s) \in Nat /\ Batch \in Nat /\ Batch > 0
    BY <1>1, <1>2, SetIsListed, ScriptAssumption
  <1>4. PICK count : count = (Len(s) + Batch - 1) \div Batch
    OBVIOUS
  <1>5. count \in Nat
    BY <1>3, <1>4
  <1> DEFINE upto(i) == IF i * Batch < Len(s) THEN i * Batch ELSE Len(s)
  <1>6. Pages(rows) = [i \in 1 .. count |-> ToSet(SubSeq(s, (i - 1) * Batch + 1, upto(i)))]
    BY <1>2, <1>4 DEF Pages
  <1>7. ASSUME NEW i \in 1 .. count
        PROVE  ToSet(SubSeq(s, (i - 1) * Batch + 1, upto(i))) \in SUBSET Rows
    <2>1. PICK m \in Nat : m = (i - 1) * Batch
      BY <1>3, <1>5
    <2>2. upto(i) \in Nat /\ upto(i) <= Len(s)
      BY <1>3, <1>5
    <2>3. PICK n \in Nat : n = upto(i)
      BY <2>2
    <2>4. SubSeq(s, m + 1, n) \in Seq(rows)
      <3>1. \A k \in m + 1 .. n : s[k] \in rows
        BY <1>3, <2>2, <2>3
      <3> QED BY <3>1
    <2>5. ToSet(SubSeq(s, m + 1, n)) \subseteq rows
      BY <2>4 DEF ToSet
    <2> QED BY <2>1, <2>3, <2>5
  <1>8. Pages(rows) \in [1 .. count -> SUBSET Rows]
    <2> HIDE DEF upto
    <2> QED BY <1>6, <1>7
  <1> QED BY <1>5, <1>8

LEMMA InsertIsLine ==
  ASSUME NEW t \in Names, NEW page \in SUBSET Rows, NEW flips \in SUBSET BOOLEAN,
         FALSE \notin flips
  PROVE  Line("insert", t, page, TRUE, flips) \in Lines
  BY DEF Line, Lines

LEMMA InsertsAre ==
  ASSUME NEW t \in Names, NEW rows \in SUBSET Rows, NEW apostrophe \in BOOLEAN
  PROVE  InsertsOf(Inserts(t, Pages(rows), apostrophe), t)
  <1>1. PICK n \in Nat : /\ DOMAIN Pages(rows) = 1 .. n
                         /\ Pages(rows) \in [1 .. n -> SUBSET Rows]
    BY PagesAre
  <1>2. PICK pages : pages = Pages(rows)
    OBVIOUS
  <1>3. ASSUME NEW i \in 1 .. n
        PROVE  /\ Insert(t, pages[i], apostrophe) \in Lines
               /\ Insert(t, pages[i], apostrophe).kind = "insert"
               /\ Insert(t, pages[i], apostrophe).table = t
    <2>1. PICK page \in SUBSET Rows : page = pages[i]
      BY <1>1, <1>2
    <2>2. PICK flips \in SUBSET BOOLEAN :
            /\ FALSE \notin flips
            /\ flips = IF apostrophe THEN {TRUE} ELSE {}
      OBVIOUS
    <2>3. PICK l : l = Line("insert", t, page, TRUE, flips)
      OBVIOUS
    <2>4. Insert(t, page, apostrophe) = l
      BY <2>2, <2>3 DEF Insert
    <2>5. l \in Lines
      BY <2>2, <2>3, InsertIsLine
    <2>6. l.kind = "insert" /\ l.table = t
      BY <2>3 DEF Line
    <2> QED BY <2>1, <2>4, <2>5, <2>6
  <1>4. PICK s : s = Inserts(t, pages, apostrophe)
    OBVIOUS
  <1>5. s = [i \in 1 .. n |-> Insert(t, pages[i], apostrophe)]
    BY <1>1, <1>2, <1>4 DEF Inserts
  <1>6. s \in [1 .. n -> Lines]
    BY <1>3, <1>5
  <1>7. s \in Seq(Lines) /\ Len(s) = n
    BY <1>6
  <1>8. InsertsOf(s, t)
    BY <1>3, <1>5, <1>7 DEF InsertsOf
  <1> QED BY <1>2, <1>4, <1>8

LEMMA FirstInserts ==
  ASSUME NEW t, NEW s, InsertsOf(s, t), NEW n \in 0 .. Len(s)
  PROVE  InsertsOf(SubSeq(s, 1, n), t)
  <1>1. s \in Seq(Lines) /\ Len(s) \in Nat
    BY DEF InsertsOf
  <1>2. PICK p : p = SubSeq(s, 1, n)
    OBVIOUS
  <1>3. \A i \in 1 .. n : s[i] \in Lines
    BY <1>1
  <1>4. p \in Seq(Lines) /\ Len(p) = n
    BY <1>2, <1>3
  <1>5. \A i \in 1 .. n : p[i] = s[i]
    BY <1>2, <1>3
  <1> QED BY <1>1, <1>2, <1>4, <1>5 DEF InsertsOf

-----------------------------------------------------------------------------
(* The text of a dump: a script whose tables come in the order of Tables.   *)

Content(l) == l.kind \in {"create", "insert"}

Rank(t) == CHOOSE a \in DOMAIN Tables : Tables[a] = t

Ordered(lines) ==
  \A i, j \in DOMAIN lines :
    i < j /\ Content(lines[i]) /\ Content(lines[j])
      => Rank(lines[i].table) <= Rank(lines[j].table)

Started(lines) ==
  \A i \in DOMAIN lines :
    lines[i].kind = "start" => \A j \in DOMAIN lines : j < i => lines[j].kind # "create"

TextInv ==
  /\ next \in Nat \ {0}
  /\ Script(text) /\ Ordered(text) /\ Started(text)
  /\ \A i \in DOMAIN text : Content(text[i]) => Rank(text[i].table) < next

LEMMA RankIs ==
  ASSUME NEW a \in DOMAIN Tables
  PROVE  Tables[a] \in Names /\ Rank(Tables[a]) = a
  BY ScriptAssumption DEF Names, ToSet, Rank

LEMMA RankOf ==
  ASSUME NEW t \in Names
  PROVE  Rank(t) \in DOMAIN Tables /\ Tables[Rank(t)] = t /\ Rank(t) \in Nat
  <1>1. \E a \in DOMAIN Tables : Tables[a] = t
    BY DEF Names, ToSet
  <1>2. Rank(t) \in DOMAIN Tables /\ Tables[Rank(t)] = t
    BY <1>1 DEF Rank
  <1> QED BY <1>2, ScriptAssumption

LEMMA BlockWritten ==
  ASSUME TextInv, NEW b, next \in DOMAIN Tables, Block(b, Tables[next]),
         text' = text \o b, next' = next + 1
  PROVE  TextInv'
  <1>1. PICK s, u : s = text /\ u = text'
    OBVIOUS
  <1>2. Script(s) /\ Script(b) /\ s \in Seq(Lines) /\ b \in Seq(Lines) /\ u = s \o b
    BY <1>1 DEF TextInv, Block, Script
  <1>3. PICK m \in Nat, n \in Nat : m = Len(s) /\ n = Len(b)
    BY <1>2
  <1>4. /\ s \o b \in Seq(Lines) /\ Len(s \o b) = Len(s) + Len(b)
        /\ \A i \in 1 .. Len(s) : (s \o b)[i] = s[i]
        /\ \A i \in 1 .. Len(b) : (s \o b)[Len(s) + i] = b[i]
        /\ \A i \in 1 .. Len(s) + Len(b) :
             i \in 1 .. Len(s) \/ \E k \in 1 .. Len(b) : i = Len(s) + k
    BY <1>2, LinesJoin, Zenon
  <1>5. /\ u \in Seq(Lines) /\ DOMAIN u = 1 .. m + n
        /\ DOMAIN s = 1 .. m /\ DOMAIN b = 1 .. n
        /\ \A i \in 1 .. m : u[i] = s[i]
        /\ \A i \in 1 .. m + n : i \in 1 .. m \/ \E k \in 1 .. n : i = m + k /\ u[i] = b[k]
    BY <1>2, <1>3, <1>4
  <1>6. Script(u)
    BY <1>2, ScriptsJoin
  <1>7. Rank(Tables[next]) = next /\ next \in Nat
    BY RankIs DEF TextInv
  (* A line of the new block comes last and is of the next table. *)
  <1>8. ASSUME NEW i \in 1 .. m + n, i \notin 1 .. m
        PROVE  /\ u[i].kind # "start" /\ i > m
               /\ Content(u[i]) => u[i].table = Tables[next]
    <2>1. PICK k \in 1 .. n : i = m + k /\ u[i] = b[k]
      BY <1>5, <1>8
    <2>2. b[k].kind # "start" /\ (Content(b[k]) => b[k].table = Tables[next])
      BY <1>5 DEF Block, Content
    <2> QED BY <2>1, <2>2
  <1>9. \A i \in 1 .. m : Content(u[i]) => Rank(u[i].table) < next /\ Rank(u[i].table) \in Nat
    <2>1. ASSUME NEW i \in 1 .. m, Content(u[i])
          PROVE  Rank(u[i].table) < next /\ Rank(u[i].table) \in Nat
      <3>1. PICK l \in Lines : l = u[i]
        BY <1>5
      <3>2. l.table \in Names
        BY <2>1, <3>1, LineFacts DEF Content
      <3> QED BY <1>1, <1>5, <2>1, <3>1, <3>2, RankOf DEF TextInv
    <2> QED BY <2>1
  <1>10. \A i \in 1 .. m + n : Content(u[i]) => Rank(u[i].table) < next + 1
    BY <1>7, <1>8, <1>9
  <1>11. Ordered(u)
    <2>1. ASSUME NEW i \in 1 .. m + n, NEW j \in 1 .. m + n, i < j,
                 Content(u[i]), Content(u[j])
          PROVE  Rank(u[i].table) <= Rank(u[j].table)
      <3>1. CASE j \in 1 .. m
        <4>1. i \in 1 .. m
          BY <2>1, <3>1
        <4> QED BY <1>1, <1>5, <2>1, <3>1, <4>1 DEF TextInv, Ordered
      <3>2. CASE j \notin 1 .. m
        <4>1. Rank(u[j].table) = next
          BY <1>7, <1>8, <2>1, <3>2
        <4> QED BY <1>7, <1>8, <1>9, <2>1, <4>1
      <3> QED BY <3>1, <3>2
    <2> QED BY <1>5, <2>1 DEF Ordered
  <1>12. Started(u)
    <2>1. ASSUME NEW i \in 1 .. m + n, NEW j \in 1 .. m + n, j < i, u[i].kind = "start"
          PROVE  u[j].kind # "create"
      <3>1. i \in 1 .. m
        BY <1>8, <2>1
      <3>2. j \in 1 .. m
        BY <2>1, <3>1
      <3> QED BY <1>1, <1>5, <2>1, <3>1, <3>2 DEF TextInv, Started
    <2> QED BY <1>5, <2>1 DEF Started
  <1>13. next' \in Nat \ {0}
    BY <1>7
  <1> QED BY <1>1, <1>5, <1>6, <1>10, <1>11, <1>12, <1>13 DEF TextInv

LEMMA PlainFacts ==
  ASSUME NEW k \in {"set", "start", "commit"}
  PROVE  Plain(k, "") \in Lines /\ Plain(k, "").kind = k
  BY DEF Plain, Line, Lines

LEMMA InitText == ASSUME Init PROVE TextInv
  <1>1. PICK c, d, e : c = Comment /\ d = Plain("set", "") /\ e = Plain("start", "")
    OBVIOUS
  <1>2. c \in Lines /\ c.kind = "comment"
    <2>1. c = [kind |-> "comment", table |-> "", rows |-> {}, ends |-> FALSE, flips |-> {}]
      BY <1>1 DEF Comment, Line
    <2> QED BY <2>1 DEF Lines
  <1>3. d \in Lines /\ d.kind = "set" /\ e \in Lines /\ e.kind = "start"
    BY <1>1, PlainFacts
  <1>4. text = <<c, d, d, e>>
    BY <1>1 DEF Init, Preamble
  <1>5. PICK s : s = <<c, d, d, e>>
    OBVIOUS
  <1>6. s \in Seq(Lines) /\ DOMAIN s = 1 .. 4
    BY <1>2, <1>3, <1>5
  <1>7. \A i \in 1 .. 4 : s[i].kind \in {"comment", "set", "start"}
    <2>1. ASSUME NEW i \in 1 .. 4 PROVE s[i] = c \/ s[i] = d \/ s[i] = e
      <3>1. i = 1 \/ i = 2 \/ i = 3 \/ i = 4
        OBVIOUS
      <3> QED BY <1>5, <3>1
    <2> QED BY <1>2, <1>3, <2>1
  <1>8. Script(s)
    BY <1>6, <1>7 DEF Script
  <1>9. Ordered(s) /\ Started(s) /\ \A i \in DOMAIN s : ~Content(s[i])
    BY <1>6, <1>7 DEF Ordered, Started, Content
  <1> QED BY <1>4, <1>5, <1>8, <1>9 DEF TextInv, Init

LEMMA DumpTableText == ASSUME TextInv, db \in Database, DumpTable PROVE TextInv'
  <1> DEFINE t == Tables[next]
  <1>1. next \in DOMAIN Tables /\ t \in Names /\ text \in Seq(Lines)
    <2>1. next \in DOMAIN Tables
      BY ScriptAssumption DEF TextInv, DumpTable
    <2> QED BY <2>1, RankIs DEF TextInv, Script
  <1>2. db[t] # Missing => db[t] \in SUBSET Rows
    BY <1>1 DEF Database
  <1>3. PICK apostrophe \in BOOLEAN, odd \in BOOLEAN :
          \/ /\ db[t] # Missing
             /\ text' = text \o TableHead(t) \o Inserts(t, Pages(db[t]), apostrophe)
          \/ text' = Append(text, Warning(t, TRUE))
          \/ text' = Append(text, Warning(t, odd))
          \/ /\ db[t] # Missing
             /\ \E n \in 0 .. (Len(Pages(db[t])) - 1) :
                  text' = text \o TableHead(t)
                              \o SubSeq(Inserts(t, Pages(db[t]), apostrophe), 1, n)
                              \o <<Warning(t, odd)>>
    BY DEF DumpTable
  <1>4. next' = next + 1
    BY DEF DumpTable
  <1>5. \E b : Block(b, t) /\ text' = text \o b
    <2>1. ASSUME NEW s, InsertsOf(s, t), text' = text \o TableHead(t) \o s
          PROVE  \E b : Block(b, t) /\ text' = text \o b
      <3>1. TableHead(t) \in Seq(Lines) /\ s \in Seq(Lines)
        BY <1>1, <2>1, HeadFacts DEF InsertsOf
      <3>2. text' = text \o (TableHead(t) \o s)
        BY <1>1, <2>1, <3>1, JoinAssoc, Zenon
      <3>3. Block(TableHead(t) \o s, t)
        BY <1>1, <2>1, TableBlock
      <3> QED BY <3>2, <3>3
    <2>2. ASSUME NEW o \in BOOLEAN, text' = Append(text, Warning(t, o))
          PROVE  \E b : Block(b, t) /\ text' = text \o b
      <3>1. Warning(t, o) \in Lines /\ Block(<<Warning(t, o)>>, t)
        BY <1>1, WarningBlock
      <3>2. text' = text \o <<Warning(t, o)>>
        BY <1>1, <2>2, <3>1, AppendJoins
      <3> QED BY <3>1, <3>2
    <2>3. ASSUME NEW s, InsertsOf(s, t), text' = text \o TableHead(t) \o s \o <<Warning(t, odd)>>
          PROVE  \E b : Block(b, t) /\ text' = text \o b
      <3>1. PICK h, w : h = TableHead(t) /\ w = <<Warning(t, odd)>>
        OBVIOUS
      <3>2. Block(w, t) /\ Block(h \o s, t) /\ h \in Seq(Lines) /\ s \in Seq(Lines)
        BY <1>1, <2>3, <3>1, WarningBlock, TableBlock, HeadFacts DEF InsertsOf
      <3>3. w \in Seq(Lines) /\ h \o s \in Seq(Lines)
        BY <3>2 DEF Block, Script
      <3>4. text \o h \o s = text \o (h \o s)
        BY <1>1, <3>2, JoinAssoc, Zenon
      <3>5. (text \o (h \o s)) \o w = text \o ((h \o s) \o w)
        BY <1>1, <3>3, JoinAssoc, Zenon
      <3>6. text' = text \o ((h \o s) \o w)
        BY <2>3, <3>1, <3>4, <3>5
      <3>7. Block((h \o s) \o w, t)
        BY <3>2, BlocksJoin
      <3> QED BY <3>6, <3>7
    <2>4. CASE /\ db[t] # Missing
               /\ text' = text \o TableHead(t) \o Inserts(t, Pages(db[t]), apostrophe)
      BY <1>1, <1>2, <2>1, <2>4, InsertsAre
    <2>5. CASE text' = Append(text, Warning(t, TRUE)) \/ text' = Append(text, Warning(t, odd))
      BY <2>2, <2>5
    <2>6. ASSUME db[t] # Missing, NEW n \in 0 .. (Len(Pages(db[t])) - 1),
                 text' = text \o TableHead(t)
                              \o SubSeq(Inserts(t, Pages(db[t]), apostrophe), 1, n)
                              \o <<Warning(t, odd)>>
          PROVE  \E b : Block(b, t) /\ text' = text \o b
      <3>1. PICK s : s = Inserts(t, Pages(db[t]), apostrophe)
        OBVIOUS
      <3>2. InsertsOf(s, t)
        BY <1>1, <1>2, <2>6, <3>1, InsertsAre
      <3>3. n \in 0 .. Len(s)
        <4>1. PICK k \in Nat : /\ DOMAIN Pages(db[t]) = 1 .. k
                               /\ Pages(db[t]) \in [1 .. k -> SUBSET Rows]
          BY <1>2, <2>6, PagesAre
        <4>2. DOMAIN s = 1 .. k
          BY <3>1, <4>1 DEF Inserts
        <4>3. Len(Pages(db[t])) = k
          BY <4>1
        <4>4. Len(s) = k
          BY <3>2, <4>2 DEF InsertsOf
        <4> QED BY <2>6, <4>3, <4>4
      <3>4. InsertsOf(SubSeq(s, 1, n), t)
        BY <3>2, <3>3, FirstInserts
      <3> QED BY <2>3, <2>6, <3>1, <3>4
    <2> QED BY <1>3, <2>4, <2>5, <2>6
  <1> QED BY <1>1, <1>4, <1>5, BlockWritten

LEMMA FinishDumpText == ASSUME TextInv, FinishDump PROVE TextInv'
  <1>1. PICK d, e : d = Plain("commit", "") /\ e = Plain("set", "")
    OBVIOUS
  <1>2. d \in Lines /\ d.kind = "commit" /\ e \in Lines /\ e.kind = "set"
    BY <1>1, PlainFacts
  <1>3. PICK s, b : s = text /\ b = <<d, e>>
    OBVIOUS
  <1>4. text' = s \o b /\ next' = next
    BY <1>1, <1>3 DEF FinishDump, Closing
  <1>5. b \in Seq(Lines) /\ Len(b) = 2 /\ DOMAIN b = 1 .. 2
    BY <1>2, <1>3
  <1>6. \A i \in 1 .. 2 : b[i].kind \in {"commit", "set"}
    <2>1. \A i \in 1 .. 2 : i = 1 \/ i = 2
      OBVIOUS
    <2> QED BY <1>2, <1>3, <2>1
  <1>7. Script(b)
    BY <1>5, <1>6 DEF Script
  <1>8. Script(s) /\ s \in Seq(Lines) /\ b \in Seq(Lines)
    BY <1>3, <1>5 DEF TextInv, Script
  <1>9. Script(s \o b)
    BY <1>7, <1>8, ScriptsJoin
  <1>10. PICK m \in Nat : m = Len(s) /\ DOMAIN s = 1 .. m
    BY <1>8
  <1>11. /\ s \o b \in Seq(Lines) /\ Len(s \o b) = Len(s) + Len(b)
         /\ \A i \in 1 .. Len(s) : (s \o b)[i] = s[i]
         /\ \A i \in 1 .. Len(b) : (s \o b)[Len(s) + i] = b[i]
         /\ \A i \in 1 .. Len(s) + Len(b) :
              i \in 1 .. Len(s) \/ \E k \in 1 .. Len(b) : i = Len(s) + k
    BY <1>8, LinesJoin, Zenon
  <1>12. PICK u : u = s \o b
    OBVIOUS
  <1>13. /\ DOMAIN u = 1 .. m + 2 /\ \A i \in 1 .. m : u[i] = s[i]
         /\ \A i \in 1 .. m + 2 : i \in 1 .. m \/ u[i].kind \in {"commit", "set"}
    BY <1>5, <1>6, <1>10, <1>11, <1>12
  <1>14. Ordered(u)
    BY <1>3, <1>10, <1>13 DEF TextInv, Ordered, Content
  <1>15. Started(u)
    <2>1. ASSUME NEW i \in 1 .. m + 2, NEW j \in 1 .. m + 2, j < i, u[i].kind = "start"
          PROVE  u[j].kind # "create"
      <3>1. i \in 1 .. m /\ j \in 1 .. m
        BY <1>13, <2>1
      <3> QED BY <1>3, <1>10, <1>13, <2>1, <3>1 DEF TextInv, Started
    <2> QED BY <1>13, <2>1 DEF Started
  <1>16. \A i \in 1 .. m + 2 : Content(u[i]) => Rank(u[i].table) < next
    BY <1>3, <1>10, <1>13 DEF TextInv, Content
  <1> QED BY <1>4, <1>9, <1>12, <1>13, <1>14, <1>15, <1>16 DEF TextInv

-----------------------------------------------------------------------------
(* The first n statements of a restore, and what they have built.           *)

All == ParseSqlStatements(text)

Created(n) == {Head(All[i]).table : i \in {j \in 1 .. n : Head(All[j]).kind = "create"}}
Written(n, t) == UNION {Head(All[i]).rows : i \in {j \in 1 .. n : Head(All[j]).table = t}}

Built(n, c) ==
  \A t \in Names : c[t] = IF t \in Created(n) THEN Written(n, t) ELSE before[t]

(* stmts is what is left of them after the first n.                         *)
Left(n) ==
  /\ n \in 0 .. Len(All)
  /\ stmts \in Seq(Seq(Lines)) /\ Len(stmts) = Len(All) - n
  /\ \A i \in 1 .. Len(stmts) : stmts[i] = All[n + i]

(* A transaction is open only until the first table is created: then the    *)
(* restore has committed whatever it has done.                              *)
Restoring(n) ==
  /\ Left(n)
  /\ Even(text) => /\ db = tx /\ Built(n, tx)
                   /\ inTx => Created(n) = {}

LEMMA EvenText == Even(text) <=> ~Unbalanced
  BY DEF Even, Unbalanced, Warnings

LEMMA AllFacts ==
  ASSUME TextInv, NEW at, Begins(text, All, at), NEW i \in 1 .. Len(All)
  PROVE  /\ at[i] \in DOMAIN text /\ Head(All[i]) = text[at[i]] /\ Head(All[i]) \in Lines
         /\ Head(All[i]).kind # "drop"
  <1>1. text \in Seq(Lines)
    BY DEF TextInv, Script
  <1>2. at[i] \in DOMAIN text /\ Head(All[i]) = text[at[i]] /\ text[at[i]].kind # "drop"
    <2>1. /\ at[i] \in 1 .. Len(text) /\ Head(All[i]) = text[at[i]]
          /\ text[at[i]].kind # "drop"
      BY DEF Begins
    <2>2. DOMAIN text = 1 .. Len(text)
      BY <1>1
    <2> QED BY <2>1, <2>2
  <1> QED BY <1>1, <1>2

LEMMA OneMore ==
  ASSUME NEW n \in Nat, NEW line, Head(All[n + 1]) = line
  PROVE  /\ Created(n + 1) = Created(n) \cup (IF line.kind = "create" THEN {line.table} ELSE {})
         /\ \A t : Written(n + 1, t) = Written(n, t) \cup (IF line.table = t THEN line.rows ELSE {})
  <1>1. 1 .. n + 1 = 1 .. n \cup {n + 1}
    OBVIOUS
  <1>2. Created(n + 1) = Created(n) \cup (IF line.kind = "create" THEN {line.table} ELSE {})
    BY <1>1 DEF Created
  <1>3. ASSUME NEW t
        PROVE  Written(n + 1, t) = Written(n, t) \cup (IF line.table = t THEN line.rows ELSE {})
    BY <1>1 DEF Written
  <1> QED BY <1>2, <1>3

LEMMA WrittenRows ==
  ASSUME TextInv, NEW n \in 0 .. Len(All), NEW t PROVE Written(n, t) \in SUBSET Rows
  <1>1. PICK at : Begins(text, All, at)
    BY Statements DEF TextInv, All
  <1>2. ASSUME NEW i \in 1 .. n PROVE Head(All[i]).rows \subseteq Rows
    <2>1. i \in 1 .. Len(All)
      BY <1>1 DEF Begins
    <2>2. PICK l \in Lines : l = Head(All[i])
      BY <1>1, <2>1, AllFacts
    <2> QED BY <2>2, LineFacts
  <1> QED BY <1>2 DEF Written

(* Outside quotes no row is sent before its table is created.               *)
LEMMA CreatedFirst ==
  ASSUME TextInv, Even(text), NEW i \in 1 .. Len(All), Head(All[i]).kind = "insert"
  PROVE  Head(All[i]).table \in Created(i - 1)
  <1>1. PICK at : Begins(text, All, at)
    BY Statements DEF TextInv, All
  <1>2. at[i] \in DOMAIN text /\ Head(All[i]) = text[at[i]]
    BY <1>1, AllFacts
  <1>3. PICK k \in 1 .. at[i] - 1 :
          text[k].kind = "create" /\ text[k].table = text[at[i]].table
    BY <1>2 DEF TextInv, Script
  <1>4. k \in DOMAIN text /\ k < at[i] /\ at[i] \in Nat
    BY <1>2, <1>3 DEF TextInv, Script
  <1>5. PICK j \in 1 .. Len(All) : at[j] = k
    <2>1. k \in 1 .. Len(text)
      BY <1>4 DEF TextInv, Script
    <2>2. text[k].kind \in {"create", "insert"}
      BY <1>3
    <2> QED BY <1>1, <2>1, <2>2 DEF Begins
  <1>6. j < i
    <2>1. i \in Nat /\ j \in Nat
      BY <1>1 DEF Begins
    <2>2. i = j \/ i < j \/ j < i
      BY <2>1
    <2>3. i < j => at[i] < at[j]
      BY <1>1 DEF Begins
    <2> QED BY <1>4, <1>5, <2>2, <2>3
  <1>7. j \in 1 .. i - 1 /\ Head(All[j]) = text[k]
    BY <1>1, <1>5, <1>6, AllFacts DEF Begins
  <1> QED BY <1>2, <1>3, <1>7 DEF Created

LEMMA NothingBefore ==
  ASSUME TextInv, Even(text), NEW n \in 0 .. Len(All), NEW t, t \notin Created(n)
  PROVE  Written(n, t) = {}
  <1>1. PICK at : Begins(text, All, at)
    BY Statements DEF TextInv, All
  <1>2. ASSUME NEW i \in 1 .. n, Head(All[i]).table = t PROVE Head(All[i]).rows = {}
    <2>1. i \in 1 .. Len(All) /\ i \in Nat /\ n \in Nat
      BY <1>1 DEF Begins
    <2>2. PICK l \in Lines : l = Head(All[i])
      BY <1>1, <2>1, AllFacts
    <2>3. CASE l.kind = "insert"
      <3>1. t \in Created(i - 1)
        BY <1>2, <2>1, <2>2, <2>3, CreatedFirst
      <3>2. \A j \in 1 .. i - 1 : j \in 1 .. n
        BY <2>1
      <3>3. t \in Created(n)
        BY <3>1, <3>2 DEF Created
      <3> QED BY <3>3
    <2>4. CASE l.kind # "insert"
      BY <2>2, <2>4, LineFacts
    <2> QED BY <2>3, <2>4
  <1> QED BY <1>2 DEF Written

(* What a whole dump builds.                                               *)
LEMMA BuiltAll ==
  ASSUME TextInv, Even(text), NEW c, Built(Len(All), c), NEW t \in Names
  PROVE  c[t] = IF t \in Archived THEN ArchivedRows(t) ELSE before[t]
  <1>1. PICK at : Begins(text, All, at)
    BY Statements DEF TextInv, All
  <1>2. text \in Seq(Lines) /\ DOMAIN text = 1 .. Len(text)
    BY DEF TextInv, Script
  <1>3. t \in Archived <=> t \in Created(Len(All))
    <2>1. ASSUME NEW k \in DOMAIN text, text[k].kind = "create", text[k].table = t
          PROVE  t \in Created(Len(All))
      <3>1. PICK i \in 1 .. Len(All) : at[i] = k
        BY <1>1, <1>2, <2>1 DEF Begins
      <3>2. Head(All[i]) = text[k]
        BY <1>1, <3>1, AllFacts
      <3> QED BY <2>1, <3>2 DEF Created
    <2>2. ASSUME NEW i \in 1 .. Len(All), Head(All[i]).kind = "create", Head(All[i]).table = t
          PROVE  t \in Archived
      BY <1>1, <2>2, AllFacts DEF Archived
    <2> QED BY <2>1, <2>2 DEF Archived, Created
  <1>4. Written(Len(All), t) = ArchivedRows(t)
    <2>1. ASSUME NEW i \in 1 .. Len(All), Head(All[i]).table = t
          PROVE  Head(All[i]).rows \subseteq ArchivedRows(t)
      BY <1>1, <2>1, AllFacts DEF ArchivedRows
    <2>2. ASSUME NEW k \in DOMAIN text, text[k].table = t
          PROVE  text[k].rows \subseteq Written(Len(All), t)
      <3>1. PICK l \in Lines : l = text[k]
        BY <1>2
      <3>2. CASE l.kind = "insert"
        <4>1. PICK i \in 1 .. Len(All) : at[i] = k
          BY <1>1, <1>2, <3>1, <3>2 DEF Begins
        <4>2. Head(All[i]) = text[k]
          BY <1>1, <4>1, AllFacts
        <4> QED BY <2>2, <4>2 DEF Written
      <3>3. CASE l.kind # "insert"
        BY <3>1, <3>3, LineFacts
      <3> QED BY <3>2, <3>3
    <2> QED BY <2>1, <2>2 DEF Written, ArchivedRows
  <1> QED BY <1>3, <1>4 DEF Built

(* What part of a dump builds.                                             *)
Prefix(c) ==
  \E k \in 1..Len(Tables) :
    /\ \A i \in 1..(k - 1) :
         c[Tables[i]] = IF Tables[i] \in Archived THEN ArchivedRows(Tables[i])
                                                 ELSE before[Tables[i]]
    /\ \/ c[Tables[k]] = before[Tables[k]]
       \/ \E n \in DOMAIN text :
            c[Tables[k]] = UNION {text[i].rows : i \in {j \in 1..n :
                                                  text[j].table = Tables[k]}}
    /\ \A i \in (k + 1)..Len(Tables) : c[Tables[i]] = before[Tables[i]]

LEMMA Greatest ==
  ASSUME NEW n \in Nat, NEW S \in SUBSET (1 .. n), S # {}
  PROVE  \E m \in S : \A i \in S : i <= m
  <1> DEFINE T == {n - i : i \in S}
  <1>1. T \in SUBSET Nat /\ T # {}
    <2>1. \A i \in S : n - i \in Nat
      OBVIOUS
    <2> QED BY <2>1
  <1>2. PICK d \in T : \A e \in T : d <= e
    <2> HIDE DEF T
    <2> QED BY <1>1, LeastNumber
  <1>3. PICK m \in S : d = n - m
    OBVIOUS
  <1>4. ASSUME NEW i \in S PROVE i <= m
    <2>1. n - m <= n - i
      BY <1>2, <1>3
    <2> QED BY <2>1
  <1> QED BY <1>4

LEMMA BuiltPrefix ==
  ASSUME TextInv, Even(text), NEW n \in 0 .. Len(All), NEW c, Built(n, c)
  PROVE  Prefix(c)
  <1>1. PICK at : Begins(text, All, at)
    BY Statements DEF TextInv, All
  <1>2. /\ text \in Seq(Lines) /\ DOMAIN text = 1 .. Len(text) /\ Len(text) \in Nat
        /\ Len(All) \in Nat /\ n \in Nat /\ DOMAIN Tables = 1 .. Len(Tables)
        /\ Len(Tables) \in Nat /\ Len(Tables) > 0
    BY <1>1, ScriptAssumption DEF TextInv, Script, Begins
  <1> DEFINE Sent == {i \in 1 .. n : Content(Head(All[i]))}
  <1>3. CASE Sent = {}
    <2>1. Created(n) = {}
      BY <1>3 DEF Created, Content
    <2>2. \A t \in Names : c[t] = before[t]
      BY <2>1 DEF Built
    <2>3. \A i \in 1 .. Len(Tables) : c[Tables[i]] = before[Tables[i]]
      BY <1>2, <2>2, RankIs
    <2>4. 1 \in 1 .. Len(Tables)
      BY <1>2
    <2> QED BY <2>3, <2>4 DEF Prefix
  <1>4. CASE Sent # {}
    <2>1. Sent \in SUBSET (1 .. n)
      OBVIOUS
    <2>2. PICK m \in Sent : \A i \in Sent : i <= m
      <3> HIDE DEF Sent
      <3> QED BY <1>2, <1>4, <2>1, Greatest
    <2>3. PICK last, table : last = at[m] /\ table = Head(All[m]).table
      OBVIOUS
    <2>4. /\ m \in 1 .. n /\ m \in 1 .. Len(All) /\ m \in Nat
          /\ last \in DOMAIN text /\ last \in Nat /\ Head(All[m]) = text[last]
          /\ Content(text[last]) /\ text[last].table = table
      BY <1>1, <1>2, <2>3, AllFacts
    <2>5. table \in Names
      <3>1. PICK l \in Lines : l = text[last]
        BY <1>2, <2>4
      <3> QED BY <2>4, <3>1, LineFacts DEF Content
    <2>6. PICK k : k = Rank(table)
      OBVIOUS
    <2>7. k \in 1 .. Len(Tables) /\ k \in Nat /\ Tables[k] = table
      BY <1>2, <2>5, <2>6, RankOf
    (* A line of content up to the last one has been sent, and no other. *)
    <2>8. ASSUME NEW l \in DOMAIN text, Content(text[l]), l <= last
          PROVE  \E i \in 1 .. n : Head(All[i]) = text[l]
      <3>1. PICK i \in 1 .. Len(All) : at[i] = l
        BY <1>1, <1>2, <2>8 DEF Begins, Content
      <3>2. i <= m
        <4>1. m < i => last < l
          BY <1>1, <2>3, <2>4, <3>1 DEF Begins
        <4>2. l \in Nat /\ i \in Nat
          BY <1>2
        <4> QED BY <2>4, <2>8, <4>1, <4>2
      <3>3. i \in 1 .. n
        BY <1>2, <2>4, <3>2
      <3> QED BY <1>1, <3>1, <3>3, AllFacts
    <2>9. ASSUME NEW i \in 1 .. n, Content(Head(All[i]))
          PROVE  \E l \in DOMAIN text : l <= last /\ Head(All[i]) = text[l]
      <3>1. i <= m /\ i \in 1 .. Len(All) /\ i \in Nat
        BY <1>2, <2>2, <2>9
      <3>2. at[i] \in DOMAIN text /\ Head(All[i]) = text[at[i]]
        BY <1>1, <3>1, AllFacts
      <3>3. i < m => at[i] < last
        BY <1>1, <2>3, <2>4, <3>1 DEF Begins
      <3>4. at[i] <= last
        BY <1>2, <2>3, <2>4, <3>1, <3>2, <3>3
      <3> QED BY <3>2, <3>4
    <2>10. ASSUME NEW l \in DOMAIN text, Content(text[l])
           PROVE  /\ Rank(text[l].table) \in Nat
                  /\ l <= last => Rank(text[l].table) <= k
                  /\ last <= l => k <= Rank(text[l].table)
      <3>1. PICK x \in Lines : x = text[l]
        BY <1>2
      <3>2. Rank(x.table) \in Nat
        BY <2>10, <3>1, LineFacts, RankOf DEF Content
      <3>3. l < last => Rank(text[l].table) <= k
        BY <2>4, <2>6, <2>10 DEF TextInv, Ordered
      <3>4. last < l => k <= Rank(text[l].table)
        BY <2>4, <2>6, <2>10 DEF TextInv, Ordered
      <3>5. l = last => Rank(text[l].table) = k
        BY <2>4, <2>6
      <3> QED BY <1>2, <2>4, <2>7, <3>1, <3>2, <3>3, <3>4, <3>5
    (* The rows that lines up to the last one have of a table. *)
    <2>11. ASSUME NEW t
           PROVE  Written(n, t) =
                    UNION {text[i].rows : i \in {j \in 1 .. last : text[j].table = t}}
      <3> DEFINE Upto == UNION {text[i].rows : i \in {j \in 1 .. last : text[j].table = t}}
      <3>1. ASSUME NEW i \in 1 .. n, Head(All[i]).table = t
            PROVE  Head(All[i]).rows \subseteq Upto
        <4>1. i \in 1 .. Len(All)
          BY <1>2
        <4>2. PICK x \in Lines : x = Head(All[i])
          BY <1>1, <4>1, AllFacts
        <4>3. CASE x.kind = "insert"
          <5>1. PICK l \in DOMAIN text : l <= last /\ Head(All[i]) = text[l]
            BY <2>9, <4>2, <4>3 DEF Content
          <5>2. l \in 1 .. last
            BY <1>2, <2>4, <5>1
          <5> QED BY <3>1, <5>1, <5>2
        <4>4. CASE x.kind # "insert"
          BY <4>2, <4>4, LineFacts
        <4> QED BY <4>3, <4>4
      <3>2. ASSUME NEW l \in 1 .. last, text[l].table = t
            PROVE  text[l].rows \subseteq Written(n, t)
        <4>1. l \in DOMAIN text /\ l <= last
          BY <1>2, <2>4
        <4>2. PICK x \in Lines : x = text[l]
          BY <1>2, <4>1
        <4>3. CASE x.kind = "insert"
          <5>1. PICK i \in 1 .. n : Head(All[i]) = text[l]
            BY <2>8, <4>1, <4>2, <4>3 DEF Content
          <5> QED BY <3>2, <5>1 DEF Written
        <4>4. CASE x.kind # "insert"
          BY <4>2, <4>4, LineFacts
        <4> QED BY <4>3, <4>4
      <3> QED BY <3>1, <3>2 DEF Written
    <2>12. ASSUME NEW a \in 1 .. k - 1
           PROVE  c[Tables[a]] = IF Tables[a] \in Archived THEN ArchivedRows(Tables[a])
                                 ELSE before[Tables[a]]
      <3>1. PICK t : t = Tables[a]
        OBVIOUS
      <3>2. a \in DOMAIN Tables /\ t \in Names /\ Rank(t) = a
        <4>1. a \in DOMAIN Tables
          BY <1>2, <2>7
        <4> QED BY <3>1, <4>1, RankIs
      <3>3. ASSUME NEW l \in DOMAIN text, Content(text[l]), text[l].table = t PROVE l <= last
        <4>1. last <= l => k <= a
          BY <2>10, <3>2, <3>3
        <4> QED BY <1>2, <2>4, <2>7, <4>1
      <3>4. t \in Archived <=> t \in Created(n)
        <4>1. ASSUME NEW l \in DOMAIN text, text[l].kind = "create", text[l].table = t
              PROVE  t \in Created(n)
          <5>1. PICK i \in 1 .. n : Head(All[i]) = text[l]
            BY <2>8, <3>3, <4>1 DEF Content
          <5> QED BY <4>1, <5>1 DEF Created
        <4>2. ASSUME NEW i \in 1 .. n, Head(All[i]).kind = "create", Head(All[i]).table = t
              PROVE  t \in Archived
          <5>1. PICK l \in DOMAIN text : Head(All[i]) = text[l]
            BY <2>9, <4>2 DEF Content
          <5> QED BY <3>2, <4>2, <5>1 DEF Archived
        <4> QED BY <3>2, <4>1, <4>2 DEF Archived, Created
      <3>5. Written(n, t) = ArchivedRows(t)
        <4>1. ASSUME NEW l \in DOMAIN text, text[l].table = t
              PROVE  text[l].rows = {} \/ l \in 1 .. last
          <5>1. PICK x \in Lines : x = text[l]
            BY <1>2
          <5>2. x.kind = "insert" => l <= last
            BY <3>3, <4>1, <5>1 DEF Content
          <5>3. x.kind # "insert" => x.rows = {}
            BY LineFacts
          <5>4. l \in Nat /\ 0 < l
            BY <1>2, <4>1
          <5> QED BY <2>4, <5>1, <5>2, <5>3, <5>4
        <4>2. \A l \in 1 .. last : l \in DOMAIN text
          BY <1>2, <2>4
        <4> QED BY <2>11, <4>1, <4>2 DEF ArchivedRows
      <3> QED BY <3>1, <3>2, <3>4, <3>5 DEF Built
    <2>13. \/ c[Tables[k]] = before[Tables[k]]
           \/ c[Tables[k]] =
                UNION {text[i].rows : i \in {j \in 1 .. last : text[j].table = Tables[k]}}
      BY <2>5, <2>7, <2>11 DEF Built
    <2>14. ASSUME NEW a \in (k + 1) .. Len(Tables) PROVE c[Tables[a]] = before[Tables[a]]
      <3>1. PICK t : t = Tables[a]
        OBVIOUS
      <3>2. a \in DOMAIN Tables /\ t \in Names /\ Rank(t) = a
        <4>1. a \in DOMAIN Tables
          BY <1>2, <2>7
        <4> QED BY <3>1, <4>1, RankIs
      <3>3. ASSUME NEW i \in 1 .. n, Head(All[i]).kind = "create", Head(All[i]).table = t
            PROVE  FALSE
        <4>1. PICK l \in DOMAIN text : l <= last /\ Head(All[i]) = text[l]
          BY <2>9, <3>3 DEF Content
        <4>2. a <= k
          BY <2>10, <3>2, <3>3, <4>1 DEF Content
        <4> QED BY <1>2, <2>7, <4>2
      <3>4. t \notin Created(n)
        BY <3>3 DEF Created
      <3> QED BY <3>1, <3>2, <3>4 DEF Built
    <2> QED BY <2>4, <2>7, <2>12, <2>13, <2>14 DEF Prefix
  <1> QED BY <1>3, <1>4

-----------------------------------------------------------------------------
(* The inductive invariant.                                                *)

Typed ==
  /\ phase \in {"dump", "idle", "exec", "ok", "failed"}
  /\ db \in Database /\ tx \in Database /\ before \in Database
  /\ inTx \in BOOLEAN

Kept(c) == \A t \in Names : before[t] # Missing => c[t] # Missing /\ before[t] \subseteq c[t]

RestoreInv ==
  /\ Typed
  /\ TextInv
  /\ phase \in {"exec", "ok", "failed"} => Kept(db) /\ Kept(tx)
  /\ phase = "exec" => \E n \in Nat : Restoring(n)
  /\ RestoreFaithful
  /\ FailureLeavesPrefix

(* A statement that is sent, and what it may do.                           *)
Outcome(line, c, r) ==
  \/ ~r.ok /\ r.content = c
  \/ r.ok /\ r.content = c /\ line.kind \in {"set", "start", "commit"}
  \/ /\ r.ok /\ line.kind = "create" /\ c[line.table] = Missing
     /\ r.content = [c EXCEPT ![line.table] = {}]
  \/ /\ r.ok /\ line.kind = "insert" /\ c[line.table] # Missing
     /\ r.content = [c EXCEPT ![line.table] = @ \cup line.rows]

LEMMA ResultFacts ==
  ASSUME NEW line \in Lines, line.kind \notin {"comment", "warning", "drop"},
         NEW c \in Database, NEW r \in Results(line, c)
  PROVE  Outcome(line, c, r)
  <1> USE DEF Outcome
  <1>1. line.kind \in {"set", "start", "commit", "create", "insert"}
    BY LineFacts
  <1>2. CASE line.kind \in {"set", "start", "commit"}
    BY <1>2 DEF Results
  <1>3. CASE line.kind = "create"
    BY <1>3 DEF Results
  <1>4. CASE line.kind = "insert"
    <2>1. CASE c[line.table] = Missing
      BY <1>4, <2>1 DEF Results
    <2>2. CASE c[line.table] # Missing
      <3>1. PICK d : d = [c EXCEPT ![line.table] = @ \cup line.rows]
        OBVIOUS
      <3>2. \/ r = [ok |-> TRUE, content |-> d]
            \/ r = [ok |-> FALSE, content |-> c]
        BY <1>4, <2>2, <3>1 DEF Results
      <3>3. CASE r = [ok |-> TRUE, content |-> d]
        <4>1. r.ok /\ r.content = d
          BY <3>3
        <4> QED BY <1>4, <2>2, <3>1, <4>1
      <3>4. CASE r = [ok |-> FALSE, content |-> c]
        <4>1. ~r.ok /\ r.content = c
          BY <3>4
        <4> QED BY <4>1
      <3> QED BY <3>2, <3>3, <3>4
    <2> QED BY <2>1, <2>2
  <1> QED BY <1>1, <1>2, <1>3, <1>4

LEMMA ResultKept ==
  ASSUME Typed, NEW line \in Lines, line.kind \notin {"comment", "warning", "drop"},
         NEW c \in Database, Kept(c), NEW r \in Results(line, c)
  PROVE  r.content \in Database /\ Kept(r.content)
         /\ (~r.ok => r.content = c)
  <1>1. /\ line.rows \subseteq Rows
        /\ line.kind \in {"create", "insert"} => line.table \in Names
    BY LineFacts
  <1>2. \A rows \in SUBSET Rows : rows # Missing
    BY ScriptAssumption
  <1>3. CASE ~r.ok /\ r.content = c
    BY <1>3
  <1>4. CASE r.ok /\ r.content = c
    BY <1>4
  <1>5. CASE /\ r.ok /\ line.kind = "create" /\ c[line.table] = Missing
             /\ r.content = [c EXCEPT ![line.table] = {}]
    <2>1. r.content \in Database
      BY <1>1, <1>5 DEF Database
    <2>2. Kept(r.content)
      BY <1>1, <1>5 DEF Database, Kept
    <2> QED BY <1>5, <2>1, <2>2
  <1>6. CASE /\ r.ok /\ line.kind = "insert" /\ c[line.table] # Missing
             /\ r.content = [c EXCEPT ![line.table] = @ \cup line.rows]
    <2>1. c[line.table] \in SUBSET Rows /\ line.table \in Names
      BY <1>1, <1>6 DEF Database
    <2>2. c[line.table] \cup line.rows \in SUBSET Rows
      BY <1>1, <2>1
    <2>3. r.content \in Database
      BY <1>6, <2>1, <2>2 DEF Database
    <2>4. Kept(r.content)
      <3> SUFFICES ASSUME NEW t \in Names, before[t] # Missing
                   PROVE  r.content[t] # Missing /\ before[t] \subseteq r.content[t]
        BY DEF Kept
      <3>1. CASE t = line.table
        <4>1. r.content[t] = c[t] \cup line.rows
          BY <1>6, <3>1 DEF Database
        <4> QED BY <1>2, <2>2, <3>1, <4>1 DEF Kept
      <3>2. CASE t # line.table
        BY <1>6, <3>2 DEF Database, Kept
      <3> QED BY <3>1, <3>2
    <2> QED BY <1>6, <2>3, <2>4
  <1>7. Outcome(line, c, r)
    BY ResultFacts, Zenon
  <1> QED BY <1>3, <1>4, <1>5, <1>6, <1>7 DEF Outcome

LEMMA SentBuilt ==
  ASSUME TextInv, Even(text), NEW n \in Nat, n + 1 \in 1 .. Len(All),
         NEW line \in Lines, Head(All[n + 1]) = line,
         line.kind \notin {"comment", "warning", "drop"},
         NEW c \in Database, Built(n, c), NEW r \in Results(line, c), r.ok
  PROVE  Built(n + 1, r.content)
  <1>1. /\ Created(n + 1) = Created(n) \cup (IF line.kind = "create" THEN {line.table} ELSE {})
        /\ \A t : Written(n + 1, t) = Written(n, t) \cup (IF line.table = t THEN line.rows ELSE {})
    BY OneMore
  <1>2. /\ line.kind # "insert" => line.rows = {}
        /\ line.kind \in {"create", "insert"} => line.table \in Names
    BY LineFacts
  <1>3. n \in 0 .. Len(All) /\ (n + 1) - 1 = n
    <2>1. Len(All) \in Nat
      <3>1. PICK at : Begins(text, All, at)
        BY Statements DEF TextInv, All
      <3> QED BY <3>1 DEF Begins
    <2> QED BY <2>1
  <1>4. CASE r.content = c /\ line.kind \in {"set", "start", "commit"}
    <2>1. Created(n + 1) = Created(n)
      BY <1>1, <1>4
    <2>2. ASSUME NEW t PROVE Written(n + 1, t) = Written(n, t)
      <3>1. (IF line.table = t THEN line.rows ELSE {}) = {}
        BY <1>2, <1>4
      <3> QED BY <1>1, <3>1
    <2> QED BY <1>4, <2>1, <2>2 DEF Built
  <1>5. CASE /\ line.kind = "create" /\ c[line.table] = Missing
             /\ r.content = [c EXCEPT ![line.table] = {}]
    <2>1. line.table \in Names
      BY <1>2, <1>5
    <2>2. line.table \notin Created(n)
      <3>1. Written(n, line.table) # Missing
        BY <1>3, WrittenRows, ScriptAssumption
      <3> QED BY <1>5, <2>1, <3>1 DEF Built
    <2>3. Written(n, line.table) = {}
      BY <1>3, <2>2, NothingBefore
    <2>4. ASSUME NEW t \in Names
          PROVE  r.content[t] = IF t \in Created(n + 1) THEN Written(n + 1, t) ELSE before[t]
      <3>1. CASE t = line.table
        <4>1. r.content[t] = {}
          BY <1>5, <3>1 DEF Database
        <4>2. t \in Created(n + 1) /\ Written(n + 1, t) = {}
          BY <1>1, <1>2, <1>5, <2>3, <3>1
        <4> QED BY <4>1, <4>2
      <3>2. CASE t # line.table
        <4>1. r.content[t] = c[t]
          BY <1>5, <3>2 DEF Database
        <4>2. (t \in Created(n + 1) <=> t \in Created(n)) /\ Written(n + 1, t) = Written(n, t)
          <5>1. (IF line.table = t THEN line.rows ELSE {}) = {}
            BY <3>2
          <5>2. Written(n + 1, t) = Written(n, t)
            BY <1>1, <5>1
          <5> QED BY <1>1, <1>5, <3>2, <5>2
        <4> QED BY <4>1, <4>2 DEF Built
      <3> QED BY <3>1, <3>2
    <2> QED BY <2>4 DEF Built
  <1>6. CASE /\ line.kind = "insert" /\ c[line.table] # Missing
             /\ r.content = [c EXCEPT ![line.table] = @ \cup line.rows]
    <2>1. line.table \in Names
      BY <1>2, <1>6
    <2>2. Head(All[n + 1]).kind = "insert"
      BY <1>6
    <2>3. line.table \in Created(n)
      <3>1. Head(All[n + 1]).table \in Created((n + 1) - 1)
        BY <2>2, CreatedFirst
      <3> QED BY <1>3, <3>1
    <2>4. Created(n + 1) = Created(n)
      BY <1>1, <1>6
    <2>5. ASSUME NEW t \in Names
          PROVE  r.content[t] = IF t \in Created(n + 1) THEN Written(n + 1, t) ELSE before[t]
      <3>1. CASE t = line.table
        <4>1. r.content[t] = c[t] \cup line.rows
          BY <1>6, <3>1 DEF Database
        <4>2. c[t] = Written(n, t)
          BY <2>3, <3>1 DEF Built
        <4>3. Written(n + 1, t) = Written(n, t) \cup line.rows
          BY <1>1, <3>1
        <4> QED BY <2>3, <2>4, <3>1, <4>1, <4>2, <4>3
      <3>2. CASE t # line.table
        <4>1. r.content[t] = c[t]
          BY <1>6, <3>2 DEF Database
        <4>2. Written(n + 1, t) = Written(n, t)
          BY <1>1, <3>2
        <4> QED BY <2>4, <4>1, <4>2 DEF Built
      <3> QED BY <3>1, <3>2
    <2> QED BY <2>5 DEF Built
  <1>7. Outcome(line, c, r)
    BY ResultFacts, Zenon
  <1> QED BY <1>4, <1>5, <1>6, <1>7 DEF Outcome

(* START TRANSACTION comes before the first CREATE TABLE.                  *)
LEMMA StartsFirst ==
  ASSUME TextInv, NEW n \in Nat, n + 1 \in 1 .. Len(All), Head(All[n + 1]).kind = "start"
  PROVE  Created(n) = {}
  <1>1. PICK at : Begins(text, All, at)
    BY Statements DEF TextInv, All
  <1>2. at[n + 1] \in DOMAIN text /\ Head(All[n + 1]) = text[at[n + 1]]
    BY <1>1, AllFacts
  <1>3. ASSUME NEW i \in 1 .. n, Head(All[i]).kind = "create" PROVE FALSE
    <2>1. i \in 1 .. Len(All) /\ i < n + 1
      <3>1. Len(All) \in Nat
        BY <1>1 DEF Begins
      <3> QED BY <3>1
    <2>2. at[i] \in DOMAIN text /\ Head(All[i]) = text[at[i]]
      BY <1>1, <2>1, AllFacts
    <2>3. at[i] < at[n + 1]
      BY <1>1, <2>1 DEF Begins
    <2> QED BY <1>2, <1>3, <2>2, <2>3 DEF TextInv, Started
  <1> QED BY <1>3 DEF Created

-----------------------------------------------------------------------------
(* The steps.                                                              *)

LEMMA TextStays ==
  ASSUME UNCHANGED <<text, before>>
  PROVE  /\ All' = All /\ (Even(text))' = Even(text) /\ Unbalanced' = Unbalanced
         /\ \A n : Created(n)' = Created(n)
         /\ \A n, t : Written(n, t)' = Written(n, t)
         /\ Archived' = Archived /\ \A t : ArchivedRows(t)' = ArchivedRows(t)
  <1>1. All' = All
    BY DEF All
  <1>2. (Even(text))' = Even(text) /\ Unbalanced' = Unbalanced
    BY DEF Even, Unbalanced, Warnings
  <1>3. \A n : Created(n)' = Created(n)
    BY <1>1 DEF Created
  <1>4. \A n, t : Written(n, t)' = Written(n, t)
    BY <1>1 DEF Written
  <1>5. Archived' = Archived /\ \A t : ArchivedRows(t)' = ArchivedRows(t)
    BY DEF Archived, ArchivedRows
  <1> QED BY <1>1, <1>2, <1>3, <1>4, <1>5

LEMMA LeavesPrefix ==
  ASSUME UNCHANGED <<text, before>>, Even(text) => Prefix(db')
  PROVE  FailureLeavesPrefix'
  <1>1. Unbalanced' = Unbalanced /\ Archived' = Archived
        /\ \A t : ArchivedRows(t)' = ArchivedRows(t)
    BY TextStays
  <1>2. SUFFICES ASSUME ~Unbalanced PROVE FailureLeavesPrefix'
    BY <1>1 DEF FailureLeavesPrefix
  <1>3. Prefix(db')
    BY <1>2, EvenText
  <1> QED BY <1>1, <1>3 DEF FailureLeavesPrefix, Prefix

LEMMA NextStatement ==
  ASSUME TextInv, NEW n \in Nat, Left(n), stmts # <<>>
  PROVE  /\ n + 1 \in 1 .. Len(All) /\ Head(stmts) = All[n + 1]
         /\ Head(All[n + 1]) \in Lines /\ Head(All[n + 1]).kind # "drop"
         /\ Tail(stmts) \in Seq(Seq(Lines)) /\ Len(Tail(stmts)) = Len(All) - (n + 1)
         /\ \A i \in 1 .. Len(Tail(stmts)) : Tail(stmts)[i] = All[(n + 1) + i]
  <1>1. PICK at : Begins(text, All, at)
    BY Statements DEF TextInv, All
  <1>2. Len(All) \in Nat
    BY <1>1 DEF Begins
  <1>3. PICK s : s = stmts
    OBVIOUS
  <1>4. s \in Seq(Seq(Lines)) /\ s # <<>> /\ Len(s) = Len(All) - n
    BY <1>3 DEF Left
  <1>5. Len(s) \in Nat \ {0} /\ Head(s) = s[1] /\ Tail(s) \in Seq(Seq(Lines))
        /\ Len(Tail(s)) = Len(s) - 1 /\ \A i \in 1 .. Len(s) - 1 : Tail(s)[i] = s[i + 1]
    BY <1>4
  <1>6. n + 1 \in 1 .. Len(All) /\ Len(Tail(s)) = Len(All) - (n + 1)
    BY <1>2, <1>4, <1>5
  <1>7. \A i \in 1 .. Len(s) : s[i] = All[n + i]
    BY <1>3 DEF Left
  <1>8. ASSUME NEW i \in 1 .. Len(Tail(s)) PROVE Tail(s)[i] = All[(n + 1) + i]
    <2>1. i \in 1 .. Len(s) - 1 /\ i + 1 \in 1 .. Len(s) /\ n + (i + 1) = (n + 1) + i
      BY <1>5
    <2> QED BY <1>5, <1>7, <2>1
  <1>9. s[1] = All[n + 1]
    BY <1>5, <1>7
  <1>10. Head(All[n + 1]) \in Lines /\ Head(All[n + 1]).kind # "drop"
    BY <1>1, <1>6, AllFacts
  <1> QED BY <1>3, <1>5, <1>6, <1>8, <1>9, <1>10

LEMMA ExecRestores ==
  ASSUME RestoreInv, ExecStatement
  PROVE  RestoreInv'
  <1>1. PICK n \in Nat : Restoring(n)
    BY DEF RestoreInv, ExecStatement
  <1>2. TextInv /\ Left(n) /\ stmts # <<>>
    BY <1>1 DEF RestoreInv, ExecStatement, Restoring
  <1>3. /\ n + 1 \in 1 .. Len(All) /\ Head(stmts) = All[n + 1]
        /\ Head(All[n + 1]) \in Lines /\ Head(All[n + 1]).kind # "drop"
        /\ Tail(stmts) \in Seq(Seq(Lines)) /\ Len(Tail(stmts)) = Len(All) - (n + 1)
        /\ \A i \in 1 .. Len(Tail(stmts)) : Tail(stmts)[i] = All[(n + 1) + i]
    BY <1>2, NextStatement
  <1>4. PICK line \in Lines : line = Head(All[n + 1])
    BY <1>3
  <1>5. Typed /\ Kept(db) /\ Kept(tx) /\ phase = "exec" /\ db \in Database /\ tx \in Database
    BY DEF RestoreInv, ExecStatement, Typed
  <1>6. UNCHANGED <<text, next, before>>
    BY DEF ExecStatement
  <1>7. /\ All' = All /\ (Even(text))' = Even(text) /\ Unbalanced' = Unbalanced
        /\ \A k : Created(k)' = Created(k)
        /\ \A k, t : Written(k, t)' = Written(k, t)
        /\ Archived' = Archived /\ \A t : ArchivedRows(t)' = ArchivedRows(t)
    BY <1>6, TextStays
  <1>8. TextInv'
    <2>1. text' = text /\ next' = next
      BY <1>6
    <2> QED BY <1>2, <2>1 DEF TextInv
  <1>9. stmts' = Tail(stmts) => Left(n + 1)'
    BY <1>3, <1>7 DEF Left
  <1>10. Even(text) => db = tx /\ Built(n, tx) /\ (inTx => Created(n) = {})
    BY <1>1 DEF Restoring
  <1>11. /\ Created(n + 1) = Created(n) \cup (IF line.kind = "create" THEN {line.table} ELSE {})
         /\ \A t : Written(n + 1, t) = Written(n, t) \cup (IF line.table = t THEN line.rows ELSE {})
    BY <1>4, OneMore
  <1>12. CASE line.kind \in {"comment", "warning"}
    <2>1. UNCHANGED <<phase, db, tx, inTx>> /\ stmts' = Tail(stmts)
      BY <1>3, <1>4, <1>12 DEF ExecStatement, Skipped
    <2>2. Created(n + 1) = Created(n)
      BY <1>11, <1>12
    <2>3. ASSUME NEW t PROVE Written(n + 1, t) = Written(n, t)
      <3>1. (IF line.table = t THEN line.rows ELSE {}) = {}
        BY <1>12, LineFacts
      <3> QED BY <1>11, <3>1
    <2>4. Restoring(n + 1)'
      <3>1. Even(text) => Built(n + 1, tx)
        BY <1>10, <2>2, <2>3 DEF Built
      <3>2. Even(text) => Built(n + 1, tx)'
        BY <1>6, <1>7, <2>1, <3>1 DEF Built
      <3> QED BY <1>7, <1>9, <1>10, <2>1, <2>2, <3>2 DEF Restoring
    <2>5. Typed' /\ (Kept(db) /\ Kept(tx))' /\ phase' = "exec"
      BY <1>5, <1>6, <2>1 DEF Typed, Kept
    <2>6. n + 1 \in Nat
      OBVIOUS
    <2> QED BY <1>8, <2>4, <2>5, <2>6 DEF RestoreInv, RestoreFaithful, FailureLeavesPrefix
  <1>13. CASE line.kind \notin {"comment", "warning"}
    <2>1. PICK r \in Results(line, tx) :
            IF r.ok THEN Executed(line, r.content) /\ stmts' = Tail(stmts) /\ phase' = phase
                    ELSE RolledBack(line) /\ stmts' = <<>> /\ phase' = "failed"
      BY <1>3, <1>4, <1>13 DEF ExecStatement, Skipped
    <2>2. line.kind \notin {"comment", "warning", "drop"}
      BY <1>3, <1>4, <1>13
    <2>3. r.content \in Database /\ Kept(r.content)
          /\ (~r.ok => r.content = tx)
      BY <1>5, <2>2, ResultKept
    <2>4. CASE r.ok
      <3>1. /\ tx' = r.content
            /\ inTx' = IF EndsTx(line) THEN line.kind = "start" ELSE inTx
            /\ db' = IF inTx /\ ~EndsTx(line) THEN db ELSE r.content
            /\ stmts' = Tail(stmts) /\ phase' = "exec"
        BY <1>5, <2>1, <2>4 DEF Executed
      <3>2. Typed'
        BY <1>5, <1>6, <2>3, <3>1 DEF Typed, EndsTx
      <3>3. (Kept(db) /\ Kept(tx))'
        <4>1. Kept(db') /\ Kept(tx')
          BY <1>5, <2>3, <3>1
        <4> QED BY <1>6, <4>1 DEF Kept
      <3>4. Even(text) => db' = tx' /\ Built(n + 1, tx') /\ (inTx' => Created(n + 1) = {})
        <4> SUFFICES ASSUME Even(text)
                     PROVE  db' = tx' /\ Built(n + 1, tx') /\ (inTx' => Created(n + 1) = {})
          OBVIOUS
        <4>1. Built(n, tx) /\ Head(All[n + 1]) = line
          BY <1>4, <1>10
        <4>2. Built(n + 1, r.content)
          BY <1>2, <1>3, <1>5, <2>2, <2>4, <4>1, SentBuilt
        <4>3. line.kind = "insert" => ~inTx
          <5> SUFFICES ASSUME line.kind = "insert" PROVE ~inTx
            OBVIOUS
          <5>1. Head(All[n + 1]).kind = "insert"
            BY <1>4
          <5>2. Head(All[n + 1]).table \in Created((n + 1) - 1)
            BY <1>2, <1>3, <5>1, CreatedFirst
          <5>3. (n + 1) - 1 = n
            OBVIOUS
          <5> QED BY <1>10, <5>2, <5>3
        <4>4. line.kind = "set" => r.content = tx
          BY <2>3, <1>5, <2>2, ResultFacts DEF Outcome
        <4>5. line.kind \in {"set", "start", "commit", "create", "insert"}
          BY <2>2, LineFacts
        <4>6. db' = tx'
          BY <1>10, <3>1, <4>3, <4>4, <4>5 DEF EndsTx
        <4>7. inTx' => Created(n + 1) = {}
          <5>1. CASE line.kind = "start"
            <6>1. Head(All[n + 1]).kind = "start"
              BY <1>4, <5>1
            <6>2. Created(n) = {}
              BY <1>2, <1>3, <6>1, StartsFirst
            <6> QED BY <1>11, <5>1, <6>2
          <5>2. CASE line.kind = "set"
            BY <1>10, <1>11, <3>1, <5>2 DEF EndsTx
          <5>3. CASE line.kind \in {"commit", "create", "insert"}
            BY <3>1, <4>3, <5>3 DEF EndsTx
          <5> QED BY <4>5, <5>1, <5>2, <5>3
        <4> QED BY <3>1, <4>2, <4>6, <4>7
      <3>5. Restoring(n + 1)'
        <4>1. Built(n + 1, tx') => Built(n + 1, tx)'
          BY <1>6, <1>7 DEF Built
        <4> QED BY <1>7, <1>9, <3>1, <3>4, <4>1 DEF Restoring
      <3>6. n + 1 \in Nat
        OBVIOUS
      <3> QED BY <1>8, <3>1, <3>2, <3>3, <3>5, <3>6
            DEF RestoreInv, RestoreFaithful, FailureLeavesPrefix
    <2>5. CASE ~r.ok
      <3>1. /\ db' = IF EndsTx(line) THEN tx ELSE db
            /\ tx' = db' /\ inTx' = FALSE /\ phase' = "failed"
        BY <2>1, <2>5 DEF RolledBack
      <3>2. Typed'
        BY <1>5, <1>6, <3>1 DEF Typed
      <3>3. (Kept(db) /\ Kept(tx))'
        <4>1. Kept(db') /\ Kept(tx')
          BY <1>5, <3>1
        <4> QED BY <1>6, <4>1 DEF Kept
      <3>4. Even(text) => Prefix(db')
        <4> SUFFICES ASSUME Even(text) PROVE Prefix(db')
          OBVIOUS
        <4>1. db' = tx /\ Built(n, tx) /\ n \in 0 .. Len(All)
          BY <1>2, <1>10, <3>1 DEF Left
        <4>2. Prefix(tx)
          BY <1>2, <4>1, BuiltPrefix
        <4> QED BY <4>1, <4>2
      <3>5. FailureLeavesPrefix'
        BY <1>6, <3>4, LeavesPrefix
      <3> QED BY <1>8, <3>1, <3>2, <3>3, <3>5 DEF RestoreInv, RestoreFaithful
    <2> QED BY <2>4, <2>5
  <1> QED BY <1>12, <1>13


LEMMA SameText ==
  ASSUME TextInv, UNCHANGED <<text, next>>
  PROVE  TextInv'
  BY DEF TextInv

LEMMA InitRestores == ASSUME Init PROVE RestoreInv
  <1>1. TextInv
    BY InitText
  <1> QED BY <1>1 DEF Init, RestoreInv, Typed, RestoreFaithful, FailureLeavesPrefix

LEMMA DumpRestores == ASSUME RestoreInv, DumpTable \/ FinishDump PROVE RestoreInv'
  <1>1. phase' \in {"dump", "idle"} /\ UNCHANGED <<db, tx, inTx, before>>
    BY DEF RestoreInv, Typed, DumpTable, FinishDump
  <1>2. TextInv'
    BY DumpTableText, FinishDumpText DEF RestoreInv, Typed
  <1> QED BY <1>1, <1>2 DEF RestoreInv, Typed, RestoreFaithful, FailureLeavesPrefix

LEMMA ChangeRestores == ASSUME RestoreInv, Change PROVE RestoreInv'
  <1>1. TextInv /\ UNCHANGED <<text, next>>
    BY DEF RestoreInv, Change
  <1>2. TextInv'
    BY <1>1, SameText
  <1>3. db' \in Database
    BY DEF RestoreInv, Typed, Change, Database
  <1> QED BY <1>2, <1>3
        DEF RestoreInv, Change, Typed, RestoreFaithful, FailureLeavesPrefix

LEMMA BeginRestores == ASSUME RestoreInv, BeginRestore PROVE RestoreInv'
  <1>1. TextInv /\ UNCHANGED <<text, next>> /\ Typed
    BY DEF RestoreInv, BeginRestore
  <1>2. TextInv'
    BY <1>1, SameText
  <1>3. /\ phase' = "exec" /\ stmts' = All
        /\ db' = db /\ tx' = db /\ before' = db /\ inTx' = TRUE
    BY DEF BeginRestore, All
  <1>4. All' = All
    BY <1>1 DEF All
  <1>5. All \in Seq(Seq(Lines)) /\ Len(All) \in Nat
    <2>1. PICK at : Begins(text, All, at)
      BY <1>1, Statements DEF TextInv, All
    <2> QED BY <2>1 DEF Begins
  <1>6. Left(0)'
    <2>1. \A i \in 1 .. Len(All) : 0 + i = i
      BY <1>5
    <2> QED BY <1>3, <1>4, <1>5, <2>1 DEF Left
  <1>7. Created(0)' = {}
    BY DEF Created
  <1>8. Built(0, tx)'
    BY <1>3, <1>7 DEF Built
  <1>9. Restoring(0)'
    BY <1>3, <1>6, <1>7, <1>8 DEF Restoring
  <1>10. Typed' /\ (Kept(db) /\ Kept(tx))'
    BY <1>1, <1>3 DEF Typed, Kept
  <1> QED BY <1>2, <1>3, <1>9, <1>10 DEF RestoreInv, RestoreFaithful, FailureLeavesPrefix

LEMMA CommitRestores == ASSUME RestoreInv, CommitRestore PROVE RestoreInv'
  <1>1. /\ TextInv /\ Typed /\ Kept(tx) /\ phase' = "ok" /\ stmts = <<>>
        /\ UNCHANGED <<text, next, before, tx>> /\ db' = tx /\ inTx' = FALSE
    BY DEF RestoreInv, CommitRestore
  <1>2. TextInv'
    BY <1>1, SameText
  <1>3. PICK n \in Nat : Restoring(n)
    BY DEF RestoreInv, CommitRestore
  <1>4. n = Len(All)
    <2>1. n \in 0 .. Len(All) /\ Len(All) - n = 0
      BY <1>1, <1>3 DEF Restoring, Left
    <2>2. Len(All) \in Nat
      <3>1. PICK at : Begins(text, All, at)
        BY <1>1, Statements DEF TextInv, All
      <3> QED BY <3>1 DEF Begins
    <2> QED BY <2>1, <2>2
  <1>5. Typed' /\ (Kept(db) /\ Kept(tx))'
    <2>1. Kept(tx)'
      BY <1>1 DEF Kept
    <2>2. Kept(db)'
      BY <1>1 DEF Kept
    <2> QED BY <1>1, <2>1, <2>2 DEF Typed
  <1>6. RestoreFaithful'
    <2>1. /\ Unbalanced' = Unbalanced /\ Archived' = Archived
          /\ \A t : ArchivedRows(t)' = ArchivedRows(t)
      BY <1>1, TextStays
    <2> SUFFICES ASSUME ~Unbalanced, NEW t \in Names
                 PROVE  tx[t] = IF t \in Archived THEN ArchivedRows(t) ELSE before[t]
      BY <1>1, <2>1 DEF RestoreFaithful
    <2>2. Even(text)
      BY EvenText
    <2>3. Built(Len(All), tx)
      BY <1>3, <1>4, <2>2 DEF Restoring
    <2> QED BY <1>1, <2>2, <2>3, BuiltAll
  <1> QED BY <1>1, <1>2, <1>5, <1>6 DEF RestoreInv, FailureLeavesPrefix

LEMMA BreakRestores == ASSUME RestoreInv, BreakRestore PROVE RestoreInv'
  <1>1. /\ TextInv /\ Typed /\ Kept(db) /\ phase' = "failed"
        /\ UNCHANGED <<text, next, before, db>> /\ tx' = db /\ inTx' = FALSE
    BY DEF RestoreInv, BreakRestore
  <1>2. TextInv'
    BY <1>1, SameText
  <1>3. PICK n \in Nat : Restoring(n)
    BY DEF RestoreInv, BreakRestore
  <1>4. Typed' /\ (Kept(db) /\ Kept(tx))'
    <2>1. Kept(db)' /\ Kept(tx)'
      BY <1>1 DEF Kept
    <2> QED BY <1>1, <2>1 DEF Typed
  <1>5. Even(text) => Prefix(db')
    <2> SUFFICES ASSUME Even(text) PROVE Prefix(db')
      OBVIOUS
    <2>1. db = tx /\ Built(n, db) /\ n \in 0 .. Len(All)
      BY <1>3 DEF Restoring, Left
    <2>2. Prefix(db)
      BY <1>1, <2>1, BuiltPrefix
    <2> QED BY <1>1, <2>2
  <1>6. FailureLeavesPrefix'
    BY <1>1, <1>5, LeavesPrefix
  <1> QED BY <1>1, <1>2, <1>4, <1>6 DEF RestoreInv, RestoreFaithful

LEMMA StutterRestores == ASSUME RestoreInv, UNCHANGED vars PROVE RestoreInv'
  <1>1. UNCHANGED <<phase, db, tx, inTx, text, next, stmts, before>>
    BY DEF vars
  <1>2. /\ All' = All /\ (Even(text))' = Even(text) /\ Unbalanced' = Unbalanced
        /\ \A n : Created(n)' = Created(n)
        /\ \A n, t : Written(n, t)' = Written(n, t)
        /\ Archived' = Archived /\ \A t : ArchivedRows(t)' = ArchivedRows(t)
    BY <1>1, TextStays
  <1>3. TextInv'
    BY <1>1, SameText DEF RestoreInv
  <1>4. ASSUME NEW n, Restoring(n) PROVE Restoring(n)'
    <2>1. Left(n)'
      BY <1>1, <1>2, <1>4 DEF Restoring, Left
    <2>2. Built(n, tx) => Built(n, tx)'
      BY <1>1, <1>2 DEF Built
    <2> QED BY <1>1, <1>2, <1>4, <2>1, <2>2 DEF Restoring
  <1>5. phase' = "exec" => \E n \in Nat : Restoring(n)'
    BY <1>1, <1>4 DEF RestoreInv
  <1>6. (phase \in {"exec", "ok", "failed"} => Kept(db) /\ Kept(tx))'
    BY <1>1 DEF RestoreInv, Kept
  <1>7. RestoreFaithful' /\ FailureLeavesPrefix'
    <2>1. RestoreFaithful'
      BY <1>1, <1>2 DEF RestoreInv, RestoreFaithful
    <2>2. CASE phase = "failed"
      <3>1. Even(text) => Prefix(db')
        BY <1>1, <2>2, EvenText DEF RestoreInv, FailureLeavesPrefix, Prefix
      <3> QED BY <1>1, <2>1, <3>1, LeavesPrefix
    <2>3. CASE phase # "failed"
      BY <1>1, <2>1, <2>3 DEF FailureLeavesPrefix
    <2> QED BY <2>2, <2>3
  <1>8. Typed'
    BY <1>1 DEF RestoreInv, Typed
  <1> QED BY <1>3, <1>5, <1>6, <1>7, <1>8 DEF RestoreInv

LEMMA RestoreInvariant == Spec => []RestoreInv
  <1>1. Init => RestoreInv
    BY InitRestores
  <1>2. RestoreInv /\ [Next]_vars => RestoreInv'
    <2> SUFFICES ASSUME RestoreInv, [Next]_vars PROVE RestoreInv'
      OBVIOUS
    <2> QED BY DumpRestores, ChangeRestores, BeginRestores, ExecRestores, CommitRestores,
               BreakRestores, StutterRestores DEF Next
  <1> QED BY <1>1, <1>2, PTL DEF Spec

-----------------------------------------------------------------------------
(* What a restore does, for every set of tables and rows, every page size   *)
(* and every number of failures.                                            *)

(* RestoreFaithful: a restore that reports success, from a dump whose       *)
(* warnings leave the quotes balanced, has brought back every table of the  *)
(* dump with exactly its rows (parseSqlStatements, restoreBackup).          *)
THEOREM RestoresAreFaithful == Spec => []RestoreFaithful
  BY RestoreInvariant, PTL DEF RestoreInv

(* NothingRemoved: no restore, whatever becomes of it, removes a row or a   *)
(* table; every DROP TABLE of the dump is part of a statement that begins   *)
(* with a comment, balanced quotes or not (generateSqlDump,                 *)
(* parseSqlStatements).                                                     *)
THEOREM RestoresRemoveNothing == Spec => []NothingRemoved
  <1>1. RestoreInv => NothingRemoved
    BY DEF RestoreInv, NothingRemoved, Kept
  <1> QED BY <1>1, RestoreInvariant, PTL

(* FailureLeavesPrefix: a restore that failed has left the tables of the    *)
(* dump up to the one it failed at, that one with its first pages or as it  *)
(* was, and the others as they were (restoreBackup).                        *)
THEOREM FailuresLeaveAPrefix == Spec => []FailureLeavesPrefix
  BY RestoreInvariant, PTL DEF RestoreInv
===============================================================================
