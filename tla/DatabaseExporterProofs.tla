------------------------ MODULE DatabaseExporterProofs ------------------------
(***************************************************************************)
(* Theorems about DatabaseExporter for any databases, values and numbers   *)
(* of dumps and writers: type correctness, that the COMMIT of the file     *)
(* comes last, whatever fails, and what the file restores: everything or   *)
(* nothing, the tables as they were at ordered instants, the whole         *)
(* database if nobody wrote.                                               *)
(***************************************************************************)
EXTENDS DatabaseExporter, Induction

-----------------------------------------------------------------------------
(* Lines *)

NoCommit(lines) == \A i \in DOMAIN lines : lines[i].op # "commit"

\* A value becomes NULL or a text between quotes.
LEMMA LiteralType ==
    ASSUME NEW v \in Values
    PROVE  Literal(v) \in Literals
  <1>1. Printed[v] \in Texts \cup {Null} /\ EmptyText \in Texts
    BY PrintedAssumption, TextsAssumption
  <1>2. String(v) \in Texts
    BY <1>1 DEF String
  <1> QED
    BY <1>1, <1>2 DEF Literal, NullLiteral, QuotedLiteral, Literals

\* A row becomes an INSERT.
LEMMA InsertLineType ==
    ASSUME NEW name \in Names, NEW row \in Row
    PROVE  InsertLine(name, row) \in Line
  <1> DEFINE values == [i \in DOMAIN row |-> Literal(row[i])]
  <1>1. row \in Seq(Values)
    BY DEF Row
  <1>2. \A i \in DOMAIN row : Literal(row[i]) \in Literals
    BY <1>1, LiteralType
  <1>3. values \in Seq(Literals)
    BY <1>1, <1>2
  <1> HIDE DEF values
  <1>4. [op |-> "insert", name |-> name, literals |-> values] \in Line
    BY <1>3 DEF Line
  <1> QED
    BY <1>4 DEF InsertLine, values

\* What dump writes for a table are lines without a COMMIT.
LEMMA TableLinesType ==
    ASSUME NEW table \in ListEntry, NEW rows \in Seq(Row)
    PROVE  TableLines(table, rows) \in Seq(Line) /\ NoCommit(TableLines(table, rows))
  <1> DEFINE inserts == [i \in DOMAIN rows |-> InsertLine(table.name, rows[i])]
             create == CreateLine(table)
  <1>1. table.name \in Names /\ table.columns \in Seq(Column)
    BY DEF ListEntry
  <1>2. create \in Line /\ create.op = "create"
    BY <1>1 DEF CreateLine, Line
  <1>3. \A i \in DOMAIN rows : inserts[i] \in Line /\ inserts[i].op = "insert"
    <2>1. ASSUME NEW i \in DOMAIN rows
          PROVE  InsertLine(table.name, rows[i]) \in Line
      BY <1>1, InsertLineType
    <2>2. ASSUME NEW i \in DOMAIN rows
          PROVE  InsertLine(table.name, rows[i]).op = "insert"
      BY DEF InsertLine
    <2> QED
      BY <2>1, <2>2
  <1>4. inserts \in Seq(Line) /\ DOMAIN inserts = DOMAIN rows
    BY <1>3
  <1> HIDE DEF inserts, create
  <1>5. TableLines(table, rows) = <<create>> \o inserts
    BY DEF TableLines, InsertLines, inserts, create
  <1>6. <<create>> \o inserts \in Seq(Line) /\ NoCommit(<<create>> \o inserts)
    BY <1>2, <1>3, <1>4 DEF NoCommit
  <1> QED
    BY <1>5, <1>6

\* The triggers are lines without a COMMIT.
LEMMA TriggerLinesType ==
    ASSUME db \in Database
    PROVE  TriggerLines \in Seq(Line) /\ NoCommit(TriggerLines)
  <1>1. db.triggers \in Seq(Trigger)
    BY DEF Database
  <1>2. \A i \in DOMAIN db.triggers : /\ TriggerLine(db.triggers[i]) \in Line
                                      /\ TriggerLine(db.triggers[i]).op = "trigger"
    BY <1>1 DEF TriggerLine, Line
  <1> QED
    BY <1>1, <1>2 DEF TriggerLines, NoCommit

\* One line after lines without a COMMIT: a COMMIT can only be the last line.
LEMMA CommitAppended ==
    ASSUME NEW lines \in Seq(Line), NEW line \in Line, NoCommit(lines)
    PROVE  /\ lines \o <<line>> \in Seq(Line)
           /\ \A i \in DOMAIN (lines \o <<line>>) :
                 (lines \o <<line>>)[i].op = "commit" => i = Len(lines \o <<line>>)
  <1>1. /\ lines \o <<line>> \in Seq(Line)
        /\ Len(lines \o <<line>>) = Len(lines) + 1
        /\ \A i \in 1..Len(lines) : (lines \o <<line>>)[i] = lines[i]
    OBVIOUS
  <1> QED
    BY <1>1 DEF NoCommit

\* PRAGMA and BEGIN are lines without a COMMIT.
LEMMA HeaderType == Header \in Seq(Line) /\ NoCommit(Header)
  <1>1. [op |-> "pragma"] \in Line /\ [op |-> "begin"] \in Line
    BY DEF Line
  <1> QED
    BY <1>1 DEF Header, NoCommit

\* The table a SELECT reads has rows.
LEMMA SelectedRows ==
    ASSUME db \in Database, NEW name \in Names, CanSelect(name)
    PROVE  TableNamed(db, name).rows \in Seq(Row)
  <1>1. db.tables \in Seq(Table)
    BY DEF Database
  <1>2. PICK i \in DOMAIN db.tables : db.tables[i].name = name
    BY DEF CanSelect, HasTable
  <1>3. TableNamed(db, name) \in Table
    BY <1>1, <1>2 DEF TableNamed
  <1> QED
    BY <1>3 DEF Table

-----------------------------------------------------------------------------
(* Output *)

\* A stream that has failed takes nothing.
LEMMA WriteFailed ==
    ASSUME NEW content \in Seq(Line), NEW lines \in Seq(Line), Write(content, FALSE, lines)
    PROVE  file' = content /\ good' = FALSE
  <1>1. PICK n \in 0..Len(lines) : /\ n > 0 => FALSE
                                   /\ file' = content \o SubSeq(lines, 1, n)
                                   /\ good' = (FALSE /\ n = Len(lines))
    BY DEF Write
  <1>2. n = 0 /\ SubSeq(lines, 1, n) = <<>>
    BY <1>1
  <1>3. content \o <<>> = content
    OBVIOUS
  <1> QED
    BY <1>1, <1>2, <1>3

\* The file stays a sequence of lines.
LEMMA WriteType ==
    ASSUME NEW content \in Seq(Line), NEW lines \in Seq(Line), NEW working \in BOOLEAN,
           Write(content, working, lines)
    PROVE  file' \in Seq(Line) /\ good' \in BOOLEAN
  <1>1. PICK n \in 0..Len(lines) : /\ file' = content \o SubSeq(lines, 1, n)
                                   /\ good' = (working /\ n = Len(lines))
    BY DEF Write
  <1>2. SubSeq(lines, 1, n) \in Seq(Line)
    OBVIOUS
  <1> QED
    BY <1>1, <1>2

\* Lines without a COMMIT leave the file without one.
LEMMA WriteNoCommit ==
    ASSUME NEW content \in Seq(Line), NEW lines \in Seq(Line), NEW working \in BOOLEAN,
           NoCommit(content), NoCommit(lines), Write(content, working, lines)
    PROVE  NoCommit(file')
  <1>1. PICK n \in 0..Len(lines) : file' = content \o SubSeq(lines, 1, n)
    BY DEF Write
  <1> DEFINE part == SubSeq(lines, 1, n)
  <1>2. part \in Seq(Line) /\ Len(part) = n /\ \A i \in 1..n : part[i] = lines[i]
    OBVIOUS
  <1>3. \A i \in DOMAIN part : part[i].op # "commit"
    BY <1>2 DEF NoCommit
  <1> HIDE DEF part
  <1>4. \A i \in DOMAIN (content \o part) : (content \o part)[i].op # "commit"
    BY <1>2, <1>3 DEF NoCommit
  <1> QED
    BY <1>1, <1>4 DEF NoCommit, part

-----------------------------------------------------------------------------
(* Type correctness *)

\* One step of dump or of another process keeps the types.
LEMMA TypeStep ==
    ASSUME TypeOK, [Next]_vars
    PROVE  TypeOK'
  <1> SUFFICES ASSUME Next PROVE TypeOK'
    BY DEF TypeOK, vars
  <1>1. CASE OpenDump
    <2>1. file' \in Seq(Line) /\ good' \in BOOLEAN
      <3>1. CASE Write(Opened, TRUE, Header)
        BY <3>1, HeaderType, WriteType, <<>> \in Seq(Line) DEF Opened
      <3>2. CASE Write(file, FALSE, Header)
        BY <3>2, HeaderType, WriteFailed DEF TypeOK
      <3> QED
        BY <1>1, <3>1, <3>2 DEF OpenDump
    <2>2. dumps' \in 0..MaxDumps
      BY <1>1, BoundsAssumption DEF OpenDump, TypeOK
    <2>3. inTx' \in BOOLEAN
      BY <1>1, BoundsAssumption DEF OpenDump
    <2>4. began' \in DOMAIN versions'
      BY <1>1 DEF OpenDump, TypeOK
    <2> QED
      BY <1>1, <2>1, <2>2, <2>3, <2>4 DEF OpenDump, TypeOK
  <1>2. CASE ListTables
    <2>1. db.tables \in Seq(Table)
      BY DEF TypeOK, Database
    <2>2. \A i \in DOMAIN db.tables :
             [name |-> db.tables[i].name, columns |-> db.tables[i].columns] \in ListEntry
      <3>1. ASSUME NEW i \in DOMAIN db.tables
            PROVE  db.tables[i].name \in Names /\ db.tables[i].columns \in Seq(Column)
        <4>1. db.tables[i] \in Table
          BY <2>1
        <4> QED
          BY <4>1 DEF Table
      <3> QED
        BY <3>1 DEF ListEntry
    <2>3. tables' \in Seq(ListEntry)
      <3> DEFINE entry(i) == [name |-> db.tables[i].name, columns |-> db.tables[i].columns]
      <3>1. DOMAIN db.tables = 1..Len(db.tables) /\ Len(db.tables) \in Nat
        BY <2>1
      <3>2. tables' = [i \in 1..Len(db.tables) |-> entry(i)]
        BY <1>2, <3>1 DEF ListTables
      <3>3. \A i \in 1..Len(db.tables) : entry(i) \in ListEntry
        BY <2>2, <3>1
      <3> HIDE DEF entry
      <3> QED
        BY <3>1, <3>2, <3>3
    <2>4. next' \in 1..Len(tables') + 1
      BY <1>2, <2>3 DEF ListTables, FirstTable
    <2> QED
      BY <1>2, <2>3, <2>4 DEF ListTables, TypeOK
  <1>3. CASE DumpTable
    <2>1. tables[next] \in ListEntry /\ tables[next].name \in Names
      <3>1. tables[next] \in ListEntry
        BY <1>3 DEF DumpTable, TypeOK
      <3> QED
        BY <3>1 DEF ListEntry
    <2>2. TableNamed(db, tables[next].name).rows \in Seq(Row)
      BY <1>3, <2>1, SelectedRows DEF DumpTable, TypeOK
    <2>3. file' \in Seq(Line) /\ good' \in BOOLEAN
      BY <1>3, <2>1, <2>2, TableLinesType, WriteType DEF DumpTable, TypeOK
    <2> QED
      BY <1>3, <2>3 DEF DumpTable, TypeOK
  <1>4. CASE FinishDump
    <2>1. TriggerLines \o Footer \in Seq(Line)
      <3>1. Footer \in Seq(Line)
        BY DEF Footer, Line
      <3> QED
        BY <3>1, TriggerLinesType DEF TypeOK
    <2>2. file' \in Seq(Line) /\ good' \in BOOLEAN
      BY <1>4, <2>1, WriteType DEF FinishDump, TypeOK
    <2> QED
      BY <1>4, <2>2 DEF FinishDump, TypeOK
  <1>5. CASE ThrowFromSelect
    <2>1. file' \in Seq(Line) /\ good' \in BOOLEAN
      <3>1. CASE UNCHANGED <<file, good>>
        BY <3>1 DEF TypeOK
      <3>2. CASE next <= Len(tables) /\ Write(file, good, <<CreateLine(tables[next])>>)
        <4>1. tables[next] \in ListEntry
          BY <3>2 DEF TypeOK
        <4>2. <<CreateLine(tables[next])>> \in Seq(Line)
          BY <4>1 DEF CreateLine, ListEntry, Line
        <4> QED
          BY <3>2, <4>2, WriteType DEF TypeOK
      <3> QED
        BY <1>5, <3>1, <3>2 DEF ThrowFromSelect
    <2> QED
      BY <1>5, <2>1 DEF ThrowFromSelect, TypeOK
  <1>6. CASE OtherCommit
    <2>1. db' \in Database
      BY <1>6, DatabasesAssumption DEF OtherCommit
    <2>2. versions' \in Seq(Database) \ {<<>>} /\ DOMAIN versions \subseteq DOMAIN versions'
      BY <1>6, <2>1 DEF OtherCommit, TypeOK
    <2> QED
      BY <1>6, <2>1, <2>2 DEF OtherCommit, TypeOK
  <1>7. CASE UNCHANGED vars
    BY <1>7 DEF vars, TypeOK
  <1> QED
    BY <1>1, <1>2, <1>3, <1>4, <1>5, <1>6, <1>7 DEF Next

LEMMA TypeInit == ASSUME Init PROVE TypeOK
  <1>1. db \in Database
    BY DatabasesAssumption DEF Init
  <1>2. versions \in Seq(Database) \ {<<>>} /\ DOMAIN versions = 1..1
    BY <1>1 DEF Init
  <1>3. dumps \in 0..MaxDumps
    BY BoundsAssumption DEF Init
  <1>4. began \in DOMAIN versions /\ ended \in DOMAIN versions
    BY <1>2 DEF Init
  <1>5. next \in 1..Len(tables) + 1 /\ tables \in Seq(ListEntry) /\ file \in Seq(Line)
    BY DEF Init, FirstTable
  <1> QED
    BY <1>1, <1>2, <1>3, <1>4, <1>5 DEF Init, TypeOK

\* Every variable keeps its type: dump never leaves its list of tables, and
\* what it writes is a line of SQL, whatever the database holds.
THEOREM TypeCorrect == Spec => []TypeOK
  BY TypeInit, TypeStep, PTL DEF Spec

-----------------------------------------------------------------------------
(* The COMMIT of the file *)

\* As long as dump runs and the stream works, the file has no COMMIT: neither
\* of this dump nor, because open truncates, of an earlier one.
CommitInv == /\ CommitIsLast
             /\ pc \in {"list", "tables"} /\ good => NoCommit(file)

\* A write of lines without a COMMIT, in the middle of a dump.
LEMMA CommitWrite ==
    ASSUME TypeOK, CommitInv, NEW lines \in Seq(Line), NoCommit(lines),
           pc \in {"list", "tables"}, Write(file, good, lines)
    PROVE  CommitIsLast' /\ (good' => NoCommit(file'))
  <1>1. CASE good
    <2>1. NoCommit(file')
      BY <1>1, WriteNoCommit DEF TypeOK, CommitInv
    <2> QED
      BY <2>1 DEF CommitIsLast, NoCommit
  <1>2. CASE ~good
    <2>1. good = FALSE
      BY <1>2 DEF TypeOK
    <2>2. file' = file /\ good' = FALSE
      BY <2>1, WriteFailed DEF TypeOK
    <2>3. \A i \in DOMAIN file : file[i].op = "commit" => i = Len(file)
      BY DEF CommitInv, CommitIsLast
    <2> QED
      BY <2>2, <2>3 DEF CommitIsLast
  <1> QED
    BY <1>1, <1>2

\* One step keeps CommitInv.
LEMMA CommitStep ==
    ASSUME TypeOK, CommitInv, [Next]_vars
    PROVE  CommitInv'
  <1>1. CASE OpenDump
    <2>1. CASE Write(Opened, TRUE, Header)
      <3>1. NoCommit(file')
        <4>1. Opened \in Seq(Line) /\ NoCommit(Opened)
          BY DEF Opened, NoCommit
        <4> QED
          BY <2>1, <4>1, HeaderType, WriteNoCommit
      <3> QED
        BY <3>1 DEF CommitInv, CommitIsLast, NoCommit
    <2>2. CASE Write(file, FALSE, Header)
      <3>1. file' = file /\ good' = FALSE
        BY <2>2, HeaderType, WriteFailed DEF TypeOK
      <3>2. \A i \in DOMAIN file : file[i].op = "commit" => i = Len(file)
        BY DEF CommitInv, CommitIsLast
      <3> QED
        BY <3>1, <3>2 DEF CommitInv, CommitIsLast
    <2> QED
      BY <1>1, <2>1, <2>2 DEF OpenDump
  <1>2. CASE ListTables
    BY <1>2 DEF ListTables, CommitInv, CommitIsLast
  <1>3. CASE DumpTable
    <2>1. tables[next] \in ListEntry /\ tables[next].name \in Names
      <3>1. tables[next] \in ListEntry
        BY <1>3 DEF DumpTable, TypeOK
      <3> QED
        BY <3>1 DEF ListEntry
    <2>2. TableNamed(db, tables[next].name).rows \in Seq(Row)
      BY <1>3, <2>1, SelectedRows DEF DumpTable, TypeOK
    <2>3. CommitIsLast' /\ (good' => NoCommit(file'))
      BY <1>3, <2>1, <2>2, TableLinesType, CommitWrite DEF DumpTable
    <2> QED
      BY <2>3 DEF CommitInv
  <1>4. CASE FinishDump
    <2>1. CASE good
      <3>1. PICK n \in 0..Len(TriggerLines \o Footer) :
                file' = file \o SubSeq(TriggerLines \o Footer, 1, n)
        BY <1>4 DEF FinishDump, Write
      <3> DEFINE lines == TriggerLines \o Footer
                 part == SubSeq(lines, 1, n)
      <3>2. /\ lines \in Seq(Line)
            /\ \A i \in DOMAIN lines : lines[i].op = "commit" => i = Len(lines)
        <4> DEFINE commit == [op |-> "commit"]
        <4>1. TriggerLines \in Seq(Line) /\ NoCommit(TriggerLines)
          BY TriggerLinesType DEF TypeOK
        <4>2. commit \in Line /\ lines = TriggerLines \o <<commit>>
          BY DEF Footer, Line
        <4> HIDE DEF commit
        <4> QED
          BY <4>1, <4>2, CommitAppended
      <3> HIDE DEF lines
      <3>3. part \in Seq(Line) /\ Len(part) = n /\ \A i \in 1..n : part[i] = lines[i]
        BY <3>1, <3>2 DEF lines
      <3>4. \A i \in DOMAIN part : part[i].op = "commit" => i = Len(part)
        BY <3>1, <3>2, <3>3 DEF lines
      <3> HIDE DEF part
      <3>5. NoCommit(file) /\ file \in Seq(Line)
        BY <1>4, <2>1 DEF CommitInv, FinishDump, TypeOK
      <3>6. \A i \in DOMAIN (file \o part) :
                (file \o part)[i].op = "commit" => i = Len(file \o part)
        BY <3>3, <3>4, <3>5 DEF NoCommit
      <3>7. file' = file \o part
        BY <3>1 DEF part, lines
      <3> QED
        BY <1>4, <3>6, <3>7 DEF CommitInv, CommitIsLast, FinishDump
    <2>2. CASE ~good
      <3>1. good = FALSE
        BY <2>2 DEF TypeOK
      <3>2. TriggerLines \o Footer \in Seq(Line)
        <4>1. Footer \in Seq(Line)
          BY DEF Footer, Line
        <4> QED
          BY <4>1, TriggerLinesType DEF TypeOK
      <3>3. file' = file
        BY <1>4, <3>1, <3>2, WriteFailed DEF FinishDump, TypeOK
      <3>4. \A i \in DOMAIN file : file[i].op = "commit" => i = Len(file)
        BY DEF CommitInv, CommitIsLast
      <3> QED
        BY <1>4, <3>3, <3>4 DEF CommitInv, CommitIsLast, FinishDump
    <2> QED
      BY <2>1, <2>2
  <1>5. CASE ThrowFromSelect
    <2>1. CASE UNCHANGED <<file, good>>
      BY <1>5, <2>1 DEF ThrowFromSelect, CommitInv, CommitIsLast, NoCommit
    <2>2. CASE /\ pc = "tables" /\ next <= Len(tables)
               /\ Write(file, good, <<CreateLine(tables[next])>>)
      <3>1. tables[next] \in ListEntry
        BY <2>2 DEF TypeOK
      <3>2. <<CreateLine(tables[next])>> \in Seq(Line) /\ NoCommit(<<CreateLine(tables[next])>>)
        BY <3>1 DEF CreateLine, ListEntry, Line, NoCommit
      <3>3. CommitIsLast'
        BY <2>2, <3>2, CommitWrite
      <3> QED
        BY <1>5, <3>3 DEF ThrowFromSelect, CommitInv
    <2> QED
      BY <1>5, <2>1, <2>2 DEF ThrowFromSelect
  <1>6. CASE OtherCommit
    BY <1>6 DEF OtherCommit, CommitInv, CommitIsLast, NoCommit
  <1>7. CASE UNCHANGED vars
    BY <1>7 DEF vars, CommitInv, CommitIsLast, NoCommit
  <1> QED
    BY <1>1, <1>2, <1>3, <1>4, <1>5, <1>6, <1>7 DEF Next

\* Whenever dump throws, the disk fills up, the file cannot be opened or the
\* process dies: a COMMIT is the last line of the file, and the file of a dump
\* that still runs has none unless it is the older file, not opened.
THEOREM CommitComesLast == Spec => []CommitIsLast
  <1>1. Init => CommitInv
    BY DEF Init, CommitInv, CommitIsLast, NoCommit
  <1>2. CommitInv => CommitIsLast
    BY DEF CommitInv
  <1>3. Spec => []TypeOK
    BY TypeCorrect
  <1> QED
    BY <1>1, <1>2, <1>3, CommitStep, PTL DEF Spec

-----------------------------------------------------------------------------
(* What the statements of a file do, one after the other *)

\* after is the function of the definition of Executed for the first n
\* statements of f.
Traces(after, f, n) ==
    after = [k \in 0..n |-> IF k = 0 THEN Fresh ELSE ExecLine(after[k - 1], f[k])]

LEMMA TracesExists ==
    ASSUME NEW f, NEW n \in Nat
    PROVE  \E after : Traces(after, f, n)
  <1> DEFINE Has == {k \in Nat : \E after : Traces(after, f, k)}
  <1>1. 0 \in Has
    <2>1. Traces([k \in 0..0 |-> Fresh], f, 0)
      BY DEF Traces
    <2> QED
      BY <2>1
  <1>2. ASSUME NEW k \in Nat, k \in Has PROVE k + 1 \in Has
    <2>1. PICK after : Traces(after, f, k)
      BY <1>2
    <2> DEFINE new == ExecLine(after[k], f[k + 1])
               longer == [i \in 0..(k + 1) |-> IF i = k + 1 THEN new ELSE after[i]]
    <2>2. \A i \in 0..k : longer[i] = after[i]
      OBVIOUS
    <2>3. longer[k + 1] = new
      OBVIOUS
    <2>4. \A i \in 0..k : after[i] = IF i = 0 THEN Fresh ELSE ExecLine(after[i - 1], f[i])
      BY <2>1 DEF Traces
    <2>5. ASSUME NEW i \in 0..(k + 1)
          PROVE  longer[i] = IF i = 0 THEN Fresh ELSE ExecLine(longer[i - 1], f[i])
      <3> HIDE DEF longer
      <3>1. CASE i = k + 1
        <4>1. i # 0 /\ i - 1 = k /\ longer[k] = after[k]
          BY <3>1, <2>2
        <4> QED
          BY <3>1, <4>1, <2>3
      <3>2. CASE i # k + 1
        <4>1. i \in 0..k /\ (i # 0 => i - 1 \in 0..k)
          BY <3>2
        <4> QED
          BY <2>2, <2>4, <4>1
      <3> QED
        BY <3>1, <3>2
    <2>6. Traces(longer, f, k + 1)
      BY <2>5 DEF Traces
    <2> QED
      BY <2>6
  <1> HIDE DEF Has
  <1>3. Nat \subseteq Has
    BY <1>1, <1>2, Induct
  <1> QED
    BY <1>3 DEF Has

\* It depends on those statements alone.
Agree(f, g, n) == \A i \in 1..n : f[i] = g[i]

LEMMA TracesUnique ==
    ASSUME NEW f, NEW g, NEW n \in Nat, NEW m \in Nat, n <= m, Agree(f, g, n),
           NEW a, Traces(a, f, n), NEW b, Traces(b, g, m)
    PROVE  a[n] = b[n]
  <1> DEFINE Same == {k \in Nat : k \in 0..n => a[k] = b[k]}
  <1>1. /\ \A i \in 0..n : a[i] = IF i = 0 THEN Fresh ELSE ExecLine(a[i - 1], f[i])
        /\ \A i \in 0..n : b[i] = IF i = 0 THEN Fresh ELSE ExecLine(b[i - 1], g[i])
    <2>1. \A i \in 0..n : a[i] = IF i = 0 THEN Fresh ELSE ExecLine(a[i - 1], f[i])
      BY DEF Traces
    <2>2. \A i \in 0..n : i \in 0..m
      OBVIOUS
    <2>3. \A i \in 0..m : b[i] = IF i = 0 THEN Fresh ELSE ExecLine(b[i - 1], g[i])
      BY DEF Traces
    <2> QED
      BY <2>1, <2>2, <2>3
  <1>2. 0 \in Same
    BY <1>1
  <1>3. ASSUME NEW k \in Nat, k \in Same PROVE k + 1 \in Same
    <2>1. SUFFICES ASSUME k + 1 \in 0..n PROVE a[k + 1] = b[k + 1]
      OBVIOUS
    <2>2. a[k] = b[k]
      BY <1>3, <2>1
    <2>3. f[k + 1] = g[k + 1] /\ (k + 1) - 1 = k /\ k + 1 # 0
      BY <2>1 DEF Agree
    <2> HIDE DEF Same
    <2> QED
      BY <1>1, <2>1, <2>2, <2>3
  <1> HIDE DEF Same
  <1>4. n \in Same
    BY <1>2, <1>3, Induct
  <1> QED
    BY <1>4 DEF Same

LEMMA ExecutedDef ==
    ASSUME NEW f \in Seq(Line)
    PROVE  \E after : Traces(after, f, Len(f)) /\ Executed(f) = after[Len(f)]
  <1> DEFINE after == CHOOSE a : a = [n \in 0..Len(f) |->
                                       IF n = 0 THEN Fresh ELSE ExecLine(a[n - 1], f[n])]
  <1>1. Traces(after, f, Len(f))
    <2>1. Len(f) \in Nat
      OBVIOUS
    <2> QED
      BY <2>1, TracesExists DEF Traces
  <1>2. Executed(f) = after[Len(f)]
    BY DEF Executed
  <1> QED
    BY <1>1, <1>2

\* A file without a statement leaves a new connection as it is.
LEMMA ExecutedNone == Executed(<<>>) = Fresh
  <1>1. <<>> \in Seq(Line) /\ Len(<<>>) = 0
    OBVIOUS
  <1>2. PICK after : Traces(after, <<>>, Len(<<>>)) /\ Executed(<<>>) = after[Len(<<>>)]
    BY <1>1, ExecutedDef
  <1> QED
    BY <1>1, <1>2 DEF Traces

\* One more statement is executed on what the others left.
LEMMA ExecutedAppend ==
    ASSUME NEW f \in Seq(Line), NEW x \in Line
    PROVE  Executed(Append(f, x)) = ExecLine(Executed(f), x)
  <1> DEFINE n == Len(f)
             g == Append(f, x)
             m == n + 1
  <1>1. /\ n \in Nat /\ m \in Nat /\ n <= m /\ m # 0 /\ m - 1 = n /\ m \in 0..m
        /\ g \in Seq(Line) /\ Len(g) = m /\ g[m] = x
        /\ \A i \in 1..n : f[i] = g[i]
    BY AppendProperties, LenProperties
  <1> HIDE DEF n, g, m
  <1>2. PICK a : Traces(a, f, n) /\ Executed(f) = a[n]
    BY ExecutedDef DEF n
  <1>3. PICK b : Traces(b, g, m) /\ Executed(g) = b[m]
    BY <1>1, ExecutedDef
  <1>4. a[n] = b[n]
    <2>1. n \in Nat /\ m \in Nat /\ n <= m
      BY <1>1
    <2>2. Agree(f, g, n)
      BY <1>1 DEF Agree
    <2>3. Traces(a, f, n) /\ Traces(b, g, m)
      BY <1>2, <1>3
    <2> QED
      BY <2>1, <2>2, <2>3, TracesUnique
  <1>5. b[m] = ExecLine(b[n], x)
    <2>1. \A i \in 0..m : b[i] = IF i = 0 THEN Fresh ELSE ExecLine(b[i - 1], g[i])
      BY <1>3 DEF Traces
    <2> QED
      BY <1>1, <2>1
  <1> QED
    BY <1>2, <1>3, <1>4, <1>5 DEF g

\* s[k] is what the first k of the lines leave.
Steps(s, lines) == \A k \in 0..(Len(lines) - 1) : s[k + 1] = ExecLine(s[k], lines[k + 1])

\* The statements that a write adds to a file.
LEMMA ExecutedSteps ==
    ASSUME NEW f \in Seq(Line), NEW lines \in Seq(Line)
    PROVE  \E s : /\ s[0] = Executed(f)
                  /\ Steps(s, lines)
                  /\ \A k \in 0..Len(lines) : s[k] = Executed(f \o SubSeq(lines, 1, k))
                  /\ s[Len(lines)] = Executed(f \o lines)
  <1> DEFINE s == [k \in 0..Len(lines) |-> Executed(f \o SubSeq(lines, 1, k))]
  <1>1. Len(lines) \in Nat /\ 0 \in 0..Len(lines) /\ Len(lines) \in 0..Len(lines)
    OBVIOUS
  <1>2. s[0] = Executed(f)
    <2>1. SubSeq(lines, 1, 0) = <<>>
      OBVIOUS
    <2>2. f \o <<>> = f
      OBVIOUS
    <2> QED
      BY <1>1, <2>1, <2>2
  <1>3. s[Len(lines)] = Executed(f \o lines)
    <2>1. SubSeq(lines, 1, Len(lines)) = lines
      OBVIOUS
    <2> QED
      BY <1>1, <2>1
  <1>4. ASSUME NEW k \in 0..(Len(lines) - 1)
        PROVE  s[k + 1] = ExecLine(s[k], lines[k + 1])
    <2> DEFINE g == f \o SubSeq(lines, 1, k)
    <2>1. k \in 0..Len(lines) /\ k + 1 \in 0..Len(lines)
      OBVIOUS
    <2>2. lines[k + 1] \in Line
      OBVIOUS
    <2>3. SubSeq(lines, 1, k) \in Seq(Line)
          /\ SubSeq(lines, 1, k + 1) = Append(SubSeq(lines, 1, k), lines[k + 1])
      BY <2>2
    <2>4. g \in Seq(Line) /\ f \o SubSeq(lines, 1, k + 1) = Append(g, lines[k + 1])
      <3> DEFINE p == SubSeq(lines, 1, k)
                 x == lines[k + 1]
      <3>1. p \in Seq(Line) /\ x \in Line
        BY <2>2, <2>3
      <3> HIDE DEF p, x
      <3>2. f \o p \in Seq(Line) /\ f \o Append(p, x) = Append(f \o p, x)
        BY <3>1
      <3> QED
        BY <2>3, <3>2 DEF p, x
    <2>5. Executed(Append(g, lines[k + 1])) = ExecLine(Executed(g), lines[k + 1])
      BY <2>2, <2>4, ExecutedAppend
    <2> QED
      BY <2>1, <2>4, <2>5
  <1> QED
    BY <1>2, <1>3, <1>4 DEF Steps

-----------------------------------------------------------------------------
(* All or nothing *)

IsState(s) == /\ s = [now |-> s.now, kept |-> s.kept, open |-> s.open, failed |-> s.failed]
              /\ s.open \in BOOLEAN /\ s.failed \in BOOLEAN

\* In the transaction of the file, or after a statement that failed: nothing
\* has been committed.
Midway(s) == IsState(s) /\ s.kept = EmptyDatabase /\ (s.failed \/ s.open)

\* After the COMMIT: nothing is kept, or everything is.
Settled(s) == s.kept = EmptyDatabase
              \/ s = [now |-> s.kept, kept |-> s.kept, open |-> FALSE, failed |-> FALSE]

NoControl(lines) == \A i \in DOMAIN lines : lines[i].op \notin {"begin", "commit"}

LEMMA FailedState ==
    ASSUME NEW s, IsState(s)
    PROVE  [s EXCEPT !.failed = TRUE]
             = [now |-> s.now, kept |-> s.kept, open |-> s.open, failed |-> TRUE]
  <1>1. PICK a, b, c, d : s = [now |-> a, kept |-> b, open |-> c, failed |-> d]
    BY DEF IsState
  <1> DEFINE r == [s EXCEPT !.failed = TRUE]
  <1>2. r \in [now : {a}, kept : {b}, open : {c}, failed : {TRUE}]
    BY <1>1
  <1>3. s.now = a /\ s.kept = b /\ s.open = c
    BY <1>1
  <1> HIDE DEF r
  <1>4. r = [now |-> a, kept |-> b, open |-> c, failed |-> TRUE]
    BY <1>2
  <1> QED
    BY <1>3, <1>4 DEF r

LEMMA MidwayLine ==
    ASSUME NEW s, Midway(s), NEW x, x.op \notin {"begin", "commit"}
    PROVE  Midway(ExecLine(s, x))
  <1>1. CASE s.failed \/ ~Runs(s.now, s.open, x)
    <2>1. ExecLine(s, x) = [s EXCEPT !.failed = TRUE]
      BY <1>1 DEF ExecLine
    <2>2. [s EXCEPT !.failed = TRUE] = [now |-> s.now, kept |-> s.kept, open |-> s.open, failed |-> TRUE]
      BY FailedState DEF Midway
    <2> QED
      BY <2>1, <2>2 DEF Midway, IsState
  <1>2. CASE ~(s.failed \/ ~Runs(s.now, s.open, x))
    <2> DEFINE now == Effect(s.now, x)
    <2>1. s.open = TRUE
      BY <1>2 DEF Midway, IsState
    <2>2. ExecLine(s, x) = [now |-> now, open |-> TRUE, kept |-> s.kept, failed |-> FALSE]
      BY <1>2, <2>1 DEF ExecLine
    <2> HIDE DEF now
    <2> QED
      BY <2>2 DEF Midway, IsState
  <1> QED
    BY <1>1, <1>2

LEMMA SettledLine ==
    ASSUME NEW s, Midway(s), NEW x, x.op = "commit"
    PROVE  Settled(ExecLine(s, x))
  <1>1. CASE s.failed \/ ~Runs(s.now, s.open, x)
    <2>1. ExecLine(s, x) = [s EXCEPT !.failed = TRUE]
      BY <1>1 DEF ExecLine
    <2>2. [s EXCEPT !.failed = TRUE] = [now |-> s.now, kept |-> s.kept, open |-> s.open, failed |-> TRUE]
      BY FailedState DEF Midway
    <2> QED
      BY <2>1, <2>2 DEF Midway, Settled
  <1>2. CASE ~(s.failed \/ ~Runs(s.now, s.open, x))
    <2> DEFINE now == Effect(s.now, x)
    <2>1. ExecLine(s, x) = [now |-> now, open |-> FALSE, kept |-> now, failed |-> FALSE]
      BY <1>2 DEF ExecLine
    <2> HIDE DEF now
    <2> QED
      BY <2>1 DEF Settled
  <1> QED
    BY <1>1, <1>2

\* The header begins the transaction, and a part of it does nothing.
InTransaction == [now |-> EmptyDatabase, kept |-> EmptyDatabase, open |-> TRUE, failed |-> FALSE]

LEMMA HeaderExecuted ==
    /\ Executed(Header) = InTransaction
    /\ \A n \in 0..Len(Header) : Executed(SubSeq(Header, 1, n)).kept = EmptyDatabase
  <1> DEFINE pragma == [op |-> "pragma"]
             begin == [op |-> "begin"]
  <1>1. pragma \in Line /\ begin \in Line /\ pragma.op = "pragma" /\ begin.op = "begin"
    BY DEF Line
  <1>2. ExecLine(Fresh, pragma) = Fresh
    BY DEF ExecLine, Fresh, Runs, Effect
  <1>3. ExecLine(Fresh, begin) = InTransaction
    BY DEF ExecLine, Fresh, Runs, Effect, InTransaction
  <1> HIDE DEF pragma, begin
  <1>4. /\ <<>> \in Seq(Line) /\ <<pragma>> = Append(<<>>, pragma) /\ <<pragma>> \in Seq(Line)
        /\ <<pragma, begin>> = Append(<<pragma>>, begin)
    BY <1>1
  <1>5. Executed(<<pragma>>) = Fresh
    BY <1>1, <1>2, <1>4, ExecutedAppend, ExecutedNone
  <1>6. Executed(<<pragma, begin>>) = InTransaction
    BY <1>1, <1>3, <1>4, <1>5, ExecutedAppend
  <1>7. Header = <<pragma, begin>>
    BY DEF Header, pragma, begin
  <1>8. /\ Len(Header) = 2 /\ SubSeq(Header, 1, 0) = <<>>
        /\ SubSeq(Header, 1, 1) = <<pragma>> /\ SubSeq(Header, 1, 2) = <<pragma, begin>>
    <2>1. Header \in Seq(Line) /\ Len(Header) = 2
      BY <1>1, <1>7
    <2>2. SubSeq(Header, 1, 0) = <<>> /\ SubSeq(Header, 1, 2) = Header
      BY <2>1
    <2>3. SubSeq(Header, 1, 1) = <<pragma>>
      <3>1. /\ SubSeq(Header, 1, 1) \in Seq(Line) /\ Len(SubSeq(Header, 1, 1)) = 1
            /\ SubSeq(Header, 1, 1)[1] = Header[1]
        BY <2>1
      <3>2. Header[1] = pragma
        BY <1>7
      <3> DEFINE a == SubSeq(Header, 1, 1)
                 b == <<pragma>>
      <3>3. b \in Seq(Line) /\ Len(b) = 1 /\ b[1] = pragma
        BY <1>1
      <3> HIDE DEF a, b
      <3>4. \A i \in 1..Len(a) : a[i] = b[i]
        BY <3>1, <3>2, <3>3 DEF a
      <3>5. a = b
        BY <3>1, <3>3, <3>4, SeqEqual DEF a
      <3> QED
        BY <3>5 DEF a, b
    <2> QED
      BY <1>7, <2>1, <2>2, <2>3
  <1>9. Fresh.kept = EmptyDatabase /\ InTransaction.kept = EmptyDatabase
    BY DEF Fresh, InTransaction
  <1>10. ASSUME NEW n \in 0..2 PROVE Executed(SubSeq(Header, 1, n)).kept = EmptyDatabase
    <2>1. n = 0 \/ n = 1 \/ n = 2
      OBVIOUS
    <2> QED
      BY <2>1, <1>5, <1>6, <1>8, <1>9, ExecutedNone
  <1> QED
    BY <1>6, <1>7, <1>8, <1>10

\* Statements without BEGIN and COMMIT stay in the transaction.
LEMMA MidwayLines ==
    ASSUME NEW f \in Seq(Line), NEW lines \in Seq(Line), NoControl(lines), Midway(Executed(f)),
           NEW n \in 0..Len(lines)
    PROVE  Midway(Executed(f \o SubSeq(lines, 1, n)))
  <1>1. PICK s : /\ s[0] = Executed(f)
                 /\ Steps(s, lines)
                 /\ \A k \in 0..Len(lines) : s[k] = Executed(f \o SubSeq(lines, 1, k))
    BY ExecutedSteps
  <1> DEFINE Good == {k \in Nat : k \in 0..Len(lines) => Midway(s[k])}
  <1>2. 0 \in Good
    BY <1>1
  <1>3. ASSUME NEW k \in Nat, k \in Good PROVE k + 1 \in Good
    <2>1. SUFFICES ASSUME k + 1 \in 0..Len(lines) PROVE Midway(s[k + 1])
      OBVIOUS
    <2>2. k \in 0..(Len(lines) - 1) /\ k \in 0..Len(lines) /\ k + 1 \in DOMAIN lines
      BY <2>1
    <2>3. Midway(s[k]) /\ s[k + 1] = ExecLine(s[k], lines[k + 1])
      BY <1>1, <1>3, <2>2 DEF Steps
    <2>4. lines[k + 1].op \notin {"begin", "commit"}
      BY <2>2 DEF NoControl
    <2> QED
      BY <2>3, <2>4, MidwayLine
  <1> HIDE DEF Good
  <1>4. n \in Good /\ n \in 0..Len(lines)
    BY <1>2, <1>3, Induct
  <1>5. Midway(s[n])
    BY <1>4 DEF Good
  <1> QED
    BY <1>1, <1>5

LEMMA WriteMidway ==
    ASSUME NEW content \in Seq(Line), NEW lines \in Seq(Line), NEW working \in BOOLEAN,
           NoControl(lines), Midway(Executed(content)), Write(content, working, lines)
    PROVE  Midway(Executed(file'))
  <1>1. PICK n \in 0..Len(lines) : file' = content \o SubSeq(lines, 1, n)
    BY DEF Write
  <1> QED
    BY <1>1, MidwayLines

LEMMA TableLinesControl ==
    ASSUME NEW table \in ListEntry, NEW rows \in Seq(Row)
    PROVE  NoControl(TableLines(table, rows))
  <1> DEFINE inserts == [i \in DOMAIN rows |-> InsertLine(table.name, rows[i])]
             create == CreateLine(table)
  <1>1. create.op = "create"
    BY DEF CreateLine
  <1>2. \A i \in DOMAIN rows : inserts[i].op = "insert"
    BY DEF InsertLine
  <1>3. inserts \in Seq({inserts[i] : i \in DOMAIN rows}) /\ DOMAIN inserts = DOMAIN rows
    OBVIOUS
  <1> HIDE DEF inserts, create
  <1>4. NoControl(<<create>> \o inserts)
    BY <1>1, <1>2, <1>3 DEF NoControl
  <1> QED
    BY <1>4 DEF TableLines, InsertLines, inserts, create

LEMMA TriggerLinesControl == ASSUME db \in Database PROVE NoControl(TriggerLines)
  <1>1. DOMAIN TriggerLines = DOMAIN db.triggers
    BY DEF TriggerLines
  <1>2. \A i \in DOMAIN db.triggers : TriggerLines[i].op = "trigger"
    BY DEF TriggerLines, TriggerLine
  <1> QED
    BY <1>1, <1>2 DEF NoControl

\* What dump wrote restores as a whole or not at all.
Whole(f) ==
    Restored(f) # EmptyDatabase =>
        /\ Last(f).op = "commit"
        /\ Executed(f) = [now |-> Restored(f), kept |-> Restored(f), open |-> FALSE, failed |-> FALSE]

\* While dump runs, the statements written so far have committed nothing.
AtomInv == /\ pc \in {"list", "tables"} /\ good => Midway(Executed(file))
           /\ Whole(file)

\* A write in the middle of a dump.
LEMMA AtomWrite ==
    ASSUME TypeOK, AtomInv, NEW lines \in Seq(Line), NoControl(lines),
           pc \in {"list", "tables"}, Write(file, good, lines)
    PROVE  (good' => Midway(Executed(file'))) /\ Whole(file')
  <1>1. CASE good
    <2>1. Midway(Executed(file'))
      BY <1>1, WriteMidway DEF TypeOK, AtomInv
    <2> QED
      BY <2>1 DEF Midway, Whole, Restored
  <1>2. CASE ~good
    <2>1. good = FALSE
      BY <1>2 DEF TypeOK
    <2>2. file' = file /\ good' = FALSE
      BY <2>1, WriteFailed DEF TypeOK
    <2> QED
      BY <2>2 DEF AtomInv, Whole, Restored
  <1> QED
    BY <1>1, <1>2

\* The last lines: triggers and COMMIT.
LEMMA AtomFinish ==
    ASSUME TypeOK, AtomInv, pc = "tables", good, Write(file, good, TriggerLines \o Footer)
    PROVE  Whole(file')
  <1> DEFINE commit == [op |-> "commit"]
             T == TriggerLines
             lines == T \o <<commit>>
  <1>1. T \in Seq(Line) /\ NoControl(T)
    BY TriggerLinesType, TriggerLinesControl DEF TypeOK
  <1>2. commit \in Line /\ commit.op = "commit" /\ TriggerLines \o Footer = lines
    BY DEF Line, Footer
  <1> HIDE DEF commit, T
  <1>3. PICK n \in 0..Len(lines) : file' = file \o SubSeq(lines, 1, n)
    BY <1>2 DEF Write
  <1>4. file \in Seq(Line) /\ Midway(Executed(file))
    BY DEF TypeOK, AtomInv
  <1>5. Len(lines) = Len(T) + 1 /\ Len(T) \in Nat
    BY <1>1, <1>2
  <1>6. CASE n # Len(T) + 1
    <2>1. n \in 0..Len(T)
      BY <1>3, <1>5, <1>6
    <2>2. SubSeq(lines, 1, n) = SubSeq(T, 1, n)
      BY <1>1, <1>2, <2>1
    <2>3. Midway(Executed(file \o SubSeq(T, 1, n)))
      BY <1>1, <1>4, <2>1, MidwayLines
    <2> QED
      BY <1>3, <2>2, <2>3 DEF Midway, Whole, Restored
  <1>7. CASE n = Len(T) + 1
    <2> DEFINE g == file \o T
    <2>1. SubSeq(lines, 1, n) = lines
      BY <1>1, <1>2, <1>5, <1>7
    <2>2. g \in Seq(Line) /\ file \o lines = Append(g, commit)
      BY <1>1, <1>2, <1>4
    <2>3. Midway(Executed(g))
      <3>1. SubSeq(T, 1, Len(T)) = T /\ Len(T) \in 0..Len(T)
        BY <1>1, <1>5
      <3> QED
        BY <1>1, <1>4, <3>1, MidwayLines
    <2> HIDE DEF g, lines
    <2>4. Executed(Append(g, commit)) = ExecLine(Executed(g), commit)
      BY <1>2, <2>2, ExecutedAppend
    <2>5. Settled(Executed(Append(g, commit)))
      BY <1>2, <2>3, <2>4, SettledLine
    <2>6. Last(Append(g, commit)) = commit
      BY <1>2, <2>2 DEF Last
    <2>7. file' = Append(g, commit)
      BY <1>3, <2>1, <2>2
    <2> QED
      BY <1>2, <2>5, <2>6, <2>7 DEF Settled, Whole, Restored
  <1> QED
    BY <1>6, <1>7

LEMMA AtomStep ==
    ASSUME TypeOK, AtomInv, [Next]_vars
    PROVE  AtomInv'
  <1>1. CASE OpenDump
    <2>1. CASE Write(Opened, TRUE, Header)
      <3>1. PICK n \in 0..Len(Header) : /\ file' = <<>> \o SubSeq(Header, 1, n)
                                        /\ good' = (TRUE /\ n = Len(Header))
        BY <2>1 DEF Write, Opened
      <3>2. /\ SubSeq(Header, 1, n) \in Seq(Line)
            /\ n = Len(Header) => SubSeq(Header, 1, n) = Header
        BY HeaderType
      <3>3. file' = SubSeq(Header, 1, n)
        <4> DEFINE h == SubSeq(Header, 1, n)
        <4>1. h \in Seq(Line) /\ file' = <<>> \o h
          BY <3>1, <3>2
        <4> HIDE DEF h
        <4>2. file' = h
          BY <4>1
        <4> QED
          BY <4>2 DEF h
      <3>4. Executed(file').kept = EmptyDatabase
        BY <3>3, HeaderExecuted
      <3>5. good' => Executed(file') = InTransaction
        BY <3>1, <3>2, <3>3, HeaderExecuted
      <3>6. Midway(InTransaction)
        BY DEF Midway, IsState, InTransaction
      <3> QED
        BY <3>4, <3>5, <3>6 DEF AtomInv, Whole, Restored
    <2>2. CASE Write(file, FALSE, Header)
      <3>1. file' = file /\ good' = FALSE
        BY <2>2, HeaderType, WriteFailed DEF TypeOK
      <3> QED
        BY <3>1 DEF AtomInv, Whole, Restored
    <2> QED
      BY <1>1, <2>1, <2>2 DEF OpenDump
  <1>2. CASE ListTables
    BY <1>2 DEF ListTables, AtomInv, Whole, Restored
  <1>3. CASE DumpTable
    <2>1. tables[next] \in ListEntry /\ tables[next].name \in Names
      <3>1. tables[next] \in ListEntry
        BY <1>3 DEF DumpTable, TypeOK
      <3> QED
        BY <3>1 DEF ListEntry
    <2>2. TableNamed(db, tables[next].name).rows \in Seq(Row)
      BY <1>3, <2>1, SelectedRows DEF DumpTable, TypeOK
    <2>3. (good' => Midway(Executed(file'))) /\ Whole(file')
      BY <1>3, <2>1, <2>2, TableLinesType, TableLinesControl, AtomWrite DEF DumpTable
    <2> QED
      BY <2>3 DEF AtomInv
  <1>4. CASE FinishDump
    <2>1. CASE good
      BY <1>4, <2>1, AtomFinish DEF FinishDump, AtomInv
    <2>2. CASE ~good
      <3>1. good = FALSE
        BY <2>2 DEF TypeOK
      <3>2. TriggerLines \o Footer \in Seq(Line)
        <4>1. Footer \in Seq(Line)
          BY DEF Footer, Line
        <4> QED
          BY <4>1, TriggerLinesType DEF TypeOK
      <3>3. file' = file
        BY <1>4, <3>1, <3>2, WriteFailed DEF FinishDump, TypeOK
      <3> QED
        BY <1>4, <3>3 DEF FinishDump, AtomInv, Whole, Restored
    <2> QED
      BY <2>1, <2>2
  <1>5. CASE ThrowFromSelect
    <2>1. CASE UNCHANGED <<file, good>>
      BY <1>5, <2>1 DEF ThrowFromSelect, AtomInv, Whole, Restored
    <2>2. CASE /\ pc = "tables" /\ next <= Len(tables)
               /\ Write(file, good, <<CreateLine(tables[next])>>)
      <3>1. tables[next] \in ListEntry
        BY <2>2 DEF TypeOK
      <3>2. <<CreateLine(tables[next])>> \in Seq(Line) /\ NoControl(<<CreateLine(tables[next])>>)
        BY <3>1 DEF CreateLine, ListEntry, Line, NoControl
      <3>3. Whole(file')
        BY <2>2, <3>2, AtomWrite
      <3> QED
        BY <1>5, <3>3 DEF ThrowFromSelect, AtomInv
    <2> QED
      BY <1>5, <2>1, <2>2 DEF ThrowFromSelect
  <1>6. CASE OtherCommit
    BY <1>6 DEF OtherCommit, AtomInv, Whole, Restored
  <1>7. CASE UNCHANGED vars
    BY <1>7 DEF vars, AtomInv, Whole, Restored
  <1> QED
    BY <1>1, <1>2, <1>3, <1>4, <1>5, <1>6, <1>7 DEF Next

LEMMA AtomInit == ASSUME Init PROVE AtomInv
  <1>1. Fresh.kept = EmptyDatabase
    BY DEF Fresh
  <1> QED
    BY <1>1, ExecutedNone DEF Init, AtomInv, Whole, Restored

\* A file without a text that splits a statement is read as it was written.
LEMMA OnlyReading == ASSUME NEW f, ~Splits(f) PROVE Readings(f) = {f}
  BY DEF Readings

LEMMA WholeReadings == ASSUME Whole(file) PROVE AllOrNothing
  <1>1. CASE Splits(file)
    BY <1>1 DEF AllOrNothing
  <1>2. CASE ~Splits(file)
    <2>1. Readings(file) = {file}
      BY <1>2, OnlyReading
    <2> QED
      BY <2>1 DEF AllOrNothing, Whole
  <1> QED
    BY <1>1, <1>2

\* Wherever a dump stopped - an exception, a full disk, a killed process - its
\* file restores to an empty database or, after the COMMIT, to the effect of
\* every one of its statements - unless a value ended a statement of the file.
THEOREM RestoresAllOrNothing == Spec => []AllOrNothing
  <1>1. AtomInv => AllOrNothing
    BY WholeReadings DEF AtomInv
  <1>2. Spec => []TypeOK
    BY TypeCorrect
  <1> QED
    BY <1>1, <1>2, AtomInit, AtomStep, PTL DEF Spec

-----------------------------------------------------------------------------
(* Restoring tables *)

\* A database without indexes and views, and the connection that restores it.
Content(ts, trs) == [tables |-> ts, triggers |-> trs, others |-> {}]
Restoring(ts, trs) ==
    [now |-> Content(ts, trs), kept |-> EmptyDatabase, open |-> TRUE, failed |-> FALSE]

\* A statement has failed.
Failed(s) == IsState(s) /\ s.failed

\* The rows of a table have a cell per column, and its name is not sqlite's own.
Fits(table, rows) ==
    table.name \notin Reserved /\ \A r \in DOMAIN rows : Len(rows[r]) = Len(table.columns)

NamesDiffer(ts) == \A i, j \in DOMAIN ts : ts[i].name = ts[j].name => i = j

LEMMA FailedLine ==
    ASSUME NEW s, Failed(s), NEW x
    PROVE  Failed(ExecLine(s, x))
  <1>1. ExecLine(s, x) = [now |-> s.now, kept |-> s.kept, open |-> s.open, failed |-> TRUE]
    BY FailedState DEF ExecLine, Failed
  <1> QED
    BY <1>1 DEF Failed, IsState

LEMMA FailedLines ==
    ASSUME NEW f \in Seq(Line), NEW lines \in Seq(Line), Failed(Executed(f))
    PROVE  Failed(Executed(f \o lines))
  <1>1. PICK s : s[0] = Executed(f) /\ Steps(s, lines) /\ s[Len(lines)] = Executed(f \o lines)
    BY ExecutedSteps
  <1> DEFINE Good == {k \in Nat : k \in 0..Len(lines) => Failed(s[k])}
  <1>2. 0 \in Good
    BY <1>1
  <1>3. ASSUME NEW k \in Nat, k \in Good PROVE k + 1 \in Good
    <2>1. SUFFICES ASSUME k + 1 \in 0..Len(lines) PROVE Failed(s[k + 1])
      OBVIOUS
    <2>2. k \in 0..(Len(lines) - 1) /\ k \in 0..Len(lines)
      BY <2>1
    <2>3. Failed(s[k]) /\ s[k + 1] = ExecLine(s[k], lines[k + 1])
      BY <1>1, <1>3, <2>2 DEF Steps
    <2> QED
      BY <2>3, FailedLine
  <1> HIDE DEF Good
  <1>4. Len(lines) \in Good /\ Len(lines) \in 0..Len(lines)
    BY <1>2, <1>3, Induct
  <1> QED
    BY <1>1, <1>4 DEF Good

\* A statement inside the transaction.
LEMMA RestoringLine ==
    ASSUME NEW ts, NEW trs, NEW x, x.op \notin {"begin", "commit"}
    PROVE  /\ Runs(Content(ts, trs), TRUE, x) =>
                  ExecLine(Restoring(ts, trs), x)
                    = [now |-> Effect(Content(ts, trs), x), kept |-> EmptyDatabase,
                       open |-> TRUE, failed |-> FALSE]
           /\ ~Runs(Content(ts, trs), TRUE, x) => Failed(ExecLine(Restoring(ts, trs), x))
  <1> DEFINE s == Restoring(ts, trs)
  <1>1. /\ s.now = Content(ts, trs) /\ s.kept = EmptyDatabase /\ s.open = TRUE /\ s.failed = FALSE
        /\ IsState(s)
    BY DEF Restoring, IsState
  <1> HIDE DEF s
  <1>2. Runs(s.now, s.open, x) = Runs(Content(ts, trs), TRUE, x)
    BY <1>1
  <1>3. CASE Runs(Content(ts, trs), TRUE, x)
    <2>1. ~(s.failed \/ ~Runs(s.now, s.open, x))
      BY <1>1, <1>2, <1>3
    <2>2. ExecLine(s, x) = [now |-> Effect(s.now, x), kept |-> s.kept, open |-> s.open, failed |-> FALSE]
      BY <1>1, <2>1 DEF ExecLine
    <2> QED
      BY <1>1, <1>3, <2>2 DEF s
  <1>4. CASE ~Runs(Content(ts, trs), TRUE, x)
    <2>1. ExecLine(s, x) = [now |-> s.now, kept |-> s.kept, open |-> s.open, failed |-> TRUE]
      BY <1>1, <1>2, <1>4, FailedState DEF ExecLine
    <2>2. Failed(ExecLine(s, x))
      BY <1>1, <2>1 DEF Failed, IsState
    <2> QED
      BY <1>4, <2>2 DEF s
  <1> QED
    BY <1>3, <1>4

\* The table of a name.
LEMMA TableOfName ==
    ASSUME NEW d, NEW i \in DOMAIN d.tables,
           \A j \in DOMAIN d.tables : d.tables[j].name = d.tables[i].name => j = i
    PROVE  TableNamed(d, d.tables[i].name) = d.tables[i]
  BY DEF TableNamed

\* Without triggers an INSERT adds its row and nothing else.
LEMMA InsertAlone ==
    ASSUME NEW d, d.triggers = <<>>, NEW name, NEW row
    PROVE  Insert(d, name, row) = WithTableRow(d, name, row)
  <1> DEFINE W == WithTableRow(d, name, row)
             more(f, n) == LET g == d.triggers[n]
                           IN  IF g.on = name THEN WithTableRow(f[n - 1], g.into, g.row) ELSE f[n - 1]
             fired == CHOOSE f : f = [n \in 0..Len(d.triggers) |-> IF n = 0 THEN W ELSE more(f, n)]
  <1>1. Insert(d, name, row) = fired[Len(d.triggers)]
    BY DEF Insert
  <1>2. Len(d.triggers) = 0
    OBVIOUS
  <1> HIDE DEF W, more
  <1>3. \E f : f = [n \in 0..0 |-> IF n = 0 THEN W ELSE more(f, n)]
    <2> DEFINE f == [n \in 0..0 |-> W]
    <2>1. f = [n \in 0..0 |-> IF n = 0 THEN W ELSE more(f, n)]
      OBVIOUS
    <2> QED
      BY <2>1
  <1>4. fired = [n \in 0..0 |-> IF n = 0 THEN W ELSE more(fired, n)]
    BY <1>2, <1>3
  <1> HIDE DEF fired
  <1>5. fired[0] = W
    BY <1>4
  <1> QED
    BY <1>1, <1>2, <1>5 DEF W

\* A row goes to the end of the table that was created last.
LEMMA LastTableRow ==
    ASSUME NEW ts \in Seq(Table), NEW tb \in Table, NEW row \in Row,
           \A i \in DOMAIN ts : ts[i].name # tb.name
    PROVE  WithTableRow(Content(Append(ts, tb), <<>>), tb.name, row)
             = Content(Append(ts, [tb EXCEPT !.rows = Append(@, row)]), <<>>)
  <1> DEFINE tb2 == [tb EXCEPT !.rows = Append(@, row)]
             q == Append(ts, tb)
             r == Append(ts, tb2)
             n == Len(ts) + 1
             p == [i \in DOMAIN q |-> IF q[i].name = tb.name
                                      THEN [q[i] EXCEPT !.rows = Append(@, row)] ELSE q[i]]
  <1>1. tb2 \in Table
    <2>1. tb.rows \in Seq(Row) /\ Append(tb.rows, row) \in Seq(Row)
      BY DEF Table
    <2> QED
      BY <2>1 DEF Table
  <1>2. /\ q \in Seq(Table) /\ Len(q) = n /\ q[n] = tb /\ n \in 1..n
        /\ \A i \in 1..Len(ts) : q[i] = ts[i]
    BY AppendProperties, LenProperties
  <1>3. /\ r \in Seq(Table) /\ Len(r) = n /\ r[n] = tb2
        /\ \A i \in 1..Len(ts) : r[i] = ts[i]
    BY <1>1, AppendProperties, LenProperties
  <1>4. /\ DOMAIN q = 1..n /\ DOMAIN r = 1..n
        /\ \A i \in 1..n : i = n \/ i \in 1..Len(ts)
        /\ DOMAIN ts = 1..Len(ts)
    BY <1>2, <1>3
  <1>5. ASSUME NEW i \in 1..n PROVE p[i] = r[i]
    <2>1. CASE i = n
      BY <1>2, <1>3, <1>4, <2>1
    <2>2. CASE i \in 1..Len(ts)
      <3>1. q[i] = ts[i] /\ r[i] = ts[i] /\ ts[i].name # tb.name
        BY <1>2, <1>3, <1>4, <2>2
      <3> HIDE DEF q, r
      <3> QED
        BY <1>4, <3>1
    <2> QED
      BY <1>4, <2>1, <2>2
  <1>6. p = r
    <2>1. p = [i \in 1..n |-> p[i]]
      BY <1>4
    <2>2. r = [i \in 1..n |-> r[i]]
      <3> HIDE DEF r
      <3> QED
        BY <1>3
    <2> HIDE DEF p, r, n
    <2> QED
      BY <1>5, <2>1, <2>2
  <1> DEFINE d == Content(q, <<>>)
  <1> HIDE DEF q
  <1>7. d.tables = q /\ d \in [tables : {q}, triggers : {<<>>}, others : {{}}]
    BY DEF Content
  <1> HIDE DEF d
  <1>8. WithTableRow(d, tb.name, row) = [d EXCEPT !.tables = p]
    <2>1. WithTableRow(d, tb.name, row)
            = [d EXCEPT !.tables = [i \in DOMAIN d.tables |->
                 IF d.tables[i].name = tb.name
                 THEN [d.tables[i] EXCEPT !.rows = Append(@, row)] ELSE d.tables[i]]]
      BY DEF WithTableRow
    <2> QED
      BY <1>7, <2>1, Zenon
  <1> HIDE DEF p, r
  <1>9. [d EXCEPT !.tables = p] = Content(p, <<>>)
    <2> DEFINE e == [d EXCEPT !.tables = p]
    <2>1. e \in [tables : {p}, triggers : {<<>>}, others : {{}}]
      BY <1>7
    <2> HIDE DEF e
    <2>2. e = [tables |-> p, triggers |-> <<>>, others |-> {}]
      BY <2>1
    <2> QED
      BY <2>2 DEF Content, e
  <1> QED
    BY <1>6, <1>8, <1>9 DEF d, q, r

\* A value that survives is accepted and comes back.
LEMMA LiteralSurvives ==
    ASSUME NEW column \in Column, ~column.generated, NEW v \in Values, Survives(column, v)
    PROVE  Accepts(column, Literal(v)) /\ Stored(column, Literal(v)) = v
  <1>1. CASE v = Null
    <2>1. Literal(v) = NullLiteral
      BY <1>1, PrintedAssumption DEF Literal, String
    <2> QED
      BY <1>1, <2>1 DEF Accepts, Stored, NullLiteral, Survives
  <1>2. CASE v # Null
    <2>1. Literal(v) = QuotedLiteral(Printed[v])
      BY <1>2, PrintedAssumption DEF Literal, String, Survives
    <2>2. Literal(v).quoted /\ Literal(v).text = Printed[v]
      BY <2>1 DEF QuotedLiteral
    <2>3. Printed[v] \notin Broken /\ ReadAs[column.affinity, Printed[v]] = v
      BY <1>2 DEF Survives
    <2> QED
      BY <2>2, <2>3, Zenon DEF Accepts, Stored
  <1> QED
    BY <1>1, <1>2

\* The table of the list with rows.
CopyOf(table, rows) == [name |-> table.name, columns |-> table.columns, rows |-> rows]

LEMMA CopyOfType ==
    ASSUME NEW table \in ListEntry, NEW rows \in Seq(Row)
    PROVE  CopyOf(table, rows) \in Table
  BY DEF CopyOf, ListEntry, Table

RowSurvives(columns, row) ==
    /\ \A c \in DOMAIN columns : ~columns[c].generated
    /\ Len(row) = Len(columns) => \A c \in DOMAIN columns : Survives(columns[c], row[c])

\* An INSERT adds its row to the table created last, or it fails because the
\* table has another number of columns.
LEMMA RowRestores ==
    ASSUME NEW ts \in Seq(Table), NEW table \in ListEntry, NEW rows \in Seq(Row), NEW row \in Row,
           \A i \in DOMAIN ts : ts[i].name # table.name, RowSurvives(table.columns, row)
    PROVE  LET s == ExecLine(Restoring(Append(ts, CopyOf(table, rows)), <<>>),
                             InsertLine(table.name, row))
           IN  /\ Len(row) = Len(table.columns) =>
                     s = Restoring(Append(ts, CopyOf(table, Append(rows, row))), <<>>)
               /\ Len(row) # Len(table.columns) => Failed(s)
  <1> DEFINE tb == CopyOf(table, rows)
             q == Append(ts, tb)
             n == Len(ts) + 1
             d == Content(q, <<>>)
             x == InsertLine(table.name, row)
             literals == [i \in DOMAIN row |-> Literal(row[i])]
             s == ExecLine(Restoring(q, <<>>), x)
  <1>1. tb \in Table /\ tb.name = table.name /\ tb.columns = table.columns /\ tb.rows = rows
    BY CopyOfType DEF CopyOf
  <1>2. table.columns \in Seq(Column) /\ table.name \in Names
    BY DEF ListEntry
  <1>3. row \in Seq(Values) /\ DOMAIN row = 1..Len(row) /\ Len(row) \in Nat
    BY DEF Row
  <1>4. literals \in Seq({literals[i] : i \in DOMAIN row}) /\ Len(literals) = Len(row)
        /\ \A i \in DOMAIN row : literals[i] = Literal(row[i])
    BY <1>3
  <1>5. x.op = "insert" /\ x.name = table.name /\ x.literals = literals
    BY DEF InsertLine
  <1> HIDE DEF tb
  <1>6. /\ q \in Seq(Table) /\ Len(q) = n /\ q[n] = tb /\ n \in 1..n /\ DOMAIN q = 1..n
        /\ \A i \in 1..Len(ts) : q[i] = ts[i]
        /\ \A i \in 1..n : i = n \/ i \in 1..Len(ts)
        /\ DOMAIN ts = 1..Len(ts)
    BY <1>1, AppendProperties, LenProperties
  <1>7. d.tables = q /\ d.triggers = <<>>
    BY DEF Content
  <1>8. \A j \in DOMAIN q : q[j].name = q[n].name => j = n
    <2>1. \A j \in 1..Len(ts) : q[j].name # table.name
      BY <1>6
    <2> HIDE DEF q, n
    <2> QED
      BY <1>1, <1>6, <2>1
  <1> HIDE DEF q, n, d, x, literals
  <1>9. TableNamed(d, table.name) = tb /\ HasTable(d, table.name)
    <2>1. TableNamed(d, d.tables[n].name) = d.tables[n]
      BY <1>6, <1>7, <1>8, TableOfName
    <2> QED
      BY <1>1, <1>6, <1>7, <2>1 DEF HasTable
  <1>10. ASSUME Len(row) # Len(table.columns)
         PROVE  Failed(s)
    <2>1. ~Runs(d, TRUE, x)
      <3>1. Runs(d, TRUE, x) => Len(table.columns) = Len(x.literals)
        BY <1>1, <1>5, <1>9 DEF Runs
      <3> QED
        BY <1>4, <1>5, <1>10, <3>1
    <2> QED
      BY <1>5, <2>1, RestoringLine DEF d
  <1>11. ASSUME Len(row) = Len(table.columns)
         PROVE  s = Restoring(Append(ts, CopyOf(table, Append(rows, row))), <<>>)
    <2>1. \A i \in DOMAIN table.columns :
             /\ Accepts(table.columns[i], literals[i])
             /\ Stored(table.columns[i], literals[i]) = row[i]
      <3>1. ASSUME NEW i \in DOMAIN table.columns
            PROVE  /\ Accepts(table.columns[i], literals[i])
                   /\ Stored(table.columns[i], literals[i]) = row[i]
        <4>1. i \in DOMAIN row /\ table.columns[i] \in Column /\ row[i] \in Values
          BY <1>2, <1>3, <1>11
        <4>2. Survives(table.columns[i], row[i]) /\ ~table.columns[i].generated
          BY <1>11 DEF RowSurvives
        <4> QED
          BY <1>4, <4>1, <4>2, LiteralSurvives
      <3> QED
        BY <3>1
    <2>2. Runs(d, TRUE, x)
      BY <1>1, <1>4, <1>5, <1>9, <1>11, <2>1 DEF Runs
    <2>3. [i \in DOMAIN table.columns |-> Stored(table.columns[i], literals[i])] = row
      <3> DEFINE stored == [i \in DOMAIN table.columns |-> Stored(table.columns[i], literals[i])]
      <3>1. DOMAIN table.columns = 1..Len(row)
        BY <1>2, <1>11
      <3>2. stored = [i \in 1..Len(row) |-> row[i]]
        BY <2>1, <3>1
      <3> QED
        BY <1>3, <3>2
    <2>4. Effect(d, x) = Insert(d, table.name, row)
      BY <1>1, <1>5, <1>9, <2>3 DEF Effect
    <2>5. Insert(d, table.name, row) = WithTableRow(d, table.name, row)
      BY <1>7, InsertAlone
    <2>6. WithTableRow(d, table.name, row)
            = Content(Append(ts, [tb EXCEPT !.rows = Append(@, row)]), <<>>)
      BY <1>1, LastTableRow DEF d, q
    <2>7. [tb EXCEPT !.rows = Append(@, row)] = CopyOf(table, Append(rows, row))
      <3> DEFINE e == [tb EXCEPT !.rows = Append(@, row)]
      <3>1. e \in [name : {table.name}, columns : {table.columns}, rows : {Append(rows, row)}]
        BY <1>1 DEF Table
      <3> HIDE DEF e
      <3>2. e = CopyOf(table, Append(rows, row))
        BY <3>1 DEF CopyOf
      <3> QED
        BY <3>2 DEF e
    <2>8. s = [now |-> Effect(d, x), kept |-> EmptyDatabase, open |-> TRUE, failed |-> FALSE]
      BY <1>5, <2>2, RestoringLine DEF d
    <2> QED
      BY <2>4, <2>5, <2>6, <2>7, <2>8 DEF Restoring
  <1> QED
    BY <1>10, <1>11 DEF s, q, tb, x

\* The CREATE of a table.
LEMMA CreateRestores ==
    ASSUME NEW ts \in Seq(Table), NEW table \in ListEntry,
           \A i \in DOMAIN ts : ts[i].name # table.name
    PROVE  LET s == ExecLine(Restoring(ts, <<>>), CreateLine(table))
           IN  /\ table.name \notin Reserved => s = Restoring(Append(ts, CopyOf(table, <<>>)), <<>>)
               /\ table.name \in Reserved => Failed(s)
  <1> DEFINE d == Content(ts, <<>>)
             x == CreateLine(table)
             tb == CopyOf(table, <<>>)
  <1>1. x.op = "create" /\ x.name = table.name /\ x.columns = table.columns
    BY DEF CreateLine
  <1>2. d.tables = ts /\ d \in [tables : {ts}, triggers : {<<>>}, others : {{}}]
    BY DEF Content
  <1>3. ~HasTable(d, table.name)
    BY <1>2 DEF HasTable
  <1>4. tb = [name |-> table.name, columns |-> table.columns, rows |-> <<>>]
    BY DEF CopyOf
  <1> HIDE DEF d, x, tb
  <1>5. Runs(d, TRUE, x) <=> table.name \notin Reserved
    BY <1>1, <1>3 DEF Runs
  <1>6. Effect(d, x) = Content(Append(ts, tb), <<>>)
    <2> DEFINE e == [d EXCEPT !.tables = Append(ts, tb)]
    <2>1. Effect(d, x) = [d EXCEPT !.tables = Append(d.tables, tb)]
      BY <1>1, <1>4 DEF Effect
    <2>2. Effect(d, x) = e
      BY <1>2, <2>1
    <2>3. e \in [tables : {Append(ts, tb)}, triggers : {<<>>}, others : {{}}]
      BY <1>2
    <2> HIDE DEF e
    <2>4. e = Content(Append(ts, tb), <<>>)
      BY <2>3 DEF Content
    <2> QED
      BY <2>2, <2>4
  <1>7. CASE table.name \notin Reserved
    <2>1. ExecLine(Restoring(ts, <<>>), x)
            = [now |-> Effect(d, x), kept |-> EmptyDatabase, open |-> TRUE, failed |-> FALSE]
      BY <1>1, <1>5, <1>7, RestoringLine DEF d
    <2> QED
      BY <1>6, <1>7, <2>1 DEF Restoring, x, tb
  <1>8. CASE table.name \in Reserved
    <2>1. Failed(ExecLine(Restoring(ts, <<>>), x))
      BY <1>1, <1>5, <1>8, RestoringLine DEF d
    <2> QED
      BY <1>8, <2>1 DEF x
  <1> QED
    BY <1>7, <1>8

\* The statements of a table restore it, unless its name is reserved or a row
\* has another number of cells than the table of the list has columns.
TableRestored(s, ts, table, rows) ==
    \/ s = Restoring(Append(ts, CopyOf(table, rows)), <<>>)
    \/ Failed(s) /\ ~Fits(table, rows)

LEMMA TableRestores ==
    ASSUME NEW f \in Seq(Line), NEW ts \in Seq(Table), NEW table \in ListEntry,
           NEW rows \in Seq(Row), \A i \in DOMAIN ts : ts[i].name # table.name,
           RowsSurvive(table.columns, rows), Executed(f) = Restoring(ts, <<>>)
    PROVE  TableRestored(Executed(f \o TableLines(table, rows)), ts, table, rows)
  <1> DEFINE lines == TableLines(table, rows)
             create == CreateLine(table)
             inserts == InsertLines(table.name, rows)
             done(k) == Restoring(Append(ts, CopyOf(table, SubSeq(rows, 1, k))), <<>>)
  <1>1. lines \in Seq(Line) /\ lines = <<create>> \o inserts
    BY TableLinesType DEF TableLines
  <1>2. /\ inserts \in Seq({inserts[i] : i \in DOMAIN rows}) /\ Len(inserts) = Len(rows)
        /\ \A i \in 1..Len(rows) : inserts[i] = InsertLine(table.name, rows[i])
    <2>1. DOMAIN rows = 1..Len(rows) /\ Len(rows) \in Nat
      OBVIOUS
    <2>2. inserts = [i \in 1..Len(rows) |-> InsertLine(table.name, rows[i])]
      BY <2>1 DEF InsertLines
    <2> HIDE DEF inserts
    <2> QED
      BY <2>1, <2>2
  <1> HIDE DEF lines, create, inserts
  <1>3. Len(rows) \in Nat /\ DOMAIN rows = 1..Len(rows)
    OBVIOUS
  <1>4. /\ Len(lines) = Len(rows) + 1 /\ lines[1] = create
        /\ \A i \in 1..Len(rows) : lines[i + 1] = inserts[i]
    BY <1>1, <1>2, <1>3
  <1>5. PICK s : /\ s[0] = Executed(f)
                 /\ Steps(s, lines)
                 /\ \A k \in 0..Len(lines) : s[k] = Executed(f \o SubSeq(lines, 1, k))
                 /\ s[Len(lines)] = Executed(f \o lines)
    <2>1. lines \in Seq(Line)
      BY <1>1
    <2> QED
      BY <2>1, ExecutedSteps
  <1> DEFINE Step(k) == s[k + 1] = done(k) \/ (Failed(s[k + 1]) /\ ~Fits(table, rows))
             All == {k \in Nat : k \in 0..Len(rows) => Step(k)}
  <1>6. 0 \in All
    <2>1. s[1] = ExecLine(Restoring(ts, <<>>), create)
      <3>1. 0 \in 0..(Len(lines) - 1) /\ 0 + 1 = 1
        BY <1>3, <1>4
      <3>2. s[0 + 1] = ExecLine(s[0], lines[0 + 1])
        BY <1>5, <3>1 DEF Steps
      <3> QED
        BY <1>4, <1>5, <3>1, <3>2
    <2>2. SubSeq(rows, 1, 0) = <<>>
      OBVIOUS
    <2>3. CASE table.name \notin Reserved
      <3>1. s[1] = Restoring(Append(ts, CopyOf(table, <<>>)), <<>>)
        BY <2>1, <2>3, CreateRestores DEF create
      <3>2. s[1] = done(0)
        BY <2>2, <3>1, Zenon
      <3>3. 0 + 1 = 1
        OBVIOUS
      <3> HIDE DEF done
      <3> QED
        BY <3>2, <3>3
    <2>4. CASE table.name \in Reserved
      <3>1. Failed(s[1]) /\ ~Fits(table, rows)
        BY <2>1, <2>4, CreateRestores DEF create, Fits
      <3>2. 0 + 1 = 1
        OBVIOUS
      <3> HIDE DEF done
      <3> QED
        BY <3>1, <3>2
    <2> QED
      BY <2>3, <2>4
  <1>7. ASSUME NEW k \in Nat, k \in All PROVE k + 1 \in All
    <2> DEFINE m == k + 1
               row == rows[m]
               part == SubSeq(rows, 1, k)
    <2>1. SUFFICES ASSUME m \in 0..Len(rows) PROVE Step(m)
      OBVIOUS
    <2>2. m \in 1..Len(rows) /\ m \in 0..(Len(lines) - 1) /\ k \in 0..Len(rows)
      BY <1>3, <1>4, <2>1
    <2>3. Step(k)
      BY <1>7, <2>2
    <2>4. row \in Row
      BY <1>3, <2>2
    <2>5. part \in Seq(Row) /\ SubSeq(rows, 1, m) = Append(part, row)
      BY <2>2, <2>4
    <2>6. s[m + 1] = ExecLine(s[m], InsertLine(table.name, row))
      <3>1. s[m + 1] = ExecLine(s[m], lines[m + 1])
        BY <1>5, <2>2 DEF Steps
      <3>2. lines[m + 1] = InsertLine(table.name, row)
        BY <1>2, <1>4, <2>2
      <3> QED
        BY <3>1, <3>2
    <2>7. RowSurvives(table.columns, row)
      BY <1>3, <2>2 DEF RowsSurvive, RowSurvives
    <2>8. CASE Failed(s[m]) /\ ~Fits(table, rows)
      <3>1. Failed(s[m + 1])
        BY <2>6, <2>8, FailedLine
      <3> HIDE DEF m, done
      <3> QED
        BY <2>8, <3>1
    <2>9. CASE s[m] = done(k)
      <3>1. s[m] = Restoring(Append(ts, CopyOf(table, part)), <<>>)
        BY <2>9
      <3> HIDE DEF row, part
      <3>2. CASE Len(row) = Len(table.columns)
        <4>1. s[m + 1] = Restoring(Append(ts, CopyOf(table, Append(part, row))), <<>>)
          BY <2>4, <2>5, <2>6, <2>7, <3>1, <3>2, RowRestores
        <4>2. s[m + 1] = done(m)
          BY <2>5, <4>1
        <4> QED
          BY <4>2
      <3>3. CASE Len(row) # Len(table.columns)
        <4>1. Failed(s[m + 1])
          BY <2>4, <2>5, <2>6, <2>7, <3>1, <3>3, RowRestores
        <4>2. ~Fits(table, rows)
          BY <1>3, <2>2, <3>3 DEF Fits, row
        <4> HIDE DEF m, done
        <4> QED
          BY <4>1, <4>2
      <3> QED
        BY <3>2, <3>3
    <2> QED
      BY <2>3, <2>8, <2>9
  <1> HIDE DEF All
  <1>8. Len(rows) \in All
    BY <1>3, <1>6, <1>7, Induct
  <1>9. Step(Len(rows))
    BY <1>3, <1>8 DEF All
  <1>10. SubSeq(rows, 1, Len(rows)) = rows
    OBVIOUS
  <1> QED
    BY <1>4, <1>5, <1>9, <1>10 DEF TableRestored, lines

\* The triggers follow the tables, unless one is for a table that is missing.
TriggersRestored(s, ts, trs) ==
    \/ s = Restoring(ts, trs)
    \/ Failed(s) /\ \E i \in DOMAIN trs : \A j \in DOMAIN ts : ts[j].name # trs[i].on

LEMMA TriggerRestores ==
    ASSUME NEW ts, NEW trs, NEW trigger
    PROVE  LET s == ExecLine(Restoring(ts, trs), TriggerLine(trigger))
           IN  /\ (\E j \in DOMAIN ts : ts[j].name = trigger.on) => s = Restoring(ts, Append(trs, trigger))
               /\ (\A j \in DOMAIN ts : ts[j].name # trigger.on) => Failed(s)
  <1> DEFINE d == Content(ts, trs)
             x == TriggerLine(trigger)
  <1>1. x.op = "trigger" /\ x.trigger = trigger
    BY DEF TriggerLine
  <1>2. d.tables = ts /\ d.triggers = trs /\ d \in [tables : {ts}, triggers : {trs}, others : {{}}]
    BY DEF Content
  <1> HIDE DEF d, x
  <1>3. Runs(d, TRUE, x) <=> \E j \in DOMAIN ts : ts[j].name = trigger.on
    BY <1>1, <1>2 DEF Runs, HasTable
  <1>4. Effect(d, x) = Content(ts, Append(trs, trigger))
    <2> DEFINE e == [d EXCEPT !.triggers = Append(trs, trigger)]
    <2>1. Effect(d, x) = [d EXCEPT !.triggers = Append(d.triggers, trigger)]
      BY <1>1 DEF Effect
    <2>2. Effect(d, x) = e
      BY <1>2, <2>1
    <2>3. e \in [tables : {ts}, triggers : {Append(trs, trigger)}, others : {{}}]
      BY <1>2
    <2> HIDE DEF e
    <2>4. e = Content(ts, Append(trs, trigger))
      BY <2>3 DEF Content
    <2> QED
      BY <2>2, <2>4
  <1>5. CASE \E j \in DOMAIN ts : ts[j].name = trigger.on
    <2>1. Runs(d, TRUE, x)
      BY <1>3, <1>5
    <2>2. ExecLine(Restoring(ts, trs), x)
            = [now |-> Effect(d, x), kept |-> EmptyDatabase, open |-> TRUE, failed |-> FALSE]
      BY <1>1, <2>1, RestoringLine DEF d
    <2> QED
      BY <1>4, <1>5, <2>2 DEF Restoring, x
  <1>6. CASE \A j \in DOMAIN ts : ts[j].name # trigger.on
    <2>1. ~Runs(d, TRUE, x)
      BY <1>3, <1>6
    <2>2. Failed(ExecLine(Restoring(ts, trs), x))
      BY <1>1, <2>1, RestoringLine DEF d
    <2> QED
      BY <1>6, <2>2 DEF x
  <1> QED
    BY <1>5, <1>6

LEMMA TriggersRestore ==
    ASSUME db \in Database, NEW f \in Seq(Line), NEW ts, Executed(f) = Restoring(ts, <<>>)
    PROVE  TriggersRestored(Executed(f \o TriggerLines), ts, db.triggers)
  <1> DEFINE lines == TriggerLines
             trs == db.triggers
             done(k) == Restoring(ts, SubSeq(trs, 1, k))
             Missing == \E i \in DOMAIN trs : \A j \in DOMAIN ts : ts[j].name # trs[i].on
  <1>1. trs \in Seq(Trigger) /\ lines \in Seq(Line)
    BY TriggerLinesType DEF Database
  <1>2. /\ Len(lines) = Len(trs) /\ Len(trs) \in Nat /\ DOMAIN trs = 1..Len(trs)
        /\ \A i \in 1..Len(trs) : lines[i] = TriggerLine(trs[i])
    <2>1. DOMAIN trs = 1..Len(trs) /\ Len(trs) \in Nat
      BY <1>1
    <2>2. lines = [i \in 1..Len(trs) |-> TriggerLine(trs[i])]
      BY <2>1 DEF TriggerLines
    <2> HIDE DEF lines, trs
    <2> QED
      BY <2>1, <2>2
  <1> HIDE DEF lines, trs
  <1>3. PICK s : /\ s[0] = Executed(f)
                 /\ Steps(s, lines)
                 /\ \A k \in 0..Len(lines) : s[k] = Executed(f \o SubSeq(lines, 1, k))
                 /\ s[Len(lines)] = Executed(f \o lines)
    <2>1. lines \in Seq(Line)
      BY <1>1
    <2> QED
      BY <2>1, ExecutedSteps
  <1> DEFINE Step(k) == s[k] = done(k) \/ (Failed(s[k]) /\ Missing)
             All == {k \in Nat : k \in 0..Len(trs) => Step(k)}
  <1>4. 0 \in All
    <2>1. SubSeq(trs, 1, 0) = <<>>
      BY <1>1
    <2>2. s[0] = done(0)
      BY <1>3, <2>1, Zenon
    <2> HIDE DEF done
    <2> QED
      BY <2>2
  <1>5. ASSUME NEW k \in Nat, k \in All PROVE k + 1 \in All
    <2> DEFINE m == k + 1
               trigger == trs[m]
               part == SubSeq(trs, 1, k)
    <2>1. SUFFICES ASSUME m \in 0..Len(trs) PROVE Step(m)
      OBVIOUS
    <2>2. m \in 1..Len(trs) /\ k \in 0..(Len(lines) - 1) /\ k \in 0..Len(trs)
      BY <1>2, <2>1
    <2>3. Step(k)
      BY <1>5, <2>2
    <2>4. trigger \in Trigger
      BY <1>1, <1>2, <2>2
    <2>5. SubSeq(trs, 1, m) = Append(part, trigger)
      BY <1>1, <2>2, <2>4
    <2>6. s[m] = ExecLine(s[k], TriggerLine(trigger))
      <3>1. s[m] = ExecLine(s[k], lines[m])
        BY <1>3, <2>2 DEF Steps
      <3>2. lines[m] = TriggerLine(trigger)
        BY <1>2, <2>2
      <3> QED
        BY <3>1, <3>2
    <2>7. CASE Failed(s[k]) /\ Missing
      <3>1. Failed(s[m])
        BY <2>6, <2>7, FailedLine
      <3> HIDE DEF m, done, Missing
      <3> QED
        BY <2>7, <3>1
    <2>8. CASE s[k] = done(k)
      <3>1. s[k] = Restoring(ts, part)
        BY <2>8
      <3>2. trigger = trs[m] /\ m \in DOMAIN trs
        BY <1>2, <2>2
      <3> HIDE DEF trigger, part, m
      <3>3. CASE \E j \in DOMAIN ts : ts[j].name = trigger.on
        <4>1. s[m] = Restoring(ts, Append(part, trigger))
          BY <2>6, <3>1, <3>3, TriggerRestores
        <4>2. s[m] = done(m)
          BY <2>5, <4>1
        <4> QED
          BY <4>2
      <3>4. CASE \A j \in DOMAIN ts : ts[j].name # trigger.on
        <4>1. Failed(s[m])
          BY <2>6, <3>1, <3>4, TriggerRestores
        <4>2. Missing
          BY <3>2, <3>4
        <4> HIDE DEF done, Missing
        <4> QED
          BY <4>1, <4>2
      <3> QED
        BY <3>3, <3>4
    <2> QED
      BY <2>3, <2>7, <2>8
  <1> HIDE DEF All
  <1>6. Len(trs) \in All
    BY <1>2, <1>4, <1>5, Induct
  <1>7. Step(Len(trs))
    BY <1>2, <1>6 DEF All
  <1>8. SubSeq(trs, 1, Len(trs)) = trs
    BY <1>1
  <1>9. s[Len(trs)] = Restoring(ts, trs) \/ (Failed(s[Len(trs)]) /\ Missing)
    BY <1>7, <1>8
  <1>10. s[Len(trs)] = Executed(f \o lines)
    BY <1>2, <1>3
  <1> HIDE DEF Missing
  <1>11. Executed(f \o lines) = Restoring(ts, trs) \/ (Failed(Executed(f \o lines)) /\ Missing)
    BY <1>9, <1>10
  <1> QED
    BY <1>11, Zenon DEF TriggersRestored, lines, trs, Missing

TriggersHaveTables(ts, trs) ==
    \A i \in DOMAIN trs : \E j \in DOMAIN ts : ts[j].name = trs[i].on

\* The whole end of a dump: the triggers, and the COMMIT that keeps all of it.
LEMMA FinishRestores ==
    ASSUME db \in Database, NEW f \in Seq(Line), NEW ts, Midway(Executed(f)),
           Executed(f) = Restoring(ts, <<>>) \/ Failed(Executed(f))
    PROVE  LET restored == Restored(f \o (TriggerLines \o Footer))
           IN  /\ \/ restored = EmptyDatabase
                  \/ (Executed(f) = Restoring(ts, <<>>) /\ restored = Content(ts, db.triggers))
               /\ ((Executed(f) = Restoring(ts, <<>>) /\ TriggersHaveTables(ts, db.triggers))
                     => restored = Content(ts, db.triggers))
  <1> DEFINE commit == [op |-> "commit"]
             T == TriggerLines
             g == f \o T
             All == TriggersHaveTables(ts, db.triggers)
             s == Executed(g)
             after == ExecLine(s, commit)
  <1>1. T \in Seq(Line) /\ NoControl(T)
    BY TriggerLinesType, TriggerLinesControl
  <1>2. commit \in Line /\ commit.op = "commit" /\ T \o Footer = T \o <<commit>>
    BY DEF Line, Footer
  <1>3. Midway(s)
    <2>1. SubSeq(T, 1, Len(T)) = T /\ Len(T) \in 0..Len(T)
      BY <1>1
    <2> HIDE DEF T
    <2> QED
      BY <1>1, <2>1, MidwayLines
  <1> HIDE DEF T, commit
  <1>4. g \in Seq(Line) /\ f \o (T \o <<commit>>) = Append(g, commit)
    BY <1>1, <1>2
  <1>5. Executed(Append(g, commit)) = after
    <2> HIDE DEF g
    <2> QED
      BY <1>2, <1>4, ExecutedAppend
  <1>6. Restored(f \o (TriggerLines \o Footer)) = after.kept
    BY <1>2, <1>4, <1>5, Zenon DEF Restored, T
  <1>7. Settled(after)
    BY <1>2, <1>3, SettledLine
  <1>8. ASSUME Failed(s) PROVE after.kept = EmptyDatabase
    <2>1. Failed(after)
      BY <1>8, FailedLine
    <2> HIDE DEF after
    <2> QED
      BY <1>7, <2>1 DEF Settled, Failed
  <1>9. ASSUME s = Restoring(ts, db.triggers) PROVE after.kept = Content(ts, db.triggers)
    <2>1. s.now = Content(ts, db.triggers) /\ s.failed = FALSE /\ s.open = TRUE
      BY <1>9 DEF Restoring
    <2>2. Runs(s.now, s.open, commit) /\ Effect(s.now, commit) = s.now
      BY <1>2, <2>1 DEF Runs, Effect
    <2> HIDE DEF s
    <2>3. after = [now |-> s.now, open |-> FALSE, kept |-> s.now, failed |-> FALSE]
      BY <1>2, <2>1, <2>2 DEF ExecLine
    <2> QED
      BY <2>1, <2>3
  <1>10. ASSUME Executed(f) = Restoring(ts, <<>>)
         PROVE  s = Restoring(ts, db.triggers) \/ (Failed(s) /\ ~All)
    <2>1. TriggersRestored(s, ts, db.triggers)
      BY <1>10, TriggersRestore DEF T
    <2> HIDE DEF s
    <2> QED
      BY <2>1 DEF TriggersRestored, TriggersHaveTables
  <1>11. ASSUME Failed(Executed(f)) PROVE Failed(s)
    BY <1>1, <1>11, FailedLines
  <1> HIDE DEF s, after, All
  <1>12. after.kept = EmptyDatabase
         \/ (Executed(f) = Restoring(ts, <<>>) /\ after.kept = Content(ts, db.triggers))
    BY <1>8, <1>9, <1>10, <1>11
  <1>13. Executed(f) = Restoring(ts, <<>>) /\ All => after.kept = Content(ts, db.triggers)
    BY <1>8, <1>9, <1>10
  <1> QED
    BY <1>6, <1>12, <1>13 DEF All

-----------------------------------------------------------------------------
(* What splits a file *)

LEMMA SplitsAppended ==
    ASSUME NEW f \in Seq(Line), NEW g \in Seq(Line), ~Splits(f), ~Splits(g)
    PROVE  ~Splits(f \o g)
  <1> DEFINE h == f \o g
  <1>1. SUFFICES ASSUME NEW i \in DOMAIN h PROVE ~SplitAt(h[i])
    BY DEF Splits
  <1>2. i \in 1..(Len(f) + Len(g)) /\ Len(f) \in Nat /\ Len(g) \in Nat
    OBVIOUS
  <1>3. CASE i <= Len(f)
    <2>1. h[i] = f[i] /\ i \in DOMAIN f
      BY <1>2, <1>3
    <2> QED
      BY <2>1 DEF Splits
  <1>4. CASE i > Len(f)
    <2>1. h[i] = g[i - Len(f)] /\ i - Len(f) \in DOMAIN g
      BY <1>2, <1>4
    <2> QED
      BY <2>1 DEF Splits
  <1> QED
    BY <1>2, <1>3, <1>4

\* Only the INSERTs hold values.
LEMMA NoInserts ==
    ASSUME NEW lines, \A i \in DOMAIN lines : lines[i].op # "insert"
    PROVE  ~Splits(lines)
  BY DEF Splits, SplitAt

LEMMA PlainRow ==
    ASSUME NEW name, NEW row \in Row, \A c \in DOMAIN row : Printed[row[c]] \notin Splitting
    PROVE  ~SplitAt(InsertLine(name, row))
  <1> DEFINE literals == [c \in DOMAIN row |-> Literal(row[c])]
  <1>1. InsertLine(name, row).literals = literals
    BY DEF InsertLine
  <1>2. ASSUME NEW c \in DOMAIN literals
        PROVE  ~(literals[c].quoted /\ literals[c].text \in Splitting)
    <2>1. literals[c] = Literal(row[c]) /\ Printed[row[c]] \notin Splitting
      OBVIOUS
    <2>2. CASE String(row[c]) = EmptyText
      BY <2>1, <2>2 DEF Literal, NullLiteral
    <2>3. CASE String(row[c]) # EmptyText
      <3>1. String(row[c]) = Printed[row[c]]
        BY <2>3 DEF String
      <3>2. literals[c].text = Printed[row[c]]
        BY <2>1, <2>3, <3>1 DEF Literal, QuotedLiteral
      <3> QED
        BY <2>1, <3>2
    <2> QED
      BY <2>2, <2>3
  <1> HIDE DEF literals
  <1> QED
    BY <1>1, <1>2 DEF SplitAt

LEMMA TableUnsplit ==
    ASSUME NEW table \in ListEntry, NEW rows \in Seq(Row), RowsSurvive(table.columns, rows)
    PROVE  ~Splits(TableLines(table, rows))
  <1> DEFINE create == CreateLine(table)
             inserts == InsertLines(table.name, rows)
  <1>1. create.op # "insert"
    BY DEF CreateLine
  <1>2. /\ inserts \in Seq({inserts[i] : i \in DOMAIN rows}) /\ Len(inserts) = Len(rows)
        /\ \A i \in 1..Len(rows) : inserts[i] = InsertLine(table.name, rows[i])
    <2>1. DOMAIN rows = 1..Len(rows) /\ Len(rows) \in Nat
      OBVIOUS
    <2>2. inserts = [i \in 1..Len(rows) |-> InsertLine(table.name, rows[i])]
      BY <2>1 DEF InsertLines
    <2> HIDE DEF inserts
    <2> QED
      BY <2>1, <2>2
  <1>3. \A i \in 1..Len(rows) : ~SplitAt(inserts[i])
    <2>1. ASSUME NEW i \in 1..Len(rows) PROVE ~SplitAt(inserts[i])
      <3>1. rows[i] \in Row /\ \A c \in DOMAIN rows[i] : Printed[rows[i][c]] \notin Splitting
        BY DEF RowsSurvive
      <3> QED
        BY <1>2, <3>1, PlainRow
    <2> QED
      BY <2>1
  <1> DEFINE lines == TableLines(table, rows)
  <1>5. lines \in Seq(Line) /\ lines = <<create>> \o inserts
    BY TableLinesType DEF TableLines
  <1> HIDE DEF create, inserts, lines
  <1>4. /\ DOMAIN lines = 1..(Len(rows) + 1) /\ lines[1] = create /\ Len(rows) \in Nat
        /\ \A i \in 1..Len(rows) : lines[i + 1] = inserts[i]
    BY <1>2, <1>5
  <1>6. ASSUME NEW i \in DOMAIN lines PROVE ~SplitAt(lines[i])
    <2>1. CASE i = 1
      BY <1>1, <1>4, <2>1 DEF SplitAt
    <2>2. CASE i # 1
      <3>1. i - 1 \in 1..Len(rows) /\ i = (i - 1) + 1
        BY <1>4, <2>2
      <3> QED
        BY <1>3, <1>4, <3>1
    <2> QED
      BY <2>1, <2>2
  <1> QED
    BY <1>6 DEF Splits, lines

LEMMA EndUnsplit == ASSUME db \in Database PROVE ~Splits(TriggerLines \o Footer)
  <1>1. \A i \in DOMAIN Footer : Footer[i].op # "insert"
    BY DEF Footer
  <1>2. \A i \in DOMAIN TriggerLines : TriggerLines[i].op # "insert"
    BY DEF TriggerLines, TriggerLine
  <1>3. ~Splits(Footer) /\ ~Splits(TriggerLines)
    BY <1>1, <1>2, NoInserts
  <1>4. TriggerLines \in Seq(Line) /\ Footer \in Seq(Line)
    BY TriggerLinesType DEF Footer, Line
  <1> QED
    BY <1>3, <1>4, SplitsAppended

LEMMA HeaderUnsplit == ~Splits(Header)
  <1>1. \A i \in DOMAIN Header : Header[i].op # "insert"
    BY DEF Header
  <1> QED
    BY <1>1, NoInserts

-----------------------------------------------------------------------------
(* What a dump has read *)

\* The list of tables of a database.
ListOf(d) == [i \in DOMAIN d.tables |-> [name |-> d.tables[i].name, columns |-> d.tables[i].columns]]

\* The rows of table i of the list in version at[i], and the tables they make.
RowsAt(vs, list, at, i) == TableNamed(vs[at[i]], list[i].name).rows
Copies(vs, list, at) == [i \in DOMAIN at |-> CopyOf(list[i], RowsAt(vs, list, at, i))]

\* The list is of version l, and each table of it that was written was there
\* when its rows were read, not before those of the tables before it.
Instants(vs, list, l, at) ==
    /\ list = ListOf(vs[l])
    /\ \A i \in DOMAIN at : HasTable(vs[at[i]], list[i].name)
    /\ \A i \in DOMAIN at : \A j \in 1..i : at[j] <= at[i]

\* If the columns take the rows, the file restores the copies, unless one does
\* not fit.
AllSurvive(vs, list, at) ==
    \A i \in DOMAIN at : RowsSurvive(list[i].columns, RowsAt(vs, list, at, i))
AllFit(vs, list, at) == \A i \in DOMAIN at : Fits(list[i], RowsAt(vs, list, at, i))
Written(f, vs, list, at) ==
    AllSurvive(vs, list, at) =>
        /\ ~Splits(f)
        /\ \/ Executed(f) = Restoring(Copies(vs, list, at), <<>>)
           \/ Failed(Executed(f)) /\ ~AllFit(vs, list, at)

VersionsInv == /\ db = versions[Len(versions)]
               /\ \A i \in DOMAIN versions : versions[i] \in Databases

\* The tables written so far, while a dump runs without a failure.
Reads(l, at) ==
    /\ inTx => l = Len(versions)
    /\ Instants(versions, tables, l, at)
    /\ Written(file, versions, tables, at)

DumpInv ==
    /\ VersionsInv
    /\ pc = "list" /\ good => file = Header
    /\ pc = "tables" /\ good =>
          \E l \in began..Len(versions) : \E at \in [1..(next - 1) -> l..Len(versions)] : Reads(l, at)
    /\ CompletedDumpRestores
    /\ TablesAreOrderedInstants

\* Every version is a database that sqlite can hold.
LEMMA VersionType ==
    ASSUME VersionsInv, NEW k \in DOMAIN versions
    PROVE  versions[k] \in Database /\ Consistent(versions[k])
  BY DatabasesAssumption DEF VersionsInv

\* The table of a name is in the database.
LEMMA NamedTable ==
    ASSUME NEW d \in Database, NEW name, HasTable(d, name)
    PROVE  \E i \in DOMAIN d.tables : /\ d.tables[i].name = name
                                      /\ TableNamed(d, name) = d.tables[i]
                                      /\ d.tables[i].rows \in Seq(Row)
  <1>1. d.tables \in Seq(Table)
    BY DEF Database
  <1> DEFINE i == CHOOSE i \in DOMAIN d.tables : d.tables[i].name = name
  <1>2. i \in DOMAIN d.tables /\ d.tables[i].name = name
    BY DEF HasTable
  <1>3. TableNamed(d, name) = d.tables[i]
    BY DEF TableNamed
  <1> HIDE DEF i
  <1>4. d.tables[i].rows \in Seq(Row)
    <2>1. d.tables[i] \in Table
      BY <1>1, <1>2
    <2> QED
      BY <2>1 DEF Table
  <1> QED
    BY <1>2, <1>3, <1>4

\* The list has the tables of its version, under different names.
LEMMA ListType ==
    ASSUME NEW d \in Database, Consistent(d)
    PROVE  /\ ListOf(d) \in Seq(ListEntry)
           /\ DOMAIN ListOf(d) = DOMAIN d.tables /\ Len(ListOf(d)) = Len(d.tables)
           /\ \A i \in DOMAIN d.tables : /\ ListOf(d)[i].name = d.tables[i].name
                                         /\ ListOf(d)[i].columns = d.tables[i].columns
           /\ NamesDiffer(ListOf(d))
  <1>1. d.tables \in Seq(Table)
    BY DEF Database
  <1>2. DOMAIN d.tables = 1..Len(d.tables) /\ Len(d.tables) \in Nat
    BY <1>1
  <1> DEFINE entry(i) == [name |-> d.tables[i].name, columns |-> d.tables[i].columns]
             n == Len(d.tables)
             list == ListOf(d)
  <1>3. \A i \in 1..n : entry(i) \in ListEntry
    <2>1. ASSUME NEW i \in 1..n
          PROVE  d.tables[i].name \in Names /\ d.tables[i].columns \in Seq(Column)
      <3>1. d.tables[i] \in Table
        BY <1>1, <2>1
      <3> QED
        BY <3>1 DEF Table
    <2> QED
      BY <2>1 DEF ListEntry
  <1>4. list = [i \in 1..n |-> entry(i)]
    BY <1>2 DEF ListOf
  <1>5. \A i \in 1..n : entry(i).name = d.tables[i].name /\ entry(i).columns = d.tables[i].columns
    OBVIOUS
  <1> HIDE DEF entry, n, list
  <1>6. n \in Nat /\ DOMAIN d.tables = 1..n
    BY <1>2 DEF n
  <1>7. list \in Seq(ListEntry) /\ Len(list) = n /\ DOMAIN list = 1..n
    BY <1>3, <1>4, <1>6
  <1>8. \A i \in 1..n : list[i].name = d.tables[i].name /\ list[i].columns = d.tables[i].columns
    BY <1>4, <1>5
  <1>9. NamesDiffer(list)
    BY <1>6, <1>7, <1>8 DEF NamesDiffer, Consistent
  <1> QED
    BY <1>6, <1>7, <1>8, <1>9 DEF list, n

\* A new version changes nothing of what was read from the older ones.
LEMMA OlderVersions ==
    ASSUME NEW vs, NEW ws, NEW list, NEW n, NEW l, NEW at \in [1..n -> l..Len(vs)], l \in 1..Len(vs),
           \A k \in 1..Len(vs) : ws[k] = vs[k], Len(vs) \in Nat, NEW f
    PROVE  /\ Instants(vs, list, l, at) => Instants(ws, list, l, at)
           /\ Written(f, vs, list, at) => Written(f, ws, list, at)
  <1>1. \A i \in DOMAIN at : ws[at[i]] = vs[at[i]]
    OBVIOUS
  <1>2. ws[l] = vs[l]
    OBVIOUS
  <1>3. \A i \in DOMAIN at : RowsAt(ws, list, at, i) = RowsAt(vs, list, at, i)
    BY <1>1 DEF RowsAt
  <1>4. Copies(ws, list, at) = Copies(vs, list, at)
    BY <1>3 DEF Copies
  <1> QED
    BY <1>1, <1>2, <1>3, <1>4 DEF Instants, Written, AllSurvive, AllFit

\* The copies are tables, under the names of the list.
LEMMA CopiesType ==
    ASSUME TypeOK, VersionsInv, NEW l \in 1..Len(versions), NEW n \in Nat, n <= Len(tables),
           NEW at \in [1..n -> l..Len(versions)], Instants(versions, tables, l, at)
    PROVE  /\ Copies(versions, tables, at) \in Seq(Table)
           /\ Len(Copies(versions, tables, at)) = n
           /\ \A i \in 1..n : Copies(versions, tables, at)[i]
                                = CopyOf(tables[i], RowsAt(versions, tables, at, i))
  <1> DEFINE copy(i) == CopyOf(tables[i], RowsAt(versions, tables, at, i))
             ts == Copies(versions, tables, at)
  <1>1. \A i \in 1..n : copy(i) \in Table
    <2>1. ASSUME NEW i \in 1..n PROVE copy(i) \in Table
      <3>1. at[i] \in DOMAIN versions /\ tables[i] \in ListEntry
        BY DEF TypeOK
      <3>2. versions[at[i]] \in Database /\ HasTable(versions[at[i]], tables[i].name)
        BY <3>1, VersionType DEF Instants
      <3>3. RowsAt(versions, tables, at, i) \in Seq(Row)
        BY <3>2, NamedTable DEF RowsAt
      <3> QED
        BY <3>1, <3>3, CopyOfType
    <2> QED
      BY <2>1
  <1>2. ts = [i \in 1..n |-> copy(i)]
    BY DEF Copies
  <1> HIDE DEF copy, ts
  <1>3. ts \in Seq(Table) /\ Len(ts) = n /\ \A i \in 1..n : ts[i] = copy(i)
    BY <1>1, <1>2
  <1> QED
    BY <1>3 DEF ts, copy

\* A table that is read and written now is read at the newest version.
LEMMA ReadTable ==
    ASSUME TypeOK, VersionsInv, next <= Len(tables), CanSelect(tables[next].name),
           NEW l \in began..Len(versions), NEW at \in [1..(next - 1) -> l..Len(versions)],
           Reads(l, at),
           NEW g, g = file \o TableLines(tables[next], TableNamed(db, tables[next].name).rows)
    PROVE  \E later \in [1..next -> l..Len(versions)] :
              Instants(versions, tables, l, later) /\ Written(g, versions, tables, later)
  <1> DEFINE last == Len(versions)
             n == next - 1
             later == [i \in 1..next |-> IF i = next THEN last ELSE at[i]]
             table == tables[next]
             rows == TableNamed(db, table.name).rows
             ts == Copies(versions, tables, at)
             us == Copies(versions, tables, later)
  <1>1. /\ next \in 1..Len(tables) /\ n \in Nat /\ n <= Len(tables) /\ Len(tables) \in Nat
        /\ last \in Nat \ {0} /\ last \in DOMAIN versions /\ l \in 1..last /\ l \in DOMAIN versions
        /\ db = versions[last] /\ file \in Seq(Line)
    BY DEF TypeOK, VersionsInv
  <1>2. /\ later \in [1..next -> l..last]
        /\ later[next] = last
        /\ \A i \in 1..n : later[i] = at[i]
        /\ \A i \in 1..next : i = next \/ i \in 1..n
        /\ next \in 1..next /\ \A i \in 1..n : i \in 1..next
    BY <1>1
  <1>3. table \in ListEntry /\ table.name \in Names
    <2>1. table \in ListEntry
      BY <1>1 DEF TypeOK
    <2> QED
      BY <2>1 DEF ListEntry
  <1>4. HasTable(db, table.name)
    BY DEF CanSelect
  <1>5. rows \in Seq(Row)
    BY <1>3, SelectedRows DEF TypeOK
  <1> HIDE DEF later, table, rows, ts, us, last, n
  <1>6. RowsAt(versions, tables, later, next) = rows
    BY <1>1, <1>2 DEF RowsAt, rows, table
  <1>7. \A i \in 1..n : RowsAt(versions, tables, later, i) = RowsAt(versions, tables, at, i)
    BY <1>2 DEF RowsAt
  <1>8. Instants(versions, tables, l, later)
    <2>1. Instants(versions, tables, l, at)
      BY DEF Reads
    <2>2. \A i \in 1..next : HasTable(versions[later[i]], tables[i].name)
      <3>1. \A i \in 1..n : HasTable(versions[at[i]], tables[i].name)
        BY <2>1 DEF Instants, n
      <3> QED
        BY <1>1, <1>2, <1>4, <3>1 DEF table
    <2>3. \A i \in 1..next : \A j \in 1..i : later[j] <= later[i]
      <3>1. \A i \in 1..n : \A j \in 1..i : at[j] <= at[i]
        BY <2>1 DEF Instants, n
      <3>2. ASSUME NEW i \in 1..next, NEW j \in 1..i PROVE later[j] <= later[i]
        <4>1. CASE i = next
          <5>1. j \in 1..next /\ later[j] \in l..last /\ later[i] = last
            BY <1>1, <1>2, <4>1
          <5> QED
            BY <1>1, <5>1
        <4>2. CASE i \in 1..n
          <5>1. j \in 1..n
            BY <1>1, <4>2
          <5> QED
            BY <1>2, <3>1, <4>2, <5>1
        <4> QED
          BY <1>2, <4>1, <4>2
      <3> QED
        BY <3>2
    <2> QED
      BY <1>2, <2>1, <2>2, <2>3 DEF Instants
  <1>9. \A i \in 1..n : tables[i].name # table.name
    <2>1. tables = ListOf(versions[l])
      BY DEF Reads, Instants
    <2>2. NamesDiffer(tables)
      BY <1>1, <2>1, VersionType, ListType
    <2>3. \A i \in 1..n : i \in DOMAIN tables /\ next \in DOMAIN tables /\ i # next
      <3>1. DOMAIN tables = 1..Len(tables)
        BY DEF TypeOK
      <3>2. n = next - 1
        BY DEF n
      <3> QED
        BY <1>1, <3>1, <3>2
    <2> QED
      BY <2>2, <2>3 DEF NamesDiffer, table
  <1>10. /\ ts \in Seq(Table) /\ Len(ts) = n
         /\ \A i \in 1..n : ts[i] = CopyOf(tables[i], RowsAt(versions, tables, at, i))
    <2>1. at \in [1..n -> l..Len(versions)] /\ Instants(versions, tables, l, at)
      BY DEF n, Reads
    <2> QED
      BY <1>1, <2>1, CopiesType DEF last, ts
  <1>11. /\ us \in Seq(Table) /\ Len(us) = next
         /\ \A i \in 1..next : us[i] = CopyOf(tables[i], RowsAt(versions, tables, later, i))
    <2>1. later \in [1..next -> l..Len(versions)] /\ next \in Nat /\ next <= Len(tables)
      BY <1>1, <1>2 DEF last
    <2> QED
      BY <1>1, <1>8, <2>1, CopiesType DEF last, us
  <1>12. us = Append(ts, CopyOf(table, rows))
    <2> DEFINE vs == Append(ts, CopyOf(table, rows))
    <2>1. CopyOf(table, rows) \in Table
      BY <1>3, <1>5, CopyOfType
    <2>2. n + 1 = next
      BY <1>1 DEF n
    <2>3. /\ vs \in Seq(Table) /\ Len(vs) = next /\ vs[next] = CopyOf(table, rows)
          /\ \A i \in 1..n : vs[i] = ts[i]
      BY <1>10, <2>1, <2>2, AppendProperties, LenProperties
    <2> HIDE DEF vs
    <2>4. \A i \in 1..Len(us) : us[i] = vs[i]
      <3>1. us[next] = vs[next]
        BY <1>2, <1>6, <1>11, <2>3 DEF table
      <3>2. \A i \in 1..n : us[i] = vs[i]
        BY <1>2, <1>7, <1>10, <1>11, <2>3
      <3> QED
        BY <1>2, <1>11, <3>1, <3>2
    <2>5. us = vs
      BY <1>11, <2>3, <2>4, SeqEqual
    <2> QED
      BY <2>5 DEF vs
  <1>13. Written(g, versions, tables, later)
    <2>1. SUFFICES ASSUME AllSurvive(versions, tables, later)
                   PROVE  /\ ~Splits(g)
                          /\ \/ Executed(g) = Restoring(us, <<>>)
                             \/ Failed(Executed(g)) /\ ~AllFit(versions, tables, later)
      BY DEF Written, us
    <2>2. \A i \in 1..next : RowsSurvive(tables[i].columns, RowsAt(versions, tables, later, i))
      BY <1>2, <2>1 DEF AllSurvive
    <2>3. AllSurvive(versions, tables, at)
      BY <1>2, <1>7, <2>2 DEF AllSurvive, n
    <2>4. RowsSurvive(table.columns, rows)
      BY <1>2, <1>6, <2>2 DEF table
    <2>5. g = file \o TableLines(table, rows) /\ TableLines(table, rows) \in Seq(Line)
      BY <1>3, <1>5, TableLinesType DEF table, rows
    <2>6. /\ ~Splits(file)
          /\ \/ Executed(file) = Restoring(ts, <<>>)
             \/ Failed(Executed(file)) /\ ~AllFit(versions, tables, at)
      BY <2>3 DEF Reads, Written, ts
    <2>10. ~Splits(g)
      <3>1. ~Splits(TableLines(table, rows))
        BY <1>3, <1>5, <2>4, TableUnsplit
      <3> QED
        BY <1>1, <2>5, <2>6, <3>1, SplitsAppended
    <2>7. AllFit(versions, tables, later) => AllFit(versions, tables, at) /\ Fits(table, rows)
      <3>1. SUFFICES ASSUME AllFit(versions, tables, later)
                     PROVE  AllFit(versions, tables, at) /\ Fits(table, rows)
        OBVIOUS
      <3>2. \A i \in 1..next : Fits(tables[i], RowsAt(versions, tables, later, i))
        BY <1>2, <3>1 DEF AllFit
      <3>3. Fits(table, rows)
        BY <1>2, <1>6, <3>2 DEF table
      <3>4. AllFit(versions, tables, at)
        BY <1>2, <1>7, <3>2 DEF AllFit, n
      <3> QED
        BY <3>3, <3>4
    <2>8. CASE Executed(file) = Restoring(ts, <<>>)
      <3>1. \A i \in DOMAIN ts : ts[i].name # table.name
        <4>1. DOMAIN ts = 1..n
          BY <1>10
        <4>2. \A i \in 1..n : ts[i].name = tables[i].name
          BY <1>10 DEF CopyOf
        <4> QED
          BY <1>9, <4>1, <4>2
      <3>2. TableRestored(Executed(g), ts, table, rows)
        BY <1>1, <1>3, <1>5, <1>10, <2>4, <2>5, <2>8, <3>1, TableRestores
      <3> QED
        BY <1>12, <2>7, <2>10, <3>2 DEF TableRestored
    <2>9. CASE Failed(Executed(file)) /\ ~AllFit(versions, tables, at)
      <3>1. Failed(Executed(g))
        BY <1>1, <2>5, <2>9, FailedLines
      <3> QED
        BY <2>7, <2>9, <2>10, <3>1
    <2> QED
      BY <2>6, <2>8, <2>9
  <1> QED
    BY <1>2, <1>8, <1>13 DEF last

\* A row of a table of version k survives in the columns that the list has for
\* its name.
LEMMA RowsOfList ==
    ASSUME TypeOK, VersionsInv, NEW l \in 1..Len(versions), NEW n \in Nat, n <= Len(tables),
           NEW at \in [1..n -> l..Len(versions)], Instants(versions, tables, l, at),
           \A k \in l..Len(versions) : RestorableAs(versions[l], versions[k])
    PROVE  AllSurvive(versions, tables, at)
  <1>1. SUFFICES ASSUME NEW i \in 1..n
                 PROVE  RowsSurvive(tables[i].columns, RowsAt(versions, tables, at, i))
    BY DEF AllSurvive
  <1> DEFINE d == versions[l]
             e == versions[at[i]]
  <1>2. l \in DOMAIN versions /\ at[i] \in DOMAIN versions /\ at[i] \in l..Len(versions)
    BY DEF TypeOK
  <1>3. tables = ListOf(d) /\ HasTable(e, tables[i].name)
    BY <1>1 DEF Instants
  <1>4. d \in Database /\ Consistent(d) /\ e \in Database
    BY <1>2, VersionType
  <1>5. RestorableAs(d, e)
    BY <1>2
  <1> HIDE DEF d, e
  <1>6. i \in DOMAIN d.tables /\ tables[i].name = d.tables[i].name /\ tables[i].columns = d.tables[i].columns
    <2>1. i \in DOMAIN tables
      BY DEF TypeOK
    <2> QED
      BY <1>3, <1>4, <2>1, ListType
  <1>7. PICK j \in DOMAIN e.tables : /\ e.tables[j].name = tables[i].name
                                     /\ TableNamed(e, tables[i].name) = e.tables[j]
    <2> DEFINE name == tables[i].name
    <2>1. e \in Database /\ HasTable(e, name)
      BY <1>3, <1>4
    <2> HIDE DEF name
    <2>2. \E j \in DOMAIN e.tables : /\ e.tables[j].name = name
                                     /\ TableNamed(e, name) = e.tables[j]
                                     /\ e.tables[j].rows \in Seq(Row)
      BY <2>1, NamedTable
    <2> QED
      BY <2>2 DEF name
  <1>8. RowsSurvive(d.tables[i].columns, e.tables[j].rows)
    BY <1>5, <1>6, <1>7 DEF RestorableAs
  <1> QED
    BY <1>6, <1>7, <1>8 DEF RowsAt, e

\* If the list and all rows are of one version whose rows survive under names
\* of its own, the copies are its tables and they fit.
LEMMA WholeCopies ==
    ASSUME TypeOK, VersionsInv, next = Len(tables) + 1,
           NEW l, l = Len(versions), NEW at \in [1..Len(tables) -> l..Len(versions)],
           Instants(versions, tables, l, at), Restorable(versions[l])
    PROVE  /\ AllSurvive(versions, tables, at)
           /\ AllFit(versions, tables, at)
           /\ Copies(versions, tables, at) = versions[l].tables
  <1> DEFINE d == versions[l]
             n == Len(tables)
             ts == Copies(versions, tables, at)
  <1>1. /\ l \in Nat \ {0} /\ l \in DOMAIN versions /\ l \in 1..Len(versions) /\ n \in Nat
        /\ DOMAIN tables = 1..n
    BY DEF TypeOK
  <1>2. d \in Database /\ Consistent(d) /\ tables = ListOf(d)
    BY <1>1, VersionType DEF Instants
  <1>3. RestorableAs(d, d) /\ \A i \in DOMAIN d.tables : d.tables[i].name \in PlainNames \ Reserved
    BY DEF Restorable
  <1>4. \A i \in 1..n : versions[at[i]] = d
    <2>1. \A i \in 1..n : at[i] = l
      BY <1>1
    <2> QED
      BY <2>1
  <1>5. \A k \in l..Len(versions) : RestorableAs(versions[l], versions[k])
    BY <1>1, <1>3
  <1>6. AllSurvive(versions, tables, at)
    <2>1. n <= Len(tables) /\ at \in [1..n -> l..Len(versions)]
      BY <1>1
    <2> HIDE DEF n, d
    <2> QED
      BY <1>1, <1>5, <2>1, RowsOfList
  <1> HIDE DEF d, n, ts
  <1>7. /\ DOMAIN d.tables = 1..n /\ Len(d.tables) = n /\ d.tables \in Seq(Table)
        /\ \A i \in 1..n : tables[i].name = d.tables[i].name /\ tables[i].columns = d.tables[i].columns
    BY <1>1, <1>2, ListType DEF n, Database
  <1>8. ASSUME NEW i \in 1..n PROVE RowsAt(versions, tables, at, i) = d.tables[i].rows
    <2>1. \A j \in DOMAIN d.tables : d.tables[j].name = d.tables[i].name => j = i
      BY <1>2, <1>7 DEF Consistent
    <2>2. TableNamed(d, d.tables[i].name) = d.tables[i]
      BY <1>7, <2>1, TableOfName
    <2> QED
      BY <1>4, <1>7, <2>2 DEF RowsAt
  <1>9. AllFit(versions, tables, at)
    <2>1. ASSUME NEW i \in 1..n PROVE Fits(tables[i], RowsAt(versions, tables, at, i))
      <3>1. tables[i].name \notin Reserved
        BY <1>3, <1>7
      <3>2. \A r \in DOMAIN d.tables[i].rows : Len(d.tables[i].rows[r]) = Len(d.tables[i].columns)
        BY <1>2, <1>7 DEF Consistent
      <3> QED
        BY <1>7, <1>8, <3>1, <3>2 DEF Fits
    <2> QED
      BY <2>1 DEF AllFit, n
  <1>10. ts = d.tables
    <2>1. /\ ts \in Seq(Table) /\ Len(ts) = n
          /\ \A i \in 1..n : ts[i] = CopyOf(tables[i], RowsAt(versions, tables, at, i))
      <3>1. n <= Len(tables) /\ at \in [1..n -> l..Len(versions)]
        BY <1>1 DEF n
      <3> QED
        BY <1>1, <3>1, CopiesType DEF ts
    <2>2. ASSUME NEW i \in 1..n PROVE ts[i] = d.tables[i]
      <3>1. d.tables[i] \in Table
        BY <1>7
      <3>2. ts[i] = [name |-> d.tables[i].name, columns |-> d.tables[i].columns, rows |-> d.tables[i].rows]
        BY <1>7, <1>8, <2>1 DEF CopyOf
      <3> QED
        BY <3>1, <3>2 DEF Table
    <2> QED
      BY <1>7, <2>1, <2>2, SeqEqual
  <1> QED
    BY <1>6, <1>9, <1>10 DEF ts, d

\* The end of a dump that wrote everything.
LEMMA FinishReads ==
    ASSUME TypeOK, VersionsInv, pc = "tables", next > Len(tables), Midway(Executed(file)),
           NEW l \in began..Len(versions), NEW at \in [1..(next - 1) -> l..Len(versions)],
           Reads(l, at), NEW whole, whole = file \o (TriggerLines \o Footer),
           NEW restored, restored = Restored(whole)
    PROVE  /\ (inTx \/ began = Len(versions)) /\ Restorable(db)
                 => ~Splits(whole) /\ restored = [db EXCEPT !.others = {}]
           /\ (\A k \in began..Len(versions) : \A j \in began..k : RestorableAs(versions[j], versions[k]))
                 => /\ ~Splits(whole)
                    /\ \E to \in [DOMAIN restored.tables -> began..Len(versions)] :
                          \A i \in DOMAIN restored.tables :
                             /\ HasTable(versions[to[i]], restored.tables[i].name)
                             /\ restored.tables[i].rows
                                  = TableNamed(versions[to[i]], restored.tables[i].name).rows
                             /\ \A j \in 1..i : to[j] <= to[i]
  <1> DEFINE last == Len(versions)
             n == Len(tables)
             ts == Copies(versions, tables, at)
  <1>1. /\ next = n + 1 /\ next - 1 = n /\ n \in Nat /\ at \in [1..n -> l..last]
        /\ last \in Nat \ {0} /\ began \in 1..last /\ l \in 1..last /\ began <= l
        /\ last \in DOMAIN versions /\ file \in Seq(Line) /\ db \in Database /\ db = versions[last]
        /\ n <= Len(tables)
    <2>1. /\ tables \in Seq(ListEntry) /\ next \in 1..Len(tables) + 1
          /\ versions \in Seq(Database) \ {<<>>} /\ began \in DOMAIN versions
      BY DEF TypeOK
    <2>2. file \in Seq(Line) /\ db \in Database
      BY DEF TypeOK
    <2>3. n \in Nat /\ next = n + 1
      BY <2>1
    <2>4. last \in Nat \ {0} /\ DOMAIN versions = 1..last
      BY <2>1, EmptySeq, LenProperties
    <2>5. began \in 1..last /\ last \in DOMAIN versions
      BY <2>1, <2>4
    <2>6. l \in 1..last /\ began <= l
      BY <2>4, <2>5
    <2>7. db = versions[last]
      BY DEF VersionsInv
    <2>8. next - 1 = n /\ n <= Len(tables)
      BY <2>3
    <2> HIDE DEF last, n
    <2>9. at \in [1..n -> l..Len(versions)]
      BY <2>8
    <2> USE DEF last
    <2> QED
      BY <2>2, <2>3, <2>4, <2>5, <2>6, <2>7, <2>8, <2>9
  <1>2. Instants(versions, tables, l, at)
    BY DEF Reads
  <1> HIDE DEF last, n, ts
  <1>3. /\ ts \in Seq(Table) /\ Len(ts) = n
        /\ \A i \in 1..n : ts[i] = CopyOf(tables[i], RowsAt(versions, tables, at, i))
    BY <1>1, <1>2, CopiesType DEF last, ts
  <1>4. AllSurvive(versions, tables, at)
          => /\ ~Splits(file)
             /\ \/ Executed(file) = Restoring(ts, <<>>)
                \/ Failed(Executed(file)) /\ ~AllFit(versions, tables, at)
    BY DEF Reads, Written, ts
  <1>8. ~Splits(file) => ~Splits(whole)
    <2>1. TriggerLines \o Footer \in Seq(Line)
      <3>1. Footer \in Seq(Line)
        BY DEF Footer, Line
      <3> QED
        BY <1>1, <3>1, TriggerLinesType
    <2> QED
      BY <1>1, <2>1, EndUnsplit, SplitsAppended
  <1>5. Executed(file) = Restoring(ts, <<>>) \/ Failed(Executed(file))
          => /\ \/ restored = EmptyDatabase
                \/ (Executed(file) = Restoring(ts, <<>>) /\ restored = Content(ts, db.triggers))
             /\ ((Executed(file) = Restoring(ts, <<>>) /\ TriggersHaveTables(ts, db.triggers))
                   => restored = Content(ts, db.triggers))
    BY <1>1, FinishRestores
  <1>6. ASSUME inTx \/ began = last, Restorable(db)
        PROVE  ~Splits(whole) /\ restored = [db EXCEPT !.others = {}]
    <2>1. l = last
      BY <1>1, <1>6 DEF Reads, last
    <2>2. /\ AllSurvive(versions, tables, at) /\ AllFit(versions, tables, at) /\ ts = db.tables
      <3>1. l = Len(versions) /\ next = Len(tables) + 1 /\ at \in [1..Len(tables) -> l..Len(versions)]
        BY <1>1, <2>1 DEF last, n
      <3>2. versions[l] = db
        BY <1>1, <2>1
      <3> QED
        BY <1>2, <1>6, <3>1, <3>2, WholeCopies DEF ts
    <2>3. TriggersHaveTables(ts, db.triggers)
      BY <1>6, <2>2 DEF Restorable, HasTable, TriggersHaveTables
    <2>4. restored = Content(db.tables, db.triggers)
      BY <1>4, <1>5, <2>2, <2>3
    <2> DEFINE e == [db EXCEPT !.others = {}]
    <2>5. e \in [tables : {db.tables}, triggers : {db.triggers}, others : {{}}]
      BY <1>1 DEF Database
    <2> HIDE DEF e
    <2>6. e = Content(db.tables, db.triggers)
      BY <2>5 DEF Content
    <2> QED
      BY <1>4, <1>8, <2>2, <2>4, <2>6 DEF e
  <1>7. ASSUME \A k \in began..last : \A j \in began..k : RestorableAs(versions[j], versions[k])
        PROVE  /\ ~Splits(whole)
               /\ \E to \in [DOMAIN restored.tables -> began..last] :
                     \A i \in DOMAIN restored.tables :
                        /\ HasTable(versions[to[i]], restored.tables[i].name)
                        /\ restored.tables[i].rows
                             = TableNamed(versions[to[i]], restored.tables[i].name).rows
                        /\ \A j \in 1..i : to[j] <= to[i]
    <2>1. AllSurvive(versions, tables, at)
      <3>1. \A k \in l..last : RestorableAs(versions[l], versions[k])
        <4>1. ASSUME NEW k \in l..last PROVE RestorableAs(versions[l], versions[k])
          <5>1. k \in began..last /\ l \in began..k
            BY <1>1
          <5> QED
            BY <1>7, <5>1
        <4> QED
          BY <4>1
      <3> QED
        BY <1>1, <1>2, <3>1, RowsOfList DEF last
    <2>2. \/ restored = EmptyDatabase
          \/ restored = Content(ts, db.triggers)
      BY <1>4, <1>5, <2>1
    <2>5. ~Splits(whole)
      BY <1>4, <1>8, <2>1
    <2> DEFINE Ordered(to) == \A i \in DOMAIN restored.tables :
                                /\ HasTable(versions[to[i]], restored.tables[i].name)
                                /\ restored.tables[i].rows
                                     = TableNamed(versions[to[i]], restored.tables[i].name).rows
                                /\ \A j \in 1..i : to[j] <= to[i]
    <2>6. SUFFICES \E to \in [DOMAIN restored.tables -> began..last] : Ordered(to)
      BY <2>5
    <2>3. CASE restored = EmptyDatabase
      <3>1. DOMAIN restored.tables = {}
        BY <2>3 DEF EmptyDatabase
      <3>2. [i \in {} |-> began] \in [DOMAIN restored.tables -> began..last]
        BY <3>1
      <3> QED
        BY <3>1, <3>2
    <2>4. CASE restored = Content(ts, db.triggers)
      <3>1. restored.tables = ts /\ DOMAIN ts = 1..n
        BY <1>1, <1>3, <2>4 DEF Content
      <3>2. at \in [1..n -> began..last]
        BY <1>1
      <3>3. \A i \in 1..n : /\ ts[i].name = tables[i].name
                            /\ ts[i].rows = TableNamed(versions[at[i]], tables[i].name).rows
        BY <1>3 DEF CopyOf, RowsAt
      <3>4. \A i \in 1..n : /\ HasTable(versions[at[i]], tables[i].name)
                            /\ \A j \in 1..i : at[j] <= at[i]
        BY <1>1, <1>2 DEF Instants
      <3>5. \A i \in 1..n : /\ HasTable(versions[at[i]], ts[i].name)
                            /\ ts[i].rows = TableNamed(versions[at[i]], ts[i].name).rows
                            /\ \A j \in 1..i : at[j] <= at[i]
        BY <3>3, <3>4
      <3>6. at \in [DOMAIN restored.tables -> began..last] /\ Ordered(at)
        BY <3>1, <3>2, <3>5
      <3> HIDE DEF Ordered
      <3> QED
        BY <3>6
    <2> QED
      BY <2>2, <2>3, <2>4
  <1> QED
    BY <1>6, <1>7 DEF last

\* A write that reaches the file whole.
LEMMA WriteWhole ==
    ASSUME NEW content \in Seq(Line), NEW lines \in Seq(Line), NEW working \in BOOLEAN,
           Write(content, working, lines), good'
    PROVE  working /\ file' = content \o lines
  <1>1. PICK n \in 0..Len(lines) : /\ file' = content \o SubSeq(lines, 1, n)
                                   /\ good' = (working /\ n = Len(lines))
    BY DEF Write
  <1>2. working /\ n = Len(lines)
    BY <1>1
  <1>3. SubSeq(lines, 1, Len(lines)) = lines
    OBVIOUS
  <1> QED
    BY <1>1, <1>2, <1>3

\* A dump that is not at its end promises nothing.
LEMMA NotDone ==
    ASSUME pc' # "done"
    PROVE  CompletedDumpRestores' /\ TablesAreOrderedInstants'
  BY DEF CompletedDumpRestores, TablesAreOrderedInstants, Dumped

\* Steps that leave the database alone.
LEMMA SameVersions ==
    ASSUME VersionsInv, UNCHANGED <<db, versions>>
    PROVE  VersionsInv'
  BY DEF VersionsInv

LEMMA OpenStep ==
    ASSUME TypeOK, DumpInv, OpenDump
    PROVE  DumpInv'
  <1>1. VersionsInv'
    BY SameVersions DEF DumpInv, OpenDump
  <1>2. pc' = "list"
    BY DEF OpenDump
  <1>3. good' => file' = Header
    <2>1. CASE Write(Opened, TRUE, Header)
      <3>1. good' => file' = <<>> \o Header
        BY <2>1, HeaderType, WriteWhole, <<>> \in Seq(Line) DEF Opened
      <3> DEFINE h == Header
      <3>2. h \in Seq(Line)
        BY HeaderType
      <3> HIDE DEF h
      <3>3. <<>> \o h = h
        BY <3>2
      <3> QED
        BY <3>1, <3>3 DEF h
    <2>2. CASE Write(file, FALSE, Header)
      BY <2>2, HeaderType, WriteFailed DEF TypeOK
    <2> QED
      BY <2>1, <2>2 DEF OpenDump
  <1> QED
    BY <1>1, <1>2, <1>3, NotDone DEF DumpInv

LEMMA ListStep ==
    ASSUME TypeOK, DumpInv, ListTables
    PROVE  DumpInv'
  <1>1. VersionsInv'
    BY SameVersions DEF DumpInv, ListTables
  <1>2. pc' = "tables" /\ next' = 1 /\ pc = "list"
    BY DEF ListTables, FirstTable
  <1>3. ASSUME good'
        PROVE  \E l \in began'..Len(versions') : \E at \in [1..(next' - 1) -> l..Len(versions')] :
                  Reads(l, at)'
    <2>1. PICK last \in began..Len(versions) : last = Len(versions)
      BY DEF TypeOK
    <2>2. PICK at \in [1..0 -> last..last] : DOMAIN at = {}
      <3>1. [i \in 1..0 |-> last] \in [1..0 -> last..last] /\ DOMAIN [i \in 1..0 |-> last] = 1..0
        BY <2>1 DEF TypeOK
      <3>2. 1..0 = {}
        OBVIOUS
      <3> QED
        BY <3>1, <3>2
    <2>3. /\ UNCHANGED <<db, versions, file, good, inTx, began>>
          /\ tables' = ListOf(db) /\ db = versions[last] /\ file = Header
      <3>1. /\ UNCHANGED <<db, versions, file, good, inTx, began>>
            /\ tables' = ListOf(db)
        BY DEF ListTables, ListOf
      <3> QED
        BY <1>2, <1>3, <2>1, <3>1 DEF DumpInv, VersionsInv
    <2>4. at \in [1..(next' - 1) -> last..Len(versions')] /\ last \in began'..Len(versions')
      <3>1. next' - 1 = 0
        BY <1>2
      <3> QED
        BY <2>1, <2>2, <2>3, <3>1
    <2>5. Instants(versions, ListOf(db), last, at)
      BY <2>2, <2>3 DEF Instants
    <2>6. Executed(Header) = Restoring(Copies(versions, ListOf(db), at), <<>>)
      <3>1. Copies(versions, ListOf(db), at) = <<>>
        BY <2>2 DEF Copies
      <3>2. InTransaction = Restoring(<<>>, <<>>)
        BY DEF InTransaction, Restoring, Content, EmptyDatabase
      <3> QED
        BY <3>1, <3>2, HeaderExecuted
    <2>7. Written(file, versions, ListOf(db), at)
      BY <2>3, <2>6, HeaderUnsplit DEF Written
    <2>8. Reads(last, at)'
      BY <2>1, <2>3, <2>5, <2>7 DEF Reads
    <2> QED
      BY <2>4, <2>8
  <1> QED
    BY <1>1, <1>2, <1>3, NotDone DEF DumpInv

LEMMA TableStep ==
    ASSUME TypeOK, DumpInv, DumpTable
    PROVE  DumpInv'
  <1>1. VersionsInv'
    BY SameVersions DEF DumpInv, DumpTable
  <1>2. pc' = "tables" /\ pc = "tables" /\ next' = next + 1 /\ next <= Len(tables)
        /\ UNCHANGED <<db, tables, inTx, versions, began>>
    BY DEF DumpTable
  <1>3. ASSUME good'
        PROVE  \E l \in began'..Len(versions') : \E at \in [1..(next' - 1) -> l..Len(versions')] :
                  Reads(l, at)'
    <2> DEFINE lines == TableLines(tables[next], TableNamed(db, tables[next].name).rows)
    <2>1. lines \in Seq(Line)
      <3>1. tables[next] \in ListEntry
        BY <1>2 DEF TypeOK
      <3>2. tables[next].name \in Names
        BY <3>1 DEF ListEntry
      <3>3. TableNamed(db, tables[next].name).rows \in Seq(Row)
        BY <3>2, SelectedRows DEF DumpTable, TypeOK
      <3> QED
        BY <3>1, <3>3, TableLinesType
    <2>2. Write(file, good, lines) /\ file \in Seq(Line) /\ good \in BOOLEAN
      BY DEF DumpTable, TypeOK
    <2> HIDE DEF lines
    <2>3. good /\ file' = file \o lines
      BY <1>3, <2>1, <2>2, WriteWhole
    <2>41. PICK l \in began..Len(versions) :
              \E at \in [1..(next - 1) -> l..Len(versions)] : Reads(l, at)
      BY <1>2, <2>3 DEF DumpInv
    <2>4. PICK at \in [1..(next - 1) -> l..Len(versions)] : Reads(l, at)
      BY <2>41
    <2>5. PICK later \in [1..next -> l..Len(versions)] :
             Instants(versions, tables, l, later) /\ Written(file', versions, tables, later)
      <3>1. file' = file \o TableLines(tables[next], TableNamed(db, tables[next].name).rows)
        BY <2>3 DEF lines
      <3>2. VersionsInv /\ CanSelect(tables[next].name)
        BY DEF DumpInv, DumpTable
      <3> QED
        BY <1>2, <2>4, <3>1, <3>2, ReadTable
    <2>6. Reads(l, later)'
      <3>1. inTx' => l = Len(versions')
        BY <1>2, <2>4 DEF Reads
      <3> QED
        BY <1>2, <2>5, <3>1 DEF Reads
    <2>7. next' - 1 = next
      BY <1>2 DEF TypeOK
    <2> QED
      BY <1>2, <2>5, <2>6, <2>7
  <1> QED
    BY <1>1, <1>2, <1>3, NotDone DEF DumpInv

LEMMA FinishStep ==
    ASSUME TypeOK, AtomInv, DumpInv, FinishDump
    PROVE  DumpInv'
  <1>1. VersionsInv'
    BY SameVersions DEF DumpInv, FinishDump
  <1>2. pc' = "done" /\ pc = "tables" /\ next > Len(tables) /\ ended' = Len(versions)
        /\ UNCHANGED <<db, tables, inTx, versions, began>>
    BY DEF FinishDump
  <1>3. CASE ~good'
    BY <1>1, <1>2, <1>3 DEF DumpInv, CompletedDumpRestores, TablesAreOrderedInstants, Dumped
  <1>4. CASE good'
    <2> DEFINE lines == TriggerLines \o Footer
               restored == Restored(file')
    <2>1. lines \in Seq(Line)
      <3>1. Footer \in Seq(Line)
        BY DEF Footer, Line
      <3> QED
        BY <3>1, TriggerLinesType DEF TypeOK
    <2>2. Write(file, good, lines) /\ file \in Seq(Line) /\ good \in BOOLEAN
      BY DEF FinishDump, TypeOK
    <2> HIDE DEF lines
    <2>3. good /\ file' = file \o lines
      BY <1>4, <2>1, <2>2, WriteWhole
    <2>41. PICK l \in began..Len(versions) :
              \E at \in [1..(next - 1) -> l..Len(versions)] : Reads(l, at)
      BY <1>2, <2>3 DEF DumpInv
    <2>4. PICK at \in [1..(next - 1) -> l..Len(versions)] : Reads(l, at)
      BY <2>41
    <2>5. VersionsInv /\ Midway(Executed(file))
      BY <1>2, <2>3 DEF DumpInv, AtomInv
    <2>6. file' = file \o (TriggerLines \o Footer)
      BY <2>3 DEF lines
    <2> HIDE DEF restored
    <2>7. /\ (inTx \/ began = Len(versions)) /\ Restorable(db)
               => ~Splits(file') /\ restored = [db EXCEPT !.others = {}]
          /\ (\A k \in began..Len(versions) : \A j \in began..k : RestorableAs(versions[j], versions[k]))
               => /\ ~Splits(file')
                  /\ \E to \in [DOMAIN restored.tables -> began..Len(versions)] :
                        \A i \in DOMAIN restored.tables :
                           /\ HasTable(versions[to[i]], restored.tables[i].name)
                           /\ restored.tables[i].rows
                                = TableNamed(versions[to[i]], restored.tables[i].name).rows
                           /\ \A j \in 1..i : to[j] <= to[i]
      BY <1>2, <2>4, <2>5, <2>6, FinishReads DEF restored
    <2>10. ASSUME ~Splits(file'), NEW reading \in Readings(file')
           PROVE  Restored(reading) = restored
      <3>1. Readings(file') = {file'}
        BY <2>10, OnlyReading
      <3> QED
        BY <2>10, <3>1 DEF restored
    <2>8. CompletedDumpRestores'
      <3>1. versions'[ended'] = db
        BY <1>2 DEF DumpInv, VersionsInv
      <3> QED
        BY <1>2, <2>7, <2>10, <3>1 DEF CompletedDumpRestores
    <2>9. TablesAreOrderedInstants'
      <3>1. SUFFICES ASSUME \A k \in began..Len(versions) : \A j \in began..k :
                                RestorableAs(versions[j], versions[k]),
                            NEW reading \in Readings(file')
                     PROVE  \E to \in [DOMAIN Restored(reading).tables -> began..Len(versions)] :
                               \A i \in DOMAIN Restored(reading).tables :
                                  /\ HasTable(versions[to[i]], Restored(reading).tables[i].name)
                                  /\ Restored(reading).tables[i].rows
                                       = TableNamed(versions[to[i]], Restored(reading).tables[i].name).rows
                                  /\ \A j \in 1..i : to[j] <= to[i]
        BY <1>2 DEF TablesAreOrderedInstants
      <3>2. Restored(reading) = restored
        BY <2>7, <2>10, <3>1
      <3> QED
        BY <2>7, <3>1, <3>2
    <2> QED
      BY <1>1, <1>2, <2>8, <2>9 DEF DumpInv
  <1> QED
    BY <1>3, <1>4

LEMMA CommitOfOther ==
    ASSUME TypeOK, DumpInv, OtherCommit
    PROVE  DumpInv'
  <1> DEFINE last == Len(versions)
  <1>1. /\ UNCHANGED <<pc, tables, next, file, good, inTx, dumps, began, ended>>
        /\ versions' = Append(versions, db') /\ db' \in Databases /\ ~Reading
    BY DEF OtherCommit
  <1>2. /\ last \in Nat \ {0} /\ Len(versions') = last + 1 /\ versions'[last + 1] = db'
        /\ \A k \in 1..last : versions'[k] = versions[k]
        /\ DOMAIN versions = 1..last /\ DOMAIN versions' = 1..(last + 1)
        /\ began \in 1..last /\ ended \in 1..last
    <2>1. db' \in Database
      BY <1>1, DatabasesAssumption
    <2> QED
      BY <1>1, <2>1, AppendProperties, LenProperties DEF TypeOK
  <1>3. VersionsInv'
    <2>1. \A k \in 1..(last + 1) : k = last + 1 \/ k \in 1..last
      BY <1>2
    <2> QED
      BY <1>1, <1>2, <2>1 DEF DumpInv, VersionsInv
  <1>4. ASSUME pc = "tables", good
        PROVE  \E l \in began'..Len(versions') : \E at \in [1..(next' - 1) -> l..Len(versions')] :
                  Reads(l, at)'
    <2>11. PICK l \in began..last : \E at \in [1..(next - 1) -> l..last] : Reads(l, at)
      BY <1>4 DEF DumpInv
    <2>1. PICK at \in [1..(next - 1) -> l..last] : Reads(l, at)
      BY <2>11
    <2>2. ~inTx
      BY <1>1, <1>4 DEF Reading
    <2> DEFINE n == next - 1
    <2>3. at \in [1..n -> l..Len(versions)] /\ l \in 1..Len(versions) /\ Len(versions) \in Nat
      BY <1>2, <2>1
    <2>4. /\ Instants(versions, tables, l, at) => Instants(versions', tables, l, at)
          /\ Written(file, versions, tables, at) => Written(file, versions', tables, at)
      <3> HIDE DEF n
      <3>1. \A k \in 1..Len(versions) : versions'[k] = versions[k]
        BY <1>2
      <3> QED
        BY <2>3, <3>1, OlderVersions
    <2>5. Reads(l, at)'
      BY <1>1, <2>1, <2>2, <2>4 DEF Reads
    <2>6. l \in began'..Len(versions') /\ at \in [1..(next' - 1) -> l..Len(versions')]
      BY <1>1, <1>2, <2>1
    <2> QED
      BY <2>5, <2>6
  <1>5. CompletedDumpRestores'
    <2>1. versions'[ended'] = versions[ended]
      BY <1>1, <1>2
    <2> QED
      BY <1>1, <2>1 DEF DumpInv, CompletedDumpRestores, Dumped
  <1>6. TablesAreOrderedInstants'
    <2>1. \A k \in began..ended : versions'[k] = versions[k]
      BY <1>2
    <2>2. \A k \in began..ended : \A l \in began..k : versions'[l] = versions[l]
      BY <1>2
    <2>3. SUFFICES ASSUME Dumped,
                          \A k \in began..ended : \A l \in began..k : RestorableAs(versions'[l], versions'[k]),
                          NEW reading \in Readings(file)
                   PROVE  \E at \in [DOMAIN Restored(reading).tables -> began..ended] :
                             \A i \in DOMAIN Restored(reading).tables :
                                /\ HasTable(versions'[at[i]], Restored(reading).tables[i].name)
                                /\ Restored(reading).tables[i].rows
                                     = TableNamed(versions'[at[i]], Restored(reading).tables[i].name).rows
                                /\ \A j \in 1..i : at[j] <= at[i]
      BY <1>1 DEF TablesAreOrderedInstants, Dumped
    <2> DEFINE restored == Restored(reading).tables
    <2>4. \A k \in began..ended : \A l \in began..k : RestorableAs(versions[l], versions[k])
      BY <2>1, <2>2, <2>3
    <2>5. PICK at \in [DOMAIN restored -> began..ended] :
             \A i \in DOMAIN restored :
                /\ HasTable(versions[at[i]], restored[i].name)
                /\ restored[i].rows = TableNamed(versions[at[i]], restored[i].name).rows
                /\ \A j \in 1..i : at[j] <= at[i]
      BY <2>3, <2>4 DEF DumpInv, TablesAreOrderedInstants
    <2>6. \A i \in DOMAIN restored : versions'[at[i]] = versions[at[i]]
      BY <2>1, <2>5
    <2> HIDE DEF restored
    <2>7. \A i \in DOMAIN restored :
             /\ HasTable(versions'[at[i]], restored[i].name)
             /\ restored[i].rows = TableNamed(versions'[at[i]], restored[i].name).rows
             /\ \A j \in 1..i : at[j] <= at[i]
      BY <2>5, <2>6
    <2> QED
      BY <2>5, <2>7 DEF restored
  <1>7. pc' = "list" /\ good' => file' = Header
    BY <1>1 DEF DumpInv
  <1> QED
    BY <1>1, <1>3, <1>4, <1>5, <1>6, <1>7 DEF DumpInv

LEMMA DumpStep ==
    ASSUME TypeOK, AtomInv, DumpInv, [Next]_vars
    PROVE  DumpInv'
  <1>1. CASE ThrowFromSelect
    <2>1. pc' = "threw" /\ UNCHANGED <<db, versions>>
      BY <1>1 DEF ThrowFromSelect
    <2> QED
      BY <2>1, NotDone, SameVersions DEF DumpInv
  <1>2. CASE UNCHANGED vars
    <2>1. DumpInv' = DumpInv
      BY <1>2 DEF vars, DumpInv, VersionsInv, Reads, CompletedDumpRestores, TablesAreOrderedInstants,
                  Dumped
    <2> QED
      BY <2>1
  <1> QED
    BY <1>1, <1>2, OpenStep, ListStep, TableStep, FinishStep, CommitOfOther DEF Next

LEMMA DumpAlways == Spec => [](TypeOK /\ AtomInv /\ DumpInv)
  <1>1. Init => TypeOK /\ AtomInv /\ DumpInv
    <2> SUFFICES ASSUME Init PROVE TypeOK /\ AtomInv /\ DumpInv
      OBVIOUS
    <2>1. TypeOK
      BY TypeInit
    <2>2. AtomInv
      BY AtomInit
    <2>3. DumpInv
      BY DEF Init, DumpInv, VersionsInv, CompletedDumpRestores, TablesAreOrderedInstants, Dumped
    <2> QED
      BY <2>1, <2>2, <2>3
  <1>2. TypeOK /\ AtomInv /\ DumpInv /\ [Next]_vars => (TypeOK /\ AtomInv /\ DumpInv)'
    BY TypeStep, AtomStep, DumpStep
  <1> QED
    BY <1>1, <1>2, PTL DEF Spec

\* A dump that ran to its end without a failure, while no other process wrote
\* or the caller's transaction kept them out, restores the tables, rows and
\* triggers of the database, if every value survives printing and every table
\* name is one that a SELECT can name and a CREATE accept.
THEOREM CompletedRestores == Spec => []CompletedDumpRestores
  <1>1. DumpInv => CompletedDumpRestores
    BY DEF DumpInv
  <1> QED
    BY <1>1, DumpAlways, PTL

\* Without a transaction each restored table has the rows of a state that was
\* committed during the dump, and these states go forward with the tables.
THEOREM OrderedInstants == Spec => []TablesAreOrderedInstants
  <1>1. DumpInv => TablesAreOrderedInstants
    BY DEF DumpInv
  <1> QED
    BY <1>1, DumpAlways, PTL
=============================================================================
