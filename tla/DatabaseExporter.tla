--------------------------- MODULE DatabaseExporter ---------------------------
(***************************************************************************)
(* DatabaseExporter::dump of SQLite.cpp: the SQL text of a database is     *)
(* written table after table, each by a SELECT of its own, while other     *)
(* processes may commit to the database, a SELECT may fail and the file    *)
(* may stop taking output.  Several dumps may go to the same file.         *)
(***************************************************************************)
EXTENDS SqlImport

CONSTANTS
    Databases,  \* contents the database file may have
    PlainNames, \* names that need no quoting in SQL
    Printed,    \* Printed[v]: the text sqlite3_column_text gives for a value
    Callers,    \* BOOLEAN values of "the caller holds a transaction open"
    DiskFails,  \* whether the output file may fail
    MaxDumps,   \* bound: dumps into the same file
    MaxWrites   \* bound: commits of other processes

ASSUME DatabasesAssumption == \A d \in Databases : d \in Database /\ Consistent(d)
ASSUME PrintedAssumption == /\ Printed \in [Values -> Texts \cup {Null}]
                            /\ \A v \in Values : Printed[v] = Null <=> v = Null
ASSUME BoundsAssumption == /\ MaxDumps \in Nat /\ MaxWrites \in Nat
                           /\ Callers \subseteq BOOLEAN /\ DiskFails \in BOOLEAN

VARIABLES
    db,         \* the content of the database, as dump's connection sees it
    pc,         \* where dump is
    tables,     \* the copy of the list of tables
    next,       \* the table to write next
    file,       \* the statements in the SQL file
    good,       \* sql_dump.good()
    inTx,       \* the caller of dump has a transaction open
    dumps,      \* number of dumps begun
    \* Histories: they are read by properties only.
    versions,   \* the contents the database file has had
    began,      \* the version at which the current dump began
    ended       \* the version at which the last dump ended

vars == <<db, pc, tables, next, file, good, inTx, dumps, versions, began, ended>>

-----------------------------------------------------------------------------
\* A line of the file.

\* The callback turns NULL into the empty string, and dump turns every empty
\* string into NULL.
String(v) == IF Printed[v] = Null THEN EmptyText ELSE Printed[v]
Literal(v) == IF String(v) = EmptyText THEN NullLiteral ELSE QuotedLiteral(String(v))

CreateLine(table) == [op |-> "create", name |-> table.name, columns |-> table.columns]
InsertLine(name, row) ==
    [op |-> "insert", name |-> name, literals |-> [i \in DOMAIN row |-> Literal(row[i])]]
TriggerLine(trigger) == [op |-> "trigger", trigger |-> trigger]

InsertLines(name, rows) == [i \in DOMAIN rows |-> InsertLine(name, rows[i])]

\* The mutant writes no BEGIN TRANSACTION.
Header_NoBegin == <<[op |-> "pragma"]>>
Header == <<[op |-> "pragma"], [op |-> "begin"]>>
Footer == <<[op |-> "commit"]>>

\* The lines of a table of the list, with the rows read now; the mutant loses
\* the last row.
TableLines_OneShort(table, rows) ==
    <<CreateLine(table)>> \o InsertLines(table.name, IF rows = <<>> THEN rows ELSE Front(rows))
TableLines(table, rows) == <<CreateLine(table)>> \o InsertLines(table.name, rows)

\* The mutant has no second SELECT on sqlite_master.
TriggerLines_None == <<>>
TriggerLines == [i \in DOMAIN db.triggers |-> TriggerLine(db.triggers[i])]

-----------------------------------------------------------------------------
\* The file after open with std::ios::out; the mutant opens it to append.
Opened_Append == file
Opened == <<>>

\* The loop over the tables; the mutant starts at index 0.
FirstTable_OffByOne == 0
FirstTable == 1

\* Output to an std::ofstream that holds content: any line may be the last one
\* that reaches the file, and after a failure no line does.
Write(content, working, lines) ==
    \E n \in 0..Len(lines) :
        /\ n < Len(lines) => ~working \/ DiskFails
        /\ n > 0 => working
        /\ file' = content \o SubSeq(lines, 1, n)
        /\ good' = (working /\ n = Len(lines))

Resting == pc \in {"idle", "done", "threw"}

\* The transaction of the caller holds its lock from the first SELECT on.
Reading == inTx /\ pc = "tables"

\* SELECT * from <name>: the table exists and its name needs no quotes.
CanSelect(name) == HasTable(db, name) /\ name \in PlainNames

Init ==
    /\ db \in Databases
    /\ pc = "idle"
    /\ tables = <<>> /\ next = FirstTable
    /\ file = <<>> /\ good = TRUE
    /\ inTx = FALSE
    /\ dumps = 0
    /\ versions = <<db>> /\ began = 1 /\ ended = 1

OpenDump ==
    /\ Resting /\ dumps < MaxDumps
    /\ \/ Write(Opened, TRUE, Header)
       \/ DiskFails /\ Write(file, FALSE, Header)     \* the file cannot be opened
    /\ inTx' \in Callers
    /\ pc' = "list"
    /\ dumps' = dumps + 1
    /\ began' = Len(versions)
    /\ UNCHANGED <<db, tables, next, versions, ended>>

ListTables ==
    /\ pc = "list"
    /\ tables' = [i \in DOMAIN db.tables |->
                    [name |-> db.tables[i].name, columns |-> db.tables[i].columns]]
    /\ next' = FirstTable
    /\ pc' = "tables"
    /\ UNCHANGED <<db, file, good, inTx, dumps, versions, began, ended>>

DumpTable ==
    /\ pc = "tables" /\ next <= Len(tables)
    /\ CanSelect(tables[next].name)
    /\ Write(file, good, TableLines(tables[next], TableNamed(db, tables[next].name).rows))
    /\ next' = next + 1
    /\ UNCHANGED <<db, pc, tables, inTx, dumps, versions, began, ended>>

\* Triggers, COMMIT, close, and the message of success whatever good() says.
FinishDump ==
    /\ pc = "tables" /\ next > Len(tables)
    /\ Write(file, good, TriggerLines \o Footer)
    /\ pc' = "done"
    /\ ended' = Len(versions)
    /\ UNCHANGED <<db, tables, next, inTx, dumps, versions, began>>

\* A SELECT fails (another process holds the lock, or no such table) and
\* execute throws out of dump.  The CREATE of the table is written by then.
ThrowFromSelect ==
    /\ \/ pc = "list" /\ UNCHANGED <<file, good>>
       \/ pc = "tables" /\ next <= Len(tables) /\ Write(file, good, <<CreateLine(tables[next])>>)
       \/ pc = "tables" /\ next > Len(tables) /\ UNCHANGED <<file, good>>
    /\ pc' = "threw"
    /\ ended' = Len(versions)
    /\ UNCHANGED <<db, tables, next, inTx, dumps, versions, began>>

\* Another process commits, unless the caller's transaction locks it out.
OtherCommit ==
    /\ Len(versions) <= MaxWrites /\ ~Reading
    /\ db' \in Databases \ {db}
    /\ versions' = Append(versions, db')
    /\ UNCHANGED <<pc, tables, next, file, good, inTx, dumps, began, ended>>

\* The callers have made their dumps.
Stopped == Resting /\ dumps = MaxDumps

Next == \/ OpenDump \/ ListTables \/ DumpTable \/ FinishDump \/ ThrowFromSelect
        \/ OtherCommit
        \/ Stopped /\ UNCHANGED vars

Spec == Init /\ [][Next]_vars

-----------------------------------------------------------------------------
(* Properties *)

ListEntry == [name : Names, columns : Seq(Column)]

\* Every variable keeps its type, and the loop over the tables stays in the list.
TypeOK ==
    /\ db \in Database
    /\ pc \in {"idle", "list", "tables", "done", "threw"}
    /\ tables \in Seq(ListEntry)
    /\ next \in 1..Len(tables) + 1
    /\ file \in Seq(Line)
    /\ good \in BOOLEAN /\ inTx \in BOOLEAN
    /\ dumps \in 0..MaxDumps
    /\ versions \in Seq(Database) \ {<<>>}
    /\ began \in DOMAIN versions /\ ended \in DOMAIN versions

\* Whenever dump throws, the disk fills up or the process dies, the COMMIT of
\* the file is its last line, and it is there only after the whole dump - or
\* the file could not be opened and is still the one of an earlier dump.
CommitIsLast ==
    \A i \in DOMAIN file :
        file[i].op = "commit" => i = Len(file) /\ (pc = "done" \/ ~good)

\* Restoring a file, however far its dump came, gives an empty database or the
\* effect of every statement in it, none of which failed: never a part of the
\* tables.  The one way to a part is a text that splits its statement: the
\* quotes of values are not doubled, and what sqlite reads behind such a text
\* may have a COMMIT that dump did not write.
AllOrNothing ==
    \A reading \in Readings(file) :
        Restored(reading) # EmptyDatabase =>
            \/ /\ Last(reading).op = "commit"
               /\ Executed(reading) = [now |-> Restored(reading), kept |-> Restored(reading),
                                       open |-> FALSE, failed |-> FALSE]
            \/ Splits(file)

\* A value comes back from what is printed of it; the rows that e has for the
\* tables of d come back in the columns of d, if their number is right.
Survives(column, v) ==
    IF v = Null THEN ~column.notNull
    ELSE /\ Printed[v] # EmptyText /\ Printed[v] \notin Broken
         /\ ReadAs[column.affinity, Printed[v]] = v

RowsSurvive(columns, rows) ==
    /\ \A c \in DOMAIN columns : ~columns[c].generated
    /\ \A r \in DOMAIN rows :
        /\ \A c \in DOMAIN rows[r] : Printed[rows[r][c]] \notin Splitting
        /\ Len(rows[r]) = Len(columns) => \A c \in DOMAIN columns : Survives(columns[c], rows[r][c])

RestorableAs(d, e) ==
    \A i \in DOMAIN d.tables, j \in DOMAIN e.tables :
        d.tables[i].name = e.tables[j].name => RowsSurvive(d.tables[i].columns, e.tables[j].rows)

\* The views are not in the file, so the CREATE of a trigger on one fails and
\* the whole file is lost: sqlite_master lists both kinds of triggers.
Restorable(d) == /\ \A i \in DOMAIN d.tables : d.tables[i].name \in PlainNames \ Reserved
                 /\ \A i \in DOMAIN d.triggers : HasTable(d, d.triggers[i].on)
                 /\ RestorableAs(d, d)

Dumped == pc = "done" /\ good

\* A dump that ran to its end while the database did not change - because no
\* other process wrote, or because the caller's transaction kept them out -
\* restores the tables, rows and triggers of the database: triggers do not
\* fire on the restored rows.  Indexes and views are not in the file, and
\* nothing is restored of a database with a trigger on a view.
CompletedDumpRestores ==
    LET d == versions[ended]
    IN  Dumped /\ (inTx \/ began = ended) /\ Restorable(d)
            => \A reading \in Readings(file) : Restored(reading) = [d EXCEPT !.others = {}]

\* Without a transaction every restored table still holds the rows of one
\* committed state, of the time of the dump, and the states go forward in the
\* order of the tables - as long as the columns of the list, which was read
\* before, take the later rows as they are.
TablesAreOrderedInstants ==
    Dumped /\ (\A k \in began..ended : \A l \in began..k : RestorableAs(versions[l], versions[k])) =>
        \A reading \in Readings(file) :
            LET restored == Restored(reading).tables
            IN  \E at \in [DOMAIN restored -> began..ended] :
                    \A i \in DOMAIN restored :
                        /\ HasTable(versions[at[i]], restored[i].name)
                        /\ restored[i].rows = TableNamed(versions[at[i]], restored[i].name).rows
                        /\ \A j \in 1..i : at[j] <= at[i]

\* "To dump the database into SQL file" (SQLite.h:134): the file of a dump
\* that completed without a failure restores a state the database had.
DumpIsDatabase ==
    Dumped => \A reading \in Readings(file) :
                  \E k \in DOMAIN versions : Restored(reading) = versions[k]
=============================================================================
