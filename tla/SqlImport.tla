------------------------------ MODULE SqlImport ------------------------------
(***************************************************************************)
(* What a dump file is worth: the database that a fresh connection holds   *)
(* after the file went through sqlite3_exec and the connection was closed. *)
(* sqlite3_exec stops at the first statement that fails, and closing the   *)
(* connection rolls back a transaction that no COMMIT ended.               *)
(*                                                                         *)
(* A value is what a cell stores; a text is what sqlite prints for it or   *)
(* reads from a literal.  Both conversions are constants.  dump puts texts *)
(* between quotes as they are, so a quote in a text may be read in three   *)
(* ways: with another one as a quote of the value, which ReadAs covers; as *)
(* an error in the statement; as the end of the statement, so that what    *)
(* follows is read as statements that dump never wrote.                    *)
(*                                                                         *)
(* Of the constraints of a table only NOT NULL is modelled.                *)
(***************************************************************************)
EXTENDS Integers, SequencesExt

CONSTANTS
    Names,      \* table names
    Reserved,   \* names sqlite keeps for itself (sqlite_sequence)
    Values,     \* what a cell may store
    Null,       \* the value NULL
    Texts,      \* texts of values and literals
    EmptyText,  \* the text ""
    Broken,     \* texts that between quotes make the statement a syntax error
    Splitting,  \* texts that between quotes end the statement, or run on into the next
    Rereadings, \* what sqlite may read from such a text to the end of the file
    Affinities, \* column affinities
    ReadAs,     \* ReadAs[a, x]: the value a column of affinity a stores for 'x'
    Others,     \* indexes and views
    Views       \* the views among them

ASSUME TextsAssumption == EmptyText \in Texts /\ Broken \cup Splitting \subseteq Texts
ASSUME ReadAsAssumption == ReadAs \in [Affinities \X Texts -> Values]
ASSUME NullAssumption == Null \in Values
ASSUME ViewsAssumption == Views \subseteq Others

Column  == [affinity : Affinities, notNull : BOOLEAN, generated : BOOLEAN]
Row     == Seq(Values)
\* AFTER INSERT ON a table, INSTEAD OF INSERT ON a view: insert row into into.
Trigger == [on : Names \cup Views, into : Names, row : Row]
Table   == [name : Names, columns : Seq(Column), rows : Seq(Row)]

\* tables and triggers in the order of sqlite_master.
Database == [tables : Seq(Table), triggers : Seq(Trigger), others : SUBSET Others]

EmptyDatabase == [tables |-> <<>>, triggers |-> <<>>, others |-> {}]

\* A literal of an INSERT: NULL, or a text between quotes.
NullLiteral == [quoted |-> FALSE, text |-> EmptyText]
QuotedLiteral(x) == [quoted |-> TRUE, text |-> x]

NameList(d) == [i \in DOMAIN d.tables |-> d.tables[i].name]
HasTable(d, name) == \E i \in DOMAIN d.tables : d.tables[i].name = name
TableNamed(d, name) == d.tables[CHOOSE i \in DOMAIN d.tables : d.tables[i].name = name]

\* The statements of a file.
Literals == [quoted : BOOLEAN, text : Texts]
Line == [op : {"pragma", "begin", "commit"}]
   \cup [op : {"create"}, name : Names, columns : Seq(Column)]
   \cup [op : {"insert"}, name : Names, literals : Seq(Literals)]
   \cup [op : {"trigger"}, trigger : Trigger]

ASSUME RereadingsAssumption == Rereadings \subseteq Seq(Line \cup {[op |-> "error"]})

\* A trigger has its table, or its view.
TriggersAreOnSomething(d) ==
    \A i \in DOMAIN d.triggers :
        HasTable(d, d.triggers[i].on) \/ d.triggers[i].on \in d.others \cap Views

\* What sqlite keeps of a database: a table has a name of its own, a row a cell
\* per column.
Consistent(d) ==
    /\ \A i, j \in DOMAIN d.tables : d.tables[i].name = d.tables[j].name => i = j
    /\ \A i \in DOMAIN d.tables : \A r \in DOMAIN d.tables[i].rows :
           Len(d.tables[i].rows[r]) = Len(d.tables[i].columns)
    /\ TriggersAreOnSomething(d)

-----------------------------------------------------------------------------
\* A column accepts a literal, and the value it then stores.  A generated column
\* accepts none: it is not among those that an INSERT without a list gives values.
Accepts(column, literal) ==
    /\ ~column.generated
    /\ IF literal.quoted THEN literal.text \notin Broken ELSE ~column.notNull
Stored(column, literal) == IF literal.quoted THEN ReadAs[column.affinity, literal.text]
                                             ELSE Null

WithTableRow(d, name, row) ==
    [d EXCEPT !.tables = [i \in DOMAIN d.tables |->
        LET table == d.tables[i]
        IN  IF table.name = name THEN [table EXCEPT !.rows = Append(@, row)] ELSE table]]

\* Inserting a row fires the triggers of its table, one after the other.
Insert(d, name, row) ==
    LET fired[n \in 0..Len(d.triggers)] ==
            IF n = 0 THEN WithTableRow(d, name, row)
            ELSE LET g == d.triggers[n]
                 IN  IF g.on = name THEN WithTableRow(fired[n - 1], g.into, g.row) ELSE fired[n - 1]
    IN  fired[Len(d.triggers)]

\* The statement succeeds on the database d that a connection sees; open tells
\* whether it is in a transaction.
Runs(d, open, line) ==
    CASE line.op = "pragma"  -> TRUE
      [] line.op = "begin"   -> ~open
      [] line.op = "commit"  -> open
      [] line.op = "create"  -> line.name \notin Reserved /\ ~HasTable(d, line.name)
      [] line.op = "insert"  -> /\ HasTable(d, line.name)
                                /\ LET columns == TableNamed(d, line.name).columns
                                   IN  /\ Len(columns) = Len(line.literals)
                                       /\ \A i \in DOMAIN columns : Accepts(columns[i], line.literals[i])
      [] line.op = "trigger" -> HasTable(d, line.trigger.on)
      [] OTHER               -> FALSE

Effect(d, line) ==
    CASE line.op = "create"  -> [d EXCEPT !.tables = Append(@, [name |-> line.name,
                                         columns |-> line.columns, rows |-> <<>>])]
      [] line.op = "insert"  -> LET columns == TableNamed(d, line.name).columns
                                IN  Insert(d, line.name, [i \in DOMAIN columns |->
                                                            Stored(columns[i], line.literals[i])])
      [] line.op = "trigger" -> [d EXCEPT !.triggers = Append(@, line.trigger)]
      [] OTHER               -> d

\* One statement of sqlite3_exec: now is the database the connection sees,
\* kept the one it falls back to.
ExecLine(s, line) ==
    IF s.failed \/ ~Runs(s.now, s.open, line) THEN [s EXCEPT !.failed = TRUE]
    ELSE LET now == Effect(s.now, line)
             open == IF line.op \in {"begin", "commit"} THEN line.op = "begin" ELSE s.open
         IN  [now |-> now, open |-> open, kept |-> IF open THEN s.kept ELSE now, failed |-> FALSE]

\* The connection after the statements of a file, and what it leaves when it
\* is closed.
Fresh == [now |-> EmptyDatabase, kept |-> EmptyDatabase, open |-> FALSE, failed |-> FALSE]

Executed(file) ==
    LET after[n \in 0..Len(file)] == IF n = 0 THEN Fresh ELSE ExecLine(after[n - 1], file[n])
    IN  after[Len(file)]

Restored(file) == Executed(file).kept

\* A row of the file has a text that splits its statement.
SplitAt(line) == /\ line.op = "insert"
                 /\ \E c \in DOMAIN line.literals :
                        line.literals[c].quoted /\ line.literals[c].text \in Splitting
Splits(file) == \E i \in DOMAIN file : SplitAt(file[i])

\* The statements that sqlite reads in the text of a file: those that dump
\* wrote, up to the first text that splits one.
Readings(file) ==
    IF ~Splits(file) THEN {file}
    ELSE LET first == CHOOSE i \in DOMAIN file :
                          SplitAt(file[i]) /\ \A j \in 1..(i - 1) : ~SplitAt(file[j])
         IN  {SubSeq(file, 1, first - 1) \o rest : rest \in Rereadings}
=============================================================================
