-------------------------- MODULE MCDatabaseExporter --------------------------
(***************************************************************************)
(* Instances of DatabaseExporter for TLC: two tables, a trigger that copies *)
(* from one to the other, and the values that sqlite prints alike.          *)
(***************************************************************************)
EXTENDS DatabaseExporter

CONSTANTS
    person, coffees, sequence, spaced,      \* names of tables
    null, empty, word, apostrophe,          \* NULL, '', a text, a text with a quote
    doubled, ending,                        \* with two quotes in a row, with an end of statement
    five, fiveText,                         \* the integer 5 and the text '5'
    precise, rounded,                       \* two reals that print alike
    x_empty, x_word, x_apostrophe, x_doubled, x_ending, x_five, x_real,
    text, numeric, blob,                    \* affinities
    index, view

MCPrinted == [v \in Values |->
    CASE v = null -> null  [] v = empty -> x_empty  [] v = word -> x_word
      [] v = apostrophe -> x_apostrophe  [] v \in {five, fiveText} -> x_five
      [] v = doubled -> x_doubled  [] v = ending -> x_ending
      [] v \in {precise, rounded} -> x_real]

MCReadAs == [p \in Affinities \X Texts |->
    CASE p[2] = x_empty -> empty  [] p[2] = x_word -> word
      [] p[2] \in {x_apostrophe, x_doubled} -> apostrophe  [] p[2] = x_ending -> ending
      [] p[2] = x_five -> IF p[1] = numeric THEN five ELSE fiveText
      [] p[2] = x_real -> IF p[1] = numeric THEN rounded ELSE word]

-----------------------------------------------------------------------------
Name    == [affinity |-> text, notNull |-> TRUE, generated |-> FALSE]
Amount  == [affinity |-> numeric, notNull |-> FALSE, generated |-> FALSE]
Untyped == [affinity |-> blob, notNull |-> FALSE, generated |-> FALSE]
Length  == [affinity |-> numeric, notNull |-> FALSE, generated |-> TRUE]

TableOf(name, columns, rows) == [name |-> name, columns |-> columns, rows |-> rows]
DatabaseOf(tbls, triggers) == [tables |-> tbls, triggers |-> triggers, others |-> {}]

Persons(rows) == TableOf(person, <<Name, Amount>>, rows)
Coffees(rows) == TableOf(coffees, <<Name>>, rows)
Copy == [on |-> person, into |-> coffees, row |-> <<word>>]

\* One commit moves both tables; another drops a table and makes an index; the
\* last recreates the table with other columns.
Before  == DatabaseOf(<<Persons(<<<<word, null>>>>), Coffees(<<<<word>>>>)>>, <<Copy>>)
After   == DatabaseOf(<<Persons(<<<<word, null>>, <<word, five>>>>),
                        Coffees(<<<<word>>, <<word>>>>)>>, <<Copy>>)
Dropped == [DatabaseOf(<<Persons(<<<<word, five>>>>)>>, <<>>) EXCEPT !.others = {index}]
Altered == DatabaseOf(<<Persons(<<<<word, null>>>>),
                        TableOf(coffees, <<Name, Untyped>>, <<<<word, null>>>>)>>, <<>>)
Spaced  == DatabaseOf(<<Persons(<<<<word, five>>>>), TableOf(spaced, <<Name>>, <<>>)>>, <<>>)

\* What a dump does not carry over: a sequence of AUTOINCREMENT, a number in a
\* column without affinity, a real of 16 digits, two quotes in a row.
Counted == DatabaseOf(<<Persons(<<>>), TableOf(sequence, <<Untyped, Untyped>>, <<<<word, five>>>>)>>, <<>>)
Inexact == DatabaseOf(<<TableOf(person, <<Amount, Untyped>>, <<<<precise, five>>>>),
                        Coffees(<<<<doubled>>>>)>>, <<>>)

\* What makes a restore fail, or run statements of a value: a trigger on a view,
\* a generated column, a text that ends its statement.
Viewed  == [Before EXCEPT !.others = {view}, !.triggers = <<Copy, [Copy EXCEPT !.on = view]>>]
Derived == DatabaseOf(<<TableOf(person, <<Name, Length>>, <<<<word, five>>>>)>>, <<>>)
Ending  == DatabaseOf(<<Persons(<<<<word, ending>>>>), Coffees(<<<<word>>>>)>>, <<>>)

\* What follows a text that ends its statement: a COMMIT, then the rest of the
\* dump, or a syntax error at once.
Shortened == [op |-> "insert", name |-> person,
              literals |-> <<QuotedLiteral(x_word), QuotedLiteral(x_word)>>]
MCRereadings == {<<Shortened, [op |-> "commit"], CreateLine([name |-> coffees, columns |-> <<Name>>])>>,
                 <<Shortened, [op |-> "commit"], [op |-> "commit"]>>,
                 <<[op |-> "error"]>>}

MCDatabases == {Before, After, Dropped, Altered, Spaced, Counted, Inexact, Viewed, Derived, Ending}

\* A database with one text that has a quote.
Quoted == {DatabaseOf(<<TableOf(person, <<Name>>, <<<<apostrophe>>>>)>>, <<>>)}
=============================================================================
