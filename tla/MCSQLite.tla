------------------------------ MODULE MCSQLite ------------------------------
(***************************************************************************)
(* Instances of SQLite for TLC.                                            *)
(***************************************************************************)
EXTENDS SQLite

CONSTANTS c1, c2, r1, r2, r3, e1

Stmt(columns, rows, changes, error) ==
    [columns |-> columns, rows |-> rows, changes |-> changes, error |-> error]

SelectTwo  == Stmt(c1, <<r1, r2>>, 0, None)
SelectOne  == Stmt(c2, <<r3>>, 0, None)
Insert     == Stmt(c1, <<>>, 1, None)
Broken     == Stmt(c1, <<>>, 0, e1)
Tx         == Stmt(c1, <<>>, 0, None)

\* Two inserts; an insert that is followed by an error; two selects in one text.
MCQueries   == {<<Insert, Insert>>, <<SelectOne, Broken, Insert>>, <<SelectTwo, SelectOne>>}
MCTxQueries == {<<Tx>>, <<Broken>>}
SelectsOnly == {<<SelectTwo>>, <<SelectOne>>}
NoTxQuery   == {}

\* One thread calls once; one calls twice, the others once.
OneCall   == [t \in Threads |-> 1]
TwoAndOne == [OneCall EXCEPT ![CHOOSE t \in Threads : TRUE] = 2]
=============================================================================
