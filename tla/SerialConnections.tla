------------------------- MODULE SerialConnections --------------------------
(***************************************************************************)
(* What the connections of a process promise their users: a SQL script     *)
(* runs on its connection in one piece.  Either all its statements, or     *)
(* those before the first that fails, follow one another, with no          *)
(* statement of another thread's script between them.                      *)
(***************************************************************************)
EXTENDS Integers, Sequences

CONSTANTS Objects, Scripts, None

VARIABLE history    \* history[o]: the statements completed on o's connection

\* q stops at i: nothing before i fails, and i is the end or a failing statement.
StopsAt(q, i) ==
    /\ \A j \in 1..(i - 1) : q[j].error = None
    /\ i <= Len(q) => q[i].error # None

Init == history = [o \in Objects |-> <<>>]

RunScript(o, q) ==
    \E i \in 1..(Len(q) + 1) :
        /\ StopsAt(q, i)
        /\ history' = [history EXCEPT ![o] = @ \o SubSeq(q, 1, i - 1)]

Next == \E o \in Objects, q \in Scripts : RunScript(o, q)

Spec == Init /\ [][Next]_history
=============================================================================
