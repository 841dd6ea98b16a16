---------------------------- MODULE SQLiteProofs ----------------------------
(***************************************************************************)
(* Theorems about SQLite for any number of threads, objects, calls and     *)
(* scripts: type correctness, mutual exclusion on the connection, that     *)
(* scripts run in one piece, and that results, counts and errors are those *)
(* of a call's own script when no other call comes in between.             *)
(***************************************************************************)
EXTENDS SQLite, Induction

-----------------------------------------------------------------------------
(* Type correctness *)

\* A thread inside a call works on an object.
BusyOnObject == \A t \in Threads : Active(t) => frame[t].obj \in Objects

TypeInv == TypeOK /\ BusyOnObject

\* A statement that sqlite3_exec has reached is one of the script's.
LEMMA CurrentStatement ==
    ASSUME TypeOK, NEW t \in Threads, InStatement(t)
    PROVE  Current(t) \in Statement
  <1>1. frame[t].sql \in Seq(Statement) /\ at[t].stmt \in Nat \ {0}
    BY DEF TypeOK
  <1> QED
    BY <1>1 DEF InStatement, Current

\* A row that is ready is one of the statement's: sqlite3_exec never hands the
\* callback anything past the end of the result.
LEMMA CurrentRow ==
    ASSUME TypeOK, NEW t \in Threads, RowReady(t)
    PROVE  /\ Current(t).columns \in Columns
           /\ Current(t).rows[at[t].row + 1] \in Rows
  <1>1. Current(t) \in Statement
    BY CurrentStatement DEF RowReady
  <1>2. Current(t).rows \in Seq(Rows) /\ Current(t).columns \in Columns
    BY <1>1 DEF Statement
  <1>3. at[t].row \in Nat
    BY DEF TypeOK
  <1> QED
    BY <1>2, <1>3 DEF RowReady

\* clear_records gives a result set.
LEMMA ClearedType ==
    ASSUME NEW r \in QueryResult
    PROVE  Cleared(r) \in QueryResult
  <1>1. <<>> \in Seq(Columns) /\ <<>> \in Seq(Rows)
    OBVIOUS
  <1> QED
    BY <1>1, Zenon DEF QueryResult, Cleared

\* The callback gives a result set.
LEMMA WithRowType ==
    ASSUME NEW r \in QueryResult, NEW columns \in Columns, NEW row \in Rows
    PROVE  WithRow(r, columns, row) \in QueryResult
  <1> DEFINE names == IF r.exist THEN r.names ELSE Append(r.names, columns)
  <1>1. r.names \in Seq(Columns) /\ r.rows \in Seq(Rows)
    BY DEF QueryResult
  <1>2. names \in Seq(Columns) /\ Append(r.rows, row) \in Seq(Rows)
    BY <1>1
  <1> HIDE DEF names
  <1>3. [exist |-> TRUE, names |-> names, rows |-> Append(r.rows, row)] \in QueryResult
    BY <1>2 DEF QueryResult
  <1> QED
    BY <1>3 DEF WithRow, names

\* Starting a call keeps the types.
LEMMA BeginType ==
    ASSUME TypeInv, NEW t \in Threads, NEW o \in Objects, NEW q \in Seq(Statement),
           NEW api \in {"execute", "transaction"}, NEW first \in {"clear", "enter"},
           Begin(t, api, o, q, first)
    PROVE  TypeInv'
  <1> USE DEF Begin, TypeInv, TypeOK
  <1> DEFINE new == [api |-> api, obj |-> o, sql |-> q]
  <1>1. frame' \in [Threads -> [api : {"none", "execute", "transaction"},
                                obj : Objects \cup {None}, sql : Seq(Statement)]]
    <2>1. new \in [api : {"none", "execute", "transaction"},
                   obj : Objects \cup {None}, sql : Seq(Statement)]
      OBVIOUS
    <2>2. frame' = [frame EXCEPT ![t] = new]
      OBVIOUS
    <2> HIDE DEF new
    <2> QED
      BY <2>1, <2>2
  <1>2. pc' \in [Threads -> {"idle", "clear", "lock", "enter", "exec", "unlock", "finish", "read"}]
    OBVIOUS
  <1>3. outcome' \in [Threads -> [kind : {"none"}]
                          \cup [kind : {"threw"}, message : Errors \cup {None}]
                          \cup [kind : {"returned"}, count : Nat]]
    <2>1. [kind |-> "none"] \in [kind : {"none"}]
      OBVIOUS
    <2> QED
      BY <2>1
  <1>4. seen' \in [Threads -> QueryResult \cup {None}]
    OBVIOUS
  <1>5. /\ calls' \in [Threads -> Nat] /\ base' \in [Threads -> Nat]
        /\ \A u \in Threads : calls'[u] <= MaxCalls[u]
    <2>1. calls \in [Threads -> Nat] /\ calls' = [calls EXCEPT ![t] = calls[t] + 1]
      OBVIOUS
    <2>2. calls[t] < MaxCalls[t] /\ \A u \in Threads : calls[u] <= MaxCalls[u]
      OBVIOUS
    <2>3. calls[t] \in Nat /\ MaxCalls[t] \in Nat
      BY MaxCallsAssumption
    <2>4. calls[t] + 1 <= MaxCalls[t]
      BY ONLY <2>2, <2>3
    <2>5. calls' \in [Threads -> Nat] /\ \A u \in Threads : calls'[u] <= MaxCalls[u]
      BY ONLY <2>1, <2>2, <2>4
    <2>6. base' \in [Threads -> Nat]
      OBVIOUS
    <2> QED
      BY <2>5, <2>6
  <1>6. mixed' \in [Threads -> BOOLEAN]
    BY Zenon
  <1>7. shared' \in [Threads -> BOOLEAN]
    BY Zenon
  <1>8. BusyOnObject'
    BY DEF BusyOnObject, Active
  <1>9. UNCHANGED <<at, rc, records, owner, mutex, err, total, log>>
    BY DEF locks, connection
  <1> QED
    BY <1>1, <1>2, <1>3, <1>4, <1>5, <1>6, <1>7, <1>8, <1>9

\* SQLite::execute, the transaction calls and the reads keep every variable of
\* its type, for any interleaving of any number of threads.
LEMMA TypeStep == TypeInv /\ [Next]_vars => TypeInv'
  <1> SUFFICES ASSUME TypeInv, [Next]_vars PROVE TypeInv'
    OBVIOUS
  <1> USE DEF TypeInv, BusyOnObject, Active, locks, connection, results, window
  <1>1. ASSUME NEW t \in Threads, NEW o \in Objects, NEW q \in Queries, Execute(t, o, q)
        PROVE  TypeInv'
    BY <1>1, BeginType, QueriesAssumption DEF Execute
  <1>2. ASSUME NEW t \in Threads, NEW o \in Objects, NEW q \in TxQueries, Transaction(t, o, q)
        PROVE  TypeInv'
    BY <1>2, BeginType, TxQueriesAssumption DEF Transaction
  <1>3. ASSUME NEW t \in Threads, BeginRead(t)
        PROVE  TypeInv'
    BY <1>3 DEF TypeOK, BeginRead
  <1>4. ASSUME NEW t \in Threads, ~Crashed, ClearRecords(t)
        PROVE  TypeInv'
    <2>1. records \in QueryResult
      BY <1>4 DEF TypeOK, Crashed
    <2>2. records' \in QueryResult \cup {None}
      BY <1>4, <2>1, ClearedType DEF ClearRecords, WriteRecords
    <2> QED
      BY <1>4, <2>2 DEF TypeOK, ClearRecords
  <1>5. ASSUME NEW t \in Threads, LockDb(t)
        PROVE  TypeInv'
    BY <1>5 DEF TypeOK, LockDb
  <1>6. ASSUME NEW t \in Threads, ExecEnter(t)
        PROVE  TypeInv'
    <2>1. at' \in [Threads -> [stmt : Nat \ {0}, row : Nat]]
      BY <1>6 DEF TypeOK, ExecEnter, FirstStatement
    <2> QED
      BY <1>6, <2>1 DEF TypeOK, ExecEnter
  <1>7. ASSUME NEW t \in Threads, ~Crashed, Callback(t)
        PROVE  TypeInv'
    <2>1. records \in QueryResult
      BY <1>7 DEF TypeOK, Crashed
    <2>2. records' \in QueryResult \cup {None}
      BY <1>7, <2>1, CurrentRow, WithRowType DEF Callback, WriteRecords
    <2>3. at' \in [Threads -> [stmt : Nat \ {0}, row : Nat]]
      <3>1. at \in [Threads -> [stmt : Nat \ {0}, row : Nat]]
        BY DEF TypeOK
      <3>2. at' = [at EXCEPT ![t].row = @ + 1]
        BY <1>7 DEF Callback
      <3> QED
        BY ONLY <3>1, <3>2
    <2>4. UNCHANGED <<pc, frame, rc, outcome, seen, owner, mutex, err, total,
                      calls, log, base, mixed, shared>>
      BY <1>7 DEF Callback
    <2>5. TypeOK'
      BY <2>2, <2>3, <2>4 DEF TypeOK
    <2> QED
      BY <2>4, <2>5
  <1>8. ASSUME NEW t \in Threads, FinishStatement(t)
        PROVE  TypeInv'
    <2>1. Current(t) \in Statement /\ Current(t).changes \in Nat
      BY <1>8, CurrentStatement DEF FinishStatement, Statement
    <2>2. frame[t].obj \in Objects
      BY <1>8 DEF FinishStatement, InStatement
    <2>3. log' \in [Objects -> Seq(Statement)]
      BY <1>8, <2>1, <2>2 DEF TypeOK, FinishStatement
    <2>4. total' \in [Objects -> Nat]
      BY <1>8, <2>1, <2>2 DEF TypeOK, FinishStatement
    <2>5. at' \in [Threads -> [stmt : Nat \ {0}, row : Nat]]
      BY <1>8 DEF TypeOK, FinishStatement
    <2>6. UNCHANGED <<pc, frame, rc, outcome, seen, owner, mutex, records, err,
                      calls, base, mixed, shared>>
      BY <1>8 DEF FinishStatement
    <2>7. TypeOK'
      BY <2>3, <2>4, <2>5, <2>6 DEF TypeOK
    <2> QED
      BY <2>6, <2>7
  <1>9. ASSUME NEW t \in Threads, FailStatement(t)
        PROVE  TypeInv'
    <2>1. Current(t).error \in Errors \cup {None}
      BY <1>9, CurrentStatement DEF FailStatement, Statement
    <2>2. pc' \in [Threads -> {"idle", "clear", "lock", "enter", "exec", "unlock", "finish", "read"}]
      BY <1>9 DEF TypeOK, FailStatement, ExecOut
    <2>3. /\ rc' \in [Threads -> Errors \cup {None}]
          /\ err' \in [Objects -> Errors \cup {None}]
      BY <1>9, <2>1 DEF TypeOK, FailStatement
    <2>4. mutex' \in [Objects -> Threads \cup {None}]
      BY <1>9 DEF TypeOK, FailStatement, ExecOut
    <2>5. UNCHANGED <<frame, at, outcome, seen, owner, records, total, calls, log,
                      base, mixed, shared>>
      BY <1>9 DEF FailStatement, ExecOut
    <2>6. TypeOK'
      BY <2>2, <2>3, <2>4, <2>5 DEF TypeOK
    <2> QED
      BY <1>9, <2>5, <2>6 DEF FailStatement, ExecOut, InStatement, TypeOK
  <1>10. ASSUME NEW t \in Threads, FinishScript(t)
         PROVE  TypeInv'
    BY <1>10 DEF TypeOK, FinishScript, ExecOut
  <1>11. ASSUME NEW t \in Threads, UnlockDb(t)
         PROVE  TypeInv'
    BY <1>11 DEF TypeOK, UnlockDb
  <1>12. ASSUME NEW t \in Threads, Throw(t)
         PROVE  TypeInv'
    <2> DEFINE new == [kind |-> "threw", message |-> err[frame[t].obj]]
    <2>1. new \in [kind : {"threw"}, message : Errors \cup {None}]
      BY <1>12 DEF TypeOK, Throw
    <2>2. outcome' = [outcome EXCEPT ![t] = new]
      BY <1>12 DEF Throw
    <2> HIDE DEF new
    <2> QED
      BY <1>12, <2>1, <2>2 DEF TypeOK, Throw
  <1>13. ASSUME NEW t \in Threads, Return(t)
         PROVE  TypeInv'
    <2> DEFINE new == [kind |-> "returned", count |-> ReturnedCount(t)]
    <2>1. new \in [kind : {"returned"}, count : Nat]
      BY <1>13 DEF TypeOK, Return, ReturnedCount
    <2>2. outcome' = [outcome EXCEPT ![t] = new]
      BY <1>13 DEF Return
    <2> HIDE DEF new
    <2> QED
      BY <1>13, <2>1, <2>2 DEF TypeOK, Return
  <1>14. ASSUME NEW t \in Threads, EndRead(t)
         PROVE  TypeInv'
    BY <1>14 DEF TypeOK, EndRead, WriteRecords
  <1>15. CASE UNCHANGED vars
    BY <1>15 DEF TypeOK, vars
  <1> QED
    BY <1>1, <1>2, <1>3, <1>4, <1>5, <1>6, <1>7, <1>8, <1>9, <1>10, <1>11,
       <1>12, <1>13, <1>14, <1>15 DEF Next, Call, Step

LEMMA TypeInvariant == Spec => []TypeInv
  <1>1. Init => TypeInv
    <2>1. EmptyResult \in QueryResult
      BY DEF EmptyResult, QueryResult
    <2>2. FirstStatement \in [stmt : Nat \ {0}, row : Nat]
      BY DEF FirstStatement
    <2> QED
      BY <2>1, <2>2, MaxCallsAssumption DEF Init, TypeInv, TypeOK, BusyOnObject, Active
  <1> QED
    BY <1>1, TypeStep, PTL DEF Spec

THEOREM TypeCorrect == Spec => []TypeOK
  BY TypeInvariant, PTL DEF TypeInv
-----------------------------------------------------------------------------
(* Mutual exclusion *)

\* Who holds what: a thread inside execute owns the critical section of its
\* object from LockDb to UnlockDb, any thread inside sqlite3_exec the mutex of
\* the connection, and nobody else holds anything.
InSection(t, o) == /\ pc[t] \in {"enter", "exec", "unlock"}
                   /\ frame[t].api = "execute" /\ frame[t].obj = o

LocksHeld ==
    /\ \A t \in Threads, o \in Objects : owner[o] = t <=> InSection(t, o)
    /\ \A t \in Threads, o \in Objects : mutex[o] = t <=> pc[t] = "exec" /\ frame[t].obj = o
    /\ \A t \in Threads : pc[t] \in {"clear", "lock", "unlock"} => frame[t].api = "execute"

LocksInv == TypeInv /\ LocksHeld

LEMMA LocksStep == LocksInv /\ [Next]_vars => LocksHeld'
  <1> SUFFICES ASSUME TypeInv, LocksHeld, [Next]_vars PROVE LocksHeld'
    BY DEF LocksInv
  <1> USE DEF LocksHeld, InSection, locks, connection, results, window
  <1>0. /\ pc \in [Threads -> {"idle", "clear", "lock", "enter", "exec", "unlock", "finish", "read"}]
        /\ frame \in [Threads -> [api : {"none", "execute", "transaction"},
                                  obj : Objects \cup {None}, sql : Seq(Statement)]]
        /\ owner \in [Objects -> Threads \cup {None}]
        /\ mutex \in [Objects -> Threads \cup {None}]
        /\ \A t \in Threads : Active(t) => frame[t].obj \in Objects
    BY DEF TypeInv, TypeOK, BusyOnObject
  <1>1. ASSUME NEW t \in Threads, NEW o \in Objects, NEW q \in Queries, Execute(t, o, q)
        PROVE  LocksHeld'
    BY <1>0, <1>1 DEF Execute, Begin
  <1>2. ASSUME NEW t \in Threads, NEW o \in Objects, NEW q \in TxQueries, Transaction(t, o, q)
        PROVE  LocksHeld'
    BY <1>0, <1>2 DEF Transaction, Begin
  <1>3. ASSUME NEW t \in Threads, BeginRead(t)
        PROVE  LocksHeld'
    BY <1>0, <1>3 DEF BeginRead
  <1>4. ASSUME NEW t \in Threads, ClearRecords(t)
        PROVE  LocksHeld'
    BY <1>0, <1>4 DEF ClearRecords
  <1>5. ASSUME NEW t \in Threads, LockDb(t)
        PROVE  LocksHeld'
    BY <1>0, <1>5, NoneAssumption DEF LockDb, Active
  <1>6. ASSUME NEW t \in Threads, ExecEnter(t)
        PROVE  LocksHeld'
    BY <1>0, <1>6, NoneAssumption DEF ExecEnter, MutexFree, Active
  <1>7. ASSUME NEW t \in Threads, Callback(t)
        PROVE  LocksHeld'
    BY <1>0, <1>7 DEF Callback
  <1>8. ASSUME NEW t \in Threads, FinishStatement(t)
        PROVE  LocksHeld'
    BY <1>0, <1>8 DEF FinishStatement
  <1>9. ASSUME NEW t \in Threads, pc[t] = "exec", ExecOut(t)
        PROVE  LocksHeld'
    BY <1>0, <1>9, NoneAssumption DEF ExecOut, Active
  <1>10. ASSUME NEW t \in Threads, FailStatement(t)
         PROVE  LocksHeld'
    BY <1>9, <1>10 DEF FailStatement, InStatement
  <1>11. ASSUME NEW t \in Threads, FinishScript(t)
         PROVE  LocksHeld'
    BY <1>9, <1>11 DEF FinishScript
  <1>12. ASSUME NEW t \in Threads, UnlockDb(t)
         PROVE  LocksHeld'
    BY <1>0, <1>12, NoneAssumption DEF UnlockDb, Active
  <1>13. ASSUME NEW t \in Threads, Throw(t) \/ Return(t)
         PROVE  LocksHeld'
    BY <1>0, <1>13 DEF Throw, Return
  <1>14. ASSUME NEW t \in Threads, EndRead(t)
         PROVE  LocksHeld'
    BY <1>0, <1>14 DEF EndRead
  <1>15. CASE UNCHANGED vars
    BY <1>15 DEF vars
  <1> QED
    BY <1>1, <1>2, <1>3, <1>4, <1>5, <1>6, <1>7, <1>8, <1>10, <1>11, <1>12,
       <1>13, <1>14, <1>15 DEF Next, Call, Step

LEMMA LocksInvariant == Spec => []LocksInv
  <1>1. Init => LocksHeld
    BY NoneAssumption DEF Init, LocksHeld, InSection
  <1> QED
    BY <1>1, TypeInvariant, LocksStep, PTL DEF Spec, LocksInv

\* At most one thread is inside sqlite3_exec on a connection, although the
\* transaction calls bypass Sync_db.
THEOREM MutualExclusion == Spec => []OneScriptPerConnection
  <1>1. LocksInv => OneScriptPerConnection
    BY DEF LocksInv, LocksHeld, TypeInv, BusyOnObject, Active, OneScriptPerConnection
  <1> QED
    BY <1>1, LocksInvariant, PTL

\* execute releases its critical section on every path, the throwing one too:
\* a thread that is not between LockDb and UnlockDb holds nothing.
THEOREM LocksReleased == Spec => []NoLockLeftBehind
  <1>1. LocksInv => NoLockLeftBehind
    BY DEF LocksInv, LocksHeld, InSection, NoLockLeftBehind
  <1> QED
    BY <1>1, LocksInvariant, PTL

-----------------------------------------------------------------------------
(* Scripts in one piece *)

\* The last k elements of l are the first k of q.
EndsWith(l, q, k) == \A i \in 1..k : l[Len(l) - k + i] = q[i]

LEMMA SplitAtEnd ==
    ASSUME NEW S, NEW l \in Seq(S), NEW q \in Seq(S), NEW k \in Nat, k <= Len(l), k <= Len(q),
           EndsWith(l, q, k)
    PROVE  l = SubSeq(l, 1, Len(l) - k) \o SubSeq(q, 1, k)
  <1> DEFINE a == SubSeq(l, 1, Len(l) - k)
             b == SubSeq(q, 1, k)
  <1>1. Len(l) \in Nat /\ Len(q) \in Nat
    BY LenProperties
  <1>2. /\ a \in Seq(S) /\ Len(a) = Len(l) - k
        /\ \A i \in 1..(Len(l) - k) : a[i] = l[i]
    BY <1>1
  <1>3. b \in Seq(S) /\ Len(b) = k /\ \A i \in 1..k : b[i] = q[i]
    BY <1>1
  <1> HIDE DEF a, b
  <1>4. /\ a \o b \in Seq(S) /\ Len(a \o b) = Len(l)
        /\ \A i \in 1..Len(l) : (a \o b)[i] = IF i <= Len(a) THEN a[i] ELSE b[i - Len(a)]
    <2>1. /\ a \o b \in Seq(S) /\ Len(a \o b) = Len(a) + Len(b)
          /\ \A i \in 1..(Len(a) + Len(b)) :
                (a \o b)[i] = IF i <= Len(a) THEN a[i] ELSE b[i - Len(a)]
      <3>1. a \in Seq(S) /\ b \in Seq(S)
        BY <1>2, <1>3
      <3> QED
        BY <3>1, ConcatProperties, Zenon
    <2>2. Len(a) + Len(b) = Len(l)
      BY <1>1, <1>2, <1>3
    <2> QED
      BY <2>1, <2>2, Zenon
  <1>5. ASSUME NEW i \in 1..Len(l) PROVE (a \o b)[i] = l[i]
    <2>1. CASE i <= Len(l) - k
      BY <1>1, <1>2, <1>4, <2>1
    <2>2. CASE ~(i <= Len(l) - k)
      <3>1. PICK j \in 1..k : i = Len(l) - k + j
        <4>1. i - (Len(l) - k) \in 1..k
          BY <1>1, <2>2
        <4> QED
          BY <1>1, <4>1
      <3>2. (a \o b)[i] = b[j]
        <4>1. Len(a) = Len(l) - k
          BY <1>2
        <4>2. ~(i <= Len(a)) /\ i - Len(a) = j
          BY <1>1, <3>1, <4>1
        <4>3. (a \o b)[i] = IF i <= Len(a) THEN a[i] ELSE b[i - Len(a)]
          BY <1>4, Zenon
        <4> QED
          BY <4>2, <4>3, Zenon
      <3> QED
        BY <1>3, <3>1, <3>2 DEF EndsWith
    <2> QED
      BY <2>1, <2>2
  <1>6. a \o b = l
    BY <1>4, <1>5, SeqEqual
  <1> QED
    BY <1>6 DEF a, b

\* The next element of the other is appended.
LEMMA GrowAtEnd ==
    ASSUME NEW l \in Seq(Statement), NEW q \in Seq(Statement), NEW k \in Nat,
           k <= Len(l), k + 1 <= Len(q), EndsWith(l, q, k)
    PROVE  EndsWith(Append(l, q[k + 1]), q, k + 1)
  <1> DEFINE m == Append(l, q[k + 1])
  <1>1. Len(l) \in Nat /\ Len(q) \in Nat /\ q[k + 1] \in Statement
    BY LenProperties
  <1>2. Len(m) = Len(l) + 1 /\ m[Len(l) + 1] = q[k + 1] /\ \A i \in 1..Len(l) : m[i] = l[i]
    BY <1>1, AppendProperties
  <1> HIDE DEF m
  <1>3. ASSUME NEW i \in 1..(k + 1) PROVE m[Len(m) - (k + 1) + i] = q[i]
    <2>0. i = k + 1 \/ i \in 1..k
      OBVIOUS
    <2>1. CASE i = k + 1
      <3>1. Len(m) - (k + 1) + i = Len(l) + 1
        BY <1>1, <1>2, <2>1
      <3> QED
        BY <1>2, <2>1, <3>1
    <2>2. CASE i \in 1..k
      <3>1. Len(m) - (k + 1) + i = Len(l) - k + i /\ Len(l) - k + i \in 1..Len(l)
        BY <1>1, <1>2, <2>2
      <3> QED
        BY <1>2, <2>2, <3>1 DEF EndsWith
    <2> QED
      BY <2>0, <2>1, <2>2
  <1> QED
    BY <1>3 DEF m, EndsWith

\* What a script in progress has executed is the end of its connection's log,
\* and nothing of it has failed.
Executed(t) ==
    LET k == at[t].stmt - 1
        l == log[frame[t].obj]
    IN  /\ k <= Len(frame[t].sql) /\ k <= Len(l)
        /\ EndsWith(l, frame[t].sql, k)
        /\ \A i \in 1..k : frame[t].sql[i].error = None

LogInv ==
    \A t \in Threads :
        /\ Active(t) => frame[t].sql \in Queries \cup TxQueries
        /\ pc[t] = "exec" => Executed(t)

LEMMA LogStep == LocksInv /\ LogInv /\ [Next]_vars => LogInv'
  <1> SUFFICES ASSUME LocksInv, LogInv, [Next]_vars PROVE LogInv'
    OBVIOUS
  <1>0. /\ pc \in [Threads -> {"idle", "clear", "lock", "enter", "exec", "unlock", "finish", "read"}]
        /\ frame \in [Threads -> [api : {"none", "execute", "transaction"},
                                  obj : Objects \cup {None}, sql : Seq(Statement)]]
        /\ at \in [Threads -> [stmt : Nat \ {0}, row : Nat]]
        /\ log \in [Objects -> Seq(Statement)]
        /\ \A t \in Threads : Active(t) => frame[t].obj \in Objects
    BY DEF LocksInv, TypeInv, TypeOK, BusyOnObject
  <1>1. ASSUME NEW t \in Threads, NEW o \in Objects, NEW q \in Queries \cup TxQueries, NEW api,
               NEW first \in {"clear", "enter"}, Begin(t, api, o, q, first)
        PROVE  LogInv'
    BY <1>0, <1>1 DEF Begin, LogInv, Executed, Active, connection
  <1>3. ASSUME NEW t \in Threads, NEW step \in {"idle", "lock", "enter", "unlock", "finish", "read"},
               pc' = [pc EXCEPT ![t] = step], Active(t) \/ step \in {"idle", "read"},
               UNCHANGED <<frame, at, log>>
        PROVE  LogInv'
    BY <1>0, <1>3 DEF LogInv, Executed, Active
  <1>4. ASSUME NEW t \in Threads, ExecEnter(t) PROVE LogInv'
    <2>1. /\ at' = [at EXCEPT ![t] = FirstStatement] /\ pc' = [pc EXCEPT ![t] = "exec"]
          /\ frame' = frame /\ log' = log /\ Active(t)
      BY <1>4 DEF ExecEnter, Active
    <2>2. Executed(t)'
      <3>1. at'[t].stmt - 1 = 0
        BY <1>0, <2>1 DEF FirstStatement
      <3>2. Len(frame[t].sql) \in Nat /\ Len(log[frame[t].obj]) \in Nat
        BY <1>0, <2>1
      <3> QED
        BY <2>1, <3>1, <3>2 DEF Executed, EndsWith
    <2>3. \A u \in Threads \ {t} : pc'[u] = pc[u] /\ at'[u] = at[u]
      BY <1>0, <2>1
    <2>4. \A u \in Threads \ {t} : Executed(u) => Executed(u)'
      BY <2>1, <2>3 DEF Executed
    <2> QED
      BY <1>0, <2>1, <2>2, <2>3, <2>4 DEF LogInv, Active
  <1>5. ASSUME NEW t \in Threads, Callback(t) PROVE LogInv'
    <2>1. \A u \in Threads : at'[u].stmt = at[u].stmt
      BY <1>0, <1>5 DEF Callback
    <2>2. pc' = pc /\ frame' = frame /\ log' = log
      BY <1>5 DEF Callback, connection
    <2> QED
      BY <2>1, <2>2 DEF LogInv, Executed, Active
  <1>6. ASSUME NEW t \in Threads, FinishStatement(t) PROVE LogInv'
    <2> DEFINE o == frame[t].obj
               q == frame[t].sql
               l == log[o]
               k == at[t].stmt - 1
    <2>1. /\ pc[t] = "exec" /\ at[t].stmt <= Len(q) /\ q[at[t].stmt].error = None
          /\ pc' = pc /\ frame' = frame
      BY <1>0, <1>6 DEF FinishStatement, InStatement, Current
    <2>2. /\ o \in Objects /\ l \in Seq(Statement) /\ q \in Seq(Statement)
          /\ k \in Nat /\ k + 1 = at[t].stmt
      <3>1. o \in Objects
        BY <1>0, <2>1 DEF Active
      <3>2. l \in Seq(Statement) /\ q \in Seq(Statement)
        BY <1>0, <3>1
      <3>3. at[t].stmt \in Nat \ {0}
        BY <1>0
      <3> QED
        BY <3>1, <3>2, <3>3
    <2>3. k <= Len(l) /\ EndsWith(l, q, k) /\ \A i \in 1..k : q[i].error = None
      BY <2>1 DEF LogInv, Executed
    <2>4. /\ log'[o] = Append(l, q[k + 1]) /\ at'[t].stmt = at[t].stmt + 1
          /\ \A u \in Threads \ {t} : at'[u] = at[u]
          /\ \A p \in Objects \ {o} : log'[p] = log[p]
      BY <1>0, <1>6, <2>2 DEF FinishStatement, Current
    <2>5. Executed(t)'
      <3>1. at'[t].stmt - 1 = k + 1 /\ k + 1 <= Len(q)
        BY <2>1, <2>2, <2>4
      <3>2. Len(log'[o]) = Len(l) + 1 /\ EndsWith(log'[o], q, k + 1)
        <4>1. /\ l \in Seq(Statement) /\ q \in Seq(Statement) /\ q[k + 1] \in Statement
              /\ k \in Nat /\ k <= Len(l) /\ k + 1 <= Len(q) /\ EndsWith(l, q, k)
          BY <2>2, <2>3, <3>1
        <4> HIDE DEF k, q, l
        <4>2. EndsWith(Append(l, q[k + 1]), q, k + 1)
          BY <4>1, GrowAtEnd
        <4>3. Len(Append(l, q[k + 1])) = Len(l) + 1
          BY <4>1, AppendProperties
        <4> QED
          BY <2>4, <4>2, <4>3
      <3>3. ASSUME NEW i \in 1..(k + 1) PROVE q[i].error = None
        <4> HIDE DEF k, q
        <4>1. i \in 1..k \/ i = k + 1
          BY <2>2
        <4> QED
          BY <2>1, <2>2, <2>3, <4>1
      <3>4. k + 1 <= Len(log'[o])
        BY <2>2, <2>3, <3>2
      <3>5. frame'[t].obj = o /\ frame'[t].sql = q
        BY <2>1
      <3> HIDE DEF k, o, q
      <3> QED
        BY <3>1, <3>2, <3>3, <3>4, <3>5 DEF Executed
    <2>6. ASSUME NEW u \in Threads \ {t}, pc[u] = "exec" PROVE Executed(u)'
      <3>1. mutex[o] = t
        BY <2>1, <2>2 DEF LocksInv, LocksHeld
      <3>2. frame[u].obj \in Objects /\ mutex[frame[u].obj] = u
        BY <1>0, <2>6 DEF LocksInv, LocksHeld, Active
      <3>3. frame[u].obj # o
        BY <3>1, <3>2
      <3>4. log'[frame[u].obj] = log[frame[u].obj] /\ at'[u] = at[u]
        BY <2>4, <3>2, <3>3
      <3> HIDE DEF o
      <3> QED
        BY <2>1, <2>6, <3>4 DEF LogInv, Executed
    <2> QED
      BY <2>1, <2>5, <2>6 DEF LogInv, Active
  <1>7. CASE UNCHANGED vars
    BY <1>7 DEF vars, connection, LogInv, Executed, Active
  <1>8. ASSUME NEW t \in Threads, BeginRead(t) \/ EndRead(t) \/ Throw(t) \/ Return(t)
        PROVE  LogInv'
    BY <1>3, <1>8 DEF BeginRead, EndRead, Throw, Return, connection
  <1>9. ASSUME NEW t \in Threads, ClearRecords(t) \/ LockDb(t) \/ UnlockDb(t)
        PROVE  LogInv'
    BY <1>3, <1>9 DEF ClearRecords, LockDb, UnlockDb, connection, Active
  <1>10. ASSUME NEW t \in Threads, FailStatement(t) \/ FinishScript(t) PROVE LogInv'
    BY <1>3, <1>10 DEF FailStatement, FinishScript, ExecOut, InStatement, Active
  <1> QED
    BY <1>1, <1>4, <1>5, <1>6, <1>7, <1>8, <1>9, <1>10
       DEF Next, Call, Step, Execute, Transaction

LEMMA LogInvariant == Spec => [](LocksInv /\ LogInv)
  <1>1. Init => LogInv
    BY DEF Init, LogInv, Active
  <1> QED
    BY <1>1, LocksInvariant, LogStep, PTL DEF Spec

\* The thread whose script is in progress on a connection is the only one.
LEMMA InProgress ==
    ASSUME LocksInv, NEW t \in Threads, pc[t] = "exec"
    PROVE  InFlight(frame[t].obj) = {t}
  BY DEF LocksInv, LocksHeld, TypeInv, BusyOnObject, Active, InFlight

\* What is settled on a connection with a script in progress.
LEMMA SettledBefore ==
    ASSUME LocksInv, NEW t \in Threads, pc[t] = "exec"
    PROVE  Settled(frame[t].obj) =
              SubSeq(log[frame[t].obj], 1, Len(log[frame[t].obj]) - (at[t].stmt - 1))
  BY InProgress DEF Settled

\* A step that leaves a connection and the script on it alone settles nothing.
LEMMA SettledKept ==
    ASSUME NEW o, InFlight(o)' = InFlight(o), log'[o] = log[o],
           \A t \in InFlight(o) : at'[t].stmt = at[t].stmt
    PROVE  Settled(o)' = Settled(o)
  <1>1. CASE InFlight(o) = {}
    BY <1>1 DEF Settled
  <1>2. CASE InFlight(o) # {}
    <2> DEFINE t == CHOOSE t \in InFlight(o) : TRUE
    <2>1. t \in InFlight(o)
      BY <1>2
    <2>2. (CHOOSE u \in InFlight(o)' : TRUE) = t
      OBVIOUS
    <2> QED
      BY <1>2, <2>1, <2>2 DEF Settled
  <1> QED
    BY <1>1, <1>2

\* A script that ends at a statement it has reached is one step of its
\* connection's history.
LEMMA ScriptEnds ==
    ASSUME LocksInv, LogInv, NEW t \in Threads, pc[t] = "exec", ExecOut(t),
           at[t].stmt <= Len(frame[t].sql) => frame[t].sql[at[t].stmt].error # None
    PROVE  Serial!Next
  <1>0. PICK o \in Objects : o = frame[t].obj
    BY DEF LocksInv, TypeInv, BusyOnObject, Active
  <1> DEFINE q == frame[t].sql
             i == at[t].stmt
             l == log[o]
             history == [p \in Objects |-> Settled(p)]
  <1>1. /\ q \in Queries \cup TxQueries
        /\ l \in Seq(Statement) /\ q \in Seq(Statement) /\ i \in Nat \ {0}
    BY DEF LocksInv, TypeInv, TypeOK, Active, LogInv
  <1>2. /\ i - 1 <= Len(q) /\ i - 1 <= Len(l)
        /\ EndsWith(l, q, i - 1) /\ \A j \in 1..(i - 1) : q[j].error = None
    BY <1>0 DEF LogInv, Executed
  <1>3. Serial!StopsAt(q, i) /\ i \in 1..(Len(q) + 1)
    BY <1>1, <1>2 DEF Serial!StopsAt
  <1>4. /\ pc' \in [Threads -> {"idle", "clear", "lock", "enter", "exec", "unlock", "finish", "read"}]
        /\ \A u \in Threads : pc'[u] = "exec" <=> u # t /\ pc[u] = "exec"
        /\ frame' = frame /\ at' = at /\ log' = log
    BY DEF ExecOut, LocksInv, TypeInv, TypeOK
  <1>5. Settled(o) = SubSeq(l, 1, Len(l) - (i - 1))
    BY <1>0, SettledBefore
  <1>6. Settled(o)' = l
    <2>1. InFlight(o)' = {}
      BY <1>0, <1>4, InProgress DEF InFlight
    <2> QED
      BY <1>4, <2>1 DEF Settled
  <1>7. ASSUME NEW p \in Objects \ {o} PROVE Settled(p)' = Settled(p)
    <2>1. InFlight(p)' = InFlight(p)
      BY <1>0, <1>4 DEF InFlight
    <2> QED
      BY <1>4, <2>1, SettledKept
  <1>8. l = SubSeq(l, 1, Len(l) - (i - 1)) \o SubSeq(q, 1, i - 1)
    <2> DEFINE k == i - 1
    <2>1. k \in Nat
      BY <1>1
    <2> HIDE DEF k, l, q
    <2>2. l = SubSeq(l, 1, Len(l) - k) \o SubSeq(q, 1, k)
      BY <1>1, <1>2, <2>1, SplitAtEnd DEF k
    <2> QED
      BY <2>2 DEF k
  <1>9. history' = [history EXCEPT ![o] = @ \o SubSeq(q, 1, i - 1)]
    <2>1. history'[o] = history[o] \o SubSeq(q, 1, i - 1)
      <3>1. history[o] = Settled(o) /\ history'[o] = Settled(o)'
        OBVIOUS
      <3> HIDE DEF history, l, i, q
      <3> QED
        BY <1>5, <1>6, <1>8, <3>1, Zenon
    <2>2. \A p \in Objects \ {o} : history'[p] = history[p]
      BY <1>7
    <2> QED
      BY <2>1, <2>2
  <1>10. Serial!RunScript(o, q)
    BY <1>3, <1>9 DEF Serial!RunScript
  <1> QED
    BY <1>1, <1>10 DEF Serial!Next

\* A thread that is and stays outside of sqlite3_exec settles nothing.
LEMMA OutsideExec ==
    ASSUME TypeOK, NEW t \in Threads, pc[t] # "exec", NEW step, step # "exec",
           pc' = [pc EXCEPT ![t] = step], UNCHANGED <<at, log>>,
           \A u \in Threads \ {t} : frame'[u] = frame[u], NEW o
    PROVE  Settled(o)' = Settled(o)
  <1>1. pc'[t] = step /\ \A u \in Threads \ {t} : pc'[u] = pc[u]
    BY DEF TypeOK
  <1>2. InFlight(o)' = InFlight(o)
    BY <1>1 DEF InFlight
  <1> QED
    BY <1>2, SettledKept

\* Nor does one that enters it.
LEMMA EnterSettles ==
    ASSUME LocksInv, NEW t \in Threads, ExecEnter(t), NEW o \in Objects
    PROVE  Settled(o)' = Settled(o)
  <1>1. /\ pc'[t] = "exec" /\ pc[t] # "exec" /\ at'[t].stmt = 1
        /\ \A u \in Threads \ {t} : pc'[u] = pc[u] /\ at'[u] = at[u]
        /\ frame' = frame /\ log' = log
    BY DEF ExecEnter, FirstStatement, LocksInv, TypeInv, TypeOK
  <1>2. CASE o = frame[t].obj
    <2>1. mutex[o] = None
      BY <1>2 DEF ExecEnter, MutexFree
    <2>2. InFlight(o) = {}
      BY <2>1, NoneAssumption DEF LocksInv, LocksHeld, InFlight
    <2>3. InFlight(o)' = {t}
      BY <1>1, <1>2, <2>2 DEF InFlight
    <2>4. log[o] \in Seq(Statement)
      BY DEF LocksInv, TypeInv, TypeOK
    <2>5. SubSeq(log[o], 1, Len(log[o]) - (1 - 1)) = log[o]
      BY <2>4
    <2>6. Settled(o)' = SubSeq(log[o], 1, Len(log[o]) - (1 - 1))
      BY <1>1, <2>3 DEF Settled
    <2> QED
      BY <2>2, <2>5, <2>6 DEF Settled
  <1>3. CASE o # frame[t].obj
    <2>1. InFlight(o)' = InFlight(o) /\ t \notin InFlight(o)
      BY <1>1, <1>3 DEF InFlight
    <2>2. \A u \in InFlight(o) : at'[u].stmt = at[u].stmt
      BY <1>1, <2>1 DEF InFlight
    <2> QED
      BY <1>1, <2>1, <2>2, SettledKept
  <1> QED
    BY <1>2, <1>3

\* A statement that is done stays in flight until its script ends.
LEMMA FinishSettles ==
    ASSUME LocksInv, LogInv, LogInv', NEW t \in Threads, FinishStatement(t), NEW o \in Objects
    PROVE  Settled(o)' = Settled(o)
  <1>1. pc' = pc /\ frame' = frame /\ pc[t] = "exec"
    BY DEF FinishStatement, InStatement
  <1>2. InFlight(o)' = InFlight(o)
    BY <1>1 DEF InFlight
  <1>3. CASE o = frame[t].obj
    <2> DEFINE l == log[o]
               x == Current(t)
               i == at[t].stmt
    <2>1. l \in Seq(Statement) /\ i \in Nat \ {0} /\ x \in Statement
      BY CurrentStatement DEF LocksInv, TypeInv, TypeOK, FinishStatement
    <2>2. log'[o] = Append(l, x) /\ at'[t].stmt = i + 1
      BY <1>3 DEF FinishStatement, LocksInv, TypeInv, TypeOK
    <2>3. i - 1 <= Len(l)
      BY <1>1, <1>3 DEF LogInv, Executed
    <2>4. PICK n \in Nat : Len(l) - (i - 1) = n
      BY <2>1, <2>3, LenProperties
    <2>5. Len(log'[o]) - (at'[t].stmt - 1) = n
      <3> HIDE DEF l, x, i
      <3>1. Len(Append(l, x)) = Len(l) + 1
        BY <2>1, AppendProperties
      <3>2. Len(log'[o]) = Len(l) + 1 /\ at'[t].stmt = i + 1
        BY <2>2, <3>1, Zenon
      <3>3. Len(l) \in Nat /\ i \in Nat
        BY <2>1, LenProperties
      <3> QED
        BY <2>4, <3>2, <3>3
    <2>6. Settled(o) = SubSeq(l, 1, n)
      BY <1>1, <1>3, <2>4, SettledBefore
    <2>7. Settled(o)' = SubSeq(log'[o], 1, n)
      <3>1. InFlight(o)' = {t}
        BY <1>1, <1>2, <1>3, InProgress
      <3>2. Settled(o)' = SubSeq(log'[o], 1, Len(log'[o]) - (at'[t].stmt - 1))
        BY <3>1 DEF Settled
      <3> QED
        BY <2>5, <3>2
    <2>8. SubSeq(log'[o], 1, n) = SubSeq(l, 1, n)
      <3> HIDE DEF l, x, i
      <3>1. Len(Append(l, x)) = Len(l) + 1 /\ Append(l, x) \in Seq(Statement)
        BY <2>1, AppendProperties
      <3>2. n <= Len(l)
        BY <2>1, <2>4, LenProperties
      <3>3. \A j \in 1..n : Append(l, x)[j] = l[j]
        BY <2>1, <3>2, AppendProperties
      <3>4. SubSeq(Append(l, x), 1, n) = SubSeq(l, 1, n)
        BY <2>1, <3>1, <3>2, <3>3
      <3> QED
        BY <2>2, <3>4
    <2> QED
      BY <2>6, <2>7, <2>8
  <1>4. CASE o # frame[t].obj
    <2>1. log'[o] = log[o] /\ t \notin InFlight(o)
      BY <1>4 DEF FinishStatement, InFlight, LocksInv, TypeInv, TypeOK
    <2>2. \A u \in Threads \ {t} : at'[u] = at[u]
      BY DEF FinishStatement, LocksInv, TypeInv, TypeOK
    <2>3. \A u \in InFlight(o) : at'[u].stmt = at[u].stmt
      BY <2>1, <2>2 DEF InFlight
    <2> QED
      BY <1>2, <2>1, <2>3, SettledKept
  <1> QED
    BY <1>3, <1>4

\* Every step settles nothing or one script.
LEMMA SerialStep ==
    ASSUME LocksInv, LogInv, LogInv', [Next]_vars
    PROVE  Serial!Next \/ UNCHANGED [o \in Objects |-> Settled(o)]
  <1> DEFINE Kept == \A o \in Objects : Settled(o)' = Settled(o)
  <1>0. TypeOK
    BY DEF LocksInv, TypeInv
  <1>1. ASSUME NEW t \in Threads, NEW o \in Objects, NEW q, NEW api,
               NEW first \in {"clear", "enter"}, Begin(t, api, o, q, first)
        PROVE  Kept
    <2>1. /\ pc[t] # "exec" /\ pc' = [pc EXCEPT ![t] = first] /\ UNCHANGED <<at, log>>
          /\ \A u \in Threads \ {t} : frame'[u] = frame[u]
      BY <1>0, <1>1 DEF Begin, connection, TypeOK
    <2> QED
      BY <1>0, <2>1, OutsideExec
  <1>2. ASSUME NEW t \in Threads, pc[t] # "exec",
               NEW step \in {"idle", "lock", "enter", "unlock", "finish", "read"},
               pc' = [pc EXCEPT ![t] = step], UNCHANGED <<frame, at, log>>
        PROVE  Kept
    BY <1>0, <1>2, OutsideExec
  <1>3. ASSUME NEW t \in Threads, \/ BeginRead(t) \/ EndRead(t) \/ Throw(t) \/ Return(t)
                                 \/ ClearRecords(t) \/ LockDb(t) \/ UnlockDb(t)
        PROVE  Kept
    BY <1>2, <1>3 DEF BeginRead, EndRead, Throw, Return, ClearRecords, LockDb, UnlockDb, connection
  <1>4. ASSUME NEW t \in Threads, ExecEnter(t) PROVE Kept
    BY <1>4, EnterSettles
  <1>5. ASSUME NEW t \in Threads, Callback(t) PROVE Kept
    <2>1. \A u \in Threads : at'[u].stmt = at[u].stmt
      BY <1>0, <1>5 DEF Callback, TypeOK
    <2>2. pc' = pc /\ frame' = frame /\ log' = log
      BY <1>5 DEF Callback, connection
    <2>3. \A o \in Objects : InFlight(o)' = InFlight(o)
      BY <2>2 DEF InFlight
    <2> QED
      BY <2>1, <2>2, <2>3, SettledKept DEF InFlight
  <1>6. ASSUME NEW t \in Threads, FinishStatement(t) PROVE Kept
    BY <1>6, FinishSettles
  <1>7. ASSUME NEW t \in Threads, FailStatement(t) \/ FinishScript(t) PROVE Serial!Next
    <2>1. /\ pc[t] = "exec" /\ ExecOut(t)
          /\ at[t].stmt <= Len(frame[t].sql) => frame[t].sql[at[t].stmt].error # None
      BY <1>0, <1>7 DEF FailStatement, FinishScript, InStatement, Current, TypeOK
    <2> QED
      BY <2>1, ScriptEnds
  <1>8. CASE UNCHANGED vars
    BY <1>8 DEF vars, connection, Settled, InFlight
  <1>9. Kept \/ Serial!Next
    BY <1>1, <1>3, <1>4, <1>5, <1>6, <1>7, <1>8 DEF Next, Call, Step, Execute, Transaction
  <1> QED
    BY <1>9

\* The calls of all threads, with the locks they take and the failures they meet,
\* implement connections on which scripts run in one piece.
THEOREM SerialScripts == Spec => ScriptsAreSerial
  <1>1. Init => Serial!Init
    BY DEF Init, Serial!Init, Settled, InFlight
  <1>2. LocksInv /\ LogInv /\ LogInv' /\ [Next]_vars => [Serial!Next]_([o \in Objects |-> Settled(o)])
    BY SerialStep
  <1> QED
    BY <1>1, <1>2, LogInvariant, PTL DEF Spec, ScriptsAreSerial, Serial!Spec

-----------------------------------------------------------------------------
(* What a part of a script has given *)

\* The rows of the first k statements of q.
RowsOf(q, k) == FlattenSeq([i \in 1..k |-> q[i].rows])

LEMMA RowsOfStep ==
    ASSUME NEW q \in Seq(Statement), NEW k \in Nat, k + 1 <= Len(q)
    PROVE  /\ RowsOf(q, k) \in Seq(Rows)
           /\ q[k + 1].rows \in Seq(Rows)
           /\ RowsOf(q, k + 1) = RowsOf(q, k) \o q[k + 1].rows
  <1> DEFINE s == [i \in 1..k |-> q[i].rows]
             x == q[k + 1].rows
  <1>1. \A i \in 1..(k + 1) : q[i].rows \in Seq(Rows)
    <2>1. ASSUME NEW i \in 1..(k + 1) PROVE q[i] \in Statement
      BY LenProperties
    <2> QED
      BY <2>1 DEF Statement
  <1>2. s \in Seq(Seq(Rows)) /\ Len(s) = k /\ x \in Seq(Rows)
    BY <1>1
  <1>3. Append(s, x) = [i \in 1..(k + 1) |-> q[i].rows]
    <2>1. Append(s, x) = [i \in 1..(k + 1) |-> IF i = k + 1 THEN x ELSE s[i]]
      BY <1>2
    <2>2. \A i \in 1..(k + 1) : (IF i = k + 1 THEN x ELSE s[i]) = q[i].rows
      OBVIOUS
    <2> HIDE DEF s, x
    <2> QED
      BY <2>1, <2>2
  <1> HIDE DEF s, x
  <1>4. FlattenSeq(s) \in Seq(Rows) /\ FlattenSeq(Append(s, x)) = FlattenSeq(s) \o x
    BY <1>2, FlattenSeqAppend
  <1>5. RowsOf(q, k) = FlattenSeq(s) /\ RowsOf(q, k + 1) = FlattenSeq(Append(s, x))
    BY <1>3 DEF RowsOf, s
  <1> QED
    BY <1>2, <1>4, <1>5 DEF x

LEMMA RowsOfNone == ASSUME NEW q PROVE RowsOf(q, 0) = <<>>
  <1>1. [i \in 1..0 |-> q[i].rows] = <<>>
    OBVIOUS
  <1> QED
    BY <1>1, FlattenSeqEmpty DEF RowsOf

LEMMA RowsOfType ==
    ASSUME NEW q \in Seq(Statement), NEW k \in Nat, k <= Len(q)
    PROVE  RowsOf(q, k) \in Seq(Rows)
  <1>1. CASE k = 0
    <2>1. <<>> \in Seq(Rows)
      OBVIOUS
    <2> QED
      BY <1>1, <2>1, RowsOfNone
  <1>2. CASE k # 0
    <2>1. PICK j \in Nat : k = j + 1
      <3>1. k - 1 \in Nat /\ k = (k - 1) + 1
        BY <1>2
      <3> QED
        BY <3>1
    <2>2. RowsOf(q, j + 1) = RowsOf(q, j) \o q[j + 1].rows
          /\ RowsOf(q, j) \in Seq(Rows) /\ q[j + 1].rows \in Seq(Rows)
      BY <2>1, RowsOfStep
    <2> QED
      BY <2>1, <2>2, ConcatProperties
  <1> QED
    BY <1>1, <1>2

\* The changes of a script, statement by statement.
Sums(sum, q, n) == sum = [i \in 0..n |-> IF i = 0 THEN 0 ELSE sum[i - 1] + q[i].changes]

LEMMA SumsExists ==
    ASSUME NEW q, NEW n \in Nat
    PROVE  \E sum : Sums(sum, q, n)
  <1> DEFINE Has == {k \in Nat : \E sum : Sums(sum, q, k)}
  <1>1. 0 \in Has
    <2>1. Sums([i \in 0..0 |-> 0], q, 0)
      BY DEF Sums
    <2> QED
      BY <2>1
  <1>2. ASSUME NEW k \in Nat, k \in Has PROVE k + 1 \in Has
    <2>1. PICK sum : Sums(sum, q, k)
      BY <1>2
    <2> DEFINE longer == [i \in 0..(k + 1) |-> IF i = k + 1 THEN sum[k] + q[k + 1].changes ELSE sum[i]]
    <2>2. /\ \A i \in 0..k : longer[i] = sum[i]
          /\ longer[k + 1] = sum[k] + q[k + 1].changes
      OBVIOUS
    <2>3. \A i \in 0..k : sum[i] = IF i = 0 THEN 0 ELSE sum[i - 1] + q[i].changes
      BY <2>1 DEF Sums
    <2>4. ASSUME NEW i \in 0..(k + 1)
          PROVE  longer[i] = IF i = 0 THEN 0 ELSE longer[i - 1] + q[i].changes
      <3> HIDE DEF longer
      <3>1. CASE i = k + 1
        <4>1. i # 0 /\ i - 1 = k /\ k \in 0..k
          BY <3>1
        <4> QED
          BY <3>1, <4>1, <2>2
      <3>2. CASE i # k + 1
        <4>1. i \in 0..k /\ (i # 0 => i - 1 \in 0..k)
          BY <3>2
        <4> QED
          BY <2>2, <2>3, <4>1
      <3> QED
        BY <3>1, <3>2
    <2>5. Sums(longer, q, k + 1)
      BY <2>4 DEF Sums
    <2> QED
      BY <2>5
  <1> HIDE DEF Has
  <1>3. Nat \subseteq Has
    BY <1>1, <1>2, Induct
  <1> QED
    BY <1>3 DEF Has

LEMMA SumsUnique ==
    ASSUME NEW q, NEW r, NEW n \in Nat, NEW m \in Nat, n <= m,
           \A i \in 1..n : q[i] = r[i] /\ q[i].changes \in Nat,
           NEW f, Sums(f, q, n), NEW g, Sums(g, r, m)
    PROVE  f[n] = g[n] /\ f[n] \in Nat
  <1> DEFINE Same == {k \in Nat : k \in 0..n => f[k] = g[k] /\ f[k] \in Nat}
  <1>1. /\ \A i \in 0..n : f[i] = IF i = 0 THEN 0 ELSE f[i - 1] + q[i].changes
        /\ \A i \in 0..n : g[i] = IF i = 0 THEN 0 ELSE g[i - 1] + r[i].changes
    <2>1. \A i \in 0..n : f[i] = IF i = 0 THEN 0 ELSE f[i - 1] + q[i].changes
      BY DEF Sums
    <2>2. \A i \in 0..n : i \in 0..m
      OBVIOUS
    <2>3. \A i \in 0..m : g[i] = IF i = 0 THEN 0 ELSE g[i - 1] + r[i].changes
      BY DEF Sums
    <2> QED
      BY <2>1, <2>2, <2>3
  <1>2. 0 \in Same
    BY <1>1
  <1>3. ASSUME NEW k \in Nat, k \in Same PROVE k + 1 \in Same
    <2>1. SUFFICES ASSUME k + 1 \in 0..n PROVE f[k + 1] = g[k + 1] /\ f[k + 1] \in Nat
      OBVIOUS
    <2>2. f[k] = g[k] /\ f[k] \in Nat
      BY <1>3, <2>1
    <2>3. q[k + 1] = r[k + 1] /\ q[k + 1].changes \in Nat /\ (k + 1) - 1 = k /\ k + 1 # 0
      BY <2>1
    <2> HIDE DEF Same
    <2> QED
      BY <1>1, <2>1, <2>2, <2>3
  <1> HIDE DEF Same
  <1>4. n \in Same
    BY <1>2, <1>3, Induct
  <1> QED
    BY <1>4 DEF Same

LEMMA ChangesOfDef ==
    ASSUME NEW q \in Seq(Statement)
    PROVE  \E sum : Sums(sum, q, Len(q)) /\ ChangesOf(q) = sum[Len(q)]
  <1> DEFINE sum == CHOOSE f : f = [i \in 0..Len(q) |-> IF i = 0 THEN 0 ELSE f[i - 1] + q[i].changes]
  <1>1. Sums(sum, q, Len(q))
    <2>1. Len(q) \in Nat
      OBVIOUS
    <2> QED
      BY <2>1, SumsExists DEF Sums
  <1>2. ChangesOf(q) = sum[Len(q)]
    BY DEF ChangesOf
  <1> QED
    BY <1>1, <1>2

\* The first k statements of q, and one more.
LEMMA PrefixGrows ==
    ASSUME NEW q \in Seq(Statement), NEW k \in Nat, k + 1 <= Len(q)
    PROVE  /\ SubSeq(q, 1, k) \in Seq(Statement)
           /\ SubSeq(q, 1, k + 1) = Append(SubSeq(q, 1, k), q[k + 1])
  <1>1. q[k + 1] \in Statement
    BY LenProperties
  <1> QED
    BY <1>1

LEMMA ChangesOfAppend ==
    ASSUME NEW q \in Seq(Statement), NEW x \in Statement
    PROVE  ChangesOf(q) \in Nat /\ ChangesOf(Append(q, x)) = ChangesOf(q) + x.changes
  <1> DEFINE n == Len(q)
             r == Append(q, x)
             m == n + 1
  <1>1. /\ n \in Nat /\ m \in Nat /\ n <= m /\ m # 0 /\ m - 1 = n /\ m \in 0..m
        /\ r \in Seq(Statement) /\ Len(r) = m /\ r[m] = x
        /\ \A i \in 1..n : q[i] = r[i]
    BY AppendProperties, LenProperties
  <1>2. \A i \in 1..n : q[i].changes \in Nat
    <2>1. \A i \in 1..n : q[i] \in Statement
      OBVIOUS
    <2> QED
      BY <2>1 DEF Statement
  <1> HIDE DEF n, r, m
  <1>3. PICK f : Sums(f, q, n) /\ ChangesOf(q) = f[n]
    BY ChangesOfDef DEF n
  <1>4. PICK g : Sums(g, r, m) /\ ChangesOf(r) = g[m]
    BY <1>1, ChangesOfDef
  <1>5. f[n] = g[n] /\ f[n] \in Nat
    <2>1. \A i \in 1..n : q[i] = r[i] /\ q[i].changes \in Nat
      BY <1>1, <1>2
    <2>2. n \in Nat /\ m \in Nat /\ n <= m
      BY <1>1
    <2>3. Sums(f, q, n) /\ Sums(g, r, m)
      BY <1>3, <1>4
    <2> QED
      BY <2>1, <2>2, <2>3, SumsUnique
  <1>6. g[m] = g[n] + r[m].changes
    <2>1. \A i \in 0..m : g[i] = IF i = 0 THEN 0 ELSE g[i - 1] + r[i].changes
      BY <1>4 DEF Sums
    <2> QED
      BY <1>1, <2>1
  <1> QED
    BY <1>1, <1>3, <1>4, <1>5, <1>6 DEF r

LEMMA ChangesOfNone == ChangesOf(<<>>) = 0
  <1>1. PICK sum : Sums(sum, <<>>, Len(<<>>)) /\ ChangesOf(<<>>) = sum[Len(<<>>)]
    BY ChangesOfDef, EmptySeq
  <1>2. Len(<<>>) = 0
    OBVIOUS
  <1> QED
    BY <1>1, <1>2 DEF Sums

-----------------------------------------------------------------------------
(* The result set while a script runs *)

\* The statements of q that have given rows when sqlite3_exec has come to a,
\* and the result set they leave.
Gave(q, a) == {i \in 1..Len(q) : \/ i < a.stmt /\ q[i].rows # <<>>
                                 \/ i = a.stmt /\ a.row > 0}

NamesOf(q, given) == IF given = {} THEN <<>> ELSE <<q[Min(given)].columns>>

PartOf(q, a) ==
    [exist |-> Gave(q, a) # {},
     names |-> NamesOf(q, Gave(q, a)),
     rows  |-> RowsOf(q, a.stmt - 1) \o (IF a.row = 0 THEN <<>> ELSE SubSeq(q[a.stmt].rows, 1, a.row))]

\* At its first statement a script has given nothing.
LEMMA PartBegins == ASSUME NEW q \in Seq(Statement) PROVE PartOf(q, FirstStatement) = EmptyResult
  <1>1. FirstStatement.stmt = 1 /\ FirstStatement.row = 0
    BY DEF FirstStatement
  <1>2. Gave(q, FirstStatement) = {}
    BY <1>1 DEF Gave
  <1>3. RowsOf(q, 1 - 1) \o <<>> = <<>>
    BY RowsOfNone
  <1> QED
    BY <1>1, <1>2, <1>3 DEF PartOf, NamesOf, EmptyResult

\* One callback adds the row, and the columns to an empty result set.
LEMMA PartGrows ==
    ASSUME NEW q \in Seq(Statement), NEW k \in Nat, NEW n \in Nat, k + 1 <= Len(q),
           n < Len(q[k + 1].rows)
    PROVE  WithRow(PartOf(q, [stmt |-> k + 1, row |-> n]),
                   q[k + 1].columns, q[k + 1].rows[n + 1])
             = PartOf(q, [stmt |-> k + 1, row |-> n + 1])
  <1> DEFINE a == [stmt |-> k + 1, row |-> n]
             b == [stmt |-> k + 1, row |-> n + 1]
             x == q[k + 1].rows
             before == RowsOf(q, k)
             given == Gave(q, a)
             part == IF n = 0 THEN <<>> ELSE SubSeq(x, 1, n)
  <1>0. /\ a.stmt = k + 1 /\ a.row = n /\ b.stmt = k + 1 /\ b.row = n + 1
        /\ a.stmt - 1 = k /\ b.stmt - 1 = k /\ n + 1 # 0 /\ n + 1 > 0
    OBVIOUS
  <1>1. x \in Seq(Rows) /\ before \in Seq(Rows) /\ n + 1 <= Len(x)
    <2>1. x \in Seq(Rows) /\ before \in Seq(Rows)
      BY RowsOfStep
    <2> QED
      BY <2>1
  <1>2. Gave(q, b) = given \cup {k + 1}
    <2>1. k + 1 \in 1..Len(q)
      BY LenProperties
    <2> QED
      BY <2>1, <1>0 DEF Gave
  <1>3. given \subseteq 1..(k + 1)
    BY <1>0 DEF Gave
  <1>4. PartOf(q, a) = [exist |-> given # {}, names |-> NamesOf(q, given), rows |-> before \o part]
    BY <1>0 DEF PartOf
  <1>5. PartOf(q, b) = [exist |-> TRUE, names |-> NamesOf(q, given \cup {k + 1}),
                        rows |-> before \o SubSeq(x, 1, n + 1)]
    BY <1>0, <1>2 DEF PartOf
  <1>6. NamesOf(q, given \cup {k + 1})
          = IF given # {} THEN NamesOf(q, given) ELSE Append(NamesOf(q, given), q[k + 1].columns)
    <2> HIDE DEF given
    <2>1. CASE given = {}
      <3>1. Min({k + 1}) = k + 1
        BY DEF Min
      <3>2. given \cup {k + 1} = {k + 1}
        BY <2>1
      <3> QED
        BY <2>1, <3>1, <3>2 DEF NamesOf
    <2>2. CASE given # {}
      <3>1. \A i : i \in given => i \in Nat /\ i <= k + 1
        BY <1>3
      <3>2. (CHOOSE i \in given : \A j \in given : i <= j)
              = CHOOSE i \in given \cup {k + 1} : \A j \in given \cup {k + 1} : i <= j
        <4>1. \A i : i \in given /\ (\A j \in given : i <= j)
                       <=> i \in given \cup {k + 1} /\ \A j \in given \cup {k + 1} : i <= j
          <5>1. PICK m \in given : TRUE
            BY <2>2
          <5>2. ASSUME NEW i \in given, \A j \in given : i <= j
                PROVE  \A j \in given \cup {k + 1} : i <= j
            BY <3>1, <5>2
          <5>3. ASSUME NEW i \in given \cup {k + 1}, \A j \in given \cup {k + 1} : i <= j
                PROVE  i \in given
            <6>1. i <= m /\ m <= k + 1
              BY <3>1, <5>1, <5>3
            <6>2. i = k + 1 => m = k + 1
              BY <3>1, <5>1, <6>1
            <6> QED
              BY <5>1, <5>3, <6>2
          <5> QED
            BY <5>2, <5>3
        <4> QED
          BY <4>1
      <3>3. Min(given) = Min(given \cup {k + 1})
        BY <3>2 DEF Min
      <3> QED
        BY <2>2, <3>3 DEF NamesOf
    <2> QED
      BY <2>1, <2>2
  <1>7. before \o SubSeq(x, 1, n + 1) = Append(before \o part, x[n + 1])
    <2>1. part \in Seq(Rows) /\ Append(part, x[n + 1]) = SubSeq(x, 1, n + 1)
      <3>1. x[n + 1] \in Rows
        BY <1>1
      <3>2. CASE n = 0
        BY <1>1, <3>1, <3>2
      <3>3. CASE n # 0
        BY <1>1, <3>1, <3>3
      <3> QED
        BY <3>2, <3>3
    <2>2. x[n + 1] \in Rows
      BY <1>1
    <2> HIDE DEF before, part, x
    <2>3. before \o Append(part, x[n + 1]) = Append(before \o part, x[n + 1])
      <3> DEFINE y == x[n + 1]
      <3>1. before \in Seq(Rows) /\ part \in Seq(Rows) /\ y \in Rows
        BY <1>1, <2>1, <2>2
      <3>2. <<y>> \in Seq(Rows) /\ before \o part \in Seq(Rows)
        BY <3>1, ConcatProperties
      <3> HIDE DEF y
      <3>3. Append(part, y) = part \o <<y>> /\ Append(before \o part, y) = (before \o part) \o <<y>>
        BY <3>1, <3>2, AppendIsConcat
      <3>4. before \o (part \o <<y>>) = (before \o part) \o <<y>>
        BY <3>1, <3>2, ConcatAssociative
      <3> QED
        BY <3>3, <3>4 DEF y
    <2> QED
      BY <2>1, <2>3
  <1> HIDE DEF a, b, x, given, before, part
  <1>8. WithRow(PartOf(q, a), q[k + 1].columns, x[n + 1])
          = [exist |-> TRUE,
             names |-> IF given # {} THEN NamesOf(q, given) ELSE Append(NamesOf(q, given), q[k + 1].columns),
             rows  |-> Append(before \o part, x[n + 1])]
    <2> DEFINE r == PartOf(q, a)
    <2>1. r.exist = (given # {}) /\ r.names = NamesOf(q, given) /\ r.rows = before \o part
      BY <1>4
    <2> HIDE DEF r
    <2>2. CASE given = {}
      BY <2>1, <2>2 DEF WithRow, r
    <2>3. CASE given # {}
      BY <2>1, <2>3 DEF WithRow, r
    <2> QED
      BY <2>2, <2>3
  <1>9. WithRow(PartOf(q, a), q[k + 1].columns, x[n + 1]) = PartOf(q, b)
    BY <1>5, <1>6, <1>7, <1>8, Zenon
  <1> QED
    BY <1>9 DEF a, b, x

\* Going on to the next statement gives nothing.
LEMMA PartNext ==
    ASSUME NEW q \in Seq(Statement), NEW k \in Nat, k + 1 <= Len(q)
    PROVE  PartOf(q, [stmt |-> k + 1, row |-> Len(q[k + 1].rows)])
             = PartOf(q, [stmt |-> k + 2, row |-> 0])
  <1> DEFINE x == q[k + 1].rows
             a == [stmt |-> k + 1, row |-> Len(x)]
             b == [stmt |-> k + 2, row |-> 0]
             before == RowsOf(q, k)
             part == IF Len(x) = 0 THEN <<>> ELSE SubSeq(x, 1, Len(x))
  <1>1. /\ x \in Seq(Rows) /\ before \in Seq(Rows) /\ RowsOf(q, k + 1) = before \o x
    BY RowsOfStep
  <1>2. Len(x) \in Nat /\ (x = <<>> <=> Len(x) = 0)
    BY <1>1, EmptySeq
  <1>3. part = x
    <2>1. Len(x) # 0 => SubSeq(x, 1, Len(x)) = x
      BY <1>1
    <2> QED
      BY <1>2, <2>1
  <1>4. /\ a.stmt = k + 1 /\ a.row = Len(x) /\ b.stmt = k + 2 /\ b.row = 0
        /\ a.stmt - 1 = k /\ b.stmt - 1 = k + 1
    OBVIOUS
  <1>5. Gave(q, a) = Gave(q, b)
    <2>1. ASSUME NEW i \in 1..Len(q)
          PROVE  \/ i < k + 1 /\ q[i].rows # <<>>
                 \/ i = k + 1 /\ Len(x) > 0
                 <=> i < k + 2 /\ q[i].rows # <<>>
      <3>1. i \in Nat
        BY LenProperties
      <3>2. CASE i = k + 1
        BY <1>2, <3>1, <3>2
      <3>3. CASE i # k + 1
        BY <3>1, <3>3
      <3> QED
        BY <3>2, <3>3
    <2> HIDE DEF a, b, x
    <2>2. Gave(q, a) = {i \in 1..Len(q) : \/ i < k + 1 /\ q[i].rows # <<>>
                                          \/ i = k + 1 /\ Len(x) > 0}
      BY <1>4 DEF Gave
    <2>3. Gave(q, b) = {i \in 1..Len(q) : i < k + 2 /\ q[i].rows # <<>>}
      BY <1>4 DEF Gave
    <2> QED
      BY <2>1, <2>2, <2>3
  <1>6. RowsOf(q, k + 1) \o <<>> = RowsOf(q, k + 1)
    <2>1. before \o x \in Seq(Rows)
      BY <1>1, ConcatProperties
    <2> QED
      BY <1>1, <2>1
  <1> HIDE DEF a, b, x, before, part
  <1>7. PartOf(q, a).rows = before \o part
    BY <1>4 DEF PartOf, before, part, x
  <1>8. PartOf(q, a) = PartOf(q, b)
    <2>1. PartOf(q, b) = [exist |-> Gave(q, b) # {}, names |-> NamesOf(q, Gave(q, b)),
                          rows |-> RowsOf(q, k + 1)]
      BY <1>4, <1>6 DEF PartOf
    <2>2. PartOf(q, a) = [exist |-> Gave(q, a) # {}, names |-> NamesOf(q, Gave(q, a)),
                          rows |-> before \o part]
      BY <1>4, <1>7 DEF PartOf
    <2> QED
      BY <1>1, <1>3, <1>5, <2>1, <2>2
  <1> QED
    BY <1>8 DEF a, b, x

\* A script without an error gives what all its statements have given.
LEMMA ScriptCompletes ==
    ASSUME NEW q \in Seq(Statement), \A i \in 1..Len(q) : q[i].error = None
    PROVE  /\ ErrorOf(q) = None
           /\ ResultOf(q) = PartOf(q, [stmt |-> Len(q) + 1, row |-> 0])
  <1> DEFINE a == [stmt |-> Len(q) + 1, row |-> 0]
  <1>0. Len(q) \in Nat
    OBVIOUS
  <1>1. Reached(q) = 1..Len(q)
    BY <1>0 DEF Reached
  <1>2. Failing(q) = {}
    BY <1>1 DEF Failing
  <1>3. a.stmt = Len(q) + 1 /\ a.row = 0 /\ a.stmt - 1 = Len(q)
    BY <1>0
  <1>4. Selects(q) = Gave(q, a)
    BY <1>0, <1>1, <1>3 DEF Selects, Gave
  <1>5. FlattenSeq([i \in Reached(q) |-> q[i].rows]) = RowsOf(q, Len(q)) \o <<>>
    <2>1. RowsOf(q, Len(q)) \in Seq(Rows)
      BY <1>0, RowsOfType
    <2>2. RowsOf(q, Len(q)) \o <<>> = RowsOf(q, Len(q))
      BY <2>1
    <2> QED
      BY <1>1, <2>2 DEF RowsOf
  <1> HIDE DEF a
  <1>6. ResultOf(q) = PartOf(q, a)
    BY <1>3, <1>4, <1>5 DEF ResultOf, PartOf, NamesOf
  <1> QED
    BY <1>2, <1>6 DEF ErrorOf, a

\* A script that fails gives what its statements up to that one have given.
LEMMA ScriptFails ==
    ASSUME NEW q \in Seq(Statement), NEW k \in Nat, k + 1 <= Len(q),
           \A i \in 1..k : q[i].error = None, q[k + 1].error # None
    PROVE  /\ ErrorOf(q) = q[k + 1].error
           /\ ResultOf(q) = PartOf(q, [stmt |-> k + 1, row |-> Len(q[k + 1].rows)])
  <1> DEFINE b == [stmt |-> k + 2, row |-> 0]
  <1>0. Len(q) \in Nat
    OBVIOUS
  <1>1. Reached(q) = 1..(k + 1)
    <2>1. ASSUME NEW i \in 1..Len(q)
          PROVE  (\A j \in 1..(i - 1) : q[j].error = None) <=> i <= k + 1
      <3>1. CASE i <= k + 1
        BY <1>0, <3>1
      <3>2. CASE ~(i <= k + 1)
        <4>1. k + 1 \in 1..(i - 1)
          BY <1>0, <3>2
        <4> QED
          BY <3>2, <4>1
      <3> QED
        BY <3>1, <3>2
    <2> QED
      BY <1>0, <2>1 DEF Reached
  <1>2. Failing(q) = {k + 1}
    BY <1>1 DEF Failing
  <1>3. b.stmt = k + 2 /\ b.row = 0 /\ b.stmt - 1 = k + 1
    OBVIOUS
  <1>4. Selects(q) = Gave(q, b)
    BY <1>0, <1>1, <1>3 DEF Selects, Gave
  <1>5. FlattenSeq([i \in Reached(q) |-> q[i].rows]) = RowsOf(q, k + 1) \o <<>>
    <2>1. RowsOf(q, k + 1) \in Seq(Rows)
      BY <1>0, RowsOfType
    <2>2. RowsOf(q, k + 1) \o <<>> = RowsOf(q, k + 1)
      BY <2>1
    <2> QED
      BY <1>1, <2>2 DEF RowsOf
  <1> HIDE DEF b
  <1>6. ResultOf(q) = PartOf(q, b)
    BY <1>3, <1>4, <1>5 DEF ResultOf, PartOf, NamesOf
  <1>7. PartOf(q, b) = PartOf(q, [stmt |-> k + 1, row |-> Len(q[k + 1].rows)])
    BY PartNext DEF b
  <1>8. Min({k + 1}) = k + 1
    BY DEF Min
  <1> QED
    BY <1>2, <1>6, <1>7, <1>8 DEF ErrorOf

-----------------------------------------------------------------------------
(* Results *)

\* A call is an execute or one of the transaction calls, whose scripts have no
\* rows; sqlite3_exec never goes past the rows of a statement.
RowReached(t) == IF at[t].stmt <= Len(frame[t].sql) THEN at[t].row <= Len(Current(t).rows)
                                                    ELSE at[t].row = 0

CallInv ==
    \A t \in Threads :
        /\ Active(t) => frame[t].api \in {"execute", "transaction"}
        /\ Active(t) /\ frame[t].api = "transaction" => frame[t].sql \in TxQueries
        /\ pc[t] = "exec" => RowReached(t)

Base == LocksInv /\ LogInv /\ CallInv

\* No other execute is under way.
Alone(t) == \A u \in Threads \ {t} : Active(u) => frame[u].api # "execute"

\* From its clear_records to the end of the call the result set holds what the
\* thread's own script has given so far, and the whole of it from then on.
HasOwn(t) ==
    LET q == frame[t].sql
    IN  /\ pc[t] \in {"lock", "enter"} => records = EmptyResult
        /\ pc[t] = "exec" => records = PartOf(q, at[t])
        /\ pc[t] \in {"unlock", "finish", "idle", "read"} => records = ResultOf(q)

Own(t) ==
    frame[t].api = "execute" /\ ~mixed[t] =>
        /\ Alone(t)
        /\ ~Crashed => HasOwn(t)
        /\ seen[t] # None => seen[t] = ResultOf(frame[t].sql)

ResultInv == \A t \in Threads : Own(t)

\* What the types say of the variables these invariants speak about.
LEMMA CallTypes ==
    ASSUME Base
    PROVE  /\ pc \in [Threads -> {"idle", "clear", "lock", "enter", "exec", "unlock", "finish", "read"}]
           /\ frame \in [Threads -> [api : {"none", "execute", "transaction"},
                                     obj : Objects \cup {None}, sql : Seq(Statement)]]
           /\ at \in [Threads -> [stmt : Nat \ {0}, row : Nat]]
           /\ rc \in [Threads -> Errors \cup {None}]
           /\ outcome \in [Threads -> [kind : {"none"}]
                                 \cup [kind : {"threw"}, message : Errors \cup {None}]
                                 \cup [kind : {"returned"}, count : Nat]]
           /\ seen \in [Threads -> QueryResult \cup {None}]
           /\ records \in QueryResult \cup {None}
           /\ err \in [Objects -> Errors \cup {None}]
           /\ total \in [Objects -> Nat]
           /\ base \in [Threads -> Nat]
           /\ mixed \in [Threads -> BOOLEAN]
           /\ shared \in [Threads -> BOOLEAN]
           /\ \A t \in Threads : Active(t) => frame[t].obj \in Objects
  BY DEF Base, LocksInv, TypeInv, TypeOK, BusyOnObject

\* Where sqlite3_exec is in a script: before it nothing failed.
LEMMA InScript ==
    ASSUME Base, NEW t \in Threads, pc[t] = "exec"
    PROVE  \E k \in Nat, n \in Nat :
              /\ frame[t].sql \in Seq(Statement)
              /\ at[t] = [stmt |-> k + 1, row |-> n]
              /\ at[t].stmt = k + 1 /\ at[t].row = n
              /\ k <= Len(frame[t].sql)
              /\ \A i \in 1..k : frame[t].sql[i].error = None
              /\ k + 1 <= Len(frame[t].sql) => n <= Len(frame[t].sql[k + 1].rows)
              /\ ~(k + 1 <= Len(frame[t].sql)) => n = 0
  <1> DEFINE k == at[t].stmt - 1
             n == at[t].row
  <1>1. at[t] \in [stmt : Nat \ {0}, row : Nat] /\ frame[t].sql \in Seq(Statement)
    BY CallTypes
  <1>2. k \in Nat /\ n \in Nat /\ at[t].stmt = k + 1 /\ at[t].row = n
        /\ at[t] = [stmt |-> k + 1, row |-> n]
    BY <1>1
  <1>3. k <= Len(frame[t].sql) /\ \A i \in 1..k : frame[t].sql[i].error = None
    BY DEF Base, LogInv, Executed
  <1>4. RowReached(t)
    BY DEF Base, CallInv
  <1> HIDE DEF k, n
  <1>5. /\ k + 1 <= Len(frame[t].sql) => n <= Len(frame[t].sql[k + 1].rows)
        /\ ~(k + 1 <= Len(frame[t].sql)) => n = 0
    BY <1>2, <1>4 DEF RowReached, Current
  <1> QED
    BY <1>1, <1>2, <1>3, <1>5

LEMMA CallStep ==
    ASSUME Base, [Next]_vars
    PROVE  CallInv'
  <1> USE DEF locks, connection, results, window
  <1>0. /\ pc \in [Threads -> {"idle", "clear", "lock", "enter", "exec", "unlock", "finish", "read"}]
        /\ frame \in [Threads -> [api : {"none", "execute", "transaction"},
                                  obj : Objects \cup {None}, sql : Seq(Statement)]]
        /\ at \in [Threads -> [stmt : Nat \ {0}, row : Nat]]
        /\ CallInv
    BY CallTypes DEF Base
  <1>1. ASSUME NEW t \in Threads, NEW o \in Objects, NEW q \in Queries, Execute(t, o, q)
        PROVE  CallInv'
    BY <1>0, <1>1 DEF Execute, Begin, CallInv, Active, RowReached, Current
  <1>2. ASSUME NEW t \in Threads, NEW o \in Objects, NEW q \in TxQueries, Transaction(t, o, q)
        PROVE  CallInv'
    BY <1>0, <1>2 DEF Transaction, Begin, CallInv, Active, RowReached, Current
  <1>3. ASSUME NEW t \in Threads, NEW step \in {"idle", "lock", "enter", "unlock", "finish", "read"},
               pc' = [pc EXCEPT ![t] = step], Active(t) \/ step \in {"idle", "read"},
               UNCHANGED <<frame, at>>
        PROVE  CallInv'
    BY <1>0, <1>3 DEF CallInv, Active, RowReached, Current
  <1>4. ASSUME NEW t \in Threads, ExecEnter(t) PROVE CallInv'
    <2>1. /\ pc' = [pc EXCEPT ![t] = "exec"] /\ at' = [at EXCEPT ![t] = FirstStatement]
          /\ frame' = frame /\ Active(t)
      BY <1>4 DEF ExecEnter, Active
    <2>2. RowReached(t)'
      <3>1. at'[t].stmt = 1 /\ at'[t].row = 0
        BY <1>0, <2>1 DEF FirstStatement
      <3>2. ASSUME 1 <= Len(frame[t].sql) PROVE Len(frame[t].sql[1].rows) \in Nat
        <4>1. frame[t].sql[1] \in Statement
          BY <1>0, <3>2
        <4> QED
          BY <4>1 DEF Statement
      <3> QED
        BY <2>1, <3>1, <3>2 DEF RowReached, Current
    <2>3. \A u \in Threads \ {t} : pc'[u] = pc[u] /\ at'[u] = at[u]
      BY <1>0, <2>1
    <2> QED
      BY <1>0, <2>1, <2>2, <2>3 DEF CallInv, Active, RowReached, Current
  <1>5. ASSUME NEW t \in Threads, Callback(t) PROVE CallInv'
    <2>1. /\ at' = [at EXCEPT ![t].row = @ + 1] /\ pc' = pc /\ frame' = frame
          /\ at[t].row < Len(Current(t).rows) /\ at[t].stmt <= Len(frame[t].sql)
      BY <1>5 DEF Callback, RowReady, InStatement
    <2>2. at'[t].stmt = at[t].stmt /\ at'[t].row = at[t].row + 1 /\ at[t].row \in Nat
      BY <1>0, <2>1
    <2>3. Len(Current(t).rows) \in Nat
      BY <1>5, CurrentStatement DEF Callback, RowReady, Statement, Base, LocksInv, TypeInv
    <2>4. RowReached(t)'
      BY <2>1, <2>2, <2>3 DEF RowReached, Current
    <2>5. \A u \in Threads \ {t} : at'[u] = at[u]
      BY <1>0, <2>1
    <2> QED
      BY <1>0, <2>1, <2>4, <2>5 DEF CallInv, Active, RowReached, Current
  <1>6. ASSUME NEW t \in Threads, FinishStatement(t) PROVE CallInv'
    <2>1. /\ at' = [at EXCEPT ![t] = [stmt |-> @.stmt + 1, row |-> 0]]
          /\ pc' = pc /\ frame' = frame
      BY <1>6 DEF FinishStatement
    <2>2. at'[t].stmt \in Nat \ {0} /\ at'[t].row = 0
      BY <1>0, <2>1
    <2>3. ASSUME at'[t].stmt <= Len(frame[t].sql)
          PROVE  Len(frame[t].sql[at'[t].stmt].rows) \in Nat
      <3>1. frame[t].sql[at'[t].stmt] \in Statement
        BY <1>0, <2>2, <2>3
      <3> QED
        BY <3>1 DEF Statement
    <2>4. RowReached(t)'
      BY <2>1, <2>2, <2>3 DEF RowReached, Current
    <2>5. \A u \in Threads \ {t} : at'[u] = at[u]
      BY <1>0, <2>1
    <2> QED
      BY <1>0, <2>1, <2>4, <2>5 DEF CallInv, Active, RowReached, Current
  <1>7. CASE UNCHANGED vars
    BY <1>0, <1>7 DEF vars, CallInv, Active, RowReached, Current
  <1>8. ASSUME NEW t \in Threads, BeginRead(t) \/ EndRead(t) \/ Throw(t) \/ Return(t)
        PROVE  CallInv'
    BY <1>3, <1>8 DEF BeginRead, EndRead, Throw, Return
  <1>9. ASSUME NEW t \in Threads, ClearRecords(t) \/ LockDb(t) \/ UnlockDb(t)
        PROVE  CallInv'
    BY <1>3, <1>9 DEF ClearRecords, LockDb, UnlockDb, Active
  <1>10. ASSUME NEW t \in Threads, FailStatement(t) \/ FinishScript(t) PROVE CallInv'
    BY <1>3, <1>10 DEF FailStatement, FinishScript, ExecOut, InStatement, Active
  <1> QED
    BY <1>1, <1>2, <1>4, <1>5, <1>6, <1>7, <1>8, <1>9, <1>10 DEF Next, Call, Step

LEMMA BaseInvariant == Spec => []Base
  <1>1. Init => CallInv
    BY DEF Init, CallInv, Active
  <1>2. LocksInv /\ LogInv /\ CallInv /\ [Next]_vars => CallInv'
    BY CallStep DEF Base
  <1> QED
    BY <1>1, <1>2, LogInvariant, PTL DEF Spec, Base

\* A callback belongs to an execute.
LEMMA CallbackOfExecute ==
    ASSUME Base, NEW t \in Threads, Callback(t)
    PROVE  frame[t].api = "execute" /\ Active(t)
  <1>1. Active(t) /\ frame[t].api \in {"execute", "transaction"}
    BY DEF Callback, RowReady, InStatement, Base, CallInv, Active
  <1>2. ASSUME frame[t].api = "transaction" PROVE FALSE
    <2> DEFINE q == frame[t].sql
               i == at[t].stmt
    <2>1. q \in TxQueries
      BY <1>1, <1>2 DEF Base, CallInv
    <2>2. i \in 1..Len(q)
      <3>1. i \in Nat \ {0} /\ Len(q) \in Nat /\ i <= Len(q)
        BY CallTypes, LenProperties DEF Callback, RowReady, InStatement
      <3> QED
        BY <3>1
    <2>3. q[i].rows = <<>>
      BY <2>1, <2>2, TxQueriesAssumption
    <2>4. at[t].row \in Nat /\ at[t].row < Len(q[i].rows)
      BY CallTypes DEF Callback, RowReady, Current
    <2> QED
      BY <2>3, <2>4
  <1> QED
    BY <1>1, <1>2

\* What one thread does leaves the result set of another alone.
LEMMA OthersKeepOwn ==
    ASSUME Base, NEW t \in Threads, NEW u \in Threads \ {t}, Own(t), ~Crashed,
           Call(u) \/ Step(u)
    PROVE  Own(t)'
  <1> USE DEF locks, connection, results, window
  <1>0. SUFFICES ASSUME frame'[t].api = "execute", ~mixed'[t] PROVE Own(t)'
    BY DEF Own
  <1>1. ASSUME NEW o \in Objects, NEW q \in Queries, Execute(u, o, q) PROVE FALSE
    BY <1>0, <1>1 DEF Execute, Begin
  <1>2. ASSUME NEW o \in Objects, NEW q \in TxQueries, Transaction(u, o, q) PROVE Own(t)'
    <2>1. /\ pc'[t] = pc[t] /\ frame'[t] = frame[t] /\ at'[t] = at[t] /\ seen'[t] = seen[t]
          /\ records' = records /\ frame'[u].api = "transaction" /\ ~mixed[t]
          /\ \A v \in Threads \ {u} : pc'[v] = pc[v] /\ frame'[v] = frame[v]
      BY <1>0, <1>2, CallTypes DEF Transaction, Begin
    <2> QED
      BY <2>1 DEF Own, Alone, HasOwn, Active, Crashed
  <1>3. ASSUME \E step : pc' = [pc EXCEPT ![u] = step] /\ (step \notin {"idle", "read"} => Active(u)),
               frame' = frame, mixed' = mixed, at'[t] = at[t], seen'[t] = seen[t],
               records' \in {records, None}
        PROVE  Own(t)'
    <2>1. pc'[t] = pc[t] /\ \A v \in Threads : Active(v)' => Active(v)
      BY <1>3, CallTypes DEF Active
    <2> QED
      BY <1>3, <2>1 DEF Own, Alone, HasOwn, Crashed
  <1>4. ASSUME ClearRecords(u) \/ Callback(u) PROVE FALSE
    <2>1. Active(u) /\ frame[u].api = "execute"
      BY <1>4, CallbackOfExecute DEF ClearRecords, Active, Base, LocksInv, LocksHeld
    <2>2. ~mixed[t] /\ frame[t].api = "execute"
      BY <1>0, <1>4 DEF ClearRecords, Callback
    <2> QED
      BY <2>1, <2>2 DEF Own, Alone
  <1>5. CASE BeginRead(u) \/ Throw(u) \/ Return(u)
    BY <1>3, <1>5 DEF BeginRead, Throw, Return
  <1>6. CASE EndRead(u)
    <2>1. records' \in {records, None} /\ seen'[t] = seen[t]
      BY <1>6, CallTypes DEF EndRead, WriteRecords
    <2> QED
      BY <1>3, <1>6, <2>1 DEF EndRead
  <1>7. CASE LockDb(u) \/ UnlockDb(u)
    BY <1>3, <1>7 DEF LockDb, UnlockDb, Active
  <1>8. CASE ExecEnter(u)
    <2>1. at'[t] = at[t]
      BY <1>8, CallTypes DEF ExecEnter
    <2> QED
      BY <1>3, <1>8, <2>1 DEF ExecEnter, Active
  <1>9. CASE FinishStatement(u)
    <2>1. at'[t] = at[t] /\ pc' = [pc EXCEPT ![u] = "exec"] /\ Active(u)
      BY <1>9, CallTypes DEF FinishStatement, InStatement, Active
    <2> QED
      BY <1>3, <1>9, <2>1 DEF FinishStatement
  <1>10. CASE FailStatement(u) \/ FinishScript(u)
    <2>1. Active(u)
      BY <1>10 DEF FailStatement, FinishScript, InStatement, Active
    <2> QED
      BY <1>3, <1>10, <2>1 DEF FailStatement, FinishScript, ExecOut
  <1> QED
    BY <1>1, <1>2, <1>4, <1>5, <1>6, <1>7, <1>8, <1>9, <1>10 DEF Call, Step

\* What a thread does itself takes its result set one part further.
LEMMA SelfKeepsOwn ==
    ASSUME Base, NEW t \in Threads, Own(t), ~Crashed, Call(t) \/ Step(t)
    PROVE  Own(t)'
  <1> USE DEF locks, connection, results, window
  <1> DEFINE q == frame[t].sql
  <1>0. SUFFICES ASSUME frame'[t].api = "execute", ~mixed'[t] PROVE Own(t)'
    BY DEF Own
  <1>1. ASSUME NEW o \in Objects, NEW r \in Queries, Execute(t, o, r) PROVE Own(t)'
    <2>1. /\ pc'[t] = "clear" /\ seen'[t] = None
          /\ \A u \in Threads \ {t} : pc'[u] = pc[u] /\ frame'[u] = frame[u]
      BY <1>1, CallTypes DEF Execute, Begin
    <2>2. \A u \in Threads \ {t} : ~(Active(u) /\ frame[u].api = "execute")
      BY <1>0, <1>1 DEF Execute, Begin
    <2> QED
      BY <2>1, <2>2 DEF Own, Alone, HasOwn, Active
  <1>2. ASSUME NEW o \in Objects, NEW r \in TxQueries, Transaction(t, o, r) PROVE FALSE
    BY <1>0, <1>2, CallTypes DEF Transaction, Begin
  <1>3. ASSUME NEW step, pc' = [pc EXCEPT ![t] = step], frame' = frame, mixed' = mixed,
               seen'[t] # None => seen'[t] \in {seen[t], ResultOf(q)},
               ~Crashed' => HasOwn(t)'
        PROVE  Own(t)'
    <2>1. \A u \in Threads \ {t} : pc'[u] = pc[u]
      BY <1>3, CallTypes
    <2>2. Alone(t)'
      BY <1>0, <1>3, <2>1 DEF Own, Alone, Active
    <2> QED
      BY <1>0, <1>3, <2>2 DEF Own
  <1>4. CASE BeginRead(t)
    <2>1. HasOwn(t)'
      BY <1>0, <1>4, CallTypes DEF BeginRead, Own, HasOwn
    <2> QED
      BY <1>3, <1>4, <2>1 DEF BeginRead
  <1>5. CASE ClearRecords(t)
    <2>1. Cleared(records) = EmptyResult
      <3>1. records \in QueryResult
        BY CallTypes DEF Crashed
      <3> DEFINE r == Cleared(records)
      <3>2. r \in QueryResult
        BY <3>1, ClearedType
      <3>3. r.exist = FALSE /\ r.names = <<>> /\ r.rows = <<>>
        BY <3>1 DEF Cleared, QueryResult
      <3> HIDE DEF r
      <3>4. r = EmptyResult
        BY <3>2, <3>3 DEF QueryResult, EmptyResult
      <3> QED
        BY <3>4 DEF r
    <2>2. ~Crashed' => HasOwn(t)'
      BY <1>5, <2>1, CallTypes DEF ClearRecords, WriteRecords, HasOwn, Crashed
    <2> QED
      BY <1>3, <1>5, <2>2 DEF ClearRecords
  <1>6. CASE LockDb(t)
    <2>1. HasOwn(t)'
      BY <1>0, <1>6, CallTypes DEF LockDb, Own, HasOwn
    <2> QED
      BY <1>3, <1>6, <2>1 DEF LockDb
  <1>7. CASE ExecEnter(t)
    <2>1. /\ pc'[t] = "exec" /\ at'[t] = FirstStatement /\ records' = EmptyResult
          /\ frame' = frame /\ frame[t].sql \in Seq(Statement)
      BY <1>0, <1>7, CallTypes DEF ExecEnter, Own, HasOwn
    <2>2. HasOwn(t)'
      BY <2>1, PartBegins DEF HasOwn
    <2> QED
      BY <1>3, <1>7, <2>2 DEF ExecEnter
  <1>8. CASE Callback(t)
    <2>1. pc[t] = "exec"
      BY <1>8 DEF Callback, RowReady, InStatement
    <2>2. PICK k \in Nat, n \in Nat :
              /\ frame[t].sql \in Seq(Statement)
              /\ at[t] = [stmt |-> k + 1, row |-> n]
              /\ at[t].stmt = k + 1 /\ at[t].row = n
      BY <2>1, InScript
    <2>3. k + 1 <= Len(q) /\ n < Len(q[k + 1].rows) /\ Current(t) = q[k + 1]
      BY <1>8, <2>2 DEF Callback, RowReady, InStatement, Current
    <2>4. records = PartOf(q, [stmt |-> k + 1, row |-> n])
      BY <1>0, <1>8, <2>1, <2>2 DEF Callback, Own, HasOwn
    <2>5. WithRow(records, Current(t).columns, Current(t).rows[at[t].row + 1])
            = PartOf(q, [stmt |-> k + 1, row |-> n + 1])
      BY <2>2, <2>3, <2>4, PartGrows
    <2>6. at'[t] = [stmt |-> k + 1, row |-> n + 1]
      BY <1>8, <2>2, CallTypes DEF Callback
    <2>7. ~Crashed' => records' = PartOf(q, at'[t])
      BY <1>8, <2>5, <2>6 DEF Callback, WriteRecords, Crashed
    <2>8. ~Crashed' => HasOwn(t)'
      BY <1>8, <2>1, <2>7 DEF Callback, HasOwn
    <2>9. pc' = [pc EXCEPT ![t] = "exec"]
      BY <1>8, <2>1, CallTypes DEF Callback
    <2> QED
      BY <1>3, <1>8, <2>8, <2>9 DEF Callback
  <1>9. CASE FinishStatement(t)
    <2>1. pc[t] = "exec"
      BY <1>9 DEF FinishStatement, InStatement
    <2>2. PICK k \in Nat, n \in Nat :
              /\ frame[t].sql \in Seq(Statement)
              /\ at[t] = [stmt |-> k + 1, row |-> n]
              /\ at[t].stmt = k + 1 /\ at[t].row = n
              /\ k + 1 <= Len(frame[t].sql) => n <= Len(frame[t].sql[k + 1].rows)
      BY <2>1, InScript
    <2>3. k + 1 <= Len(q) /\ ~(n < Len(q[k + 1].rows))
      BY <1>9, <2>2 DEF FinishStatement, RowReady, InStatement, Current
    <2>4. n = Len(q[k + 1].rows)
      <3>1. Len(q[k + 1].rows) \in Nat
        BY <2>2, <2>3, RowsOfStep, LenProperties
      <3> QED
        BY <2>2, <2>3, <3>1
    <2>5. records = PartOf(q, [stmt |-> k + 1, row |-> n])
      BY <1>0, <1>9, <2>1, <2>2 DEF FinishStatement, Own, HasOwn
    <2>6. at'[t] = [stmt |-> k + 2, row |-> 0]
      <3>1. (k + 1) + 1 = k + 2
        OBVIOUS
      <3> QED
        BY <1>9, <2>2, <3>1, CallTypes DEF FinishStatement
    <2>7. records' = PartOf(q, at'[t])
      BY <1>9, <2>2, <2>3, <2>4, <2>5, <2>6, PartNext DEF FinishStatement
    <2>8. HasOwn(t)'
      BY <1>9, <2>1, <2>7 DEF FinishStatement, HasOwn
    <2>9. pc' = [pc EXCEPT ![t] = "exec"]
      BY <1>9, <2>1, CallTypes DEF FinishStatement
    <2> QED
      BY <1>3, <1>9, <2>8, <2>9 DEF FinishStatement
  <1>10. CASE FailStatement(t)
    <2>1. pc[t] = "exec" /\ Current(t).error # None
      BY <1>10 DEF FailStatement, InStatement
    <2>2. PICK k \in Nat, n \in Nat :
              /\ frame[t].sql \in Seq(Statement)
              /\ at[t] = [stmt |-> k + 1, row |-> n]
              /\ at[t].stmt = k + 1 /\ at[t].row = n
              /\ \A i \in 1..k : frame[t].sql[i].error = None
              /\ k + 1 <= Len(frame[t].sql) => n <= Len(frame[t].sql[k + 1].rows)
      BY <2>1, InScript
    <2>3. k + 1 <= Len(q) /\ ~(n < Len(q[k + 1].rows)) /\ q[k + 1].error # None
      BY <1>10, <2>1, <2>2 DEF FailStatement, RowReady, InStatement, Current
    <2>4. n = Len(q[k + 1].rows)
      <3>1. Len(q[k + 1].rows) \in Nat
        BY <2>2, <2>3, RowsOfStep, LenProperties
      <3> QED
        BY <2>2, <2>3, <3>1
    <2>5. records = PartOf(q, [stmt |-> k + 1, row |-> n])
      BY <1>0, <1>10, <2>1, <2>2 DEF FailStatement, ExecOut, Own, HasOwn
    <2>6. records = ResultOf(q)
      BY <2>2, <2>3, <2>4, <2>5, ScriptFails
    <2>7. HasOwn(t)'
      BY <1>0, <1>10, <2>6, CallTypes DEF FailStatement, ExecOut, HasOwn
    <2> QED
      BY <1>3, <1>10, <2>7 DEF FailStatement, ExecOut
  <1>11. CASE FinishScript(t)
    <2>1. pc[t] = "exec"
      BY <1>11 DEF FinishScript
    <2>2. PICK k \in Nat, n \in Nat :
              /\ frame[t].sql \in Seq(Statement)
              /\ at[t] = [stmt |-> k + 1, row |-> n]
              /\ at[t].stmt = k + 1 /\ at[t].row = n
              /\ k <= Len(frame[t].sql)
              /\ \A i \in 1..k : frame[t].sql[i].error = None
              /\ ~(k + 1 <= Len(frame[t].sql)) => n = 0
      BY <2>1, InScript
    <2>3. k = Len(q) /\ n = 0
      <3>1. Len(q) \in Nat /\ k + 1 > Len(q)
        BY <1>11, <2>2, LenProperties DEF FinishScript
      <3> QED
        BY <2>2, <3>1
    <2>4. records = PartOf(q, [stmt |-> Len(q) + 1, row |-> 0])
      BY <1>0, <1>11, <2>1, <2>2, <2>3 DEF FinishScript, ExecOut, Own, HasOwn
    <2>5. records = ResultOf(q)
      BY <2>2, <2>3, <2>4, ScriptCompletes
    <2>6. HasOwn(t)'
      BY <1>0, <1>11, <2>5, CallTypes DEF FinishScript, ExecOut, HasOwn
    <2> QED
      BY <1>3, <1>11, <2>6 DEF FinishScript, ExecOut
  <1>12. CASE UnlockDb(t)
    <2>1. HasOwn(t)'
      BY <1>0, <1>12, CallTypes DEF UnlockDb, Own, HasOwn
    <2> QED
      BY <1>3, <1>12, <2>1 DEF UnlockDb
  <1>13. CASE Throw(t) \/ Return(t)
    <2>1. HasOwn(t)'
      BY <1>0, <1>13, CallTypes DEF Throw, Return, Own, HasOwn
    <2> QED
      BY <1>3, <1>13, <2>1 DEF Throw, Return
  <1>14. CASE EndRead(t)
    <2>1. records = ResultOf(q)
      BY <1>0, <1>14 DEF EndRead, Own, HasOwn
    <2>2. seen'[t] = ResultOf(q)
      BY <1>14, <2>1, CallTypes DEF EndRead
    <2>3. ~Crashed' => HasOwn(t)'
      BY <1>14, <2>1, CallTypes DEF EndRead, WriteRecords, HasOwn, Crashed
    <2> QED
      BY <1>3, <1>14, <2>2, <2>3 DEF EndRead
  <1> QED
    BY <1>1, <1>2, <1>4, <1>5, <1>6, <1>7, <1>8, <1>9, <1>10, <1>11, <1>12, <1>13, <1>14
       DEF Call, Step

\* A read after an execute that no other execute overlapped or followed finds
\* the result of its own script, however the threads interleave.
THEOREM ReadsOwnResult == Spec => []UnmixedReadIsOwnResult
  <1>1. Init => ResultInv
    BY DEF Init, ResultInv, Own
  <1>2. Base /\ ResultInv /\ [Next]_vars => ResultInv'
    <2> SUFFICES ASSUME Base, ResultInv, [Next]_vars, NEW t \in Threads PROVE Own(t)'
      BY DEF ResultInv
    <2>1. CASE UNCHANGED vars
      BY <2>1 DEF ResultInv, Own, Alone, HasOwn, Active, Crashed, vars, results, window
    <2>2. ASSUME ~Crashed, NEW u \in Threads, Call(u) \/ Step(u) PROVE Own(t)'
      <3>1. CASE u = t
        BY <2>2, <3>1, SelfKeepsOwn DEF ResultInv
      <3>2. CASE u # t
        BY <2>2, <3>2, OthersKeepOwn DEF ResultInv
      <3> QED
        BY <3>1, <3>2
    <2> QED
      BY <2>1, <2>2 DEF Next
  <1>3. ResultInv => UnmixedReadIsOwnResult
    BY DEF ResultInv, Own, UnmixedReadIsOwnResult
  <1> QED
    BY <1>1, <1>2, <1>3, BaseInvariant, PTL DEF Spec

-----------------------------------------------------------------------------
(* Return values and exceptions *)

\* No other call is under way on the object.
AloneOn(t) == \A u \in Threads \ {t} : Active(u) => frame[u].obj # frame[t].obj

\* The changes counted on t's connection since its call began: at least n, and
\* exactly n when nobody else used the object.
Counts(t, n) == /\ total[frame[t].obj] >= base[t] + n
                /\ ~shared[t] => total[frame[t].obj] = base[t] + n

\* From the start of a call to its end the counter has grown by the statements
\* it has executed, and its error is the one of its script.
Counted(t) ==
    LET q == frame[t].sql
    IN  /\ ~shared[t] => AloneOn(t)
        /\ pc[t] \in {"clear", "lock", "enter"} => Counts(t, 0)
        /\ pc[t] = "exec" => rc[t] = None /\ Counts(t, ChangesOf(SubSeq(q, 1, at[t].stmt - 1)))
        /\ pc[t] \in {"unlock", "finish"} =>
              /\ rc[t] = ErrorOf(q)
              /\ rc[t] = None => Counts(t, ChangesOf(q))
              /\ rc[t] # None /\ ~shared[t] => err[frame[t].obj] = rc[t]

\* What execute returned or threw.
Ended(t) ==
    LET q == frame[t].sql
    IN  /\ outcome[t].kind = "returned" =>
              /\ ErrorOf(q) = None
              /\ outcome[t].count >= base[t] + ChangesOf(q)
              /\ ~shared[t] => outcome[t].count = base[t] + ChangesOf(q)
        /\ outcome[t].kind = "threw" =>
              /\ ErrorOf(q) # None
              /\ ~shared[t] => outcome[t].message = ErrorOf(q)

OutcomeInv == \A t \in Threads : (Active(t) => Counted(t)) /\ Ended(t)

\* ChangesOf counts.
LEMMA ChangesOfType == ASSUME NEW q \in Seq(Statement) PROVE ChangesOf(q) \in Nat
  <1>1. PICK sum : Sums(sum, q, Len(q)) /\ ChangesOf(q) = sum[Len(q)]
    BY ChangesOfDef
  <1>2. \A i \in 1..Len(q) : q[i] = q[i] /\ q[i].changes \in Nat
    <2>1. \A i \in 1..Len(q) : q[i] \in Statement
      OBVIOUS
    <2> QED
      BY <2>1 DEF Statement
  <1>3. PICK n \in Nat : n = Len(q) /\ n <= n
    OBVIOUS
  <1>4. Sums(sum, q, n) /\ \A i \in 1..n : q[i] = q[i] /\ q[i].changes \in Nat
    BY <1>1, <1>2, <1>3
  <1>5. sum[n] \in Nat
    BY <1>3, <1>4, SumsUnique
  <1> QED
    BY <1>1, <1>3, <1>5

\* The counter of a connection never goes back, and only a thread inside
\* sqlite3_exec on it moves it.
LEMMA TotalGrows ==
    ASSUME Base, NEW u \in Threads, Call(u) \/ Step(u), NEW o \in Objects
    PROVE  /\ total'[o] \in Nat /\ total'[o] >= total[o]
           /\ ~(Active(u) /\ frame[u].obj = o) => total'[o] = total[o] /\ err'[o] = err[o]
  <1> USE DEF locks, connection, results, window
  <1>0. total \in [Objects -> Nat] /\ total[o] \in Nat /\ err \in [Objects -> Errors \cup {None}]
    BY CallTypes
  <1>1. CASE FinishStatement(u)
    <2>1. Current(u).changes \in Nat /\ Active(u)
      BY <1>1, CurrentStatement DEF FinishStatement, InStatement, Statement, Active, Base, LocksInv, TypeInv
    <2>2. /\ total' = [total EXCEPT ![frame[u].obj] = @ + Current(u).changes] /\ err' = err
      BY <1>1 DEF FinishStatement
    <2>3. total'[o] = IF o = frame[u].obj THEN total[o] + Current(u).changes ELSE total[o]
      BY <1>0, <2>2
    <2>4. total'[o] \in Nat /\ total'[o] >= total[o]
      <3> DEFINE c == Current(u).changes
      <3>1. c \in Nat
        BY <2>1
      <3> HIDE DEF c
      <3>2. total'[o] = IF o = frame[u].obj THEN total[o] + c ELSE total[o]
        BY <2>3 DEF c
      <3> QED
        BY <1>0, <3>1, <3>2
    <2> QED
      BY <2>1, <2>2, <2>3, <2>4
  <1>2. CASE ExecEnter(u) \/ FailStatement(u)
    <2>1. Active(u) /\ total' = total
      BY <1>2 DEF ExecEnter, FailStatement, ExecOut, InStatement, Active
    <2>2. o # frame[u].obj => err'[o] = err[o]
      BY <1>0, <1>2 DEF ExecEnter, FailStatement
    <2> QED
      BY <1>0, <2>1, <2>2
  <1>3. CASE UNCHANGED <<total, err>>
    BY <1>0, <1>3
  <1>4. CASE Call(u)
    BY <1>3, <1>4 DEF Call, Execute, Transaction, Begin, BeginRead
  <1>5. CASE \/ ClearRecords(u) \/ LockDb(u) \/ Callback(u) \/ FinishScript(u)
             \/ UnlockDb(u) \/ Throw(u) \/ Return(u) \/ EndRead(u)
    BY <1>3, <1>5 DEF ClearRecords, LockDb, Callback, FinishScript, ExecOut, UnlockDb, Throw,
                      Return, EndRead
  <1> QED
    BY <1>1, <1>2, <1>4, <1>5 DEF Step

\* A count stands when the counter grows, as long as only others move it.
LEMMA CountsKept ==
    ASSUME Base, NEW t \in Threads, Active(t), NEW n \in Nat, Counts(t, n),
           frame'[t] = frame[t], base'[t] = base[t], shared'[t] = FALSE => shared[t] = FALSE,
           total'[frame[t].obj] \in Nat, total'[frame[t].obj] >= total[frame[t].obj],
           shared'[t] = FALSE => total'[frame[t].obj] = total[frame[t].obj], shared'[t] \in BOOLEAN
    PROVE  /\ total'[frame'[t].obj] >= base'[t] + n
           /\ ~shared'[t] => total'[frame'[t].obj] = base'[t] + n
  <1>1. base[t] \in Nat /\ total[frame[t].obj] \in Nat
    BY CallTypes
  <1> QED
    BY <1>1 DEF Counts

\* What another thread does leaves a thread's own variables alone, and when it
\* begins a call on the same object the thread is no longer alone on it.
LEMMA OthersStep ==
    ASSUME Base, NEW t \in Threads, NEW u \in Threads \ {t}, Call(u) \/ Step(u)
    PROVE  /\ pc'[t] = pc[t] /\ frame'[t] = frame[t] /\ at'[t] = at[t] /\ rc'[t] = rc[t]
           /\ base'[t] = base[t] /\ outcome'[t] = outcome[t]
           /\ \A v \in Threads \ {u} : pc'[v] = pc[v] /\ frame'[v] = frame[v]
           /\ ~shared'[t] => ~shared[t]
           /\ ~shared'[t] /\ Active(u)' =>
                 (Active(u) /\ frame'[u] = frame[u]) \/ frame'[u].obj # frame[t].obj
  <1> USE DEF locks, connection, results, window
  <1>1. /\ pc'[t] = pc[t] /\ frame'[t] = frame[t] /\ at'[t] = at[t] /\ rc'[t] = rc[t]
        /\ base'[t] = base[t] /\ outcome'[t] = outcome[t]
        /\ \A v \in Threads \ {u} : pc'[v] = pc[v] /\ frame'[v] = frame[v]
    <2>0. ASSUME NEW api, NEW p, NEW r, NEW first, Begin(u, api, p, r, first)
          PROVE  /\ pc'[t] = pc[t] /\ frame'[t] = frame[t] /\ at'[t] = at[t] /\ rc'[t] = rc[t]
                 /\ base'[t] = base[t] /\ outcome'[t] = outcome[t]
                 /\ \A v \in Threads \ {u} : pc'[v] = pc[v] /\ frame'[v] = frame[v]
      BY <2>0, CallTypes DEF Begin
    <2>1. CASE Call(u)
      <3>1. CASE BeginRead(u)
        BY <3>1, CallTypes DEF BeginRead
      <3> QED
        BY <2>0, <2>1, <3>1 DEF Call, Execute, Transaction
    <2>2. CASE ClearRecords(u) \/ LockDb(u) \/ ExecEnter(u) \/ Callback(u) \/ FinishStatement(u)
      BY <2>2, CallTypes DEF ClearRecords, LockDb, ExecEnter, Callback, FinishStatement
    <2>3. CASE FailStatement(u) \/ FinishScript(u)
      BY <2>3, CallTypes DEF FailStatement, FinishScript, ExecOut
    <2>4. CASE UnlockDb(u) \/ Throw(u) \/ Return(u) \/ EndRead(u)
      BY <2>4, CallTypes DEF UnlockDb, Throw, Return, EndRead
    <2> QED
      BY <2>1, <2>2, <2>3, <2>4 DEF Step
  <1>2. /\ ~shared'[t] => ~shared[t]
        /\ ~shared'[t] /\ Active(u)' => (Active(u) /\ frame'[u] = frame[u]) \/ frame'[u].obj # frame[t].obj
    <2>1. ASSUME NEW api, NEW p, NEW r, NEW first, Begin(u, api, p, r, first)
          PROVE  /\ ~shared'[t] => ~shared[t] /\ p # frame[t].obj
                 /\ frame'[u].obj = p
      BY <2>1, CallTypes DEF Begin
    <2>2. CASE Call(u)
      <3>1. CASE BeginRead(u)
        BY <3>1, CallTypes DEF BeginRead, Active
      <3> QED
        BY <2>1, <2>2, <3>1 DEF Call, Execute, Transaction
    <2>3. CASE \/ ClearRecords(u) \/ LockDb(u) \/ ExecEnter(u) \/ Callback(u) \/ FinishStatement(u)
               \/ FailStatement(u) \/ FinishScript(u)
      BY <2>3 DEF ClearRecords, LockDb, ExecEnter, Callback, FinishStatement, FailStatement,
                  FinishScript, ExecOut, InStatement, RowReady, Active
    <2>4. CASE UnlockDb(u) \/ Throw(u) \/ Return(u) \/ EndRead(u)
      BY <2>4, CallTypes DEF UnlockDb, Throw, Return, EndRead, Active
    <2> QED
      BY <2>2, <2>3, <2>4 DEF Step
  <1> QED
    BY <1>1, <1>2

\* What another thread does leaves a call's counts and error alone.
LEMMA OthersKeepCounted ==
    ASSUME Base, Base', NEW t \in Threads, NEW u \in Threads \ {t}, Active(t), Counted(t),
           Call(u) \/ Step(u)
    PROVE  Counted(t)'
  <1> USE DEF locks, connection, results, window
  <1> DEFINE o == frame[t].obj
             q == frame[t].sql
  <1>1. /\ pc'[t] = pc[t] /\ frame'[t] = frame[t] /\ at'[t] = at[t] /\ rc'[t] = rc[t]
        /\ base'[t] = base[t]
        /\ \A v \in Threads \ {u} : pc'[v] = pc[v] /\ frame'[v] = frame[v]
    BY OthersStep
  <1>2. /\ ~shared'[t] => ~shared[t]
        /\ ~shared'[t] /\ Active(u)' => (Active(u) /\ frame'[u] = frame[u]) \/ frame'[u].obj # o
    BY OthersStep
  <1>3. ASSUME ~shared'[t] PROVE AloneOn(t)'
    <2>1. AloneOn(t)
      BY <1>2, <1>3 DEF Counted
    <2> QED
      BY <1>1, <1>2, <1>3, <2>1 DEF AloneOn, Active
  <1>4. o \in Objects
    BY CallTypes
  <1>5. /\ total'[o] \in Nat /\ total'[o] >= total[o]
        /\ ~shared'[t] => total'[o] = total[o] /\ err'[o] = err[o]
    <2>1. ~shared'[t] => ~(Active(u) /\ frame[u].obj = o)
      BY <1>2 DEF Counted, AloneOn
    <2> QED
      BY <1>4, <2>1, TotalGrows
  <1>6. shared'[t] \in BOOLEAN /\ shared[t] \in BOOLEAN
    <2>1. shared \in [Threads -> BOOLEAN]
      BY CallTypes
    <2>2. shared' \in [Threads -> BOOLEAN]
      BY DEF Base, LocksInv, TypeInv, TypeOK
    <2> QED
      BY <2>1, <2>2
  <1>7. ASSUME NEW n \in Nat, Counts(t, n)
        PROVE  /\ total'[frame'[t].obj] >= base'[t] + n
               /\ ~shared'[t] => total'[frame'[t].obj] = base'[t] + n
    BY <1>1, <1>2, <1>5, <1>6, <1>7, CountsKept
  <1>8. q \in Seq(Statement) /\ ChangesOf(q) \in Nat
    BY CallTypes, ChangesOfType
  <1>9. pc[t] = "exec" => ChangesOf(SubSeq(q, 1, at[t].stmt - 1)) \in Nat
    <2>1. ASSUME pc[t] = "exec" PROVE SubSeq(q, 1, at[t].stmt - 1) \in Seq(Statement)
      <3>1. PICK k \in Nat : at[t].stmt = k + 1 /\ k <= Len(q)
        BY <2>1, InScript
      <3>2. at[t].stmt - 1 = k
        BY <3>1
      <3> QED
        BY <1>8, <3>1, <3>2
    <2> QED
      BY <2>1, ChangesOfType
  <1> HIDE DEF o, q
  <1> QED
    BY <1>1, <1>2, <1>3, <1>5, <1>7, <1>8, <1>9 DEF Counted, Counts, o, q

\* What a thread does itself takes its count one statement further, and what
\* it returns or throws at the end is what it has counted or met.
LEMMA SelfKeepsCounted ==
    ASSUME Base, Base', NEW t \in Threads, Active(t) => Counted(t), Ended(t), Call(t) \/ Step(t)
    PROVE  (Active(t) => Counted(t))' /\ Ended(t)'
  <1> USE DEF locks, connection, results, window
  <1> DEFINE o == frame[t].obj
             q == frame[t].sql
  <1>1. ASSUME NEW p \in Objects, NEW r \in Seq(Statement), NEW api,
               NEW first \in {"clear", "enter"}, Begin(t, api, p, r, first)
        PROVE  Counted(t)' /\ Ended(t)'
    <2>1. /\ pc'[t] = first /\ frame'[t].obj = p /\ base'[t] = total[p] /\ total' = total
          /\ outcome'[t].kind = "none"
          /\ \A u \in Threads \ {t} : pc'[u] = pc[u] /\ frame'[u] = frame[u]
      BY <1>1, CallTypes DEF Begin
    <2>2. ~shared'[t] => \A u \in Threads \ {t} : ~(Active(u) /\ frame[u].obj = p)
      BY <1>1, CallTypes DEF Begin
    <2>3. ~shared'[t] => AloneOn(t)'
      BY <2>1, <2>2 DEF AloneOn, Active
    <2>4. Counts(t, 0)'
      <3>1. total[p] \in Nat
        BY CallTypes
      <3> QED
        BY <2>1, <3>1 DEF Counts
    <2> QED
      BY <2>1, <2>3, <2>4 DEF Counted, Ended
  <1>2. ASSUME NEW step, pc' = [pc EXCEPT ![t] = step], frame' = frame, shared' = shared,
               Active(t) => Counted(t)
        PROVE  /\ pc'[t] = step
               /\ Active(t) /\ ~shared'[t] => AloneOn(t)'
    BY <1>2, CallTypes DEF Counted, AloneOn, Active
  <1>3. UNCHANGED <<outcome, frame, base, shared>> => Ended(t)'
    BY DEF Ended
  <1>4. CASE BeginRead(t)
    <2>1. ~Active(t)'
      BY <1>4, CallTypes DEF BeginRead, Active
    <2> QED
      BY <1>3, <1>4, <2>1 DEF BeginRead
  <1>5. CASE ClearRecords(t) \/ LockDb(t)
    <2>1. PICK step \in {"lock", "enter"} : pc' = [pc EXCEPT ![t] = step]
      BY <1>5 DEF ClearRecords, LockDb
    <2>2. /\ UNCHANGED <<outcome, frame, base, shared, total>>
          /\ Active(t) /\ pc[t] \in {"clear", "lock", "enter"}
      BY <1>5 DEF ClearRecords, LockDb, Active
    <2>3. Counts(t, 0)'
      BY <2>2 DEF Counted, Counts
    <2> QED
      BY <1>2, <1>3, <2>1, <2>2, <2>3 DEF Counted
  <1>6. CASE ExecEnter(t)
    <2>1. /\ UNCHANGED <<outcome, frame, base, shared, total>>
          /\ Active(t) /\ pc[t] = "enter" /\ pc' = [pc EXCEPT ![t] = "exec"]
          /\ at'[t].stmt - 1 = 0 /\ rc'[t] = None
      BY <1>6, CallTypes DEF ExecEnter, FirstStatement, Active
    <2>2. ChangesOf(SubSeq(frame'[t].sql, 1, at'[t].stmt - 1)) = 0
      <3>1. SubSeq(q, 1, 0) = <<>>
        BY CallTypes
      <3> QED
        BY <2>1, <3>1, ChangesOfNone
    <2>3. Counts(t, 0)'
      BY <2>1 DEF Counted, Counts
    <2>4. pc'[t] = "exec" /\ (~shared'[t] => AloneOn(t)')
      BY <1>2, <2>1
    <2>5. rc'[t] = None /\ Counts(t, ChangesOf(SubSeq(frame[t].sql, 1, at[t].stmt - 1)))'
      BY <2>1, <2>2, <2>3 DEF Counts
    <2> QED
      BY <1>3, <2>1, <2>4, <2>5 DEF Counted
  <1>7. CASE Callback(t)
    <2>1. pc[t] = "exec" /\ UNCHANGED <<outcome, frame, base, shared, total, pc, rc>>
      BY <1>7 DEF Callback, RowReady, InStatement
    <2>2. at'[t].stmt = at[t].stmt
      BY <1>7, CallTypes DEF Callback
    <2>3. Counted(t) /\ Active(t)
      BY <2>1 DEF Active
    <2>4. Counted(t)'
      BY <2>1, <2>2, <2>3 DEF Counted, Counts, AloneOn, Active
    <2> QED
      BY <1>3, <2>1, <2>4
  <1>8. CASE FinishStatement(t)
    <2>1. /\ pc[t] = "exec" /\ UNCHANGED <<outcome, frame, base, shared, pc, rc>>
          /\ total' = [total EXCEPT ![o] = @ + Current(t).changes]
          /\ at[t].stmt <= Len(q) /\ Active(t) /\ Counted(t)
      BY <1>8 DEF FinishStatement, InStatement, Active
    <2>2. PICK k \in Nat : q \in Seq(Statement) /\ at[t].stmt = k + 1
      BY <2>1, InScript
    <2>3. at'[t].stmt = k + 2
      <3>1. (k + 1) + 1 = k + 2
        OBVIOUS
      <3> QED
        BY <1>8, <2>2, <3>1, CallTypes DEF FinishStatement
    <2> DEFINE n == ChangesOf(SubSeq(q, 1, k))
               m == ChangesOf(SubSeq(q, 1, k + 1))
               x == q[k + 1]
    <2>4. x = Current(t) /\ x \in Statement /\ x.changes \in Nat
      BY <1>8, <2>2, CurrentStatement DEF Current, FinishStatement, Statement, Base, LocksInv, TypeInv
    <2>5. n \in Nat /\ m = n + x.changes
      <3>1. k + 1 <= Len(q)
        BY <2>1, <2>2
      <3> QED
        BY <2>2, <2>4, <3>1, PrefixGrows, ChangesOfAppend
    <2>6. Counts(t, n) /\ rc[t] = None
      <3>1. at[t].stmt - 1 = k
        BY <2>2
      <3> QED
        BY <2>1, <3>1 DEF Counted
    <2>7. total'[o] = total[o] + x.changes /\ total[o] \in Nat /\ base[t] \in Nat
      <3>1. o \in Objects
        BY <2>1, CallTypes
      <3> QED
        BY <2>1, <2>4, <3>1, CallTypes
    <2>8. Counts(t, m)'
      <3> HIDE DEF n, m, x, o
      <3>1. total[o] >= base[t] + n /\ (~shared[t] => total[o] = base[t] + n)
        BY <2>6 DEF Counts, o
      <3>2. PICK c \in Nat : c = x.changes
        BY <2>4
      <3>3. m = n + c /\ total'[o] = total[o] + c
        BY <2>5, <2>7, <3>2
      <3>4. total'[o] >= base[t] + m /\ (~shared[t] => total'[o] = base[t] + m)
        BY <2>5, <2>7, <3>1, <3>2, <3>3
      <3>5. m' = m
        BY <2>1 DEF m, q
      <3> QED
        BY <2>1, <3>4, <3>5 DEF Counts, o
    <2>9. ~shared'[t] => AloneOn(t)'
      BY <2>1 DEF Counted, AloneOn, Active
    <2>10. (at[t].stmt - 1)' = k + 1
      BY <2>3
    <2>11. Counts(t, ChangesOf(SubSeq(frame[t].sql, 1, at[t].stmt - 1)))'
      BY <2>1, <2>8, <2>10 DEF Counts
    <2>12. pc'[t] = "exec" /\ rc'[t] = None
      BY <2>1, <2>6
    <2> QED
      BY <1>3, <2>1, <2>9, <2>11, <2>12 DEF Counted
  <1>9. CASE FailStatement(t)
    <2>1. /\ pc[t] = "exec" /\ at[t].stmt <= Len(q) /\ Current(t).error # None
          /\ UNCHANGED <<outcome, frame, base, shared, total>>
          /\ rc' = [rc EXCEPT ![t] = Current(t).error] /\ err' = [err EXCEPT ![o] = Current(t).error]
          /\ pc' = [pc EXCEPT ![t] = IF frame[t].api = "execute" THEN "unlock" ELSE "idle"]
          /\ Active(t)
      BY <1>9 DEF FailStatement, ExecOut, InStatement, Active
    <2>2. PICK k \in Nat : /\ q \in Seq(Statement) /\ at[t].stmt = k + 1
                           /\ \A i \in 1..k : q[i].error = None
      BY <2>1, InScript
    <2>3. k + 1 <= Len(q) /\ q[k + 1].error # None /\ Current(t) = q[k + 1]
      BY <2>1, <2>2 DEF Current
    <2>4. ErrorOf(q) = Current(t).error
      BY <2>2, <2>3, ScriptFails
    <2>5. rc'[t] = ErrorOf(q) /\ err'[o] = ErrorOf(q) /\ ErrorOf(q) # None
      <3>1. o \in Objects
        BY <2>1, CallTypes
      <3> QED
        BY <2>1, <2>4, <3>1, CallTypes
    <2>6. pc'[t] \in {"unlock", "idle"} /\ (~shared'[t] => AloneOn(t)')
      BY <1>2, <2>1
    <2>7. Active(t)' => Counted(t)'
      BY <2>1, <2>5, <2>6 DEF Counted, Active
    <2> QED
      BY <1>3, <2>1, <2>7
  <1>10. CASE FinishScript(t)
    <2>1. /\ pc[t] = "exec" /\ ~(at[t].stmt <= Len(q))
          /\ UNCHANGED <<outcome, frame, base, shared, total, rc>>
          /\ pc' = [pc EXCEPT ![t] = IF frame[t].api = "execute" THEN "unlock" ELSE "idle"]
          /\ Active(t)
      <3>1. at[t].stmt \in Nat /\ Len(q) \in Nat
        BY CallTypes, LenProperties
      <3> QED
        BY <1>10, <3>1 DEF FinishScript, ExecOut, Active
    <2>2. PICK k \in Nat : /\ q \in Seq(Statement) /\ at[t].stmt = k + 1 /\ k <= Len(q)
                           /\ \A i \in 1..k : q[i].error = None
      BY <2>1, InScript
    <2>3. k = Len(q) /\ at[t].stmt - 1 = k
      <3>1. Len(q) \in Nat
        BY <2>2
      <3> QED
        BY <2>1, <2>2, <3>1
    <2>4. ErrorOf(q) = None
      BY <2>2, <2>3, ScriptCompletes
    <2>5. SubSeq(q, 1, at[t].stmt - 1) = q
      BY <2>2, <2>3
    <2>6. rc'[t] = None /\ Counts(t, ChangesOf(q))
      BY <2>1, <2>5 DEF Counted
    <2>7. Counts(t, ChangesOf(frame[t].sql))'
      BY <2>1, <2>6 DEF Counts
    <2>8. pc'[t] \in {"unlock", "idle"} /\ (~shared'[t] => AloneOn(t)')
      BY <1>2, <2>1
    <2>9. Active(t)' => Counted(t)'
      BY <2>1, <2>4, <2>6, <2>7, <2>8 DEF Counted, Active
    <2> QED
      BY <1>3, <2>1, <2>9
  <1>11. CASE UnlockDb(t)
    <2>1. /\ UNCHANGED <<outcome, frame, base, shared, total, rc, err>>
          /\ pc[t] = "unlock" /\ pc' = [pc EXCEPT ![t] = "finish"] /\ Active(t)
      BY <1>11 DEF UnlockDb, Active
    <2>2. pc'[t] = "finish" /\ (~shared'[t] => AloneOn(t)')
      BY <1>2, <2>1
    <2>3. Counted(t)'
      BY <2>1, <2>2 DEF Counted, Counts
    <2> QED
      BY <1>3, <2>1, <2>3
  <1>12. CASE Throw(t)
    <2>1. /\ UNCHANGED <<frame, base, shared>> /\ pc[t] = "finish" /\ pc'[t] = "idle"
          /\ outcome'[t] = [kind |-> "threw", message |-> err[o]] /\ rc[t] # None /\ Active(t)
      BY <1>12, CallTypes DEF Throw, Active
    <2>2. outcome'[t].kind = "threw" /\ outcome'[t].message = err[o]
      BY <2>1
    <2>3. ErrorOf(q) = rc[t] /\ (~shared[t] => err[o] = rc[t])
      BY <2>1 DEF Counted
    <2>4. Ended(t)'
      BY <2>1, <2>2, <2>3 DEF Ended
    <2> QED
      BY <2>1, <2>4 DEF Active
  <1>13. CASE Return(t)
    <2>1. /\ UNCHANGED <<frame, base, shared>> /\ pc[t] = "finish" /\ pc'[t] = "idle"
          /\ outcome'[t] = [kind |-> "returned", count |-> total[o]] /\ rc[t] = None /\ Active(t)
      BY <1>13, CallTypes DEF Return, ReturnedCount, Active
    <2>2. outcome'[t].kind = "returned" /\ outcome'[t].count = total[o]
      BY <2>1
    <2>3. ErrorOf(q) = None /\ Counts(t, ChangesOf(q))
      BY <2>1 DEF Counted
    <2>4. Ended(t)'
      BY <2>1, <2>2, <2>3 DEF Ended, Counts
    <2> QED
      BY <2>1, <2>4 DEF Active
  <1>14. CASE EndRead(t)
    <2>1. pc'[t] = "idle"
      BY <1>14, CallTypes DEF EndRead
    <2> QED
      BY <1>3, <1>14, <2>1 DEF EndRead, Active
  <1>15. CASE Call(t)
    <2>1. Queries \subseteq Seq(Statement) /\ TxQueries \subseteq Seq(Statement)
      BY QueriesAssumption, TxQueriesAssumption
    <2> QED
      BY <1>1, <1>4, <1>15, <2>1 DEF Call, Execute, Transaction
  <1> QED
    BY <1>5, <1>6, <1>7, <1>8, <1>9, <1>10, <1>11, <1>12, <1>13, <1>14, <1>15 DEF Step

\* execute returns a count that covers its own script, exactly that when nobody
\* else used the object, or throws its own error, for any threads and scripts.
THEOREM ReturnsOwnCount == Spec => []OutcomeIsOwn
  <1>1. Init => OutcomeInv
    BY DEF Init, OutcomeInv, Active, Ended
  <1>2. Base /\ Base' /\ OutcomeInv /\ [Next]_vars => OutcomeInv'
    <2> SUFFICES ASSUME Base, Base', OutcomeInv, [Next]_vars, NEW t \in Threads
                 PROVE  (Active(t) => Counted(t))' /\ Ended(t)'
      BY DEF OutcomeInv
    <2>0. (Active(t) => Counted(t)) /\ Ended(t)
      BY DEF OutcomeInv
    <2>1. CASE UNCHANGED vars
      BY <2>0, <2>1 DEF Counted, Counts, AloneOn, Ended, Active, vars, connection, results, window
    <2>2. ASSUME NEW u \in Threads, Call(u) \/ Step(u)
          PROVE  (Active(t) => Counted(t))' /\ Ended(t)'
      <3>1. CASE u = t
        BY <2>0, <2>2, <3>1, SelfKeepsCounted
      <3>2. CASE u # t
        <4>1. /\ pc'[t] = pc[t] /\ frame'[t] = frame[t] /\ base'[t] = base[t]
              /\ outcome'[t] = outcome[t] /\ (~shared'[t] => ~shared[t])
          BY <2>2, <3>2, OthersStep
        <4>2. Active(t) => Counted(t)'
          BY <2>0, <2>2, <3>2, OthersKeepCounted
        <4>3. Ended(t)'
          BY <2>0, <4>1 DEF Ended
        <4> QED
          BY <4>1, <4>2, <4>3 DEF Active
      <3> QED
        BY <3>1, <3>2
    <2> QED
      BY <2>1, <2>2 DEF Next
  <1>3. OutcomeInv => OutcomeIsOwn
    BY DEF OutcomeInv, Ended, OutcomeIsOwn
  <1> QED
    BY <1>1, <1>2, <1>3, BaseInvariant, PTL DEF Spec
=============================================================================
