------------------------------- MODULE SQLite -------------------------------
(***************************************************************************)
(* The class SQLite of SQLiteBackup/src/SQLite.h and SQLite.cpp as used by *)
(* several threads: SQLite::execute step by step, with the critical        *)
(* section of Sync_db, the mutex sqlite3_exec takes on the connection, and *)
(* the row callback that fills the static m_query_result; the transaction  *)
(* calls, which run sqlite3_exec without the critical section; and the     *)
(* reading of the result set after a call.                                 *)
(*                                                                         *)
(* An object of Objects is one SQLite instance with its own open           *)
(* connection p_db.  SQL texts are abstracted to sequences of statements:  *)
(* the rows a statement hands to the callback, the changes it counts and   *)
(* the error it ends with.                                                 *)
(***************************************************************************)
EXTENDS Integers, SequencesExt

CONSTANTS
    Threads,    \* threads of the process
    Objects,    \* SQLite instances, each with its own connection
    Columns,    \* column lists a statement may have
    Rows,       \* contents of result rows
    Errors,     \* sqlite error messages other than "not an error"
    Queries,    \* SQL texts given to execute()
    TxQueries,  \* how BEGIN, COMMIT and ROLLBACK may end
    MaxCalls,   \* bound: MaxCalls[t] is the number of calls thread t makes
    None        \* no thread, no object, no error, nothing read

Statement == [columns : Columns, rows : Seq(Rows), changes : Nat,
              error : Errors \cup {None}]

ASSUME NoneAssumption == None \notin Threads \cup Objects \cup Errors
ASSUME QueriesAssumption == Queries \subseteq Seq(Statement)
ASSUME TxQueriesAssumption ==
    /\ TxQueries \subseteq Seq(Statement)
    /\ \A q \in TxQueries : \A i \in 1..Len(q) : q[i].rows = <<>>
ASSUME MaxCallsAssumption == MaxCalls \in [Threads -> Nat]

VARIABLES
    pc,         \* pc[t]: the next step of thread t
    frame,      \* frame[t]: the current or last call of t
    at,         \* at[t]: statement and row sqlite3_exec has reached for t
    rc,         \* rc[t]: the error sqlite3_exec returned to t
    outcome,    \* outcome[t]: what the last execute of t returned or threw
    seen,       \* seen[t]: the result set as t read it after its last call
    owner,      \* owner[o]: the thread inside the critical section of o
    mutex,      \* mutex[o]: the thread holding the mutex of o's connection
    records,    \* SQLite::m_query_result, or None once the process has ended
    err,        \* err[o]: the error the connection of o remembers
    total       \* total[o]: sqlite3_total_changes of the connection of o

\* Histories: they are read by properties only.
VARIABLES
    calls,      \* calls[t]: number of calls t has begun
    log,        \* log[o]: statements the connection of o has completed
    base,       \* base[t]: total of t's connection when its call began
    mixed,      \* mixed[t]: another execute overlapped t's call or followed it
    shared      \* shared[t]: another call used t's object in that period

locks == <<owner, mutex>>
connection == <<err, total, log>>
results == <<outcome, seen>>
window == <<calls, base, mixed, shared>>
vars == <<pc, frame, at, rc, records, locks, connection, results, window>>

-----------------------------------------------------------------------------

QueryResult == [exist : BOOLEAN, names : Seq(Columns), rows : Seq(Rows)]

EmptyResult == [exist |-> FALSE, names |-> <<>>, rows |-> <<>>]

\* clear_records() applied to a result set; the mutant forgets the rows.
Cleared_KeepsRows(r) == [r EXCEPT !.exist = FALSE, !.names = <<>>]
Cleared(r) == [r EXCEPT !.exist = FALSE, !.names = <<>>, !.rows = <<>>]

\* The effect of one callback: a row, and the column names if they are missing.
WithRow(r, columns, row) ==
    [exist |-> TRUE,
     names |-> IF r.exist THEN r.names ELSE Append(r.names, columns),
     rows  |-> Append(r.rows, row)]

\* Where sqlite3_exec begins; the mutant is an index off by one.
FirstStatement_OffByOne == [stmt |-> 0, row |-> 0]
FirstStatement == [stmt |-> 1, row |-> 0]

Current(t) == frame[t].sql[at[t].stmt]

\* sqlite3_exec waits for the connection's mutex; the mutant is the library
\* built with SQLITE_THREADSAFE=0.
MutexFree_NotThreadsafe(o) == TRUE
MutexFree(o) == mutex[o] = None

\* What execute returns; the mutant uses sqlite3_changes, the count of the
\* last statement alone.
ReturnedCount_LastStatement(t) == frame[t].sql[Len(frame[t].sql)].changes
ReturnedCount(t) == total[frame[t].obj]

\* sqlite3_exec of t has a statement left, and that statement a row.
InStatement(t) == pc[t] = "exec" /\ at[t].stmt <= Len(frame[t].sql)
RowReady(t)    == InStatement(t) /\ at[t].row < Len(Current(t).rows)

\* The next step of t reads or writes the static m_query_result.
Touching(t) == \/ pc[t] \in {"clear", "read"}
               \/ frame[t].api = "execute" /\ RowReady(t)

\* Another thread is about to do so too, and one of the two writes.
Racing(t) == \E u \in Threads \ {t} :
                /\ Touching(u)
                /\ pc[t] = "read" => pc[u] # "read"

Crashed == records = None

\* An access to m_query_result.  A racing access may break the vectors.
WriteRecords(t, new) ==
    \/ records' = new
    \/ Racing(t) /\ records' = None

-----------------------------------------------------------------------------

Init ==
    /\ pc = [t \in Threads |-> "idle"]
    /\ frame = [t \in Threads |-> [api |-> "none", obj |-> None, sql |-> <<>>]]
    /\ at = [t \in Threads |-> FirstStatement]
    /\ rc = [t \in Threads |-> None]
    /\ outcome = [t \in Threads |-> [kind |-> "none"]]
    /\ seen = [t \in Threads |-> None]
    /\ owner = [o \in Objects |-> None]
    /\ mutex = [o \in Objects |-> None]
    /\ records = EmptyResult
    /\ err = [o \in Objects |-> None]
    /\ total = [o \in Objects |-> 0]
    /\ calls = [t \in Threads |-> 0]
    /\ log = [o \in Objects |-> <<>>]
    /\ base = [t \in Threads |-> 0]
    /\ mixed = [t \in Threads |-> FALSE]
    /\ shared = [t \in Threads |-> FALSE]

-----------------------------------------------------------------------------

\* A thread begins a call; the histories note whose calls it overlaps.
Active(t) == pc[t] \notin {"idle", "read"}

Begin(t, api, o, q, first) ==
    /\ pc[t] = "idle" /\ calls[t] < MaxCalls[t]
    /\ pc' = [pc EXCEPT ![t] = first]
    /\ frame' = [frame EXCEPT ![t] = [api |-> api, obj |-> o, sql |-> q]]
    /\ outcome' = [outcome EXCEPT ![t] = [kind |-> "none"]]
    /\ seen' = [seen EXCEPT ![t] = None]
    /\ calls' = [calls EXCEPT ![t] = @ + 1]
    /\ base' = [base EXCEPT ![t] = total[o]]
    /\ mixed' = [u \in Threads |->
                   IF u = t THEN \E v \in Threads \ {t} : Active(v) /\ frame[v].api = "execute"
                            ELSE mixed[u] \/ api = "execute"]
    /\ shared' = [u \in Threads |->
                    IF u = t THEN \E v \in Threads \ {t} : Active(v) /\ frame[v].obj = o
                             ELSE shared[u] \/ frame[u].obj = o]
    /\ UNCHANGED <<at, rc, records, locks, connection>>

Execute(t, o, q) == Begin(t, "execute", o, q, "clear")

\* begin_transaction(), commit_transaction() and rollback() call sqlite3_exec
\* at once: no clear_records, no critical section, no callback.
Transaction(t, o, q) == Begin(t, "transaction", o, q, "enter")

ClearRecords(t) ==
    /\ pc[t] = "clear"
    /\ WriteRecords(t, Cleared(records))
    /\ pc' = [pc EXCEPT ![t] = "lock"]
    /\ UNCHANGED <<frame, at, rc, locks, connection, results, window>>

LockDb(t) ==
    /\ pc[t] = "lock"
    /\ owner[frame[t].obj] = None
    /\ owner' = [owner EXCEPT ![frame[t].obj] = t]
    /\ pc' = [pc EXCEPT ![t] = "enter"]
    /\ UNCHANGED <<frame, at, rc, records, mutex, connection, results, window>>

\* sqlite3_exec enters the connection's mutex and resets its error.
ExecEnter(t) ==
    /\ pc[t] = "enter"
    /\ MutexFree(frame[t].obj)
    /\ mutex' = [mutex EXCEPT ![frame[t].obj] = t]
    /\ err' = [err EXCEPT ![frame[t].obj] = None]
    /\ at' = [at EXCEPT ![t] = FirstStatement]
    /\ rc' = [rc EXCEPT ![t] = None]
    /\ pc' = [pc EXCEPT ![t] = "exec"]
    /\ UNCHANGED <<frame, records, owner, total, log, results, window>>

\* sqlite3_step returned SQLITE_ROW: SQLite::callback stores the row, or there
\* is no memory for it.  That exception passes sqlite3_exec and unlock_db by, and
\* nobody in src/ catches it: the process ends.
Callback(t) ==
    /\ RowReady(t)
    /\ \/ WriteRecords(t, WithRow(records, Current(t).columns, Current(t).rows[at[t].row + 1]))
       \/ records' = None
    /\ at' = [at EXCEPT ![t].row = @ + 1]
    /\ UNCHANGED <<pc, frame, rc, locks, connection, results, window>>

\* The statement is done: its changes are counted, the next one follows.
FinishStatement(t) ==
    /\ InStatement(t) /\ ~RowReady(t)
    /\ Current(t).error = None
    /\ total' = [total EXCEPT ![frame[t].obj] = @ + Current(t).changes]
    /\ log' = [log EXCEPT ![frame[t].obj] = Append(@, Current(t))]
    /\ at' = [at EXCEPT ![t] = [stmt |-> @.stmt + 1, row |-> 0]]
    /\ UNCHANGED <<pc, frame, rc, records, locks, err, results, window>>

\* exec_out: sqlite3_exec leaves the mutex and returns to its caller.
ExecOut(t) ==
    /\ mutex' = [mutex EXCEPT ![frame[t].obj] = None]
    /\ pc' = [pc EXCEPT ![t] = IF frame[t].api = "execute" THEN "unlock" ELSE "idle"]
    /\ UNCHANGED <<frame, at, records, owner, total, log, results, window>>

FailStatement(t) ==
    /\ InStatement(t) /\ ~RowReady(t)
    /\ Current(t).error # None
    /\ err' = [err EXCEPT ![frame[t].obj] = Current(t).error]
    /\ rc' = [rc EXCEPT ![t] = Current(t).error]
    /\ ExecOut(t)

FinishScript(t) ==
    /\ pc[t] = "exec" /\ at[t].stmt > Len(frame[t].sql)
    /\ ExecOut(t)
    /\ UNCHANGED <<err, rc>>

\* The mutant tests rc before it unlocks.
UnlockDb_NotOnError(t) ==
    /\ pc[t] = "unlock"
    /\ owner' = [owner EXCEPT ![frame[t].obj] = IF rc[t] = None THEN None ELSE @]
    /\ pc' = [pc EXCEPT ![t] = "finish"]
    /\ UNCHANGED <<frame, at, rc, records, mutex, connection, results, window>>

UnlockDb(t) ==
    /\ pc[t] = "unlock"
    /\ owner' = [owner EXCEPT ![frame[t].obj] = None]
    /\ pc' = [pc EXCEPT ![t] = "finish"]
    /\ UNCHANGED <<frame, at, rc, records, mutex, connection, results, window>>

\* rc != SQLITE_OK: sqlite3_errmsg takes the mutex and reads the connection.
Throw(t) ==
    /\ pc[t] = "finish" /\ rc[t] # None
    /\ MutexFree(frame[t].obj)
    /\ outcome' = [outcome EXCEPT ![t] = [kind |-> "threw", message |-> err[frame[t].obj]]]
    /\ pc' = [pc EXCEPT ![t] = "idle"]
    /\ UNCHANGED <<frame, at, rc, records, locks, connection, seen, window>>

Return(t) ==
    /\ pc[t] = "finish" /\ rc[t] = None
    /\ outcome' = [outcome EXCEPT ![t] = [kind |-> "returned", count |-> ReturnedCount(t)]]
    /\ pc' = [pc EXCEPT ![t] = "idle"]
    /\ UNCHANGED <<frame, at, rc, records, locks, connection, seen, window>>

\* The caller reads the result set: display_query_result, get_query_result
\* or DatabaseExporter, all without a lock.
BeginRead(t) ==
    /\ pc[t] = "idle" /\ seen[t] = None
    /\ pc' = [pc EXCEPT ![t] = "read"]
    /\ UNCHANGED <<frame, at, rc, records, locks, connection, results, window>>

EndRead(t) ==
    /\ pc[t] = "read"
    /\ seen' = [seen EXCEPT ![t] = records]
    /\ WriteRecords(t, records)
    /\ pc' = [pc EXCEPT ![t] = "idle"]
    /\ UNCHANGED <<frame, at, rc, locks, connection, outcome, window>>

\* The steps of a call in progress, as opposed to the caller's decisions.
Step(t) ==
    \/ ClearRecords(t) \/ LockDb(t) \/ ExecEnter(t)
    \/ Callback(t) \/ FinishStatement(t) \/ FailStatement(t) \/ FinishScript(t)
    \/ UnlockDb(t) \/ Throw(t) \/ Return(t) \/ EndRead(t)

Call(t) ==
    \/ \E o \in Objects, q \in Queries : Execute(t, o, q)
    \/ \E o \in Objects, q \in TxQueries : Transaction(t, o, q)
    \/ BeginRead(t)

\* Every thread has made its calls, or the process has ended.
Stopped == Crashed \/ \A t \in Threads : pc[t] = "idle" /\ calls[t] = MaxCalls[t]

Next == \/ ~Crashed /\ \E t \in Threads : Call(t) \/ Step(t)
        \/ Stopped /\ UNCHANGED vars

Spec == Init /\ [][Next]_vars

\* The operating system runs every thread that can go on.
FairSpec == Spec /\ \A t \in Threads : WF_vars(~Crashed /\ Step(t))

-----------------------------------------------------------------------------
(* Properties *)

\* Every variable keeps its type; a counter of sqlite3_exec never leaves the
\* script, a lock is held by a thread or by nobody.
TypeOK ==
    /\ pc \in [Threads -> {"idle", "clear", "lock", "enter", "exec", "unlock", "finish", "read"}]
    /\ frame \in [Threads -> [api : {"none", "execute", "transaction"},
                              obj : Objects \cup {None}, sql : Seq(Statement)]]
    /\ at \in [Threads -> [stmt : Nat \ {0}, row : Nat]]
    /\ rc \in [Threads -> Errors \cup {None}]
    /\ outcome \in [Threads -> [kind : {"none"}]
                          \cup [kind : {"threw"}, message : Errors \cup {None}]
                          \cup [kind : {"returned"}, count : Nat]]
    /\ seen \in [Threads -> QueryResult \cup {None}]
    /\ owner \in [Objects -> Threads \cup {None}]
    /\ mutex \in [Objects -> Threads \cup {None}]
    /\ records \in QueryResult \cup {None}
    /\ err \in [Objects -> Errors \cup {None}]
    /\ total \in [Objects -> Nat]
    /\ calls \in [Threads -> Nat]
    /\ \A t \in Threads : calls[t] <= MaxCalls[t]
    /\ log \in [Objects -> Seq(Statement)]
    /\ base \in [Threads -> Nat]
    /\ mixed \in [Threads -> BOOLEAN]
    /\ shared \in [Threads -> BOOLEAN]

\* Two threads are never inside sqlite3_exec on the same connection, although
\* begin_transaction, commit_transaction and rollback bypass Sync_db.
OneScriptPerConnection ==
    \A t, u \in Threads :
        pc[t] = "exec" /\ pc[u] = "exec" /\ frame[t].obj = frame[u].obj => t = u

\* Whatever a call ends with, the thread leaves no lock behind: an idle or
\* reading thread owns neither a critical section nor a connection mutex.
NoLockLeftBehind ==
    \A t \in Threads, o \in Objects :
        pc[t] \in {"idle", "clear", "lock", "finish", "read"} => t \notin {owner[o], mutex[o]}

\* The statements of a script follow one another on its connection: the log
\* without the script in progress grows by whole scripts only.
InFlight(o) == {t \in Threads : pc[t] = "exec" /\ frame[t].obj = o}
Settled(o) == IF InFlight(o) = {} THEN log[o]
              ELSE LET t == CHOOSE t \in InFlight(o) : TRUE
                   IN  SubSeq(log[o], 1, Len(log[o]) - (at[t].stmt - 1))

Serial == INSTANCE SerialConnections WITH
              Scripts <- Queries \cup TxQueries,
              history <- [o \in Objects |-> Settled(o)]

ScriptsAreSerial == Serial!Spec

\* A call that has begun returns, unless a data race or an exception in a callback
\* has ended the process: no path through execute keeps the critical section or
\* waits for ever.
EveryCallReturns == \A t \in Threads : Active(t) ~> pc[t] = "idle" \/ Crashed

-----------------------------------------------------------------------------
(* What a call gives, compared with its script alone *)

\* The statements a script reaches when nothing else runs - up to the first
\* that fails - and those of them that have rows or fail.
Reached(q) == {i \in 1..Len(q) : \A j \in 1..(i - 1) : q[j].error = None}
Selects(q) == {i \in Reached(q) : q[i].rows # <<>>}
Failing(q) == {i \in Reached(q) : q[i].error # None}

\* Its result set, its error and its changes.
ResultOf(q) ==
    [exist |-> Selects(q) # {},
     names |-> IF Selects(q) = {} THEN <<>> ELSE <<q[Min(Selects(q))].columns>>,
     rows  |-> FlattenSeq([i \in Reached(q) |-> q[i].rows])]

ErrorOf(q) == IF Failing(q) = {} THEN None ELSE q[Min(Failing(q))].error

ChangesOf(q) ==
    LET upTo[n \in 0..Len(q)] == IF n = 0 THEN 0 ELSE upTo[n - 1] + q[n].changes
    IN  upTo[Len(q)]

\* A thread that reads the result set after an execute with which no other
\* execute of the process, on any object, overlapped sees exactly the rows of
\* its own script, with the column names of its first SELECT.
UnmixedReadIsOwnResult ==
    \A t \in Threads :
        frame[t].api = "execute" /\ seen[t] # None /\ ~mixed[t]
            => seen[t] = ResultOf(frame[t].sql)

\* The value execute returns covers the changes of its own script even when
\* others use the object (sqlite3_total_changes is read after the unlock); a
\* call that had the object to itself returns exactly its own changes on top
\* of the earlier ones, or throws the message of its own error.
OutcomeIsOwn ==
    \A t \in Threads :
        LET ended == outcome[t] own == ChangesOf(frame[t].sql)
        IN  /\ ended.kind = "returned" =>
                   /\ ErrorOf(frame[t].sql) = None
                   /\ ended.count >= base[t] + own
                   /\ ~shared[t] => ended.count = base[t] + own
            /\ ended.kind = "threw" =>
                   /\ ErrorOf(frame[t].sql) # None
                   /\ ~shared[t] => ended.message = ErrorOf(frame[t].sql)

\* What "Database synchronization during multithreading" (SQLite.h:54) says:
\* a thread that is still inside the critical section after its sqlite3_exec
\* finds its own rows in the result set.
LockedResultIsOwn ==
    \A t \in Threads :
        pc[t] = "unlock" /\ ~Crashed => records = ResultOf(frame[t].sql)
=============================================================================
