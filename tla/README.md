# SQLiteBackup in TLA+

SQLiteBackup creates an SQLite database, writes it to a file of SQL text and
uploads that file with FTP. The models here follow the C++ code under
`SQLiteBackup/` line by line where state changes, and the vendored SQLite
library and the FTP server only as far as that code depends on them.

In the tables below `SQLite.cpp`, `SQLite.h`, `WinSocket.cpp`, `FTPClient.cpp`
and so on are the files of `SQLiteBackup/src/`, and `main` is
`SQLiteBackup/SQLiteBackup.cpp`.

## 1. Inventory

| component | state | operations | used by |
|---|---|---|---|
| `SQLite` (SQLite.h, SQLite.cpp) | `p_db`, the critical section of `Sync_db`, the **static** `m_query_result` | `connect`, `close`, `execute`, `begin_transaction`, `commit_transaction`, `rollback`, `display_query_result`, `get_query_result` | main, `DatabaseExporter`, tests |
| SQLite library (vendored) | per connection: mutex, error, change counter, transaction; the database file and its locks | `sqlite3_open/close/exec/errmsg/total_changes` | `SQLite` |
| `DatabaseExporter` | the open `ofstream`, a copied list of tables, the shared result set | `dump` | main, tests |
| `Win_socket` | `socket_fd`, `recvbuf`; the process' Winsock startup count | constructor, `send`, `receive`, destructor | `FTP_client` (base class and data channel) |
| `FTP_client` | the control connection (inherited), `data_channel` | `login`, `execute_command`, `request_new_data_channel`, `read_data`, `send_data`, destructor | main, tests |
| FTP server (external) | control connection, data port, transfer in progress, stored file | RFC 959 commands | `FTP_client` |
| main | the sequence of calls, one `try` around the upload | - | - |
| unit tests | one database and one FTP session per suite | - | - |

How they interact: `execute` calls `sqlite3_exec`, which calls
`SQLite::callback` back for every row, which appends to the one result set of
the process. `dump` calls `execute` once for the list of tables, once per table
and once for the triggers, and iterates over that same result set. An
`FTP_client` *is* a `Win_socket` and owns a second one. main joins the parts
through a file on disk and nothing else: dump writes it, the upload reads it.

What is hard about each, and what makes it correct:

* **`SQLite`**: `Sync_db` is entered and left by hand around `sqlite3_exec`, but
  `clear_records`, `sqlite3_errmsg`, `sqlite3_total_changes`, the reading of the
  result and the three transaction calls are outside of it, and the result set
  is shared by objects that do not share a lock. Correct means: a script runs on
  its connection in one piece, no path keeps a lock, every call returns, and a
  caller gets its own rows, count and message - the last part only when calls do
  not overlap.
* **Connection lifecycle**: `p_db` is an address: uninitialised after `SQLite()`,
  still set after `close`, overwritten by a second `connect`, and the library may
  put another object's connection where the old one was. A destructor that throws
  ends the process. Correct means: an object that is used between its connect and
  its close owns its connection, and no connection is lost but in known ways.
* **Transactions**: the results of BEGIN, COMMIT and ROLLBACK are ignored, no busy
  handler is set, an error may end the transaction behind the caller's back, and
  a process may die while it writes. Correct means: the file changes by whole
  transactions, and nothing is published by a call that was not meant to.
* **`DatabaseExporter`**: several reads that are one snapshot only if the caller
  opened a transaction; an output stream nobody tests; exceptions in the middle;
  values that go through text, between quotes that are not doubled; triggers on
  views that are not dumped. Correct means: the file restores the database, a
  partial file restores nothing.
* **`Win_socket`**: system calls that fail at any place of the constructor, a
  `send` that cleans up what the destructor cleans up again, handles that are
  reused. Correct means: startups, sockets and address lists are accounted for.
* **`FTP_client`**: one `recv` per command whatever the server sends, whole replies
  or pieces of them; the reply is parsed; nothing closes the data channel of an
  upload but the destructor.
  Correct means: replies belong to commands, the port is the current one, the
  session ends, the file arrives.
* **main**: goes on after every failure it is not told of, dies of every exception
  but a `runtime_error` in the upload, and is run again over the files an earlier
  run left. Correct means: neither `export.sql` nor the file on the server ever
  restores a part of a database, and what a run uploads is what the database was.

`PROJECT.json` lists every hazard at its line with the properties that would catch
it going wrong.

## 2. Modules

| module | what it is |
|---|---|
| `SQLite` | the class `SQLite` used by several threads, one action per step of `execute` and `sqlite3_exec` |
| `SerialConnections` | abstract: scripts run on a connection in one piece |
| `Transactions` | the transaction calls, `execute` and `close` on a file that several connections use: locks, journal, crashes |
| `AtomicFile` | abstract: a database that changes by whole transactions |
| `Connection` | the life of `p_db`: constructors, `connect`, `close`, destructor |
| `SqlImport` | a file of SQL as a sequence of statements, and the database it restores |
| `DatabaseExporter` | `dump` with other writers, failing SELECTs and a failing file |
| `WinSocket` | constructor, `send` and destructor with Winsock's startup count |
| `FTPClient` | client and server over streams that either side or the network may end |
| `Upload` | abstract: what a session promises to a program that uploads a file |
| `Backup` | main, run after run, over an `AtomicFile` and an `Upload` |
| `MCSQLite`, `MCDatabaseExporter`, `MCWinSocket`, `MCConnection`, `MCFTPClient`, `MCBackup` | instances for TLC: scripts, databases, sessions, symmetry |
| `Induction` | induction over the natural numbers as a lemma about sets, and what it gives about `FlattenSeq` |
| `SQLiteProofs`, `TransactionsProofs`, `ConnectionProofs`, `DatabaseExporterProofs`, `WinSocketProofs`, `FTPClientProofs`, `BackupProofs` | theorems |

How they fit together:

    SQLite  ------------implements--> SerialConnections
    Transactions -------implements--> AtomicFile --+
                                                   +--> Backup
    FTPClient ----------implements--> Upload ------+
    DatabaseExporter --> SqlImport   (what a dump restores; Backup takes from it
                                      that a file without COMMIT restores nothing,
                                      nor one with a table twice before it)

`Backup` uses the two abstract specifications in place of the modules that
implement them, action by action (`Database!Commit(Main)`, `FTP!Store`), so that
main with every fault of every part stays small enough to be checked and proved.

A definition named `X_Something` next to `X` is a variant of `X` with a plausible
bug; the properties are shown to notice it (`mutants` in PROJECT.json).

### SQLite

`pc[t]` walks a thread through `execute` (SQLite.cpp:51-64):

    idle -> clear -> lock -> enter -> exec ... exec -> unlock -> finish -> idle

`clear` is `clear_records`, `lock`/`unlock` are `Sync_db`, `enter` and `exec` are
`sqlite3_exec`: the connection's mutex, then for every statement its rows
(`Callback`) and its end (`FinishStatement`, `FailStatement`). The transaction
calls start at `enter` and leave no callback (`Transaction`). `finish` reads
`sqlite3_errmsg` (`Throw`) or `sqlite3_total_changes` (`Return`) after the
critical section. `BeginRead`/`EndRead` are `display_query_result`,
`get_query_result` and the loops of `dump`.

SQL text is abstracted to the sequence of its statements: the rows each hands to
the callback, the changes it counts, the error it ends with. `records` is
`m_query_result`. Two threads that are both about to access it, one of them to
write, race: the access either takes effect or breaks the vectors
(`records = None`), and in the latter case the process stops. It stops as well when
the callback throws because there is no memory for a row (SQLite.cpp:73-78): the
exception leaves `sqlite3_exec` and `execute` with the mutex and the critical section
held, and no `catch` of the repository takes it. `mixed` and
`shared` are histories that say whether other calls overlapped a call. What a
script gives when nobody interferes - rows up to its first error (`ResultOf`),
that error (`ErrorOf`), changes (`ChangesOf`) - is computed from the script
alone; `UnmixedReadIsOwnResult` and `OutcomeIsOwn` compare with it.

### DatabaseExporter and SqlImport

`dump` (SQLite.cpp:115-150) is `OpenDump` (open, PRAGMA, BEGIN), `ListTables`,
`DumpTable` for each table of the copied list (CREATE, SELECT, INSERTs), and
`FinishDump` (triggers, COMMIT, close). `ThrowFromSelect` is the exception of
`execute`, which leaves the file as it is: the CREATE of a table is written
before its SELECT. A step and its output are one action because nobody reads the
file meanwhile; a crash of the process or a full disk shows as a file that ends
after any line (`Write`). A line that is cut short is either a statement that
still runs or one that fails: the same as the whole line or none; if the cut falls
into a text that splits its line, it is again one of the `Rereadings`. `OtherCommit`
is another process; while the caller's transaction holds its lock it cannot
commit.

`SqlImport` says what a file is worth: `Restored(file)` runs it the way
`sqlite3_exec` does, stops at the first error, fires triggers on inserts, and
rolls back what no COMMIT ended. Values and their texts are separate sets, with
`Printed` and `ReadAs` between them, so that `''`, NULL, text with quotes, `5`
and `'5'`, and reals of more than 15 digits can differ as they do in SQLite.
`Executed(file)` is the connection after each of the statements in turn.

Texts are written between quotes, and quotes in them are not doubled
(SQLite.cpp:134), so a text with a quote is one of three things. Two quotes in a row
are one quote of another value (`ReadAs`). A text of `Broken` makes its INSERT a syntax
error. A text of `Splitting` ends its statement - `x'); COMMIT; --` - or swallows what
follows, and from there on SQLite reads statements that `dump` never wrote:
`Readings(file)` is the file up to that line followed by any of `Rereadings`, a
constant of which nothing is assumed. `AllOrNothing` says of every reading that nothing
was kept, or all its statements succeeded and a COMMIT kept the lot, or such a text was
in the file: it is the one way to a part of the tables. The properties of what comes
back exclude these texts with the others that do not (`RowsSurvive`).

A database of the instance is one that SQLite can hold (`Consistent`: one table to a
name, a cell per column in every row, a table or a view for every trigger).
`sqlite_master` lists the INSTEAD OF triggers of views with the others, `dump` writes
them, and as it writes no views their CREATE fails before the COMMIT: nothing is restored
(`Restorable`). The same holds of tables with generated columns, whose values
`SELECT *` gives and INSERT does not take (`Accepts`).

`TablesAreOrderedInstants` has a hypothesis that is easy to get wrong: the columns
are read with the list of tables and the rows later, each table's at its own
time. It is not enough that every version could be restored by itself: between the
two reads a table may be recreated with as many columns of another affinity, and
`'5'` comes back as 5. The property therefore asks that the rows of each version
survive in the columns of the earlier ones (`RestorableAs`).

### Transactions

`pc[c]` is what `sqlite3_exec` is doing for connection `c`. The calls of the class
(`Call`) are `BeginTransaction` (SQLite.cpp:98), `CommitTransaction`, `Rollback`,
`Close`, and a statement of `execute`, which reads (`Read`) or changes pages
(`Change`). An error of a transaction call changes nothing and is not noticed, so
a BEGIN within a transaction is `UNCHANGED auto`. What these calls do is decided
by three things of the library:

* the autocommit flag `auto`: a statement outside of a transaction ends its own
  (`EndStatement`), and a failing write (`ChangeFails`) rolls back and returns to
  autocommit without the caller being asked;
* the lock of the file: none, shared, reserved, pending, exclusive. No busy handler
  is set, so a lock that is not free is an error at once (`SharedBusy`,
  `ChangeBusy`, `CommitBusy`, `RecoverBusy`). A COMMIT that is busy leaves the
  transaction open with a pending lock;
* the rollback journal: the first change saves the original, a commit writes page
  by page (`Flush`) and ends with the deletion of the journal (`EndCommit`), a write
  that fails plays it back (`FlushFails`, `Restore`, `EndUndo`). `Crash` takes a
  connection's locks away and leaves journal and half-written file; `GetShared` of
  whoever comes next finds the journal hot and recovers.

The refinement mapping to `AtomicFile`: the content is the file, or what the journal
says it was (`Content`); inside is who has a cache, and its view is that cache.
`begun[c]` is a history: the caller has called `begin_transaction`, nothing since
that ends it, and has seen no statement fail.

### Connection

An object's `pdb` is the null pointer, an address of a `sqlite3` structure, or
`Wild`. `heap` says what is at an address: an open connection, one that could not be
opened (sick), or freed memory; `sqlite3_open` may take any free address.
`ConstructDefault` leaves any value in `p_db`. A call on a pointer to nothing that is
open gets SQLITE_MISUSE or crashes (`Close`, `Destroy`, `Use` have both outcomes);
the exception of `close` ends the process in the destructor. Histories: `loose` are
objects that were never connected or have been closed, `misused` says that one of
them was used other than by `connect`, `lost` why nobody holds a connection.

### WinSocket

One action per system call of the constructor and its failure, one for the
destructor, one for a `send` that fails (a `send` that succeeds and `receive`
change nothing here). `startups` is the count of `WSAStartup`; the `WSACleanup`
that takes it to zero closes every socket of the process. A closed handle may be
given out again, so a second `closesocket` may hit a stranger.

### FTPClient

The client steps through `program`, a sequence of operations that starts with
`login`. An operation with a command is `SendCommand` then `Receive`: one recv
that returns the first n replies in the stream, for any n. `PASV` then parses the
response (`ConnectChannel`, `CrashOnResponse`). `SendData`, `SendUnit`, `EndSend`
are the one blocking `send` of `send_data`; `ReadData` is the one `recv` of
`read_data`; `Delete` is the destructor; `Exit` closes what an exception or a crash
left open. The server is external: it answers commands in order, one preliminary
and one completion reply per transfer, and may be sequential (no command during a
transfer) or not, refuse transfers or not, and abort the session when the client
closes the control connection, which it does without QUIT.

Where `session.cuts` allows it, the last reply that a recv returns may be a part of
one, whatever the command, and the next recv then starts with the rest (`Cuts`). What
matters of a piece is what it has of the port of a PASV: all of it, none, or an
incomplete one. Port 0 stands for the last, whether a comma is missing or digits are.

A `send` that fails on the data channel has closed its socket and called `WSACleanup`
(`SendFails`, `Broken`); when the channel is deleted, or sends again, that happens a
second time, the count of startups is zero, and the control connection is gone
(`CloseChannel`, `Sever`).

`line` is the state of the control connection. `Drop`, at any point of a session, is
a server that closes it or a network that resets it, with the data channel. A closed
one reads as an empty text, which `execute_command` returns as if it were a reply
(`ReceiveClosed`); of a reset one recv returns -1, the string is built from an
invalid range and the process terminates (`ReceiveFails`, WinSocket.cpp:93).

### Backup

`pc` is the place in main: `work` (BEGIN, a table at a time, COMMIT), `open` and
`dump` and `close` (dump and `delete db`), `read` (export.sql into memory), `upload`,
`report`, and `done` or `dead`. `NextRun` starts main again over the `file` and the
`remote` file that are there. Each place has what may go wrong there: a COMMIT that
is busy (`CommitBusy`: another connection is inside) or fails, a statement that
throws, a stream that does not open or stops taking output (`Write`), a file that
cannot be read, a session that fails or that the server breaks off without main
noticing, and `Crash`. `OtherStep` is another process that reads or changes the
database between any two steps of main while main uses it. The dump of this module
is one line per table and a COMMIT: `Restored` and `Restorable` keep of `SqlImport`
that nothing counts without the COMMIT, and nothing if a table comes twice before it.
The tables of main have neither quotes nor triggers nor generated columns, so its file
is read as it is written. `since` are the contents the database has
had from the COMMIT of the run to the end of its dump, `faults` what has gone wrong.

## 3. Runs

Runs that pass:

| run | what it asks | instance |
|---|---|---|
| `sqlite_threads` | Scripts are whole (`OneScriptPerConnection`, refinement of `SerialConnections`), locks are released on every path, calls return, a read nobody overlapped is the caller's own, outcomes are the caller's own unless the object was shared, nothing leaks from one call into the next | 2 threads, 2 objects, one thread calls twice; scripts of two inserts, of a select with a failing statement in the middle, of two selects; BEGIN that works or fails |
| `transactions` | The database changes by whole transactions only (refinement of `AtomicFile`), readers see committed content, no call waits for another connection, nothing of a transaction is published but by `commit_transaction` | 3 connections, 2 pages, 2 values; busy locks, failing writes and crashes at every point |
| `connection` | An object that is used properly owns its connection, what leaks and why, what ends the process | 3 objects, 3 addresses that are given out again |
| `exporter_dumps` | What any prefix of the file restores, however SQLite reads it; what a completed dump restores with and without a transaction | 10 databases (rows in two tables and a trigger between them, a dropped table, a table recreated with other columns, a name that needs quotes, an index, AUTOINCREMENT, numbers, doubled quotes, a text that ends its statement with a COMMIT behind it, a trigger on a view, a generated column), 2 dumps, 2 commits of others, failing file (2.2 million states) |
| `winsocket_objects` | Startups, sockets and address lists are accounted for on every path | 3 objects, 3 handles, 2 addresses, 4 constructor calls |
| `ftp_sessions` | The port is never that of an earlier PASV, replies that are not cut are in step before the first transfer and pieces of cut ones neither lost nor repeated, the session ends, the upload arrives, the session keeps what `Upload` promises | sessions of main, of main without LIST, and of the test suite; all servers, with replies whole or in pieces, a drop at every point or an abort at the end; a file of 3 units, listings of 0 to 3 units with one unit per recv and two in flight (0.8 million states) |
| `backup` | `export.sql` and the file on the server restore all tables or nothing; a backup is of this run and of committed content; after a run in which nothing fails it arrives | 2 runs of main, 2 tables, 2 versions, all faults, another process that reads and writes (1.6 million states) |

Runs in which the code does not do what the repository says of it. Each checks
one property that quotes a comment:

| run | what TLC shows |
|---|---|
| `sqlite_one_object` | `clear_records` is outside the critical section: a second thread empties the rows the first has just fetched inside it |
| `exporter_quoted` | one value with a quote makes the whole file restore nothing |
| `winsocket_stolen` | a failed `send` on the data channel and its destructor take the control connection's socket |
| `ftp_pasv` | in main's own sequence the reply that is parsed for a port may be the completion of the LIST before |
| `backup_uncommitted` | another process reads while main commits: COMMIT is busy, main goes on, dump reads the open transaction, `delete db` rolls it back, and the server holds a content the database never had |

The bounds. Two threads are enough to put any other call between any two steps
of a call, and each property of `SQLite` speaks of one thread and what overlaps
it; the second call of one thread is what a leak from call to call needs. Three
connections allow a writer that died, one that recovers and one that reads
meanwhile; two pages let a commit be half written. Three objects and addresses
allow an owner, a stale pointer, and a stranger that got the address; the same
holds of sockets. For `dump`, two commits let a table change before and after its
neighbour was read, and two dumps let a new dump meet a file that is complete,
partial, or cannot be opened. The FTP programs are the real ones, the sizes let a
listing be empty, fit, take several recvs, and exceed what the connection holds. In
`backup`, the second run starts from every state the first can leave. `MaxCalls`,
`MaxDumps`, `MaxWrites`, `MaxBuilt`, `MaxAddresses` and `MaxRuns` bound nothing else.

Fairness. `SQLite!FairSpec`: weak fairness of each thread's step - a thread that
can go on is scheduled; the callers' decisions to begin a call are not fair. A
weakly fair lock is enough because with a bounded number of calls nobody can be
overtaken for ever. `Transactions!FairSpec`: weak fairness of `Step(c)`, a call that
has begun goes on; neither the begin of a call nor a crash is owed. A busy lock is an
error and not a wait, which is what `EveryCallEnds` depends on (its mutant waits).
`FTPClient!FairSpec`: weak fairness of client and of server; a blocked `send` or
`recv` is a disabled action and is not owed anything. `Backup!FairSpec`: main runs
on, and a server that serves the session to its end stores what it gets; the other
process and the next run are not owed. `FTP_sessions.cfg` does not check for deadlock
because the standoff of `ChannelStandoff` is one, and `SessionEnds` says that there is
no other.

The standoff is real: `send_data` leaves the data channel open, and no operation
closes it but the next PASV and the destructor. A sequential server then never
answers the next command; the test suite sends one (TestFTPClient.cpp:67). A
listing that exceeds what the connection holds does the same after one
`read_data`.

## 4. Proofs

`tlapm` checks eight modules of proofs. Nothing is assumed but the named ASSUMEs
on the constants, which every run evaluates.

**`Induction`** has the induction the other modules need about data. The induction
theorems of the library take an operator, which no prover here can instantiate;
`Induct` says the same of a set (0 is in it, and with n also n + 1), and follows from
`WFMin` and the well-foundedness of `Less`. What a recursive function computes is then proved
in the same three steps everywhere: a function that satisfies its equation exists, any
two agree on what both are defined on, hence one more element of the sequence is one
more application of the step (`FlattenSeqAppend`, `ChangesOfAppend`,
`ExecutedAppend`).

**`SQLiteProofs`**, for any threads, objects and scripts, with five inductive
invariants:

* `TypeInv` is `TypeOK` and `BusyOnObject`: a thread inside a call works on an
  object, without which `owner[frame[t].obj]` means nothing. Two lemmas about
  `sqlite3_exec` carry it: the statement and the row it has reached are ones of
  the script (`CurrentStatement`, `CurrentRow`). Theorem `TypeCorrect`.
* `LocksInv` says who holds what: a thread past `lock` and before the end of
  `unlock` owns its object's critical section, a thread in `exec` holds its
  connection's mutex, and nobody holds anything else. Mutual exclusion alone is
  not inductive, because it does not say that the mutex is taken while a script
  runs. Theorems `MutualExclusion` (`OneScriptPerConnection`) and `LocksReleased`
  (`NoLockLeftBehind`).
* `LogInv` says that the log of a connection ends with the statements a script in
  progress has executed, none of which has failed. With the uniqueness of that
  script it gives theorem `SerialScripts` (`ScriptsAreSerial`): the end of a script
  (`ScriptEnds`) is one step of `SerialConnections`, every other step a stutter -
  among them `EnterSettles` and `FinishSettles`, which keep a script that runs out of
  the history.
* `ResultInv` is about `m_query_result`, which all objects share: as long as no other
  `execute` overlaps a call (`HasOwn`), what is in it after `clear_records` is the part of
  the call's own result up to the row it has reached (`PartOf`), so at the end the
  whole of it, and nothing of a call before. It needs that two calls in progress are
  both marked as mixed, whoever came first. Theorem `ReadsOwnResult`
  (`UnmixedReadIsOwnResult`).
* `OutcomeInv` is about the counters that `execute` reads after the unlock, when they may
  be another thread's: the connection's total is at least, and without a second user
  exactly, what it was at the begin of the call and the changes of the statements
  executed (`Counts`), and the error message is the script's own (`Ended`). Theorem
  `ReturnsOwnCount` (`OutcomeIsOwn`).

**`TransactionsProofs`**, for any connections, pages and contents, whatever calls,
errors and crashes interleave:

* The inductive invariant `IInv` has four parts besides the types. `Excludes` is the
  mutual exclusion of writers; alone it says nothing of the file. `Holds` says which
  lock and cache go with each step of a call, `Sees` that the file is the committed
  content for whoever is inside and not writing it, and `Written` which pages of a
  commit or a rollback are done - at its end, all of them, so that deleting the
  journal publishes the cache or the original. `EndUndo` and `EndCommit` are
  sound only with all four. Theorems `TypeCorrect` and `CommittedReads`
  (`ReadsAreCommitted`).
* `BegunInv`: a caller inside its transaction is not in autocommit mode and does not
  write the file. Theorem `OnlyCommitPublishes` (`PublishedOnlyByCommit`).
* `Atomicity` (`ChangesAreAtomic`): `Transactions` implements `AtomicFile`. Initial
  states map to initial states, and each step to a step or a stutter: calls
  (`CallIsAbstract`), statements, commits, and recoveries, which are all stutters
  but for the `Start` at their end.

**`ConnectionProofs`**, for any objects and addresses: `TypeCorrect`;
`ConnectionsAccounted` (`HandlesAccounted`); `ConnectionsOwned` (`OwnConnection`) and
`DestructorsDoNotThrow` (`DiesOnlyByMisuse`) from their conjunction `OwnInv`: a
destructor does not throw because its object owns its connection.

**`DatabaseExporterProofs`**, for any databases, names and values:

* `TypeCorrect`: `TypeOK` is inductive as it stands; the lemmas say that values,
  rows, tables and triggers become lines.
* `CommitComesLast` (`CommitIsLast`): the strengthening `CommitInv` adds that the
  file of a dump that still runs on a working stream has no COMMIT at all. It
  holds because `open` truncates, and it is what `FinishDump` needs; a failed
  stream takes nothing (`WriteFailed`).
* `RestoresAllOrNothing` (`AllOrNothing`): `AtomInv` adds that the file of a dump that
  still runs leaves the connection inside its transaction, or failed, with nothing
  kept (`Midway`). No statement but a COMMIT leads out of this (`MidwayLine`), and the
  COMMIT keeps what the connection sees or, after a failure, nothing
  (`SettledLine`). A file without a text that splits its line has one reading, itself;
  of the readings of another nothing is assumed and nothing claimed.
* `CompletedRestores` (`CompletedDumpRestores`) and `OrderedInstants`
  (`TablesAreOrderedInstants`) come from one invariant, `DumpInv`: the list of tables
  is that of a version l since the dump began, and each table written was read at a
  version of its own, in order and not before l; if the columns take the rows, the file
  restores exactly these copies, or has failed over one that does not fit (`Reads`,
  `Written`). The work is in the lemmas that execute the lines of one table
  (`CreateRestores`, `RowRestores`, `TableRestores`), of the triggers
  (`TriggersRestore`), and the end (`FinishReads`). A dump that nobody interfered
  with has all its versions equal (`WholeCopies`), and then nothing fails, because
  triggers come after the rows and every trigger of a `Restorable` database has its
  table. That is a hypothesis of the theorem and not an assumption on the databases:
  triggers on views are among them. `AllOrNothing` is
  needed for the case in between: a file that failed has kept nothing.

**`WinSocketProofs`**, for any objects and handles and without a bound on either:

* `TypeInv` adds to `TypeOK` what the running constructor guarantees
  (`BuildingInv`: its object is not alive, has no socket before `socket()`, has an
  address while it connects), `ListsAccounted`, and that finitely many objects
  live. Theorem `ListsFreed`.
* `SocketsReleased` (`NoSocketLeftBehind`) is inductive relative to `TypeInv`.
* `StartupsReleased` (`NoStartupLeftBehind`) rests on `HeldStep`, which says for
  each system call how the number of holders changes.
* `SocketsOwned` (`EachHasItsSocket`): the strengthening `OwnInv` counts the object
  that is being connected among the owners, or else `socket()` could hand it a
  handle the invariant says nothing of; `NobodyLeft` covers the WSACleanup that
  closes everything.

**`FTPClientProofs`**, for any programs, sizes and servers:

* `PasvInv`: at most one PASV has been sent and not been answered, or been answered
  and not been read. It is inductive because a client that misses the reply to a
  PASV does not get past it (`CrashOnResponse`). Theorem `CurrentPort`
  (`PasvPortIsCurrent`).
* Theorem `InStep` (`InStepUntilTransfer`) has two inductive invariants, both about the
  time in which nothing has been sent that is answered twice (`Quiet`). `StepInv`, for
  replies that are not cut: a waiting client's command is with the server, or its reply
  under way, or the server is gone (`Waiting`). `LagInv`, for all: while the connection
  is open the newest reply in the stream, the one read last included, is that to the
  newest command the server has taken, so that the client lags behind by the pieces
  that are still in the stream and by nothing else.
* Both rest on `ControlTypes`, the part of `TypeOK` about the control connection.

The rest of `FTPClientProofs` is for any programs that upload one file, to the port of a
PASV right before (`OneUpload`; `MCFTPClient` checks it of main and of the tests), any
sizes and servers:

* `UploadInv` is the inductive invariant. `Queue`: the commands on their way are in the
  order of the program, and the last is the one the client waits for; so with `PasvInv`
  nothing but the PASV is on its way when the channel is opened, and `Opens`: the port
  it goes to has been used by nobody (`Ports`: nor has any port to come). `Stores`:
  what is stored and what is in flight on the transfer's connection has been sent.
  `Sends`: from its PASV to the end of its send nobody closes the channel of an upload
  that the server serves to its end, since no LIST is under way on it.
* `UploadIsKept` (`UploadAsPromised`): `FTPClient` implements `Upload`. `Delete` is its
  `Finish` because of `Sends`, `ReadFile` its `Store` because of `Stores`; a STOR the
  server takes is the `Store` that creates the file; exceptions, crashes and resets
  are its `Fail`.
* `TypeCorrect` (`TypeOK`), with `Sizes`. Neither holds of every program: one with two
  uploads sends more than `FileSize` units.

**`BackupProofs`**, for any tables, contents, faults and number of runs:

* Four invariants make up `TypeInv`. `DatabaseInv` is taken from `AtomicFile`
  (`DatabaseStep`); `FileInv` says how far the dump is and that the lines of
  export.sql are a prefix of one per table and the COMMIT (`WellFormed`), with a
  stream that still takes output having one for every table that is done; `SessionInv`
  says the same of what was read and what is stored, which are prefixes of it;
  `RunInv` is about main itself. Theorem `TypeCorrect`.
* `AllOrNothing` (`RestoresAllOrNothing`) follows with `WholeFile`: a well-formed file
  that has a COMMIT has a line for each table, and before the COMMIT no two for one.
* `RecentInv`: between a COMMIT that took effect and the end of the dump, the committed
  content is one of `since` and main is not inside, so that a dumped line is recent;
  and what is read, sent and stored is recent as far as it goes. Theorem
  `BackupsAreRecent` (`BackupIsRecent`).

Out of the prover's reach and only model-checked: liveness under fairness
(`EveryCallReturns`, `EveryCallEnds`, `SessionEnds`, `FileArrives`, `BackupArrives`).
Every invariant and every action property of the passing runs is stated by a theorem.

## 5. Seen in the code, without a run

* SQLite.h:61: one result set for all objects. Threads with an object each, which
  share no lock, overwrite each other's rows; `UnmixedReadIsOwnResult` and
  `OutcomeIsOwn` say what is left when calls do not overlap.
* SQLite.cpp:120: `dump` begins no transaction. main commits before it, so its dump
  is a read per table (`TablesAreOrderedInstants`, `BackupIsRecent`).
* SQLite.cpp:102: a COMMIT that is busy leaves the transaction open with a pending
  lock. No other connection gets in until this one ends its transaction, and the
  caller does not know that it has one.
* SQLite.cpp:133: a text that is empty is written as NULL.
* SQLite.cpp:39: `close` and then the destructor, which closes again and throws: the
  process ends.
* SQLite.cpp:149 prints "Successfully exported" without having tested the stream. If
  export.sql cannot be opened, main uploads the one of an earlier run.
* Indexes and views are not dumped; the CREATE of `sqlite_sequence` makes the
  file of a database with AUTOINCREMENT fail, a trigger on a view or a generated column
  that of its database. All are in the instance of `exporter_dumps`, where
  `CompletedDumpRestores` excludes them by name.
* SQLite.cpp:134: a value such as `x'); COMMIT; --` is read as statements. A file that
  ends or fails behind it restores a part of the tables; `AllOrNothing` names it as the
  one way to that.
* SQLite.cpp:73-78: an exception in the callback leaves `execute` with both locks held.
  A caller that caught it and went on would stop every other thread on the object.
* A reply that arrives in two pieces is taken for two: `execute_command` returns the
  first, and the second as the reply to the next command. If that is a PASV, or the
  piece ends in its port, `request_new_data_channel` reads past the end of its vector,
  throws, or connects to a wrong port.
* After a LIST `execute_command` may return the completion of the LIST in place
  of the reply to its command; after the server has closed the connection it returns
  an empty text, and the program goes on.
* `read_data` returns at most one buffer of a listing.
* main ignores the reply to STOR and prints "Execution finished succesfully."
  (SQLiteBackup.cpp:110) after an exception as well.

## 6. Not modelled, and the plan

Not modelled:

* `shell.c` (vendored): SQLiteBackup.vcxproj:146 and SQLiteBackupTest.vcxproj:41 compile
  it, but nothing in the code that is modelled calls it. `sqlite3.h` and `sqlite3ext.h`
  are its and the library's declarations.
* The inside of SQLite beyond what is mapped: parser, code generator, virtual machine,
  b-tree, and the pager where this program cannot reach it (WAL, shared cache,
  savepoints, cache spills, attached files). SQLite.cpp calls five functions of it in
  its default configuration. These files are 99 of 100 lines of the repository, so the
  map covers a small share of all lines and most of those this project wrote.
* The text of SQL and of FTP replies (parsing is reduced to "the first reply with
  commas"), console output. A port whose last digits are cut off is another number:
  the model has it as one that nobody listens on, and a shorter number that
  happens to be that of an earlier port is left out. A reply is cut into two pieces at
  a time, of which the second may be cut again.
* Constraints of a table other than NOT NULL. One that the rows of a dump violate,
  because they come back with another type or in another order, makes its INSERT
  fail like those of `Accepts`. An INSERT into a table with generated columns always
  fails in the model; SQLite takes one of a row that has just the other cells, which
  `SELECT *` gives only if the table was recreated meanwhile, a case that the
  properties of what comes back exclude.
* The SQLite tests as programs: they are sequences of calls that `Transactions`,
  `SQLite` and `DatabaseExporter` allow in any order, and keep no state.

Left of the plan: `dump` over the result set of module `SQLite`, while another thread
executes. `UnmixedReadIsOwnResult` covers the read of the loop, not the file it
writes, which is undefined once the iterators are.
