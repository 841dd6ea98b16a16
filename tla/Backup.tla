-------------------------------- MODULE Backup --------------------------------
(***************************************************************************)
(* main of SQLiteBackup.cpp, run after run: create two tables in a         *)
(* transaction, dump the database into export.sql, read that file, upload  *)
(* it.  The database is an AtomicFile, which Transactions implements, with *)
(* another process on it; the FTP session is an Upload, which FTPClient    *)
(* implements.  The dump is one line per table and a COMMIT at the end.    *)
(***************************************************************************)
EXTENDS Integers, SequencesExt

CONSTANTS
    Tables,         \* the tables main creates, in order
    Versions,       \* contents of a table
    Mine,           \* the one main gives its tables
    Main, Other,    \* the connections of main and of the other process
    OtherWrites,    \* whether the other process changes the database
    Faults,         \* what may go wrong, of AllFaults
    MaxRuns,        \* bound: runs of main
    None

Contents == [Range(Tables) -> Versions]
AllFaults == {"statement", "open", "disk", "read", "network", "crash"}

ASSUME TablesAssumption == Tables \in Seq(STRING) /\ IsInjective(Tables)
ASSUME MineAssumption == Mine \in Versions
ASSUME NoneAssumption == None \notin Contents
ASSUME ConnectionsAssumption == Main # Other
ASSUME RunsAssumption == MaxRuns \in Nat \ {0}
ASSUME FaultsAssumption == Faults \subseteq AllFaults

VARIABLES
    content, inside, writers, view,         \* the database, of AtomicFile
    size, sent, stored, outcome, reliable,  \* the FTP session, of Upload
    pc,         \* where main is
    todo,       \* tables still to change or to dump
    file,       \* export.sql
    good,       \* the stream to export.sql takes output
    buf,        \* what main has read of export.sql
    remote,     \* the file on the server
    runs        \* runs begun

\* Histories: they are read by properties only.
VARIABLES
    since,      \* contents the database has had from the COMMIT of this run, if
                \* that took effect, to the end of its dump
    faults      \* what has gone wrong in this run: opening export.sql, or other

database == <<content, inside, writers, view, since>>
session == <<size, sent, stored, outcome, reliable>>
vars == <<database, session, pc, todo, file, good, buf, remote, runs, faults>>

Database == INSTANCE AtomicFile WITH Connections <- {Main, Other}
FTP == INSTANCE Upload

Commit == [table |-> "COMMIT"]
Line(t, v) == [table |-> t, version |-> v]

\* The lines before the first COMMIT.
Transaction(lines) == {j \in DOMAIN lines : \A k \in 1..j : lines[k] # Commit}

\* A file restores what is before its first COMMIT.  It restores nothing without
\* one, nor when a table comes twice before it: the second CREATE fails, and
\* sqlite3_exec stops (module SqlImport).
Committed(lines) == Commit \in Range(lines)
Restorable(lines) ==
    /\ Committed(lines)
    /\ \A i, j \in Transaction(lines) : lines[i].table = lines[j].table => i = j
Restored(lines) == {lines[i] : i \in Transaction(lines)}

Goto(step) == pc' = step
Fault(f) == faults' = faults \cup {f}

-----------------------------------------------------------------------------
Init ==
    /\ Database!Init
    /\ content \in Contents
    /\ file = <<>> /\ remote = <<>>
    /\ pc = "work" /\ todo = Tables /\ good = FALSE /\ buf = <<>>
    /\ size = 0 /\ sent = 0 /\ stored = -1 /\ outcome = "none" /\ reliable = FALSE
    /\ runs = 1
    /\ since = {} /\ faults = {}

\* Main gives up what it has open in the database.
LeaveDatabase ==
    /\ IF Main \in inside THEN Database!End(Main) ELSE UNCHANGED <<content, inside, writers, view>>
    /\ UNCHANGED since

-----------------------------------------------------------------------------
(* begin_transaction, the statements, commit_transaction *)

FirstStatement ==
    /\ pc = "work" /\ Main \notin inside
    /\ Database!Start(Main)
    /\ UNCHANGED <<since, session, pc, todo, file, good, buf, remote, runs, faults>>

CreateTable ==
    /\ pc = "work" /\ todo # <<>>
    /\ Database!Change(Main)
    /\ view'[Main] = [view[Main] EXCEPT ![Head(todo)] = Mine]
    /\ todo' = Tail(todo)
    /\ UNCHANGED <<since, session, pc, file, good, buf, remote, runs, faults>>

AtCommit == pc = "work" /\ todo = <<>> /\ Main \in inside

CommitTransaction ==
    /\ AtCommit
    /\ Database!Commit(Main)
    /\ since' = {content'}
    /\ Goto("open")
    /\ UNCHANGED <<session, todo, file, good, buf, remote, runs, faults>>

\* SQLITE_BUSY: the transaction stays open, and main goes on.
CommitBusy ==
    /\ AtCommit /\ inside # {Main}
    /\ Goto("open") /\ Fault("other")
    /\ UNCHANGED <<database, session, todo, file, good, buf, remote, runs>>

\* Another error rolls back, and main goes on as well.
CommitFails ==
    /\ AtCommit /\ "statement" \in Faults
    /\ LeaveDatabase
    /\ Goto("open") /\ Fault("other")
    /\ UNCHANGED <<session, todo, file, good, buf, remote, runs>>

-----------------------------------------------------------------------------
(* DatabaseExporter::dump and delete db *)

\* The mutant opens the file to append.
Opened_Append == file
Opened == <<>>

OpenFile ==
    /\ pc = "open"
    /\ \/ good' = TRUE /\ file' = Opened /\ UNCHANGED faults
       \/ "open" \in Faults /\ good' = FALSE /\ Fault("open") /\ UNCHANGED file
    /\ todo' = Tables
    /\ Goto("dump")
    /\ UNCHANGED <<database, session, buf, remote, runs>>

\* Output to a stream that is no longer good is lost without a word.
Write(line) ==
    \/ good /\ file' = Append(file, line) /\ UNCHANGED <<good, faults>>
    \/ ~good /\ UNCHANGED <<file, good, faults>>
    \/ "disk" \in Faults /\ good /\ good' = FALSE /\ Fault("other") /\ UNCHANGED file

\* SELECT: a transaction of its own, or part of the one COMMIT left open.
DumpTable ==
    /\ pc = "dump" /\ todo # <<>>
    /\ LET seen == IF Main \in inside THEN view[Main] ELSE content
       IN  Write(Line(Head(todo), seen[Head(todo)]))
    /\ todo' = Tail(todo)
    /\ UNCHANGED <<database, session, pc, buf, remote, runs>>

\* The mutant forgets the last line.
FinishDump_NoCommit ==
    /\ pc = "dump" /\ todo = <<>>
    /\ Goto("close")
    /\ UNCHANGED <<database, session, todo, file, good, buf, remote, runs, faults>>

FinishDump ==
    /\ pc = "dump" /\ todo = <<>>
    /\ Write(Commit)
    /\ Goto("close")
    /\ UNCHANGED <<database, session, todo, buf, remote, runs>>

\* In the mutant the file is finished although a table could not be read.
StatementFails_Caught ==
    /\ pc \in {"work", "dump"}
    /\ "statement" \in Faults \/ Other \in writers
    /\ IF pc = "dump" THEN Write(Commit) ELSE UNCHANGED <<file, good, faults>>
    /\ LeaveDatabase
    /\ Goto("close")
    /\ UNCHANGED <<session, todo, buf, remote, runs>>

\* A statement of main or of dump fails: nobody catches the SQLiteException.
StatementFails ==
    /\ pc \in {"work", "dump"}
    /\ "statement" \in Faults \/ Other \in writers
    /\ LeaveDatabase
    /\ Goto("dead") /\ Fault("other")
    /\ UNCHANGED <<session, todo, file, good, buf, remote, runs>>

\* The mutant deletes the object without closing the connection.
DeleteDb_StaysOpen ==
    /\ pc = "close"
    /\ Goto("read")
    /\ UNCHANGED <<database, session, todo, file, good, buf, remote, runs, faults>>

DeleteDb ==
    /\ pc = "close"
    /\ LeaveDatabase
    /\ Goto("read")
    /\ UNCHANGED <<session, todo, file, good, buf, remote, runs, faults>>

-----------------------------------------------------------------------------
(* The upload *)

\* An ifstream that could not be opened reads as an empty text.
ReadFile ==
    /\ pc = "read"
    /\ \/ buf' = file /\ UNCHANGED faults
       \/ "read" \in Faults /\ buf' = <<>> /\ Fault("other")
    /\ size' = Len(buf') /\ sent' = 0 /\ stored' = -1 /\ outcome' = "running"
    /\ reliable' \in {TRUE} \cup {"network" \notin Faults}
    /\ Goto("upload")
    /\ UNCHANGED <<database, todo, file, good, remote, runs>>

SendData ==
    /\ pc = "upload" /\ FTP!Send
    /\ UNCHANGED <<database, pc, todo, file, good, buf, remote, runs, faults>>

Store ==
    /\ outcome # "none" /\ FTP!Store
    /\ remote' = SubSeq(buf, 1, stored')
    /\ UNCHANGED <<database, pc, todo, file, good, buf, runs, faults>>

DeleteFtp ==
    /\ pc = "upload" /\ FTP!Finish
    /\ Goto("report")
    /\ faults' = IF reliable THEN faults ELSE faults \cup {"other"}
    /\ UNCHANGED <<database, todo, file, good, buf, remote, runs>>

\* An exception in the session: only a runtime_error is caught.
SessionFails ==
    /\ pc = "upload" /\ FTP!Fail
    /\ pc' \in {"report", "dead"}
    /\ Fault("other")
    /\ UNCHANGED <<database, todo, file, good, buf, remote, runs>>

\* "Execution finished succesfully."
Report ==
    /\ pc = "report"
    /\ Goto("done")
    /\ UNCHANGED <<database, session, todo, file, good, buf, remote, runs, faults>>

-----------------------------------------------------------------------------
Crash ==
    /\ "crash" \in Faults /\ pc \notin {"done", "dead"}
    /\ LeaveDatabase
    /\ Goto("dead") /\ Fault("other")
    /\ outcome' = IF pc = "upload" THEN "failed" ELSE outcome
    /\ UNCHANGED <<size, sent, stored, reliable, todo, file, good, buf, remote, runs>>

\* main is run again, once the server is done with what it got.
NextRun ==
    /\ pc \in {"done", "dead"} /\ runs < MaxRuns
    /\ stored = sent \/ outcome # "done" \/ ~reliable
    /\ runs' = runs + 1
    /\ Goto("work")
    /\ todo' = Tables /\ good' = FALSE /\ buf' = <<>>
    /\ size' = 0 /\ sent' = 0 /\ stored' = -1 /\ outcome' = "none" /\ reliable' = FALSE
    /\ since' = {} /\ faults' = {}
    /\ UNCHANGED <<content, inside, writers, view, file, remote>>

\* The other process reads, or changes the database as well: between main's
\* calls, and while main does not use the database as good as between two runs.
OtherStep ==
    /\ pc \in {"work", "open", "dump", "close"}
    /\ \/ Database!Start(Other) /\ UNCHANGED since
       \/ Database!End(Other) /\ UNCHANGED since
       \/ OtherWrites /\ Database!Change(Other) /\ UNCHANGED since
       \/ /\ OtherWrites /\ Database!Commit(Other)
          /\ since' = IF since = {} THEN {} ELSE since \cup {content'}
    /\ UNCHANGED <<session, pc, todo, file, good, buf, remote, runs, faults>>

MainStep ==
    \/ FirstStatement \/ CreateTable
    \/ CommitTransaction \/ CommitBusy \/ CommitFails \/ StatementFails
    \/ OpenFile \/ DumpTable \/ FinishDump \/ DeleteDb
    \/ ReadFile \/ SendData \/ DeleteFtp \/ SessionFails \/ Report

Finished == pc \in {"done", "dead"} /\ runs = MaxRuns

Next == \/ MainStep \/ Store \/ Crash \/ NextRun \/ OtherStep
        \/ Finished /\ UNCHANGED vars

Spec == Init /\ [][Next]_vars

\* Main runs on, and a server that serves the session stores what it gets.
FairSpec == Spec /\ WF_vars(MainStep) /\ WF_vars(reliable /\ Store)

-----------------------------------------------------------------------------
(* Properties *)

Lines == [table : Range(Tables), version : Versions] \cup {Commit}

\* Every variable keeps its type, and main never holds the database while it
\* talks to the server.
TypeOK ==
    /\ content \in Contents /\ inside \subseteq {Main, Other} /\ writers \subseteq inside
    /\ view \in [{Main, Other} -> Contents \cup {None}]
    /\ pc \in {"work", "open", "dump", "close", "read", "upload", "report", "done", "dead"}
    /\ \A lines \in {file, buf, remote} : lines \in Seq(Lines)
    /\ todo \in Seq(Range(Tables)) /\ good \in BOOLEAN /\ runs \in 1..MaxRuns
    /\ size = Len(buf) /\ sent \in 0..size /\ stored \in -1..sent
    /\ outcome \in {"none", "running", "done", "failed"} /\ reliable \in BOOLEAN
    /\ since \subseteq Contents
    /\ faults \subseteq {"open", "other"}
    /\ pc \in {"read", "upload", "report", "done", "dead"} => Main \notin inside

\* Whatever fails or dies where, and whatever was there before: export.sql and
\* the file on the server have no COMMIT and restore nothing, or they restore
\* every table, and no table comes in them twice.
RestoresAllOrNothing ==
    \A lines \in {file, remote} : Committed(lines) =>
        /\ Restorable(lines)
        /\ \E c \in Contents : Restored(lines) = {Line(t, c[t]) : t \in Range(Tables)}

\* If the COMMIT of a run took effect and export.sql could be opened, then what
\* this run has uploaded restores, for each table, a content it has had in the
\* database between that COMMIT and delete db: no earlier backup, nothing uncommitted.
IsRecent(lines) ==
    \A l \in Restored(lines) : \E c \in since : c[l.table] = l.version

BackupIsRecent ==
    /\ pc \in {"upload", "report", "done"} /\ stored >= 0 /\ Restorable(remote)
    /\ since # {} /\ "open" \notin faults
    => IsRecent(remote)

\* After a run in which nothing failed the server gets the backup, although main
\* has looked at no reply.
BackupArrives ==
    pc = "done" /\ faults = {} ~> Restorable(remote) /\ IsRecent(remote)

-----------------------------------------------------------------------------
(* What SQLiteBackup.cpp says, and the code does not do *)

\* "Backup the database file into FTP server" (SQLiteBackup.cpp:96): what the
\* server has when main is done restores a content the database has had in this
\* run, if no other process changes it.
BackupIsOfDatabase ==
    pc = "done" /\ Restorable(remote) =>
        \E c \in since \cup {content} : Restored(remote) = {Line(t, c[t]) : t \in Range(Tables)}
=============================================================================
