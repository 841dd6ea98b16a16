----------------------------- MODULE Transactions -----------------------------
(***************************************************************************)
(* begin_transaction, commit_transaction, rollback, execute and close of   *)
(* SQLite.cpp on one database file that several connections, of this and   *)
(* of other processes, have open.  The three transaction calls ignore the  *)
(* result of sqlite3_exec, so what they did depends on the library: on its *)
(* autocommit flag, on the locks of the file, and on the rollback journal, *)
(* which outlives a process that dies.                                     *)
(*                                                                         *)
(* A statement is one that reads or one that changes pages.  The library   *)
(* is modelled as it is called here: journal mode DELETE, no busy handler, *)
(* a page cache that holds every changed page.                             *)
(***************************************************************************)
EXTENDS Integers

CONSTANTS
    Connections,    \* connections to the file
    Pages,          \* its pages
    Values,         \* contents of a page
    None            \* no journal, no cache

Image == [Pages -> Values]

ASSUME NoneAssumption == None \notin Image

VARIABLES
    file,       \* the database file
    journal,    \* the original image of a rollback journal on disk, or None
    lock,       \* lock[c]: the lock of connection c on the file
    auto,       \* auto[c]: the autocommit flag of connection c
    cache,      \* cache[c]: the database as connection c sees it, or None
                \* while c has not read it under a lock
    pc,         \* pc[c]: what sqlite3_exec is doing for c
    left,       \* left[c]: pages c has still to write to the file
    \* History: it is read by properties only.
    begun       \* begun[c]: the caller is between begin_transaction and the
                \* call that ends it, and has seen no statement fail

vars == <<file, journal, lock, auto, cache, pc, left, begun>>

Locks  == {"none", "shared", "reserved", "pending", "exclusive"}
Writer == {"reserved", "pending", "exclusive"}

Others(c) == Connections \ {c}

-----------------------------------------------------------------------------
(* Locks of the file: LockFile of the Windows VFS                          *)

CanShare(c) == \A d \in Others(c) : lock[d] \notin {"pending", "exclusive"}

CanReserve(c) == \A d \in Others(c) : lock[d] \notin Writer

\* The mutant does not wait for readers.
CanExclude_IgnoresReaders(c) == \A d \in Others(c) : lock[d] \notin Writer
CanExclude(c) == \A d \in Others(c) : lock[d] = "none"

\* A journal nobody works on is hot: its writer has died.  The mutant never
\* looks for one.
Hot_Ignored == FALSE
Hot == journal # None /\ \A d \in Connections : lock[d] \notin Writer

-----------------------------------------------------------------------------
Init ==
    /\ file \in Image
    /\ journal = None
    /\ lock = [c \in Connections |-> "none"]
    /\ auto = [c \in Connections |-> TRUE]
    /\ cache = [c \in Connections |-> None]
    /\ pc = [c \in Connections |-> "rest"]
    /\ left = [c \in Connections |-> {}]
    /\ begun = [c \in Connections |-> FALSE]

At(c, step) == pc[c] = step

Goto(c, step) == pc' = [pc EXCEPT ![c] = step]
SetLock(c, l) == lock' = [lock EXCEPT ![c] = l]
SetCache(c, image) == cache' = [cache EXCEPT ![c] = image]

\* The connection gives up its lock and is in autocommit mode.  What it has
\* read may be old from then on: the mutant goes on using it.
Leave_KeepsCache(c) ==
    /\ SetLock(c, "none")
    /\ auto' = [auto EXCEPT ![c] = TRUE]
    /\ Goto(c, "rest")
    /\ UNCHANGED cache

Leave(c) ==
    /\ SetLock(c, "none")
    /\ SetCache(c, None)
    /\ auto' = [auto EXCEPT ![c] = TRUE]
    /\ Goto(c, "rest")

\* A connection that has not written to the file leaves without its changes.
Discard(c) ==
    /\ journal' = IF lock[c] \in Writer THEN None ELSE journal
    /\ Leave(c)
    /\ UNCHANGED <<file, left>>

\* The end of a statement that changed nothing: in autocommit mode it is the
\* end of its transaction.
EndStatement(c) ==
    IF auto[c] THEN Leave(c) ELSE Goto(c, "rest") /\ UNCHANGED <<lock, auto, cache>>

-----------------------------------------------------------------------------
(* The transaction calls.  An error changes nothing and is not noticed:    *)
(* BEGIN within a transaction, COMMIT and ROLLBACK outside of one.         *)

\* The mutant sends a text that is not a statement.
BeginTransaction_Misspelt(c) ==
    /\ At(c, "rest")
    /\ begun' = [begun EXCEPT ![c] = TRUE]
    /\ UNCHANGED <<file, journal, lock, auto, cache, pc, left>>

BeginTransaction(c) ==
    /\ At(c, "rest")
    /\ auto' = [auto EXCEPT ![c] = FALSE]
    /\ begun' = [begun EXCEPT ![c] = TRUE]
    /\ UNCHANGED <<file, journal, lock, cache, pc, left>>

\* COMMIT of a transaction without changes gives up the lock; one with changes
\* goes on to write them.
CommitTransaction(c) ==
    /\ At(c, "rest")
    /\ begun' = [begun EXCEPT ![c] = FALSE]
    /\ IF lock[c] \in Writer
         THEN Goto(c, "commit") /\ UNCHANGED <<lock, auto, cache>>
         ELSE Leave(c)
    /\ UNCHANGED <<file, journal, left>>

Rollback(c) ==
    /\ At(c, "rest")
    /\ begun' = [begun EXCEPT ![c] = FALSE]
    /\ Discard(c)

\* close, also of the destructor: sqlite3_close rolls back what is open.
Close(c) == Rollback(c)

-----------------------------------------------------------------------------
(* execute: a statement that reads or one that changes pages               *)

Statements == {"read", "change"}

\* The library reads the file under a shared lock.
BeginStatement(c) ==
    /\ At(c, "rest") /\ lock[c] # "none"
    /\ \E s \in Statements : Goto(c, s)
    /\ UNCHANGED <<file, journal, lock, auto, cache, left, begun>>

GetShared(c) ==
    /\ At(c, "rest") /\ lock[c] = "none" /\ CanShare(c)
    /\ SetLock(c, "shared")
    /\ IF Hot THEN Goto(c, "recover") /\ UNCHANGED cache
              ELSE /\ \E s \in Statements : Goto(c, s)
                   /\ SetCache(c, file)
    /\ UNCHANGED <<file, journal, auto, left, begun>>

\* The database is locked: execute throws.
SharedBusy(c) ==
    /\ At(c, "rest") /\ lock[c] = "none" /\ ~CanShare(c)
    /\ begun' = [begun EXCEPT ![c] = FALSE]
    /\ UNCHANGED <<file, journal, lock, auto, cache, pc, left>>

Read(c) ==
    /\ At(c, "read")
    /\ EndStatement(c)
    /\ UNCHANGED <<file, journal, left, begun>>

\* The first change reserves the file and opens the journal.
Change(c) ==
    /\ At(c, "change") /\ CanReserve(c)
    /\ \E image \in Image : SetCache(c, image)
    /\ SetLock(c, IF lock[c] = "shared" THEN "reserved" ELSE lock[c])
    /\ journal' = IF lock[c] = "shared" THEN file ELSE journal
    /\ Goto(c, IF auto[c] THEN "commit" ELSE "rest")
    /\ UNCHANGED <<file, auto, left, begun>>

\* Another connection has reserved the file: execute throws, and a transaction
\* of the caller stays open with its shared lock.
ChangeBusy(c) ==
    /\ At(c, "change") /\ ~CanReserve(c)
    /\ EndStatement(c)
    /\ begun' = [begun EXCEPT ![c] = FALSE]
    /\ UNCHANGED <<file, journal, left>>

\* Disk full or an I/O error: the library rolls the whole transaction back and
\* returns to autocommit mode before execute throws.
ChangeFails(c) ==
    /\ At(c, "change")
    /\ Discard(c)
    /\ begun' = [begun EXCEPT ![c] = FALSE]

-----------------------------------------------------------------------------
(* COMMIT, and the end of a changing statement in autocommit mode          *)

GetExclusive(c) ==
    /\ At(c, "commit") /\ CanExclude(c)
    /\ SetLock(c, "exclusive")
    /\ left' = [left EXCEPT ![c] = {p \in Pages : cache[c][p] # file[p]}]
    /\ Goto(c, "flush")
    /\ UNCHANGED <<file, journal, auto, cache, begun>>

\* The mutant waits for the readers.
CommitBusy_Waits(c) == FALSE /\ UNCHANGED vars

\* Somebody still reads.  A transaction stays open, and its lock stays pending;
\* a single statement is rolled back.
CommitBusy(c) ==
    /\ At(c, "commit") /\ ~CanExclude(c)
    /\ IF auto[c] THEN Discard(c)
       ELSE /\ SetLock(c, "pending")
            /\ Goto(c, "rest")
            /\ UNCHANGED <<file, journal, auto, cache, left>>
    /\ UNCHANGED begun

Flush(c, p) ==
    /\ At(c, "flush") /\ p \in left[c]
    /\ file' = [file EXCEPT ![p] = cache[c][p]]
    /\ left' = [left EXCEPT ![c] = @ \ {p}]
    /\ UNCHANGED <<journal, lock, auto, cache, pc, begun>>

\* Deleting the journal commits.  The mutant deletes it before the last page
\* is written.
EndCommit_Early(c) ==
    /\ At(c, "flush")
    /\ journal' = None
    /\ Leave(c)
    /\ UNCHANGED <<file, left, begun>>

EndCommit(c) ==
    /\ At(c, "flush") /\ left[c] = {}
    /\ journal' = None
    /\ Leave(c)
    /\ UNCHANGED <<file, left, begun>>

\* A write fails: the journal is played back.
FlushFails(c) ==
    /\ At(c, "flush")
    /\ Goto(c, "undo")
    /\ SetCache(c, None)
    /\ left' = [left EXCEPT ![c] = Pages]
    /\ UNCHANGED <<file, journal, lock, auto, begun>>

-----------------------------------------------------------------------------
(* Playing a journal back: one's own, or a hot one found by GetShared      *)

\* Another connection may have played it back meanwhile.
ExcludeToRecover(c) ==
    /\ At(c, "recover") /\ CanExclude(c)
    /\ IF journal = None
         THEN /\ SetCache(c, file)
              /\ \E s \in Statements : Goto(c, s)
              /\ UNCHANGED <<lock, left>>
         ELSE /\ SetLock(c, "exclusive")
              /\ Goto(c, "playback")
              /\ left' = [left EXCEPT ![c] = Pages]
              /\ UNCHANGED cache
    /\ UNCHANGED <<file, journal, auto, begun>>

RecoverBusy(c) ==
    /\ At(c, "recover") /\ ~CanExclude(c)
    /\ SetLock(c, "none")
    /\ Goto(c, "rest")
    /\ begun' = [begun EXCEPT ![c] = FALSE]
    /\ UNCHANGED <<file, journal, auto, cache, left>>

Restore(c, p) ==
    /\ pc[c] \in {"undo", "playback"} /\ p \in left[c]
    /\ file' = [file EXCEPT ![p] = journal[p]]
    /\ left' = [left EXCEPT ![c] = @ \ {p}]
    /\ UNCHANGED <<journal, lock, auto, cache, pc, begun>>

EndUndo(c) ==
    /\ At(c, "undo") /\ left[c] = {}
    /\ journal' = None
    /\ Leave(c)
    /\ UNCHANGED <<file, left, begun>>

EndRecovery(c) ==
    /\ At(c, "playback") /\ left[c] = {}
    /\ journal' = None
    /\ SetLock(c, "shared")
    /\ SetCache(c, file)
    /\ \E s \in Statements : Goto(c, s)
    /\ UNCHANGED <<file, auto, left, begun>>

\* The process dies: its locks go, the journal and a half-written file stay.
Crash(c) ==
    /\ Leave(c)
    /\ left' = [left EXCEPT ![c] = {}]
    /\ begun' = [begun EXCEPT ![c] = FALSE]
    /\ UNCHANGED <<file, journal>>

-----------------------------------------------------------------------------
Call(c) == \/ BeginTransaction(c) \/ CommitTransaction(c) \/ Rollback(c) \/ Close(c)
           \/ BeginStatement(c) \/ GetShared(c) \/ SharedBusy(c)

Step(c) == \/ Read(c) \/ Change(c) \/ ChangeBusy(c) \/ ChangeFails(c)
           \/ GetExclusive(c) \/ CommitBusy(c) \/ EndCommit(c) \/ FlushFails(c)
           \/ \E p \in Pages : Flush(c, p) \/ Restore(c, p)
           \/ EndUndo(c) \/ ExcludeToRecover(c) \/ RecoverBusy(c) \/ EndRecovery(c)

Next == \E c \in Connections : Call(c) \/ Step(c) \/ Crash(c)

Spec == Init /\ [][Next]_vars

\* A call that has begun goes on.
FairSpec == Spec /\ \A c \in Connections : WF_vars(Step(c))

-----------------------------------------------------------------------------
(* Properties *)

\* Every variable keeps its type, and what a connection has cached it holds a
\* lock for.
TypeOK ==
    /\ file \in Image
    /\ journal \in Image \cup {None}
    /\ lock \in [Connections -> Locks]
    /\ auto \in [Connections -> BOOLEAN]
    /\ cache \in [Connections -> Image \cup {None}]
    /\ pc \in [Connections -> {"rest", "read", "change", "commit", "flush", "undo",
                               "recover", "playback"}]
    /\ left \in [Connections -> SUBSET Pages]
    /\ begun \in [Connections -> BOOLEAN]
    /\ \A c \in Connections : cache[c] # None => lock[c] # "none"

\* The database: the file, or what the journal says it was.
Content == IF journal = None THEN file ELSE journal

Inside == {c \in Connections : cache[c] # None}

\* However calls, errors and crashes interleave, the database changes by whole
\* transactions only, and nobody sees the changes of another before its commit.
Database == INSTANCE AtomicFile WITH
                Contents <- Image,
                content  <- Content,
                inside   <- Inside,
                writers  <- {c \in Inside : lock[c] \in Writer},
                view     <- cache

ChangesAreAtomic == Database!Spec

ReadsAreCommitted == Database!ReadsAreCommitted

\* No call waits for another connection: it ends, if with an error nobody
\* looks at.
EveryCallEnds == \A c \in Connections : ~At(c, "rest") ~> At(c, "rest")

\* What was changed since begin_transaction is not published by anything but a
\* later commit_transaction, as long as no statement has failed.
PublishedOnlyByCommit ==
    [][\A c \in Connections : EndCommit(c) => ~begun[c]]_vars
=============================================================================
