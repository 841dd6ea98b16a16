-------------------------- MODULE TransactionsProofs --------------------------
(***************************************************************************)
(* Theorems about Transactions for any connections, pages and contents,    *)
(* whatever calls, errors and crashes interleave.                          *)
(***************************************************************************)
EXTENDS Transactions, TLAPS

-----------------------------------------------------------------------------
(* The inductive invariant *)

Steps == {"rest", "read", "change", "commit", "flush", "undo", "recover", "playback"}

Types ==
    /\ file \in Image
    /\ journal \in Image \cup {None}
    /\ lock \in [Connections -> Locks]
    /\ auto \in [Connections -> BOOLEAN]
    /\ cache \in [Connections -> Image \cup {None}]
    /\ pc \in [Connections -> Steps]
    /\ left \in [Connections -> SUBSET Pages]
    /\ begun \in [Connections -> BOOLEAN]

\* What a connection holds at each step of a call.
Holds(c) ==
    /\ pc[c] = "rest" => lock[c] # "exclusive" /\ (cache[c] = None <=> lock[c] = "none")
    /\ pc[c] \in {"read", "change"} =>
          lock[c] \in {"shared", "reserved", "pending"} /\ cache[c] # None
    /\ pc[c] = "commit" => lock[c] \in {"reserved", "pending"} /\ cache[c] # None
    /\ pc[c] = "flush" => lock[c] = "exclusive" /\ cache[c] # None
    /\ pc[c] = "recover" => lock[c] = "shared" /\ cache[c] = None
    /\ pc[c] \in {"undo", "playback"} => lock[c] = "exclusive" /\ cache[c] = None

\* One connection at a time writes, and alone while it writes to the file.
Excludes(c) ==
    \A d \in Others(c) :
        /\ lock[c] \in Writer => lock[d] \notin Writer
        /\ lock[c] = "exclusive" => lock[d] = "none"

\* Who writes has a journal; whoever is inside and does not flush finds the
\* committed content in the file, and in its cache if it has changed nothing.
Sees(c) ==
    /\ lock[c] \in Writer => journal # None
    /\ cache[c] # None /\ pc[c] # "flush" => Content = file
    /\ cache[c] # None /\ lock[c] \notin Writer => cache[c] = Content

\* The pages that are not left have been written.
Written(c) ==
    /\ pc[c] = "flush" => \A p \in Pages \ left[c] : file[p] = cache[c][p]
    /\ pc[c] \in {"undo", "playback"} => \A p \in Pages \ left[c] : file[p] = journal[p]

IInv == Types /\ \A c \in Connections : Holds(c) /\ Excludes(c) /\ Sees(c) /\ Written(c)
-----------------------------------------------------------------------------
(* Types *)

LEMMA CallTypes ==
    ASSUME IInv, NEW c \in Connections, Call(c)
    PROVE  Types'
  <1> USE DEF IInv, Types, Steps, At, Goto, SetLock, SetCache, Locks, Statements
  <1>1. CASE BeginTransaction(c)
    BY <1>1 DEF BeginTransaction
  <1>2. CASE CommitTransaction(c)
    BY <1>2 DEF CommitTransaction, Leave, SetLock, SetCache
  <1>3. CASE Rollback(c)
    BY <1>3 DEF Rollback, Discard, Leave, SetLock, SetCache
  <1>4. CASE BeginStatement(c)
    BY <1>4 DEF BeginStatement
  <1>5. CASE GetShared(c)
    BY <1>5 DEF GetShared, SetLock, SetCache
  <1>6. CASE SharedBusy(c)
    BY <1>6 DEF SharedBusy
  <1> QED
    BY <1>1, <1>2, <1>3, <1>4, <1>5, <1>6 DEF Call, Close

LEMMA StepTypes ==
    ASSUME IInv, NEW c \in Connections, Step(c)
    PROVE  Types'
  <1> USE DEF IInv, Types, Steps, At, Goto, SetLock, SetCache, Locks, Statements
  <1>1. CASE Read(c)
    BY <1>1 DEF Read, EndStatement, Leave, SetLock, SetCache
  <1>2. CASE Change(c)
    BY <1>2 DEF Change, SetLock, SetCache
  <1>3. CASE ChangeBusy(c)
    BY <1>3 DEF ChangeBusy, EndStatement, Leave, SetLock, SetCache
  <1>4. CASE ChangeFails(c)
    BY <1>4 DEF ChangeFails, Discard, Leave, SetLock, SetCache
  <1>5. CASE GetExclusive(c)
    BY <1>5 DEF GetExclusive, SetLock
  <1>6. CASE CommitBusy(c)
    BY <1>6 DEF CommitBusy, Discard, Leave, SetLock, SetCache
  <1>7. CASE EndCommit(c)
    BY <1>7 DEF EndCommit, Leave, SetLock, SetCache
  <1>8. CASE FlushFails(c)
    BY <1>8 DEF FlushFails, SetCache
  <1>9. CASE EndUndo(c)
    BY <1>9 DEF EndUndo, Leave, SetLock, SetCache
  <1>10. CASE ExcludeToRecover(c)
    BY <1>10 DEF ExcludeToRecover, SetLock, SetCache
  <1>11. CASE RecoverBusy(c)
    BY <1>11 DEF RecoverBusy, SetLock
  <1>12. CASE EndRecovery(c)
    BY <1>12 DEF EndRecovery, SetLock, SetCache
  <1>13. ASSUME NEW p \in Pages, Flush(c, p) PROVE Types'
    BY <1>13 DEF Flush, Holds, Image
  <1>14. ASSUME NEW p \in Pages, Restore(c, p) PROVE Types'
    BY <1>14 DEF Restore, Holds, Sees, Writer, Image
  <1> QED
    BY <1>1, <1>2, <1>3, <1>4, <1>5, <1>6, <1>7, <1>8, <1>9, <1>10, <1>11, <1>12, <1>13, <1>14 DEF Step

LEMMA HoldsStep ==
    ASSUME IInv, Types', NEW c \in Connections, Call(c) \/ Step(c) \/ Crash(c),
           NEW d \in Connections
    PROVE  Holds(d)'
  <1> USE NoneAssumption DEF IInv, Types, Steps, At, Goto, SetLock, SetCache, Locks, Statements, Writer, Holds
  <1>1. CASE BeginTransaction(c)
    BY <1>1 DEF BeginTransaction
  <1>2. CASE CommitTransaction(c)
    BY <1>2 DEF CommitTransaction, Leave
  <1>3. CASE Rollback(c)
    BY <1>3 DEF Rollback, Discard, Leave
  <1>4. CASE BeginStatement(c)
    BY <1>4 DEF BeginStatement
  <1>5. CASE GetShared(c)
    BY <1>5 DEF GetShared
  <1>6. CASE SharedBusy(c)
    BY <1>6 DEF SharedBusy
  <1>7. CASE Read(c)
    BY <1>7 DEF Read, EndStatement, Leave
  <1>8. CASE Change(c)
    BY <1>8 DEF Change
  <1>9. CASE ChangeBusy(c)
    BY <1>9 DEF ChangeBusy, EndStatement, Leave
  <1>10. CASE ChangeFails(c)
    BY <1>10 DEF ChangeFails, Discard, Leave
  <1>11. CASE GetExclusive(c)
    BY <1>11 DEF GetExclusive
  <1>12. CASE CommitBusy(c)
    BY <1>12 DEF CommitBusy, Discard, Leave
  <1>13. CASE EndCommit(c)
    BY <1>13 DEF EndCommit, Leave
  <1>14. CASE FlushFails(c)
    BY <1>14 DEF FlushFails
  <1>15. CASE EndUndo(c)
    BY <1>15 DEF EndUndo, Leave
  <1>16. CASE ExcludeToRecover(c)
    BY <1>16 DEF ExcludeToRecover
  <1>17. CASE RecoverBusy(c)
    BY <1>17 DEF RecoverBusy
  <1>18. CASE EndRecovery(c)
    BY <1>18 DEF EndRecovery
  <1>19. CASE Crash(c)
    BY <1>19 DEF Crash, Leave
  <1>20. ASSUME NEW p \in Pages, Flush(c, p) PROVE Holds(d)'
    BY <1>20 DEF Flush
  <1>21. ASSUME NEW p \in Pages, Restore(c, p) PROVE Holds(d)'
    BY <1>21 DEF Restore
  <1> QED
    BY <1>1, <1>2, <1>3, <1>4, <1>5, <1>6, <1>7, <1>8, <1>9, <1>10, <1>11, <1>12, <1>13, <1>14, <1>15, <1>16, <1>17, <1>18, <1>19, <1>20, <1>21 DEF Call, Step, Close

LEMMA ExcludesStep ==
    ASSUME IInv, Types', NEW c \in Connections, Call(c) \/ Step(c) \/ Crash(c),
           NEW d \in Connections
    PROVE  Excludes(d)'
  <1> USE DEF IInv, Types, Steps, At, Goto, SetLock, SetCache, Locks, Statements, Writer, Holds, Excludes, Others
  <1>1. CASE BeginTransaction(c)
    BY <1>1 DEF BeginTransaction
  <1>2. CASE CommitTransaction(c)
    BY <1>2 DEF CommitTransaction, Leave
  <1>3. CASE Rollback(c)
    BY <1>3 DEF Rollback, Discard, Leave
  <1>4. CASE BeginStatement(c)
    BY <1>4 DEF BeginStatement
  <1>5. CASE GetShared(c)
    BY <1>5 DEF GetShared, CanShare
  <1>6. CASE SharedBusy(c)
    BY <1>6 DEF SharedBusy
  <1>7. CASE Read(c)
    BY <1>7 DEF Read, EndStatement, Leave
  <1>8. CASE Change(c)
    BY <1>8 DEF Change, CanReserve
  <1>9. CASE ChangeBusy(c)
    BY <1>9 DEF ChangeBusy, EndStatement, Leave
  <1>10. CASE ChangeFails(c)
    BY <1>10 DEF ChangeFails, Discard, Leave
  <1>11. CASE GetExclusive(c)
    BY <1>11 DEF GetExclusive, CanExclude
  <1>12. CASE CommitBusy(c)
    BY <1>12 DEF CommitBusy, Discard, Leave
  <1>13. CASE EndCommit(c)
    BY <1>13 DEF EndCommit, Leave
  <1>14. CASE FlushFails(c)
    BY <1>14 DEF FlushFails
  <1>15. CASE EndUndo(c)
    BY <1>15 DEF EndUndo, Leave
  <1>16. CASE ExcludeToRecover(c)
    BY <1>16 DEF ExcludeToRecover, CanExclude
  <1>17. CASE RecoverBusy(c)
    BY <1>17 DEF RecoverBusy
  <1>18. CASE EndRecovery(c)
    BY <1>18 DEF EndRecovery
  <1>19. CASE Crash(c)
    BY <1>19 DEF Crash, Leave
  <1>20. ASSUME NEW p \in Pages, Flush(c, p) PROVE Excludes(d)'
    BY <1>20 DEF Flush
  <1>21. ASSUME NEW p \in Pages, Restore(c, p) PROVE Excludes(d)'
    BY <1>21 DEF Restore
  <1> QED
    BY <1>1, <1>2, <1>3, <1>4, <1>5, <1>6, <1>7, <1>8, <1>9, <1>10, <1>11, <1>12, <1>13, <1>14, <1>15, <1>16, <1>17, <1>18, <1>19, <1>20, <1>21 DEF Call, Step, Close

LEMMA SeesStep ==
    ASSUME IInv, Types', NEW c \in Connections, Call(c) \/ Step(c) \/ Crash(c),
           NEW d \in Connections
    PROVE  Sees(d)'
  <1> USE NoneAssumption DEF IInv, Types, Steps, At, Goto, SetLock, SetCache, Locks, Statements, Writer, Holds, Excludes, Sees, Content, Others
  <1>1. CASE BeginTransaction(c)
    BY <1>1 DEF BeginTransaction
  <1>2. CASE CommitTransaction(c)
    BY <1>2 DEF CommitTransaction, Leave
  <1>3. CASE Rollback(c)
    BY <1>3 DEF Rollback, Discard, Leave
  <1>4. CASE BeginStatement(c)
    BY <1>4 DEF BeginStatement
  <1>5. CASE GetShared(c)
    BY <1>5 DEF GetShared, CanShare, Hot
  <1>6. CASE SharedBusy(c)
    BY <1>6 DEF SharedBusy
  <1>7. CASE Read(c)
    BY <1>7 DEF Read, EndStatement, Leave
  <1>8. CASE Change(c)
    BY <1>8 DEF Change, CanReserve
  <1>9. CASE ChangeBusy(c)
    BY <1>9 DEF ChangeBusy, EndStatement, Leave
  <1>10. CASE ChangeFails(c)
    BY <1>10 DEF ChangeFails, Discard, Leave
  <1>11. CASE GetExclusive(c)
    BY <1>11 DEF GetExclusive, CanExclude
  <1>12. CASE CommitBusy(c)
    BY <1>12 DEF CommitBusy, Discard, Leave
  <1>13. CASE EndCommit(c)
    BY <1>13 DEF EndCommit, Leave
  <1>14. CASE FlushFails(c)
    BY <1>14 DEF FlushFails
  <1>15. CASE EndUndo(c)
    BY <1>15 DEF EndUndo, Leave
  <1>16. CASE ExcludeToRecover(c)
    BY <1>16 DEF ExcludeToRecover, CanExclude
  <1>17. CASE RecoverBusy(c)
    BY <1>17 DEF RecoverBusy
  <1>18. CASE EndRecovery(c)
    BY <1>18 DEF EndRecovery
  <1>19. CASE Crash(c)
    BY <1>19 DEF Crash, Leave
  <1>20. ASSUME NEW p \in Pages, Flush(c, p) PROVE Sees(d)'
    BY <1>20 DEF Flush
  <1>21. ASSUME NEW p \in Pages, Restore(c, p) PROVE Sees(d)'
    BY <1>21 DEF Restore
  <1> QED
    BY <1>1, <1>2, <1>3, <1>4, <1>5, <1>6, <1>7, <1>8, <1>9, <1>10, <1>11, <1>12, <1>13, <1>14, <1>15, <1>16, <1>17, <1>18, <1>19, <1>20, <1>21 DEF Call, Step, Close

LEMMA WrittenStep ==
    ASSUME IInv, Types', NEW c \in Connections, Call(c) \/ Step(c) \/ Crash(c),
           NEW d \in Connections
    PROVE  Written(d)'
  <1> USE NoneAssumption DEF IInv, Types, Steps, At, Goto, SetLock, SetCache, Locks, Statements, Writer, Holds, Excludes, Written, Others
  <1>1. CASE BeginTransaction(c)
    BY <1>1 DEF BeginTransaction
  <1>2. CASE CommitTransaction(c)
    BY <1>2 DEF CommitTransaction, Leave
  <1>3. CASE Rollback(c)
    BY <1>3 DEF Rollback, Discard, Leave
  <1>4. CASE BeginStatement(c)
    BY <1>4 DEF BeginStatement
  <1>5. CASE GetShared(c)
    BY <1>5 DEF GetShared
  <1>6. CASE SharedBusy(c)
    BY <1>6 DEF SharedBusy
  <1>7. CASE Read(c)
    BY <1>7 DEF Read, EndStatement, Leave
  <1>8. CASE Change(c)
    BY <1>8 DEF Change
  <1>9. CASE ChangeBusy(c)
    BY <1>9 DEF ChangeBusy, EndStatement, Leave
  <1>10. CASE ChangeFails(c)
    BY <1>10 DEF ChangeFails, Discard, Leave
  <1>11. CASE GetExclusive(c)
    BY <1>11 DEF GetExclusive, Image
  <1>12. CASE CommitBusy(c)
    BY <1>12 DEF CommitBusy, Discard, Leave
  <1>13. CASE EndCommit(c)
    BY <1>13 DEF EndCommit, Leave
  <1>14. CASE FlushFails(c)
    BY <1>14 DEF FlushFails
  <1>15. CASE EndUndo(c)
    BY <1>15 DEF EndUndo, Leave
  <1>16. CASE ExcludeToRecover(c)
    BY <1>16 DEF ExcludeToRecover
  <1>17. CASE RecoverBusy(c)
    BY <1>17 DEF RecoverBusy
  <1>18. CASE EndRecovery(c)
    BY <1>18 DEF EndRecovery
  <1>19. CASE Crash(c)
    BY <1>19 DEF Crash, Leave
  <1>20. ASSUME NEW p \in Pages, Flush(c, p) PROVE Written(d)'
    BY <1>20 DEF Flush, Image
  <1>21. ASSUME NEW p \in Pages, Restore(c, p) PROVE Written(d)'
    BY <1>21 DEF Restore, Image
  <1> QED
    BY <1>1, <1>2, <1>3, <1>4, <1>5, <1>6, <1>7, <1>8, <1>9, <1>10, <1>11, <1>12, <1>13, <1>14, <1>15, <1>16, <1>17, <1>18, <1>19, <1>20, <1>21 DEF Call, Step, Close

LEMMA Inductive == IInv /\ [Next]_vars => IInv'
  <1> SUFFICES ASSUME IInv, [Next]_vars PROVE IInv'
    OBVIOUS
  <1>1. ASSUME NEW c \in Connections, Call(c) \/ Step(c) \/ Crash(c) PROVE IInv'
    <2>1. Types'
      <3>1. ASSUME Crash(c) PROVE Types'
        BY <3>1 DEF IInv, Types, Steps, Crash, Leave, SetLock, SetCache, Goto, Locks
      <3> QED
        BY <1>1, <3>1, CallTypes, StepTypes
    <2> QED
      BY <1>1, <2>1, HoldsStep, ExcludesStep, SeesStep, WrittenStep DEF IInv
  <1>2. CASE UNCHANGED vars
    BY <1>2 DEF vars, IInv, Types, Holds, Excludes, Sees, Written, Content
  <1> QED
    BY <1>1, <1>2 DEF Next

LEMMA Invariance == Spec => []IInv
  <1>1. Init => IInv
    BY NoneAssumption
       DEF Init, IInv, Types, Steps, Locks, Writer, Holds, Excludes, Sees, Written, Content
  <1> QED
    BY <1>1, Inductive, PTL DEF Spec

-----------------------------------------------------------------------------
(* Theorems *)

\* Whatever calls, errors and crashes of whatever connections: every variable
\* of Transactions keeps its type, and a cache is used under a lock only.
THEOREM TypeCorrect == Spec => []TypeOK
  <1>1. IInv => TypeOK
    BY DEF IInv, Types, Steps, Holds, TypeOK
  <1> QED
    BY <1>1, Invariance, PTL

\* Nobody who has changed nothing sees anything but the committed content, for
\* any number of connections: neither changes that are not committed nor, after
\* a commit, what it read before.
THEOREM CommittedReads == Spec => []ReadsAreCommitted
  <1>1. IInv => ReadsAreCommitted
    BY DEF IInv, Sees, ReadsAreCommitted, Database!ReadsAreCommitted, Inside
  <1> QED
    BY <1>1, Invariance, PTL

\* Between begin_transaction and the call that ends it, without a failed
\* statement, the connection is not in autocommit mode and not committing.
BegunInv ==
    \A c \in Connections : begun[c] => ~auto[c] /\ pc[c] \notin {"commit", "flush", "undo"}

LEMMA BegunStep == Types /\ BegunInv /\ [Next]_vars => BegunInv'
  <1> SUFFICES ASSUME Types, BegunInv, [Next]_vars PROVE BegunInv'
    OBVIOUS
  <1> USE DEF Types, BegunInv, At, Goto, Leave, Statements
  <1>1. ASSUME NEW c \in Connections, Call(c) PROVE BegunInv'
    BY <1>1 DEF Call, BeginTransaction, CommitTransaction, Rollback, Close, Discard,
                BeginStatement, GetShared, SharedBusy
  <1>2. ASSUME NEW c \in Connections, Step(c) PROVE BegunInv'
    <2>1. CASE Read(c) \/ ChangeBusy(c)
      BY <2>1 DEF Read, ChangeBusy, EndStatement
    <2>2. CASE Change(c) \/ ChangeFails(c) \/ FlushFails(c)
      BY <2>2 DEF Change, ChangeFails, FlushFails, Discard
    <2>3. CASE GetExclusive(c) \/ CommitBusy(c) \/ EndCommit(c) \/ EndUndo(c)
      BY <2>3 DEF GetExclusive, CommitBusy, EndCommit, EndUndo, Discard
    <2>4. CASE ExcludeToRecover(c) \/ RecoverBusy(c) \/ EndRecovery(c)
      BY <2>4 DEF ExcludeToRecover, RecoverBusy, EndRecovery
    <2>5. CASE \E p \in Pages : Flush(c, p) \/ Restore(c, p)
      BY <2>5 DEF Flush, Restore
    <2> QED
      BY <1>2, <2>1, <2>2, <2>3, <2>4, <2>5 DEF Step
  <1>3. ASSUME NEW c \in Connections, Crash(c) PROVE BegunInv'
    BY <1>3 DEF Crash
  <1>4. CASE UNCHANGED vars
    BY <1>4 DEF vars
  <1> QED
    BY <1>1, <1>2, <1>3, <1>4 DEF Next

\* What was changed since begin_transaction reaches the database by a
\* commit_transaction only: no close, rollback, later begin_transaction or
\* statement of any connection publishes it.
THEOREM OnlyCommitPublishes == Spec => PublishedOnlyByCommit
  <1>1. Init => BegunInv
    BY DEF Init, BegunInv
  <1>2. BegunInv => \A c \in Connections : EndCommit(c) => ~begun[c]
    BY DEF BegunInv, EndCommit, At
  <1>3. IInv => Types
    BY DEF IInv
  <1>4. BegunInv /\ [Next]_vars => [\A c \in Connections : EndCommit(c) => ~begun[c]]_vars
    BY <1>2
  <1> QED
    BY <1>1, <1>3, <1>4, Invariance, BegunStep, PTL DEF Spec, PublishedOnlyByCommit

-----------------------------------------------------------------------------
(* Refinement: a connection enters, changes, commits or leaves *)

Abstract == Database!Next \/ UNCHANGED Database!vars

\* A connection that has not begun to flush drops what it has.
LEMMA Leaving ==
    ASSUME IInv, Types', NEW c \in Connections, cache' = [cache EXCEPT ![c] = None],
           \A d \in Others(c) : lock'[d] = lock[d],
           Content' = Content
    PROVE  Abstract
  <1> DEFINE writers == {d \in Inside : lock[d] \in Writer}
  <1>1. Inside' = Inside \ {c}
    BY DEF IInv, Types, Inside
  <1>2. writers' = writers \ {c}
    BY <1>1 DEF Inside, Others
  <1>3. CASE c \in Inside
    BY <1>1, <1>2, <1>3 DEF Abstract, Database!Next, Database!End
  <1>4. CASE c \notin Inside
    <2>1. cache' = cache
      BY <1>4 DEF IInv, Types, Inside
    <2> QED
      BY <1>1, <1>2, <1>4, <2>1 DEF Abstract, Database!vars
  <1> QED
    BY <1>3, <1>4

\* A connection that was outside reads the file under a shared lock.
LEMMA Entering ==
    ASSUME IInv, Types', NEW c \in Connections, cache[c] = None, lock'[c] = "shared",
           \A d \in Others(c) : lock'[d] = lock[d],
           cache' = [cache EXCEPT ![c] = file], Content = file, Content' = file
    PROVE  Abstract
  <1> DEFINE writers == {d \in Inside : lock[d] \in Writer}
  <1>1. c \notin Inside /\ Inside' = Inside \cup {c}
    BY NoneAssumption DEF IInv, Types, Inside
  <1>2. writers' = writers
    BY <1>1 DEF Inside, Others, Writer
  <1> QED
    BY <1>1, <1>2 DEF Abstract, Database!Next, Database!Start

\* A step that changes neither content nor caches nor who is a writer.
LEMMA Inner ==
    ASSUME cache' = cache, Content' = Content,
           \A d \in Connections : cache[d] # None => (lock'[d] \in Writer <=> lock[d] \in Writer)
    PROVE  Abstract
  BY DEF Abstract, Database!vars, Inside

\* Giving up changes that have not reached the file does not change the content.
LEMMA Discarding ==
    ASSUME IInv, Types', NEW c \in Connections, Discard(c),
           pc[c] \in {"rest", "change", "commit"}
    PROVE  Abstract
  <1>1. Content' = Content
    BY DEF IInv, Discard, Leave, Content, Sees, Holds, Writer, Types
  <1>2. \A d \in Others(c) : lock'[d] = lock[d]
    BY DEF Discard, Leave, SetLock, IInv, Types, Others
  <1> QED
    BY <1>1, <1>2, Leaving DEF Discard, Leave, SetCache

LEMMA Unlocked ==
    ASSUME IInv, NEW c \in Connections, lock[c] = "none"
    PROVE  cache[c] = None
  BY DEF IInv, Types, Steps, Holds

LEMMA HolderInside ==
    ASSUME IInv, NEW c \in Connections, lock[c] = "reserved"
    PROVE  cache[c] # None /\ pc[c] # "flush"
  BY DEF IInv, Types, Steps, Holds

LEMMA CallIsAbstract ==
    ASSUME IInv, IInv', NEW c \in Connections, Call(c)
    PROVE  Abstract
  <1> USE DEF IInv, Types, At, Goto, SetLock, SetCache
  <1>1. CASE BeginTransaction(c) \/ BeginStatement(c) \/ SharedBusy(c)
    BY <1>1, Inner DEF BeginTransaction, BeginStatement, SharedBusy, Content
  <1>2. CASE CommitTransaction(c)
    <2>1. CASE lock[c] \in Writer
      BY <1>2, <2>1, Inner DEF CommitTransaction, Content
    <2>2. CASE lock[c] \notin Writer
      BY <1>2, <2>2, Leaving DEF CommitTransaction, Leave, Content, Others
    <2> QED
      BY <2>1, <2>2
  <1>3. CASE Rollback(c) \/ Close(c)
    BY <1>3, Discarding DEF Rollback, Close
  <1>4. CASE GetShared(c)
    <2>1. CASE Hot
      BY <1>4, <2>1, Inner DEF GetShared, Content, Holds
    <2>2. CASE ~Hot
      <3>1. Content = file
        <4>1. CASE journal = None
          BY <4>1 DEF Content
        <4>2. CASE journal # None
          <5>1. PICK d \in Others(c) : lock[d] = "reserved"
            BY <1>4, <2>2, <4>2 DEF GetShared, CanShare, Hot, Others, Writer
          <5>2. cache[d] # None /\ pc[d] # "flush"
            BY <5>1, HolderInside DEF Others
          <5> QED
            BY <5>2 DEF Sees, Others
        <4> QED
          BY <4>1, <4>2
      <3>2. /\ cache[c] = None /\ lock'[c] = "shared"
            /\ \A d \in Others(c) : lock'[d] = lock[d]
            /\ cache' = [cache EXCEPT ![c] = file] /\ Content' = Content
        BY <1>4, <2>2 DEF GetShared, Holds, Others, Content
      <3> QED
        BY <3>1, <3>2, Entering
    <2> QED
      BY <2>1, <2>2
  <1> QED
    BY <1>1, <1>2, <1>3, <1>4 DEF Call

LEMMA StatementIsAbstract ==
    ASSUME IInv, IInv', NEW c \in Connections,
           Read(c) \/ Change(c) \/ ChangeBusy(c) \/ ChangeFails(c)
    PROVE  Abstract
  <1> USE DEF IInv, Types, At, Goto, SetLock, SetCache
  <1>1. CASE Read(c) \/ ChangeBusy(c)
    <2>1. CASE auto[c]
      <3>1. Content' = Content
        BY <1>1 DEF Read, ChangeBusy, Content
      <3> QED
        BY <1>1, <2>1, <3>1, Leaving DEF Read, ChangeBusy, EndStatement, Leave, Others
    <2>2. CASE ~auto[c]
      BY <1>1, <2>2, Inner DEF Read, ChangeBusy, EndStatement, Content
    <2> QED
      BY <2>1, <2>2
  <1>2. CASE Change(c)
    <2> DEFINE writers == {d \in Inside : lock[d] \in Writer}
    <2>1. PICK image \in Image : cache' = [cache EXCEPT ![c] = image]
      BY <1>2 DEF Change
    <2>2. Content' = Content
      BY <1>2 DEF Change, Holds, Sees, Content
    <2>3. c \in Inside /\ writers \subseteq {c}
      BY <1>2 DEF Change, Holds, Inside, CanReserve, Others
    <2>4. Inside' = Inside
      BY <2>1, <2>3, NoneAssumption DEF Inside
    <2>5. writers' = {c}
      BY <1>2, <2>3, <2>4 DEF Change, Holds, Inside, CanReserve, Others, Writer
    <2> QED
      BY <2>1, <2>2, <2>3, <2>4, <2>5 DEF Abstract, Database!Next, Database!Change
  <1>3. CASE ChangeFails(c)
    BY <1>3, Discarding DEF ChangeFails
  <1> QED
    BY <1>1, <1>2, <1>3

LEMMA CommitIsAbstract ==
    ASSUME IInv, IInv', NEW c \in Connections,
           \/ GetExclusive(c) \/ CommitBusy(c) \/ EndCommit(c) \/ FlushFails(c)
           \/ \E p \in Pages : Flush(c, p)
    PROVE  Abstract
  <1> USE DEF IInv, Types, At, Goto, SetLock, SetCache
  <1>1. CASE GetExclusive(c)
    BY <1>1, Inner DEF GetExclusive, Content, Holds, Writer
  <1>2. CASE CommitBusy(c)
    <2>1. CASE auto[c]
      BY <1>2, <2>1, Discarding DEF CommitBusy
    <2>2. CASE ~auto[c]
      BY <1>2, <2>2, Inner DEF CommitBusy, Content, Holds, Writer
    <2> QED
      BY <2>1, <2>2
  <1>3. ASSUME NEW p \in Pages, Flush(c, p) PROVE Abstract
    BY <1>3, Inner DEF Flush, Content, Holds, Sees, Writer
  <1>4. CASE EndCommit(c)
    <2> DEFINE writers == {d \in Inside : lock[d] \in Writer}
    <2>1. Inside = {c} /\ writers = {c}
      <3>1. lock[c] = "exclusive" /\ cache[c] # None
        BY <1>4 DEF EndCommit, Holds
      <3>2. \A d \in Others(c) : cache[d] = None
        BY <3>1, Unlocked DEF Excludes, Others
      <3> QED
        BY <3>1, <3>2 DEF Inside, Others, Writer
    <2>2. file = cache[c]
      BY <1>4 DEF EndCommit, Holds, Written, Image
    <2>3. Content' = cache[c]
      BY <1>4, <2>2 DEF EndCommit, Content
    <2>4. cache' = [cache EXCEPT ![c] = None]
      BY <1>4 DEF EndCommit, Leave
    <2>5. Inside' = {} /\ writers' = {}
      BY <2>1, <2>4 DEF Inside
    <2> QED
      BY <2>1, <2>3, <2>4, <2>5 DEF Abstract, Database!Next, Database!Commit
  <1>5. CASE FlushFails(c)
    BY <1>5, Leaving DEF FlushFails, Content
  <1> QED
    BY <1>1, <1>2, <1>3, <1>4, <1>5

LEMMA RecoveryIsAbstract ==
    ASSUME IInv, IInv', NEW c \in Connections,
           \/ ExcludeToRecover(c) \/ RecoverBusy(c) \/ EndUndo(c) \/ EndRecovery(c)
           \/ \E p \in Pages : Restore(c, p)
           \/ Crash(c)
    PROVE  Abstract
  <1> USE DEF IInv, Types, At, Goto, SetLock, SetCache
  <1>1. CASE ExcludeToRecover(c)
    <2>1. CASE journal = None
      <3>1. Content = file /\ Content' = file
        BY <1>1, <2>1 DEF ExcludeToRecover, Content
      <3> QED
        BY <1>1, <2>1, <3>1, Entering DEF ExcludeToRecover, Holds, Others
    <2>2. CASE journal # None
      BY <1>1, <2>2, Inner DEF ExcludeToRecover, Content, Holds
    <2> QED
      BY <2>1, <2>2
  <1>2. CASE RecoverBusy(c)
    BY <1>2, Inner DEF RecoverBusy, Content, Holds
  <1>3. ASSUME NEW p \in Pages, Restore(c, p) PROVE Abstract
    BY <1>3, Inner DEF Restore, Content, Holds, Sees, Writer
  <1>4. ASSUME EndUndo(c) \/ EndRecovery(c)
        PROVE  /\ Content = file /\ Content' = file
               /\ \A d \in Others(c) : lock'[d] = lock[d]
    <2>1. journal \in Image /\ file = journal
      BY <1>4 DEF EndUndo, EndRecovery, Holds, Sees, Written, Writer, Image
    <2> QED
      BY <1>4, <2>1 DEF EndUndo, EndRecovery, Leave, Content, Others
  <1>5. CASE EndUndo(c)
    BY <1>4, <1>5, Leaving DEF EndUndo, Leave
  <1>6. CASE EndRecovery(c)
    BY <1>4, <1>6, Entering DEF EndRecovery, Holds
  <1>7. CASE Crash(c)
    BY <1>7, Leaving DEF Crash, Leave, Content, Others
  <1> QED
    BY <1>1, <1>2, <1>3, <1>5, <1>6, <1>7

\* Transactions implements AtomicFile for any connections, pages and contents:
\* however calls, busy locks, failed writes, crashes in the middle of a commit
\* and recoveries interleave, the database changes by whole transactions only.
THEOREM Atomicity == Spec => ChangesAreAtomic
  <1>1. Init => Database!Init
    BY NoneAssumption DEF Init, Database!Init, Inside, Content
  <1>2. IInv /\ IInv' /\ [Next]_vars => [Database!Next]_(Database!vars)
    <2> SUFFICES ASSUME IInv, IInv', [Next]_vars PROVE Abstract
      BY DEF Abstract
    <2>1. ASSUME NEW c \in Connections, Call(c) \/ Step(c) \/ Crash(c) PROVE Abstract
      BY <2>1, CallIsAbstract, StatementIsAbstract, CommitIsAbstract, RecoveryIsAbstract
         DEF Step
    <2>2. CASE UNCHANGED vars
      BY <2>2 DEF vars, Abstract, Database!vars, Inside, Content
    <2> QED
      BY <2>1, <2>2 DEF Next
  <1> QED
    BY <1>1, <1>2, Invariance, PTL DEF Spec, ChangesAreAtomic, Database!Spec
=============================================================================
