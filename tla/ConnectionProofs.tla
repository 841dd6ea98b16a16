--------------------------- MODULE ConnectionProofs ---------------------------
(***************************************************************************)
(* Theorems about Connection for any number of objects and addresses and   *)
(* any sequence of calls.                                                  *)
(***************************************************************************)
EXTENDS Connection, TLAPS

-----------------------------------------------------------------------------
(* Type correctness *)

LEMMA TypeStep == TypeOK /\ [Next]_vars => TypeOK'
  <1> SUFFICES ASSUME TypeOK, [Next]_vars PROVE TypeOK'
    OBVIOUS
  <1> USE PointersAssumption DEF TypeOK, Running, Open, Closable, IsOpen
  <1>1. ASSUME NEW o \in Objects, ConstructDefault(o) PROVE TypeOK'
    BY <1>1 DEF ConstructDefault
  <1>2. ASSUME NEW o \in Objects, ConnectNoMemory(o) PROVE TypeOK'
    BY <1>2 DEF ConnectNoMemory, Overwrite
  <1>3. ASSUME NEW o \in Objects, Close(o) PROVE TypeOK'
    BY <1>3 DEF Close, Relies, Free, Crash
  <1>4. ASSUME NEW o \in Objects, Destroy(o) PROVE TypeOK'
    BY <1>4 DEF Destroy, Relies, Free, Crash
  <1>5. ASSUME NEW o \in Objects, Use(o) PROVE TypeOK'
    BY <1>5 DEF Use, Relies, Crash
  <1>6. ASSUME NEW o \in Objects, NEW h \in Handles, Construct(o, h) PROVE TypeOK'
    BY <1>6 DEF Construct
  <1>7. ASSUME NEW o \in Objects, NEW h \in Handles, ConstructFails(o, h) PROVE TypeOK'
    BY <1>7 DEF ConstructFails
  <1>8. ASSUME NEW o \in Objects, NEW h \in Handles, Connect(o, h) PROVE TypeOK'
    BY <1>8 DEF Connect, Overwrite
  <1>9. ASSUME NEW o \in Objects, NEW h \in Handles, ConnectFails(o, h) PROVE TypeOK'
    BY <1>9 DEF ConnectFails, Overwrite
  <1>10. CASE UNCHANGED vars
    BY <1>10 DEF vars
  <1> QED
    BY <1>1, <1>2, <1>3, <1>4, <1>5, <1>6, <1>7, <1>8, <1>9, <1>10 DEF Next

\* Every variable of Connection keeps its type, and a connection that is freed
\* is out of its transaction.
THEOREM TypeCorrect == Spec => []TypeOK
  <1>1. Init => TypeOK
    BY DEF Init, TypeOK
  <1> QED
    BY <1>1, TypeStep, PTL DEF Spec

-----------------------------------------------------------------------------
(* Leaks *)

LEMMA AccountedStep ==
    TypeOK /\ HandlesAccounted /\ [Next]_vars => HandlesAccounted'
  <1> SUFFICES ASSUME TypeOK, HandlesAccounted, [Next]_vars PROVE HandlesAccounted'
    OBVIOUS
  <1> USE PointersAssumption
          DEF TypeOK, HandlesAccounted, Running, Open, Closable, IsOpen, HeldByOther
  <1>1. ASSUME NEW o \in Objects, ConstructDefault(o) PROVE HandlesAccounted'
    BY <1>1 DEF ConstructDefault
  <1>2. ASSUME NEW o \in Objects, ConnectNoMemory(o) PROVE HandlesAccounted'
    BY <1>2 DEF ConnectNoMemory, Overwrite
  <1>3. ASSUME NEW o \in Objects, Close(o) PROVE HandlesAccounted'
    BY <1>3 DEF Close, Relies, Free, Crash
  <1>4. ASSUME NEW o \in Objects, Destroy(o) PROVE HandlesAccounted'
    BY <1>4 DEF Destroy, Relies, Free, Crash
  <1>5. ASSUME NEW o \in Objects, Use(o) PROVE HandlesAccounted'
    BY <1>5 DEF Use, Relies, Crash
  <1>6. ASSUME NEW o \in Objects, NEW h \in Handles, Construct(o, h) PROVE HandlesAccounted'
    BY <1>6 DEF Construct
  <1>7. ASSUME NEW o \in Objects, NEW h \in Handles, ConstructFails(o, h) PROVE HandlesAccounted'
    BY <1>7 DEF ConstructFails
  <1>8. ASSUME NEW o \in Objects, NEW h \in Handles, Connect(o, h) PROVE HandlesAccounted'
    BY <1>8 DEF Connect, Overwrite
  <1>9. ASSUME NEW o \in Objects, NEW h \in Handles, ConnectFails(o, h) PROVE HandlesAccounted'
    BY <1>9 DEF ConnectFails, Overwrite
  <1>10. CASE UNCHANGED vars
    BY <1>10 DEF vars
  <1> QED
    BY <1>1, <1>2, <1>3, <1>4, <1>5, <1>6, <1>7, <1>8, <1>9, <1>10 DEF Next

\* Whatever is called, in whatever order: a connection that is not freed is
\* held by an object, or was lost by a constructor that failed or by a connect
\* over it.
THEOREM ConnectionsAccounted == Spec => []HandlesAccounted
  <1>1. Init => HandlesAccounted
    BY DEF Init, HandlesAccounted
  <1> QED
    BY <1>1, TypeCorrect, AccountedStep, PTL DEF Spec

-----------------------------------------------------------------------------
(* Ownership *)

\* Neither part is kept without the other: a connection that is another's could
\* be closed under its owner, and the owner's destructor would then throw.
OwnInv == OwnConnection /\ DiesOnlyByMisuse

LEMMA OwnStep == TypeOK /\ OwnInv /\ [Next]_vars => OwnInv'
  <1> SUFFICES ASSUME TypeOK, OwnInv, [Next]_vars PROVE OwnInv'
    OBVIOUS
  <1> USE PointersAssumption
          DEF TypeOK, OwnInv, OwnConnection, DiesOnlyByMisuse, Running, Open, Closable, IsOpen
  <1>1. ASSUME NEW o \in Objects, ConstructDefault(o) PROVE OwnInv'
    BY <1>1 DEF ConstructDefault
  <1>2. ASSUME NEW o \in Objects, ConnectNoMemory(o) PROVE OwnInv'
    BY <1>2 DEF ConnectNoMemory, Overwrite
  <1>3. ASSUME NEW o \in Objects, Close(o) PROVE OwnInv'
    <2>1. CASE misused'
      BY <2>1
    <2>2. CASE ~misused'
      <3>1. ~misused /\ o \in live \ loose
        BY <1>3, <2>2 DEF Close, Relies
      <3>2. CASE pdb[o] = Null
        BY <1>3, <2>2, <3>1, <3>2 DEF Close, Crash
      <3>3. CASE pdb[o] # Null
        <4>1. Closable(pdb[o]) /\ \A u \in live \ (loose \cup {o}) : pdb[u] # pdb[o]
          BY <3>1, <3>3
        <4>2. heap' = [heap EXCEPT ![pdb[o]] = "free"] /\ UNCHANGED <<pdb, state>>
          BY <1>3, <3>3, <4>1 DEF Close, Free, Crash
        <4>3. live' = live /\ loose' = loose \cup {o}
          BY <1>3, <3>3, <4>1 DEF Close, Crash
        <4> QED
          BY <2>2, <3>1, <4>1, <4>2, <4>3
      <3> QED
        BY <3>2, <3>3
    <2> QED
      BY <2>1, <2>2
  <1>4. ASSUME NEW o \in Objects, Destroy(o) PROVE OwnInv'
    <2>1. CASE misused'
      BY <2>1
    <2>2. CASE ~misused'
      <3>1. ~misused /\ o \in live \ loose
        BY <1>4, <2>2 DEF Destroy, Relies
      <3>2. CASE pdb[o] = Null
        BY <1>4, <2>2, <3>1, <3>2 DEF Destroy, Crash
      <3>3. CASE pdb[o] # Null
        <4>1. Closable(pdb[o]) /\ \A u \in live \ (loose \cup {o}) : pdb[u] # pdb[o]
          BY <3>1, <3>3
        <4>2. heap' = [heap EXCEPT ![pdb[o]] = "free"] /\ UNCHANGED <<pdb, state>>
          BY <1>4, <3>3, <4>1 DEF Destroy, Free, Crash
        <4>3. live' = live \ {o} /\ loose' = loose \ {o}
          BY <1>4, <3>3, <4>1 DEF Destroy, Crash
        <4> QED
          BY <2>2, <3>1, <4>1, <4>2, <4>3
      <3> QED
        BY <3>2, <3>3
    <2> QED
      BY <2>1, <2>2
  <1>5. ASSUME NEW o \in Objects, Use(o) PROVE OwnInv'
    BY <1>5 DEF Use, Relies, Crash
  <1>6. ASSUME NEW o \in Objects, NEW h \in Handles, Construct(o, h) PROVE OwnInv'
    BY <1>6 DEF Construct
  <1>7. ASSUME NEW o \in Objects, NEW h \in Handles, ConstructFails(o, h) PROVE OwnInv'
    BY <1>7 DEF ConstructFails
  <1>8. ASSUME NEW o \in Objects, NEW h \in Handles, Connect(o, h) PROVE OwnInv'
    BY <1>8 DEF Connect, Overwrite
  <1>9. ASSUME NEW o \in Objects, NEW h \in Handles, ConnectFails(o, h) PROVE OwnInv'
    BY <1>9 DEF ConnectFails, Overwrite
  <1>10. CASE UNCHANGED vars
    BY <1>10 DEF vars
  <1> QED
    BY <1>1, <1>2, <1>3, <1>4, <1>5, <1>6, <1>7, <1>8, <1>9, <1>10 DEF Next

LEMMA OwnInvariant == Spec => []OwnInv
  <1>1. Init => OwnInv
    BY DEF Init, OwnInv, OwnConnection, DiesOnlyByMisuse
  <1> QED
    BY <1>1, TypeCorrect, OwnStep, PTL DEF Spec

\* As long as no object is used before its connect or after its close, each has
\* a connection that is allocated and no other's, or none.
THEOREM ConnectionsOwned == Spec => []OwnConnection
  BY OwnInvariant, PTL DEF OwnInv

\* A program that does not misuse its objects is never ended by their
\* destructors.
THEOREM DestructorsDoNotThrow == Spec => []DiesOnlyByMisuse
  BY OwnInvariant, PTL DEF OwnInv
=============================================================================
