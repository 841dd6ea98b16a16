------------------------------ MODULE Connection ------------------------------
(***************************************************************************)
(* The life of the connection p_db of SQLite objects: constructors,        *)
(* connect, close, destructor, and the calls that use it.  p_db is an      *)
(* address.  The class neither sets it in SQLite() nor resets it in        *)
(* close(), so it may be an address of anything, of a connection that is   *)
(* gone, or of one that has been opened there since by another object.     *)
(***************************************************************************)
CONSTANTS
    Objects,    \* places for SQLite objects
    Handles,    \* addresses at which the library puts a sqlite3 structure
    Null,       \* the null pointer
    Wild        \* any other value of an uninitialised p_db

ASSUME PointersAssumption == Null \notin Handles /\ Wild \notin Handles /\ Null # Wild

VARIABLES
    heap,       \* heap[h]: the structure at h is open, sick (not opened) or freed
    inTx,       \* connections in a transaction
    live,       \* objects that exist
    pdb,        \* pdb[o]: the member p_db of object o
    state       \* of the process: running, terminated by an exception, crashed

\* Histories: they are read by properties only.
VARIABLES
    loose,      \* objects never connected, or closed by hand since
    misused,    \* some loose object has been used other than by connect
    lost        \* lost[h]: why no object holds the handle h any more

vars == <<heap, inTx, live, pdb, state, loose, misused, lost>>

Init ==
    /\ heap = [h \in Handles |-> "free"]
    /\ inTx = {}
    /\ live = {}
    /\ pdb = [o \in Objects |-> Null]
    /\ state = "running"
    /\ loose = {}
    /\ misused = FALSE
    /\ lost = [h \in Handles |-> "no"]

-----------------------------------------------------------------------------
(* The library *)

IsOpen(p) == p \in Handles /\ heap[p] = "open"

\* sqlite3_close accepts these; of a pointer to anything else it finds the
\* magic number wrong (SQLITE_MISUSE), or reading it ends the process.
Closable(p) == p \in Handles /\ heap[p] # "free"

Crash == state' = "crashed" /\ UNCHANGED <<heap, inTx, live, pdb, lost>>

\* sqlite3_close rolls back and frees.  In the mutant it does not roll back.
Free_InTransaction(p) ==
    /\ heap' = [heap EXCEPT ![p] = "free"]
    /\ UNCHANGED inTx

Free(p) ==
    /\ heap' = [heap EXCEPT ![p] = "free"]
    /\ inTx' = inTx \ {p}

\* sqlite3_open puts a new structure at h; one it could not open is sick.
Open(h, outcome) ==
    /\ heap[h] = "free"
    /\ heap' = [heap EXCEPT ![h] = outcome]

-----------------------------------------------------------------------------
(* The class *)

Running(o) == state = "running" /\ o \in live

\* A call other than connect relies on p_db.
Relies(o) == misused' = (misused \/ o \in loose)

HeldByOther(h, o) == \E u \in live \ {o} : pdb[u] = h

\* SQLite(): whatever was in memory stays in p_db.
ConstructDefault(o) ==
    /\ state = "running" /\ o \notin live
    /\ live' = live \cup {o}
    /\ \E p \in Handles \cup {Null, Wild} : pdb' = [pdb EXCEPT ![o] = p]
    /\ loose' = loose \cup {o}
    /\ UNCHANGED <<heap, inTx, state, misused, lost>>

\* SQLite(db_name)
Construct(o, h) ==
    /\ state = "running" /\ o \notin live
    /\ Open(h, "open")
    /\ live' = live \cup {o}
    /\ pdb' = [pdb EXCEPT ![o] = h]
    /\ lost' = [lost EXCEPT ![h] = "no"]
    /\ UNCHANGED <<inTx, state, loose, misused>>

\* The exception leaves the constructor: there is no object to close it.
ConstructFails(o, h) ==
    /\ state = "running" /\ o \notin live
    /\ Open(h, "sick")
    /\ lost' = [lost EXCEPT ![h] = "failed"]
    /\ UNCHANGED <<inTx, live, pdb, state, loose, misused>>

\* What connect writes over is lost unless it was closed or is another's.
Overwrite(o, p) ==
    /\ pdb' = [pdb EXCEPT ![o] = p]
    /\ lost' = [h \in Handles |->
                  IF h = p THEN "no"
                  ELSE IF h = pdb[o] /\ Closable(h) /\ ~HeldByOther(h, o) THEN "replaced"
                  ELSE lost[h]]
    /\ loose' = loose \ {o}
    /\ UNCHANGED <<live, state, misused>>

Connect(o, h) ==
    /\ Running(o)
    /\ Open(h, "open")
    /\ Overwrite(o, h)
    /\ UNCHANGED inTx

\* In the mutant p_db points to a structure that is freed already.
ConnectFails_Dangling(o, h) ==
    /\ Running(o)
    /\ heap[h] = "free"
    /\ Overwrite(o, h)
    /\ UNCHANGED <<heap, inTx>>

ConnectFails(o, h) ==
    /\ Running(o)
    /\ Open(h, "sick")
    /\ Overwrite(o, h)
    /\ UNCHANGED inTx

\* Without memory sqlite3_open gives the null pointer.
ConnectNoMemory(o) ==
    /\ Running(o)
    /\ Overwrite(o, Null)
    /\ UNCHANGED <<heap, inTx>>

\* close(): p_db stays as it is; SQLITE_MISUSE is thrown at the caller.
Close(o) ==
    /\ Running(o) /\ Relies(o)
    /\ loose' = loose \cup {o}
    /\ \/ Closable(pdb[o]) /\ Free(pdb[o]) /\ UNCHANGED <<live, pdb, state, lost>>
       \/ ~Closable(pdb[o]) /\ UNCHANGED <<heap, inTx, live, pdb, state, lost>>
       \/ ~Closable(pdb[o]) /\ pdb[o] # Null /\ Crash

\* The mutant leaves the connection to the process.
Destroy_NoClose(o) ==
    /\ Running(o) /\ Relies(o)
    /\ live' = live \ {o}
    /\ loose' = loose \ {o}
    /\ UNCHANGED <<heap, inTx, pdb, state, lost>>

\* The destructor closes, and what close throws there ends the program.
Destroy(o) ==
    /\ Running(o) /\ Relies(o)
    /\ loose' = loose \ {o}
    /\ \/ /\ Closable(pdb[o]) \/ pdb[o] = Null
          /\ IF pdb[o] = Null THEN UNCHANGED <<heap, inTx>> ELSE Free(pdb[o])
          /\ live' = live \ {o}
          /\ UNCHANGED <<pdb, state, lost>>
       \/ /\ ~Closable(pdb[o]) /\ pdb[o] # Null
          /\ state' = "terminated"
          /\ UNCHANGED <<heap, inTx, live, pdb, lost>>
       \/ ~Closable(pdb[o]) /\ pdb[o] # Null /\ Crash

\* execute and the transaction calls: BEGIN, COMMIT and ROLLBACK on an open
\* connection; on another pointer SQLITE_MISUSE, which the transaction calls
\* ignore, or a crash.
Use(o) ==
    /\ Running(o) /\ Relies(o)
    /\ UNCHANGED loose
    /\ \/ /\ IsOpen(pdb[o])
          /\ inTx' \in {inTx, inTx \cup {pdb[o]}, inTx \ {pdb[o]}}
          /\ UNCHANGED <<heap, live, pdb, state, lost>>
       \/ ~IsOpen(pdb[o]) /\ UNCHANGED <<heap, inTx, live, pdb, state, lost>>
       \/ ~Closable(pdb[o]) /\ pdb[o] # Null /\ Crash

Next ==
    \/ \E o \in Objects :
         \/ ConstructDefault(o) \/ ConnectNoMemory(o)
         \/ Close(o) \/ Destroy(o) \/ Use(o)
         \/ \E h \in Handles : \/ Construct(o, h) \/ ConstructFails(o, h)
                               \/ Connect(o, h) \/ ConnectFails(o, h)
    \/ state # "running" /\ UNCHANGED vars

Spec == Init /\ [][Next]_vars

-----------------------------------------------------------------------------
(* Properties *)

\* Every variable keeps its type, and only open connections are in a
\* transaction.
TypeOK ==
    /\ heap \in [Handles -> {"free", "open", "sick"}]
    /\ inTx \subseteq {h \in Handles : heap[h] = "open"}
    /\ live \subseteq Objects
    /\ pdb \in [Objects -> Handles \cup {Null, Wild}]
    /\ state \in {"running", "terminated", "crashed"}
    /\ loose \subseteq live
    /\ misused \in BOOLEAN
    /\ lost \in [Handles -> {"no", "failed", "replaced"}]

\* Whatever is opened, reopened, closed and destroyed in whatever order: as long
\* as no object is used before its connect or after its close, each object has a
\* connection that is allocated and that is no other's, or none.
OwnConnection ==
    ~misused => \A o \in live \ loose :
        pdb[o] # Null => /\ Closable(pdb[o])
                         /\ \A u \in live \ (loose \cup {o}) : pdb[u] # pdb[o]

\* No connection leaks but in two ways, even if calls are misused: a constructor
\* that throws leaves the one it could not open (SQLite.cpp:15), which holds
\* nothing of the file, and connect over a connection leaves that with its
\* transaction and locks (SQLite.cpp:30).
HandlesAccounted ==
    \A h \in Handles : heap[h] # "free" =>
        \/ \E o \in live : pdb[o] = h
        \/ lost[h] = "failed" /\ heap[h] = "sick"
        \/ lost[h] = "replaced"

\* The process is ended by the class only after an object was used before its
\* connect or after its close: its destructor alone never throws.
DiesOnlyByMisuse == state # "running" => misused
=============================================================================
