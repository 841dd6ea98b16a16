------------------------------ MODULE WinSocket ------------------------------
(***************************************************************************)
(* The class Win_socket of WinSocket.cpp: objects that each start Winsock, *)
(* own one socket handle and release both again.  Winsock counts the       *)
(* WSAStartup calls of the process: the WSACleanup that brings the count   *)
(* to zero closes every socket the process still has.  A handle that was   *)
(* closed may be given out again.                                          *)
(***************************************************************************)
EXTENDS Integers, FiniteSets

CONSTANTS
    Objects,        \* Win_socket objects
    Handles,        \* values of a SOCKET
    Invalid,        \* INVALID_SOCKET
    MaxAddresses,   \* bound: addresses a host name resolves to
    MaxBuilt        \* bound: constructor calls

ASSUME InvalidAssumption == Invalid \notin Handles \cup Objects
ASSUME BoundsAssumption == MaxAddresses \in Nat \ {0} /\ MaxBuilt \in Nat

VARIABLES
    live,       \* objects whose constructor has returned
    fd,         \* fd[o]: the member socket_fd
    building,   \* the constructor that runs: its object, step and addresses left
    open,       \* handles that are open sockets of the process
    startups,   \* the WSAStartup count of the process
    lists,      \* address lists of getaddrinfo not yet freed
    built,      \* number of constructor calls
    failed,     \* history: objects on which a send has ever failed
    noSocket    \* history: number of socket() calls that failed

vars == <<live, fd, building, open, startups, lists, built, failed, noSocket>>

Idle == [object |-> Invalid, step |-> "none", left |-> 0]
Quiet == building = Idle

-----------------------------------------------------------------------------
\* WSACleanup: fails without a startup; the last one closes all sockets.
\* remaining is what the caller has left open.
Cleanup(remaining) ==
    /\ startups' = IF startups = 0 THEN 0 ELSE startups - 1
    /\ open' = IF startups <= 1 THEN {} ELSE remaining

\* The mutant forgets the WSACleanup of a constructor that throws.
CleanupOnThrow_Missing(remaining) == startups' = startups /\ open' = remaining
CleanupOnThrow(remaining) == Cleanup(remaining)

\* closesocket(h) of a handle that may be closed already.
Without(h) == open \ {h}

-----------------------------------------------------------------------------
Init ==
    /\ live = {}
    /\ fd = [o \in Objects |-> Invalid]
    /\ building = Idle
    /\ open = {}
    /\ startups = 0 /\ lists = 0 /\ built = 0
    /\ failed = {} /\ noSocket = 0

\* WSAStartup succeeds; if it fails the constructor throws and nothing is left.
Startup(o) ==
    /\ Quiet /\ o \notin live /\ built < MaxBuilt
    /\ startups' = startups + 1
    /\ fd' = [fd EXCEPT ![o] = Invalid]
    /\ building' = [object |-> o, step |-> "resolve", left |-> 0]
    /\ built' = built + 1
    /\ UNCHANGED <<live, open, lists, failed, noSocket>>

\* A constructor step of the object being built.
At(step) == building.step = step

ResolveFails ==
    /\ At("resolve")
    /\ CleanupOnThrow(open)
    /\ building' = Idle
    /\ UNCHANGED <<live, fd, lists, built, failed, noSocket>>

Resolve ==
    /\ At("resolve")
    /\ \E n \in 1..MaxAddresses : building' = [building EXCEPT !.step = "socket", !.left = n]
    /\ lists' = lists + 1
    /\ UNCHANGED <<live, fd, open, startups, built, failed, noSocket>>

\* socket() fails: the constructor throws without freeaddrinfo.
SocketFails ==
    /\ At("socket") /\ building.left > 0
    /\ fd' = [fd EXCEPT ![building.object] = Invalid]
    /\ CleanupOnThrow(open)
    /\ building' = Idle
    /\ noSocket' = noSocket + 1
    /\ UNCHANGED <<live, lists, built, failed>>

Socket ==
    /\ At("socket") /\ building.left > 0
    /\ \E h \in Handles \ open :
          /\ fd' = [fd EXCEPT ![building.object] = h]
          /\ open' = open \cup {h}
    /\ building' = [building EXCEPT !.step = "connect"]
    /\ UNCHANGED <<live, startups, lists, built, failed, noSocket>>

\* connect fails: the next address is tried; the mutant keeps the handle.
ConnectFails_KeepsHandle ==
    /\ At("connect")
    /\ fd' = [fd EXCEPT ![building.object] = Invalid]
    /\ building' = [building EXCEPT !.step = "socket", !.left = @ - 1]
    /\ UNCHANGED <<live, open, startups, lists, built, failed, noSocket>>

ConnectFails ==
    /\ At("connect")
    /\ open' = Without(fd[building.object])
    /\ fd' = [fd EXCEPT ![building.object] = Invalid]
    /\ building' = [building EXCEPT !.step = "socket", !.left = @ - 1]
    /\ UNCHANGED <<live, startups, lists, built, failed, noSocket>>

\* A connection is made: freeaddrinfo; the mutant forgets it.
Connect_KeepsList ==
    /\ At("connect")
    /\ live' = live \cup {building.object}
    /\ building' = Idle
    /\ UNCHANGED <<fd, open, startups, lists, built, failed, noSocket>>

Connect ==
    /\ At("connect")
    /\ lists' = lists - 1
    /\ live' = live \cup {building.object}
    /\ building' = Idle
    /\ UNCHANGED <<fd, open, startups, built, failed, noSocket>>

\* No address is left: freeaddrinfo, WSACleanup, throw; the mutant frees twice.
Unreachable_FreesTwice ==
    /\ At("socket") /\ building.left = 0
    /\ lists' = lists - 2
    /\ CleanupOnThrow(open)
    /\ building' = Idle
    /\ UNCHANGED <<live, fd, built, failed, noSocket>>

Unreachable ==
    /\ At("socket") /\ building.left = 0
    /\ lists' = lists - 1
    /\ CleanupOnThrow(open)
    /\ building' = Idle
    /\ UNCHANGED <<live, fd, built, failed, noSocket>>

\* ~Win_socket: shutdown and closesocket, if only of a stale handle; WSACleanup.
Destroy(o) ==
    /\ Quiet /\ o \in live
    /\ Cleanup(Without(fd[o]))
    /\ live' = live \ {o}
    /\ UNCHANGED <<fd, building, lists, built, failed, noSocket>>

\* send fails: the handle is closed and Winsock cleaned up, but fd is kept.
SendFails(o) ==
    /\ Quiet /\ o \in live
    /\ Cleanup(Without(fd[o]))
    /\ failed' = failed \cup {o}
    /\ UNCHANGED <<live, fd, building, lists, built, noSocket>>

Build == \/ \E o \in Objects : Startup(o)
         \/ ResolveFails \/ Resolve \/ SocketFails \/ Socket
         \/ ConnectFails \/ Connect \/ Unreachable

Ended == Quiet /\ live = {} /\ built = MaxBuilt

Next == \/ Build
        \/ \E o \in Objects : Destroy(o) \/ SendFails(o)
        \/ Ended /\ UNCHANGED vars

Spec == Init /\ [][Next]_vars

-----------------------------------------------------------------------------
(* Properties *)

Held == Cardinality(live) + (IF Quiet THEN 0 ELSE 1)

\* Every variable keeps its type.
TypeOK ==
    /\ live \subseteq Objects
    /\ fd \in [Objects -> Handles \cup {Invalid}]
    /\ building \in {Idle} \cup [object : Objects, step : {"resolve", "socket", "connect"},
                                 left : 0..MaxAddresses]
    /\ open \subseteq Handles
    /\ startups \in Nat /\ lists \in Nat /\ built \in 0..MaxBuilt /\ noSocket \in Nat
    /\ failed \subseteq Objects

\* No path through constructor, send or destructor leaves a startup behind: the
\* count never exceeds the objects, so the last destructor ends Winsock use.
NoStartupLeftBehind == startups <= Held

\* No path leaves a socket behind: each open socket is the one of an object
\* that lives or is being built, stale handles and their reuse included.
NoSocketLeftBehind ==
    \A h \in open : \E o \in live \cup {building.object} : o \in Objects /\ fd[o] = h

\* As long as no send has failed, whatever constructors do, each object has a
\* startup and an open socket of its own.
EachHasItsSocket ==
    failed = {} =>
        /\ startups = Held
        /\ \A o \in live : /\ fd[o] \in open
                           /\ \A p \in live \ {o} : fd[p] # fd[o]

\* Address lists are freed on every path but the one where socket() fails.
ListsAccounted ==
    lists = noSocket + (IF building.step \in {"socket", "connect"} THEN 1 ELSE 0)

\* "3. destroys the old data_channel connection" (FTPClient.h:49): destroying
\* an object, or a failed send on one, takes the socket of no other object.
OthersKeepTheirSocket ==
    \A o \in live : o \notin failed => fd[o] \in open
=============================================================================
