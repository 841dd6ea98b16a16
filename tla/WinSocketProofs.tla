---------------------------- MODULE WinSocketProofs ----------------------------
(***************************************************************************)
(* Theorems about WinSocket for any sets of objects and handles: what the  *)
(* paths through constructor, send and destructor leave behind.            *)
(***************************************************************************)
EXTENDS WinSocket, FiniteSetTheorems, TLAPS

-----------------------------------------------------------------------------
(* The inductive invariant *)

\* The constructor that runs: its object does not live yet, has no socket
\* before socket() succeeds, and has an address left while it connects.
BuildingInv ==
    /\ building.object \notin live
    /\ building.step \in {"resolve", "socket"} => fd[building.object] = Invalid
    /\ building.step = "connect" => building.left > 0

TypeInv == TypeOK /\ BuildingInv /\ ListsAccounted /\ IsFiniteSet(live)

\* The cases of Next, with what each does to the constructor that runs.
LEMMA BuildingCases ==
    ASSUME TypeOK
    PROVE  /\ Quiet <=> building.step = "none"
           /\ ~Quiet => /\ building.object \in Objects
                        /\ building.step \in {"resolve", "socket", "connect"}
                        /\ building.left \in 0..MaxAddresses
           /\ Quiet => building.object = Invalid
  BY DEF TypeOK, Quiet, Idle

\* WSACleanup closes nothing but sockets.
LEMMA CleanupType ==
    ASSUME TypeOK, NEW remaining \in SUBSET open, Cleanup(remaining)
    PROVE  /\ startups' \in Nat /\ startups' <= startups
           /\ startups > 0 => startups' = startups - 1
           /\ open' \subseteq remaining
           /\ startups > 1 => open' = remaining
  BY DEF TypeOK, Cleanup

\* One system call keeps the types, the state of the constructor and the count
\* of the address lists.
LEMMA TypeStep ==
    ASSUME TypeInv, [Next]_vars
    PROVE  TypeInv'
  <1> USE DEF TypeInv
  <1>1. ASSUME NEW o \in Objects, Startup(o) PROVE TypeInv'
    <2>1. building' \in [object : Objects, step : {"resolve", "socket", "connect"},
                         left : 0..MaxAddresses]
      BY <1>1, BoundsAssumption DEF Startup
    <2>2. built' \in 0..MaxBuilt
      BY <1>1, BoundsAssumption DEF Startup, TypeOK
    <2>3. BuildingInv'
      BY <1>1 DEF Startup, BuildingInv, TypeOK
    <2>4. ListsAccounted'
      BY <1>1, BuildingCases DEF Startup, ListsAccounted
    <2> QED
      BY <1>1, <2>1, <2>2, <2>3, <2>4 DEF Startup, TypeOK
  <1>2. CASE ResolveFails
    BY <1>2, BuildingCases, CleanupType, InvalidAssumption
       DEF ResolveFails, CleanupOnThrow, At, Idle, TypeOK, BuildingInv, ListsAccounted
  <1>3. CASE Resolve
    <2>1. building.step = "resolve" /\ building.object \in Objects /\ ~Quiet
      BY <1>3, BuildingCases DEF Resolve, At
    <2>2. PICK n \in 1..MaxAddresses :
              building' = [building EXCEPT !.step = "socket", !.left = n]
      BY <1>3 DEF Resolve
    <2>3. building' = [object |-> building.object, step |-> "socket", left |-> n]
      BY <2>1, <2>2 DEF TypeOK, Quiet
    <2> QED
      BY <1>3, <2>1, <2>3, BoundsAssumption DEF Resolve, TypeOK, BuildingInv, ListsAccounted
  <1>4. CASE SocketFails
    <2>1. building.step = "socket" /\ building.object \in Objects
      BY <1>4, BuildingCases DEF SocketFails, At
    <2> QED
      BY <1>4, <2>1, CleanupType, InvalidAssumption
         DEF SocketFails, CleanupOnThrow, Idle, TypeOK, BuildingInv, ListsAccounted
  <1>5. CASE Socket
    <2>1. /\ building.step = "socket" /\ building.object \in Objects /\ ~Quiet
          /\ building.left \in 1..MaxAddresses
      BY <1>5, BuildingCases, BoundsAssumption DEF Socket, At
    <2>2. building' = [object |-> building.object, step |-> "connect", left |-> building.left]
      BY <1>5, <2>1 DEF Socket, TypeOK, Quiet
    <2>3. PICK h \in Handles \ open : /\ fd' = [fd EXCEPT ![building.object] = h]
                                      /\ open' = open \cup {h}
      BY <1>5 DEF Socket
    <2>4. fd' \in [Objects -> Handles \cup {Invalid}]
      BY <2>3 DEF TypeOK
    <2>5. building' \in [object : Objects, step : {"resolve", "socket", "connect"},
                         left : 0..MaxAddresses]
      BY <2>1, <2>2, BoundsAssumption
    <2> QED
      BY <1>5, <2>1, <2>2, <2>3, <2>4, <2>5 DEF Socket, TypeOK, BuildingInv, ListsAccounted
  <1>6. CASE ConnectFails
    <2>1. /\ building.step = "connect" /\ building.object \in Objects /\ ~Quiet
          /\ building.left \in 1..MaxAddresses
      BY <1>6, BuildingCases, BoundsAssumption DEF ConnectFails, At, BuildingInv
    <2>2. building' = [object |-> building.object, step |-> "socket", left |-> building.left - 1]
      BY <1>6, <2>1 DEF ConnectFails, TypeOK, Quiet
    <2>3. building' \in [object : Objects, step : {"resolve", "socket", "connect"},
                         left : 0..MaxAddresses]
      BY <2>1, <2>2, BoundsAssumption
    <2> QED
      BY <1>6, <2>1, <2>2, <2>3
         DEF ConnectFails, Without, TypeOK, BuildingInv, ListsAccounted
  <1>7. CASE Connect
    <2>1. building.step = "connect" /\ building.object \in Objects
      BY <1>7, BuildingCases DEF Connect, At
    <2>2. IsFiniteSet(live')
      BY <1>7, FS_AddElement DEF Connect
    <2> QED
      BY <1>7, <2>1, <2>2, InvalidAssumption
         DEF Connect, Idle, TypeOK, BuildingInv, ListsAccounted
  <1>8. CASE Unreachable
    <2>1. building.step = "socket" /\ building.object \in Objects
      BY <1>8, BuildingCases DEF Unreachable, At
    <2> QED
      BY <1>8, <2>1, CleanupType, InvalidAssumption
         DEF Unreachable, CleanupOnThrow, Idle, TypeOK, BuildingInv, ListsAccounted
  <1>9. ASSUME NEW o \in Objects, Destroy(o) PROVE TypeInv'
    <2>1. IsFiniteSet(live')
      BY <1>9, FS_RemoveElement DEF Destroy
    <2>2. Without(fd[o]) \in SUBSET open
      BY DEF Without
    <2> QED
      BY <1>9, <2>1, <2>2, CleanupType
         DEF Destroy, TypeOK, BuildingInv, ListsAccounted
  <1>10. ASSUME NEW o \in Objects, SendFails(o) PROVE TypeInv'
    <2>1. Without(fd[o]) \in SUBSET open
      BY DEF Without
    <2> QED
      BY <1>10, <2>1, CleanupType DEF SendFails, TypeOK, BuildingInv, ListsAccounted
  <1>11. CASE UNCHANGED vars
    BY <1>11 DEF vars, TypeOK, BuildingInv, ListsAccounted
  <1> QED
    BY <1>1, <1>2, <1>3, <1>4, <1>5, <1>6, <1>7, <1>8, <1>9, <1>10, <1>11 DEF Next, Build

LEMMA TypeInit ==
    ASSUME Init
    PROVE  TypeInv
  BY FS_EmptySet, BoundsAssumption, InvalidAssumption
     DEF Init, TypeInv, TypeOK, BuildingInv, ListsAccounted, Idle

LEMMA TypeInvariant == Spec => []TypeInv
  BY TypeInit, TypeStep, PTL DEF Spec

\* Every variable keeps its type, whatever fails in whichever object.
THEOREM TypeCorrect == Spec => []TypeOK
  BY TypeInvariant, PTL DEF TypeInv

\* Address lists: freed on every path of the constructor but the one on which
\* socket() fails, however often the constructor is called.
THEOREM ListsFreed == Spec => []ListsAccounted
  BY TypeInvariant, PTL DEF TypeInv

-----------------------------------------------------------------------------
(* Sockets *)

\* One system call leaves no open socket without an object.
LEMMA SocketStep ==
    ASSUME TypeInv, NoSocketLeftBehind, [Next]_vars
    PROVE  NoSocketLeftBehind'
  <1> USE DEF NoSocketLeftBehind
  <1>0. open \subseteq Handles /\ Invalid \notin Handles /\ Invalid \notin Objects
    BY InvalidAssumption DEF TypeInv, TypeOK
  <1>1. ASSUME NEW o \in Objects, Startup(o) PROVE NoSocketLeftBehind'
    BY <1>0, <1>1, BuildingCases DEF Startup, TypeInv, TypeOK
  <1>2. CASE ResolveFails \/ SocketFails \/ Unreachable
    <2>1. building.step \in {"resolve", "socket"} /\ building.object \in Objects
      BY <1>2, BuildingCases DEF ResolveFails, SocketFails, Unreachable, At, TypeInv
    <2>2. fd[building.object] = Invalid
      BY <2>1 DEF TypeInv, BuildingInv
    <2>3. open' \subseteq open /\ live' = live
      BY <1>2, CleanupType DEF ResolveFails, SocketFails, Unreachable, CleanupOnThrow, TypeInv
    <2>4. \A o \in live : fd'[o] = fd[o]
      BY <1>2 DEF ResolveFails, SocketFails, Unreachable, TypeInv, TypeOK, BuildingInv
    <2> QED
      BY <1>0, <2>2, <2>3, <2>4
  <1>3. CASE Resolve
    BY <1>3 DEF Resolve, TypeInv, TypeOK, Idle
  <1>4. CASE Socket
    <2>1. building.step = "socket" /\ building.object \in Objects
      BY <1>4, BuildingCases DEF Socket, At, TypeInv
    <2>2. fd[building.object] = Invalid
      BY <2>1 DEF TypeInv, BuildingInv
    <2>3. PICK h \in Handles \ open : /\ fd' = [fd EXCEPT ![building.object] = h]
                                      /\ open' = open \cup {h}
      BY <1>4 DEF Socket
    <2>4. building'.object = building.object /\ live' = live
      BY <1>4, <2>1 DEF Socket, TypeInv, TypeOK, Idle
    <2>5. fd'[building.object] = h /\ \A o \in Objects \ {building.object} : fd'[o] = fd[o]
      BY <2>1, <2>3 DEF TypeInv, TypeOK
    <2>6. ASSUME NEW g \in open'
          PROVE  \E o \in live' \cup {building'.object} : o \in Objects /\ fd'[o] = g
      <3>1. CASE g = h
        BY <2>1, <2>4, <2>5, <3>1
      <3>2. CASE g \in open
        <4>1. PICK o \in live \cup {building.object} : o \in Objects /\ fd[o] = g
          BY <3>2
        <4>2. o # building.object
          BY <1>0, <2>2, <3>2, <4>1
        <4> QED
          BY <2>4, <2>5, <4>1, <4>2
      <3> QED
        BY <2>3, <3>1, <3>2
    <2> QED
      BY <2>6
  <1>5. CASE ConnectFails
    <2>1. building.object \in Objects /\ building'.object = building.object /\ live' = live
      BY <1>5, BuildingCases DEF ConnectFails, At, TypeInv, TypeOK, Idle
    <2>2. \A o \in Objects \ {building.object} : fd'[o] = fd[o]
      BY <1>5 DEF ConnectFails, TypeInv, TypeOK
    <2>3. open' = open \ {fd[building.object]}
      BY <1>5 DEF ConnectFails, Without
    <2> QED
      BY <2>1, <2>2, <2>3
  <1>6. CASE Connect
    BY <1>6 DEF Connect
  <1>7. ASSUME NEW o \in Objects, Destroy(o) PROVE NoSocketLeftBehind'
    <2>1. open' \subseteq open \ {fd[o]} /\ live' = live \ {o}
      BY <1>7, CleanupType DEF Destroy, Without, TypeInv
    <2> QED
      BY <1>7, <2>1 DEF Destroy
  <1>8. ASSUME NEW o \in Objects, SendFails(o) PROVE NoSocketLeftBehind'
    <2>1. open' \subseteq open
      BY <1>8, CleanupType DEF SendFails, Without, TypeInv
    <2> QED
      BY <1>8, <2>1 DEF SendFails
  <1>9. CASE UNCHANGED vars
    BY <1>9 DEF vars
  <1> QED
    BY <1>1, <1>2, <1>3, <1>4, <1>5, <1>6, <1>7, <1>8, <1>9 DEF Next, Build

\* No path leaves an open socket that no living object holds, although a failed
\* send and a destructor close stale handles that others may have got.
THEOREM SocketsReleased == Spec => []NoSocketLeftBehind
  <1>1. Init => NoSocketLeftBehind
    BY DEF Init, NoSocketLeftBehind
  <1> QED
    BY <1>1, TypeInvariant, SocketStep, PTL DEF Spec

-----------------------------------------------------------------------------
(* Startups *)

\* How a system call changes the number of objects that hold a startup.
LEMMA HeldStep ==
    ASSUME TypeInv, Next
    PROVE  /\ Held \in Nat
           /\ \/ /\ \E o \in Objects : Startup(o)
                 /\ Held' = Held + 1
              \/ /\ ResolveFails \/ SocketFails \/ Unreachable \/ \E o \in Objects : Destroy(o)
                 /\ Held' = Held - 1 /\ Held > 0
              \/ /\ \/ Resolve \/ Socket \/ ConnectFails \/ Connect
                    \/ \E o \in Objects : SendFails(o)
                    \/ UNCHANGED vars
                 /\ Held' = Held
  <1>0. /\ IsFiniteSet(live) /\ Cardinality(live) \in Nat
        /\ Quiet <=> building.step = "none"
        /\ Idle.step = "none"
    BY FS_CardinalityType, BuildingCases DEF TypeInv, Idle
  <1>1. ASSUME NEW o \in Objects, Startup(o) PROVE Held' = Held + 1
    <2>1. ~Quiet' /\ Quiet /\ live' = live
      BY <1>1 DEF Startup, Quiet, Idle
    <2> QED
      BY <1>0, <2>1 DEF Held
  <1>2. CASE ResolveFails \/ SocketFails \/ Unreachable
    <2>1. ~Quiet /\ Quiet' /\ live' = live
      BY <1>0, <1>2 DEF ResolveFails, SocketFails, Unreachable, At, Quiet
    <2>2. Held' = Held - 1 /\ Held > 0
      BY <1>0, <2>1 DEF Held
    <2> QED
      BY <1>0, <1>2, <2>2 DEF Held
  <1>3. CASE Resolve \/ Socket \/ ConnectFails
    <2>1. ~Quiet /\ live' = live /\ building'.step \in {"socket", "connect"}
      BY <1>0, <1>3, BuildingCases DEF Resolve, Socket, ConnectFails, At, TypeInv, TypeOK
    <2>2. ~Quiet'
      BY <1>0, <2>1 DEF Quiet
    <2> QED
      BY <1>0, <1>3, <2>1, <2>2 DEF Held
  <1>4. CASE Connect
    <2>1. ~Quiet /\ Quiet' /\ building.object \notin live /\ live' = live \cup {building.object}
      BY <1>0, <1>4 DEF Connect, At, Quiet, TypeInv, BuildingInv
    <2>2. Cardinality(live') = Cardinality(live) + 1
      BY <1>0, <2>1, FS_AddElement
    <2> QED
      BY <1>0, <1>4, <2>1, <2>2 DEF Held
  <1>5. ASSUME NEW o \in Objects, Destroy(o) PROVE Held' = Held - 1 /\ Held > 0
    <2>1. Quiet /\ Quiet' /\ o \in live /\ live' = live \ {o}
      BY <1>5 DEF Destroy, Quiet
    <2>2. Cardinality(live') = Cardinality(live) - 1 /\ Cardinality(live') \in Nat
      BY <1>0, <2>1, FS_RemoveElement, FS_CardinalityType
    <2> QED
      BY <1>0, <2>1, <2>2 DEF Held
  <1>6. ASSUME NEW o \in Objects, SendFails(o) PROVE Held' = Held
    BY <1>6 DEF SendFails, Held, Quiet
  <1>7. ASSUME UNCHANGED vars PROVE Held' = Held
    BY <1>7 DEF vars, Held, Quiet
  <1>8. Held \in Nat
    BY <1>0 DEF Held
  <1> QED
    BY <1>1, <1>2, <1>3, <1>4, <1>5, <1>6, <1>7, <1>8 DEF Next, Build

\* Every path gives back its startup: the count never exceeds the objects.
THEOREM StartupsReleased == Spec => []NoStartupLeftBehind
  <1>1. Init => NoStartupLeftBehind
    BY FS_EmptySet DEF Init, NoStartupLeftBehind, Held, Quiet
  <1>2. ASSUME TypeInv, NoStartupLeftBehind, [Next]_vars
        PROVE  NoStartupLeftBehind'
    <2>1. startups \in Nat /\ startups <= Held
      BY <1>2 DEF TypeInv, TypeOK, NoStartupLeftBehind
    <2>2. CASE Next
      <3>1. CASE (\E o \in Objects : Startup(o)) /\ Held' = Held + 1
        BY <2>1, <2>2, <3>1, <1>2, HeldStep DEF Startup, NoStartupLeftBehind
      <3>2. CASE /\ ResolveFails \/ SocketFails \/ Unreachable \/ \E o \in Objects : Destroy(o)
                 /\ Held' = Held - 1 /\ Held > 0
        <4>1. startups' \in Nat /\ startups' <= startups /\ (startups > 0 => startups' = startups - 1)
          BY <1>2, <3>2, CleanupType
             DEF ResolveFails, SocketFails, Unreachable, Destroy, CleanupOnThrow, Without, TypeInv
        <4> QED
          BY <1>2, <2>1, <2>2, <3>2, <4>1, HeldStep DEF NoStartupLeftBehind
      <3>3. CASE /\ \/ Resolve \/ Socket \/ ConnectFails \/ Connect
                    \/ \E o \in Objects : SendFails(o)
                    \/ UNCHANGED vars
                 /\ Held' = Held
        <4>1. startups' \in Nat /\ startups' <= startups
          <5>1. CASE \E o \in Objects : SendFails(o)
            <6>1. PICK o \in Objects : SendFails(o)
              BY <5>1
            <6>2. Without(fd[o]) \in SUBSET open
              BY DEF Without
            <6> QED
              BY <1>2, <6>1, <6>2, CleanupType DEF SendFails, TypeInv
          <5>2. CASE Resolve \/ Socket \/ ConnectFails \/ Connect \/ UNCHANGED vars
            <6>1. startups' = startups
              BY <5>2, Zenon DEF Resolve, Socket, ConnectFails, Connect, vars
            <6> QED
              BY <2>1, <6>1
          <5> QED
            BY <3>3, <5>1, <5>2
        <4> QED
          BY <1>2, <2>1, <2>2, <3>3, <4>1, HeldStep DEF NoStartupLeftBehind
      <3> QED
        BY <1>2, <2>2, <3>1, <3>2, <3>3, HeldStep
    <2>3. CASE UNCHANGED vars
      BY <1>2, <2>3 DEF vars, NoStartupLeftBehind, Held, Quiet
    <2> QED
      BY <1>2, <2>2, <2>3
  <1> QED
    BY <1>1, <1>2, TypeInvariant, PTL DEF Spec

-----------------------------------------------------------------------------
(* Objects and their sockets while no send has failed *)

\* The objects with a connection made or under way.
Connected == live \cup (IF building.step = "connect" THEN {building.object} ELSE {})

OwnInv ==
    failed = {} =>
        /\ startups = Held
        /\ \A o \in Connected : /\ fd[o] \in open
                                /\ \A p \in Connected \ {o} : fd[p] # fd[o]

\* When the last holder is gone nobody is connected.
LEMMA NobodyLeft ==
    ASSUME TypeInv', Held' = 0
    PROVE  Connected' = {}
  <1>1. Quiet' /\ Cardinality(live') = 0
    BY FS_CardinalityType DEF Held, TypeInv
  <1>2. live' = {}
    BY <1>1, FS_EmptySet DEF TypeInv
  <1>3. building'.step = "none"
    BY <1>1 DEF Quiet, Idle
  <1> QED
    BY <1>2, <1>3 DEF Connected

LEMMA OwnStep ==
    ASSUME TypeInv, TypeInv', OwnInv, [Next]_vars
    PROVE  OwnInv'
  <1>0. \A o \in Connected : o \in Objects
    BY BuildingCases DEF Connected, TypeInv, TypeOK
  <1>1. CASE UNCHANGED vars
    BY <1>1 DEF vars, OwnInv, Held, Quiet, Connected
  <1>2. ASSUME Next, failed' = {}
        PROVE  /\ startups' = Held'
               /\ \A o \in Connected' : /\ fd'[o] \in open'
                                        /\ \A p \in Connected' \ {o} : fd'[p] # fd'[o]
    <2>1. failed = {} /\ \A o \in Objects : ~SendFails(o)
      BY <1>2 DEF Next, Build, Startup, ResolveFails, Resolve, SocketFails, Socket, ConnectFails,
                  Connect, Unreachable, Destroy, SendFails, vars
    <2>2. /\ startups = Held
          /\ \A o \in Connected : /\ fd[o] \in open
                                  /\ \A p \in Connected \ {o} : fd[p] # fd[o]
      BY <2>1 DEF OwnInv
    <2>3. CASE \E o \in Objects : Startup(o) /\ Held' = Held + 1
      <3>1. PICK o \in Objects : Startup(o)
        BY <2>3
      <3>2. Connected' = live /\ live \subseteq Connected /\ o \notin live
        BY <3>1 DEF Startup, Connected
      <3>3. \A p \in live : fd'[p] = fd[p]
        BY <3>1 DEF Startup, TypeInv, TypeOK
      <3> QED
        BY <2>2, <2>3, <3>1, <3>2, <3>3 DEF Startup
    <2>4. CASE /\ ResolveFails \/ SocketFails \/ Unreachable
               /\ Held' = Held - 1 /\ Held > 0
      <3>1. /\ startups' = startups - 1
            /\ startups > 1 => open' = open
        BY <2>2, <2>4, CleanupType DEF ResolveFails, SocketFails, Unreachable, CleanupOnThrow, TypeInv
      <3>2. Connected' = live /\ live \subseteq Connected
        BY <2>4 DEF ResolveFails, SocketFails, Unreachable, Connected, Idle
      <3>3. \A p \in live : fd'[p] = fd[p]
        BY <2>4 DEF ResolveFails, SocketFails, Unreachable, TypeInv, TypeOK, BuildingInv
      <3>4. CASE startups > 1
        BY <2>2, <2>4, <3>1, <3>2, <3>3, <3>4
      <3>5. CASE ~(startups > 1)
        <4>1. Held' = 0
          BY <1>2, <2>2, <2>4, <3>5, HeldStep
        <4> QED
          BY <2>2, <2>4, <3>1, <4>1, NobodyLeft
      <3> QED
        BY <3>4, <3>5
    <2>5. CASE \E o \in Objects : Destroy(o) /\ Held' = Held - 1 /\ Held > 0
      <3>1. PICK o \in Objects : Destroy(o)
        BY <2>5
      <3>2. Without(fd[o]) \in SUBSET open
        BY DEF Without
      <3>3. /\ startups' = startups - 1
            /\ startups > 1 => open' = open \ {fd[o]}
        BY <2>2, <2>5, <3>1, <3>2, CleanupType DEF Destroy, Without, TypeInv
      <3>4. Connected' \subseteq Connected \ {o} /\ fd' = fd /\ o \in Connected
        BY <3>1 DEF Destroy, Connected, Quiet, Idle
      <3>5. CASE startups > 1
        BY <2>2, <2>5, <3>3, <3>4, <3>5
      <3>6. CASE ~(startups > 1)
        <4>1. Held' = 0
          BY <1>2, <2>2, <2>5, <3>6, HeldStep
        <4> QED
          BY <2>2, <2>5, <3>3, <4>1, NobodyLeft
      <3> QED
        BY <3>5, <3>6
    <2>6. CASE Resolve /\ Held' = Held
      <3>1. Connected' \subseteq Connected /\ fd' = fd /\ open' = open /\ startups' = startups
        BY <2>6 DEF Resolve, Connected, At, TypeInv, TypeOK, Idle
      <3> QED
        BY <2>2, <2>6, <3>1
    <2>7. CASE Socket /\ Held' = Held
      <3>1. PICK h \in Handles \ open : /\ fd' = [fd EXCEPT ![building.object] = h]
                                        /\ open' = open \cup {h}
        BY <2>7 DEF Socket
      <3>2. building.object \in Objects /\ building.object \notin live /\ Connected = live
        BY <2>7, BuildingCases DEF Socket, At, TypeInv, BuildingInv, Connected
      <3>3. Connected' \subseteq live \cup {building.object} /\ startups' = startups
        BY <2>7, <3>2 DEF Socket, Connected, TypeInv, TypeOK, Idle
      <3>4. fd'[building.object] = h /\ \A o \in live : fd'[o] = fd[o]
        BY <3>1, <3>2 DEF TypeInv, TypeOK
      <3> QED
        BY <2>2, <2>7, <3>1, <3>2, <3>3, <3>4
    <2>8. CASE ConnectFails /\ Held' = Held
      <3>1. building.object \in Objects /\ building.object \notin live
        BY <2>8, BuildingCases DEF ConnectFails, At, TypeInv, BuildingInv
      <3>2. Connected = live \cup {building.object} /\ Connected' = live
        BY <2>8 DEF ConnectFails, At, Connected, TypeInv, TypeOK, Idle
      <3>3. open' = open \ {fd[building.object]} /\ startups' = startups
        BY <2>8 DEF ConnectFails, Without
      <3>4. \A o \in live : fd'[o] = fd[o]
        BY <2>8, <3>1 DEF ConnectFails, TypeInv, TypeOK
      <3> QED
        BY <2>2, <2>8, <3>1, <3>2, <3>3, <3>4
    <2>9. CASE Connect /\ Held' = Held
      <3>1. Connected' = Connected /\ fd' = fd /\ open' = open /\ startups' = startups
        BY <2>9 DEF Connect, At, Connected, Idle
      <3> QED
        BY <2>2, <2>9, <3>1
    <2>10. CASE UNCHANGED vars /\ Held' = Held
      BY <2>2, <2>10 DEF vars, Connected
    <2> QED
      BY <1>2, <2>1, <2>3, <2>4, <2>5, <2>6, <2>7, <2>8, <2>9, <2>10, HeldStep
  <1> QED
    BY <1>1, <1>2 DEF OwnInv

\* As long as no send has failed, each living object has a startup and an open
\* socket of its own, whatever the constructors of other objects do.
THEOREM SocketsOwned == Spec => []EachHasItsSocket
  <1>1. Init => OwnInv
    BY FS_EmptySet DEF Init, OwnInv, Held, Quiet, Connected, Idle
  <1>2. OwnInv => EachHasItsSocket
    BY DEF OwnInv, EachHasItsSocket, Connected
  <1> QED
    BY <1>1, <1>2, TypeInvariant, OwnStep, PTL DEF Spec
=============================================================================
