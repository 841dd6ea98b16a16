------------------------------ MODULE AtomicFile ------------------------------
(***************************************************************************)
(* What the users of SQLite rely on: a database file that changes only by  *)
(* whole transactions.  A connection that is inside sees the content as it *)
(* was when it entered, together with its own changes; one connection at a *)
(* time changes anything; and it commits only when no other is inside.  A  *)
(* transaction may also end with nothing: after reading, by a rollback, by *)
(* an error or a crash.                                                    *)
(***************************************************************************)
CONSTANTS
    Connections,    \* connections to the database file
    Contents,       \* contents the file may have
    None            \* a connection that is not inside sees nothing

VARIABLES
    content,        \* the committed content
    inside,         \* connections that are reading or changing the database
    writers,        \* those among them with changes of their own
    view            \* view[c]: the content as connection c sees it

vars == <<content, inside, writers, view>>

Init ==
    /\ content \in Contents
    /\ inside = {} /\ writers = {}
    /\ view = [c \in Connections |-> None]

Start(c) ==
    /\ c \notin inside
    /\ inside' = inside \cup {c}
    /\ view' = [view EXCEPT ![c] = content]
    /\ UNCHANGED <<content, writers>>

Change(c) ==
    /\ c \in inside /\ writers \subseteq {c}
    /\ writers' = {c}
    /\ \E new \in Contents : view' = [view EXCEPT ![c] = new]
    /\ UNCHANGED <<content, inside>>

Commit(c) ==
    /\ inside = {c} /\ writers = {c}
    /\ content' = view[c]
    /\ inside' = {} /\ writers' = {}
    /\ view' = [view EXCEPT ![c] = None]

End(c) ==
    /\ c \in inside
    /\ inside' = inside \ {c}
    /\ writers' = writers \ {c}
    /\ view' = [view EXCEPT ![c] = None]
    /\ UNCHANGED content

Next == \E c \in Connections : Start(c) \/ Change(c) \/ Commit(c) \/ End(c)

Spec == Init /\ [][Next]_vars

-----------------------------------------------------------------------------
\* Whoever has changed nothing sees the committed content, and goes on seeing
\* it while it stays inside.
ReadsAreCommitted == \A c \in inside \ writers : view[c] = content
=============================================================================
