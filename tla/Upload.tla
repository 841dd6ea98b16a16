-------------------------------- MODULE Upload --------------------------------
(***************************************************************************)
(* What an FTP session promises to a program that uploads a file and does  *)
(* not look at replies: what the server has stored is at any time a prefix *)
(* of what has been sent, and a session that ends without an exception has *)
(* sent all of it, unless the server was at fault.                         *)
(***************************************************************************)
EXTENDS Integers

VARIABLES
    size,       \* units of the file
    sent,       \* units the client has sent
    stored,     \* units the server has stored, -1 before it creates the file
    outcome,    \* of the client: running, done or failed
    reliable    \* the server serves this session to its end

vars == <<size, sent, stored, outcome, reliable>>

Init == /\ size \in Nat
        /\ sent = 0 /\ stored = -1
        /\ outcome = "running"
        /\ reliable \in BOOLEAN

Send == /\ outcome = "running" /\ sent < size
        /\ sent' = sent + 1
        /\ UNCHANGED <<size, stored, outcome, reliable>>

Store == /\ stored < sent
         /\ stored' = stored + 1
         /\ UNCHANGED <<size, sent, outcome, reliable>>

Finish == /\ outcome = "running"
          /\ reliable => sent = size
          /\ outcome' = "done"
          /\ UNCHANGED <<size, sent, stored, reliable>>

Fail == /\ outcome = "running"
        /\ outcome' = "failed"
        /\ UNCHANGED <<size, sent, stored, reliable>>

Next == Send \/ Store \/ Finish \/ Fail

Spec == Init /\ [][Next]_vars
=============================================================================
