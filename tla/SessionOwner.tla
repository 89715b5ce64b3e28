--------------------------- MODULE SessionOwner ----------------------------
(***************************************************************************)
(* What the daemon's table of BAL sessions promises to the rest of it: a   *)
(* session belongs to the connection that logged on last, as long as that  *)
(* connection is open, and to no other.                                    *)
(***************************************************************************)
CONSTANTS Conns, Sessions, NoConn

VARIABLES open, owner

Init == open = {} /\ owner = [s \in Sessions |-> NoConn]

Connect(c) ==
    /\ c \notin open
    /\ open' = open \cup {c}
    /\ UNCHANGED owner

\* A connection logs on; an earlier owner, if there is one, is replaced.
Logon(c, s) ==
    /\ c \in open
    /\ \A t \in Sessions : owner[t] # c
    /\ owner' = [owner EXCEPT ![s] = c]
    /\ UNCHANGED open

\* A connection ends: a session it owns has no owner, all others keep theirs.
Close(c) ==
    /\ c \in open
    /\ open' = open \ {c}
    /\ owner' = [s \in Sessions |-> IF owner[s] = c THEN NoConn ELSE owner[s]]

Next == \E c \in Conns : Connect(c) \/ Close(c) \/ \E s \in Sessions : Logon(c, s)

Spec == Init /\ [][Next]_<<open, owner>>
=============================================================================
