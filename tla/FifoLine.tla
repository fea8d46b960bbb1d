------------------------------ MODULE FifoLine ------------------------------
(***************************************************************************)
(* A counter served in the order of arrival: the abstract specification of *)
(* the storage manager's locks.  A client joins the end of the line; only  *)
(* the first in the line is let in; it leaves the line for good when it is *)
(* done, or gives up once it is first.  The counter may close for good:    *)
(* from then on nothing is promised.                                       *)
(***************************************************************************)
EXTENDS Naturals, Sequences

CONSTANT Clients

VARIABLES
    line,    \* the clients, in their order of arrival
    inside,  \* the clients being served
    left,    \* the clients that are gone
    broken   \* the counter has closed

lineVars == <<line, inside, left, broken>>

Init == line = <<>> /\ inside = {} /\ left = {} /\ broken = FALSE

Join(c) ==
    /\ c \notin left
    /\ \A i \in DOMAIN line : line[i] # c
    /\ line' = Append(line, c)
    /\ UNCHANGED <<inside, left, broken>>

Enter(c) ==
    /\ line # <<>> /\ Head(line) = c
    /\ inside = {}
    /\ inside' = {c}
    /\ UNCHANGED <<line, left, broken>>

\* The first in the line is done, or is refused when its turn comes.
Leave(c) ==
    /\ line # <<>> /\ Head(line) = c
    /\ inside \subseteq {c}
    /\ line' = Tail(line)
    /\ inside' = {}
    /\ left' = left \cup {c}
    /\ UNCHANGED broken

Close == broken' = TRUE /\ line' = <<>> /\ inside' = {} /\ left' = {}

Next == Close \/ (~broken /\ \E c \in Clients : Join(c) \/ Enter(c) \/ Leave(c))

Spec == Init /\ [][Next]_lineVars
=============================================================================
