---------------------------- MODULE MCPeerAuth ------------------------------
(* Two peers that call each other; one of them keeps a single session.     *)
EXTENDS PeerAuth

CONSTANTS a, b, c1, c2

TwoPeers == {a, b}
TwoCalls == {c1, c2}
FromEach == [c \in TwoCalls |-> IF c = c1 THEN a ELSE b]
ToEach == [c \in TwoCalls |-> IF c = c1 THEN b ELSE a]
OnlyA == {a}
OnlyB == {b}
RoomAtA == [p \in TwoPeers |-> IF p = a THEN 2 ELSE 1]
FromA == {"initialRequest", "general"} \X {a}
=============================================================================
