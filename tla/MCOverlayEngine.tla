--------------------------- MODULE MCOverlayEngine ---------------------------
(* txB spends the output of txA and txC both outputs of txB.  The chain; a   *)
(* parent submitted again beside its child; one transaction submitted twice *)
(* to two topics.                                                            *)
EXTENDS OverlayEngine, TLC

CONSTANTS t1, t2, txA, txB, txC, a, b1, b2, sA, sA2, sB, sC, wA, wA2

TwoTopics == {t1, t2}
AllTxs == {txA, txB, txC}
AllOuts == {a, b1, b2}
Makers == a :> txA @@ b1 :> txB @@ b2 :> txB
Spends == txA :> {} @@ txB :> {a} @@ txC :> {b1, b2}
AllSubs == {sA, sA2, sB, sC, wA, wA2}
SubTx == sA :> txA @@ sA2 :> txA @@ sB :> txB @@ sC :> txC
         @@ wA :> txA @@ wA2 :> txA
SubTopics == [s \in AllSubs |-> IF s \in {wA, wA2} THEN <<t1, t2>> ELSE <<t1>>]
AnyWorkload == {{sA, sB, sC}, {sA, sA2, sB}, {wA, wA2}}
=============================================================================
