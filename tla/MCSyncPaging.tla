---------------------------- MODULE MCSyncPaging ----------------------------
(***************************************************************************)
(* Small instances of SyncPaging.                                          *)
(***************************************************************************)
EXTENDS SyncPaging, TLC

CONSTANTS a, b, c, t1, t2, o1

OneWay == {<<a, b>>}
\* c is merged into a (setActive with conflicting actives), a is copied to b.
Relay == {<<c, a>>, <<a, b>>}

\* Two transactions, and an output of the first.
MCKind == (t1 :> 1) @@ (t2 :> 1) @@ (o1 :> 2)
MCParent == (t1 :> t1) @@ (t2 :> t2) @@ (o1 :> t1)

(***************************************************************************)
(* A page goes in one request and never arrives late, or it is staged and  *)
(* may; or the user record changes under way.                              *)
(***************************************************************************)
Steady ==
    {[sizes |-> {2}, sends |-> {"inline"}, late |-> {},
      writes |-> ({a} \X Keys) \cup {<<b, t1>>}, users |-> {}],
     [sizes |-> {1, 2}, sends |-> {"inline"}, late |-> {},
      writes |-> {a} \X Keys, users |-> {a}],
     [sizes |-> {1, 2}, sends |-> {"staged"}, late |-> {"staged"},
      writes |-> {a} \X {t1, t2}, users |-> {}]}

\* Nothing fails and nothing is late: c and a were written apart.
Apart == {[sizes |-> {2}, sends |-> {"inline"}, late |-> {},
           writes |-> {<<c, t1>>, <<c, o1>>, <<a, t2>>}, users |-> {}]}
=============================================================================
