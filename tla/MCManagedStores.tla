-------------------------- MODULE MCManagedStores ---------------------------
(* Small instances of ManagedStores.                                       *)
EXTENDS ManagedStores

CONSTANTS s1, s2, s3, p1, p2, w1

ThreeStores == {s1, s2, s3}
TwoCalls == {p1, p2}
OneWrite == {w1}

\* One call at a time over three stores: a write and three switches; or two switches
\* and a restart anywhere.
MoreSwitches ==
    {[stores |-> ThreeStores, procs |-> {p1}, storeFails |-> FALSE, writes |-> OneWrite,
      switches |-> 3, restarts |-> 0]}
WithRestart ==
    {[stores |-> ThreeStores, procs |-> {p1}, storeFails |-> FALSE, writes |-> {},
      switches |-> 2, restarts |-> 1]}

\* Two stores with failing requests: two calls interleaved; or one call and a write.
Interleaved ==
    {[stores |-> {s1, s2}, procs |-> TwoCalls, storeFails |-> TRUE, writes |-> {},
      switches |-> 2, restarts |-> 0]}
FailingRequests ==
    {[stores |-> {s1, s2}, procs |-> {p1}, storeFails |-> TRUE, writes |-> OneWrite,
      switches |-> 2, restarts |-> 0]}

AllKinds == MoreSwitches \cup WithRestart \cup Interleaved
=============================================================================
