----------------------------- MODULE MCKeeperRun -----------------------------
(* A deviation that is a breach for one band, one limit or both.              *)
EXTENDS KeeperRun

MCDeltas == {0, -4}
MCBands == {[trigger |-> 3, exit |-> 2], [trigger |-> 5, exit |-> 4]}
MCLimits == {3, Unpublished}
=============================================================================
