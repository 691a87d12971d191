---------------------------- MODULE MCDeltaAction ----------------------------
(* Deviations inside the limit, outside it on either side, and attested only  *)
(* under the wider of two exit bands.                                         *)
EXTENDS DeltaAction

MCDeltas == {-4, 0, 4}
MCBands == {[trigger |-> 3, exit |-> 2], [trigger |-> 5, exit |-> 4]}
=============================================================================
