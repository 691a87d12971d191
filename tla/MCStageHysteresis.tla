------------------------- MODULE MCStageHysteresis --------------------------
(* StageHysteresis on both sides of every trigger and of every easing edge.  *)
EXTENDS StageHysteresis

MCCoverages == {0, 1, 5, 6, 24, 25, 30, 31, 49, 50, 51, 55, 56,
                74, 75, 76, 80, 81, 110}
=============================================================================
