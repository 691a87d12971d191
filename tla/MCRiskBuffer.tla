---------------------------- MODULE MCRiskBuffer ----------------------------
(* A small book: up to two units of supply, five points of target per unit of *)
(* buffer, carries on both sides of the floor and of the reopening margin.    *)
EXTENDS RiskBuffer

MCAmounts == {0, 1, 3, 22}
MCCarries == {-12, -10, -9, -5, 2}
=============================================================================
