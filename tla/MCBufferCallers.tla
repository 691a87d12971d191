-------------------------- MODULE MCBufferCallers ---------------------------
(* Both callers, on the ladder's coverages and on the small book.            *)
EXTENDS BufferCallers, MCRiskBuffer, MCStageHysteresis
=============================================================================
