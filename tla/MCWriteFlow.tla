----------------------------- MODULE MCWriteFlow -----------------------------
(* Two invocations; the clock passes through two values and --nonce has one   *)
(* of its own.  The invocations and the contexts are interchangeable.         *)
EXTENDS WriteFlow, TLC

MCSymmetry == Permutations(Runs) \cup Permutations(Contexts)
=============================================================================
