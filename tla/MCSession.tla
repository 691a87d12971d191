------------------------------ MODULE MCSession ------------------------------
(* One user and one keeper, two oracles, and integers so narrow that amounts  *)
(* of 4 are out of their range.                                               *)
EXTENDS ProtocolSession

MCWidth == [u8 |-> 0 .. 1, u64 |-> 0 .. 3, i32 |-> -1 .. 1]
MCUsers == {<<"wallet", "user">>}
MCKeepers == {<<"wallet", "keeper">>}
MCOracles == {<<"account", "oracle">>, <<"account", "repointed">>}
MCGiven == {Default, <<"account", "given">>}
MCHashes == {NoHash, <<"hash", "h">>}
MCSigned == {-1, 1}
=============================================================================
