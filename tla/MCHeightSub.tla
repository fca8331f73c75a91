---------------------------- MODULE MCHeightSub ----------------------------
(* Small instances of HeightSub for TLC. *)
EXTENDS HeightSub

\* Batches of one and two headers.
ChainBatches == {<<1, 1>>, <<2, 2>>, <<2, 3>>, <<3, 4>>}

\* An empty store, or one that holds height 1.
MCStarts == {{}, {1}}
=============================================================================
