------------------------------ MODULE MCStore ------------------------------
(* A small instance of Store for TLC. *)
EXTENDS Store

\* Batches that meet in every order: the same one twice, adjacent ones and ones with a gap.
MCBatches == {<<1, 1>>, <<2, 3>>, <<4, 4>>}

\* Stops and restarts of one Store object, a timeout, a crash and a failing read or commit.
MCBudget == [append |-> 2, stop |-> 2, timeout |-> 1, crash |-> 1, ioError |-> 1]
=============================================================================
