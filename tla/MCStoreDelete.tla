--------------------------- MODULE MCStoreDelete ---------------------------
(* Small instances of StoreDelete for TLC. *)
EXTENDS StoreDelete

MCRanges == {r \in (1..MaxHeight) \X (2..MaxHeight + 1) : r[1] < r[2]}

\* Batches that touch, overlap and leave gaps.
AnyBatches == {<<1, 2>>, <<3, 4>>, <<2, 2>>}
\* Adjacent batches of one and two headers.
ChainBatches == {<<1, 1>>, <<1, 2>>, <<2, 3>>, <<3, 3>>, <<4, 5>>}
MCBatches == AnyBatches \cup ChainBatches

Calm == [append |-> 3, stop |-> 0, timeout |-> 0, crash |-> 0, ioError |-> 0]
Stopping == [Calm EXCEPT !.append = 2, !.stop = 1, !.timeout = 1]

\* Two deletions of any kind between appends in any order, a datastore without batches.
Serial == [batched |-> FALSE, threshold |-> 9, overlap |-> FALSE, inOrder |-> FALSE,
           headSide |-> TRUE, batches |-> AnyBatches, deletes |-> 2, failures |-> 0,
           failing |-> {}, budget |-> Calm]

\* One pruning that overlaps with appends, a failing step and a crash.
Pruning == [batched |-> TRUE, threshold |-> 9, overlap |-> TRUE, inOrder |-> TRUE,
            headSide |-> FALSE, batches |-> ChainBatches, deletes |-> 1, failures |-> 1,
            failing |-> {"delete", "commit", "key"}, budget |-> [Calm EXCEPT !.crash = 1]]

\* Any deletion against Stop, timeouts, failures and appends.
Stops == [batched |-> TRUE, threshold |-> 9, overlap |-> TRUE, inOrder |-> TRUE,
          headSide |-> TRUE, batches |-> {<<1, 2>>, <<3, 4>>}, deletes |-> 1, failures |-> 1,
          failing |-> {"delete", "commit", "key"}, budget |-> [Stopping EXCEPT !.ioError = 1]]

\* Prunings by parallel workers with a failing job.
Parallel == [batched |-> TRUE, threshold |-> 2, overlap |-> FALSE, inOrder |-> TRUE,
             headSide |-> FALSE, batches |-> ChainBatches, deletes |-> 2, failures |-> 1,
             failing |-> {"delete", "key"}, budget |-> Calm]

\* Prunings apart from the appends, cut short, and failing to commit or to write the key.
Failing(kinds) == [Parallel EXCEPT !.threshold = 9, !.failures = 2, !.failing = kinds]

AllModes == {Serial, Pruning, Stops, Parallel, Failing({"delete", "commit"}), Failing({"delete", "key"})}

\* Two prunings that overlap with appends.
RaceModes == {[Pruning EXCEPT !.deletes = 2, !.failures = 0, !.budget = Calm]}

\* A wipe and a Stop.
WipeModes == {[Stops EXCEPT !.overlap = FALSE, !.inOrder = FALSE, !.failures = 0, !.budget = Stopping]}
=============================================================================
