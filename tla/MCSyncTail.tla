----------------------------- MODULE MCSyncTail -----------------------------
(* Small instances of SyncTail for TLC. *)
EXTENDS SyncTail

\* What the sync loop and new heads bring: the next headers, and one after a gap.
MCBatches == {<<5, 6>>, <<6, 6>>}

\* Blocks at the limit of BlockTime, and faster ones.
Even == [h \in 1..6 |-> 2 * h]
Fast == [h \in 1..6 |-> IF h <= 5 THEN h ELSE 7]

Scenario(store, kind, height, clock, heads) ==
    [tail |-> store[1], head |-> store[2], kind |-> kind, height |-> height, clock |-> clock,
     heads |-> heads]

\* The first start; pruning by the window, also for two heads one of which leaves the tail
\* alone; a tail to be moved down, also below a store of a single header, up, and above the
\* head; one given by its hash.
MCScenarios ==
    {Scenario(<<0, 0>>, "window", 0, Even, {6}), Scenario(<<1, 5>>, "window", 0, Even, {6}),
     Scenario(<<1, 4>>, "window", 0, Fast, {5, 6}), Scenario(<<3, 4>>, "height", 1, Even, {6}),
     Scenario(<<4, 4>>, "height", 2, Even, {6}), Scenario(<<1, 4>>, "height", 6, Even, {6}),
     Scenario(<<3, 4>>, "hash", 2, Even, {6}), Scenario(<<1, 5>>, "hash", 2, Even, {6})}

MCStores == {<<0, 0>>, <<1, 4>>, <<1, 5>>, <<3, 4>>, <<4, 4>>}
=============================================================================
