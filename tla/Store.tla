------------------------------- MODULE Store -------------------------------
(***************************************************************************)
(* The write path of store.Store (src/store/store.go): Append enqueues      *)
(* batches of headers, one goroutine (flushLoop) moves them into the        *)
(* `pending' batch, walks the contiguous head up and the tail down, and     *)
(* flushes `pending' to the datastore together with the head and tail       *)
(* keys; Sync, Stop, Start and process crashes run against it.              *)
(*                                                                          *)
(* A header is its height: the chain the store is given is one chain, so    *)
(* height and hash determine each other.  0 stands for Go's nil / zero      *)
(* header and for an absent key.                                            *)
(***************************************************************************)
EXTENDS Integers, Sequences, FiniteSets

CONSTANTS
    MaxHeight,       \* heights are 1..MaxHeight (math.MaxUint64 in the code)
    Batches,         \* the batches callers may Append: intervals <<lo, hi>>
    QueueCap,        \* capacity of the writes channel (16 in newStore)
    WriteBatchSize,  \* Params.WriteBatchSize: pending size that forces a flush
    Budget           \* how many times each unbounded event may happen

Heights == 1..MaxHeight

\* The events that nothing in the code bounds (ioError: a read or a commit of
\* the datastore fails); Budget bounds each in the model.
Events == {"append", "stop", "timeout", "crash", "ioError"}

ASSUME StoreAssumption ==
    /\ MaxHeight \in Nat \ {0}
    /\ QueueCap \in Nat \ {0}
    /\ WriteBatchSize \in Nat \ {0}
    /\ Batches \subseteq {b \in Heights \X Heights : b[1] <= b[2]}
    /\ Budget \in [Events -> Nat]

\* The nil batch Stop enqueues to end the loop.
Nil == <<0, 0>>

\* The headers of a batch; Nil has none.
HeadersOf(b) == IF b = Nil THEN {} ELSE b[1]..b[2]

VARIABLES
    writes,     \* s.writes: queue of batches
    pending,    \* s.pending: headers not yet flushed
    disk,       \* heights whose header bytes are in the datastore (hashKey)
    index,      \* heights whose height index is in the datastore (heightKey)
    headKey,    \* height whose hash is under headKey, 0 if absent
    tailKey,    \* height whose hash is under tailKey, 0 if absent
    head,       \* s.contiguousHead, 0 = nil
    tail,       \* s.tailHeader, 0 = nil
    subHeight,  \* s.heightSub.height, what Store.Height() reports
    pc,         \* where flushLoop is; "off" when it does not run
    cur,        \* the batch flushLoop is handling
    draining,   \* flushLoop is inside the drain loop of a Sync request
    base,       \* nextHead/nextTail: the pointer loaded before the scan
    boundary,   \* nextHead/nextTail: the boundary reached by the scan
    toFlush,    \* snapshot of pending being flushed
    batchKeys,  \* <<head, tail>> put into the write batch being committed
    ctxDone,    \* flushLoop's context is cancelled
    writesDn,   \* s.writesDn is closed
    stop,       \* the Stop call: "none", "cancel", "wait"
    sync,       \* the Sync call: "none", "send", "wait", "ok", "stopped"
    accepted,   \* history: headers whose Append succeeded in this process
    syncSeen,   \* history: `accepted' when the current Sync was called
    left        \* remaining budget of each event

queueVars == <<writes, accepted>>
diskVars  == <<disk, index, headKey, tailKey>>
ptrVars   == <<head, tail, subHeight>>
loopVars  == <<pc, cur, draining, base, boundary, toFlush, batchKeys>>
lifeVars  == <<ctxDone, writesDn, stop>>
syncVars  == <<sync, syncSeen>>
vars == <<queueVars, pending, diskVars, ptrVars, loopVars, lifeVars, syncVars, left>>

PCs == {"off", "idle", "drain", "ensureInit", "append",
        "advance", "scanUp", "storeHead", "recede", "scanDown", "storeTail",
        "check", "load", "commit", "reset", "panic"}

TypeOK ==
    /\ writes \in Seq(Batches \cup {Nil})
    /\ pending \subseteq Heights /\ disk \subseteq Heights /\ index \subseteq Heights
    /\ headKey \in 0..MaxHeight /\ tailKey \in 0..MaxHeight
    /\ head \in 0..MaxHeight /\ tail \in 0..MaxHeight
    /\ subHeight \in 0..MaxHeight
    /\ pc \in PCs /\ cur \in Batches \cup {Nil} /\ draining \in BOOLEAN
    /\ base \in 0..MaxHeight /\ boundary \in 0..MaxHeight
    /\ toFlush \subseteq Heights
    /\ batchKeys \in (0..MaxHeight) \X (0..MaxHeight)
    /\ ctxDone \in BOOLEAN /\ writesDn \in BOOLEAN
    /\ stop \in {"none", "cancel", "wait"}
    /\ sync \in {"none", "send", "wait", "ok", "stopped"}
    /\ accepted \subseteq Heights /\ syncSeen \subseteq Heights
    /\ left \in [Events -> Nat]

Spend(e) == left[e] > 0 /\ left' = [left EXCEPT ![e] = @ - 1]

-----------------------------------------------------------------------------
\* What can be read.

\* hasHeaderAt: pending or indexed.
HasHeaderAt(h) == h \in pending \/ h \in index

\* getByHeight: the pointers, pending, then the index and the header under its hash.
GetByHeight(h) ==
    /\ h # 0
    /\ h \in {head, tail} \/ h \in pending \/ (h \in index /\ h \in disk)

\* Headers any reader finds without the head and tail pointers.
Stored == pending \cup (disk \cap index)

-----------------------------------------------------------------------------
\* Callers.

\* Append: the batch fits into the writes queue.  A full queue blocks the
\* caller, a closed writesDn or a done context then fails it: no state changes.
AppendBatch(b) ==
    /\ Len(writes) < QueueCap
    /\ Spend("append")
    /\ writes' = Append(writes, b)
    /\ accepted' = accepted \cup HeadersOf(b)
    /\ UNCHANGED <<pending, diskVars, ptrVars, loopVars, lifeVars, syncVars>>

\* Sync is called; it now offers its channel on syncCh.
SyncCall ==
    /\ sync = "none"
    /\ sync' = "send"
    /\ syncSeen' = accepted
    /\ UNCHANGED <<queueVars, pending, diskVars, ptrVars, loopVars, lifeVars, left>>

\* Either select of Sync sees writesDn closed: errStoppedStore.
SyncStopped ==
    /\ sync \in {"send", "wait"}
    /\ writesDn
    /\ sync' = "stopped"
    /\ UNCHANGED <<queueVars, pending, diskVars, ptrVars, loopVars, lifeVars, syncSeen, left>>

\* The caller's context ends first.
SyncTimeout ==
    /\ sync \in {"send", "wait"}
    /\ Spend("timeout")
    /\ sync' = "none" /\ syncSeen' = {}
    /\ UNCHANGED <<queueVars, pending, diskVars, ptrVars, loopVars, lifeVars>>

\* Sync has returned and its caller goes on.
SyncReturn ==
    /\ sync \in {"ok", "stopped"}
    /\ sync' = "none" /\ syncSeen' = {}
    /\ UNCHANGED <<queueVars, pending, diskVars, ptrVars, loopVars, lifeVars, left>>

\* Mutant of StopSend: a stopped store is stopped again.
StopSendAgain ==
    /\ stop = "none"
    /\ Len(writes) < QueueCap
    /\ Spend("stop")
    /\ writes' = Append(writes, Nil)
    /\ stop' = "cancel"
    /\ UNCHANGED <<accepted, pending, diskVars, ptrVars, loopVars, ctxDone, writesDn, syncVars>>

\* Stop: not stopped yet, so enqueue the nil batch ...
StopSend ==
    /\ stop = "none" /\ pc # "off" /\ ~writesDn
    /\ Len(writes) < QueueCap
    /\ Spend("stop")
    /\ writes' = Append(writes, Nil)
    /\ stop' = "cancel"
    /\ UNCHANGED <<accepted, pending, diskVars, ptrVars, loopVars, ctxDone, writesDn, syncVars>>

\* ... cancel the loop's context ...
StopCancel ==
    /\ stop = "cancel"
    /\ ctxDone' = TRUE
    /\ stop' = "wait"
    /\ UNCHANGED <<queueVars, pending, diskVars, ptrVars, loopVars, writesDn, syncVars, left>>

\* Mutant of StopReturn: deinit does not wait for the loop.
StopReturnEarly ==
    /\ stop = "wait"
    /\ stop' = "none"
    /\ head' = 0 /\ tail' = 0
    /\ UNCHANGED <<subHeight, queueVars, pending, diskVars, loopVars, ctxDone, writesDn, syncVars, left>>

\* ... and wait for the loop to end, then deinit: the pointers are cleared and
\* heightSub.SetHeight(0) changes nothing, because SetHeight only moves up.
StopReturn ==
    /\ stop = "wait" /\ writesDn
    /\ stop' = "none"
    /\ head' = 0 /\ tail' = 0
    /\ UNCHANGED <<subHeight, queueVars, pending, diskVars, loopVars, ctxDone, writesDn, syncVars, left>>

\* Stop's context ends while it waits: it returns without deinit.
StopTimeout ==
    /\ stop = "wait"
    /\ Spend("timeout")
    /\ stop' = "none"
    /\ UNCHANGED <<queueVars, pending, diskVars, ptrVars, loopVars, ctxDone, writesDn, syncVars>>

\* readByKey: the key resolves iff the header under its hash is found.
Resolves(key) == key # 0 /\ (key \in pending \/ key \in disk)

\* Start: recreate writesDn, init from the two keys (a key whose header is gone
\* is deleted and its pointer left alone), run flushLoop.  A Sync that still
\* waits holds the old, closed channel and returns errStoppedStore.
Start ==
    /\ pc = "off" /\ stop = "none"
    /\ writesDn' = FALSE
    /\ ctxDone' = FALSE
    /\ head' = IF Resolves(headKey) THEN headKey ELSE head
    /\ subHeight' = IF Resolves(headKey) THEN headKey ELSE subHeight
    /\ tail' = IF Resolves(tailKey) THEN tailKey ELSE tail
    /\ headKey' = IF Resolves(headKey) THEN headKey ELSE 0
    /\ tailKey' = IF Resolves(tailKey) THEN tailKey ELSE 0
    /\ pc' = "idle"
    /\ sync' = IF writesDn /\ sync \in {"send", "wait"} THEN "stopped" ELSE sync
    /\ UNCHANGED <<queueVars, pending, disk, index, cur, draining, base, boundary,
                   toFlush, batchKeys, stop, syncSeen, left>>

\* The process dies: only the datastore survives.  The next process makes a
\* new Store (newStore) that Start will initialise.
CrashMemory ==
    /\ writes' = <<>> /\ accepted' = {} /\ pending' = {}
    /\ head' = 0 /\ tail' = 0 /\ subHeight' = 0
    /\ pc' = "off" /\ cur' = Nil /\ draining' = FALSE
    /\ base' = 0 /\ boundary' = 0 /\ toFlush' = {} /\ batchKeys' = <<0, 0>>
    /\ ctxDone' = FALSE /\ writesDn' = FALSE /\ stop' = "none"
    /\ sync' = "none" /\ syncSeen' = {}

Crash ==
    /\ Spend("crash")
    /\ CrashMemory
    /\ UNCHANGED diskVars

-----------------------------------------------------------------------------
\* flushLoop.

callerVars == <<lifeVars, left>>

\* Mutant of Finish: writesDn is not closed.
FinishOpen ==
    /\ pc' = IF cur = Nil THEN "off" ELSE IF draining THEN "drain" ELSE "idle"
    /\ writesDn' = writesDn
    /\ draining' = (draining /\ cur # Nil)
    /\ cur' = Nil /\ base' = 0 /\ boundary' = 0

\* Back to the select that received the batch; nil ends the loop and closes writesDn.
Finish ==
    /\ pc' = IF cur = Nil THEN "off" ELSE IF draining THEN "drain" ELSE "idle"
    /\ writesDn' = (writesDn \/ cur = Nil)
    /\ draining' = (draining /\ cur # Nil)
    /\ cur' = Nil /\ base' = 0 /\ boundary' = 0

\* case dn := <-s.syncCh
RecvSync ==
    /\ pc = "idle" /\ sync = "send"
    /\ sync' = "wait"
    /\ pc' = "drain" /\ draining' = TRUE
    /\ UNCHANGED <<queueVars, pending, diskVars, ptrVars, cur, base, boundary,
                   toFlush, batchKeys, callerVars, syncSeen>>

\* case headers := <-s.writes, in the outer select and in the drain loop
RecvWrites ==
    /\ pc \in {"idle", "drain"} /\ writes # <<>>
    /\ cur' = Head(writes)
    /\ writes' = Tail(writes)
    /\ pc' = "ensureInit"
    /\ UNCHANGED <<accepted, pending, diskVars, ptrVars, draining, base, boundary,
                   toFlush, batchKeys, callerVars, syncVars>>

\* Mutant of DrainDone: Sync is answered with batches still queued.
DrainDoneEarly ==
    /\ pc = "drain"
    /\ sync' = IF sync = "wait" THEN "ok" ELSE sync
    /\ pc' = "idle" /\ draining' = FALSE
    /\ UNCHANGED <<queueVars, pending, diskVars, ptrVars, cur, base, boundary,
                   toFlush, batchKeys, callerVars, syncSeen>>

\* The drain loop finds the queue empty: close(dn).  The caller may have left.
DrainDone ==
    /\ pc = "drain" /\ writes = <<>>
    /\ sync' = IF sync = "wait" THEN "ok" ELSE sync
    /\ pc' = "idle" /\ draining' = FALSE
    /\ UNCHANGED <<queueVars, pending, diskVars, ptrVars, cur, base, boundary,
                   toFlush, batchKeys, callerVars, syncSeen>>

\* ensureInit: nil pointers are set to the last and the first header of the batch.
EnsureInit ==
    /\ pc = "ensureInit"
    /\ head' = IF cur # Nil /\ head = 0 THEN cur[2] ELSE head
    /\ subHeight' = IF cur # Nil /\ head = 0 THEN cur[2] ELSE subHeight
    /\ tail' = IF cur # Nil /\ tail = 0 THEN cur[1] ELSE tail
    /\ pc' = "append"
    /\ UNCHANGED <<queueVars, pending, diskVars, cur, draining, base, boundary,
                   toFlush, batchKeys, callerVars, syncVars>>

\* Mutant of AppendPending: the batch replaces what was pending.
AppendPendingReplace ==
    /\ pc = "append"
    /\ pending' = HeadersOf(cur)
    /\ pc' = "advance"
    /\ UNCHANGED <<queueVars, diskVars, ptrVars, cur, draining, base, boundary,
                   toFlush, batchKeys, callerVars, syncVars>>

\* pending.Append and heightSub.Notify
AppendPending ==
    /\ pc = "append"
    /\ pending' = pending \cup HeadersOf(cur)
    /\ pc' = "advance"
    /\ UNCHANGED <<queueVars, diskVars, ptrVars, cur, draining, base, boundary,
                   toFlush, batchKeys, callerVars, syncVars>>

\* nextHead: load the head; an empty store or a cancelled context leaves it alone.
AdvanceHead ==
    /\ pc = "advance"
    /\ base' = head /\ boundary' = head
    /\ pc' = IF head = 0 THEN "recede" ELSE "scanUp"
    /\ UNCHANGED <<queueVars, pending, diskVars, ptrVars, cur, draining,
                   toFlush, batchKeys, callerVars, syncVars>>

\* One iteration of nextHead's loop finds a header at boundary+1 ...
ScanUp ==
    /\ pc = "scanUp"
    /\ ~ctxDone /\ HasHeaderAt(boundary + 1)
    /\ boundary' = boundary + 1
    /\ UNCHANGED <<pc, queueVars, pending, diskVars, ptrVars, cur, draining, base,
                   toFlush, batchKeys, callerVars, syncVars>>

\* ... or the loop ends, and the boundary is the new head unless it did not
\* move, the context is cancelled or the header cannot be loaded.
ScanUpEnd ==
    /\ pc = "scanUp"
    /\ ctxDone \/ ~HasHeaderAt(boundary + 1)
    /\ pc' = IF boundary = base \/ ctxDone \/ ~GetByHeight(boundary)
               THEN "recede" ELSE "storeHead"
    /\ UNCHANGED <<queueVars, pending, diskVars, ptrVars, cur, draining, base, boundary,
                   toFlush, batchKeys, callerVars, syncVars>>

\* Mutant of SetHeight: heightSub is not told.
SetHeightNever(h) == subHeight' = subHeight

\* heightSub.SetHeight only moves up.
SetHeight(h) == subHeight' = IF h > subHeight THEN h ELSE subHeight

\* advanceHead publishes the new head.
StoreHead ==
    /\ pc = "storeHead"
    /\ head' = boundary
    /\ SetHeight(boundary)
    /\ pc' = "recede"
    /\ UNCHANGED <<tail, queueVars, pending, diskVars, cur, draining, base, boundary,
                   toFlush, batchKeys, callerVars, syncVars>>

\* Mutant of RecedeTail: the tail is not looked for below.
RecedeTailNever ==
    /\ pc = "recede"
    /\ base' = tail /\ boundary' = tail
    /\ pc' = "check"
    /\ UNCHANGED <<queueVars, pending, diskVars, ptrVars, cur, draining,
                   toFlush, batchKeys, callerVars, syncVars>>

\* nextTail: load the tail.
RecedeTail ==
    /\ pc = "recede"
    /\ base' = tail /\ boundary' = tail
    /\ pc' = IF tail = 0 THEN "check" ELSE "scanDown"
    /\ UNCHANGED <<queueVars, pending, diskVars, ptrVars, cur, draining,
                   toFlush, batchKeys, callerVars, syncVars>>

\* Mutant of ScanDown: neither the floor nor the lookup stops the scan.
ScanDownUnchecked ==
    /\ pc = "scanDown"
    /\ ~ctxDone
    /\ boundary' = boundary - 1
    /\ UNCHANGED <<pc, queueVars, pending, diskVars, ptrVars, cur, draining, base,
                   toFlush, batchKeys, callerVars, syncVars>>

ScanDown ==
    /\ pc = "scanDown"
    /\ ~ctxDone /\ boundary > 1 /\ HasHeaderAt(boundary - 1)
    /\ boundary' = boundary - 1
    /\ UNCHANGED <<pc, queueVars, pending, diskVars, ptrVars, cur, draining, base,
                   toFlush, batchKeys, callerVars, syncVars>>

ScanDownEnd ==
    /\ pc = "scanDown"
    /\ ctxDone \/ boundary <= 1 \/ ~HasHeaderAt(boundary - 1)
    /\ pc' = IF boundary = base \/ ctxDone \/ ~GetByHeight(boundary)
               THEN "check" ELSE "storeTail"
    /\ UNCHANGED <<queueVars, pending, diskVars, ptrVars, cur, draining, base, boundary,
                   toFlush, batchKeys, callerVars, syncVars>>

StoreTail ==
    /\ pc = "storeTail"
    /\ tail' = boundary
    /\ pc' = "check"
    /\ UNCHANGED <<head, subHeight, queueVars, pending, diskVars, cur, draining, base,
                   boundary, toFlush, batchKeys, callerVars, syncVars>>

\* A datastore read fails inside nextHead or nextTail: the pointer stays.
ScanError ==
    /\ pc \in {"scanUp", "scanDown"}
    /\ Spend("ioError")
    /\ pc' = IF pc = "scanUp" THEN "recede" ELSE "check"
    /\ UNCHANGED <<queueVars, pending, diskVars, ptrVars, cur, draining, base, boundary,
                   toFlush, batchKeys, lifeVars, syncVars>>

\* Mutant of SkipFlush: a small pending batch is kept when stopping too.
SkipFlushStopping ==
    /\ pc = "check"
    /\ Cardinality(pending) < WriteBatchSize
    /\ Finish
    /\ UNCHANGED <<queueVars, pending, diskVars, ptrVars, toFlush, batchKeys,
                   ctxDone, stop, left, syncVars>>

\* Flush only a pending batch that has grown enough, or anything when stopping.
SkipFlush ==
    /\ pc = "check"
    /\ Cardinality(pending) < WriteBatchSize /\ cur # Nil
    /\ Finish
    /\ UNCHANGED <<queueVars, pending, diskVars, ptrVars, toFlush, batchKeys,
                   ctxDone, stop, left, syncVars>>

\* Mutant of TakePending: pending is emptied before its flush.
TakePendingReset ==
    /\ pc = "check"
    /\ Cardinality(pending) >= WriteBatchSize \/ cur = Nil
    /\ toFlush' = pending /\ pending' = {}
    /\ pc' = "load"
    /\ UNCHANGED <<queueVars, diskVars, ptrVars, cur, draining, base, boundary,
                   batchKeys, callerVars, syncVars>>

TakePending ==
    /\ pc = "check"
    /\ Cardinality(pending) >= WriteBatchSize \/ cur = Nil
    /\ toFlush' = pending
    /\ pc' = "load"
    /\ UNCHANGED <<queueVars, pending, diskVars, ptrVars, cur, draining, base, boundary,
                   batchKeys, callerVars, syncVars>>

\* Mutant of LoadKeys: the keys delimit the headers being flushed.
LoadKeysOfBatch ==
    /\ pc = "load"
    /\ batchKeys' = IF toFlush = {} THEN batchKeys
                    ELSE <<CHOOSE h \in toFlush : \A g \in toFlush : g <= h,
                           CHOOSE h \in toFlush : \A g \in toFlush : h <= g>>
    /\ pc' = IF toFlush = {} THEN "reset" ELSE "commit"
    /\ UNCHANGED <<queueVars, pending, diskVars, ptrVars, cur, draining, base, boundary,
                   toFlush, callerVars, syncVars>>

\* flush: nothing to do without headers; otherwise dereference head and tail,
\* which panics on nil, and put both keys into the batch with the headers.
LoadKeys ==
    /\ pc = "load"
    /\ batchKeys' = IF toFlush = {} THEN batchKeys ELSE <<head, tail>>
    /\ pc' = CASE toFlush = {} -> "reset"
               [] toFlush # {} /\ (head = 0 \/ tail = 0) -> "panic"
               [] OTHER -> "commit"
    /\ UNCHANGED <<queueVars, pending, diskVars, ptrVars, cur, draining, base, boundary,
                   toFlush, callerVars, syncVars>>

\* Mutant of Commit: the height index is not written.
CommitNoIndex ==
    /\ pc = "commit"
    /\ disk' = disk \cup toFlush
    /\ index' = index
    /\ headKey' = batchKeys[1] /\ tailKey' = batchKeys[2]
    /\ pc' = "reset"
    /\ UNCHANGED <<queueVars, pending, ptrVars, cur, draining, base, boundary,
                   toFlush, batchKeys, callerVars, syncVars>>

\* batch.Commit: the datastore applies headers, height indexes and both keys at once.
Commit ==
    /\ pc = "commit"
    /\ disk' = disk \cup toFlush
    /\ index' = index \cup toFlush
    /\ headKey' = batchKeys[1] /\ tailKey' = batchKeys[2]
    /\ pc' = "reset"
    /\ UNCHANGED <<queueVars, pending, ptrVars, cur, draining, base, boundary,
                   toFlush, batchKeys, callerVars, syncVars>>

\* The batch fails: sleep and flush the same headers again, with fresh keys.
CommitError ==
    /\ pc = "commit"
    /\ Spend("ioError")
    /\ pc' = "load"
    /\ UNCHANGED <<queueVars, pending, diskVars, ptrVars, cur, draining, base, boundary,
                   toFlush, batchKeys, lifeVars, syncVars>>

\* pending.Reset
Reset ==
    /\ pc = "reset"
    /\ pending' = {} /\ toFlush' = {} /\ batchKeys' = <<0, 0>>
    /\ Finish
    /\ UNCHANGED <<queueVars, diskVars, ptrVars, ctxDone, stop, left, syncVars>>

LoopStep ==
    \/ RecvSync \/ RecvWrites \/ DrainDone
    \/ EnsureInit \/ AppendPending
    \/ AdvanceHead \/ ScanUp \/ ScanUpEnd \/ StoreHead
    \/ RecedeTail \/ ScanDown \/ ScanDownEnd \/ StoreTail \/ ScanError
    \/ SkipFlush \/ TakePending \/ LoadKeys \/ Commit \/ CommitError \/ Reset

CallerStep ==
    \/ SyncStopped \/ SyncTimeout
    \/ StopSend \/ StopCancel \/ StopReturn \/ StopTimeout
    \/ Start

\* newStore on an empty datastore.
NewStore ==
    /\ writes = <<>> /\ accepted = {} /\ pending = {}
    /\ disk = {} /\ index = {} /\ headKey = 0 /\ tailKey = 0
    /\ head = 0 /\ tail = 0 /\ subHeight = 0
    /\ pc = "off" /\ cur = Nil /\ draining = FALSE
    /\ base = 0 /\ boundary = 0 /\ toFlush = {} /\ batchKeys = <<0, 0>>
    /\ ctxDone = FALSE /\ writesDn = FALSE /\ stop = "none"
    /\ sync = "none" /\ syncSeen = {}

Init == NewStore /\ left = Budget

Next ==
    \/ \E b \in Batches : AppendBatch(b)
    \/ SyncCall \/ SyncReturn
    \/ CallerStep \/ LoopStep \/ Crash

Spec == Init /\ [][Next]_vars

-----------------------------------------------------------------------------
\* Correctness.

\* Where the headers of accepted batches still are before they reach pending.
Queued == UNION {HeadersOf(writes[i]) : i \in 1..Len(writes)}
InHand == IF pc \in {"ensureInit", "append"} THEN HeadersOf(cur) ELSE {}

\* "It disallows the creation of gaps ... ensuring contiguity between Tail --> Head"
\* (interface.go): head and tail are set together, tail is not above head, and
\* every height between them can be read, at every moment but the one between
\* ensureInit's pointers and the append to pending, whatever the order of
\* appends, flush retries, stops, crashes and restarts.
ContiguousRange ==
    pc # "append" =>
        /\ (head = 0) <=> (tail = 0)
        /\ head # 0 => tail <= head /\ tail..head \subseteq Stored

\* What a crash at this very moment leaves behind: both keys or none, and a
\* persisted header with its index at every height between them.
DurableRange ==
    /\ (headKey = 0) <=> (tailKey = 0)
    /\ headKey # 0 => tailKey <= headKey /\ tailKey..headKey \subseteq disk \cap index

\* No header a caller handed over is dropped on the way from the queue through
\* flushLoop and pending to the datastore, retries and stops included.
NothingDropped == accepted \subseteq Queued \cup InHand \cup pending \cup disk

\* A Stop that ran to its end leaves every header queued before it in the datastore.
StopIsDurable == (writesDn /\ pc = "off") => accepted \subseteq Queued \cup disk

\* Sync is a barrier: once it succeeds, all that was accepted before the call is
\* out of the queue and readable.
SyncBarrier == sync = "ok" => syncSeen \subseteq pending \cup disk

\* flush never dereferences a nil head or tail.
FlushHasPointers == pc # "panic"

\* "Height reports current height of the chain head" (interface.go), between batches.
HeightIsHead == pc \in {"idle", "drain"} => subHeight = head

\* "contiguousHead is the highest contiguous header observed" (store.go), and the
\* tail the lowest, between batches of a store that was never stopped and whose
\* datastore did not fail, crashes and restarts notwithstanding.
HeadIsHighest ==
    (/\ pc \in {"idle", "drain"} /\ head # 0
     /\ left["stop"] = Budget["stop"] /\ left["ioError"] = Budget["ioError"]) =>
        head + 1 \notin Stored /\ tail - 1 \notin Stored

\* While the loop runs the head never moves down and the tail never up.
PointersOnlyExtend ==
    [][(pc # "off" /\ pc' # "off" /\ head # 0) => head' >= head /\ tail' <= tail]_vars

\* Across crashes, restarts and retries the persisted range only grows.
PersistedRangeGrows ==
    [][headKey # 0 => headKey' >= headKey /\ tailKey' # 0 /\ tailKey' <= tailKey]_vars

\* Readers see Chain: appends in any order, retried flushes, stops, restarts and
\* crashes at any step only extend the range between Tail and Head while the
\* store runs, persist it without ever giving a part of it up, and lose nothing
\* but what a crash finds unpersisted.
Abstract == INSTANCE Chain WITH
    running <- pc # "off",
    range   <- <<tail, head>>,
    held    <- Stored \cup InHand,
    saved   <- <<tailKey, headKey>>,
    kept    <- disk \cap index

ImplementsChain == Abstract!Spec

\* As long as no call timed out, a store that nobody asked to stop since its
\* Start holds no left-over nil batch that would end its loop.
NoStrayStop ==
    (left["timeout"] = Budget["timeout"] /\ ~ctxDone /\ stop = "none") =>
        \A i \in 1..Len(writes) : writes[i] # Nil

\* Liveness: the loop and the goroutines inside Sync and Stop keep being
\* scheduled.  Timeouts, crashes, Start and Append are choices of the callers.
Fairness ==
    /\ WF_vars(LoopStep)
    /\ WF_vars(SyncStopped)
    /\ WF_vars(StopCancel \/ StopReturn)

FairSpec == Spec /\ Fairness

\* Whatever stops, retries and timeouts race them: a Sync on a started store
\* returns, Stop returns because the loop reaches its nil batch and closes
\* writesDn, and an Append blocked by a full queue gets room or the store stops.
StoreCallsReturn ==
    /\ (sync \in {"send", "wait"} /\ pc # "off") ~> (sync \notin {"send", "wait"})
    /\ (stop # "none") ~> (stop = "none")
    /\ (Len(writes) = QueueCap /\ pc # "off") ~> (Len(writes) < QueueCap \/ pc = "off")
=============================================================================
