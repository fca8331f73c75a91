----------------------------- MODULE ReadCache -----------------------------
(***************************************************************************)
(* The two read caches of store.Store (the headers of Get and the height    *)
(* index of HashByHeight) between readers that fill them, a DeleteRange     *)
(* that empties them, and flushLoop, whose search for a lower tail asks     *)
(* them first.                                                              *)
(*                                                                          *)
(* The datastore has batches, so a header and its index appear and go       *)
(* together: `stored'.  A header is its height.  The head side of flushLoop *)
(* and the failures of DeleteRange are module StoreDelete's subject.        *)
(***************************************************************************)
EXTENDS Integers

CONSTANTS
    Readers,      \* goroutines in Store.GetByHeight
    MaxHeight,    \* bound on the chain
    InitialHead   \* the store starts with the headers 1..InitialHead

VARIABLES
    stored,      \* the datastore
    pending,     \* s.pending
    head, tail,  \* the pointers
    hcache,      \* s.cache
    icache,      \* s.heightIndex.cache
    rpc,         \* where each reader is
    reading,     \* the height it asked for
    lpc,         \* where flushLoop is
    base,        \* the tail nextTail loaded
    boundary,    \* the lowest header it found
    dpc,         \* where DeleteRange is
    to, next,    \* its argument and the next height to delete
    batch        \* its uncommitted deletes

readVars == <<rpc, reading>>
loopVars == <<lpc, base, boundary>>
delVars  == <<dpc, to, next, batch>>
cacheVars == <<hcache, icache>>
ptrVars == <<head, tail>>
vars == <<stored, pending, ptrVars, cacheVars, readVars, loopVars, delVars>>

Init ==
    /\ stored = 1..InitialHead /\ pending = {}
    /\ head = InitialHead /\ tail = 1
    /\ hcache = {} /\ icache = {}
    /\ rpc = [r \in Readers |-> "idle"] /\ reading = [r \in Readers |-> 0]
    /\ lpc = "idle" /\ base = 0 /\ boundary = 0
    /\ dpc = "none" /\ to = 0 /\ next = 0 /\ batch = {}

-----------------------------------------------------------------------------
\* Readers: getByHeight once the pointers and pending did not have the header.

Step(r, from, label) == rpc[r] = from /\ rpc' = [rpc EXCEPT ![r] = label]

ReadCall(r, h) ==
    /\ Step(r, "idle", "hash")
    /\ h \notin {head, tail} \cup pending
    /\ reading' = [reading EXCEPT ![r] = h]
    /\ UNCHANGED <<stored, pending, ptrVars, cacheVars, loopVars, delVars>>

\* HashByHeight: the index cache, then the datastore.
HashByHeight(r) ==
    /\ Step(r, "hash", CASE reading[r] \in icache -> "get"
                         [] reading[r] \in stored \ icache -> "addHash"
                         [] OTHER -> "idle")
    /\ UNCHANGED <<stored, pending, ptrVars, cacheVars, reading, loopVars, delVars>>

AddHash(r) ==
    /\ Step(r, "addHash", "get")
    /\ icache' = icache \cup {reading[r]}
    /\ UNCHANGED <<stored, pending, ptrVars, hcache, reading, loopVars, delVars>>

\* Get: the header cache, pending, then the datastore.
Get(r) ==
    /\ Step(r, "get", IF reading[r] \in stored \ (hcache \cup pending) THEN "addHeader" ELSE "idle")
    /\ UNCHANGED <<stored, pending, ptrVars, cacheVars, reading, loopVars, delVars>>

AddHeader(r) ==
    /\ Step(r, "addHeader", "idle")
    /\ hcache' = hcache \cup {reading[r]}
    /\ UNCHANGED <<stored, pending, ptrVars, icache, reading, loopVars, delVars>>

\* Either cache drops an entry to make room.
Evict(h) ==
    /\ \/ h \in hcache /\ hcache' = hcache \ {h} /\ UNCHANGED icache
       \/ h \in icache /\ icache' = icache \ {h} /\ UNCHANGED hcache
    /\ UNCHANGED <<stored, pending, ptrVars, readVars, loopVars, delVars>>

-----------------------------------------------------------------------------
\* flushLoop.

\* An adjacent header is appended to pending and becomes the head.  Callers keep
\* appends and deletions apart: what they do to each other is StoreDelete's subject.
AppendPending ==
    /\ lpc = "idle" /\ dpc = "none" /\ head < MaxHeight
    /\ pending' = pending \cup {head + 1} /\ head' = head + 1
    /\ lpc' = "recede"
    /\ UNCHANGED <<stored, tail, cacheVars, readVars, base, boundary, delVars>>

\* nextTail loads the tail ...
RecedeTail ==
    /\ lpc = "recede"
    /\ base' = tail /\ boundary' = tail /\ lpc' = "scan"
    /\ UNCHANGED <<stored, pending, ptrVars, cacheVars, readVars, delVars>>

\* hasHeaderAt: pending, the index cache, the datastore's index.
HasHeaderAt(h) == h \in pending \cup icache \cup stored

\* ... goes down as long as there are headers ...
ScanDown ==
    /\ lpc = "scan" /\ boundary > 1 /\ HasHeaderAt(boundary - 1)
    /\ boundary' = boundary - 1
    /\ UNCHANGED <<stored, pending, ptrVars, cacheVars, readVars, lpc, base, delVars>>

\* getByHeight in one step; the cache fills it causes are added.
Found(h) ==
    \/ h \in {head, tail} \cup pending
    \/ h \in icache \cup stored /\ h \in hcache \cup stored

\* ... loads the header there, through the caches, ...
ScanEnd ==
    /\ lpc = "scan" /\ (boundary <= 1 \/ ~HasHeaderAt(boundary - 1))
    /\ lpc' = IF boundary # base /\ Found(boundary) THEN "storeTail" ELSE "flush"
    /\ IF boundary # base /\ boundary \in stored \ ({head, tail} \cup pending)
         THEN hcache' = hcache \cup {boundary} /\ icache' = icache \cup {boundary}
         ELSE UNCHANGED cacheVars
    /\ UNCHANGED <<stored, pending, ptrVars, readVars, base, boundary, delVars>>

\* ... and recedeTail publishes it.
StoreTail ==
    /\ lpc = "storeTail"
    /\ tail' = boundary /\ lpc' = "flush"
    /\ UNCHANGED <<stored, pending, head, cacheVars, readVars, base, boundary, delVars>>

\* flush, when pending has grown enough.
Flush ==
    /\ lpc = "flush" /\ lpc' = "idle"
    /\ \/ UNCHANGED <<stored, pending>>
       \/ stored' = stored \cup pending /\ pending' = {}
    /\ UNCHANGED <<ptrVars, cacheVars, readVars, base, boundary, delVars>>

-----------------------------------------------------------------------------
\* DeleteRange of [tail, h), after its Sync.

DeleteRange(h) ==
    /\ dpc = "none" /\ lpc = "idle"
    /\ tail < h /\ h <= head
    /\ dpc' = "delete" /\ to' = h /\ next' = tail
    /\ UNCHANGED <<stored, pending, ptrVars, cacheVars, readVars, loopVars, batch>>

\* deleteSingle: the deletes go into the batch, the caches are emptied at once.
\* A height without an index is skipped.
DeleteSingle ==
    /\ dpc = "delete" /\ next < to
    /\ next' = next + 1
    /\ IF next \in icache \cup stored
         THEN /\ batch' = batch \cup {next}
              /\ hcache' = hcache \ {next} /\ icache' = icache \ {next}
              /\ pending' = pending \ {next}
         ELSE UNCHANGED <<batch, cacheVars, pending>>
    /\ UNCHANGED <<stored, ptrVars, readVars, loopVars, dpc, to>>

CommitBatch ==
    /\ dpc = "delete" /\ next = to
    /\ stored' = stored \ batch /\ batch' = {}
    /\ dpc' = "setTail"
    /\ UNCHANGED <<pending, ptrVars, cacheVars, readVars, loopVars, to, next>>

SetTail ==
    /\ dpc = "setTail" /\ dpc' = "none"
    /\ tail' = IF Found(to) THEN to ELSE tail
    /\ to' = 0 /\ next' = 0
    /\ UNCHANGED <<stored, pending, head, cacheVars, readVars, loopVars, batch>>

-----------------------------------------------------------------------------
Next ==
    \/ \E r \in Readers : \/ \E h \in 1..head : ReadCall(r, h)
                          \/ HashByHeight(r) \/ AddHash(r) \/ Get(r) \/ AddHeader(r)
    \/ \E h \in 1..MaxHeight : Evict(h)
    \/ AppendPending \/ RecedeTail \/ ScanDown \/ ScanEnd \/ StoreTail \/ Flush
    \/ \E h \in 2..MaxHeight : DeleteRange(h)
    \/ DeleteSingle \/ CommitBatch \/ SetTail

Spec == Init /\ [][Next]_vars

\* "DeleteRange deletes the range [from:to)" (interface.go): between two batches
\* and outside of a deletion the tail is a header the store still has, so a
\* restart finds it under the tail key and a pruned header does not come back.
TailIsStored == (dpc = "none" /\ lpc = "idle") => tail \in stored \cup pending
=============================================================================
