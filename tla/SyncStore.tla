----------------------------- MODULE SyncStore -----------------------------
(***************************************************************************)
(* syncStore (src/sync/sync_store.go): the Syncer's wrapper that gives a    *)
(* store whose Append is asynchronous a synchronous Head.  Appenders (the   *)
(* sync loop, new network heads, tail moves) and Head readers run           *)
(* concurrently; the wrapped store accepts batches and makes them part of   *)
(* its own head later.                                                      *)
(***************************************************************************)
EXTENDS Integers, Sequences, FiniteSets

CONSTANTS
    Appenders,    \* goroutines calling syncStore.Append
    Readers,      \* goroutines calling syncStore.Head
    MaxHeight,    \* heights are 1..MaxHeight
    Batches,      \* contiguous batches <<lo, hi>> appenders may pass
    InitialStores,\* <<tail, head>> of the wrapped store at the start, <<0, 0>> when it is empty
    MaxAppends,   \* bound on the Append calls of each appender
    MaxHeads,     \* bound on the Head calls of each reader
    MaxErrors     \* bound on failing Store.Append calls

Heights == 1..MaxHeight
Spans == {b \in Heights \X Heights : b[1] <= b[2]}
None == <<0, 0>>

ASSUME SyncStoreAssumption ==
    /\ MaxHeight \in Nat \ {0}
    /\ Batches \subseteq Spans
    /\ InitialStores \subseteq Spans \cup {None}
    /\ MaxAppends \in Nat /\ MaxHeads \in Nat /\ MaxErrors \in Nat
    /\ Appenders \cap Readers = {}


VARIABLES
    cached,     \* s.head, 0 = nil
    sem,        \* holders of appendSem: a channel of capacity one
    storeHead,  \* what the wrapped Store.Head returns, 0 = ErrEmptyStore
    storeTail,  \* what the wrapped Store.Tail returns, 0 = ErrEmptyStore
    stored,     \* the headers it has applied
    queue,      \* batches it has accepted and not yet applied
    pc,         \* per goroutine
    batch,      \* per appender, its argument
    loc,        \* per goroutine, the head it read
    outcome,    \* per appender, what its last Append returned
    calls, errors

storeVars == <<storeHead, storeTail, stored, queue>>
syncStoreVars == <<cached, sem, storeVars, pc, batch, loc, outcome, calls, errors>>

Procs == Appenders \cup Readers

SyncStoreTypeOK ==
    /\ cached \in 0..MaxHeight
    /\ sem \subseteq Appenders
    /\ storeHead \in 0..MaxHeight
    /\ queue \in Seq(Spans)
    /\ stored \subseteq Heights /\ storeTail \in 0..MaxHeight
    /\ outcome \in [Appenders -> {"none", "nil", "nonAdjacent", "error"}]
    /\ pc \in [Procs -> {"idle", "lock", "head", "storeHead", "cas", "decide", "empty",
                         "publish", "done"}]
    /\ batch \in [Appenders -> Spans \cup {None}]
    /\ loc \in [Procs -> 0..MaxHeight]
    /\ calls \in [Procs -> Nat]
    /\ \A a \in Appenders : calls[a] <= MaxAppends
    /\ \A r \in Readers : calls[r] <= MaxHeads
    /\ errors \in 0..MaxErrors

Goto(p, l) == pc' = [pc EXCEPT ![p] = l]
Read(p, h) == loc' = [loc EXCEPT ![p] = h]

\* The batch starts at or above the head the appender read.
advance(a) == batch[a][1] >= loc[a]

-----------------------------------------------------------------------------
\* Head, by readers and inside Append.

\* The call of a reader.
HeadCall(r) ==
    /\ pc[r] = "idle" /\ calls[r] < MaxHeads
    /\ calls' = [calls EXCEPT ![r] = @ + 1]
    /\ Goto(r, "head")
    /\ UNCHANGED <<cached, sem, storeVars, batch, outcome, loc, errors>>

AfterHead(p) == IF p \in Readers THEN "done" ELSE "decide"

\* A cached head is returned as it is ...
HeadCached(p) ==
    /\ pc[p] = "head" /\ cached # 0
    /\ Read(p, cached)
    /\ Goto(p, AfterHead(p))
    /\ UNCHANGED <<cached, sem, storeVars, batch, outcome, calls, errors>>

HeadMiss(p) ==
    /\ pc[p] = "head" /\ cached = 0
    /\ Goto(p, "storeHead")
    /\ UNCHANGED <<cached, sem, storeVars, batch, outcome, loc, calls, errors>>

\* ... otherwise the wrapped store is asked; ErrEmptyStore ends a reader's call
\* and takes Append to its initialization path ...
HeadLoad(p) ==
    /\ pc[p] = "storeHead"
    /\ Read(p, storeHead)
    /\ Goto(p, CASE storeHead # 0 -> "cas"
                 [] storeHead = 0 /\ p \in Readers -> "done"
                 [] OTHER -> "empty")
    /\ UNCHANGED <<cached, sem, storeVars, batch, outcome, calls, errors>>

\* Mutant of HeadPublish: a plain store instead of the compare-and-swap.
HeadPublishStore(p) ==
    /\ pc[p] = "cas"
    /\ cached' = loc[p]
    /\ Read(p, cached')
    /\ Goto(p, AfterHead(p))
    /\ UNCHANGED <<sem, storeVars, batch, outcome, calls, errors>>

\* ... and its head is published unless an Append has published one meanwhile.
HeadPublish(p) ==
    /\ pc[p] = "cas"
    /\ cached' = IF cached = 0 THEN loc[p] ELSE cached
    /\ Read(p, cached')
    /\ Goto(p, AfterHead(p))
    /\ UNCHANGED <<sem, storeVars, batch, outcome, calls, errors>>

HeadReturn(r) ==
    /\ pc[r] = "done"
    /\ Goto(r, "idle") /\ Read(r, 0)
    /\ UNCHANGED <<cached, sem, storeVars, batch, outcome, calls, errors>>

-----------------------------------------------------------------------------
\* Append.

\* A gap above the cached head is rejected without the lock.
StartAppend(a, b) ==
    /\ pc[a] = "idle"
    /\ IF cached # 0 /\ b[1] > cached + 1
         THEN outcome' = [outcome EXCEPT ![a] = "nonAdjacent"] /\ UNCHANGED <<batch, pc>>
         ELSE /\ batch' = [batch EXCEPT ![a] = b]
              /\ outcome' = [outcome EXCEPT ![a] = "none"]
              /\ Goto(a, "lock")

\* The call of an appender.
AppendCall(a, b) ==
    /\ calls[a] < MaxAppends
    /\ calls' = [calls EXCEPT ![a] = @ + 1]
    /\ StartAppend(a, b)
    /\ UNCHANGED <<cached, sem, storeVars, loc, errors>>

Lock(a) ==
    /\ pc[a] = "lock" /\ sem = {}
    /\ sem' = sem \cup {a}
    /\ Goto(a, "head")
    /\ UNCHANGED <<cached, storeVars, batch, loc, outcome, calls, errors>>

\* Mutant of Leave: the semaphore is not released.
LeaveLocked(a, err) ==
    /\ sem' = sem
    /\ Goto(a, "idle") /\ Read(a, 0)
    /\ batch' = [batch EXCEPT ![a] = None]
    /\ outcome' = [outcome EXCEPT ![a] = err]

\* The deferred unlock; an error return runs it too.
Leave(a, err) ==
    /\ sem' = sem \ {a}
    /\ Goto(a, "idle") /\ Read(a, 0)
    /\ batch' = [batch EXCEPT ![a] = None]
    /\ outcome' = [outcome EXCEPT ![a] = err]

\* lockAppend's context ends first.
LockCancelled(a) ==
    /\ pc[a] = "lock" /\ errors < MaxErrors
    /\ errors' = errors + 1
    /\ Leave(a, "error")
    /\ UNCHANGED <<cached, storeVars, calls>>

\* Append goes on with a batch below the head, adjacent to it, or the first one.
MayAppend(a) ==
    pc[a] = "empty" \/ (pc[a] = "decide" /\ (advance(a) => batch[a][1] = loc[a] + 1))

\* errNonAdjacent
Reject(a) ==
    /\ pc[a] = "decide" /\ ~MayAppend(a)
    /\ Leave(a, "nonAdjacent")
    /\ UNCHANGED <<cached, storeVars, calls, errors>>

\* Store.Append takes the batch, on the initialization path as well ...
StoreAppend(a) ==
    /\ MayAppend(a)
    /\ queue' = Append(queue, batch[a])
    /\ Goto(a, "publish")
    /\ UNCHANGED <<cached, sem, storeHead, storeTail, stored, batch, loc, outcome, calls, errors>>

\* ... or fails, and nothing is published.
StoreAppendFails(a) ==
    /\ MayAppend(a) /\ errors < MaxErrors
    /\ errors' = errors + 1
    /\ Leave(a, "error")
    /\ UNCHANGED <<cached, storeVars, calls>>

\* Mutant of Publish: the height after the batch is published.
PublishNext(a) ==
    /\ pc[a] = "publish"
    /\ cached' = IF advance(a) /\ batch[a][2] < MaxHeight THEN batch[a][2] + 1 ELSE cached
    /\ Leave(a, "nil")
    /\ UNCHANGED <<storeVars, calls, errors>>

\* Only an advancing batch moves the cached head (on the initialization path
\* the head read is 0 and every batch advances).
Publish(a) ==
    /\ pc[a] = "publish"
    /\ cached' = IF advance(a) THEN batch[a][2] ELSE cached
    /\ Leave(a, "nil")
    /\ UNCHANGED <<storeVars, calls, errors>>

-----------------------------------------------------------------------------
\* The wrapped store applies the oldest batch it accepted.  An empty store takes its
\* ends as head and tail; otherwise they move over what is contiguous with them.
Upward(h, S) == CHOOSE k \in h..MaxHeight : h + 1..k \subseteq S /\ k + 1 \notin S
Downward(t, S) == CHOOSE k \in 1..t : k..t - 1 \subseteq S /\ k - 1 \notin S

StoreApplies ==
    /\ queue # <<>>
    /\ LET b == Head(queue)
       IN  /\ stored' = stored \cup b[1]..b[2]
           /\ storeHead' = Upward(IF storeHead = 0 THEN b[2] ELSE storeHead, stored')
           /\ storeTail' = Downward(IF storeTail = 0 THEN b[1] ELSE storeTail, stored')
    /\ queue' = Tail(queue)
    /\ UNCHANGED <<cached, sem, pc, batch, loc, outcome, calls, errors>>

SyncStoreInit ==
    /\ cached = 0 /\ sem = {}
    /\ \E s \in InitialStores : storeTail = s[1] /\ storeHead = s[2]
    /\ stored = storeTail..storeHead \ {0} /\ queue = <<>>
    /\ pc = [p \in Procs |-> "idle"]
    /\ batch = [a \in Appenders |-> None]
    /\ loc = [p \in Procs |-> 0]
    /\ outcome = [a \in Appenders |-> "none"]
    /\ calls = [p \in Procs |-> 0]
    /\ errors = 0

HeadStep(p) == HeadCached(p) \/ HeadMiss(p) \/ HeadLoad(p) \/ HeadPublish(p)

AppendStep(a) ==
    \/ Lock(a) \/ Reject(a) \/ StoreAppend(a) \/ StoreAppendFails(a) \/ Publish(a)

SyncStoreStep ==
    \/ \E a \in Appenders : AppendStep(a) \/ LockCancelled(a)
    \/ \E r \in Readers : HeadCall(r) \/ HeadReturn(r)
    \/ \E p \in Procs : HeadStep(p)
    \/ StoreApplies

-----------------------------------------------------------------------------
\* Correctness.

\* Heights the wrapped store has accepted, and the lowest of the chain they make.
Handed == stored \cup UNION {queue[i][1]..queue[i][2] : i \in DOMAIN queue}
Bottom == IF storeTail # 0 THEN storeTail ELSE IF queue # <<>> THEN queue[1][1] ELSE 0

\* "publish only after a successful Store.Append, otherwise syncer skips the
\* failed heights" (sync_store.go): the wrapped store has accepted every height from
\* its tail up to the cached head, so nothing below Head() is skipped, whatever is
\* appended and pruned meanwhile.
NothingSkipped ==
    cached # 0 => Bottom # 0 /\ Bottom..cached \subseteq Handed

\* "don't overwrite a head published by a concurrent Append with a possibly stale
\* store head" (sync_store.go): the head that Head serves never moves back.
HeadNeverRegresses == [][cached' >= cached]_syncStoreVars
=============================================================================
