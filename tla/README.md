# A verification project for go-header

go-header is Celestia's library for syncing, storing and exchanging block
headers. A node keeps a contiguous range of headers (`Tail` .. `Head`) in a
`store.Store`, a `sync.Syncer` extends that range from the network, and `p2p`
serves and requests headers. This directory models the parts of it that are
hard to test, checks them with TLC on small instances and proves the core for
every instance with TLAPS.

## The system

| Part | State | Operations | Hard because of |
|---|---|---|---|
| Store write path (`store/store.go`, `batch.go`) | queue `writes` (cap. 16), `pending`, datastore (headers, height index, `headKey`, `tailKey`), pointers `contiguousHead`, `tailHeader` | `Append`, `Sync`, `Start`, `Stop`, the goroutine `flushLoop` | crashes, failing and retried flushes, out-of-order batches, stop under load |
| Range deletion (`store/store_delete.go`, `setTail`, `wipe` in `store.go`) | the same, from a second goroutine | `DeleteRange`, `OnDelete` | unsynchronised with `flushLoop`, multi-step, partial failure |
| Blocking reads (`store/heightsub.go`, `GetByHeight`) | atomic height, map of subscriptions with counts | `Wait`, `Notify`, `SetHeight`, `Init` | lost wake-ups, cancelled waiters |
| syncStore (`sync/sync_store.go`) | cached head, semaphore of one | `Head`, `Append` | compare-and-swap against a store that lags behind |
| Syncer (`sync/syncer*.go`, `ranges.go`) | pending ranges, trigger channel, sync state, tail lock | `Head`, `Start`, `Stop`, `incomingNetworkHead`, `syncLoop`, `moveTail` | heads arriving during a sync, pruning against syncing |
| Exchange client (`p2p/exchange.go`, `session.go`, `peer_tracker.go`) | queue of requests and peers, tracked peers | `Head`, `Get`, `GetByHeight`, `GetRangeByHeight` | retries, partial answers, disagreeing peers, timeouts against late answers |
| Server (`p2p/server.go`) | none of its own: a handler over a store | head, hash and range requests | serving a store that is being pruned |
| Subscriber (`p2p/subscriber.go`) | topic, registered verifier | `Start`, `Stop`, `SetVerifier`, `verifyMessage` | concurrent validations, start and stop |
| Read caches (`store/height_indexer.go`, `Store.Get`) | LRU caches of headers and of hashes by height | fills by readers, invalidation by deletions | a fill that loses the race against an invalidation |
| Verification (`verify.go`) | none | `Verify`, `VerifyRange` | hard against soft failures |

Interactions: the Syncer writes through syncStore into Store (`Append`,
`DeleteRange`) and asks the exchange for ranges; exchange sessions talk to other
nodes' servers, which read their Store; gossiped heads come through the
subscriber into `incomingNetworkHead`. Readers anywhere block in
`Store.GetByHeight`, which `flushLoop` wakes through heightSub.

What makes each part correct: the store's range has no gap at any moment a reader,
a restart or a crash can see it; nothing accepted is lost; every call returns;
no reader sleeps on a header that is there; the Syncer's head never skips a
height; a deletion leaves exactly what it says.

## Modules

* **Chain** - the abstract store: a range of headers between Tail and Head, what can be
  read, and what is persisted of both. Headers arrive, the range grows over readable
  headers, a save persists headers and range at once and gives nothing up, a crash
  loses only what was not saved, a start opens the saved range.
* **Store** - `flushLoop` step by step against callers of `Append`, `Sync`,
  `Stop`, `Start` and a crash. A header is its height (one chain), 0 is nil.
  `pc` is the position in `flushLoop`; one action per statement that another
  goroutine or a crash can tell apart: `EnsureInit`, `AppendPending`, the loads,
  lookups and stores of `nextHead`/`advanceHead` (`AdvanceHead`, `ScanUp`,
  `ScanUpEnd`, `StoreHead`) and `nextTail`/`recedeTail`, `TakePending`,
  `LoadKeys`, `Commit`, `CommitError` (back to `LoadKeys`, as the retry loop
  does), `Reset`. A failing read inside a scan is `ScanError`. `Stop` is its
  three steps (send nil, cancel, wait and deinit). `accepted` and `syncSeen` are
  history variables. `Abstract` instantiates Chain: its range is the two pointers, its
  saved range the two keys, and what can be read includes the batch in
  flushLoop's hand, because `ensureInit` publishes the ends of the first batch before
  `pending` has it.
* **StoreDelete** (extends Store) - `DeleteRange` as a second goroutine: Sync,
  the two pointer loads, the range checks, then `wipe`, `deleteSequential` height by
  height (with or without a write batch) with its deferred commit, or `deleteParallel`: the
  distribution of heights over `jobCh`, which a closed `errCh` turns into skipping
  (`Distribute`), each worker's jobs and its own batch (`Work`, `WorkCommit`), and
  the evaluation of the results (`AwaitWorkers`, `actualHeight`). It ends with
  `setTail` or `setHead` statement by statement. A `mode` chosen at the start says
  what the callers do (overlap with appends, delete at the head, append in order), the
  threshold for parallel deletion, whether the datastore has batches and what may fail.
* **ReadCache** - readers of `GetByHeight` that fill the header and index caches in two
  steps (look up, add), a `DeleteRange` that invalidates them height by height and commits
  later, evictions, and `nextTail`/`recedeTail`, which ask the caches first. Appends
  and deletions do not overlap here: their races are StoreDelete's subject.
* **HeightSub** - readers in `GetByHeight`/`Wait` against the publisher. A critical
  section under `heightSubsLk` is one step, each access to the atomic height
  outside it another.
* **SyncStore** - appenders and readers of syncStore's head. The wrapped store
  (external to this module) takes a batch at once and applies it later. It has no
  specification of its own: SyncTail composes its steps with the movers of the tail.
* **SyncTail** (extends SyncStore) - goroutines in `subjectiveTail` (`tpc`: one label per
  await or lock of `renewTail`, `findTailHeight` and `moveTail`), from `Head` or the
  gossip validator, that append through SyncStore beside the sync loop. A scenario gives the
  store, the parameter in force (`SyncFromHash`, `SyncFromHeight` or the window) and a clock
  that gives each header its time, blocks being at most `BlockTime` apart.
  Heights wrap at `Width` where the code subtracts unsigned numbers. Reads of the store, requests and
  appends may fail (`CallFails`), and a request of the downward sync may be answered in part. `DeleteRange` is one
  step here: what it does inside is StoreDelete.
* **Ranges** - the operations of `sync/ranges.go` on a sequence of ranges. A range
  keeps `start` beside its headers, as in the code, because the two can disagree.
* **Syncer** - `syncLoop` (`lpc`: one label per await or lock of `sync`,
  `processHeaders` and `requestHeaders`) against goroutines in the gossip validator
  and in `Head` (`ppc`), `Start` being the `Starter`'s call of `Head`. The labels of a goroutine
  follow the code: `network` after subjectiveHead's `localHead`, `tail` .. `fetchTail` in
  `subjectiveTail`, `lock` .. `bifurcated` in `incomingNetworkHead`, `verify` and
  `verifyBifurcating`, `set` .. `want` in `setLocalHead`. `rs.lk` (`rangesLk`) and a range's own lock
  are told apart: `processHeaders` removes under the second only, so `Add` takes two
  steps. syncStore is what SyncStore shows of it: `Append` and `Head` are atomic. The
  wrapped store's tail appears some time after the first `Append` (`StoreInit`), as its
  queue makes it. Whether a local head is recent or expired is a choice; so is what
  the exchange answers, from `NetworkHeads`.
* **Session** - one `GetRangeByHeight` of the exchange: `getRangeByHeight` (`mpc`),
  `handleOutgoingRequests` with `nextPeer` (`hpc`) and a goroutine in `doRequest` per
  request (`workers`), over the two channels `reqCh` and `result`, the peer queue
  with its signal, and `known`. A request or an answer is a span of heights; an
  answer is a prefix of its request, or NOT_FOUND, nothing, or headers that are not the
  requested ones. The peer tracker follows connectedness events, which arrive late but in
  order and complete (libp2p's event bus is external). Blocking a peer may fail, as may
  disconnecting it. The check that a
  peer is connected and what follows from it are two steps, as in the code. Left out: limited
  connections, the limit on tracked peers, scores (any queued peer may be next).
* **Server** - `requestHandler` per server: a range request is its reads of tail, head and
  headers (`ReadTail`, `HasAtHead`, `HasAtTail`, `ReadHead`, `OpenTransaction`, `GetLast`, `GetPrevious`), and
  between any two of them the server's store may grow, flush its pending headers, or be pruned (headers first,
  tail pointer later; only headers that are not pending). GetRange reads `pending` as it is now and the datastore as it was when
  its transaction was opened (`snap`), if the datastore has transactions; a cache may still have a header that is in
  neither (what a stale cache can do is ReadCache's subject). A deadline within GetRange is answered NOT_FOUND, any other read
  error resets the stream. `origin + amount` wraps at `Width`. `headThen` and `late` are history variables.
* **Exchange** (extends Server) - one call of `Head`, `Get`, `GetByHeight` or a single
  range request: a goroutine per peer (`gpc`: dialing, waiting, pushed) and the loop that
  collects from the channel they push to. A header is its height and the chain it is on;
  each server is on one chain: the node's, a fork, or another network's. `VerifyHeader` is
  `header.Verify` with its hard and soft failures.
* **Gossip** - `Subscriber.verifyMessage` by concurrent validations of pubsub, with the verifier
  that `Syncer.Start` registers: waiting for the verifier, for `started`, for
  `incomingMu`, then verification against the local head of that moment; and
  `Start`, failing `Start`, `Stop` and another `Start` of both.
* **StoreProofs**, **HeightSubProofs**, **SyncTailProofs**, **TailProofs**, **ExchangeProofs**, **SessionProofs**,
  **SyncerProofs**, **DeleteProofs** - the
  inductive invariants of these parts and the theorems (ExchangeProofs also about Server, SyncTailProofs about SyncStore,
  TailProofs about where the tail ends up, StoreProofs also the refinement).
* **MC\*** - instances for TLC.

An operator whose comment says "Mutant of X" is X with a plausible bug; it is not
part of any specification. TLC finds the property that belongs to it violated when
it takes the place of X (`PROJECT.json`, "mutants").

## Runs

Passing runs:

| Run | Shows |
|---|---|
| `store` | appends in every order, Sync, Stop and Start on one object, a timeout, a failing read or commit and a crash at any step: no gap in memory or on disk (`ContiguousRange`, `DurableRange`), nothing dropped, head and tail as far out as they can be, Stop durable, Sync a barrier, no left-over stop signal, all calls return and a full queue drains, and the whole is an implementation of Chain (`ImplementsChain`) |
| `delete` | sequential deletions of any kind between appends, a pruning overlapping appends with a failure and a crash, any deletion against Stop and timeouts, parallel prunings with a failing job, prunings that fail to commit or to write the tail key: no gap in memory or after a restart, nothing left below the tail a parallel deletion sets (`NothingMissed`), DeleteRange returns |
| `heightsub` | two readers, adjacent batches, from an empty store and from one with a header: released readers find their header; no wake-up is lost and waiters return |
| `tail` | two movers of the tail, another appender and a reader, eight scenarios (first start, pruning by the window, up, down, by hash, above the head), one failure: the tail follows the window without pruning inside it (`WindowMaintained`), overlapping moves, appends and syncs leave one chain (`TailSettles`), the cached head never skips (`NothingSkipped`) or regresses, every call returns |
| `syncer` | subjective initialization, Head calls, a gossiped head, bifurcation and the sync loop interleaved, short answers and one failing call: nothing between tail and head is missing, a sync without error stored everything up to its target, a target is reached unless a sync failed, all calls return |
| `session` | two requests, two peers, two disturbances (a connect, a disconnect, a bad answer, the caller giving up, Stop) at any moment and partial answers throughout: each header in exactly one place until it is returned exactly once, one request per peer at a time, and the call returns if a peer stays connected, or it is cancelled or stopped, with no goroutine of a served range left |
| `exchange` | nine calls against four servers, one on a fork and one on another network, whose stores change under the request, with failing requests and interruptions: Head agrees with two thirds of its peers or returns the highest answer, also when the others answer later (`HeadAgreed`); a head for a trusted one is verified and reports a soft failure whoever answered first; Get fails only if all peers failed; a server never sends a misplaced range or a range cut short without reason, and says NOT_FOUND of a range whose first header it had all the time only at its deadline or when a flush overtook its read transaction (`HonestAnswers`); calls and their goroutines end |

Runs that end in a counterexample, each against a sentence of the code or its
docs (quoted in `PROJECT.json`, "findings"):

| Run | What happens |
|---|---|
| `v_delete_wipe` | Stop after a wipe flushes left-over pending headers and dereferences a nil head |
| `v_delete_race` | two prunings overlapping appends: `recedeTail` stores a tail below a deleted height |
| `v_syncer_lost` | `Add` picks the last range, `processHeaders` empties it, `Add` appends: the range's `start` is below its only header, and a Prune of lower heights removes a verified head that is not stored |
| `v_cache_tail` | a reader looks a header up, DeleteRange deletes it and its cache entries, the reader adds it to the caches; the next append makes `recedeTail` find it there, and the tail is a header that no longer exists (after a restart the store finds no tail) |
| `v_gossip_head` | a message with the current head waits while a newer head is adopted; its verification then fails hard with ErrKnownHeader, and the peer that forwarded it is punished |

Observations about the models that have no run of their own:

* A batch queued before Stop is flushed under the cancelled context without advancing
  the head; the restarted store's head is then below headers it holds. `HeadIsHighest`
  therefore speaks of a store that was never stopped.
* `Height()` keeps reporting a head that was deleted; `HeightIsHead` is checked without
  deletions.
* Deleting headers that are still pending succeeds and leaves them. A crash between the
  deletion at the head and the move of `headKey`, or a failure between the two deletes
  of one header on a datastore without batches, leaves a gap. The modes of `delete`
  with failures and crashes have a datastore with batches, and the one with a crash prunes.
* A worker of `deleteParallel` keeps the ErrNotFound of its last job as its error, unlike
  `deleteSequential`, which counts it. A retry after a partial failure therefore
  fails at the first height that the first attempt deleted, and sets no new tail above it. When a
  worker's batch fails to commit, only its last height is reported, and lower heights of that
  batch are left below the new tail; `NothingMissed` is checked without failing
  commits. A failed parallel deletion leaves gaps above the tail, as its comment says.
* A failing read while flushLoop extends the range, followed by a pruning, can persist a tail
  key above the head key; the run with read errors checks `DeleteReturns` only. So can three failing
  steps, a commit and two writes of the key or the other way round; the modes with two failures have one kind of them.
* The first batch of several headers lets its heights elapse before the headers are
  readable: a reader gets ErrNotFound for a moment. In `heightsub` the first
  batch of an empty store is a single header for that reason.
* A header that is not adjacent to the head leaves a reader that looked it up just
  before blocked although it is stored: Notify finds no subscription yet and the height does not
  reach the header. TLC shows it as a violation of `WaiterReturns` with the
  batch `<<3, 3>>` on a store of height 1 and `InOrder` FALSE; `heightsub` is about adjacent batches.
* `doRequest` ends with a plain send to `result` (`session.go:354`), which has one slot
  per prepared request. Partial answers make more results than that, so when
  getRangeByHeight has left with an error, a goroutine can stay blocked there for ever.
  `Served` therefore claims that the goroutines end only for a range that was returned.
* `getRangeByHeight` of an amount of 0 waits until its context is done; no caller asks that.
* syncStore stores a batch that starts below the head and ends above it without moving its
  head. The Syncer gets there when others move the head by two under a
  fetched batch; the sync ends without error and its head stays below the target.
  `SyncReachesTarget` therefore speaks of what the store was given.
* A head set by `networkHead` without `incomingMu` can make the append of the sync loop
  non-adjacent. The sync fails and is not tried again before the next head;
  `TargetReached` allows that.
* `findTailHeight`: when the old tail is at least a window behind, the new one is estimated from
  the head by `window / blockTime`, and never corrected downward; with blocks faster than
  `blockTime` (which the options allow) headers inside the window are pruned.
  `WindowMaintained` excludes that case. A tail less than one block time behind stays. With blocks slower
  than `blockTime` the subtraction can wrap around. `blockTime` has no default, and
  0 divides by zero in `estimateTailHeight`.
* A `SyncFromHeight` more than one above the head makes `DeleteRange` refuse the range, so
  `Start` fails until the parameter changes. Moving the tail down below a store of a
  single header ends with a piece that `syncStore` rejects as non-adjacent; the next head tries again.
* `subjectiveTail` reads the tail before its `TryLock` (`syncer_tail.go:16`, `:21`). If another call, for a newer
  head, moves the tail up and unlocks between the two, the call goes on with a tail that is no longer the store's:
  it estimates from it, does not find that header any more, fetches it, appends it below the tail and returns it
  as the new tail (the comment says that it "returns the current actual Tail header"). `TailSettles` held without
  exception only as long as all movers brought the same head. The history variable `stale` marks such
  calls, a scenario with two heads makes them happen in `tail`, and `TailSettles` speaks of the others, and of those
  that prune: `DeleteRange` refuses a range that does not begin at the tail, so the old tail is then the store's again.
* An append in flight can store headers again that a pruning has just removed, below the new tail; the
  tail then recedes to them if they are contiguous. After an overlapping batch the cached head is
  behind the store's, and a pruning that ends above it leaves it on a deleted header until the
  next append.
* `Exchange.Head` with a trusted head equal to the network's head gets ErrNotFound, since each
  answer is already known. Its comment (`exchange.go:126-127`) says the highest answer is returned; agreement goes first.
* A range request can be answered NOT_FOUND although the server had the headers all the time: `getRangeByHeight` opens its read
  transaction (`store.go:321`) before it looks at `pending`, and a flush that commits and resets `pending` (`store.go:472-488`)
  in between leaves an uncached header in neither; and a deadline that expires in GetRange becomes ErrNotFound
  (`server.go:285-287`). `HonestAnswers` names both. `GetRange`'s own check `from >= to` is never reached from the server.
* A `Stop` that gave up waiting can be called again before the loop has closed `writesDn`; its second nil can then stay in the queue,
  and ends the loop of the next `Start` (`store.go:147-169`). `NoStrayStop` is about calls that did not time out.
* A height that was synced between setLocalHead's comparison with the store's head and its `Add` is a target again; the sync of
  it ends at once or fails its append. `TargetReached` excuses failed syncs.
* A `Subscriber` takes one verifier in its life, so a Syncer that was stopped, or whose Start failed, cannot
  be started again on it (`Start` in Gossip). A validation whose context ends while it waits for `started`, or whose
  bifurcation cannot fetch a header, is rejected, not ignored. Validators keep working after `Syncer.Stop`.
* A peer that connects while the tracker is at its limit is never tracked later, as no further event announces it.
* In `syncHead` a caller that joins a head request in flight gets the error of the first caller's context.

Bounds. Four to six heights and batches that touch, overlap and leave gaps are
enough for every relative position of head, tail and a batch; two queued batches
for a batch behind the one being handled and in front of Stop's nil; a write
batch size of two or three for both a skipped and a forced flush. `Budget` bounds
calls, crashes, timeouts and errors; one
retry is the same as many because a retry returns to the state before the
attempt. Two stops allow a stop, a restart and another stop on one object. Two deletions are
needed for `v_delete_race`, and the modes of `delete` without overlap have
as many; two workers and ranges of up to five heights give a worker several jobs and a job
queue that fills up. In `tail` the second mover finds the lock taken or comes after the first one,
and pieces of two headers make a sync of several. In `syncer` the heights, a trust distance of one and requests of two
headers make both halves of a bifurcation, two pending ranges, short answers and two
different tail estimates happen; one Starter that calls Head twice, one gossiped
head and one failure keep it at some 220,000 states. In `session` three headers in requests of two
give one request that can be answered in part and one that cannot; with two disturbances a peer can
leave and come back while its request is in flight, or one can fail while the other is blocked
(some 480,000 states). Nothing disturbs after the call has returned. In `exchange` up to
three peers are asked, which is where the quorum first differs from all of them; a store changes
once per run (a pruning is two steps), a width of eight makes one request overflow, and a store
changes only while its server works, since a client cannot tell otherwise. One server has pending headers, and a flush matters,
and happens, only once a transaction has been opened. The larger runs, `store`, `delete`,
`tail` and `exchange`, have 340,000 to 760,000 states. No run uses symmetry.
`CHECK_DEADLOCK FALSE` stands where all callers may have returned with nothing
left to do (the bounds on calls are used up).

Fairness. `flushLoop`, a goroutine inside `Sync`, `Stop`, `DeleteRange`,
`GetByHeight` or `syncStore.Append`, `syncLoop`, the gossip validator, a goroutine in
`Syncer.Head` or `subjectiveTail`, the workers of `deleteParallel`, the goroutines of a session and
of an exchange call, a server's handler, and in SyncStore the wrapped store are weakly fair,
and so are a session's requests (they have a timeout), the requeue timer and, until Stop, the tracker's
handling of an event: the Go scheduler runs a runnable goroutine. New calls, timeouts, crashes and
failures are never assumed to happen, and commits are not assumed to fail for
ever (their budget is finite). A `Sync` on a store that was never started
waits for its context, which is what the code does; `StoreCallsReturn` and `DeleteReturns` are about
started stores. In Exchange a request that is neither answered nor failed cannot be: the handler's reads
end by its timeout.

## Proofs

TLC checks the runs above on small instances; the theorems below hold for every value of the constants. The
assumptions are those of the modules (`StoreAssumption` and so on, which TLC evaluates in every run): heights,
capacities and bounds are natural numbers, batches are spans of heights, sets of readers and servers are
finite, calls and scenarios have the fields the code gives them. `PROJECT.json`, "theorems", lists the results.

**Store** (`StoreProofs`), for every `MaxHeight`, set of `Batches`, `QueueCap`, `WriteBatchSize` and `Budget`:
`TypeOK`, `ContiguousRange`, `DurableRange`, `NothingDropped`, `StopIsDurable`, `SyncBarrier`,
`FlushHasPointers`, `HeightIsHead`, `NoStrayStop` and `HeadIsHighest` at all times, the action properties
`PersistedRangeGrows` and `PointersOnlyExtend`, and `ImplementsChain`: Store is a refinement of Chain.
None of these is inductive alone. `ContiguousRange` after `StoreHead` needs to
know that the scan passed only stored headers (`ScanInv`); after `Reset` that
everything pending has been committed (`FlushInv`); `DurableRange` after `Commit`
needs that the keys in the batch are the current pointers and that the pointers
delimit stored headers (`RangeInv`, which in the middle of the first batch counts
the headers in flushLoop's hand); `PersistedRangeGrows` needs that the running
loop's range includes the persisted one (`WiderInv`), which holds after a restart
because persisted keys always resolve (`DurableRange`); `SyncBarrier` and
`StopIsDurable` rest on `NothingDropped` with an empty queue or an empty
pending. `IInv` is the conjunction; `TypeStep`, `CoreStep` and `SyncStep` show
that every action keeps its part. `NoStrayStop` needs that there is one nil batch per Stop, and none in the
queue once the loop handles it or `writesDn` is closed (`StopInv`); `HeadIsHighest` that each scan ended where
nothing is stored, and that the same is true of the keys on disk, from which a restart begins (`ReachInv`).
For the refinement, `HiddenStep` shows that a step which changes none of the mapped
variables is a stutter of Chain and `RefinementStep` gives every other action its counterpart:
`AppendPending` and the receiving of a batch are Receive, `EnsureInit`, `StoreHead` and `StoreTail` are Extend,
`Commit` is Save, the end of the loop Halt, and so on. Save needs `FlushInv` (the keys are
the current pointers) and `WiderInv`; Halt needs that nothing is pending.

**HeightSub** (`HeightSubProofs`), for any finite set of readers: `TypeOK`, and `ReleasedMeansPresent` under the
hypothesis `InOrder` that `heightsub` has too (without it a released reader may indeed not find
its header, see the observations). A reader that gives up decrements the counter of whatever subscription is in the map
for its height, which may be a later one than its own. `SubInv` says that the counter can thereby be too low,
never too high or zero for a subscription that has a waiter; `ReleaseInv` that it is exact for every height that is not
present yet, because nobody can have been signalled there: so no reader that gives up closes a channel others wait on
before the header is there. `OrderInv` is the shape of the store between the publisher's steps.

**Server and Exchange** (`ExchangeProofs`), for any finite set of servers: `ExchangeTypeOK`, `HonestAnswers`, `GetSucceeds`,
`HeadVerified`, `HeadAgreed`. What a handler has established at each label (`ServerOK`) survives appends, flushes and prunings because they move
the store's ends one way (`EvolvingKeeps`): the transaction's lower end is never above the store's lowest header,
so a header of the range that can be read neither in `pending` nor in the transaction was pruned, or flushed behind it (`Unreadable`). In the client `Good` ties an answer to the peer's chain and to the call,
and `HeadInv` says that nothing collected so far has two thirds of the votes; when a header gets them, a second one cannot, now or
with later answers, since two sets of two thirds of the same peers meet and a peer answers once
(a counting argument over `Votes`).

**Session** (`SessionProofs`), for any peers, range and request size: `SessionTypeOK`, `NothingLost`, `PeerOnce`. `NothingLost` counts,
for each header, the entries of four sequences, the handler's hand and the goroutines that carry it; the lemmas
on `Holding` and `Carriers` say how a count changes when an entry or a goroutine comes, goes or becomes
another, `Pieces` that prepareRequests cuts the range into disjoint requests that cover it, `AllReceived`
that all headers are there when as many were received as were asked for. `DoEffect` reduces the steps of
doRequest to four kinds. The strengthening that was not foreseen is `HandInv`: the handler has no
request in its hand when it takes the next one.

**SyncStore and SyncTail** (`SyncTailProofs`), for any movers, appenders, readers, batches and scenarios: `SyncTailTypeOK`,
`NothingSkipped`, `HeadNeverRegresses`. `LockInv` is the semaphore; `HeadAt` what an appender knows at each of its steps: the
head it read is still the cached one as long as it holds the semaphore, since a reader's compare-and-swap
only replaces nil. The hard case is the first batch of an empty store. Its appender read no head and
publishes without a look at what is there: `FirstBatch` says that it is a mover's (so that `tailMu` keeps
forced appends and prunings away), and that the store holds that batch and nothing else until it is published.
`SkipInv` then follows the chain down to its `Bottom`, which recedes only over stored headers. `UpwardIs` and `DownwardIs` say
what the store's scans find; they use that a set of natural numbers has a least
element (`Smallest`, from the library's well-foundedness of `<`), which is the one form of induction on data used here.

On top of that invariant (`TailProofs`): `TailSettles` and `WindowMaintained`. For the first, `AppendAt` says what a mover
that appends downward has handed to the store so far, `TailAt` that the store's tail is at or below the one the call works from,
and `SettleInv` that what is missing between the tail last settled on and the store's tail has been accepted, unless
a call that has moved the tail further up is about to return; with an empty queue what was accepted is stored, and the store's tail is where
its headers begin (`EdgeInv`). The proof showed that `stale` was too wide: a call whose tail was stale when it took `tailMu` may still
prune, if an append in flight has put that tail back. For the second, `Drift` bounds the time between two headers by their distance
(again with `Smallest`), `EstimateIs` the first estimate in all three cases of findTailHeight, the one
that wraps around below zero included, and `WindowAt` carries the bound through the search. It uses the assumption that blocks are at most
`BlockTime` apart, and that the store's head never falls below the one it began with.

**Syncer and Ranges** (`SyncerProofs`), for any validators and callers of Head, chain length, trust distance, request
size and failures: `SyncerTypeOK`, `NothingMissing`, and the action property `SyncReachesTarget`. The inductive
invariant `Inv` says what the sync loop knows at each of its labels (`LoopAt`, `FromInv`: everything up to `fromHead`
was given to the store, and the cached headers it holds start at most one above), and every head candidate (`ProcAt`:
a candidate in `Add` holds the lock of the list, so that the last range, which its head continues, is still there).
The lemmas on `Prune`, `DropEmpty`, `Get`, `Remove` and `AppendTo` give the ranges their shape after each operation,
an emptied range with its stale `start` included: this is why `SyncReachesTarget` holds although a range may be
emptied under it. `StoreAppendIs` and `ForcedAppendIs` reduce the appends of the loop, of a bifurcation and of the
tail to what they do to `stored` and to the cached head. The one assumption added for the proofs is that `"free"`,
which marks an unlocked mutex, is not the name of a goroutine.

**StoreDelete** (`DeleteProofs`), for every `MaxHeight`, set of batches, ranges and workers, queue capacity and write
batch size. `DeleteTypeOK` holds in every environment. The other theorems name the class of environments they hold in,
as a condition on `mode`:

* `NothingIsMissed`: `NothingMissed`, if the store is not stopped (`Unstopped`), for sequential and parallel
  deletions, with crashes, failing jobs and any order of appends. `CallQuiet` says that from the return of Sync to the
  end of the call flushLoop is idle with an empty queue; `ParPassed` that each height handed out is gone, in the
  channel, in a worker's batch, or at or above the height at which a worker gave up, and that the channel is ascending
  (`JobsAscend`), so that the lowest errored height bounds what is left. Stopping is excluded since a Stop flushes
  pending headers back into the index behind the deletion.
* `NoGapIsLeft`: `NoGapAfterDelete`, for sequential deletions on a store that is neither stopped nor crashes, apart
  from the appends, where the failing steps are those of prunings on a datastore with batches (`Gapless`). `GapInv`
  ties the pointers to what deleteRangeRaw has passed (`RawOK`), to what the tail is about to move over (`TailOK`) and
  to the scans of flushLoop (`LoopOK`); appends may come in any order and the flush may fail and be retried. TLC has
  counterexamples outside: `v_delete_race` with overlap, a failing delete on a datastore without batches, two failing steps of a deletion at the head, and a failing read before a crash, after which the
  tail key may not resolve; Stop after a wipe ends in the panic of `v_delete_wipe`.
* `RestartFindsRange`: `RestartIsContiguous`, for adjacent appends and prunings at the tail in that class, on a
  datastore whose reads and flushes do not fail, and whose deletes fail to commit or whose key fails to be written but
  not both (`Restartable`). `KeysOK` is the argument: the head key separates what is persisted from what is pending,
  and a tail key that still leads to a header is not below the tail, either because the key was written or because the
  header it names was deleted in the committed batch (here `NothingMissed` is used). That nothing is persisted above
  the head key needs that the head follows the appends: `QueueOK` says that the queue is a chain that ends at the last
  accepted header, which is the head syncStore compares with (`SyncedHeadIs`), and `ReachOK` that each scan ends at
  the last header of its batch. Two modes of `delete` are in this class.

Only model-checked: all liveness properties (fairness and ENABLED are outside the prover); the three invariants of
StoreDelete in the environments outside the classes above (overlapping appends with one pruning, a crash, Stop with
one deletion), where they hold for the number of deletions and failures of the run and not for every number;
everything about ReadCache and Gossip, which have only runs that end in a counterexample.

## Not modelled

Header bytes and hashes (a header is its height, in Exchange also its chain); the timestamp checks of
verification, which compare with the wall clock; OnDelete handlers other than as a
failure; `store_recover.go`, an operator's pointer updates; a failing `init` in `Start`; `Start` on a running store and a
`Start` concurrent with `Stop`; of the Syncer: the single flight of head requests beyond its answer, `State`
and `SyncWait`, which report, forged heads (Exchange has heads on other chains), and the failure of a cached head read;
in SyncTail the look into the pending ranges before a request, as they lie above the old tail (`syncer.go:342-350`); in Exchange a client
without a configured chain ID, which skips that check (`helpers.go:37`), and a server that answers GetByHeight with another
height, which the client does not look at; of deletions a `Batch.Delete` that fails halfway through one header, which would leave
a gap, and read errors other than ErrNotFound in `setTail` and `setHead`; in HeightSub the tail pointer is set
together with the head, since no reader looks at it;
of the tracker: its limit, its gc and the stored peer ids; of the subscriber: `Subscription` and
`Broadcast`, which hand messages to and from pubsub; the local exchange, metrics, options, generated code and test doubles.

## Plan

1. *Done:* Store and its refinement of Chain, StoreDelete with parallel deletion, ReadCache, HeightSub;
   proofs about Store.
2. *Done:* Ranges, Syncer, SyncStore, SyncTail.
3. *Done:* Session, Server, Exchange, Gossip.
4. *Done:* proofs about SyncStore with SyncTail, Server and Exchange, HeightSub, Session, the Syncer, StoreDelete and the rest of Store.
5. If room is found: the tracker's limit and gc, and `syncHead`.

Runs stay few: as modules are added, runs that ask the same question of a part are
merged, and weaker properties make room for deeper ones.
