---------------------------- MODULE StoreDelete ----------------------------
(***************************************************************************)
(* DeleteRange (src/store/store_delete.go) running in its own goroutine     *)
(* against the flushLoop of module Store: Sync, load the pointers, check    *)
(* the range, then wipe the store or delete the headers, one by one or, for *)
(* long ranges, by parallel workers, and move the tail or the head.  Every  *)
(* datastore operation and every atomic pointer access is a step; any of    *)
(* the failing ones may fail.                                               *)
(***************************************************************************)
EXTENDS Store

CONSTANTS
    Ranges,        \* the <<from, to>> arguments callers pass to DeleteRange
    Workers,       \* the workers of deleteParallel
    Modes          \* the environments to check, see ModeType

\* What the callers and the datastore do in one behaviour.
ModeType == [
    batched   : BOOLEAN,        \* the datastore collects writes in the context's batch
    threshold : Nat,            \* deleteRangeParallelThreshold
    overlap   : BOOLEAN,        \* callers may Append while a DeleteRange is running
    inOrder   : BOOLEAN,        \* callers append adjacent batches only, as syncStore.Append does
    headSide  : BOOLEAN,        \* callers delete at the head and whole stores, not only below the head
    batches   : SUBSET Batches, \* what callers append
    deletes   : Nat,            \* bound on DeleteRange calls
    failures  : Nat,            \* bound on failing steps of DeleteRange
    failing   : SUBSET {"delete", "commit", "key"},  \* the steps that may fail
    budget    : [Events -> Nat] \* bound on the events of Store
    ]

ASSUME DeleteAssumption ==
    /\ Ranges \subseteq (0..MaxHeight + 1) \X (0..MaxHeight + 1)
    /\ Workers # {} /\ IsFiniteSet(Workers)
    /\ Modes \subseteq ModeType

VARIABLES
    mode,      \* the environment, chosen at the start
    dpc,       \* where DeleteRange is; "none" when it does not run
    range,     \* its arguments <<from, to>>
    loaded,    \* the <<head, tail>> it loaded after Sync
    next,      \* next height to delete or to hand out, then the height deleteRangeRaw returns
    half,      \* the header at `next' is deleted, its index not yet
    batch,     \* heights in the uncommitted delete batch
    jobs,      \* deleteParallel: jobCh
    work,      \* deleteParallel: the workers and their last results
    failed,    \* an error will be returned
    newHead,   \* setTail's advanceHead: the head found by nextHead
    deletes, failures

parVars == <<jobs, work>>
delVars == <<mode, dpc, range, loaded, next, half, batch, parVars, failed, newHead, deletes, failures>>
allVars == <<vars, delVars>>

\* A worker before its first job; `at' is "off" outside of deleteParallel.
Worker(at) == [at |-> at, height |-> 0, err |-> FALSE, batch |-> {}]

DeleteTypeOK ==
    /\ TypeOK
    /\ mode \in Modes
    /\ dpc \in {"none", "sync", "loadHead", "loadTail", "check", "wipeHead", "wipeTail",
                "wipeHeadKey", "wipeTailKey", "delete", "commitDelete", "distribute", "await",
                "setTail", "setTailKey", "setTailHead", "tailAsHead", "advance", "storeHead", "setHead",
                "setHeadKey", "done"}
    /\ range \in (0..MaxHeight + 1) \X (0..MaxHeight + 1)
    /\ loaded \in (0..MaxHeight) \X (0..MaxHeight)
    /\ next \in 0..MaxHeight + 1 /\ half \in BOOLEAN
    /\ batch \subseteq Heights /\ failed \in BOOLEAN
    /\ jobs \in Seq(Heights) /\ Len(jobs) <= Cardinality(Workers)
    /\ work \in [Workers -> [at : {"off", "run", "commit", "done"}, height : 0..MaxHeight,
                             err : BOOLEAN, batch : SUBSET Heights]]
    /\ newHead \in 0..MaxHeight
    /\ deletes \in 0..mode.deletes /\ failures \in 0..mode.failures

from == range[1]
to == range[2]
updateTail == from = loaded[2]
\* Mutant of updateHead: off by one, to excludes the head.
updateHeadAtHead == to = loaded[1]

updateHead == to = loaded[1] + 1

\* A step of the given kind fails.
Fail(kind) ==
    /\ kind \in mode.failing
    /\ failures < mode.failures /\ failures' = failures + 1

\* DeleteRange returns at its next step; failed says with which result.
Return(err) ==
    /\ dpc' = "done" /\ failed' = (failed \/ err)

-----------------------------------------------------------------------------
\* DeleteRange is called and starts with Sync.
DeleteRange(r) ==
    /\ dpc = "none" /\ deletes < mode.deletes
    /\ mode.headSide \/ r[2] <= head
    /\ SyncCall
    /\ dpc' = "sync" /\ range' = r /\ deletes' = deletes + 1
    /\ UNCHANGED <<loaded, next, half, batch, failed, newHead, failures, mode, parVars>>

\* Mutant of Synced: a failed Sync does not end the call.
SyncedOk ==
    /\ dpc = "sync" /\ sync = "ok"
    /\ IF sync = "ok" THEN dpc' = "loadHead" /\ failed' = failed ELSE Return(TRUE)
    /\ sync' = "none" /\ syncSeen' = {}
    /\ UNCHANGED <<range, loaded, next, half, batch, newHead, deletes, failures,
                   queueVars, pending, diskVars, ptrVars, loopVars, lifeVars, left, mode, parVars>>

\* Sync returned (a Sync that timed out is back to "none").
Synced ==
    /\ dpc = "sync" /\ sync \in {"ok", "stopped", "none"}
    /\ IF sync = "ok" THEN dpc' = "loadHead" /\ failed' = failed ELSE Return(TRUE)
    /\ sync' = "none" /\ syncSeen' = {}
    /\ UNCHANGED <<range, loaded, next, half, batch, newHead, deletes, failures,
                   queueVars, pending, diskVars, ptrVars, loopVars, lifeVars, left, mode, parVars>>

LoadHead ==
    /\ dpc = "loadHead"
    /\ loaded' = <<head, 0>>
    /\ IF head = 0 THEN Return(TRUE) ELSE dpc' = "loadTail" /\ failed' = failed
    /\ UNCHANGED <<vars, range, next, half, batch, newHead, deletes, failures, mode, parVars>>

LoadTail ==
    /\ dpc = "loadTail"
    /\ loaded' = <<loaded[1], tail>>
    /\ IF tail = 0 THEN Return(TRUE) ELSE dpc' = "check" /\ failed' = failed
    /\ UNCHANGED <<vars, range, next, half, batch, newHead, deletes, failures, mode, parVars>>

\* The range is rejected, wipes the whole store, or is deleted.
Rejected ==
    \/ from >= to
    \/ from > loaded[1] \/ to <= loaded[2]
    \/ updateTail /\ to > loaded[1] + 1
    \/ updateHead /\ ~updateTail /\ from < loaded[2]
    \/ ~updateTail /\ ~updateHead

Wipes == updateTail /\ updateHead /\ ~GetByHeight(to)

CheckRange ==
    /\ dpc = "check"
    /\ CASE Rejected -> Return(TRUE) /\ next' = next
         [] ~Rejected /\ Wipes -> dpc' = "wipeHead" /\ failed' = failed /\ next' = next
         [] OTHER -> /\ dpc' = IF to - from < mode.threshold THEN "delete" ELSE "distribute"
                     /\ failed' = failed /\ next' = from
    /\ work' = [w \in Workers |-> Worker(IF dpc' = "distribute" THEN "run" ELSE "off")]
    /\ UNCHANGED <<vars, range, loaded, half, batch, newHead, deletes, failures, mode, jobs>>

\* The lookup of the header after the head fails.
CheckFails ==
    /\ dpc = "check" /\ ~Rejected /\ updateTail /\ updateHead
    /\ Fail("delete") /\ Return(TRUE)
    /\ UNCHANGED <<vars, range, loaded, next, half, batch, newHead, deletes, mode, parVars>>

-----------------------------------------------------------------------------
\* wipe: deinit clears both pointers (and purges the caches; SetHeight(0) does
\* nothing), then both keys are deleted, each failure being remembered.  The
\* headers stay where they are.
WipeHead ==
    /\ dpc = "wipeHead"
    /\ head' = 0
    /\ dpc' = "wipeTail"
    /\ UNCHANGED <<tail, subHeight, queueVars, pending, diskVars, loopVars, lifeVars,
                   syncVars, left, range, loaded, next, half, batch, failed, newHead,
                   deletes, failures, mode, parVars>>

WipeTail ==
    /\ dpc = "wipeTail"
    /\ tail' = 0
    /\ dpc' = "wipeHeadKey"
    /\ UNCHANGED <<head, subHeight, queueVars, pending, diskVars, loopVars, lifeVars,
                   syncVars, left, range, loaded, next, half, batch, failed, newHead,
                   deletes, failures, mode, parVars>>

WipeHeadKey ==
    /\ dpc = "wipeHeadKey"
    /\ \/ headKey' = 0 /\ UNCHANGED <<failures, failed>>
       \/ Fail("key") /\ failed' = TRUE /\ UNCHANGED headKey
    /\ dpc' = "wipeTailKey"
    /\ UNCHANGED <<disk, index, tailKey, queueVars, pending, ptrVars, loopVars, lifeVars,
                   syncVars, left, range, loaded, next, half, batch, newHead, deletes, mode, parVars>>

WipeTailKey ==
    /\ dpc = "wipeTailKey"
    /\ \/ tailKey' = 0 /\ Return(FALSE) /\ UNCHANGED failures
       \/ Fail("key") /\ Return(TRUE) /\ UNCHANGED tailKey
    /\ UNCHANGED <<disk, index, headKey, queueVars, pending, ptrVars, loopVars, lifeVars,
                   syncVars, left, range, loaded, next, half, batch, newHead, deletes, mode, parVars>>

-----------------------------------------------------------------------------
\* deleteSequential, one height per step.

\* Mutant of SkipMissing: the loop does not stop at to.
SkipMissingOn ==
    /\ dpc = "delete" /\ next \notin index
    /\ next' = next + 1
    /\ UNCHANGED <<vars, dpc, range, loaded, half, batch, failed, newHead, deletes, failures, mode, parVars>>

\* A height that is not in the index is counted as missing and skipped: nothing
\* else is touched, a header that is only pending included.
SkipMissing ==
    /\ dpc = "delete" /\ next < to /\ next \notin index
    /\ next' = next + 1
    /\ UNCHANGED <<vars, dpc, range, loaded, half, batch, failed, newHead, deletes, failures, mode, parVars>>

\* deleteSingle on a datastore that collects the deletes in the batch.
DeleteInBatch ==
    /\ mode.batched
    /\ dpc = "delete" /\ next < to /\ next \in index
    /\ batch' = batch \cup {next}
    /\ pending' = pending \ {next}
    /\ next' = next + 1
    /\ UNCHANGED <<queueVars, diskVars, ptrVars, loopVars, lifeVars, syncVars, left,
                   dpc, range, loaded, half, failed, newHead, deletes, failures, mode, parVars>>

\* deleteSingle on any other datastore: the header under its hash goes first ...
DeleteHeader ==
    /\ ~mode.batched
    /\ dpc = "delete" /\ next < to /\ next \in index /\ ~half
    /\ disk' = disk \ {next}
    /\ half' = TRUE
    /\ UNCHANGED <<index, headKey, tailKey, queueVars, pending, ptrVars, loopVars, lifeVars,
                   syncVars, left, dpc, range, loaded, next, batch, failed, newHead,
                   deletes, failures, mode, parVars>>

\* ... then the height index, the caches and pending.
DeleteIndex ==
    /\ dpc = "delete" /\ half
    /\ index' = index \ {next}
    /\ pending' = pending \ {next}
    /\ half' = FALSE /\ next' = next + 1
    /\ UNCHANGED <<disk, headKey, tailKey, queueVars, ptrVars, loopVars, lifeVars, syncVars,
                   left, dpc, range, loaded, batch, failed, newHead, deletes, failures, mode, parVars>>

\* The deadline passes, or an onDelete handler or a datastore delete fails.
DeleteFails ==
    /\ dpc = "delete" /\ next < to
    /\ Fail("delete")
    /\ failed' = TRUE /\ half' = FALSE
    /\ dpc' = "commitDelete"
    /\ UNCHANGED <<vars, range, loaded, next, batch, newHead, deletes, mode, parVars>>

DeleteEnds ==
    /\ dpc = "delete" /\ next >= to
    /\ dpc' = "commitDelete"
    /\ UNCHANGED <<vars, range, loaded, next, half, batch, failed, newHead, deletes, failures, mode, parVars>>

\* Mutant of AfterDelete: the tail is never moved.
AfterDeleteNoTail(actualTo) ==
    CASE updateTail -> "done"
      [] ~updateTail /\ actualTo > from -> "setHead"
      [] OTHER -> "done"

\* What DeleteRange does after deleteRangeRaw, whatever its result.
AfterDelete(actualTo) ==
    CASE updateTail -> "setTail"
      [] ~updateTail /\ actualTo > from -> "setHead"
      [] OTHER -> "done"

\* The deferred commit of the batch, on success and on failure alike.  When it
\* fails itself, the returned height stays what it was.
CommitDelete ==
    /\ dpc = "commitDelete"
    /\ \/ /\ disk' = disk \ batch /\ index' = index \ batch
          /\ UNCHANGED <<failed, failures>>
       \/ /\ mode.batched /\ Fail("commit") /\ failed' = TRUE
          /\ UNCHANGED <<disk, index>>
    /\ batch' = {}
    /\ dpc' = AfterDelete(next)
    /\ UNCHANGED <<headKey, tailKey, queueVars, pending, ptrVars, loopVars, lifeVars,
                   syncVars, left, range, loaded, next, half, newHead, deletes, mode, parVars>>

-----------------------------------------------------------------------------
\* deleteParallel, on a datastore that collects the deletes in a batch per worker.

parCall == <<mode, range, loaded, half, batch, newHead, deletes>>

\* A worker that ended with an error has closed errCh.
errClosed == \E w \in Workers : work[w].at = "done" /\ work[w].err

\* The next height is put into jobCh, or skipped once errCh is closed.
Distribute ==
    /\ dpc = "distribute" /\ next < to
    /\ \/ Len(jobs) < Cardinality(Workers) /\ jobs' = Append(jobs, next)
       \/ errClosed /\ jobs' = jobs
    /\ next' = next + 1
    /\ UNCHANGED <<vars, parCall, dpc, work, failed, failures>>

\* close(jobCh)
DistributeEnds ==
    /\ dpc = "distribute" /\ next >= to
    /\ dpc' = "await"
    /\ UNCHANGED <<vars, parCall, next, parVars, failed, failures>>

\* deleteSingle of a worker's next job: deleted, missing, or failed.  A missing
\* header does not stop the worker and leaves its error in the result.
Work(w) ==
    /\ work[w].at = "run" /\ jobs # <<>>
    /\ jobs' = Tail(jobs)
    /\ LET h == Head(jobs)
       IN  \/ /\ h \in index
              /\ work' = [work EXCEPT ![w].height = h, ![w].err = FALSE, ![w].batch = @ \cup {h}]
              /\ pending' = pending \ {h}
              /\ UNCHANGED failures
           \/ /\ h \notin index
              /\ work' = [work EXCEPT ![w].height = h, ![w].err = TRUE]
              /\ UNCHANGED <<pending, failures>>
           \/ /\ Fail("delete")
              /\ work' = [work EXCEPT ![w].height = h, ![w].err = TRUE, ![w].at = "commit"]
              /\ UNCHANGED pending
    /\ UNCHANGED <<queueVars, diskVars, ptrVars, loopVars, lifeVars, syncVars, left,
                   parCall, dpc, next, failed>>

\* The worker finds jobCh closed and empty.
WorkEnds(w) ==
    /\ work[w].at = "run" /\ jobs = <<>> /\ dpc = "await"
    /\ work' = [work EXCEPT ![w].at = "commit"]
    /\ UNCHANGED <<vars, parCall, dpc, next, jobs, failed, failures>>

\* The worker's deferred commit; its failure counts as one of the last height.
WorkCommit(w) ==
    /\ work[w].at = "commit"
    /\ \/ /\ disk' = disk \ work[w].batch /\ index' = index \ work[w].batch
          /\ work' = [work EXCEPT ![w].at = "done", ![w].batch = {}]
          /\ UNCHANGED failures
       \/ /\ Fail("commit")
          /\ work' = [work EXCEPT ![w].at = "done", ![w].batch = {}, ![w].err = TRUE]
          /\ UNCHANGED <<disk, index>>
    /\ UNCHANGED <<headKey, tailKey, queueVars, pending, ptrVars, loopVars, lifeVars, syncVars,
                   left, parCall, dpc, next, jobs, failed>>

errored == {work[w].height : w \in {v \in Workers : work[v].err}}

\* Mutant of actualHeight: the highest result decides, errors or not.
actualHeightIgnoring ==
    CHOOSE n \in 1..MaxHeight + 1 : /\ \E w \in Workers : n = work[w].height + 1
                                    /\ \A w \in Workers : work[w].height < n

\* The results in ascending order of heights: the first errored one, or the
\* height after the highest.
actualHeight ==
    IF errored # {} THEN CHOOSE h \in errored : \A g \in errored : h <= g
    ELSE CHOOSE n \in 1..MaxHeight + 1 : /\ \E w \in Workers : n = work[w].height + 1
                                         /\ \A w \in Workers : work[w].height < n

\* wg.Wait() returns, and deleteParallel with it.
AwaitWorkers ==
    /\ dpc = "await" /\ \A w \in Workers : work[w].at = "done"
    /\ next' = actualHeight
    /\ failed' = (errored # {})
    /\ dpc' = AfterDelete(actualHeight)
    /\ jobs' = <<>> /\ work' = [w \in Workers |-> Worker("off")]
    /\ UNCHANGED <<vars, parCall, failures>>

-----------------------------------------------------------------------------
\* setTail(actualTo): load the header, publish the pointer ...
SetTail ==
    /\ dpc = "setTail"
    /\ IF GetByHeight(next)
         THEN tail' = next /\ dpc' = "setTailKey" /\ failed' = failed
         ELSE tail' = tail /\ Return(TRUE)
    /\ UNCHANGED <<head, subHeight, queueVars, pending, diskVars, loopVars, lifeVars, syncVars,
                   left, range, loaded, next, half, batch, newHead, deletes, failures, mode, parVars>>

\* ... write tailKey ...
SetTailKey ==
    /\ dpc = "setTailKey"
    /\ \/ tailKey' = next /\ dpc' = "setTailHead" /\ UNCHANGED <<failures, failed>>
       \/ Fail("key") /\ Return(TRUE) /\ UNCHANGED tailKey
    /\ UNCHANGED <<disk, index, headKey, queueVars, pending, ptrVars, loopVars, lifeVars,
                   syncVars, left, range, loaded, next, half, batch, newHead, deletes, mode, parVars>>

\* ... and when the deletion went over the head, write headKey, publish the
\* header as the head too and advance it.
SetTailHead ==
    /\ dpc = "setTailHead"
    /\ \/ /\ head # 0 /\ next <= head
          /\ Return(FALSE)
          /\ UNCHANGED <<headKey, failures>>
       \/ /\ head = 0 \/ next > head
          /\ headKey' = next
          /\ dpc' = "tailAsHead"
          /\ UNCHANGED <<failed, failures>>
       \/ /\ head = 0 \/ next > head
          /\ Fail("key") /\ Return(TRUE)
          /\ UNCHANGED headKey
    /\ UNCHANGED <<disk, index, tailKey, ptrVars, queueVars, pending, loopVars,
                   lifeVars, syncVars, left, range, loaded, next, half, batch, newHead, deletes, mode, parVars>>

TailAsHead ==
    /\ dpc = "tailAsHead"
    /\ head' = next
    /\ dpc' = "advance"
    /\ UNCHANGED <<tail, subHeight, queueVars, pending, diskVars, loopVars, lifeVars, syncVars,
                   left, range, loaded, next, half, batch, failed, newHead, deletes, failures, mode, parVars>>

\* advanceHead of the deleting goroutine: nextHead's scan, then the publication.
NextHead == CHOOSE b \in head..MaxHeight :
              /\ \A h \in head + 1..b : HasHeaderAt(h)
              /\ ~HasHeaderAt(b + 1)

DeleterNextHead ==
    /\ dpc = "advance"
    /\ newHead' = IF head = 0 THEN 0 ELSE NextHead
    /\ IF head = 0 \/ NextHead = head \/ ~GetByHeight(NextHead)
         THEN Return(FALSE) ELSE dpc' = "storeHead" /\ failed' = failed
    /\ UNCHANGED <<vars, range, loaded, next, half, batch, deletes, failures, mode, parVars>>

DeleterStoreHead ==
    /\ dpc = "storeHead"
    /\ head' = newHead
    /\ SetHeight(newHead)
    /\ Return(FALSE)
    /\ UNCHANGED <<tail, queueVars, pending, diskVars, loopVars, lifeVars, syncVars, left,
                   range, loaded, next, half, batch, newHead, deletes, failures, mode, parVars>>

\* setHead(from - 1): publish the pointer, then write headKey.  heightSub keeps
\* its height.
SetHead ==
    /\ dpc = "setHead"
    /\ IF GetByHeight(from - 1)
         THEN head' = from - 1 /\ dpc' = "setHeadKey" /\ failed' = failed
         ELSE head' = head /\ Return(TRUE)
    /\ UNCHANGED <<tail, subHeight, queueVars, pending, diskVars, loopVars, lifeVars, syncVars,
                   left, range, loaded, next, half, batch, newHead, deletes, failures, mode, parVars>>

SetHeadKey ==
    /\ dpc = "setHeadKey"
    /\ \/ headKey' = from - 1 /\ Return(FALSE) /\ UNCHANGED failures
       \/ Fail("key") /\ Return(TRUE) /\ UNCHANGED headKey
    /\ UNCHANGED <<disk, index, tailKey, queueVars, pending, ptrVars, loopVars, lifeVars,
                   syncVars, left, range, loaded, next, half, batch, newHead, deletes, mode, parVars>>

\* Nothing of a finished call remains.
ResetCall ==
    /\ dpc' = "none" /\ range' = <<0, 0>> /\ loaded' = <<0, 0>> /\ next' = 0
    /\ half' = FALSE /\ batch' = {} /\ failed' = FALSE /\ newHead' = 0
    /\ jobs' = <<>> /\ work' = [w \in Workers |-> Worker("off")]

Returned ==
    /\ dpc = "done"
    /\ ResetCall
    /\ UNCHANGED <<vars, deletes, failures, mode>>

-----------------------------------------------------------------------------
DeleteStep ==
    \/ Synced \/ LoadHead \/ LoadTail \/ CheckRange \/ CheckFails
    \/ WipeHead \/ WipeTail \/ WipeHeadKey \/ WipeTailKey
    \/ SkipMissing \/ DeleteInBatch \/ DeleteHeader \/ DeleteIndex \/ DeleteFails
    \/ DeleteEnds \/ CommitDelete
    \/ Distribute \/ DistributeEnds \/ AwaitWorkers
    \/ \E w \in Workers : Work(w) \/ WorkEnds(w) \/ WorkCommit(w)
    \/ SetTail \/ SetTailKey \/ SetTailHead \/ TailAsHead \/ DeleterNextHead \/ DeleterStoreHead
    \/ SetHead \/ SetHeadKey \/ Returned

\* The head syncStore compares a batch with: the last one it appended, else the store's.
SyncedHead == IF accepted = {} THEN head ELSE CHOOSE h \in accepted : \A g \in accepted : g <= h

\* Without overlap the callers keep Append and DeleteRange apart.
DeleteAppend(b) ==
    /\ mode.overlap \/ dpc = "none"
    /\ mode.inOrder => pc # "off" /\ (SyncedHead = 0 \/ b[1] = SyncedHead + 1)
    /\ AppendBatch(b)
    /\ UNCHANGED delVars

DeleteCrash ==
    /\ Crash
    /\ ResetCall
    /\ UNCHANGED <<deletes, failures, mode>>

DeleteInit ==
    /\ NewStore
    /\ mode \in Modes /\ left = mode.budget
    /\ dpc = "none" /\ range = <<0, 0>> /\ loaded = <<0, 0>> /\ next = 0
    /\ half = FALSE /\ batch = {} /\ failed = FALSE /\ newHead = 0
    /\ jobs = <<>> /\ work = [w \in Workers |-> Worker("off")]
    /\ deletes = 0 /\ failures = 0

DeleteNext ==
    \/ \E b \in mode.batches : DeleteAppend(b)
    \/ \E r \in Ranges : DeleteRange(r)
    \/ DeleteStep
    \/ (CallerStep \/ LoopStep) /\ UNCHANGED delVars
    \/ DeleteCrash

DeleteSpec == DeleteInit /\ [][DeleteNext]_allVars

-----------------------------------------------------------------------------
\* Correctness.

\* Callers do not append while they delete at the head.
Disciplined == ~mode.overlap \/ ~mode.headSide

\* "It disallows the creation of gaps in the implementation's chain, ensuring
\* contiguity between Tail --> Head" (interface.go): whenever no DeleteRange is
\* under way, every height from tail to head can be read, after successful,
\* rejected, partial and failed deletions alike.  A parallel deletion that fails
\* is the exception its comment names: higher headers may be gone.
NoGapAfterDelete ==
    (/\ Disciplined
     /\ dpc = "none" /\ pc \in {"off", "idle", "drain"} /\ head # 0 /\ tail # 0
     /\ mode.threshold > MaxHeight \/ failures = 0) =>
        tail <= head /\ \A h \in tail..head : GetByHeight(h)

\* "this ensures we set tail to the lowest errored height, s.t. retries do not
\* shadowly miss any headers" (store_delete.go): whichever worker fails or
\* finds a header missing, and in whichever order they report, nothing is left
\* below the height the new tail is set to.  Batches must not fail to commit.
NothingMissed ==
    (dpc \in {"setTail", "setHead"} /\ ~mode.overlap /\ "commit" \notin mode.failing) =>
        \A h \in from..next - 1 : h \notin index

\* The range a process started on this datastore would load, were it to crash now.
Persisted(key) == IF key \in disk THEN key ELSE 0

\* Outside of a DeleteRange, a crash leaves a contiguous range or less.
RestartIsContiguous ==
    LET h == Persisted(headKey)  t == Persisted(tailKey)
    IN  (Disciplined /\ dpc = "none" /\ h # 0 /\ t # 0 /\ (mode.threshold > MaxHeight \/ failures = 0)) =>
            t <= h /\ t..h \subseteq disk \cap index

\* The deleting goroutine, flushLoop and the goroutines inside Sync and Stop keep
\* being scheduled; failures, timeouts, crashes and further calls stay free.
FairDeleteSpec ==
    /\ DeleteSpec
    /\ WF_allVars(DeleteStep)
    /\ WF_allVars(LoopStep /\ UNCHANGED delVars)
    /\ WF_allVars(SyncStopped /\ UNCHANGED delVars)
    /\ WF_allVars(StopCancel /\ UNCHANGED delVars)
    /\ WF_allVars(StopReturn /\ UNCHANGED delVars)

\* A DeleteRange called on a started store returns, whatever fails on the way and
\* however Stop, a timeout of its Sync or appends race it.
DeleteReturns == (dpc # "none" /\ pc # "off") ~> dpc = "none"
=============================================================================
