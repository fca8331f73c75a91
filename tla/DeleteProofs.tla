---------------------------- MODULE DeleteProofs ----------------------------
(***************************************************************************)
(* Proofs about DeleteRange (module StoreDelete), for every height bound,   *)
(* set of batches and ranges, number of workers, and every environment.     *)
(***************************************************************************)
EXTENDS StoreDelete, StoreProofs, FiniteSetTheorems, WellFoundedInduction

DPCs == {"none", "sync", "loadHead", "loadTail", "check", "wipeHead", "wipeTail",
         "wipeHeadKey", "wipeTailKey", "delete", "commitDelete", "distribute", "await",
         "setTail", "setTailKey", "setTailHead", "tailAsHead", "advance", "storeHead", "setHead",
         "setHeadKey", "done"}
WorkerType == [at : {"off", "run", "commit", "done"}, height : 0..MaxHeight,
               err : BOOLEAN, batch : SUBSET Heights]

\* The types of a call and of its workers.
CallTypes ==
    /\ mode \in Modes /\ dpc \in DPCs
    /\ range \in (0..MaxHeight + 1) \X (0..MaxHeight + 1)
    /\ loaded \in (0..MaxHeight) \X (0..MaxHeight)
    /\ next \in 0..MaxHeight + 1 /\ half \in BOOLEAN
    /\ batch \in SUBSET Heights /\ failed \in BOOLEAN /\ newHead \in 0..MaxHeight
    /\ deletes \in 0..mode.deletes /\ failures \in 0..mode.failures
ParTypes ==
    /\ jobs \in Seq(Heights) /\ Len(jobs) <= Cardinality(Workers)
    /\ work \in [Workers -> WorkerType]

\* What DeleteRange has established where it is.
CallAt ==
    /\ dpc \in {"loadTail", "check"} => loaded[1] # 0
    /\ dpc = "check" => loaded[2] # 0
    /\ dpc \in {"delete", "commitDelete", "distribute", "await"} =>
          1 <= from /\ from <= next /\ next <= to
    /\ half => dpc = "delete" /\ next < to /\ ~mode.batched
    /\ dpc \in {"setTailKey", "setTailHead", "tailAsHead"} => next \in Heights
    /\ dpc = "setHeadKey" => from - 1 \in Heights

\* A header that lost its bytes still has its index; workers run in deleteParallel only.
WorkAt ==
    /\ half => next \in index
    /\ dpc \notin {"distribute", "await"} => jobs = <<>> /\ \A w \in Workers : work[w].at = "off"

CallInv == TypeOK /\ CallTypes /\ ParTypes /\ CallAt /\ WorkAt

-----------------------------------------------------------------------------
\* Lemmas.

\* A set of natural numbers that has an element has a smallest one ...
LEMMA Least ==
    ASSUME NEW T \in SUBSET Nat, T # {}
    PROVE  \E n \in T : \A m \in T : n <= m
<1>1. PICK n \in T : \A m \in T : ~(<<m, n>> \in OpToRel(<, Nat))
  BY NatLessThanWellFounded, WFMin
<1>2. \A m \in T : ~(m < n)
  BY <1>1 DEF OpToRel
<1> QED
  BY <1>2

\* ... and a largest one if it is bounded.
LEMMA Largest ==
    ASSUME NEW N \in Nat, NEW T \in SUBSET (0..N), T # {}
    PROVE  \E n \in T : \A m \in T : m <= n
<1> DEFINE D == {d \in Nat : d <= N /\ N - d \in T}
<1>1. PICK t \in T : TRUE
  OBVIOUS
<1>2. t \in Nat /\ t <= N /\ N - (N - t) = t /\ N - t \in Nat /\ N - t <= N
  BY <1>1
<1>3. N - t \in D
  BY <1>2
<1>4. D \in SUBSET Nat /\ D # {}
  BY <1>3
<1>5. PICK d \in D : \A e \in D : d <= e
  <2> HIDE DEF D
  <2> QED
    BY <1>4, Least
<1>6. d \in Nat /\ d <= N /\ N - d \in T
  BY <1>5
<1>7. ASSUME NEW m \in T
      PROVE  m <= N - d
  <2>1. m \in Nat /\ m <= N /\ N - m \in Nat /\ N - m <= N /\ N - (N - m) = m
    OBVIOUS
  <2>2. N - m \in D
    BY <2>1
  <2>3. d <= N - m
    <3> HIDE DEF D
    <3> QED
      BY <1>5, <2>2
  <2> QED
    BY <1>6, <2>1, <2>3
<1> QED
  BY <1>6, <1>7

\* nextHead finds the end of the run of headers above the head.
LEMMA NextHeadIs ==
    ASSUME TypeOK, head # 0
    PROVE  /\ NextHead \in head..MaxHeight
           /\ \A h \in head + 1..NextHead : HasHeaderAt(h)
<1>0. MaxHeight \in Nat /\ head \in 0..MaxHeight /\ pending \subseteq Heights /\ index \subseteq Heights
  BY StoreAssumption DEF TypeOK
<1> DEFINE T == {n \in Nat : head < n /\ ~HasHeaderAt(n)}
<1>1. MaxHeight + 1 \in T
  BY <1>0 DEF HasHeaderAt, Heights
<1>2. T \in SUBSET Nat /\ T # {}
  BY <1>1
<1>3. PICK n \in T : \A m \in T : n <= m
  <2> HIDE DEF T
  <2> QED
    BY <1>2, Least
<1>4. n \in Nat /\ head < n /\ ~HasHeaderAt(n) /\ n <= MaxHeight + 1
  BY <1>1, <1>3
<1>5. \A h \in head + 1..n - 1 : HasHeaderAt(h)
  <2> SUFFICES ASSUME NEW h \in head + 1..n - 1, ~HasHeaderAt(h)
               PROVE  FALSE
    OBVIOUS
  <2>1. h \in Nat /\ head < h /\ h < n
    BY <1>0, <1>4
  <2>2. h \in T
    BY <2>1
  <2> HIDE DEF T
  <2> QED
    BY <1>3, <1>4, <2>1, <2>2
<1>6. n - 1 \in head..MaxHeight /\ (n - 1) + 1 = n
  BY <1>0, <1>4
<1>7. \E b \in head..MaxHeight : (\A h \in head + 1..b : HasHeaderAt(h)) /\ ~HasHeaderAt(b + 1)
  BY <1>4, <1>5, <1>6
<1> QED
  BY <1>7, Zenon DEF NextHead

\* A step fails: its count stays within the bound.
LEMMA FailType ==
    ASSUME NEW kind, failures \in 0..mode.failures, mode.failures \in Nat, Fail(kind)
    PROVE  failures' \in 0..mode.failures
BY DEF Fail

\* The fields of the environment.
LEMMA ModeFields ==
    ASSUME NEW m \in Modes
    PROVE  /\ m.deletes \in Nat /\ m.failures \in Nat /\ m.threshold \in Nat
           /\ m.batched \in BOOLEAN /\ m.overlap \in BOOLEAN /\ m.headSide \in BOOLEAN
           /\ m.batches \subseteq Batches /\ m.budget \in [Events -> Nat]
BY DeleteAssumption DEF ModeType

\* A header that can be read has a height.
LEMMA ReadableHeight ==
    ASSUME TypeOK, NEW h, GetByHeight(h)
    PROVE  h \in Heights
<1>1. /\ MaxHeight \in Nat /\ head \in 0..MaxHeight /\ tail \in 0..MaxHeight
      /\ pending \subseteq Heights /\ index \subseteq Heights
  BY StoreAssumption DEF TypeOK
<1>2. h # 0 /\ (h = head \/ h = tail \/ h \in pending \/ h \in index)
  BY DEF GetByHeight
<1>3. (head # 0 => head \in Heights) /\ (tail # 0 => tail \in Heights)
  BY <1>1 DEF Heights
<1> QED
  BY <1>1, <1>2, <1>3

\* A step of DeleteRange leaves the queue and flushLoop alone.
LEMMA StoreTouched ==
    ASSUME TypeOK, UNCHANGED <<queueVars, loopVars, lifeVars, left>>,
           pending' \in SUBSET Heights, disk' \in SUBSET Heights, index' \in SUBSET Heights,
           headKey' \in 0..MaxHeight, tailKey' \in 0..MaxHeight,
           head' \in 0..MaxHeight, tail' \in 0..MaxHeight, subHeight' \in 0..MaxHeight,
           sync' \in {"none", "send", "wait", "ok", "stopped"}, syncSeen' \in SUBSET Heights
    PROVE  TypeOK'
<1>1. UNCHANGED <<writes, accepted, pc, cur, draining, base, boundary, toFlush, batchKeys,
                  ctxDone, writesDn, stop, left>>
  BY DEF queueVars, loopVars, lifeVars
<1> QED
  BY <1>1 DEF TypeOK

\* The height of deleteParallel's result.
LEMMA ActualHeightIs ==
    ASSUME work \in [Workers -> WorkerType]
    PROVE  /\ actualHeight \in 0..MaxHeight + 1
           /\ \A w \in Workers : work[w].err => actualHeight <= work[w].height
           /\ (\A w \in Workers : ~work[w].err) => \E w \in Workers : actualHeight = work[w].height + 1
<1>0. MaxHeight \in Nat /\ Workers # {}
  BY StoreAssumption, DeleteAssumption
<1>1. \A w \in Workers : work[w].height \in 0..MaxHeight
  BY DEF WorkerType
<1>2. \A w \in Workers : work[w].err => work[w].height \in errored
  BY DEF errored
<1>3. errored \in SUBSET (0..MaxHeight)
  BY <1>1 DEF errored
<1>4. CASE errored # {}
  <2>1. \E h \in errored : \A g \in errored : h <= g
    BY <1>0, <1>3, <1>4, Least
  <2>2. actualHeight \in errored /\ \A g \in errored : actualHeight <= g
    BY <1>4, <2>1, Zenon DEF actualHeight
  <2>3. ~\A w \in Workers : ~work[w].err
    BY <1>4 DEF errored
  <2>4. actualHeight \in 0..MaxHeight + 1
    BY <1>0, <1>3, <2>2
  <2>5. \A w \in Workers : work[w].err => actualHeight <= work[w].height
    BY <1>2, <2>2
  <2> QED
    BY <2>3, <2>4, <2>5
<1>5. CASE errored = {}
  <2> DEFINE T == {work[w].height : w \in Workers}
  <2>1. T \in SUBSET (0..MaxHeight) /\ T # {}
    BY <1>0, <1>1
  <2>2. PICK n \in T : \A m \in T : m <= n
    <3> HIDE DEF T
    <3> QED
      BY <1>0, <2>1, Largest
  <2>3. PICK v \in Workers : n = work[v].height
    BY <2>2
  <2>4. n + 1 \in 1..MaxHeight + 1 /\ \A w \in Workers : work[w].height < n + 1
    <3>1. \A w \in Workers : work[w].height <= n
      BY <2>2
    <3>2. n \in 0..MaxHeight
      BY <1>1, <2>3
    <3> QED
      BY <1>0, <1>1, <3>1, <3>2
  <2>5. \E k \in 1..MaxHeight + 1 : /\ \E w \in Workers : k = work[w].height + 1
                                    /\ \A w \in Workers : work[w].height < k
    BY <2>3, <2>4
  <2>6. /\ actualHeight \in 1..MaxHeight + 1
        /\ \E w \in Workers : actualHeight = work[w].height + 1
    BY <1>5, <2>5, Zenon DEF actualHeight
  <2>7. \A w \in Workers : ~work[w].err
    BY <1>2, <1>5
  <2> QED
    BY <1>0, <2>6, <2>7
<1> QED
  BY <1>4, <1>5

\* What comes after the deletion.
LEMMA AfterDeleteIs ==
    ASSUME NEW n
    PROVE  /\ AfterDelete(n) \in {"setTail", "setHead", "done"}
           /\ AfterDelete(n) = "setTail" => updateTail
           /\ AfterDelete(n) = "setHead" => ~updateTail
<1>1. CASE updateTail
  BY <1>1, Zenon DEF AfterDelete
<1>2. CASE ~updateTail /\ n > from
  BY <1>2, Zenon DEF AfterDelete
<1>3. CASE ~updateTail /\ ~(n > from)
  BY <1>3, Zenon DEF AfterDelete
<1> QED
  BY <1>1, <1>2, <1>3

-----------------------------------------------------------------------------
\* The types of a call, and what DeleteRange has established where it is.

\* Every step that only touches the Store keeps its types.
LEMMA StoreTypeStep ==
    ASSUME CallInv, DeleteNext
    PROVE  TypeOK'
<1>0. TypeOK /\ CallTypes /\ CallAt /\ MaxHeight \in Nat
  BY StoreAssumption DEF CallInv
<1>1. /\ pending \in SUBSET Heights /\ disk \in SUBSET Heights /\ index \in SUBSET Heights
      /\ headKey \in 0..MaxHeight /\ tailKey \in 0..MaxHeight
      /\ head \in 0..MaxHeight /\ tail \in 0..MaxHeight /\ subHeight \in 0..MaxHeight
      /\ sync \in {"none", "send", "wait", "ok", "stopped"} /\ syncSeen \in SUBSET Heights
  BY <1>0 DEF TypeOK
<1>2. Heights \subseteq 0..MaxHeight /\ 0 \in 0..MaxHeight
  BY <1>0 DEF Heights
<1>3. ASSUME Next PROVE TypeOK'
  BY <1>0, <1>3, TypeStep
<1>4. ASSUME UNCHANGED vars PROVE TypeOK'
  BY <1>0, <1>4, TypeStep
<1>5. mode.batches \subseteq Batches
  BY <1>0, ModeFields DEF CallTypes
<1>6. CASE \E b \in mode.batches : DeleteAppend(b)
  BY <1>3, <1>5, <1>6 DEF DeleteAppend, Next
<1>7. CASE \E r \in Ranges : DeleteRange(r)
  BY <1>3, <1>7 DEF DeleteRange, Next
<1>8. CASE (CallerStep \/ LoopStep) /\ UNCHANGED delVars
  BY <1>3, <1>8 DEF Next
<1>9. CASE DeleteCrash
  BY <1>3, <1>9 DEF DeleteCrash, Next
<1>10. CASE Synced
  BY <1>0, <1>1, <1>10, StoreTouched DEF Synced, diskVars, ptrVars
<1>11. CASE \/ LoadHead \/ LoadTail \/ CheckRange \/ CheckFails \/ SkipMissing \/ DeleteFails \/ DeleteEnds
            \/ Distribute \/ DistributeEnds \/ AwaitWorkers \/ DeleterNextHead \/ Returned
            \/ \E w \in Workers : WorkEnds(w)
  BY <1>4, <1>11 DEF LoadHead, LoadTail, CheckRange, CheckFails, SkipMissing, DeleteFails, DeleteEnds,
     Distribute, DistributeEnds, AwaitWorkers, DeleterNextHead, Returned, WorkEnds
<1>12. CASE WipeHead \/ WipeTail
  BY <1>0, <1>1, <1>2, <1>12, StoreTouched DEF WipeHead, WipeTail, diskVars, syncVars
<1>13. CASE WipeHeadKey \/ WipeTailKey
  BY <1>0, <1>1, <1>2, <1>13, StoreTouched DEF WipeHeadKey, WipeTailKey, ptrVars, syncVars
<1>14. CASE DeleteInBatch \/ \E w \in Workers : Work(w)
  <2>1. /\ pending' \in SUBSET Heights
        /\ UNCHANGED <<queueVars, diskVars, ptrVars, loopVars, lifeVars, syncVars, left>>
    BY <1>1, <1>14 DEF DeleteInBatch, Work
  <2> QED
    BY <1>0, <1>1, <2>1, StoreTouched DEF diskVars, ptrVars, syncVars
<1>15. CASE DeleteHeader \/ DeleteIndex
  BY <1>0, <1>1, <1>15, StoreTouched DEF DeleteHeader, DeleteIndex, ptrVars, syncVars
<1>16. CASE CommitDelete \/ \E w \in Workers : WorkCommit(w)
  <2>1. /\ disk' \in SUBSET Heights /\ index' \in SUBSET Heights
        /\ UNCHANGED <<headKey, tailKey, queueVars, pending, ptrVars, loopVars, lifeVars, syncVars, left>>
    BY <1>1, <1>16 DEF CommitDelete, WorkCommit
  <2> QED
    BY <1>0, <1>1, <2>1, StoreTouched DEF ptrVars, syncVars
<1>17. CASE SetTail
  <2>1. tail' \in 0..MaxHeight
    BY <1>0, <1>1, <1>2, <1>17, ReadableHeight DEF SetTail
  <2> QED
    BY <1>0, <1>1, <1>17, <2>1, StoreTouched DEF SetTail, diskVars, syncVars
<1>18. CASE SetTailKey
  <2>1. tailKey' \in 0..MaxHeight
    BY <1>0, <1>1, <1>2, <1>18 DEF SetTailKey, CallAt
  <2> QED
    BY <1>0, <1>1, <1>18, <2>1, StoreTouched DEF SetTailKey, ptrVars, syncVars
<1>19. CASE SetTailHead
  <2>1. headKey' \in 0..MaxHeight
    BY <1>0, <1>1, <1>2, <1>19 DEF SetTailHead, CallAt
  <2> QED
    BY <1>0, <1>1, <1>19, <2>1, StoreTouched DEF SetTailHead, ptrVars, syncVars
<1>23. CASE TailAsHead
  <2>1. head' \in 0..MaxHeight
    BY <1>0, <1>1, <1>2, <1>23 DEF TailAsHead, CallAt
  <2> QED
    BY <1>0, <1>1, <1>23, <2>1, StoreTouched DEF TailAsHead, diskVars, syncVars
<1>20. CASE DeleterStoreHead
  <2>1. head' \in 0..MaxHeight /\ subHeight' \in 0..MaxHeight
    BY <1>0, <1>1, <1>20 DEF DeleterStoreHead, CallTypes, SetHeight
  <2> QED
    BY <1>0, <1>1, <1>20, <2>1, StoreTouched DEF DeleterStoreHead, diskVars, syncVars
<1>21. CASE SetHead
  <2>1. head' \in 0..MaxHeight
    BY <1>0, <1>1, <1>2, <1>21, ReadableHeight DEF SetHead
  <2> QED
    BY <1>0, <1>1, <1>21, <2>1, StoreTouched DEF SetHead, diskVars, syncVars
<1>22. CASE SetHeadKey
  <2>1. headKey' \in 0..MaxHeight
    BY <1>0, <1>1, <1>2, <1>22 DEF SetHeadKey, CallAt
  <2> QED
    BY <1>0, <1>1, <1>22, <2>1, StoreTouched DEF SetHeadKey, ptrVars, syncVars
<1> QED
  BY <1>6, <1>7, <1>8, <1>9, <1>10, <1>11, <1>12, <1>13, <1>14, <1>15, <1>16, <1>17, <1>18,
     <1>19, <1>20, <1>21, <1>22, <1>23 DEF DeleteNext, DeleteStep

\* A height that is handed out is one of a header.
LEMMA NextHeight ==
    ASSUME CallTypes, CallAt, next < to, dpc \in {"delete", "distribute"}
    PROVE  next \in Heights
<1>1. MaxHeight \in Nat /\ next \in 0..MaxHeight + 1 /\ to \in 0..MaxHeight + 1 /\ 1 <= from
      /\ from <= next /\ from \in 0..MaxHeight + 1
  BY StoreAssumption DEF CallTypes, CallAt, from, to
<1> QED
  BY <1>1 DEF Heights

\* A worker takes its next job ...
LEMMA WorkIs ==
    ASSUME ParTypes, NEW w \in Workers, Work(w)
    PROVE  /\ jobs # <<>> /\ Head(jobs) \in Heights /\ jobs' = Tail(jobs)
           /\ work' \in [Workers -> WorkerType]
           /\ \A v \in Workers : v # w => work'[v] = work[v]
           /\ work[w].at = "run" /\ work'[w].height = Head(jobs)
           /\ \/ /\ Head(jobs) \in index /\ work'[w].batch = work[w].batch \cup {Head(jobs)}
                 /\ work'[w].at = "run" /\ ~work'[w].err
              \/ /\ Head(jobs) \notin index /\ work'[w].batch = work[w].batch
                 /\ work'[w].at = "run" /\ work'[w].err
              \/ work'[w].batch = work[w].batch /\ work'[w].at = "commit" /\ work'[w].err
<1> DEFINE h == Head(jobs)
<1>0. MaxHeight \in Nat /\ jobs \in Seq(Heights) /\ work \in [Workers -> WorkerType]
  BY StoreAssumption DEF ParTypes
<1>1. jobs # <<>> /\ jobs' = Tail(jobs) /\ work[w].at = "run"
  BY DEF Work
<1>2. h \in Heights /\ h \in 0..MaxHeight
  BY <1>0, <1>1 DEF Heights
<1>3. /\ work[w] \in WorkerType /\ work[w].batch \in SUBSET Heights
      /\ work[w].at \in {"off", "run", "commit", "done"}
  BY <1>0 DEF WorkerType
<1>4. CASE h \in index /\ work' = [work EXCEPT ![w].height = h, ![w].err = FALSE, ![w].batch = @ \cup {h}]
  <2>1. work[w].batch \cup {h} \in SUBSET Heights
    BY <1>2, <1>3
  <2>2. work' \in [Workers -> WorkerType]
    BY <1>0, <1>2, <1>3, <1>4, <2>1 DEF WorkerType
  <2>3. /\ \A v \in Workers : v # w => work'[v] = work[v]
        /\ work'[w].height = h /\ work'[w].batch = work[w].batch \cup {h}
        /\ work'[w].at = "run" /\ ~work'[w].err
    BY <1>0, <1>1, <1>3, <1>4 DEF WorkerType
  <2> QED
    BY <1>1, <1>2, <1>4, <2>2, <2>3
<1>5. CASE h \notin index /\ work' = [work EXCEPT ![w].height = h, ![w].err = TRUE]
  <2>2. work' \in [Workers -> WorkerType]
    BY <1>0, <1>2, <1>3, <1>5 DEF WorkerType
  <2>3. /\ \A v \in Workers : v # w => work'[v] = work[v]
        /\ work'[w].height = h /\ work'[w].batch = work[w].batch
        /\ work'[w].at = "run" /\ work'[w].err
    BY <1>0, <1>1, <1>3, <1>5 DEF WorkerType
  <2> QED
    BY <1>1, <1>2, <1>5, <2>2, <2>3
<1>6. CASE work' = [work EXCEPT ![w].height = h, ![w].err = TRUE, ![w].at = "commit"]
  <2>2. work' \in [Workers -> WorkerType]
    BY <1>0, <1>2, <1>3, <1>6 DEF WorkerType
  <2>3. /\ \A v \in Workers : v # w => work'[v] = work[v]
        /\ work'[w].height = h /\ work'[w].batch = work[w].batch
        /\ work'[w].at = "commit" /\ work'[w].err
    BY <1>0, <1>1, <1>3, <1>6 DEF WorkerType
  <2> QED
    BY <1>1, <1>2, <2>2, <2>3
<1> QED
  BY <1>4, <1>5, <1>6 DEF Work

\* ... finds no more ...
LEMMA WorkEndsIs ==
    ASSUME ParTypes, NEW w \in Workers, WorkEnds(w)
    PROVE  /\ work' \in [Workers -> WorkerType]
           /\ \A v \in Workers : v # w => work'[v] = work[v]
           /\ work[w].at = "run" /\ work'[w].at = "commit"
           /\ work'[w].height = work[w].height /\ work'[w].err = work[w].err
           /\ work'[w].batch = work[w].batch
<1>0. work \in [Workers -> WorkerType] /\ work[w] \in WorkerType
  BY DEF ParTypes
<1>1. work' = [work EXCEPT ![w].at = "commit"] /\ work[w].at = "run"
  BY DEF WorkEnds
<1> QED
  BY <1>0, <1>1 DEF WorkerType

\* ... and commits its batch.
LEMMA WorkCommitIs ==
    ASSUME ParTypes, NEW w \in Workers, WorkCommit(w)
    PROVE  /\ work' \in [Workers -> WorkerType]
           /\ \A v \in Workers : v # w => work'[v] = work[v]
           /\ work[w].at = "commit" /\ work'[w].at = "done" /\ work'[w].batch = {}
           /\ work'[w].height = work[w].height
           /\ \/ index' = index \ work[w].batch /\ work'[w].err = work[w].err
              \/ index' = index /\ work'[w].err /\ Fail("commit")
<1>0. work \in [Workers -> WorkerType] /\ work[w] \in WorkerType
  BY DEF ParTypes
<1>1. CASE /\ index' = index \ work[w].batch
           /\ work' = [work EXCEPT ![w].at = "done", ![w].batch = {}]
  BY <1>0, <1>1 DEF WorkerType, WorkCommit
<1>2. CASE /\ index' = index /\ Fail("commit")
           /\ work' = [work EXCEPT ![w].at = "done", ![w].batch = {}, ![w].err = TRUE]
  <2>1. work' \in [Workers -> WorkerType] /\ work[w].at = "commit"
    BY <1>0, <1>2 DEF WorkerType, WorkCommit
  <2>2. /\ \A v \in Workers : v # w => work'[v] = work[v]
        /\ work'[w].at = "done" /\ work'[w].batch = {}
        /\ work'[w].height = work[w].height /\ work'[w].err
    BY <1>0, <1>2 DEF WorkerType
  <2> QED
    BY <1>2, <2>1, <2>2
<1> QED
  BY <1>1, <1>2 DEF WorkCommit

\* Every step keeps the types of jobCh and of the workers.
LEMMA ParStep ==
    ASSUME CallInv, DeleteNext
    PROVE  ParTypes'
<1>0. /\ TypeOK /\ CallTypes /\ ParTypes /\ CallAt
      /\ jobs \in Seq(Heights) /\ Len(jobs) <= Cardinality(Workers) /\ work \in [Workers -> WorkerType]
  BY DEF CallInv, ParTypes
<1>1. Cardinality(Workers) \in Nat /\ MaxHeight \in Nat
  BY DeleteAssumption, StoreAssumption, FS_CardinalityType
<1>2. ASSUME NEW at \in {"off", "run", "commit", "done"}
      PROVE  Worker(at) \in WorkerType
  BY <1>1 DEF Worker, WorkerType
<1>3. ASSUME UNCHANGED parVars PROVE ParTypes'
  BY <1>0, <1>3 DEF ParTypes, parVars
<1>4. ASSUME ResetCall PROVE ParTypes'
  <2>1. work' \in [Workers -> WorkerType]
    BY <1>2, <1>4 DEF ResetCall
  <2>2. jobs' \in Seq(Heights) /\ Len(jobs') = 0
    BY <1>4 DEF ResetCall
  <2> QED
    BY <1>1, <2>1, <2>2 DEF ParTypes
<1>5. CASE DeleteCrash \/ Returned
  BY <1>4, <1>5 DEF DeleteCrash, Returned
<1>6. CASE CheckRange
  <2>1. work' \in [Workers -> WorkerType] /\ jobs' = jobs
    BY <1>2, <1>6 DEF CheckRange
  <2> QED
    BY <1>0, <2>1 DEF ParTypes
<1>7. CASE Distribute
  <2>1. next \in Heights /\ work' = work
    BY <1>0, <1>7, NextHeight DEF Distribute
  <2>2. jobs' \in Seq(Heights) /\ Len(jobs') <= Cardinality(Workers)
    BY <1>0, <1>1, <1>7, <2>1 DEF Distribute
  <2> QED
    BY <1>0, <2>1, <2>2 DEF ParTypes
<1>8. CASE DistributeEnds
  BY <1>3, <1>8 DEF DistributeEnds
<1>9. CASE AwaitWorkers
  <2>1. work' \in [Workers -> WorkerType]
    BY <1>2, <1>9 DEF AwaitWorkers
  <2>2. jobs' \in Seq(Heights) /\ Len(jobs') = 0
    BY <1>9 DEF AwaitWorkers
  <2> QED
    BY <1>1, <2>1, <2>2 DEF ParTypes
<1>10. ASSUME NEW w \in Workers, Work(w) PROVE ParTypes'
  <2>1. jobs # <<>> /\ jobs' = Tail(jobs) /\ Head(jobs) \in Heights /\ Head(jobs) \in 0..MaxHeight
    BY <1>0, <1>1, <1>10 DEF Work, Heights
  <2>2. jobs' \in Seq(Heights) /\ Len(jobs') <= Cardinality(Workers)
    BY <1>0, <1>1, <2>1
  <2>3. work' \in [Workers -> WorkerType]
    BY <1>0, <1>10, WorkIs
  <2> QED
    BY <2>2, <2>3 DEF ParTypes
<1>11. ASSUME NEW w \in Workers, WorkEnds(w) \/ WorkCommit(w) PROVE ParTypes'
  <2>1. work' \in [Workers -> WorkerType] /\ jobs' = jobs
    BY <1>0, <1>11, WorkEndsIs, WorkCommitIs DEF WorkEnds, WorkCommit
  <2> QED
    BY <1>0, <2>1 DEF ParTypes
<1>12. CASE \/ \E b \in mode.batches : DeleteAppend(b)
            \/ \E r \in Ranges : DeleteRange(r)
            \/ (CallerStep \/ LoopStep) /\ UNCHANGED delVars
  BY <1>3, <1>12 DEF DeleteAppend, DeleteRange, delVars
<1>13. CASE \/ Synced \/ LoadHead \/ LoadTail \/ CheckFails \/ WipeHead \/ WipeTail \/ WipeHeadKey \/ WipeTailKey
            \/ SkipMissing \/ DeleteInBatch \/ DeleteHeader \/ DeleteIndex \/ DeleteFails
            \/ DeleteEnds \/ CommitDelete
  BY <1>3, <1>13 DEF Synced, LoadHead, LoadTail, CheckFails, WipeHead, WipeTail, WipeHeadKey, WipeTailKey,
     SkipMissing, DeleteInBatch, DeleteHeader, DeleteIndex, DeleteFails, DeleteEnds, CommitDelete
<1>14. CASE \/ SetTail \/ SetTailKey \/ SetTailHead \/ TailAsHead \/ DeleterNextHead \/ DeleterStoreHead
            \/ SetHead \/ SetHeadKey
  BY <1>3, <1>14 DEF SetTail, SetTailKey, SetTailHead, TailAsHead, DeleterNextHead, DeleterStoreHead,
     SetHead, SetHeadKey
<1> QED
  BY <1>5, <1>6, <1>7, <1>8, <1>9, <1>10, <1>11, <1>12, <1>13, <1>14 DEF DeleteNext, DeleteStep

\* Every step keeps the types of a call and what it has established.
LEMMA CallStep ==
    ASSUME CallInv, DeleteNext
    PROVE  CallTypes' /\ CallAt'
<1>0. TypeOK /\ CallTypes /\ ParTypes /\ CallAt /\ WorkAt /\ MaxHeight \in Nat
  BY StoreAssumption DEF CallInv
<1>1. /\ mode \in Modes /\ dpc \in DPCs
      /\ range \in (0..MaxHeight + 1) \X (0..MaxHeight + 1)
      /\ loaded \in (0..MaxHeight) \X (0..MaxHeight)
      /\ next \in 0..MaxHeight + 1 /\ half \in BOOLEAN
      /\ batch \in SUBSET Heights /\ failed \in BOOLEAN /\ newHead \in 0..MaxHeight
      /\ deletes \in 0..mode.deletes /\ failures \in 0..mode.failures
      /\ from \in 0..MaxHeight + 1 /\ to \in 0..MaxHeight + 1
  BY <1>0 DEF CallTypes, from, to
<1>2. mode.deletes \in Nat /\ mode.failures \in Nat
  BY <1>1, ModeFields
<1>3. head \in 0..MaxHeight /\ tail \in 0..MaxHeight
  BY <1>0 DEF TypeOK
<1>4. ASSUME NEW kind, Fail(kind) PROVE failures' \in 0..mode.failures
  BY <1>1, <1>2, <1>4, FailType
<1>5. \* A step within the call that keeps its arguments and results.
      ASSUME UNCHANGED <<mode, range, loaded, next, batch, newHead, deletes>>,
             failures' \in 0..mode.failures, failed' \in BOOLEAN, dpc' \in DPCs,
             half' = FALSE, dpc' \notin {"check", "loadTail"}, dpc' # "setTailKey", dpc' # "setHeadKey",
             dpc' = "setTailHead" => dpc = "setTailKey", dpc' = "tailAsHead" => dpc = "setTailHead",
             dpc' \in {"delete", "distribute", "await", "commitDelete"} =>
                 dpc \in {"delete", "distribute", "await", "commitDelete"}
      PROVE  CallTypes' /\ CallAt'
  <2>1. CallTypes'
    BY <1>1, <1>5 DEF CallTypes
  <2>2. CallAt'
    BY <1>0, <1>1, <1>5 DEF CallAt, from, to
  <2> QED
    BY <2>1, <2>2
<1>6. half = FALSE \/ (dpc = "delete" /\ half)
  BY <1>0, <1>1 DEF CallAt
<1>7. ASSUME UNCHANGED delVars PROVE CallTypes' /\ CallAt'
  BY <1>0, <1>7 DEF CallTypes, CallAt, delVars, from, to
<1>8. ASSUME ResetCall, UNCHANGED <<deletes, failures, mode>> PROVE CallTypes' /\ CallAt'
  <2>1. /\ range' \in (0..MaxHeight + 1) \X (0..MaxHeight + 1)
        /\ loaded' \in (0..MaxHeight) \X (0..MaxHeight)
        /\ next' \in 0..MaxHeight + 1 /\ newHead' \in 0..MaxHeight
    BY <1>0, <1>8 DEF ResetCall
  <2>2. /\ half' \in BOOLEAN /\ batch' \in SUBSET Heights /\ failed' \in BOOLEAN /\ dpc' \in DPCs
    BY <1>8 DEF ResetCall, DPCs
  <2> QED
    BY <1>1, <1>8, <2>1, <2>2 DEF CallTypes, CallAt, ResetCall
<1>9. CASE \/ \E b \in mode.batches : DeleteAppend(b)
           \/ (CallerStep \/ LoopStep) /\ UNCHANGED delVars
  BY <1>7, <1>9 DEF DeleteAppend
<1>10. CASE DeleteCrash \/ Returned
  BY <1>8, <1>10 DEF DeleteCrash, Returned
<1>11. ASSUME NEW r \in Ranges, DeleteRange(r)
       PROVE  CallTypes' /\ CallAt'
  <2>1. range' \in (0..MaxHeight + 1) \X (0..MaxHeight + 1)
    BY <1>11, DeleteAssumption DEF DeleteRange
  <2>2. deletes' \in 0..mode.deletes
    BY <1>1, <1>2, <1>11 DEF DeleteRange
  <2>3. half' = FALSE /\ dpc' = "sync" /\ dpc' \in DPCs
    BY <1>6, <1>11 DEF DeleteRange, DPCs
  <2>4. UNCHANGED <<loaded, next, half, batch, failed, newHead, failures, mode>>
    BY <1>11 DEF DeleteRange
  <2> QED
    BY <1>1, <2>1, <2>2, <2>3, <2>4 DEF CallTypes, CallAt
<1>12. CASE Synced
  BY <1>1, <1>5, <1>6, <1>12 DEF Synced, Return, DPCs
<1>13. CASE LoadHead \/ LoadTail
  <2>1. loaded' \in (0..MaxHeight) \X (0..MaxHeight)
    <3>1. <<head, 0>> \in (0..MaxHeight) \X (0..MaxHeight)
      BY <1>0, <1>3
    <3>2. <<loaded[1], tail>> \in (0..MaxHeight) \X (0..MaxHeight)
      BY <1>1, <1>3
    <3> QED
      BY <1>13, <3>1, <3>2 DEF LoadHead, LoadTail
  <2>2. /\ dpc' \in {"done", "loadTail", "check"} /\ dpc' \in DPCs /\ failed' \in BOOLEAN
        /\ half' = FALSE
        /\ UNCHANGED <<range, next, half, batch, newHead, deletes, failures, mode>>
    BY <1>1, <1>6, <1>13 DEF LoadHead, LoadTail, Return, DPCs
  <2>3. /\ dpc' \in {"loadTail", "check"} => loaded'[1] # 0
        /\ dpc' = "check" => loaded'[2] # 0
    BY <1>0, <1>13 DEF LoadHead, LoadTail, Return, CallAt
  <2> QED
    BY <1>1, <2>1, <2>2, <2>3 DEF CallTypes, CallAt
<1>14. CASE CheckRange
  <2>1. UNCHANGED <<range, loaded, half, batch, newHead, deletes, failures, mode>> /\ half' = FALSE
    BY <1>6, <1>14 DEF CheckRange
  <2>2. CASE Rejected
    <3>1. next' = next /\ dpc' = "done" /\ failed' \in BOOLEAN
      BY <1>14, <2>2, Zenon DEF CheckRange, Return
    <3> QED
      BY <1>1, <1>5, <2>1, <3>1 DEF DPCs
  <2>3. CASE ~Rejected /\ Wipes
    <3>1. next' = next /\ dpc' = "wipeHead" /\ failed' = failed
      BY <1>14, <2>3, Zenon DEF CheckRange
    <3> QED
      BY <1>1, <1>5, <2>1, <3>1 DEF DPCs
  <2>4. CASE ~Rejected /\ ~Wipes
    <3>1. /\ next' = from /\ failed' = failed
          /\ dpc' = IF to - from < mode.threshold THEN "delete" ELSE "distribute"
      BY <1>14, <2>4, Zenon DEF CheckRange
    <3>2. dpc' \in {"delete", "distribute"} /\ dpc' \in DPCs
      BY <3>1 DEF DPCs
    <3>3. /\ ~(from >= to) /\ ~(updateTail /\ to > loaded[1] + 1)
          /\ ~(updateHead /\ ~updateTail /\ from < loaded[2])
          /\ updateTail \/ updateHead
      BY <2>4 DEF Rejected
    <3>4. loaded[2] # 0 /\ loaded[2] \in 0..MaxHeight
      BY <1>0, <1>1, <1>14 DEF CheckRange, CallAt
    <3>5. 1 <= from /\ from < to
      BY <1>0, <1>1, <3>3, <3>4 DEF updateTail
    <3> QED
      BY <1>1, <2>1, <3>1, <3>2, <3>5 DEF CallTypes, CallAt, from, to
  <2> QED
    BY <2>2, <2>3, <2>4
<1>15. CASE WipeHead \/ WipeTail
  BY <1>1, <1>5, <1>6, <1>15 DEF WipeHead, WipeTail, DPCs
<1>16. CASE WipeHeadKey
  BY <1>1, <1>4, <1>5, <1>6, <1>16 DEF WipeHeadKey, DPCs
<1>17. CASE WipeTailKey
  BY <1>1, <1>4, <1>5, <1>6, <1>17 DEF WipeTailKey, Return, DPCs
<1>18. \* The deletion reaches the next height.
       ASSUME dpc = "delete", next < to, next' = next + 1, half' = FALSE, batch' \in SUBSET Heights,
              UNCHANGED <<mode, dpc, range, loaded, failed, newHead, deletes, failures>>
       PROVE  CallTypes' /\ CallAt'
  <2>1. 1 <= from /\ from <= next
    BY <1>0, <1>18 DEF CallAt
  <2>2. 1 <= from' /\ from' <= next' /\ next' <= to' /\ next' \in 0..MaxHeight + 1
    BY <1>0, <1>1, <1>18, <2>1 DEF from, to
  <2> QED
    BY <1>1, <1>18, <2>2 DEF CallTypes, CallAt
<1>19. CASE SkipMissing
  BY <1>0, <1>1, <1>6, <1>18, <1>19 DEF SkipMissing, WorkAt
<1>20. CASE DeleteInBatch
  <2>1. next \in Heights
    BY <1>0, <1>20, NextHeight DEF DeleteInBatch
  <2>2. half = FALSE
    BY <1>0, <1>1, <1>6, <1>20 DEF DeleteInBatch, CallAt
  <2> QED
    BY <1>1, <1>18, <1>20, <2>1, <2>2 DEF DeleteInBatch
<1>21. CASE DeleteIndex
  BY <1>0, <1>1, <1>18, <1>21 DEF DeleteIndex, CallAt
<1>22. CASE DeleteHeader
  <2>1. CallTypes'
    BY <1>1, <1>22 DEF DeleteHeader, CallTypes
  <2>2. CallAt'
    BY <1>0, <1>1, <1>22 DEF DeleteHeader, CallAt, from, to
  <2> QED
    BY <2>1, <2>2
<1>23. CASE DeleteFails
  BY <1>1, <1>4, <1>5, <1>23 DEF DeleteFails, DPCs
<1>24. CASE DeleteEnds
  <2>1. half = FALSE
    BY <1>0, <1>1, <1>24 DEF DeleteEnds, CallAt
  <2> QED
    BY <1>1, <1>5, <1>24, <2>1 DEF DeleteEnds, DPCs
<1>25. CASE CommitDelete
  <2>1. half = FALSE
    BY <1>6, <1>25 DEF CommitDelete
  <2>2. dpc' \in {"setTail", "setHead", "done"} /\ dpc' \in DPCs
    BY <1>25, AfterDeleteIs DEF CommitDelete, DPCs
  <2>3. failures' \in 0..mode.failures /\ failed' \in BOOLEAN
    BY <1>1, <1>4, <1>25 DEF CommitDelete
  <2>4. batch' = {} /\ UNCHANGED <<range, loaded, next, half, newHead, deletes, mode>>
    BY <1>25 DEF CommitDelete
  <2> QED
    BY <1>1, <2>1, <2>2, <2>3, <2>4 DEF CallTypes, CallAt
<1>26. CASE Distribute
  <2>1. /\ dpc = "distribute" /\ next < to /\ next' = next + 1
        /\ UNCHANGED <<mode, range, loaded, half, batch, newHead, deletes, dpc, failed, failures>>
    BY <1>26 DEF Distribute, parCall
  <2>2. 1 <= from /\ from <= next /\ half = FALSE
    BY <1>0, <1>6, <2>1 DEF CallAt
  <2>3. 1 <= from' /\ from' <= next' /\ next' <= to' /\ next' \in 0..MaxHeight + 1
    BY <1>0, <1>1, <2>1, <2>2 DEF from, to
  <2> QED
    BY <1>1, <2>1, <2>2, <2>3 DEF CallTypes, CallAt
<1>27. CASE DistributeEnds
  BY <1>1, <1>5, <1>6, <1>27 DEF DistributeEnds, parCall, DPCs
<1>28. ASSUME NEW w \in Workers, Work(w) \/ WorkEnds(w) \/ WorkCommit(w)
       PROVE  CallTypes' /\ CallAt'
  <2>1. UNCHANGED <<mode, range, loaded, half, batch, newHead, deletes, dpc, next, failed>>
    BY <1>28 DEF Work, WorkEnds, WorkCommit, parCall
  <2>2. failures' \in 0..mode.failures
    BY <1>1, <1>4, <1>28 DEF Work, WorkEnds, WorkCommit
  <2>3. CallTypes'
    BY <1>1, <2>1, <2>2 DEF CallTypes
  <2>4. CallAt'
    BY <1>0, <2>1 DEF CallAt, from, to
  <2> QED
    BY <2>3, <2>4
<1>29. CASE AwaitWorkers
  <2>1. next' \in 0..MaxHeight + 1 /\ failed' \in BOOLEAN
    BY <1>0, <1>29, ActualHeightIs DEF AwaitWorkers, ParTypes
  <2>2. dpc' \in {"setTail", "setHead", "done"} /\ dpc' \in DPCs
    BY <1>29, AfterDeleteIs DEF AwaitWorkers, DPCs
  <2>3. half' = FALSE /\ UNCHANGED <<mode, range, loaded, half, batch, newHead, deletes, failures>>
    BY <1>6, <1>29 DEF AwaitWorkers, parCall
  <2> QED
    BY <1>1, <2>1, <2>2, <2>3 DEF CallTypes, CallAt
<1>30. CASE SetTail
  <2>1. /\ dpc' \in {"setTailKey", "done"} /\ dpc' \in DPCs /\ failed' \in BOOLEAN
        /\ dpc' = "setTailKey" => GetByHeight(next)
        /\ UNCHANGED <<range, loaded, next, half, batch, newHead, deletes, failures, mode>>
        /\ half = FALSE
    BY <1>1, <1>6, <1>30 DEF SetTail, Return, DPCs
  <2>2. dpc' = "setTailKey" => next \in Heights
    BY <1>0, <2>1, ReadableHeight
  <2> QED
    BY <1>1, <2>1, <2>2 DEF CallTypes, CallAt
<1>31. CASE SetTailKey
  BY <1>1, <1>4, <1>5, <1>6, <1>31 DEF SetTailKey, Return, DPCs
<1>32. CASE SetTailHead
  BY <1>1, <1>4, <1>5, <1>6, <1>32 DEF SetTailHead, Return, DPCs
<1>37. CASE TailAsHead
  BY <1>1, <1>5, <1>6, <1>37 DEF TailAsHead, DPCs
<1>38. CASE CheckFails
  BY <1>1, <1>4, <1>5, <1>6, <1>38 DEF CheckFails, Return, DPCs
<1>33. CASE DeleterNextHead
  <2>1. newHead' \in 0..MaxHeight
    BY <1>0, <1>3, <1>33, NextHeadIs DEF DeleterNextHead
  <2>2. /\ dpc' \in {"storeHead", "done"} /\ dpc' \in DPCs /\ failed' \in BOOLEAN /\ half = FALSE
        /\ UNCHANGED <<range, loaded, next, half, batch, deletes, failures, mode>>
    BY <1>1, <1>6, <1>33 DEF DeleterNextHead, Return, DPCs
  <2> QED
    BY <1>1, <2>1, <2>2 DEF CallTypes, CallAt
<1>34. CASE DeleterStoreHead
  BY <1>1, <1>5, <1>6, <1>34 DEF DeleterStoreHead, Return, DPCs
<1>35. CASE SetHead
  <2>1. /\ dpc' \in {"setHeadKey", "done"} /\ dpc' \in DPCs /\ failed' \in BOOLEAN
        /\ dpc' = "setHeadKey" => GetByHeight(from - 1)
        /\ UNCHANGED <<range, loaded, next, half, batch, newHead, deletes, failures, mode>>
        /\ half = FALSE
    BY <1>1, <1>6, <1>35 DEF SetHead, Return, DPCs
  <2>2. dpc' = "setHeadKey" => from' - 1 \in Heights
    BY <1>0, <2>1, ReadableHeight DEF from
  <2> QED
    BY <1>1, <2>1, <2>2 DEF CallTypes, CallAt
<1>36. CASE SetHeadKey
  BY <1>1, <1>4, <1>5, <1>6, <1>36 DEF SetHeadKey, Return, DPCs
<1> QED
  BY <1>9, <1>10, <1>11, <1>12, <1>13, <1>14, <1>15, <1>16, <1>17, <1>19, <1>20, <1>21, <1>22, <1>23,
     <1>24, <1>25, <1>26, <1>27, <1>28, <1>29, <1>30, <1>31, <1>32, <1>33, <1>34, <1>35, <1>36, <1>37, <1>38
  DEF DeleteNext, DeleteStep

\* The write path never takes a height out of the index.
LEMMA IndexGrows ==
    ASSUME Next
    PROVE  index \subseteq index'
BY DEF Next, CallerStep, LoopStep, AppendBatch, SyncCall, SyncReturn, SyncStopped, SyncTimeout,
     StopSend, StopCancel, StopReturn, StopTimeout, Start, Crash, RecvSync, RecvWrites, DrainDone,
     EnsureInit, AppendPending, AdvanceHead, ScanUp, ScanUpEnd, StoreHead, RecedeTail, ScanDown,
     ScanDownEnd, StoreTail, ScanError, SkipFlush, TakePending, LoadKeys, Commit, CommitError,
     Reset, diskVars

\* Every step keeps WorkAt.
LEMMA WorkAtStep ==
    ASSUME CallInv, DeleteNext
    PROVE  WorkAt'
<1>0. CallTypes /\ ParTypes /\ CallAt /\ WorkAt /\ half \in BOOLEAN /\ dpc \in DPCs
  BY DEF CallInv, CallTypes
<1>1. ASSUME index \subseteq index', UNCHANGED <<half, next, work, jobs>>,
             dpc' = dpc \/ (dpc \notin {"distribute", "await"} /\ dpc' \notin {"distribute", "await"})
      PROVE  WorkAt'
  BY <1>0, <1>1 DEF WorkAt
<1>2. ASSUME half' = FALSE, UNCHANGED <<work, jobs>>,
             dpc' = dpc \/ (dpc \notin {"distribute", "await"} /\ dpc' \notin {"distribute", "await"})
      PROVE  WorkAt'
  BY <1>0, <1>2 DEF WorkAt
<1>3. ASSUME half' = FALSE, jobs' = <<>>, work' = [w \in Workers |-> Worker("off")] PROVE WorkAt'
  BY <1>3 DEF WorkAt, Worker
<1>4. half = FALSE \/ (dpc = "delete" /\ half)
  BY <1>0 DEF CallAt
<1>5. CASE \/ \E b \in mode.batches : DeleteAppend(b)
           \/ (CallerStep \/ LoopStep) /\ UNCHANGED delVars
  <2>1. mode.batches \subseteq Batches
    BY <1>0, ModeFields DEF CallTypes
  <2>2. Next /\ UNCHANGED delVars
    BY <1>5, <2>1 DEF DeleteAppend, Next
  <2> QED
    BY <1>1, <2>2, IndexGrows DEF delVars, parVars
<1>6. CASE \E r \in Ranges : DeleteRange(r)
  BY <1>2, <1>4, <1>6 DEF DeleteRange, parVars
<1>7. CASE DeleteCrash \/ Returned
  BY <1>3, <1>7 DEF DeleteCrash, Returned, ResetCall
<1>8. CASE Synced \/ LoadHead \/ LoadTail \/ CheckFails \/ WipeHead \/ WipeTail \/ WipeHeadKey \/ WipeTailKey
  BY <1>2, <1>4, <1>8 DEF Synced, LoadHead, LoadTail, CheckFails, WipeHead, WipeTail, WipeHeadKey, WipeTailKey,
     Return, parVars
<1>9. CASE CheckRange
  <2>1. half' = FALSE
    BY <1>4, <1>9 DEF CheckRange
  <2>2. jobs' = <<>> /\ (dpc' # "distribute" => work' = [w \in Workers |-> Worker("off")])
    BY <1>0, <1>9 DEF CheckRange, WorkAt
  <2> QED
    BY <2>1, <2>2, <1>3 DEF WorkAt
<1>10. CASE SkipMissing \/ DeleteInBatch
  <2>1. half = FALSE
    BY <1>0, <1>4, <1>10 DEF SkipMissing, DeleteInBatch, WorkAt, CallAt
  <2> QED
    BY <1>2, <1>10, <2>1 DEF SkipMissing, DeleteInBatch, parVars
<1>11. CASE DeleteHeader
  BY <1>0, <1>11 DEF DeleteHeader, WorkAt, parVars
<1>12. CASE DeleteIndex \/ DeleteFails
  BY <1>2, <1>12 DEF DeleteIndex, DeleteFails, parVars
<1>13. CASE DeleteEnds \/ CommitDelete
  <2>1. dpc' \notin {"distribute", "await"}
    BY <1>13, AfterDeleteIs DEF DeleteEnds, CommitDelete
  <2>2. half = FALSE
    <3>1. next \in Int /\ to \in Int
      BY <1>0, StoreAssumption DEF CallTypes, to
    <3> QED
      BY <1>0, <1>4, <1>13, <3>1 DEF DeleteEnds, CommitDelete, CallAt
  <2> QED
    BY <1>2, <1>13, <2>1, <2>2 DEF DeleteEnds, CommitDelete, parVars
<1>14. CASE Distribute \/ DistributeEnds
  BY <1>4, <1>14 DEF Distribute, DistributeEnds, WorkAt, parCall
<1>15. ASSUME NEW w \in Workers, Work(w) \/ WorkEnds(w) \/ WorkCommit(w)
       PROVE  WorkAt'
  <2>1. work[w].at # "off" /\ UNCHANGED <<half, dpc>>
    BY <1>15 DEF Work, WorkEnds, WorkCommit, parCall
  <2>2. dpc \in {"distribute", "await"}
    BY <1>0, <2>1 DEF WorkAt
  <2> QED
    BY <1>4, <2>1, <2>2 DEF WorkAt
<1>16. CASE AwaitWorkers
  BY <1>3, <1>4, <1>16 DEF AwaitWorkers, parCall
<1>17. CASE \/ SetTail \/ SetTailKey \/ SetTailHead \/ TailAsHead \/ DeleterNextHead \/ DeleterStoreHead
            \/ SetHead \/ SetHeadKey
  BY <1>2, <1>4, <1>17 DEF SetTail, SetTailKey, SetTailHead, TailAsHead, DeleterNextHead, DeleterStoreHead,
     SetHead, SetHeadKey, Return, parVars
<1> QED
  BY <1>5, <1>6, <1>7, <1>8, <1>9, <1>10, <1>11, <1>12, <1>13, <1>14, <1>15, <1>16, <1>17
  DEF DeleteNext, DeleteStep

\* CallInv is an inductive invariant.
LEMMA CallInvariance == DeleteSpec => []CallInv
<1>1. DeleteInit => CallInv
  <2> SUFFICES ASSUME DeleteInit PROVE CallInv
    OBVIOUS
  <2>0. MaxHeight \in Nat /\ Cardinality(Workers) \in Nat
    BY StoreAssumption, DeleteAssumption, FS_CardinalityType
  <2>1. mode \in Modes /\ mode.deletes \in Nat /\ mode.failures \in Nat /\ mode.budget \in [Events -> Nat]
    BY ModeFields DEF DeleteInit
  <2>2. TypeOK
    <3>1. writes \in Seq(Batches \cup {Nil}) /\ batchKeys \in (0..MaxHeight) \X (0..MaxHeight)
      BY <2>0 DEF DeleteInit, NewStore
    <3>2. left \in [Events -> Nat]
      BY <2>1 DEF DeleteInit
    <3>3. pc \in PCs /\ cur \in Batches \cup {Nil}
      BY DEF DeleteInit, NewStore, PCs
    <3> QED
      BY <2>0, <3>1, <3>2, <3>3 DEF DeleteInit, NewStore, TypeOK
  <2>3. CallTypes
    <3>1. /\ range \in (0..MaxHeight + 1) \X (0..MaxHeight + 1)
          /\ loaded \in (0..MaxHeight) \X (0..MaxHeight)
      BY <2>0 DEF DeleteInit
    <3>2. /\ next \in 0..MaxHeight + 1 /\ newHead \in 0..MaxHeight
          /\ deletes \in 0..mode.deletes /\ failures \in 0..mode.failures
      BY <2>0, <2>1 DEF DeleteInit
    <3>3. half \in BOOLEAN /\ batch \in SUBSET Heights /\ failed \in BOOLEAN /\ dpc \in DPCs
      BY DEF DeleteInit, DPCs
    <3> QED
      BY <2>1, <3>1, <3>2, <3>3 DEF CallTypes
  <2>4. ParTypes
    <3>1. jobs \in Seq(Heights) /\ Len(jobs) <= Cardinality(Workers)
      BY <2>0 DEF DeleteInit
    <3>2. work \in [Workers -> WorkerType]
      BY <2>0 DEF DeleteInit, Worker, WorkerType
    <3> QED
      BY <3>1, <3>2 DEF ParTypes
  <2>5. CallAt /\ WorkAt
    BY DEF DeleteInit, CallAt, WorkAt, Worker
  <2> QED
    BY <2>2, <2>3, <2>4, <2>5 DEF CallInv
<1>2. CallInv /\ [DeleteNext]_allVars => CallInv'
  <2> SUFFICES ASSUME CallInv, [DeleteNext]_allVars PROVE CallInv'
    OBVIOUS
  <2>1. CASE DeleteNext
    BY <2>1, StoreTypeStep, ParStep, CallStep, WorkAtStep DEF CallInv
  <2>2. CASE UNCHANGED allVars
    <3>1. TypeOK'
      BY <2>2, TypeStep DEF CallInv, allVars
    <3>2. CallTypes' /\ ParTypes' /\ CallAt' /\ WorkAt'
      BY <2>2 DEF CallInv, CallTypes, ParTypes, CallAt, WorkAt, allVars, delVars, parVars, from, to,
         vars, diskVars
    <3> QED
      BY <3>1, <3>2 DEF CallInv
  <2> QED
    BY <2>1, <2>2
<1> QED
  BY <1>1, <1>2, PTL DEF DeleteSpec

\* Every variable of DeleteRange keeps its type, for every mode of failing,
\* stopping and crashing: the height it has reached never leaves the store's
\* range, and no more jobs are queued than there are workers.
THEOREM DeleteTypes == DeleteSpec => []DeleteTypeOK
<1>1. CallInv => DeleteTypeOK
  BY DEF CallInv, CallTypes, ParTypes, DeleteTypeOK, DPCs, WorkerType
<1> QED
  BY <1>1, CallInvariance, PTL

-----------------------------------------------------------------------------
\* Callers that keep Append and DeleteRange apart, on a store that is not stopped.

Unstopped == mode.budget["stop"] = 0
Apart == Unstopped /\ ~mode.overlap

\* Nobody stops the store: flushLoop never sees the nil batch.
LifeQuiet ==
    Unstopped =>
        /\ left["stop"] = 0 /\ stop = "none" /\ ~writesDn /\ NoNil
        /\ pc \notin {"off", "idle", "drain"} => cur # Nil

\* Sync has returned and the call has not.
Busy == (dpc = "sync" /\ sync = "ok") \/ dpc \notin {"none", "sync", "done"}

\* Meanwhile flushLoop is idle and its queue empty.
CallQuiet ==
    Apart =>
        /\ sync # "none" => dpc = "sync"
        /\ Busy => pc = "idle" /\ writes = <<>>

\* "commit" never fails: the heights DeleteRange has passed are out of the index,
\* in the batch, or in the hands of deleteParallel ...
Passed(h) == h \notin index \/ h \in batch
InJobs(h) == \E i \in 1..Len(jobs) : jobs[i] = h
InBatch(h) == \E w \in Workers : h \in work[w].batch
\* ... unless a worker gave up at or below them.
GaveUp(h) == \E w \in Workers : /\ work[w].err /\ work[w].at \in {"commit", "done"}
                                /\ work[w].height <= h

\* jobCh holds ascending heights above everything that was handed to a worker.
JobsAscend ==
    /\ \A i \in 1..Len(jobs) : /\ from <= jobs[i] /\ jobs[i] < next
                               /\ \A w \in Workers : work[w].height < jobs[i]
    /\ \A i, j \in 1..Len(jobs) : i < j => jobs[i] < jobs[j]
    /\ \A w \in Workers : work[w].height < next

ParPassed ==
    dpc \in {"distribute", "await"} =>
        /\ \A h \in from..next - 1 : h \notin index \/ InJobs(h) \/ InBatch(h) \/ GaveUp(h)
        /\ JobsAscend
        /\ \A w \in Workers : /\ work[w].at \in {"commit", "done"} /\ ~work[w].err =>
                                    dpc = "await" /\ jobs = <<>>
                              /\ work[w].at = "done" => work[w].batch = {}

Committing == Apart /\ "commit" \notin mode.failing

MissedInv ==
    Committing =>
        /\ dpc \in {"delete", "commitDelete"} => \A h \in from..next - 1 : Passed(h)
        /\ ParPassed
        /\ dpc \in {"setTail", "setHead"} => \A h \in from..next - 1 : h \notin index

QuietInv == CallInv /\ LifeQuiet /\ CallQuiet

\* The steps of DeleteRange leave the queue and the state of flushLoop alone.
LEMMA DeleteLeaves ==
    ASSUME DeleteStep
    PROVE  UNCHANGED <<writes, accepted, pc, cur, draining, base, boundary, toFlush, batchKeys,
                       ctxDone, writesDn, stop, left, mode>>
<1>1. CASE Synced \/ LoadHead \/ LoadTail \/ CheckRange \/ CheckFails \/ WipeHead \/ WipeTail \/ WipeHeadKey \/ WipeTailKey
  BY <1>1 DEF Synced, LoadHead, LoadTail, CheckRange, CheckFails, WipeHead, WipeTail, WipeHeadKey, WipeTailKey,
     vars, queueVars, loopVars, lifeVars
<1>2. CASE \/ SkipMissing \/ DeleteInBatch \/ DeleteHeader \/ DeleteIndex \/ DeleteFails
           \/ DeleteEnds \/ CommitDelete
  BY <1>2 DEF SkipMissing, DeleteInBatch, DeleteHeader, DeleteIndex, DeleteFails, DeleteEnds,
     CommitDelete, vars, queueVars, loopVars, lifeVars
<1>3. CASE \/ Distribute \/ DistributeEnds \/ AwaitWorkers
           \/ \E w \in Workers : Work(w) \/ WorkEnds(w) \/ WorkCommit(w)
  BY <1>3 DEF Distribute, DistributeEnds, AwaitWorkers, Work, WorkEnds, WorkCommit, parCall,
     vars, queueVars, loopVars, lifeVars
<1>4. CASE \/ SetTail \/ SetTailKey \/ SetTailHead \/ TailAsHead \/ DeleterNextHead \/ DeleterStoreHead
           \/ SetHead \/ SetHeadKey \/ Returned
  BY <1>4 DEF SetTail, SetTailKey, SetTailHead, TailAsHead, DeleterNextHead, DeleterStoreHead, SetHead,
     SetHeadKey, Returned, vars, queueVars, loopVars, lifeVars
<1> QED
  BY <1>1, <1>2, <1>3, <1>4 DEF DeleteStep

\* ... and but for the first, the Sync call.
LEMMA DeleteKeepsSync ==
    ASSUME DeleteStep
    PROVE  Synced \/ UNCHANGED <<sync, syncSeen>>
<1>1. CASE Synced \/ LoadHead \/ LoadTail \/ CheckRange \/ CheckFails \/ WipeHead \/ WipeTail \/ WipeHeadKey \/ WipeTailKey
  BY <1>1 DEF LoadHead, LoadTail, CheckRange, CheckFails, WipeHead, WipeTail, WipeHeadKey, WipeTailKey,
     vars, syncVars
<1>2. CASE \/ SkipMissing \/ DeleteInBatch \/ DeleteHeader \/ DeleteIndex \/ DeleteFails
           \/ DeleteEnds \/ CommitDelete
  BY <1>2 DEF SkipMissing, DeleteInBatch, DeleteHeader, DeleteIndex, DeleteFails, DeleteEnds,
     CommitDelete, vars, syncVars
<1>3. CASE \/ Distribute \/ DistributeEnds \/ AwaitWorkers
           \/ \E w \in Workers : Work(w) \/ WorkEnds(w) \/ WorkCommit(w)
  BY <1>3 DEF Distribute, DistributeEnds, AwaitWorkers, Work, WorkEnds, WorkCommit, vars, syncVars
<1>4. CASE \/ SetTail \/ SetTailKey \/ SetTailHead \/ TailAsHead \/ DeleterNextHead \/ DeleterStoreHead
           \/ SetHead \/ SetHeadKey \/ Returned
  BY <1>4 DEF SetTail, SetTailKey, SetTailHead, TailAsHead, DeleterNextHead, DeleterStoreHead, SetHead,
     SetHeadKey, Returned, vars, syncVars
<1> QED
  BY <1>1, <1>2, <1>3, <1>4 DEF DeleteStep

\* After Sync a call goes on until it has returned.
LEMMA DeleteMoves ==
    ASSUME CallInv, DeleteStep, ~Synced
    PROVE  /\ dpc \notin {"none", "sync"} /\ dpc' # "sync"
           /\ dpc = "done" => dpc' = "none"
<1>0. WorkAt
  BY DEF CallInv
<1>1. CASE LoadHead \/ LoadTail \/ CheckFails \/ WipeHead \/ WipeTail \/ WipeHeadKey \/ WipeTailKey
  BY <1>1 DEF LoadHead, LoadTail, CheckFails, WipeHead, WipeTail, WipeHeadKey, WipeTailKey, Return
<1>2. CASE CheckRange
  <2>1. CASE Rejected
    BY <1>2, <2>1, Zenon DEF CheckRange, Return
  <2>2. CASE ~Rejected /\ Wipes
    BY <1>2, <2>2, Zenon DEF CheckRange
  <2>3. CASE ~Rejected /\ ~Wipes
    <3>1. dpc = "check" /\ dpc' = IF to - from < mode.threshold THEN "delete" ELSE "distribute"
      BY <1>2, <2>3, Zenon DEF CheckRange
    <3> QED
      BY <3>1
  <2> QED
    BY <2>1, <2>2, <2>3
<1>3. CASE \/ SkipMissing \/ DeleteInBatch \/ DeleteHeader \/ DeleteIndex \/ DeleteFails
           \/ DeleteEnds \/ Distribute \/ DistributeEnds
  BY <1>3 DEF SkipMissing, DeleteInBatch, DeleteHeader, DeleteIndex, DeleteFails, DeleteEnds,
     Distribute, DistributeEnds
<1>4. CASE CommitDelete \/ AwaitWorkers
  BY <1>4, AfterDeleteIs DEF CommitDelete, AwaitWorkers
<1>5. ASSUME NEW w \in Workers, Work(w) \/ WorkEnds(w) \/ WorkCommit(w)
      PROVE  dpc \in {"distribute", "await"} /\ dpc' = dpc
  BY <1>0, <1>5 DEF Work, WorkEnds, WorkCommit, WorkAt
<1>6. CASE \/ SetTail \/ SetTailKey \/ SetTailHead \/ TailAsHead \/ DeleterNextHead \/ DeleterStoreHead
           \/ SetHead \/ SetHeadKey \/ Returned
  BY <1>6 DEF SetTail, SetTailKey, SetTailHead, TailAsHead, DeleterNextHead, DeleterStoreHead, SetHead,
     SetHeadKey, Returned, ResetCall, Return
<1> QED
  BY <1>1, <1>2, <1>3, <1>4, <1>5, <1>6 DEF DeleteStep

\* Every step keeps the environment.
LEMMA ModeStays ==
    ASSUME DeleteNext
    PROVE  mode' = mode
BY DeleteLeaves DEF DeleteNext, DeleteAppend, DeleteRange, DeleteCrash, delVars

\* With nothing to receive and nobody to stop it, flushLoop waits.
LEMMA Frozen ==
    ASSUME pc = "idle", writes = <<>>, sync \in {"none", "ok"}, stop = "none", left["stop"] = 0,
           ~writesDn
    PROVE  ~(CallerStep \/ LoopStep)
<1>1. ~LoopStep
  BY DEF LoopStep, RecvSync, RecvWrites, DrainDone,
     EnsureInit, AppendPending, AdvanceHead, ScanUp, ScanUpEnd, StoreHead, RecedeTail, ScanDown,
     ScanDownEnd, StoreTail, ScanError, SkipFlush, TakePending, LoadKeys, Commit, CommitError, Reset
<1>2. ~CallerStep
  BY DEF CallerStep, SyncStopped, SyncTimeout, StopSend, StopCancel, StopReturn, StopTimeout, Start,
     Spend
<1> QED
  BY <1>1, <1>2

\* No budget grows.
LEMMA LeftFalls ==
    ASSUME TypeOK, Next
    PROVE  \A e \in Events : left[e] \in Nat /\ left'[e] \in Nat /\ left'[e] <= left[e]
<1>1. left \in [Events -> Nat] /\ left' \in [Events -> Nat]
  BY TypeStep DEF TypeOK
<1>2. left' = left \/ \E e \in Events : Spend(e)
  BY EventNames DEF Next, CallerStep, LoopStep, AppendBatch, SyncCall, SyncReturn, SyncStopped, SyncTimeout,
     StopSend, StopCancel, StopReturn, StopTimeout, Start, Crash, RecvSync, RecvWrites, DrainDone,
     EnsureInit, AppendPending, AdvanceHead, ScanUp, ScanUpEnd, StoreHead, RecedeTail, ScanDown,
     ScanDownEnd, StoreTail, ScanError, SkipFlush, TakePending, LoadKeys, Commit, CommitError,
     Reset, callerVars, vars
<1> QED
  BY <1>1, <1>2, SpendBudget

\* A step of the write path on a store nobody stops.
LEMMA LifeStep ==
    ASSUME TypeOK, Next, UNCHANGED mode, LifeQuiet
    PROVE  LifeQuiet'
<1> SUFFICES ASSUME Unstopped
             PROVE  /\ left'["stop"] = 0 /\ stop' = "none" /\ ~writesDn' /\ NoNil'
                    /\ pc' \notin {"off", "idle", "drain"} => cur' # Nil
  BY DEF LifeQuiet, Unstopped
<1>0. /\ left["stop"] = 0 /\ stop = "none" /\ ~writesDn /\ NoNil
      /\ pc \notin {"off", "idle", "drain"} => cur # Nil
      /\ left \in [Events -> Nat] /\ "stop" \in Events
  BY EventNames DEF LifeQuiet, TypeOK
<1>1. left'["stop"] = 0
  BY <1>0, LeftFalls
<1>2. ASSUME UNCHANGED <<writes, stop, writesDn>>, pc' \notin {"off", "idle", "drain"} => cur' # Nil
      PROVE  /\ stop' = "none" /\ ~writesDn' /\ NoNil'
             /\ pc' \notin {"off", "idle", "drain"} => cur' # Nil
  BY <1>0, <1>2 DEF NoNil
<1>3. ASSUME NEW b \in Batches, AppendBatch(b)
      PROVE  /\ stop' = "none" /\ ~writesDn' /\ NoNil'
             /\ pc' \notin {"off", "idle", "drain"} => cur' # Nil
  <2>1. b # Nil
    BY StoreAssumption DEF Nil, Heights
  <2> QED
    BY <1>0, <1>3, <2>1, NilSend DEF AppendBatch, loopVars, lifeVars
<1>4. CASE SyncCall \/ SyncReturn \/ SyncTimeout \/ SyncStopped
  BY <1>0, <1>1, <1>2, <1>4 DEF SyncCall, SyncReturn, SyncTimeout, SyncStopped, queueVars, loopVars, lifeVars
<1>5. ~StopSend /\ ~StopCancel /\ ~StopReturn /\ ~StopTimeout
  BY <1>0 DEF StopSend, StopCancel, StopReturn, StopTimeout, Spend
<1>6. CASE Start
  BY <1>0, <1>6 DEF Start, queueVars, NoNil
<1>7. CASE Crash
  BY <1>1, <1>7 DEF Crash, CrashMemory, NoNil
<1>8. CASE RecvSync \/ DrainDone
  BY <1>1, <1>2, <1>8 DEF RecvSync, DrainDone, queueVars, callerVars, lifeVars
<1>9. CASE RecvWrites
  BY <1>0, <1>9, NilReceive DEF RecvWrites, callerVars, lifeVars
<1>10. CASE \/ EnsureInit \/ AppendPending \/ AdvanceHead \/ ScanUp \/ ScanUpEnd \/ StoreHead
            \/ RecedeTail \/ ScanDown \/ ScanDownEnd \/ StoreTail
            \/ ScanError \/ TakePending \/ LoadKeys \/ Commit \/ CommitError
  <2>1. UNCHANGED <<writes, stop, cur, writesDn>> /\ pc \notin {"off", "idle", "drain"}
    BY <1>10 DEF EnsureInit, AppendPending, AdvanceHead, ScanUp, ScanUpEnd, StoreHead, RecedeTail,
       ScanDown, ScanDownEnd, StoreTail, ScanError, TakePending, LoadKeys, Commit, CommitError,
       queueVars, callerVars, lifeVars
  <2> QED
    BY <1>0, <1>1, <1>2, <2>1
<1>11. CASE SkipFlush \/ Reset
  <2>1. cur # Nil
    BY <1>0, <1>11 DEF SkipFlush, Reset
  <2>2. /\ pc' \in {"off", "idle", "drain"} /\ UNCHANGED <<writes, stop>>
        /\ writesDn' = (writesDn \/ cur = Nil)
    BY <1>11 DEF SkipFlush, Reset, Finish, queueVars
  <2> QED
    BY <1>0, <1>1, <2>1, <2>2 DEF NoNil
<1> QED
  BY <1>1, <1>3, <1>4, <1>5, <1>6, <1>7, <1>8, <1>9, <1>10, <1>11 DEF Next, CallerStep, LoopStep

\* Every step keeps QuietInv.
LEMMA QuietStep ==
    ASSUME QuietInv, DeleteNext
    PROVE  LifeQuiet' /\ CallQuiet'
<1>0. /\ CallInv /\ LifeQuiet /\ CallQuiet /\ TypeOK /\ CallTypes /\ mode' = mode
      /\ mode.batches \subseteq Batches
  BY ModeStays, ModeFields DEF QuietInv, CallInv, CallTypes
<1>1. LifeQuiet'
  <2>1. CASE \/ \E b \in mode.batches : DeleteAppend(b)
             \/ \E r \in Ranges : DeleteRange(r)
             \/ (CallerStep \/ LoopStep) /\ UNCHANGED delVars
             \/ DeleteCrash
    <3>1. Next
      BY <1>0, <2>1 DEF Next, DeleteAppend, DeleteRange, DeleteCrash
    <3> QED
      BY <1>0, <3>1, LifeStep
  <2>2. CASE DeleteStep
    BY <1>0, <2>2, DeleteLeaves DEF LifeQuiet, Unstopped, NoNil
  <2> QED
    BY <2>1, <2>2 DEF DeleteNext
<1>2. CallQuiet'
  <2> SUFFICES ASSUME Apart
               PROVE  (sync' # "none" => dpc' = "sync") /\ (Busy' => pc' = "idle" /\ writes' = <<>>)
    BY <1>0 DEF CallQuiet, Apart, Unstopped
  <2>0. /\ sync # "none" => dpc = "sync"
        /\ Busy => pc = "idle" /\ writes = <<>>
        /\ left["stop"] = 0 /\ stop = "none" /\ ~writesDn
        /\ sync \in {"none", "send", "wait", "ok", "stopped"}
    BY <1>0 DEF CallQuiet, LifeQuiet, Apart, TypeOK
  <2>1. CASE \E b \in mode.batches : DeleteAppend(b)
    BY <2>0, <2>1 DEF DeleteAppend, Apart, AppendBatch, syncVars, delVars, Busy
  <2>2. CASE \E r \in Ranges : DeleteRange(r)
    BY <2>0, <2>2 DEF DeleteRange, SyncCall, Busy
  <2>3. CASE (CallerStep \/ LoopStep) /\ UNCHANGED delVars
    <3>1. dpc' = dpc /\ ~Busy
      BY <2>0, <2>3, Frozen DEF delVars, Busy
    <3>2. CASE dpc # "sync"
      <4>1. sync = "none" /\ sync' = "none" /\ dpc \in {"none", "done"}
        BY <2>0, <2>3, <3>1, <3>2 DEF Busy, CallerStep, LoopStep, SyncStopped, SyncTimeout,
          StopSend, StopCancel, StopReturn, StopTimeout, Start, RecvSync, RecvWrites, DrainDone,
          EnsureInit, AppendPending, AdvanceHead, ScanUp, ScanUpEnd, StoreHead, RecedeTail, ScanDown,
          ScanDownEnd, StoreTail, ScanError, SkipFlush, TakePending, LoadKeys, Commit, CommitError,
          Reset, syncVars
      <4> QED
        BY <3>1, <4>1 DEF Busy
    <3>3. CASE dpc = "sync"
      <4>1. sync # "ok"
        BY <3>1, <3>3 DEF Busy
      <4>2. sync' = "ok" => DrainDone
        BY <2>3, <4>1 DEF CallerStep, LoopStep, SyncStopped, SyncTimeout,
          StopSend, StopCancel, StopReturn, StopTimeout, Start, RecvSync, RecvWrites, DrainDone,
          EnsureInit, AppendPending, AdvanceHead, ScanUp, ScanUpEnd, StoreHead, RecedeTail, ScanDown,
          ScanDownEnd, StoreTail, ScanError, SkipFlush, TakePending, LoadKeys, Commit, CommitError,
          Reset, syncVars
      <4>3. DrainDone => pc' = "idle" /\ writes' = <<>>
        BY DEF DrainDone, queueVars
      <4> QED
        BY <3>1, <3>3, <4>2, <4>3 DEF Busy
    <3> QED
      BY <3>2, <3>3
  <2>4. CASE DeleteCrash
    BY <2>4 DEF DeleteCrash, Crash, CrashMemory, ResetCall, Busy
  <2>5. CASE Synced
    <3>1. sync' = "none" /\ dpc' \in {"loadHead", "done"} /\ (dpc' = "loadHead" => sync = "ok" /\ dpc = "sync")
      BY <2>5 DEF Synced, Return
    <3> QED
      BY <2>0, <2>5, <3>1, DeleteLeaves DEF DeleteStep, Busy
  <2>6. CASE DeleteStep /\ ~Synced
    <3>1. UNCHANGED <<writes, pc, sync>>
      BY <2>6, DeleteLeaves, DeleteKeepsSync
    <3>2. dpc # "sync" /\ dpc # "none" /\ dpc' # "sync"
      BY <1>0, <2>6, DeleteMoves
    <3>3. dpc = "done" => dpc' = "none"
      BY <1>0, <2>6, DeleteMoves
    <3> QED
      BY <2>0, <3>1, <3>2, <3>3 DEF Busy
  <2> QED
    BY <2>1, <2>2, <2>3, <2>4, <2>5, <2>6 DEF DeleteNext
<1> QED
  BY <1>1, <1>2

\* deleteParallel: a height is handed out, or skipped because a lower one failed.
LEMMA DistributePassed ==
    ASSUME CallInv, ParPassed, Distribute
    PROVE  ParPassed'
<1>0. /\ CallTypes /\ ParTypes /\ CallAt /\ MaxHeight \in Nat /\ dpc = "distribute"
      /\ next' = next + 1 /\ UNCHANGED <<dpc, range, work, index>>
      /\ jobs' = Append(jobs, next) \/ (errClosed /\ jobs' = jobs)
  BY StoreAssumption DEF CallInv, Distribute, parCall, vars, diskVars
<1>1. /\ from \in Int /\ next \in Int /\ from <= next /\ from' = from
      /\ jobs \in Seq(Heights) /\ work \in [Workers -> WorkerType]
      /\ \A w \in Workers : work[w].height \in 0..MaxHeight
  BY <1>0 DEF CallTypes, CallAt, ParTypes, WorkerType, from
<1>2. /\ \A h \in from..next - 1 : h \notin index \/ InJobs(h) \/ InBatch(h) \/ GaveUp(h)
      /\ JobsAscend
      /\ \A w \in Workers : /\ work[w].at \in {"commit", "done"} /\ ~work[w].err =>
                                  dpc = "await" /\ jobs = <<>>
                            /\ work[w].at = "done" => work[w].batch = {}
  BY <1>0 DEF ParPassed
<1>3. \A h \in from..next : h \in from..next - 1 \/ h = next
  BY <1>1
<1>4. \A h : InBatch(h)' = InBatch(h) /\ GaveUp(h)' = GaveUp(h)
  BY <1>0 DEF InBatch, GaveUp
<1>5. CASE jobs' = Append(jobs, next)
  <2>1. /\ Len(jobs') = Len(jobs) + 1 /\ Len(jobs) \in Nat
        /\ \A i \in 1..Len(jobs) : jobs'[i] = jobs[i] /\ jobs[i] \in Heights
        /\ jobs'[Len(jobs) + 1] = next
    BY <1>1, <1>5
  <2>2. \A h : InJobs(h) \/ h = next => InJobs(h)'
    <3> SUFFICES ASSUME NEW h, InJobs(h) \/ h = next
                 PROVE  \E i \in 1..Len(jobs') : jobs'[i] = h
      BY DEF InJobs
    <3>1. CASE h = next
      BY <2>1, <3>1
    <3>2. CASE InJobs(h)
      BY <2>1, <3>2 DEF InJobs
    <3> QED
      BY <3>1, <3>2
  <2>3. \A i \in 1..Len(jobs) + 1 : i \in 1..Len(jobs) \/ i = Len(jobs) + 1
    BY <2>1
  <2>4. \A i \in 1..Len(jobs) + 1 : /\ from <= jobs'[i] /\ jobs'[i] < next + 1
                                    /\ \A w \in Workers : work[w].height < jobs'[i]
    <3>1. \A i \in 1..Len(jobs) : jobs[i] \in Int
      BY <2>1 DEF Heights
    <3>2. \A i \in 1..Len(jobs) : /\ from <= jobs'[i] /\ jobs'[i] < next + 1
                                   /\ \A w \in Workers : work[w].height < jobs'[i]
      BY <1>1, <1>2, <2>1, <3>1 DEF JobsAscend
    <3>3. from <= next /\ next < next + 1 /\ \A w \in Workers : work[w].height < next
      BY <1>1, <1>2 DEF JobsAscend
    <3> QED
      BY <2>1, <2>3, <3>2, <3>3
  <2>5. \A i, j \in 1..Len(jobs) + 1 : i < j => jobs'[i] < jobs'[j]
    BY <1>1, <1>2, <2>1, <2>3 DEF JobsAscend
  <2>6. \A w \in Workers : work[w].height < next + 1
    BY <1>1, <1>2 DEF JobsAscend
  <2>7. JobsAscend'
    BY <1>0, <1>1, <2>1, <2>4, <2>5, <2>6 DEF JobsAscend
  <2>8. \A h \in from'..next' - 1 : h \notin index' \/ InJobs(h)' \/ InBatch(h)' \/ GaveUp(h)'
    <3>1. \A h \in from'..next' - 1 : h \in from..next
      BY <1>0, <1>1
    <3> QED
      BY <1>0, <1>2, <1>3, <1>4, <2>2, <3>1
  <2> QED
    BY <1>0, <1>2, <2>7, <2>8 DEF ParPassed
<1>6. CASE errClosed /\ jobs' = jobs
  <2>1. \A h : InJobs(h)' = InJobs(h)
    BY <1>6 DEF InJobs
  <2>2. GaveUp(next)
    BY <1>1, <1>2, <1>6 DEF errClosed, GaveUp, JobsAscend
  <2>3. JobsAscend'
    <3>1. \A i \in 1..Len(jobs) : jobs[i] \in Int
      <4>1. \A i \in 1..Len(jobs) : jobs[i] \in Heights
        BY <1>1
      <4> QED
        BY <1>0, <4>1 DEF Heights
    <3> QED
      BY <1>0, <1>1, <1>2, <1>6, <3>1 DEF JobsAscend
  <2>4. \A h \in from'..next' - 1 : h \notin index' \/ InJobs(h)' \/ InBatch(h)' \/ GaveUp(h)'
    BY <1>0, <1>1, <1>2, <1>3, <1>4, <2>1, <2>2
  <2> QED
    BY <1>0, <1>2, <1>6, <2>3, <2>4 DEF ParPassed
<1> QED
  BY <1>0, <1>5, <1>6

\* deleteParallel: a worker takes a height.
LEMMA WorkPassed ==
    ASSUME CallInv, ParPassed, NEW w \in Workers, Work(w)
    PROVE  ParPassed'
<1>0. /\ CallTypes /\ ParTypes /\ WorkAt /\ MaxHeight \in Nat
      /\ UNCHANGED <<dpc, range, next, index>>
  BY StoreAssumption DEF CallInv, Work, parCall, diskVars
<1>1. /\ from \in Int /\ next \in Int /\ from' = from
      /\ jobs \in Seq(Heights) /\ work \in [Workers -> WorkerType]
      /\ \A v \in Workers : work[v].height \in 0..MaxHeight
  BY <1>0 DEF CallTypes, ParTypes, WorkerType, from
<1> DEFINE j == Head(jobs)
<1>2. /\ jobs # <<>> /\ j \in Heights /\ jobs' = Tail(jobs)
      /\ \A v \in Workers : v # w => work'[v] = work[v]
      /\ work[w].at = "run" /\ work'[w].height = j
      /\ \/ /\ j \in index /\ work'[w].batch = work[w].batch \cup {j}
            /\ work'[w].at = "run" /\ ~work'[w].err
         \/ /\ j \notin index /\ work'[w].batch = work[w].batch
            /\ work'[w].at = "run" /\ work'[w].err
         \/ work'[w].batch = work[w].batch /\ work'[w].at = "commit" /\ work'[w].err
  BY <1>0, WorkIs
<1>3. dpc \in {"distribute", "await"}
  BY <1>0, <1>2 DEF WorkAt
<1>4. /\ \A h \in from..next - 1 : h \notin index \/ InJobs(h) \/ InBatch(h) \/ GaveUp(h)
      /\ JobsAscend
      /\ \A v \in Workers : /\ work[v].at \in {"commit", "done"} /\ ~work[v].err =>
                                  dpc = "await" /\ jobs = <<>>
                            /\ work[v].at = "done" => work[v].batch = {}
  BY <1>3 DEF ParPassed
<1>5. /\ Len(jobs) \in Nat \ {0} /\ Len(jobs') = Len(jobs) - 1 /\ jobs[1] = j
      /\ \A i \in 1..Len(jobs') : jobs'[i] = jobs[i + 1] /\ i + 1 \in 1..Len(jobs)
      /\ \A i \in 1..Len(jobs) : jobs[i] \in Int
  <2>1. /\ Len(jobs) \in Nat \ {0} /\ Len(jobs') = Len(jobs) - 1 /\ jobs[1] = j
        /\ \A i \in 1..Len(jobs') : jobs'[i] = jobs[i + 1]
        /\ \A i \in 1..Len(jobs) : jobs[i] \in Heights
    BY <1>1, <1>2
  <2>2. \A i \in 1..Len(jobs') : i + 1 \in 1..Len(jobs)
    BY <2>1
  <2>3. Heights \subseteq Int
    BY <1>0 DEF Heights
  <2> QED
    BY <2>1, <2>2, <2>3
<1>6. \A h : InJobs(h) => h = j \/ InJobs(h)'
  <2> SUFFICES ASSUME NEW h, h # j, NEW i \in 1..Len(jobs), jobs[i] = h
               PROVE  \E k \in 1..Len(jobs') : jobs'[k] = h
    BY DEF InJobs
  <2>1. i - 1 \in 1..Len(jobs') /\ (i - 1) + 1 = i
    BY <1>5
  <2> QED
    BY <1>5, <2>1
<1>7. \A h : InBatch(h) => InBatch(h)'
  BY <1>2 DEF InBatch
<1>8. \A h : GaveUp(h) => GaveUp(h)'
  BY <1>2 DEF GaveUp
<1>9. \A h : h = j => h \notin index \/ InBatch(h)' \/ GaveUp(h)'
  <2> SUFFICES ASSUME NEW h, h = j PROVE h \notin index \/ InBatch(h)' \/ GaveUp(h)'
    OBVIOUS
  <2>1. CASE work'[w].batch = work[w].batch \cup {j}
    BY <2>1 DEF InBatch
  <2>2. CASE work'[w].at = "commit" /\ work'[w].err
    <3>1. j <= j
      BY <1>0, <1>2 DEF Heights
    <3> QED
      BY <1>2, <2>2, <3>1 DEF GaveUp
  <2> QED
    BY <1>2, <2>1, <2>2
<1>10. \A h \in from'..next' - 1 : h \notin index' \/ InJobs(h)' \/ InBatch(h)' \/ GaveUp(h)'
  BY <1>0, <1>1, <1>4, <1>6, <1>7, <1>8, <1>9
<1>11. JobsAscend'
  <2>1. \A i \in 1..Len(jobs') : /\ from <= jobs'[i] /\ jobs'[i] < next /\ jobs[1] < jobs[i + 1]
                                 /\ \A v \in Workers : work[v].height < jobs'[i]
    <3>1. \A i \in 1..Len(jobs') : i + 1 \in 1..Len(jobs) /\ 1 \in 1..Len(jobs) /\ 1 < i + 1
      BY <1>5
    <3> QED
      BY <1>4, <1>5, <3>1 DEF JobsAscend
  <2>2. \A i \in 1..Len(jobs') : \A v \in Workers : work'[v].height < jobs'[i]
    BY <1>2, <1>5, <2>1
  <2>3. \A i, k \in 1..Len(jobs') : i < k => jobs'[i] < jobs'[k]
    <3>1. \A i, k \in 1..Len(jobs') : i < k => i + 1 < k + 1
      BY <1>5
    <3> QED
      BY <1>4, <1>5, <3>1 DEF JobsAscend
  <2>4. \A v \in Workers : work'[v].height < next
    BY <1>2, <1>4, <1>5 DEF JobsAscend
  <2> QED
    BY <1>0, <1>1, <2>1, <2>2, <2>3, <2>4 DEF JobsAscend
<1>12. \A v \in Workers : /\ work'[v].at \in {"commit", "done"} /\ ~work'[v].err =>
                                dpc' = "await" /\ jobs' = <<>>
                          /\ work'[v].at = "done" => work'[v].batch = {}
  BY <1>2, <1>4
<1> QED
  BY <1>10, <1>11, <1>12 DEF ParPassed

\* deleteParallel: a worker ends, with the error it has.
LEMMA WorkEndsPassed ==
    ASSUME CallInv, ParPassed, NEW w \in Workers, WorkEnds(w)
    PROVE  ParPassed'
<1>0. /\ ParTypes /\ UNCHANGED <<dpc, range, next, jobs, index>> /\ dpc = "await" /\ jobs = <<>>
  BY DEF CallInv, WorkEnds, parCall, vars, diskVars
<1>1. /\ \A v \in Workers : v # w => work'[v] = work[v]
      /\ work[w].at = "run" /\ work'[w].at = "commit"
      /\ work'[w].height = work[w].height /\ work'[w].err = work[w].err
      /\ work'[w].batch = work[w].batch
  BY <1>0, WorkEndsIs
<1>2. \A h : InJobs(h)' = InJobs(h) /\ (InBatch(h) => InBatch(h)') /\ (GaveUp(h) => GaveUp(h)')
  BY <1>0, <1>1 DEF InJobs, InBatch, GaveUp
<1>3. \A h \in from'..next' - 1 : h \notin index' \/ InJobs(h)' \/ InBatch(h)' \/ GaveUp(h)'
  BY <1>0, <1>2 DEF ParPassed, from
<1>4. \A v \in Workers : work'[v].height = work[v].height
  BY <1>1
<1>5. JobsAscend'
  BY <1>0, <1>4 DEF ParPassed, JobsAscend, from
<1> QED
  BY <1>0, <1>1, <1>3, <1>5 DEF ParPassed

\* deleteParallel: a worker's batch is committed.
LEMMA WorkCommitPassed ==
    ASSUME CallInv, ParPassed, ~Fail("commit"), NEW w \in Workers, WorkCommit(w)
    PROVE  ParPassed'
<1>0. ParTypes /\ WorkAt /\ UNCHANGED <<dpc, range, next, jobs>>
  BY DEF CallInv, WorkCommit, parCall
<1>1. /\ \A v \in Workers : v # w => work'[v] = work[v]
      /\ work[w].at = "commit" /\ work'[w].at = "done" /\ work'[w].batch = {}
      /\ work'[w].height = work[w].height
      /\ index' = index \ work[w].batch /\ work'[w].err = work[w].err
  BY <1>0, WorkCommitIs
<1>2. dpc \in {"distribute", "await"}
  BY <1>0, <1>1 DEF WorkAt
<1>3. \A h : InJobs(h)' = InJobs(h) /\ (InBatch(h) => h \notin index' \/ InBatch(h)')
             /\ (GaveUp(h) => GaveUp(h)')
  BY <1>0, <1>1 DEF InJobs, InBatch, GaveUp
<1>4. \A h \in from'..next' - 1 : h \notin index' \/ InJobs(h)' \/ InBatch(h)' \/ GaveUp(h)'
  BY <1>0, <1>1, <1>2, <1>3 DEF ParPassed, from
<1>5. \A v \in Workers : work'[v].height = work[v].height
  BY <1>1
<1>6. JobsAscend'
  BY <1>0, <1>2, <1>5 DEF ParPassed, JobsAscend, from
<1> QED
  BY <1>0, <1>1, <1>2, <1>4, <1>6 DEF ParPassed

\* deleteParallel: nothing indexed is left below the height it returns.
LEMMA AwaitPassed ==
    ASSUME CallInv, ParPassed, AwaitWorkers
    PROVE  \A h \in from..actualHeight - 1 : h \notin index
<1>0. /\ CallTypes /\ ParTypes /\ MaxHeight \in Nat
      /\ dpc = "await" /\ \A w \in Workers : work[w].at = "done"
  BY StoreAssumption DEF CallInv, AwaitWorkers
<1>1. /\ from \in Int /\ next \in Int
      /\ jobs \in Seq(Heights) /\ work \in [Workers -> WorkerType]
      /\ \A w \in Workers : work[w].height \in 0..MaxHeight /\ work[w].err \in BOOLEAN
      /\ \A i \in 1..Len(jobs) : jobs[i] \in Int
  BY <1>0 DEF CallTypes, ParTypes, WorkerType, from, Heights
<1>2. /\ \A h \in from..next - 1 : h \notin index \/ InJobs(h) \/ InBatch(h) \/ GaveUp(h)
      /\ JobsAscend
      /\ \A w \in Workers : /\ ~work[w].err => jobs = <<>>
                            /\ work[w].batch = {}
  BY <1>0 DEF ParPassed
<1>3. /\ actualHeight \in 0..MaxHeight + 1
      /\ \A w \in Workers : work[w].err => actualHeight <= work[w].height
      /\ (\A w \in Workers : ~work[w].err) => \E w \in Workers : actualHeight = work[w].height + 1
  BY <1>1, ActualHeightIs
<1> SUFFICES ASSUME NEW h \in from..actualHeight - 1, h \in index
             PROVE  FALSE
  OBVIOUS
<1>4. h \in Int /\ from <= h /\ h < actualHeight
  BY <1>1, <1>3
<1>5. \A w \in Workers : work[w].err => h < work[w].height
  BY <1>1, <1>3, <1>4
<1>6. \A w \in Workers : work[w].height < next
  BY <1>2 DEF JobsAscend
<1>7. h \in from..next - 1
  <2>1. CASE \E w \in Workers : work[w].err
    BY <1>1, <1>4, <1>5, <1>6, <2>1
  <2>2. CASE \A w \in Workers : ~work[w].err
    BY <1>1, <1>3, <1>4, <1>6, <2>2
  <2> QED
    BY <2>1, <2>2
<1>8. ~InBatch(h)
  BY <1>2 DEF InBatch
<1>9. ~GaveUp(h)
  BY <1>1, <1>4, <1>5 DEF GaveUp
<1>10. InJobs(h)
  BY <1>2, <1>7, <1>8, <1>9
<1>11. PICK i \in 1..Len(jobs) : jobs[i] = h
  BY <1>10 DEF InJobs
<1>12. jobs # <<>>
  BY <1>11
<1>13. PICK w \in Workers : work[w].err
  BY <1>2, <1>12, DeleteAssumption
<1>14. work[w].height < h
  BY <1>2, <1>11 DEF JobsAscend
<1> QED
  BY <1>1, <1>4, <1>5, <1>13, <1>14

\* Every step of a call that nothing disturbs keeps MissedInv.
LEMMA MissedStep ==
    ASSUME QuietInv, MissedInv, DeleteNext
    PROVE  MissedInv'
<1>0. /\ CallInv /\ LifeQuiet /\ CallQuiet /\ TypeOK /\ CallTypes /\ CallAt /\ ParTypes /\ WorkAt
      /\ mode' = mode /\ MaxHeight \in Nat
  BY ModeStays, StoreAssumption DEF QuietInv, CallInv
<1> SUFFICES ASSUME Committing
             PROVE  /\ dpc' \in {"delete", "commitDelete"} => \A h \in from'..next' - 1 : Passed(h)'
                    /\ ParPassed'
                    /\ dpc' \in {"setTail", "setHead"} => \A h \in from'..next' - 1 : h \notin index'
  BY <1>0 DEF MissedInv, Committing, Apart, Unstopped
<1> DEFINE Goal == /\ dpc' \in {"delete", "commitDelete"} => \A h \in from'..next' - 1 : Passed(h)'
                   /\ ParPassed'
                   /\ dpc' \in {"setTail", "setHead"} => \A h \in from'..next' - 1 : h \notin index'
<1>1. /\ dpc \in {"delete", "commitDelete"} => \A h \in from..next - 1 : Passed(h)
      /\ ParPassed
      /\ dpc \in {"setTail", "setHead"} => \A h \in from..next - 1 : h \notin index
  BY DEF MissedInv
<1>2. /\ range \in (0..MaxHeight + 1) \X (0..MaxHeight + 1)
      /\ from \in 0..MaxHeight + 1 /\ to \in 0..MaxHeight + 1 /\ next \in 0..MaxHeight + 1
      /\ from \in Int /\ to \in Int /\ next \in Int
  BY <1>0 DEF CallTypes, from, to
<1>3. Apart /\ "commit" \notin mode.failing /\ ~Fail("commit")
  BY DEF Committing, Fail
<1>4. ASSUME dpc' \notin {"delete", "commitDelete", "distribute", "await", "setTail", "setHead"}
      PROVE  Goal
  BY <1>4 DEF ParPassed
<1>5. CASE \E b \in mode.batches : DeleteAppend(b)
  BY <1>3, <1>4, <1>5 DEF DeleteAppend, delVars, Apart
<1>6. CASE \E r \in Ranges : DeleteRange(r)
  BY <1>4, <1>6 DEF DeleteRange
<1>7. CASE (CallerStep \/ LoopStep) /\ UNCHANGED delVars
  <2>1. ~Busy
    BY <1>0, <1>3, <1>7, Frozen DEF CallQuiet, LifeQuiet, Apart, Busy
  <2> QED
    BY <1>4, <1>7, <2>1 DEF Busy, delVars
<1>8. CASE DeleteCrash \/ Returned
  BY <1>4, <1>8 DEF DeleteCrash, Returned, ResetCall
<1>9. CASE \/ Synced \/ LoadHead \/ LoadTail \/ CheckFails \/ WipeHead \/ WipeTail \/ WipeHeadKey \/ WipeTailKey
           \/ SetTail \/ SetTailKey \/ SetTailHead \/ TailAsHead \/ DeleterNextHead \/ DeleterStoreHead
           \/ SetHead \/ SetHeadKey
  BY <1>4, <1>9 DEF Synced, LoadHead, LoadTail, CheckFails, WipeHead, WipeTail, WipeHeadKey, WipeTailKey,
     SetTail, SetTailKey, SetTailHead, TailAsHead, DeleterNextHead, DeleterStoreHead, SetHead, SetHeadKey, Return
<1>10. CASE CheckRange
  <2>1. CASE Rejected \/ Wipes
    <3>1. dpc' \in {"done", "wipeHead"}
      BY <1>10, <2>1, Zenon DEF CheckRange, Return
    <3> QED
      BY <1>4, <3>1
  <2>2. CASE ~Rejected /\ ~Wipes
    <3>1. /\ next' = from /\ range' = range /\ jobs' = jobs
          /\ dpc' = IF to - from < mode.threshold THEN "delete" ELSE "distribute"
      BY <1>10, <2>2, Zenon DEF CheckRange
    <3>2. dpc' \in {"delete", "distribute"} /\ from' = from /\ \A h \in from'..next' - 1 : FALSE
      BY <1>2, <3>1 DEF from
    <3>3. dpc' = "distribute" => /\ work' = [w \in Workers |-> Worker("run")] /\ jobs' = <<>>
                                 /\ 1 <= next'
      <4>1. jobs = <<>>
        BY <1>0, <1>10 DEF CheckRange, WorkAt
      <4>2. CallAt'
        BY <1>0, CallStep
      <4>3. 1 <= from'
        BY <3>2, <4>2 DEF CallAt
      <4>4. dpc' = "distribute" => work' = [w \in Workers |-> Worker("run")]
        BY <1>10 DEF CheckRange
      <4> QED
        BY <3>1, <3>2, <4>1, <4>3, <4>4
    <3>4. ParPassed'
      <4> SUFFICES ASSUME dpc' = "distribute" PROVE ParPassed'
        BY <3>2 DEF ParPassed
      <4>1. /\ Len(jobs') = 0
            /\ \A w \in Workers : work'[w].height = 0 /\ work'[w].at = "run" /\ work'[w].batch = {}
        BY <3>3 DEF Worker
      <4>2. 0 < next'
        BY <1>2, <3>1, <3>3
      <4>3. JobsAscend'
        BY <4>1, <4>2 DEF JobsAscend
      <4> QED
        BY <3>2, <4>1, <4>3 DEF ParPassed
    <3> QED
      BY <3>2, <3>4
  <2> QED
    BY <2>1, <2>2
<1>11. \* The deletion goes on with the next height.
       ASSUME dpc = "delete", next' = next + 1, UNCHANGED <<dpc, range>>,
              batch \subseteq batch', index' \subseteq index, next \notin index' \/ next \in batch'
       PROVE  Goal
  <2>1. \A h \in from'..next' - 1 : h \in from..next - 1 \/ h = next
    BY <1>2, <1>11 DEF from
  <2>2. \A h \in from'..next' - 1 : Passed(h)'
    BY <1>1, <1>11, <2>1 DEF Passed
  <2> QED
    BY <1>11, <2>2 DEF ParPassed
<1>12. CASE SkipMissing
  BY <1>11, <1>12 DEF SkipMissing, vars, diskVars
<1>13. CASE DeleteInBatch
  BY <1>11, <1>13 DEF DeleteInBatch, diskVars
<1>14. CASE DeleteIndex
  BY <1>11, <1>14 DEF DeleteIndex
<1>15. CASE DeleteHeader \/ DeleteFails \/ DeleteEnds
  <2>1. /\ dpc = "delete" /\ dpc' \in {"delete", "commitDelete"}
        /\ UNCHANGED <<index, batch, range, next>>
    BY <1>15 DEF DeleteHeader, DeleteFails, DeleteEnds, vars, diskVars
  <2> QED
    BY <1>1, <2>1 DEF ParPassed, Passed, from
<1>16. CASE CommitDelete
  <2>1. dpc = "commitDelete" /\ index' = index \ batch /\ UNCHANGED <<range, next>>
    BY <1>3, <1>16 DEF CommitDelete
  <2>2. dpc' \in {"setTail", "setHead", "done"}
    BY <1>16, AfterDeleteIs DEF CommitDelete
  <2> QED
    BY <1>1, <2>1, <2>2 DEF ParPassed, Passed, from
<1>17. CASE Distribute
  BY <1>0, <1>1, <1>17, DistributePassed DEF Distribute
<1>18. CASE DistributeEnds
  <2>1. /\ dpc = "distribute" /\ dpc' = "await" /\ UNCHANGED <<range, next, jobs, work, index>>
    BY <1>18 DEF DistributeEnds, parCall, parVars, vars, diskVars
  <2>2. \A h : InJobs(h)' = InJobs(h) /\ InBatch(h)' = InBatch(h) /\ GaveUp(h)' = GaveUp(h)
    BY <2>1 DEF InJobs, InBatch, GaveUp
  <2>3. JobsAscend'
    BY <1>1, <2>1 DEF ParPassed, JobsAscend, from
  <2>4. ParPassed'
    BY <1>1, <2>1, <2>2, <2>3 DEF ParPassed, from
  <2> QED
    BY <2>1, <2>4
<1>19. ASSUME NEW w \in Workers, Work(w) \/ WorkEnds(w) \/ WorkCommit(w)
       PROVE  Goal
  <2>1. dpc \in {"distribute", "await"} /\ dpc' = dpc
    BY <1>0, <1>19 DEF Work, WorkEnds, WorkCommit, WorkAt
  <2>2. ParPassed'
    BY <1>0, <1>1, <1>3, <1>19, WorkPassed, WorkEndsPassed, WorkCommitPassed
  <2> QED
    BY <2>1, <2>2
<1>20. CASE AwaitWorkers
  <2>1. range' = range /\ next' = actualHeight /\ index' = index
    BY <1>20 DEF AwaitWorkers, parCall, vars, diskVars
  <2>2. dpc' \in {"setTail", "setHead", "done"}
    BY <1>20, AfterDeleteIs DEF AwaitWorkers
  <2>3. \A h \in from'..next' - 1 : h \notin index'
    BY <1>0, <1>1, <1>20, <2>1, AwaitPassed DEF from
  <2> QED
    BY <2>2, <2>3 DEF ParPassed
<1> QED
  BY <1>5, <1>6, <1>7, <1>8, <1>9, <1>10, <1>12, <1>13, <1>14, <1>15, <1>16, <1>17, <1>18, <1>19, <1>20
  DEF DeleteNext, DeleteStep

\* The invariants of a call that nothing disturbs.
LEMMA QuietInvariance == DeleteSpec => [](QuietInv /\ MissedInv)
<1>1. DeleteInit => LifeQuiet /\ CallQuiet /\ MissedInv
  BY DEF DeleteInit, NewStore, LifeQuiet, Unstopped, NoNil, CallQuiet, Busy, MissedInv, ParPassed
<1>2. CallInv /\ LifeQuiet /\ CallQuiet /\ MissedInv /\ [DeleteNext]_allVars =>
          LifeQuiet' /\ CallQuiet' /\ MissedInv'
  <2> SUFFICES ASSUME CallInv, LifeQuiet, CallQuiet, MissedInv, [DeleteNext]_allVars
               PROVE  LifeQuiet' /\ CallQuiet' /\ MissedInv'
    OBVIOUS
  <2>1. CASE DeleteNext
    BY <2>1, QuietStep, MissedStep DEF QuietInv
  <2>2. CASE UNCHANGED allVars
    <3>1. /\ UNCHANGED <<writes, pc, cur, writesDn, stop, sync, left, index>>
          /\ UNCHANGED <<mode, dpc, range, next, batch, jobs, work>>
      BY <2>2 DEF allVars, vars, delVars, parVars, queueVars, loopVars, lifeVars, syncVars, diskVars
    <3>2. LifeQuiet' /\ CallQuiet'
      BY <3>1 DEF LifeQuiet, Unstopped, NoNil, CallQuiet, Apart, Busy
    <3>3. ParPassed' = ParPassed
      BY <3>1 DEF ParPassed, JobsAscend, InJobs, InBatch, GaveUp, from
    <3>4. MissedInv'
      BY <3>1, <3>3 DEF MissedInv, Committing, Apart, Unstopped, Passed, from
    <3> QED
      BY <3>2, <3>4
  <2> QED
    BY <2>1, <2>2
<1>3. CallInv /\ LifeQuiet /\ CallQuiet /\ MissedInv <=> QuietInv /\ MissedInv
  BY DEF QuietInv
<1> QED
  BY <1>1, <1>2, <1>3, CallInvariance, PTL DEF DeleteSpec

\* Whichever worker fails or finds its header missing, in whichever order they
\* report, and wherever a sequential deletion ends: nothing is left in the index
\* below the height the tail is moved to.  It holds for every number of workers,
\* threshold, timeout, I/O error and crash on a store nobody stops meanwhile
\* (Stop flushes pending headers the deletion had skipped as missing).
THEOREM NothingIsMissed == DeleteSpec => [](Unstopped => NothingMissed)
<1>1. MissedInv => (Unstopped => NothingMissed)
  BY DEF MissedInv, NothingMissed, Committing, Apart
<1> QED
  BY <1>1, QuietInvariance, PTL

-----------------------------------------------------------------------------
\* No gap between tail and head.

\* Sequential deletions, apart from the appends, on a store that is neither
\* stopped nor crashes.  Steps may fail if the deletes of a call are committed
\* together and only the tail side is pruned.
Gapless ==
    /\ Apart /\ mode.budget["crash"] = 0 /\ mode.threshold > MaxHeight
    /\ mode.failures = 0 \/ (mode.batched /\ ~mode.headSide)

Have == pending \cup index
Hand == IF pc = "append" THEN HeadersOf(cur) ELSE {}

\* The index only leads to headers that are there, but for the one being deleted.
IndexOK == \A h \in index : h \in disk \/ (half /\ h = next)

\* What flushLoop knows at each of its steps.
LoopOK ==
    /\ left["crash"] = 0
    /\ pc = "off" => head = 0 /\ tail = 0 /\ headKey = 0 /\ tailKey = 0
    /\ pc \in {"scanUp", "storeHead"} => head # 0 /\ head <= boundary /\ head..boundary \subseteq Have
    /\ pc \in {"scanDown", "storeTail"} =>
          tail # 0 /\ 1 <= boundary /\ boundary <= tail /\ boundary..tail \subseteq Have
    /\ pc \in {"load", "commit"} => toFlush = pending
    /\ pc = "reset" => pending \subseteq index

\* The pointers delimit headers, except while DeleteRange moves between them.
RangeOK ==
    /\ (head = 0) <=> (tail = 0)
    /\ head # 0 => tail <= head /\ tail..head \subseteq Have \cup Hand
Settled == dpc \in {"none", "sync", "loadHead", "loadTail", "check", "advance", "storeHead",
                    "setHeadKey", "done"}

\* What deleteRangeRaw has left: everything outside of the heights it has passed.
RawOK ==
    /\ head # 0 /\ tail # 0 /\ tail <= head /\ to <= head + 1 /\ from < to
    /\ from = tail \/ (to = head + 1 /\ tail < from)
    /\ from = tail /\ to = head + 1 => to \in Have
    /\ \A h \in tail..head : h < from \/ next <= h => h \in Have
    /\ \A h \in batch : from <= h /\ h < next
    /\ mode.headSide \/ to <= head

\* The headers from the new tail on.
TailOK ==
    /\ head # 0 /\ 1 <= next /\ next <= head + 1
    /\ next \in Have /\ next..head \subseteq Have
    /\ mode.headSide \/ next <= head

\* What DeleteRange knows at each of its steps.
PhaseOK ==
    /\ mode.headSide \/ dpc = "none" \/ to <= head
    /\ dpc \notin {"delete", "commitDelete"} => batch = {}
    /\ dpc \in {"loadTail", "check"} => loaded[1] = head
    /\ dpc = "check" => loaded[2] = tail
    /\ dpc \in {"delete", "commitDelete"} => RawOK /\ loaded = <<head, tail>>
    /\ dpc = "commitDelete" /\ mode.headSide => next = to
    /\ dpc \in {"setTail", "setTailKey", "setTailHead", "tailAsHead"} => TailOK
    /\ dpc \in {"setTailKey", "setTailHead", "tailAsHead"} => tail = next
    /\ dpc = "tailAsHead" => mode.headSide
    /\ dpc = "advance" => head # 0
    /\ dpc = "storeHead" => head # 0 /\ head <= newHead /\ head..newHead \subseteq Have
    /\ dpc = "setHead" => tail # 0 /\ tail <= from - 1 /\ tail..from - 1 \subseteq Have
    /\ dpc \in {"wipeHead", "wipeTail", "wipeHeadKey", "wipeTailKey", "setHead", "setHeadKey"} => mode.headSide
    /\ dpc \in {"wipeTail", "wipeHeadKey", "wipeTailKey"} => head = 0
    /\ dpc \in {"wipeHeadKey", "wipeTailKey"} => tail = 0
    /\ dpc \notin {"distribute", "await"}

GapInv == Gapless => IndexOK /\ LoopOK /\ (Settled => RangeOK) /\ PhaseOK

\* The steps of flushLoop and of the callers' Sync and Start: they only widen
\* the range, with headers they have found or hold.
LEMMA GapLoopStep ==
    ASSUME QuietInv, Gapless, IndexOK, LoopOK, Settled => RangeOK, PhaseOK,
           CallerStep \/ LoopStep, UNCHANGED delVars
    PROVE  IndexOK' /\ LoopOK' /\ RangeOK' /\ PhaseOK'
<1>0. /\ TypeOK /\ LifeQuiet /\ CallTypes /\ CallAt /\ Apart /\ MaxHeight \in Nat
      /\ UNCHANGED <<mode, dpc, range, loaded, next, half, batch, newHead>>
  BY StoreAssumption DEF QuietInv, CallInv, Gapless, delVars
<1>1. dpc \in {"none", "sync", "done"} /\ ~half
  <2>1. ~Busy
    BY <1>0, Frozen DEF QuietInv, CallQuiet, LifeQuiet, Apart, Busy
  <2> QED
    BY <1>0, <2>1 DEF Busy, CallAt, CallTypes, DPCs
<1>2. RangeOK /\ \A h \in index : h \in disk
  BY <1>1 DEF Settled, IndexOK
<1>3. left'["crash"] = 0 /\ stop = "none" /\ left["stop"] = 0
  <2>1. Next
    BY DEF Next
  <2> QED
    BY <1>0, <2>1, LeftFalls, EventNames DEF LoopOK, LifeQuiet, Apart
<1>4. /\ head \in 0..MaxHeight /\ tail \in 0..MaxHeight /\ boundary \in 0..MaxHeight
      /\ pending \subseteq Heights /\ index \subseteq Heights
      /\ to \in Int
  BY <1>0 DEF TypeOK, CallTypes, to
<1>5. ASSUME head <= head' PROVE PhaseOK'
  <2>1. head' \in 0..MaxHeight
    BY <1>0, TypeStep DEF TypeOK, Next
  <2> QED
    BY <1>0, <1>1, <1>4, <1>5, <2>1 DEF PhaseOK, to
<1>6. ASSUME UNCHANGED <<index, disk>> PROVE IndexOK'
  BY <1>2, <1>6 DEF IndexOK
<1>7. ASSUME UNCHANGED <<pending, disk, index, headKey, tailKey, head, tail, pc, cur, boundary, toFlush>>
      PROVE  IndexOK' /\ LoopOK' /\ RangeOK' /\ PhaseOK'
  BY <1>2, <1>3, <1>4, <1>5, <1>6, <1>7 DEF LoopOK, RangeOK, Have, Hand
<1>8. CASE SyncStopped \/ SyncTimeout
  BY <1>7, <1>8 DEF SyncStopped, SyncTimeout, diskVars, ptrVars, loopVars
<1>9. ~StopSend /\ ~StopCancel /\ ~StopReturn /\ ~StopTimeout
  BY <1>3 DEF StopSend, StopCancel, StopReturn, StopTimeout, Spend
<1>10. CASE Start
  <2>1. /\ pc = "off" /\ pc' = "idle" /\ UNCHANGED <<head, tail, headKey, tailKey, pending, disk, index>>
    BY <1>10 DEF Start, LoopOK, Resolves
  <2> QED
    BY <1>2, <1>3, <1>4, <1>5, <1>6, <2>1 DEF LoopOK, RangeOK, Have, Hand
<1>11. ASSUME UNCHANGED <<pending, disk, index, headKey, tailKey, head, tail, boundary, toFlush>>,
              pc \notin {"off", "append"}, pc' \in {"idle", "drain", "ensureInit", "recede", "check"}
       PROVE  IndexOK' /\ LoopOK' /\ RangeOK' /\ PhaseOK'
  BY <1>2, <1>3, <1>4, <1>5, <1>6, <1>11 DEF LoopOK, RangeOK, Have, Hand
<1>12. CASE RecvSync \/ DrainDone \/ RecvWrites
  BY <1>11, <1>12 DEF RecvSync, DrainDone, RecvWrites, diskVars, ptrVars
<1>13. CASE EnsureInit
  <2>1. /\ pc = "ensureInit" /\ pc' = "append" /\ cur' = cur /\ cur # Nil
        /\ UNCHANGED <<pending, disk, index>>
        /\ head' = IF head = 0 THEN cur[2] ELSE head
        /\ tail' = IF tail = 0 THEN cur[1] ELSE tail
    BY <1>0, <1>13 DEF EnsureInit, LifeQuiet, Apart, diskVars
  <2>2. cur[1] \in Heights /\ cur[2] \in Heights /\ cur[1] <= cur[2] /\ HeadersOf(cur) = cur[1]..cur[2]
    BY <1>0, <2>1, BatchHeaders DEF TypeOK
  <2>3. /\ cur[1] \in Int /\ cur[2] \in Int /\ cur[1] # 0 /\ cur[2] # 0 /\ 0 <= cur[2]
    BY <1>0, <2>2 DEF Heights
  <2>4. RangeOK'
    <3>1. CASE head = 0
      <4>1. tail = 0 /\ head' = cur[2] /\ tail' = cur[1] /\ Hand' = cur[1]..cur[2]
        BY <1>2, <2>1, <2>2, <3>1 DEF RangeOK, Hand
      <4> QED
        BY <2>2, <2>3, <4>1 DEF RangeOK
    <3>2. CASE head # 0
      <4>1. tail # 0 /\ head' = head /\ tail' = tail /\ Have' = Have /\ Hand = {}
        BY <1>2, <2>1, <3>2 DEF RangeOK, Have, Hand
      <4> QED
        BY <1>2, <3>2, <4>1 DEF RangeOK
    <3> QED
      BY <3>1, <3>2
  <2>5. LoopOK'
    BY <1>3, <2>1 DEF LoopOK
  <2>6. head <= head'
    BY <1>4, <2>1, <2>3
  <2> QED
    BY <1>5, <1>6, <2>1, <2>4, <2>5, <2>6
<1>14. CASE AppendPending
  <2>1. /\ pc = "append" /\ pc' = "advance" /\ pending' = pending \cup HeadersOf(cur)
        /\ UNCHANGED <<disk, index, head, tail>>
    BY <1>14 DEF AppendPending, diskVars, ptrVars
  <2>2. Have' = Have \cup Hand /\ Hand' = {}
    BY <2>1 DEF Have, Hand
  <2>3. RangeOK'
    BY <1>2, <2>1, <2>2 DEF RangeOK
  <2>4. LoopOK'
    BY <1>3, <2>1 DEF LoopOK
  <2> QED
    BY <1>4, <1>5, <1>6, <2>1, <2>3, <2>4
<1>15. CASE AdvanceHead
  <2>1. /\ pc = "advance" /\ pc' \in {"recede", "scanUp"} /\ (pc' = "scanUp" => head # 0) /\ boundary' = head
        /\ UNCHANGED <<pending, disk, index, head, tail>>
    BY <1>15 DEF AdvanceHead, diskVars, ptrVars
  <2>2. RangeOK' /\ Have' = Have
    BY <1>2, <2>1 DEF RangeOK, Have, Hand
  <2>3. head # 0 => head..head \subseteq Have
    BY <1>2, <1>4, <2>1 DEF RangeOK, Hand
  <2>4. LoopOK'
    BY <1>3, <1>4, <2>1, <2>2, <2>3 DEF LoopOK
  <2> QED
    BY <1>4, <1>5, <1>6, <2>1, <2>2, <2>4
<1>16. CASE ScanUp
  <2>1. /\ pc = "scanUp" /\ pc' = pc /\ boundary' = boundary + 1 /\ boundary + 1 \in Have
        /\ UNCHANGED <<pending, disk, index, head, tail>>
    BY <1>16 DEF ScanUp, diskVars, ptrVars, HasHeaderAt, Have
  <2>2. RangeOK' /\ Have' = Have
    BY <1>2, <2>1 DEF RangeOK, Have, Hand
  <2>3. head <= boundary + 1 /\ head..boundary + 1 \subseteq Have
    BY <1>4, <2>1, IntervalExtend DEF LoopOK
  <2>4. LoopOK'
    BY <1>3, <2>1, <2>2, <2>3 DEF LoopOK
  <2> QED
    BY <1>4, <1>5, <1>6, <2>1, <2>2, <2>4
<1>17. CASE ScanUpEnd
  <2>1. /\ pc = "scanUp" /\ pc' \in {"recede", "storeHead"}
        /\ UNCHANGED <<pending, disk, index, head, tail, boundary>>
    BY <1>17 DEF ScanUpEnd, diskVars, ptrVars
  <2> QED
    BY <1>2, <1>3, <1>4, <1>5, <1>6, <2>1 DEF LoopOK, RangeOK, Have, Hand
<1>18. CASE StoreHead
  <2>1. /\ pc = "storeHead" /\ pc' = "recede" /\ head' = boundary
        /\ UNCHANGED <<pending, disk, index, tail>>
    BY <1>18 DEF StoreHead, diskVars
  <2>2. head # 0 /\ head <= boundary /\ head..boundary \subseteq Have
    BY <2>1 DEF LoopOK
  <2>3. tail # 0 /\ tail <= head /\ tail..head \subseteq Have
    BY <1>2, <2>1, <2>2 DEF RangeOK, Hand
  <2>4. tail..boundary \subseteq tail..head \cup head..boundary
    BY <1>4, <2>2, <2>3
  <2>5. Have' = Have /\ Hand' = {}
    BY <2>1 DEF Have, Hand
  <2>6. RangeOK'
    BY <1>4, <2>1, <2>2, <2>3, <2>4, <2>5 DEF RangeOK
  <2>7. LoopOK'
    BY <1>3, <2>1 DEF LoopOK
  <2> QED
    BY <1>5, <1>6, <2>1, <2>2, <2>6, <2>7
<1>19. CASE RecedeTail
  <2>1. /\ pc = "recede" /\ pc' \in {"check", "scanDown"} /\ (pc' = "scanDown" => tail # 0) /\ boundary' = tail
        /\ UNCHANGED <<pending, disk, index, head, tail>>
    BY <1>19 DEF RecedeTail, diskVars, ptrVars
  <2>2. RangeOK' /\ Have' = Have
    BY <1>2, <2>1 DEF RangeOK, Have, Hand
  <2>3. tail # 0 => 1 <= tail /\ tail <= tail /\ tail..tail \subseteq Have
    BY <1>2, <1>4, <2>1 DEF RangeOK, Hand
  <2>4. LoopOK'
    BY <1>3, <2>1, <2>2, <2>3 DEF LoopOK
  <2> QED
    BY <1>4, <1>5, <1>6, <2>1, <2>2, <2>4
<1>20. CASE ScanDown
  <2>1. /\ pc = "scanDown" /\ pc' = pc /\ boundary' = boundary - 1 /\ boundary > 1
        /\ boundary - 1 \in Have
        /\ UNCHANGED <<pending, disk, index, head, tail>>
    BY <1>20 DEF ScanDown, diskVars, ptrVars, HasHeaderAt, Have
  <2>2. RangeOK' /\ Have' = Have
    BY <1>2, <2>1 DEF RangeOK, Have, Hand
  <2>3. 1 <= boundary - 1 /\ boundary - 1 <= tail /\ (boundary - 1)..tail \subseteq Have
    <3>1. (boundary - 1)..tail \subseteq {boundary - 1} \cup boundary..tail
      BY <1>4
    <3> QED
      BY <1>4, <2>1, <3>1 DEF LoopOK
  <2>4. LoopOK'
    BY <1>3, <2>1, <2>2, <2>3 DEF LoopOK
  <2> QED
    BY <1>4, <1>5, <1>6, <2>1, <2>2, <2>4
<1>21. CASE ScanDownEnd
  <2>1. /\ pc = "scanDown" /\ pc' \in {"check", "storeTail"}
        /\ UNCHANGED <<pending, disk, index, head, tail, boundary>>
    BY <1>21 DEF ScanDownEnd, diskVars, ptrVars
  <2> QED
    BY <1>2, <1>3, <1>4, <1>5, <1>6, <2>1 DEF LoopOK, RangeOK, Have, Hand
<1>22. CASE StoreTail
  <2>1. /\ pc = "storeTail" /\ pc' = "check" /\ tail' = boundary
        /\ UNCHANGED <<pending, disk, index, head>>
    BY <1>22 DEF StoreTail, diskVars
  <2>2. tail # 0 /\ 1 <= boundary /\ boundary <= tail /\ boundary..tail \subseteq Have
    BY <2>1 DEF LoopOK
  <2>3. head # 0 /\ tail <= head /\ tail..head \subseteq Have
    BY <1>2, <2>1, <2>2 DEF RangeOK, Hand
  <2>4. boundary..head \subseteq boundary..tail \cup tail..head
    BY <1>4, <2>2, <2>3
  <2>5. Have' = Have /\ Hand' = {}
    BY <2>1 DEF Have, Hand
  <2>6. RangeOK'
    BY <1>4, <2>1, <2>2, <2>3, <2>4, <2>5 DEF RangeOK
  <2>7. LoopOK'
    BY <1>3, <2>1 DEF LoopOK
  <2> QED
    BY <1>4, <1>5, <1>6, <2>1, <2>6, <2>7
<1>23. CASE ScanError
  BY <1>11, <1>23 DEF ScanError, diskVars, ptrVars
<1>24. CASE SkipFlush
  <2>1. cur # Nil /\ pc = "check" /\ pc' \in {"idle", "drain"}
        /\ UNCHANGED <<pending, disk, index, headKey, tailKey, head, tail, toFlush>>
    BY <1>24 DEF SkipFlush, Finish, diskVars, ptrVars
  <2> QED
    BY <1>2, <1>3, <1>4, <1>5, <1>6, <2>1 DEF LoopOK, RangeOK, Have, Hand
<1>25. CASE TakePending \/ CommitError
  <2>1. /\ pc \in {"check", "commit"} /\ pc' = "load" /\ pending' = pending
        /\ toFlush' = pending
        /\ UNCHANGED <<disk, index, head, tail>>
    BY <1>25 DEF TakePending, CommitError, diskVars, ptrVars, LoopOK
  <2> QED
    BY <1>2, <1>3, <1>4, <1>5, <1>6, <2>1 DEF LoopOK, RangeOK, Have, Hand
<1>26. CASE LoadKeys
  <2>1. /\ pc = "load" /\ pc' \in {"reset", "panic", "commit"} /\ (pc' = "reset" => toFlush = {})
        /\ UNCHANGED <<pending, disk, index, head, tail, toFlush>>
    <3>1. CASE toFlush = {}
      BY <1>26, <3>1, Zenon DEF LoadKeys, diskVars, ptrVars
    <3>2. CASE toFlush # {} /\ (head = 0 \/ tail = 0)
      BY <1>26, <3>2, Zenon DEF LoadKeys, diskVars, ptrVars
    <3>3. CASE toFlush # {} /\ ~(head = 0 \/ tail = 0)
      BY <1>26, <3>3, Zenon DEF LoadKeys, diskVars, ptrVars
    <3> QED
      BY <3>1, <3>2, <3>3
  <2>2. toFlush = pending
    BY <2>1 DEF LoopOK
  <2>3. LoopOK'
    BY <1>3, <2>1, <2>2 DEF LoopOK
  <2> QED
    BY <1>2, <1>4, <1>5, <1>6, <2>1, <2>3 DEF RangeOK, Have, Hand
<1>27. CASE Commit
  <2>1. /\ pc = "commit" /\ pc' = "reset" /\ disk' = disk \cup toFlush /\ index' = index \cup toFlush
        /\ UNCHANGED <<pending, head, tail>> /\ toFlush = pending
    BY <1>27 DEF Commit, ptrVars, LoopOK
  <2>2. Have' = Have /\ Hand' = {} /\ Hand = {}
    BY <2>1 DEF Have, Hand
  <2>3. RangeOK'
    BY <1>2, <2>1, <2>2 DEF RangeOK
  <2>4. LoopOK' /\ IndexOK'
    BY <1>2, <1>3, <2>1 DEF LoopOK, IndexOK
  <2> QED
    BY <1>4, <1>5, <2>1, <2>3, <2>4
<1>28. CASE Reset
  <2>1. /\ pc = "reset" /\ pending' = {} /\ pending \subseteq index /\ UNCHANGED <<disk, index, head, tail>>
        /\ cur # Nil
    BY <1>0, <1>28 DEF Reset, diskVars, ptrVars, LoopOK, LifeQuiet, Apart
  <2>2. pc' \in {"idle", "drain"}
    BY <1>28, <2>1 DEF Reset, Finish
  <2>3. Have' = Have /\ Hand' = {} /\ Hand = {}
    BY <2>1, <2>2 DEF Have, Hand
  <2>4. RangeOK'
    BY <1>2, <2>1, <2>3 DEF RangeOK
  <2>5. LoopOK'
    BY <1>3, <2>2 DEF LoopOK
  <2> QED
    BY <1>4, <1>5, <1>6, <2>1, <2>4, <2>5
<1> QED
  BY <1>8, <1>9, <1>10, <1>12, <1>13, <1>14, <1>15, <1>16, <1>17, <1>18, <1>19, <1>20, <1>21, <1>22,
     <1>23, <1>24, <1>25, <1>26, <1>27, <1>28 DEF CallerStep, LoopStep

\* The steps of DeleteRange: the heights it has passed are those the pointer
\* it moves leaves behind.
LEMMA GapDeleteStep ==
    ASSUME QuietInv, Gapless, IndexOK, LoopOK, Settled => RangeOK, PhaseOK, DeleteStep
    PROVE  IndexOK' /\ LoopOK' /\ (Settled' => RangeOK') /\ PhaseOK'
<1>0. /\ CallInv /\ TypeOK /\ LifeQuiet /\ CallQuiet /\ CallTypes /\ CallAt /\ WorkAt /\ Apart
      /\ MaxHeight \in Nat
      /\ mode.failures = 0 \/ (mode.batched /\ ~mode.headSide)
      /\ UNCHANGED <<pc, cur, boundary, toFlush, left, mode>>
  BY StoreAssumption, DeleteLeaves DEF QuietInv, CallInv, Gapless
<1>1. /\ head \in 0..MaxHeight /\ tail \in 0..MaxHeight /\ newHead \in 0..MaxHeight
      /\ pending \subseteq Heights /\ index \subseteq Heights
      /\ range \in (0..MaxHeight + 1) \X (0..MaxHeight + 1)
      /\ loaded \in (0..MaxHeight) \X (0..MaxHeight)
      /\ from \in 0..MaxHeight + 1 /\ to \in 0..MaxHeight + 1 /\ next \in 0..MaxHeight + 1
      /\ mode.headSide \in BOOLEAN /\ half \in BOOLEAN /\ mode.batched \in BOOLEAN
  BY <1>0, ModeFields DEF TypeOK, CallTypes, from, to
<1>2. dpc \notin {"none", "sync", "done"} => pc = "idle" /\ Hand = {} /\ Hand' = {}
  BY <1>0 DEF CallQuiet, Busy, Hand
<1>3. ASSUME UNCHANGED <<pending, disk, index, headKey, tailKey, head, tail>>
      PROVE  LoopOK' /\ RangeOK' = RangeOK /\ Have' = Have
  BY <1>0, <1>3 DEF LoopOK, RangeOK, Have, Hand
<1>4. ASSUME pc = "idle" PROVE LoopOK'
  BY <1>0, <1>4 DEF LoopOK
<1>5. ASSUME UNCHANGED <<disk, index, half, next>> PROVE IndexOK'
  BY <1>5 DEF IndexOK
<1>6. ASSUME UNCHANGED <<disk, index>>, ~half PROVE IndexOK'
  BY <1>6 DEF IndexOK
<1>7. dpc # "delete" => ~half
  BY <1>0 DEF CallAt
<1>8. \A kind : Fail(kind) => mode.batched /\ ~mode.headSide
  <2>1. mode.failures \in Nat /\ failures \in 0..mode.failures
    BY <1>0, ModeFields DEF CallTypes
  <2> QED
    BY <1>0, <2>1 DEF Fail
<1>9. \* A header that is had can be read.
      ASSUME NEW h \in Have, h # 0, ~half PROVE GetByHeight(h)
  BY <1>9 DEF Have, IndexOK, GetByHeight
<1>10. CASE Synced
  <2>1. /\ dpc' \in {"loadHead", "done"} /\ dpc = "sync"
        /\ UNCHANGED <<pending, disk, index, headKey, tailKey, head, tail, range, half, next, batch>>
    BY <1>10 DEF Synced, Return, diskVars, ptrVars
  <2> QED
    BY <1>0, <1>3, <1>5, <2>1 DEF Settled, PhaseOK, to
<1>11. CASE LoadHead
  <2>1. /\ dpc = "loadHead" /\ dpc' \in {"loadTail", "done"} /\ loaded'[1] = head
        /\ UNCHANGED <<pending, disk, index, headKey, tailKey, head, tail, range, half, next, batch>>
    BY <1>11 DEF LoadHead, Return, vars, diskVars, ptrVars
  <2> QED
    BY <1>0, <1>3, <1>5, <2>1 DEF Settled, PhaseOK, to
<1>12. CASE LoadTail
  <2>1. /\ dpc = "loadTail" /\ dpc' \in {"check", "done"} /\ loaded'[1] = loaded[1] /\ loaded'[2] = tail
        /\ UNCHANGED <<pending, disk, index, headKey, tailKey, head, tail, range, half, next, batch>>
    BY <1>12 DEF LoadTail, Return, vars, diskVars, ptrVars
  <2> QED
    BY <1>0, <1>3, <1>5, <2>1 DEF Settled, PhaseOK, to
<1>13. CASE Returned
  <2>1. /\ dpc = "done" /\ dpc' = "none" /\ half' = FALSE /\ ~half /\ batch' = {}
        /\ UNCHANGED <<pending, disk, index, headKey, tailKey, head, tail>>
    BY <1>7, <1>13 DEF Returned, ResetCall, vars, diskVars, ptrVars
  <2> QED
    BY <1>3, <1>6, <2>1 DEF Settled, PhaseOK
<1>14. CASE CheckRange
  <2>1. /\ dpc = "check" /\ loaded = <<head, tail>> /\ head # 0 /\ tail # 0 /\ batch = {} /\ RangeOK
        /\ UNCHANGED <<pending, disk, index, headKey, tailKey, head, tail, range, half, loaded, batch>>
    BY <1>0, <1>1, <1>14 DEF CheckRange, PhaseOK, CallAt, Settled, vars, diskVars, ptrVars
  <2>2. LoopOK' /\ RangeOK' /\ Have' = Have /\ IndexOK' /\ ~half
    BY <1>3, <1>6, <1>7, <2>1
  <2>3. mode.headSide \/ to <= head
    BY <2>1 DEF PhaseOK
  <2>4. CASE Rejected
    <3>1. dpc' = "done"
      BY <1>14, <2>4, Zenon DEF CheckRange, Return
    <3> QED
      BY <1>0, <2>1, <2>2, <2>3, <3>1 DEF PhaseOK, to
  <2>5. CASE ~Rejected /\ Wipes
    <3>1. dpc' = "wipeHead"
      BY <1>14, <2>5, Zenon DEF CheckRange
    <3>2. mode.headSide
      BY <1>1, <2>1, <2>3, <2>5 DEF Wipes, updateHead
    <3> QED
      BY <1>0, <2>1, <2>2, <3>1, <3>2 DEF PhaseOK, Settled
  <2>6. CASE ~Rejected /\ ~Wipes
    <3>1. /\ next' = from
          /\ dpc' = IF to - from < mode.threshold THEN "delete" ELSE "distribute"
      BY <1>14, <2>6, Zenon DEF CheckRange
    <3>2. /\ from < to /\ (from = tail => to <= head + 1) /\ (to = head + 1 /\ from # tail => ~(from < tail))
          /\ from = tail \/ to = head + 1
      BY <1>1, <2>1, <2>6 DEF Rejected, updateTail, updateHead
    <3>3. from = tail /\ to = head + 1 => to \in Have
      <4> SUFFICES ASSUME from = tail, to = head + 1 PROVE to \in Have
        OBVIOUS
      <4>1. GetByHeight(to)
        BY <2>1, <2>6 DEF Wipes, updateTail, updateHead
      <4>2. to # head /\ to # tail
        BY <1>1, <2>1 DEF RangeOK
      <4> QED
        BY <4>1, <4>2 DEF GetByHeight, Have
    <3>4. dpc' = "delete"
      <4>1. 1 <= from /\ to <= MaxHeight + 1
        BY <1>1, <2>1, <3>2
      <4>2. mode.threshold \in Nat /\ mode.threshold > MaxHeight
        BY <1>0, ModeFields DEF CallTypes, Gapless
      <4>3. to - from < mode.threshold
        <5>1. MaxHeight \in Nat /\ from \in Int /\ to \in Int
          BY <1>1, StoreAssumption
        <5> QED
          BY <4>1, <4>2, <5>1
      <4> QED
        BY <3>1, <4>3
    <3>5. tail <= head /\ tail..head \subseteq Have
      BY <1>2, <2>1 DEF RangeOK
    <3>6. RawOK'
      BY <1>0, <1>1, <2>1, <2>2, <2>3, <3>1, <3>2, <3>3, <3>5 DEF RawOK, from, to
    <3> QED
      BY <1>0, <2>1, <2>2, <2>3, <3>4, <3>6 DEF PhaseOK, Settled, to
  <2> QED
    BY <2>4, <2>5, <2>6
<1>15. CASE WipeHead \/ WipeTail
  <2>1. /\ mode.headSide /\ pc = "idle" /\ UNCHANGED <<disk, index, half, next, batch>> /\ batch = {}
        /\ \/ dpc = "wipeHead" /\ dpc' = "wipeTail" /\ head' = 0
           \/ dpc = "wipeTail" /\ dpc' = "wipeHeadKey" /\ head' = 0 /\ tail' = 0
    BY <1>2, <1>15 DEF WipeHead, WipeTail, PhaseOK, diskVars
  <2> QED
    BY <1>0, <1>4, <1>5, <2>1 DEF PhaseOK, Settled
<1>16. CASE WipeHeadKey \/ WipeTailKey
  <2>1. /\ mode.headSide /\ pc = "idle" /\ UNCHANGED <<disk, index, half, next, batch, head, tail>> /\ batch = {}
        /\ head = 0 /\ tail = 0
        /\ \/ dpc = "wipeHeadKey" /\ dpc' = "wipeTailKey"
           \/ dpc = "wipeTailKey" /\ dpc' = "done"
    BY <1>2, <1>16 DEF WipeHeadKey, WipeTailKey, PhaseOK, ptrVars, Return
  <2> QED
    BY <1>0, <1>4, <1>5, <2>1 DEF PhaseOK, Settled, RangeOK
<1>17. dpc = "delete" => RawOK /\ loaded = <<head, tail>> /\ pc = "idle" /\ 1 <= from /\ from <= next /\ next <= to
  BY <1>0, <1>2 DEF PhaseOK, CallAt
<1>18. ASSUME dpc = "delete", dpc' = "delete", RawOK', UNCHANGED <<head, tail, loaded, range>>, IndexOK'
       PROVE  IndexOK' /\ LoopOK' /\ (Settled' => RangeOK') /\ PhaseOK'
  BY <1>0, <1>4, <1>17, <1>18 DEF PhaseOK, Settled, RawOK, to
<1>19. CASE SkipMissing
  <2>1. /\ dpc = "delete" /\ dpc' = "delete" /\ next \notin index /\ next' = next + 1 /\ next < to
        /\ UNCHANGED <<pending, disk, index, head, tail, loaded, range, half, batch>>
    BY <1>19 DEF SkipMissing, vars, diskVars, ptrVars
  <2>2. ~half
    BY <1>0, <2>1 DEF WorkAt
  <2>3. RawOK'
    <3>1. \A h \in batch : from <= h /\ h < next + 1
      <4>1. \A h \in batch : h \in Int
        BY <1>0 DEF CallTypes, Heights
      <4> QED
        BY <1>1, <1>17, <2>1, <4>1 DEF RawOK
    <3>2. \A h \in tail..head : h < from \/ next + 1 <= h => h \in Have
      <4>1. \A h \in tail..head : next + 1 <= h => next <= h
        BY <1>1
      <4> QED
        BY <1>17, <2>1, <4>1 DEF RawOK
    <3>3. Have' = Have
      BY <2>1 DEF Have
    <3> QED
      BY <1>0, <1>17, <2>1, <3>1, <3>2, <3>3 DEF RawOK, from, to
  <2> QED
    BY <1>6, <1>18, <2>1, <2>2, <2>3
<1>20. CASE DeleteInBatch
  <2>1. /\ dpc = "delete" /\ dpc' = "delete" /\ next \in index /\ next' = next + 1 /\ next < to
        /\ pending' = pending \ {next} /\ batch' = batch \cup {next} /\ mode.batched
        /\ UNCHANGED <<disk, index, head, tail, loaded, range, half>>
    BY <1>20 DEF DeleteInBatch, diskVars, ptrVars
  <2>2. ~half
    BY <1>0, <2>1 DEF CallAt
  <2>3. Have' = Have
    BY <2>1 DEF Have
  <2>4. RawOK'
    <3>1. \A h \in batch' : from <= h /\ h < next + 1
      <4>1. \A h \in batch : h \in Int
        BY <1>0 DEF CallTypes, Heights
      <4> QED
        BY <1>0, <1>1, <1>17, <2>1, <4>1 DEF RawOK
    <3> QED
      BY <1>0, <1>1, <1>17, <2>1, <2>3, <3>1 DEF RawOK, from, to
  <2> QED
    BY <1>6, <1>18, <2>1, <2>2, <2>4
<1>21. CASE DeleteHeader
  <2>1. /\ dpc = "delete" /\ dpc' = "delete" /\ disk' = disk \ {next} /\ half' = TRUE /\ ~half
        /\ UNCHANGED <<pending, index, head, tail, loaded, range, next, batch>>
    BY <1>21 DEF DeleteHeader, ptrVars
  <2>2. IndexOK'
    BY <2>1 DEF IndexOK
  <2>3. RawOK'
    BY <1>0, <1>17, <2>1 DEF RawOK, Have, from, to
  <2> QED
    BY <1>18, <2>1, <2>2, <2>3
<1>22. CASE DeleteIndex
  <2>1. /\ dpc = "delete" /\ dpc' = "delete" /\ index' = index \ {next} /\ pending' = pending \ {next}
        /\ half' = FALSE /\ half /\ next' = next + 1
        /\ UNCHANGED <<disk, head, tail, loaded, range, batch>>
    BY <1>22 DEF DeleteIndex, ptrVars
  <2>2. next < to
    BY <1>0, <2>1 DEF CallAt
  <2>3. IndexOK'
    BY <2>1 DEF IndexOK
  <2>4. Have' = Have \ {next}
    BY <2>1 DEF Have
  <2>5. /\ \A h \in tail..head : h < from \/ next + 1 <= h => h \in Have'
        /\ from = tail /\ to = head + 1 => to \in Have'
    <3>1. \A h \in tail..head : h < from \/ next + 1 <= h => h # next /\ (h < from \/ next <= h)
      BY <1>1, <1>17, <2>1
    <3>2. to # next
      BY <1>1, <2>2
    <3> QED
      BY <1>17, <2>1, <2>4, <3>1, <3>2 DEF RawOK
  <2>6. \A h \in batch : from <= h /\ h < next + 1
    <3>1. \A h \in batch : h \in Int
      BY <1>0 DEF CallTypes, Heights
    <3> QED
      BY <1>1, <1>17, <2>1, <3>1 DEF RawOK
  <2>7. RawOK'
    BY <1>0, <1>17, <2>1, <2>5, <2>6 DEF RawOK, from, to
  <2> QED
    BY <1>18, <2>1, <2>3, <2>7
<1>23. CASE DeleteFails \/ DeleteEnds
  <2>1. /\ dpc = "delete" /\ dpc' = "commitDelete"
        /\ UNCHANGED <<pending, disk, index, head, tail, loaded, range, next, batch>>
        /\ next >= to \/ (Fail("delete") /\ next < to)
    BY <1>23 DEF DeleteFails, DeleteEnds, vars, diskVars, ptrVars
  <2>2. ~half
    BY <1>0, <1>1, <1>8, <2>1 DEF CallAt
  <2>3. mode.headSide => next = to
    BY <1>1, <1>8, <1>17, <2>1
  <2>4. RawOK'
    BY <1>0, <1>17, <2>1 DEF RawOK, Have, from, to
  <2> QED
    BY <1>0, <1>4, <1>6, <1>17, <2>1, <2>2, <2>3, <2>4 DEF PhaseOK, Settled, RawOK, to
<1>24. CASE Distribute \/ DistributeEnds \/ AwaitWorkers \/ \E w \in Workers : Work(w) \/ WorkEnds(w) \/ WorkCommit(w)
  <2>1. dpc \notin {"distribute", "await"} /\ \A w \in Workers : work[w].at = "off"
    BY <1>0 DEF PhaseOK, WorkAt
  <2> QED
    BY <1>24, <2>1 DEF Distribute, DistributeEnds, AwaitWorkers, Work, WorkEnds, WorkCommit
<1>25. CASE CommitDelete
  <2>1. /\ dpc = "commitDelete" /\ dpc' = AfterDelete(next) /\ batch' = {}
        /\ UNCHANGED <<pending, head, tail, loaded, range, next, half>>
        /\ \/ disk' = disk \ batch /\ index' = index \ batch
           \/ disk' = disk /\ index' = index
    BY <1>25 DEF CommitDelete, ptrVars
  <2>2. /\ RawOK /\ loaded = <<head, tail>> /\ (mode.headSide => next = to) /\ pc = "idle"
        /\ 1 <= from /\ from <= next /\ next <= to /\ ~half
    BY <1>0, <1>2, <1>7, <2>1 DEF PhaseOK, CallAt
  <2>3. IndexOK'
    BY <2>1, <2>2 DEF IndexOK
  <2>4. \A h \in Have : h < from \/ next <= h => h \in Have'
    <3>1. \A h \in batch : from <= h /\ h < next /\ h \in Int
      BY <1>0, <2>2 DEF RawOK, CallTypes, Heights
    <3>2. \A h \in batch : ~(h < from \/ next <= h)
      BY <1>1, <3>1
    <3> QED
      BY <2>1, <3>2 DEF Have
  <2>5. CASE from = tail
    <3>1. dpc' = "setTail"
      BY <2>1, <2>2, <2>5, Zenon DEF AfterDelete, updateTail
    <3>2. next \in tail..head => next \in Have'
      BY <1>1, <2>2, <2>4 DEF RawOK
    <3>3. \A h \in next..head : h \in tail..head /\ next <= h
      BY <1>1, <2>2, <2>5
    <3>4. next..head \subseteq Have'
      BY <2>2, <2>4, <3>3 DEF RawOK
    <3>5. next \in Have'
      <4>1. CASE next <= head
        BY <1>1, <2>2, <2>5, <3>2, <4>1
      <4>2. CASE ~(next <= head)
        <5>1. next = to /\ to = head + 1
          BY <1>1, <2>2, <4>2 DEF RawOK
        <5>2. next \in Have /\ next <= next
          BY <1>1, <2>2, <2>5, <5>1 DEF RawOK
        <5> QED
          BY <2>4, <5>2
      <4> QED
        BY <4>1, <4>2
    <3>6. next <= head + 1 /\ (mode.headSide \/ next <= head)
      BY <1>1, <2>2 DEF RawOK
    <3>7. TailOK'
      <4>1. 1 <= next
        BY <1>1, <2>2
      <4> QED
        BY <1>0, <2>1, <2>2, <3>4, <3>5, <3>6, <4>1 DEF TailOK, RawOK
    <3> QED
      BY <1>0, <1>4, <2>1, <2>2, <2>3, <3>1, <3>7 DEF PhaseOK, Settled, RawOK, to
  <2>6. CASE from # tail
    <3>1. to = head + 1 /\ tail < from /\ mode.headSide /\ next = to /\ from < to
      BY <1>1, <2>2, <2>6 DEF RawOK
    <3>2. next > from
      BY <1>1, <3>1
    <3>3. dpc' = "setHead"
      BY <2>1, <2>2, <2>6, <3>2, Zenon DEF AfterDelete, updateTail
    <3>4. \A h \in tail..from - 1 : h \in tail..head /\ h < from
      BY <1>1, <3>1
    <3>5. tail..from - 1 \subseteq Have'
      BY <2>2, <2>4, <3>4 DEF RawOK
    <3>6. tail # 0 /\ tail <= from - 1
      BY <1>1, <2>2, <3>1 DEF RawOK
    <3> QED
      BY <1>0, <1>4, <2>1, <2>3, <2>2, <3>1, <3>3, <3>5, <3>6 DEF PhaseOK, Settled, from
  <2> QED
    BY <2>5, <2>6
<1>26. CASE SetTail
  <2>1. dpc = "setTail" /\ TailOK /\ pc = "idle" /\ ~half /\ batch = {}
    BY <1>2, <1>7, <1>26 DEF SetTail, PhaseOK
  <2>2. GetByHeight(next)
    BY <1>1, <1>9, <2>1 DEF TailOK
  <2>3. /\ tail' = next /\ dpc' = "setTailKey"
        /\ UNCHANGED <<pending, disk, index, head, range, next, batch, half>>
    BY <1>26, <2>2 DEF SetTail, diskVars
  <2>4. TailOK'
    BY <1>0, <2>1, <2>3 DEF TailOK, Have
  <2> QED
    BY <1>0, <1>4, <1>6, <2>1, <2>3, <2>4 DEF PhaseOK, Settled, to
<1>27. CASE SetTailKey
  <2>1. dpc = "setTailKey" /\ TailOK /\ pc = "idle" /\ ~half /\ batch = {} /\ tail = next /\ Hand' = {}
    BY <1>2, <1>7, <1>27 DEF SetTailKey, PhaseOK
  <2>2. /\ UNCHANGED <<pending, disk, index, head, tail, range, next, batch>>
        /\ dpc' = "setTailHead" \/ (dpc' = "done" /\ Fail("key"))
    BY <1>27 DEF SetTailKey, Return, ptrVars
  <2>3. TailOK' /\ Have' = Have
    BY <1>0, <2>1, <2>2 DEF TailOK, Have
  <2>4. dpc' = "done" => RangeOK'
    <3> SUFFICES ASSUME dpc' = "done" PROVE RangeOK'
      OBVIOUS
    <3>1. next <= head /\ next # 0
      BY <1>1, <1>8, <2>1, <2>2 DEF TailOK
    <3> QED
      BY <2>1, <2>2, <2>3, <3>1 DEF RangeOK, TailOK
  <2> QED
    BY <1>0, <1>4, <1>6, <2>1, <2>2, <2>3, <2>4 DEF PhaseOK, Settled, to
<1>28. CASE SetTailHead
  <2>1. dpc = "setTailHead" /\ TailOK /\ pc = "idle" /\ ~half /\ batch = {} /\ tail = next /\ Hand' = {}
    BY <1>2, <1>7, <1>28 DEF SetTailHead, PhaseOK
  <2>2. /\ UNCHANGED <<pending, disk, index, head, tail, range, next, batch>> /\ head # 0
        /\ \/ next <= head /\ dpc' = "done"
           \/ next > head /\ dpc' = "tailAsHead"
           \/ next > head /\ Fail("key")
    BY <1>28, <2>1 DEF SetTailHead, Return, TailOK, ptrVars
  <2>3. ~(next > head /\ Fail("key")) /\ (next > head => mode.headSide) /\ next # 0 /\ Have' = Have
    BY <1>1, <1>8, <2>1, <2>2 DEF TailOK, Have
  <2>4. dpc' = "done" => RangeOK'
    BY <2>1, <2>2, <2>3 DEF RangeOK, TailOK
  <2>5. TailOK'
    BY <1>0, <2>1, <2>2, <2>3 DEF TailOK
  <2> QED
    BY <1>0, <1>4, <1>6, <2>1, <2>2, <2>3, <2>4, <2>5 DEF PhaseOK, Settled, to
<1>38. CASE TailAsHead
  <2>1. /\ dpc = "tailAsHead" /\ TailOK /\ pc = "idle" /\ ~half /\ batch = {} /\ tail = next /\ Hand' = {}
        /\ mode.headSide
    BY <1>2, <1>7, <1>38 DEF TailAsHead, PhaseOK
  <2>2. /\ UNCHANGED <<pending, disk, index, tail, range, next, batch>>
        /\ head' = next /\ dpc' = "advance" /\ next # 0
    BY <1>1, <1>38, <2>1 DEF TailAsHead, TailOK, diskVars
  <2>3. next <= next /\ next..next \subseteq Have /\ Have' = Have
    BY <1>1, <2>1, <2>2 DEF TailOK, Have
  <2>4. RangeOK'
    BY <2>1, <2>2, <2>3 DEF RangeOK
  <2> QED
    BY <1>0, <1>4, <1>6, <2>1, <2>2, <2>4 DEF PhaseOK, to
<1>39. CASE CheckFails
  <2>1. /\ dpc = "check" /\ dpc' = "done"
        /\ UNCHANGED <<pending, disk, index, headKey, tailKey, head, tail, range, half, next, batch>>
    BY <1>39 DEF CheckFails, Return, vars, diskVars, ptrVars
  <2> QED
    BY <1>0, <1>3, <1>5, <2>1 DEF Settled, PhaseOK, to
<1>29. CASE DeleterNextHead
  <2>1. dpc = "advance" /\ pc = "idle" /\ ~half /\ batch = {} /\ RangeOK /\ head # 0 /\ Hand = {}
    BY <1>2, <1>7, <1>29 DEF DeleterNextHead, PhaseOK, Settled
  <2>2. /\ UNCHANGED <<pending, disk, index, headKey, tailKey, head, tail, range, batch>>
        /\ newHead' = NextHead /\ dpc' \in {"done", "storeHead"}
    BY <1>29, <2>1 DEF DeleterNextHead, Return, vars, diskVars, ptrVars
  <2>3. NextHead \in head..MaxHeight /\ \A h \in head + 1..NextHead : HasHeaderAt(h)
    BY <1>0, <2>1, NextHeadIs
  <2>4. head \in Have
    BY <1>1, <2>1 DEF RangeOK
  <2>5. \A h \in head..NextHead : h = head \/ h \in head + 1..NextHead
    BY <1>1, <2>3
  <2>6. head <= NextHead /\ head..NextHead \subseteq Have
    BY <1>1, <2>3, <2>4, <2>5 DEF HasHeaderAt, Have
  <2>7. LoopOK' /\ RangeOK' /\ Have' = Have
    BY <1>3, <2>1, <2>2
  <2> QED
    BY <1>0, <1>6, <2>1, <2>2, <2>6, <2>7 DEF PhaseOK, to
<1>30. CASE DeleterStoreHead
  <2>1. /\ dpc = "storeHead" /\ pc = "idle" /\ ~half /\ batch = {} /\ RangeOK /\ Hand = {} /\ Hand' = {}
        /\ head # 0 /\ head <= newHead /\ head..newHead \subseteq Have
    BY <1>2, <1>7, <1>30 DEF DeleterStoreHead, PhaseOK, Settled
  <2>2. /\ UNCHANGED <<pending, disk, index, tail, range, batch>> /\ head' = newHead /\ dpc' = "done"
    BY <1>30 DEF DeleterStoreHead, Return, diskVars
  <2>3. tail # 0 /\ tail <= head /\ tail..head \subseteq Have /\ newHead # 0 /\ tail <= newHead
    BY <1>1, <2>1 DEF RangeOK
  <2>4. tail..newHead \subseteq tail..head \cup head..newHead
    BY <1>1, <2>1, <2>3
  <2>5. Have' = Have
    BY <2>2 DEF Have
  <2>6. RangeOK'
    BY <2>1, <2>2, <2>3, <2>4, <2>5 DEF RangeOK
  <2>7. mode.headSide \/ to <= newHead
    BY <1>1, <2>1 DEF PhaseOK
  <2> QED
    BY <1>0, <1>4, <1>6, <2>1, <2>2, <2>6, <2>7 DEF PhaseOK, to
<1>31. CASE SetHead
  <2>1. /\ dpc = "setHead" /\ pc = "idle" /\ ~half /\ batch = {} /\ mode.headSide /\ Hand' = {}
        /\ tail # 0 /\ tail <= from - 1 /\ tail..from - 1 \subseteq Have
    BY <1>2, <1>7, <1>31 DEF SetHead, PhaseOK
  <2>2. from - 1 \in Have /\ from - 1 # 0
    BY <1>1, <2>1
  <2>3. GetByHeight(from - 1)
    BY <1>9, <2>1, <2>2
  <2>4. UNCHANGED <<pending, disk, index, tail, range, batch>> /\ head' = from - 1 /\ dpc' = "setHeadKey"
    BY <1>31, <2>3 DEF SetHead, diskVars
  <2>5. RangeOK'
    BY <2>1, <2>2, <2>4 DEF RangeOK, Have
  <2> QED
    BY <1>0, <1>4, <1>6, <2>1, <2>4, <2>5 DEF PhaseOK
<1>32. CASE SetHeadKey
  <2>1. dpc = "setHeadKey" /\ pc = "idle" /\ ~half /\ batch = {} /\ RangeOK /\ mode.headSide /\ Hand' = {} /\ Hand = {}
    BY <1>2, <1>7, <1>32 DEF SetHeadKey, PhaseOK, Settled
  <2>2. UNCHANGED <<pending, disk, index, head, tail, batch>> /\ dpc' = "done"
    BY <1>32 DEF SetHeadKey, Return, ptrVars
  <2>3. RangeOK'
    BY <2>1, <2>2 DEF RangeOK, Have
  <2> QED
    BY <1>0, <1>4, <1>6, <2>1, <2>2, <2>3 DEF PhaseOK
<1> QED
  BY <1>10, <1>11, <1>12, <1>13, <1>14, <1>15, <1>16, <1>19, <1>20, <1>21, <1>22, <1>23, <1>24, <1>25,
     <1>26, <1>27, <1>28, <1>29, <1>30, <1>31, <1>32, <1>38, <1>39 DEF DeleteStep

\* GapInv is preserved by every step ...
LEMMA GapStep ==
    ASSUME QuietInv, GapInv, DeleteNext
    PROVE  GapInv'
<1> SUFFICES ASSUME Gapless PROVE IndexOK' /\ LoopOK' /\ (Settled' => RangeOK') /\ PhaseOK'
  BY ModeStays DEF GapInv, Gapless, Apart, Unstopped
<1>0. IndexOK /\ LoopOK /\ (Settled => RangeOK) /\ PhaseOK /\ TypeOK /\ CallTypes /\ CallAt
  BY DEF GapInv, QuietInv, CallInv
<1>1. CASE DeleteStep
  BY <1>0, <1>1, GapDeleteStep
<1>2. CASE (CallerStep \/ LoopStep) /\ UNCHANGED delVars
  BY <1>0, <1>2, GapLoopStep
<1>3. CASE DeleteCrash
  BY <1>0, <1>3 DEF DeleteCrash, Crash, Spend, LoopOK
<1>4. ASSUME Next PROVE left'["crash"] = 0
  BY <1>0, <1>4, LeftFalls, EventNames DEF LoopOK
<1>5. ASSUME NEW b \in mode.batches, DeleteAppend(b)
      PROVE  IndexOK' /\ LoopOK' /\ (Settled' => RangeOK') /\ PhaseOK'
  <2>1. Next
    BY <1>0, <1>5, ModeFields DEF DeleteAppend, Next, CallTypes
  <2>2. /\ UNCHANGED <<pending, disk, index, headKey, tailKey, head, tail, pc, cur, boundary, toFlush>>
        /\ UNCHANGED <<mode, dpc, range, loaded, next, half, batch, newHead>>
    BY <1>5 DEF DeleteAppend, AppendBatch, diskVars, ptrVars, loopVars, delVars
  <2>3. Have' = Have /\ Hand' = Hand
    BY <2>2 DEF Have, Hand
  <2>4. IndexOK' /\ LoopOK' /\ RangeOK' = RangeOK /\ Settled' = Settled
    BY <1>0, <1>4, <2>1, <2>2, <2>3 DEF IndexOK, LoopOK, RangeOK, Settled
  <2>5. PhaseOK'
    BY <1>0, <2>2, <2>3 DEF PhaseOK, RawOK, TailOK, from, to
  <2> QED
    BY <1>0, <2>4, <2>5
<1>6. ASSUME NEW r \in Ranges, DeleteRange(r)
      PROVE  IndexOK' /\ LoopOK' /\ (Settled' => RangeOK') /\ PhaseOK'
  <2>1. Next
    BY <1>6 DEF DeleteRange, Next
  <2>2. /\ UNCHANGED <<pending, disk, index, headKey, tailKey, head, tail, pc, cur, boundary, toFlush>>
        /\ UNCHANGED <<mode, next, half, batch>>
        /\ dpc = "none" /\ dpc' = "sync" /\ to' = r[2] /\ (mode.headSide \/ r[2] <= head)
    BY <1>6 DEF DeleteRange, SyncCall, diskVars, ptrVars, loopVars, to
  <2>3. Have' = Have /\ Hand' = Hand
    BY <2>2 DEF Have, Hand
  <2>4. IndexOK' /\ LoopOK' /\ RangeOK' = RangeOK /\ Settled
    BY <1>0, <1>4, <2>1, <2>2, <2>3 DEF IndexOK, LoopOK, RangeOK, Settled
  <2>5. PhaseOK'
    BY <1>0, <2>2 DEF PhaseOK
  <2> QED
    BY <1>0, <2>4, <2>5
<1> QED
  BY <1>1, <1>2, <1>3, <1>5, <1>6 DEF DeleteNext

\* ... and holds in every state.
LEMMA GapInvariance == DeleteSpec => [](QuietInv /\ GapInv)
<1>1. DeleteInit => GapInv
  <2> SUFFICES ASSUME DeleteInit, Gapless PROVE IndexOK /\ LoopOK /\ RangeOK /\ PhaseOK
    BY DEF GapInv
  <2> QED
    BY DEF DeleteInit, NewStore, Gapless, IndexOK, LoopOK, RangeOK, PhaseOK
<1>2. QuietInv /\ GapInv /\ [DeleteNext]_allVars => GapInv'
  <2> SUFFICES ASSUME QuietInv, GapInv, [DeleteNext]_allVars PROVE GapInv'
    OBVIOUS
  <2>1. CASE DeleteNext
    BY <2>1, GapStep
  <2>2. CASE UNCHANGED allVars
    <3>1. /\ UNCHANGED <<pending, disk, index, headKey, tailKey, head, tail, pc, cur, boundary, toFlush, left>>
          /\ UNCHANGED <<mode, dpc, range, loaded, next, half, batch, newHead>>
      BY <2>2 DEF allVars, vars, delVars, diskVars, ptrVars, loopVars
    <3>2. Have' = Have /\ Hand' = Hand
      BY <3>1 DEF Have, Hand
    <3>3. IndexOK' = IndexOK /\ LoopOK' = LoopOK /\ RangeOK' = RangeOK /\ Settled' = Settled
      BY <3>1, <3>2 DEF IndexOK, LoopOK, RangeOK, Settled
    <3>4. PhaseOK' = PhaseOK
      BY <3>1, <3>2 DEF PhaseOK, RawOK, TailOK, from, to
    <3> QED
      BY <3>1, <3>3, <3>4 DEF GapInv, Gapless, Apart, Unstopped
  <2> QED
    BY <2>1, <2>2
<1> QED
  BY <1>1, <1>2, QuietInvariance, PTL DEF DeleteSpec

\* Tail and head delimit readable headers whenever no DeleteRange is under way
\* and flushLoop is between two batches: after deletions at the tail, at the head
\* and of the whole store, complete, rejected, failed or cut short, with appends
\* in any order in between, for every store size, batch size and queue.
THEOREM NoGapIsLeft == DeleteSpec => [](Gapless => NoGapAfterDelete)
<1>1. QuietInv /\ GapInv => (Gapless => NoGapAfterDelete)
  <2> SUFFICES ASSUME QuietInv, GapInv, Gapless, dpc = "none", pc \in {"off", "idle", "drain"}, head # 0, tail # 0
               PROVE  tail <= head /\ \A h \in tail..head : GetByHeight(h)
    BY DEF NoGapAfterDelete
  <2>1. RangeOK /\ IndexOK /\ ~half /\ Hand = {}
    BY DEF GapInv, Settled, QuietInv, CallInv, CallAt, Hand
  <2>2. head \in Int /\ tail \in Nat
    BY StoreAssumption DEF QuietInv, CallInv, TypeOK
  <2>3. \A h \in tail..head : h # 0
    BY <2>2
  <2> QED
    BY <2>1, <2>3 DEF RangeOK, IndexOK, Have, GetByHeight
<1> QED
  BY <1>1, GapInvariance, PTL

-----------------------------------------------------------------------------
\* What a restart would find.

\* Adjacent appends and prunings at the tail, on a datastore whose reads do not
\* fail; its deletes may fail to commit or its keys to be written, not both.
Restartable ==
    /\ Gapless /\ mode.inOrder /\ ~mode.headSide /\ mode.budget["ioError"] = 0
    /\ mode.failures = 0 \/ "commit" \notin mode.failing \/ "key" \notin mode.failing

\* The head flushLoop will have when it is done with its batch, and with its queue.
Rising == {"ensureInit", "append", "advance", "scanUp", "storeHead"}
Top == IF pc \in Rising THEN cur[2] ELSE head
End == IF writes = <<>> THEN Top ELSE writes[Len(writes)][2]

\* The queue continues the chain, up to the last header that was accepted.
QueueOK ==
    /\ writes # <<>> => Top = 0 \/ writes[1][1] = Top + 1
    /\ \A i \in 1..Len(writes) - 1 : writes[i + 1][1] = writes[i][2] + 1
    /\ accepted = {} => head = 0 /\ End = 0
    /\ accepted # {} => End \in accepted /\ \A h \in accepted : h <= End

\* So does the batch in hand; advanceHead takes the head to its end, and nothing is
\* stored above.
ReachOK ==
    /\ left["ioError"] = 0 /\ ~ctxDone
    /\ \A h \in Have : h <= Top
    /\ pc = "ensureInit" => head = 0 \/ cur[1] = head + 1
    /\ pc \in Rising \ {"ensureInit"} =>
          head # 0 /\ cur[1] <= head + 1 /\ head <= cur[2] /\ headKey < cur[1]
    /\ pc \in {"advance", "scanUp"} => HeadersOf(cur) \subseteq Have
    /\ pc = "scanUp" => base = head
    /\ pc = "storeHead" => boundary = cur[2]
    /\ pc = "commit" => batchKeys = <<head, tail>>

\* headKey separates what is persisted from what is pending, and a tailKey that
\* still leads to a header is not below the tail.
KeysOK ==
    /\ disk \subseteq index /\ (half => next \notin disk)
    /\ \A h \in index : h <= headKey
    /\ headKey <= head
    /\ pc # "reset" => \A h \in pending : headKey < h
    /\ dpc # "setTailKey" /\ tailKey \in index => tail <= tailKey
    /\ dpc \in {"setTail", "setTailKey"} /\ "commit" \notin mode.failing /\ tailKey \in index =>
          next <= tailKey
    /\ dpc \notin {"tailAsHead", "advance", "storeHead"}

RestartInv == Restartable => QueueOK /\ ReachOK /\ KeysOK

\* Batches are spans of heights.
LEMMA Spans ==
    ASSUME TypeOK, NoNil
    PROVE  /\ \A i \in 1..Len(writes) : /\ writes[i] \in Batches /\ writes[i][1] \in Heights
                                        /\ writes[i][2] \in Heights /\ writes[i][1] <= writes[i][2]
           /\ cur # Nil => /\ cur[1] \in Heights /\ cur[2] \in Heights /\ cur[1] <= cur[2]
                           /\ HeadersOf(cur) = cur[1]..cur[2]
           /\ Len(writes) \in Nat
<1>1. writes \in Seq(Batches \cup {Nil}) /\ cur \in Batches \cup {Nil}
  BY DEF TypeOK
<1>2. \A i \in 1..Len(writes) : writes[i] \in Batches \cup {Nil} /\ writes[i] # Nil
  BY <1>1 DEF NoNil
<1> QED
  BY <1>1, <1>2, BatchHeaders

\* syncStore compares a new batch with the end of the queue.
LEMMA SyncedHeadIs ==
    ASSUME TypeOK, QueueOK
    PROVE  SyncedHead = End
<1>1. CASE accepted = {}
  BY <1>1 DEF QueueOK, SyncedHead
<1>2. CASE accepted # {}
  <2>1. \A h \in accepted : h \in Int
    BY StoreAssumption DEF TypeOK, Heights
  <2>2. \A h \in accepted : (\A g \in accepted : g <= h) => h = End
    BY <1>2, <2>1 DEF QueueOK
  <2> QED
    BY <1>2, <2>2 DEF QueueOK, SyncedHead
<1> QED
  BY <1>1, <1>2

\* An adjacent batch extends the queue.
LEMMA QueueAppend ==
    ASSUME TypeOK, NoNil, QueueOK, NEW b \in Batches,
           SyncedHead = 0 \/ b[1] = SyncedHead + 1,
           writes' = Append(writes, b), accepted' = accepted \cup HeadersOf(b),
           Top' = Top, head' = head
    PROVE  QueueOK'
<1>0. writes \in Seq(Batches \cup {Nil}) /\ b \in Batches \cup {Nil} /\ b # Nil
  BY StoreAssumption DEF TypeOK, Nil, Heights
<1>1. /\ Len(writes) \in Nat /\ Len(writes') = Len(writes) + 1 /\ writes'[Len(writes) + 1] = b
      /\ \A i \in 1..Len(writes) : writes'[i] = writes[i]
      /\ writes' # <<>>
  BY <1>0
<1>2. b[1] \in Heights /\ b[2] \in Heights /\ b[1] <= b[2] /\ HeadersOf(b) = b[1]..b[2]
  BY <1>0, BatchHeaders
<1>3. b[1] \in Int /\ b[2] \in Int /\ b[1] >= 1 /\ b[2] # 0
  BY <1>2, StoreAssumption DEF Heights
<1>4. End' = b[2]
  BY <1>1 DEF End
<1>5. SyncedHead = End
  BY SyncedHeadIs
<1>6. writes # <<>> => End # 0 /\ End = writes[Len(writes)][2] /\ 1 <= Len(writes)
  <2> SUFFICES ASSUME writes # <<>> PROVE End # 0 /\ End = writes[Len(writes)][2] /\ 1 <= Len(writes)
    OBVIOUS
  <2>1. Len(writes) # 0
    BY <1>0
  <2>2. Len(writes) \in 1..Len(writes)
    BY <1>1, <2>1
  <2>3. writes[Len(writes)][2] \in Heights
    BY <2>2, Spans
  <2> QED
    BY <1>1, <2>1, <2>3, StoreAssumption DEF End, Heights
<1>7. Top' = 0 \/ writes'[1][1] = Top' + 1
  <2>1. CASE writes = <<>>
    <3>1. End = Top /\ writes'[1] = b
      BY <1>1, <2>1 DEF End
    <3> QED
      BY <1>5, <3>1
  <2>2. CASE writes # <<>>
    BY <1>1, <1>6, <2>2 DEF QueueOK
  <2> QED
    BY <2>1, <2>2
<1>8. \A i \in 1..Len(writes') - 1 : writes'[i + 1][1] = writes'[i][2] + 1
  <2> SUFFICES ASSUME NEW i \in 1..Len(writes) PROVE writes'[i + 1][1] = writes'[i][2] + 1
    BY <1>1
  <2>1. CASE i = Len(writes)
    <3>1. writes # <<>>
      BY <1>1, <2>1
    <3> QED
      BY <1>1, <1>5, <1>6, <2>1, <3>1
  <2>2. CASE i # Len(writes)
    <3>1. i \in 1..Len(writes) - 1 /\ i + 1 \in 1..Len(writes)
      BY <1>1, <2>2
    <3> QED
      BY <1>1, <3>1 DEF QueueOK
  <2> QED
    BY <2>1, <2>2
<1>9. accepted' # {} /\ End' \in accepted' /\ \A h \in accepted' : h <= End'
  <2>1. b[2] \in accepted'
    BY <1>2, <1>3
  <2>2. \A h \in accepted : h <= b[2]
    <3> SUFFICES ASSUME NEW h \in accepted PROVE h <= b[2]
      OBVIOUS
    <3>1. h <= End /\ End \in accepted
      BY DEF QueueOK
    <3>2. h \in Int /\ End \in Int /\ End >= 1
      BY <3>1, StoreAssumption DEF TypeOK, Heights
    <3> QED
      BY <1>2, <1>3, <1>5, <3>1, <3>2
  <2> QED
    BY <1>2, <1>3, <1>4, <2>1, <2>2
<1> QED
  BY <1>7, <1>8, <1>9 DEF QueueOK

\* flushLoop takes the first batch: the head will reach its end.
LEMMA QueueRecv ==
    ASSUME TypeOK, NoNil, QueueOK, writes # <<>>, Top = head,
           writes' = Tail(writes), Top' = writes[1][2],
           accepted' = accepted, head' = head
    PROVE  QueueOK' /\ (head = 0 \/ writes[1][1] = head + 1) /\ accepted # {}
<1>0. writes \in Seq(Batches \cup {Nil})
  BY DEF TypeOK
<1>1. /\ Len(writes) \in Nat /\ Len(writes) >= 1 /\ Len(writes') = Len(writes) - 1
      /\ \A i \in 1..Len(writes) - 1 : writes'[i] = writes[i + 1]
  BY <1>0
<1>2. End = writes[Len(writes)][2] /\ writes[Len(writes)][2] \in Heights
  BY <1>1, Spans DEF End
<1>3. accepted # {}
  BY <1>2, StoreAssumption DEF QueueOK, Heights
<1>4. End' = End
  <2>0. writes' \in Seq(Batches \cup {Nil}) /\ (writes' = <<>> <=> Len(writes') = 0)
    <3>1. writes' \in Seq(Batches \cup {Nil})
      BY <1>0
    <3>2. \A s \in Seq(Batches \cup {Nil}) : s = <<>> <=> Len(s) = 0
      BY EmptySeq
    <3> QED
      BY <3>1, <3>2
  <2>1. CASE Len(writes) = 1
    <3>1. writes' = <<>>
      BY <1>1, <2>0, <2>1
    <3> QED
      BY <1>2, <2>1, <3>1 DEF End
  <2>2. CASE Len(writes) # 1
    <3>0. writes' # <<>>
      BY <1>1, <2>0, <2>2
    <3>1. Len(writes') \in 1..Len(writes) - 1
      BY <1>1, <2>2
    <3>2. writes'[Len(writes')] = writes[Len(writes)]
      <4>1. writes'[Len(writes')] = writes[Len(writes') + 1] /\ Len(writes') + 1 = Len(writes)
        BY <1>1, <3>1
      <4> QED
        BY <4>1
    <3> QED
      BY <1>2, <3>0, <3>2 DEF End
  <2> QED
    BY <2>1, <2>2
<1>5. writes' # <<>> => writes'[1][1] = Top' + 1
  <2> SUFFICES ASSUME writes' # <<>> PROVE writes'[1][1] = Top' + 1
    OBVIOUS
  <2>1. writes' \in Seq(Batches \cup {Nil})
    BY <1>0
  <2>2. 1 \in 1..Len(writes) - 1
    BY <1>1, <2>1
  <2>3. writes[1 + 1][1] = writes[1][2] + 1 /\ writes'[1] = writes[1 + 1]
    BY <1>1, <2>2 DEF QueueOK
  <2> QED
    BY <2>3
<1>6. \A i \in 1..Len(writes') - 1 : writes'[i + 1][1] = writes'[i][2] + 1
  <2> SUFFICES ASSUME NEW i \in 1..Len(writes') - 1 PROVE writes'[i + 1][1] = writes'[i][2] + 1
    OBVIOUS
  <2>1. i \in 1..Len(writes) - 1 /\ i + 1 \in 1..Len(writes) - 1
    BY <1>1
  <2> QED
    BY <1>1, <2>1 DEF QueueOK
<1> QED
  BY <1>3, <1>4, <1>5, <1>6 DEF QueueOK

\* The steps of flushLoop and of the callers' Sync and Start.
LEMMA RestartLoopStep ==
    ASSUME QuietInv, Restartable, IndexOK, LoopOK, Settled => RangeOK, PhaseOK,
           QueueOK, ReachOK, KeysOK, CallerStep \/ LoopStep, UNCHANGED delVars
    PROVE  QueueOK' /\ ReachOK' /\ KeysOK'
<1>0. /\ TypeOK /\ LifeQuiet /\ CallTypes /\ CallAt /\ Apart /\ Gapless
      /\ UNCHANGED <<mode, dpc, next, half>>
      /\ NoNil /\ stop = "none" /\ left["stop"] = 0
  BY DEF QuietInv, CallInv, Restartable, Gapless, delVars, LifeQuiet, Apart
<1>1. dpc \in {"none", "sync", "done"} /\ ~half
  <2>1. ~Busy
    BY <1>0, Frozen DEF QuietInv, CallQuiet, LifeQuiet, Apart, Busy
  <2> QED
    BY <1>0, <2>1 DEF Busy, CallAt, CallTypes, DPCs
<1>2. RangeOK /\ (\A h \in index : h \in disk) /\ dpc' = dpc
  BY <1>0, <1>1 DEF Settled, IndexOK
<1>3. left'["ioError"] = 0 /\ left["ioError"] = 0 /\ ~ctxDone
  <2>1. Next
    BY DEF Next
  <2> QED
    BY <1>0, <2>1, LeftFalls, EventNames DEF ReachOK
<1>4. /\ head \in Nat /\ tail \in Nat /\ boundary \in Nat /\ headKey \in Nat /\ tailKey \in Nat
      /\ \A h \in Have : h \in Nat /\ h # 0
      /\ pending \subseteq Have /\ index \subseteq Have
  BY <1>0, StoreAssumption DEF TypeOK, Have, Heights
<1>5. cur # Nil => /\ cur[1] \in Nat /\ cur[2] \in Nat /\ cur[1] # 0 /\ cur[2] # 0 /\ cur[1] <= cur[2]
                   /\ HeadersOf(cur) = cur[1]..cur[2]
  BY <1>0, Spans, StoreAssumption DEF Heights
<1>6. pc \in Rising => cur # Nil
  BY <1>0 DEF LifeQuiet, Apart, Rising
<1>7. pc \in Rising => accepted # {}
  <2> SUFFICES ASSUME pc \in Rising PROVE accepted # {}
    OBVIOUS
  <2>1. Top # 0
    BY <1>5, <1>6 DEF Top
  <2>2. writes # <<>> => Len(writes) \in 1..Len(writes)
    BY <1>0 DEF TypeOK
  <2>3. End # 0
    BY <1>0, <2>1, <2>2, Spans, StoreAssumption DEF End, Heights
  <2> QED
    BY <2>3 DEF QueueOK
<1>8. \* The queue is left alone and so is where it starts.
      ASSUME UNCHANGED <<writes, accepted>>, Top' = Top, pc \in Rising \/ head' = head
      PROVE  QueueOK'
  BY <1>7, <1>8 DEF QueueOK, End
<1>9. \* The keys are left alone, and the pointers only move outwards.
      ASSUME UNCHANGED <<disk, index, headKey, tailKey, tail>>, head <= head', head' \in Nat,
             \A h \in pending' : pc' = "reset" \/ headKey < h
      PROVE  KeysOK'
  BY <1>0, <1>1, <1>4, <1>9 DEF KeysOK
<1>10. pc # "reset" => \A h \in pending : headKey < h
  BY DEF KeysOK
<1>11. \* Outside of Rising only the pc moves.
       ASSUME pc \notin Rising, pc' \notin Rising \cup {"commit"}, pc = "reset" => pc' = "reset", ~ctxDone',
              UNCHANGED <<writes, accepted, pending, disk, index, headKey, tailKey, head, tail>>
       PROVE  QueueOK' /\ ReachOK' /\ KeysOK'
  <2>1. Top' = Top /\ Have' = Have
    BY <1>11 DEF Top, Have
  <2>2. ReachOK'
    BY <1>3, <1>11, <2>1 DEF ReachOK, Rising
  <2> QED
    BY <1>4, <1>8, <1>9, <1>10, <1>11, <2>1, <2>2
<1>12. ~StopSend /\ ~StopCancel /\ ~StopReturn /\ ~StopTimeout /\ ~ScanError /\ ~CommitError
  BY <1>0, <1>3 DEF StopSend, StopCancel, StopReturn, StopTimeout, ScanError, CommitError, Spend
<1>13. CASE SyncStopped \/ SyncTimeout
  <2>1. UNCHANGED <<writes, accepted, pending, disk, index, headKey, tailKey, head, tail, pc, cur, base, boundary,
                    batchKeys, ctxDone>>
    BY <1>13 DEF SyncStopped, SyncTimeout, queueVars, diskVars, ptrVars, loopVars, lifeVars
  <2>2. Top' = Top /\ Have' = Have
    BY <2>1 DEF Top, Have
  <2>3. ReachOK'
    BY <1>3, <2>1, <2>2 DEF ReachOK
  <2> QED
    BY <1>4, <1>8, <1>9, <1>10, <2>1, <2>2, <2>3
<1>14. CASE Start
  <2>1. pc = "off" /\ pc' = "idle" /\ ~ctxDone'
        /\ UNCHANGED <<writes, accepted, head, tail, headKey, tailKey, pending, disk, index>>
    BY <1>14 DEF Start, LoopOK, Resolves, queueVars
  <2> QED
    BY <1>11, <2>1 DEF Rising
<1>15. CASE RecvSync \/ DrainDone
  BY <1>3, <1>11, <1>15 DEF RecvSync, DrainDone, Rising, queueVars, diskVars, ptrVars, callerVars, lifeVars
<1>16. CASE RecvWrites
  <2>1. /\ pc \in {"idle", "drain"} /\ pc' = "ensureInit" /\ writes # <<>> /\ cur' = writes[1] /\ writes' = Tail(writes)
        /\ UNCHANGED <<accepted, pending, disk, index, headKey, tailKey, head, tail, ctxDone>>
    BY <1>16 DEF RecvWrites, diskVars, ptrVars, callerVars, lifeVars
  <2>2. Top = head /\ Top' = writes[1][2] /\ Have' = Have
    BY <2>1 DEF Top, Rising, Have
  <2>3. QueueOK' /\ (head = 0 \/ writes[1][1] = head + 1)
    BY <1>0, <2>1, <2>2, QueueRecv
  <2>4. writes[1][1] \in Nat /\ writes[1][2] \in Nat /\ writes[1][1] <= writes[1][2]
    <3>1. 1 \in 1..Len(writes)
      BY <1>0, <2>1 DEF TypeOK
    <3> QED
      BY <1>0, <3>1, Spans, StoreAssumption DEF Heights
  <2>5. \A h \in Have : h <= writes[1][2]
    BY <1>4, <2>2, <2>3, <2>4 DEF ReachOK
  <2>6. ReachOK'
    BY <1>3, <2>1, <2>2, <2>3, <2>5 DEF ReachOK, Rising
  <2> QED
    BY <1>4, <1>9, <1>10, <2>1, <2>3, <2>6
<1>17. CASE EnsureInit
  <2>1. /\ pc = "ensureInit" /\ pc' = "append" /\ cur' = cur /\ cur # Nil
        /\ UNCHANGED <<writes, accepted, pending, disk, index, headKey, tailKey, ctxDone>>
        /\ head' = IF head = 0 THEN cur[2] ELSE head
        /\ tail' = IF tail = 0 THEN cur[1] ELSE tail
    BY <1>6, <1>17 DEF EnsureInit, Rising, queueVars, diskVars, callerVars, lifeVars
  <2>2. Top' = Top /\ Have' = Have /\ pc \in Rising
    BY <2>1 DEF Top, Rising, Have
  <2>3. head = 0 \/ cur[1] = head + 1
    BY <2>1 DEF ReachOK
  <2>4. head' # 0 /\ cur[1] <= head' + 1 /\ head' <= cur[2] /\ headKey < cur[1] /\ head <= head' /\ head' \in Nat
    BY <1>4, <1>5, <2>1, <2>3 DEF KeysOK
  <2>5. ReachOK'
    BY <1>3, <2>1, <2>2, <2>4 DEF ReachOK, Rising
  <2>6. KeysOK'
    <3>1. CASE tail # 0
      BY <1>9, <1>10, <2>1, <2>4, <3>1
    <3>2. CASE tail = 0
      <4>1. head = 0 /\ headKey = 0
        BY <1>2, <1>4, <3>2 DEF RangeOK, KeysOK
      <4>2. index = {}
        BY <1>4, <4>1 DEF KeysOK
      <4> QED
        BY <1>0, <1>1, <1>4, <1>10, <2>1, <2>4, <4>2 DEF KeysOK
    <3> QED
      BY <3>1, <3>2
  <2> QED
    BY <1>8, <2>1, <2>2, <2>5, <2>6
<1>18. CASE AppendPending
  <2>1. /\ pc = "append" /\ pc' = "advance" /\ cur' = cur /\ cur # Nil /\ pending' = pending \cup HeadersOf(cur)
        /\ UNCHANGED <<writes, accepted, disk, index, headKey, tailKey, head, tail, ctxDone>>
    BY <1>6, <1>18 DEF AppendPending, Rising, queueVars, diskVars, ptrVars, callerVars, lifeVars
  <2>2. Top' = Top /\ Have' = Have \cup HeadersOf(cur) /\ Top = cur[2]
    BY <2>1 DEF Top, Rising, Have
  <2>3. \A h \in HeadersOf(cur) : h <= cur[2] /\ cur[1] <= h /\ h \in Int
    BY <1>5, <2>1
  <2>4. head # 0 /\ cur[1] <= head + 1 /\ head <= cur[2] /\ headKey < cur[1]
    BY <2>1 DEF ReachOK, Rising
  <2>5. \A h \in HeadersOf(cur) : headKey < h
    BY <1>4, <1>5, <2>1, <2>3, <2>4
  <2>6. ReachOK'
    BY <1>3, <2>1, <2>2, <2>3, <2>4 DEF ReachOK, Rising
  <2>7. KeysOK'
    BY <1>4, <1>9, <1>10, <2>1, <2>5
  <2> QED
    BY <1>8, <2>1, <2>2, <2>6, <2>7
<1>19. CASE AdvanceHead
  <2>1. /\ pc = "advance" /\ head # 0 /\ pc' = "scanUp" /\ cur' = cur /\ base' = head
        /\ UNCHANGED <<writes, accepted, pending, disk, index, headKey, tailKey, head, tail, ctxDone>>
    BY <1>19 DEF AdvanceHead, ReachOK, Rising, queueVars, diskVars, ptrVars, callerVars, lifeVars
  <2>2. Top' = Top /\ Have' = Have
    BY <2>1 DEF Top, Rising, Have
  <2>3. ReachOK'
    BY <1>3, <2>1, <2>2 DEF ReachOK, Rising
  <2> QED
    BY <1>4, <1>8, <1>9, <1>10, <2>1, <2>2, <2>3
<1>20. CASE ScanUp
  <2>1. /\ pc = "scanUp" /\ pc' = "scanUp" /\ cur' = cur /\ base' = base
        /\ UNCHANGED <<writes, accepted, pending, disk, index, headKey, tailKey, head, tail, ctxDone>>
    BY <1>20 DEF ScanUp, queueVars, diskVars, ptrVars, callerVars, lifeVars
  <2>2. Top' = Top /\ Have' = Have
    BY <2>1 DEF Top, Rising, Have
  <2>3. ReachOK'
    BY <1>3, <2>1, <2>2 DEF ReachOK, Rising
  <2> QED
    BY <1>4, <1>8, <1>9, <1>10, <2>1, <2>2, <2>3
<1>21. CASE ScanUpEnd
  <2>1. /\ pc = "scanUp" /\ ~HasHeaderAt(boundary + 1) /\ cur # Nil
        /\ pc' = IF boundary = base \/ ~GetByHeight(boundary) THEN "recede" ELSE "storeHead"
        /\ UNCHANGED <<writes, accepted, pending, disk, index, headKey, tailKey, head, tail, ctxDone, cur, boundary>>
    BY <1>3, <1>6, <1>21 DEF ScanUpEnd, Rising, queueVars, diskVars, ptrVars, callerVars, lifeVars
  <2>2. head # 0 /\ head <= boundary /\ head..boundary \subseteq Have
    BY <2>1 DEF LoopOK
  <2>3. /\ cur[1] <= head + 1 /\ head <= cur[2] /\ headKey < cur[1] /\ base = head
        /\ cur[1]..cur[2] \subseteq Have /\ Top = cur[2]
    BY <1>5, <2>1 DEF ReachOK, Rising, Top
  <2>4. boundary \in Have /\ boundary # 0
    BY <1>4, <2>2
  <2>5. GetByHeight(boundary)
    BY <1>2, <2>4 DEF GetByHeight, Have
  <2>6. boundary = cur[2]
    <3>1. boundary <= cur[2]
      BY <2>3, <2>4 DEF ReachOK
    <3>2. boundary + 1 \notin cur[1]..cur[2]
      BY <2>1, <2>3 DEF HasHeaderAt, Have
    <3> QED
      BY <1>4, <1>5, <2>1, <2>2, <2>3, <3>1, <3>2
  <2>7. pc' = "storeHead" \/ (pc' = "recede" /\ head = cur[2])
    BY <2>1, <2>3, <2>5, <2>6
  <2>8. Top' = Top /\ Have' = Have
    BY <2>1, <2>3, <2>7 DEF Top, Rising, Have
  <2>9. ReachOK'
    <3>1. CASE pc' = "storeHead"
      BY <1>3, <2>1, <2>2, <2>3, <2>6, <2>8, <3>1 DEF ReachOK, Rising
    <3>2. CASE pc' = "recede"
      BY <1>3, <2>1, <2>8, <3>2 DEF ReachOK, Rising
    <3> QED
      BY <2>7, <3>1, <3>2
  <2> QED
    BY <1>4, <1>8, <1>9, <1>10, <2>1, <2>8, <2>9
<1>22. CASE StoreHead
  <2>1. /\ pc = "storeHead" /\ pc' = "recede" /\ head' = boundary /\ boundary = cur[2]
        /\ UNCHANGED <<writes, accepted, pending, disk, index, headKey, tailKey, tail, ctxDone>>
    BY <1>22 DEF StoreHead, ReachOK, queueVars, diskVars, callerVars, lifeVars
  <2>2. Top' = Top /\ Have' = Have /\ pc \in Rising
    BY <2>1 DEF Top, Rising, Have
  <2>3. head <= head' /\ head' \in Nat
    BY <1>4, <2>1 DEF LoopOK
  <2>4. ReachOK'
    BY <1>3, <2>1, <2>2 DEF ReachOK, Rising
  <2> QED
    BY <1>8, <1>9, <1>10, <2>1, <2>2, <2>3, <2>4
<1>23. CASE RecedeTail \/ ScanDown \/ ScanDownEnd \/ TakePending
  <2>1. /\ pc \in {"recede", "scanDown", "check"} /\ pc' \in {"check", "scanDown", "storeTail", "load"}
        /\ UNCHANGED <<writes, accepted, pending, disk, index, headKey, tailKey, head, tail, ctxDone>>
    BY <1>23 DEF RecedeTail, ScanDown, ScanDownEnd, TakePending, queueVars, diskVars, ptrVars, callerVars, lifeVars
  <2> QED
    BY <1>3, <1>11, <2>1 DEF Rising
<1>24. CASE StoreTail
  <2>1. /\ pc = "storeTail" /\ pc' = "check" /\ tail' = boundary
        /\ UNCHANGED <<writes, accepted, pending, disk, index, headKey, tailKey, head, ctxDone>>
    BY <1>24 DEF StoreTail, queueVars, diskVars, callerVars, lifeVars
  <2>2. Top' = Top /\ Have' = Have
    BY <2>1 DEF Top, Rising, Have
  <2>3. tail' <= tail
    BY <2>1 DEF LoopOK
  <2>4. tailKey \in index => tail' <= tailKey
    BY <1>1, <1>4, <2>1, <2>3 DEF KeysOK
  <2>5. KeysOK'
    BY <1>0, <1>1, <1>10, <2>1, <2>4 DEF KeysOK
  <2>6. ReachOK'
    BY <1>3, <2>1, <2>2 DEF ReachOK, Rising
  <2> QED
    BY <1>8, <2>1, <2>2, <2>5, <2>6
<1>25. CASE SkipFlush
  <2>1. /\ cur # Nil /\ pc = "check" /\ pc' \in {"idle", "drain"}
        /\ UNCHANGED <<writes, accepted, pending, disk, index, headKey, tailKey, head, tail, ctxDone>>
    BY <1>25 DEF SkipFlush, Finish, queueVars, diskVars, ptrVars
  <2> QED
    BY <1>3, <1>11, <2>1 DEF Rising
<1>26. CASE LoadKeys
  <2>1. /\ pc = "load" /\ pc' \in {"reset", "panic", "commit"}
        /\ batchKeys' = IF toFlush = {} THEN batchKeys ELSE <<head, tail>>
        /\ (toFlush = {} => pc' = "reset")
        /\ UNCHANGED <<writes, accepted, pending, disk, index, headKey, tailKey, head, tail, ctxDone>>
    <3>1. CASE toFlush = {}
      BY <1>26, <3>1, Zenon DEF LoadKeys, queueVars, diskVars, ptrVars, callerVars, lifeVars
    <3>2. CASE toFlush # {} /\ (head = 0 \/ tail = 0)
      BY <1>26, <3>2, Zenon DEF LoadKeys, queueVars, diskVars, ptrVars, callerVars, lifeVars
    <3>3. CASE toFlush # {} /\ ~(head = 0 \/ tail = 0)
      BY <1>26, <3>3, Zenon DEF LoadKeys, queueVars, diskVars, ptrVars, callerVars, lifeVars
    <3> QED
      BY <3>1, <3>2, <3>3
  <2>2. Top' = Top /\ Have' = Have
    BY <2>1 DEF Top, Rising, Have
  <2>3. ReachOK'
    BY <1>3, <2>1, <2>2 DEF ReachOK, Rising
  <2> QED
    BY <1>4, <1>8, <1>9, <1>10, <2>1, <2>2, <2>3
<1>27. CASE Commit
  <2>1. /\ pc = "commit" /\ pc' = "reset" /\ disk' = disk \cup pending /\ index' = index \cup pending
        /\ headKey' = head /\ tailKey' = tail
        /\ UNCHANGED <<writes, accepted, pending, head, tail, ctxDone>>
    BY <1>27 DEF Commit, LoopOK, ReachOK, queueVars, ptrVars, callerVars, lifeVars
  <2>2. Top' = Top /\ Have' = Have /\ Top = head
    BY <2>1 DEF Top, Rising, Have
  <2>3. \A h \in index' : h <= head
    BY <2>1, <2>2 DEF ReachOK, Have
  <2>4. KeysOK'
    BY <1>0, <1>1, <1>4, <2>1, <2>3 DEF KeysOK
  <2>5. ReachOK'
    BY <1>3, <2>1, <2>2 DEF ReachOK, Rising
  <2> QED
    BY <1>8, <2>1, <2>2, <2>4, <2>5
<1>28. CASE Reset
  <2>1. /\ pc = "reset" /\ pending' = {} /\ cur # Nil
        /\ UNCHANGED <<writes, accepted, disk, index, headKey, tailKey, head, tail, ctxDone>>
    BY <1>0, <1>28 DEF Reset, queueVars, diskVars, ptrVars, LifeQuiet, Apart
  <2>2. pc' \in {"idle", "drain"}
    BY <1>28, <2>1 DEF Reset, Finish
  <2>3. Top' = Top /\ Have' \subseteq Have
    BY <2>1, <2>2 DEF Top, Rising, Have
  <2>4. ReachOK'
    BY <1>3, <2>1, <2>2, <2>3 DEF ReachOK, Rising
  <2> QED
    BY <1>4, <1>8, <1>9, <2>1, <2>3, <2>4
<1> QED
  BY <1>12, <1>13, <1>14, <1>15, <1>16, <1>17, <1>18, <1>19, <1>20, <1>21, <1>22, <1>23, <1>24, <1>25, <1>26,
     <1>27, <1>28 DEF CallerStep, LoopStep

\* The steps of DeleteRange: a tail that has moved leaves no tailKey behind that
\* leads to a header, unless it is above.
LEMMA RestartDeleteStep ==
    ASSUME QuietInv, Restartable, IndexOK, LoopOK, Settled => RangeOK, PhaseOK,
           QueueOK, ReachOK, KeysOK, MissedInv', DeleteStep
    PROVE  QueueOK' /\ ReachOK' /\ KeysOK'
<1>0. /\ TypeOK /\ LifeQuiet /\ CallQuiet /\ CallTypes /\ CallAt /\ WorkAt /\ Apart /\ Gapless
      /\ ~mode.headSide
      /\ UNCHANGED <<writes, accepted, pc, cur, base, boundary, batchKeys, ctxDone, left, mode>>
  BY DeleteLeaves DEF QuietInv, CallInv, Restartable, Gapless
<1>1. /\ head \in Nat /\ tail \in Nat /\ headKey \in Nat /\ tailKey \in Nat /\ next \in Nat
      /\ from \in Nat /\ to \in Nat
  BY <1>0, StoreAssumption DEF TypeOK, CallTypes, from, to
<1>2. (dpc \notin {"none", "sync", "done"} => pc = "idle") /\ (dpc # "delete" => ~half)
  BY <1>0 DEF CallQuiet, Busy, CallAt
<1>3. ASSUME head' = head PROVE QueueOK'
  BY <1>0, <1>3 DEF QueueOK, End, Top
<1>4. ASSUME UNCHANGED <<head, tail, headKey, pending, index>> PROVE ReachOK'
  BY <1>0, <1>4 DEF ReachOK, Top, Have
<1>5. ASSUME pc = "idle", head' = head, pending' \subseteq pending, index' \subseteq index PROVE ReachOK'
  BY <1>0, <1>5 DEF ReachOK, Top, Have, Rising
<1>6. \* Headers are deleted, or nothing is.
      ASSUME UNCHANGED <<head, tail, headKey, tailKey>>, pending' \subseteq pending, index' \subseteq index,
             disk' \subseteq index', half' => next' \notin disk',
             dpc' \notin {"setTail", "setTailKey", "tailAsHead", "advance", "storeHead"}, dpc # "setTailKey"
      PROVE  KeysOK'
  BY <1>0, <1>6 DEF KeysOK
<1>7. ASSUME UNCHANGED <<head, tail, headKey, tailKey, pending, disk, index>>, ~half',
             dpc' \notin {"setTail", "setTailKey", "tailAsHead", "advance", "storeHead"}, dpc # "setTailKey"
      PROVE  QueueOK' /\ ReachOK' /\ KeysOK'
  BY <1>3, <1>4, <1>6, <1>7 DEF KeysOK
<1>8. CASE Synced \/ LoadHead \/ LoadTail \/ CheckFails \/ Returned
  <2>1. /\ dpc \in {"sync", "loadHead", "loadTail", "check", "done"}
        /\ dpc' \in {"loadHead", "loadTail", "check", "none", "done"}
        /\ UNCHANGED <<head, tail, headKey, tailKey, pending, disk, index>> /\ ~half'
    BY <1>2, <1>8 DEF Synced, LoadHead, LoadTail, CheckFails, Returned, ResetCall, Return, vars, diskVars, ptrVars
  <2> QED
    BY <1>7, <2>1
<1>9. CASE CheckRange
  <2>1. dpc = "check" /\ UNCHANGED <<head, tail, headKey, tailKey, pending, disk, index>> /\ ~half'
    BY <1>2, <1>9 DEF CheckRange, vars, diskVars, ptrVars
  <2>2. dpc' \in {"done", "wipeHead", "delete", "distribute"}
    <3>1. CASE Rejected
      BY <1>9, <3>1, Zenon DEF CheckRange, Return
    <3>2. CASE ~Rejected /\ Wipes
      BY <1>9, <3>2, Zenon DEF CheckRange
    <3>3. CASE ~Rejected /\ ~Wipes
      <4>1. dpc' = IF to - from < mode.threshold THEN "delete" ELSE "distribute"
        BY <1>9, <3>3, Zenon DEF CheckRange
      <4> QED
        BY <4>1
    <3> QED
      BY <3>1, <3>2, <3>3
  <2> QED
    BY <1>7, <2>1, <2>2
<1>10. ~WipeHead /\ ~WipeTail /\ ~WipeHeadKey /\ ~WipeTailKey /\ ~SetHead /\ ~SetHeadKey
       /\ ~TailAsHead /\ ~DeleterNextHead /\ ~DeleterStoreHead
  BY <1>0 DEF WipeHead, WipeTail, WipeHeadKey, WipeTailKey, SetHead, SetHeadKey, TailAsHead, DeleterNextHead,
     DeleterStoreHead, PhaseOK, KeysOK
<1>11. CASE SkipMissing \/ DeleteFails \/ DeleteEnds
  <2>1. /\ dpc = "delete" /\ dpc' \in {"delete", "commitDelete"}
        /\ UNCHANGED <<head, tail, headKey, tailKey, pending, disk, index>>
    BY <1>11 DEF SkipMissing, DeleteFails, DeleteEnds, vars, diskVars, ptrVars
  <2>2. ~half'
    BY <1>0, <1>1, <1>11 DEF SkipMissing, DeleteFails, DeleteEnds, CallAt, WorkAt
  <2> QED
    BY <1>7, <2>1, <2>2
<1>12. CASE DeleteInBatch \/ DeleteHeader \/ DeleteIndex
  <2>1. /\ dpc = "delete" /\ dpc' = "delete" /\ pc = "idle"
        /\ UNCHANGED <<head, tail, headKey, tailKey>> /\ pending' \subseteq pending /\ index' \subseteq index
    BY <1>2, <1>12 DEF DeleteInBatch, DeleteHeader, DeleteIndex, diskVars, ptrVars
  <2>2. disk' \subseteq index'
    <3>1. CASE DeleteInBatch \/ DeleteHeader
      BY <3>1 DEF DeleteInBatch, DeleteHeader, diskVars, KeysOK
    <3>2. CASE DeleteIndex
      <4>1. disk' = disk /\ index' = index \ {next} /\ half
        BY <3>2 DEF DeleteIndex
      <4>2. next \notin disk
        BY <4>1 DEF KeysOK
      <4> QED
        BY <4>1, <4>2 DEF KeysOK
    <3> QED
      BY <1>12, <3>1, <3>2
  <2>3. half' => next' \notin disk'
    <3>1. CASE DeleteInBatch
      BY <1>0, <3>1 DEF DeleteInBatch, CallAt
    <3>2. CASE DeleteHeader \/ DeleteIndex
      BY <3>2 DEF DeleteHeader, DeleteIndex
    <3> QED
      BY <1>12, <3>1, <3>2
  <2> QED
    BY <1>3, <1>5, <1>6, <2>1, <2>2, <2>3
<1>13. CASE Distribute \/ DistributeEnds \/ AwaitWorkers \/ \E w \in Workers : Work(w) \/ WorkEnds(w) \/ WorkCommit(w)
  <2>1. dpc \notin {"distribute", "await"} /\ \A w \in Workers : work[w].at = "off"
    BY <1>0 DEF PhaseOK, WorkAt
  <2> QED
    BY <1>13, <2>1 DEF Distribute, DistributeEnds, AwaitWorkers, Work, WorkEnds, WorkCommit
<1>14. CASE CommitDelete
  <2>1. /\ dpc = "commitDelete" /\ dpc' = AfterDelete(next) /\ pc = "idle"
        /\ UNCHANGED <<pending, head, tail, headKey, tailKey, next, range, half>>
        /\ \/ disk' = disk \ batch /\ index' = index \ batch
           \/ disk' = disk /\ index' = index
    BY <1>2, <1>14 DEF CommitDelete, ptrVars
  <2>2. RawOK /\ loaded = <<head, tail>>
    BY <2>1 DEF PhaseOK
  <2>3. from = tail
    BY <1>0, <1>1, <2>2 DEF RawOK
  <2>4. dpc' = "setTail"
    BY <2>1, <2>2, <2>3, Zenon DEF AfterDelete, updateTail
  <2>5. disk' \subseteq index' /\ index' \subseteq index
    BY <2>1 DEF KeysOK
  <2>6. "commit" \notin mode.failing /\ tailKey \in index' => next <= tailKey
    <3> SUFFICES ASSUME "commit" \notin mode.failing, tailKey \in index' PROVE next <= tailKey
      OBVIOUS
    <3>1. tail <= tailKey
      BY <2>1, <2>5 DEF KeysOK
    <3>2. from' = from /\ Committing'
      BY <1>0, <2>1 DEF from, Committing, Apart, Unstopped
    <3>3. \A h \in from..next - 1 : h \notin index'
      BY <2>1, <2>4, <3>2 DEF MissedInv
    <3> QED
      BY <1>1, <2>3, <3>1, <3>3
  <2>7. KeysOK'
    BY <1>0, <1>2, <2>1, <2>4, <2>5, <2>6 DEF KeysOK
  <2> QED
    BY <1>3, <1>5, <2>1, <2>5, <2>7
<1>15. CASE SetTail
  <2>1. dpc = "setTail" /\ TailOK /\ pc = "idle"
    BY <1>2, <1>15 DEF SetTail, PhaseOK
  <2>2. /\ UNCHANGED <<pending, disk, index, headKey, tailKey, head, next, half>>
        /\ dpc' = "setTailKey" \/ (dpc' = "done" /\ tail' = tail)
    BY <1>15 DEF SetTail, diskVars, Return
  <2>3. KeysOK'
    BY <1>0, <2>1, <2>2 DEF KeysOK
  <2> QED
    BY <1>3, <1>5, <2>1, <2>2, <2>3
<1>16. CASE SetTailKey
  <2>1. dpc = "setTailKey" /\ TailOK /\ pc = "idle" /\ tail = next
    BY <1>2, <1>16 DEF SetTailKey, PhaseOK
  <2>2. /\ UNCHANGED <<pending, disk, index, headKey, head, tail, next, half>>
        /\ \/ tailKey' = next /\ dpc' = "setTailHead"
           \/ tailKey' = tailKey /\ dpc' = "done" /\ Fail("key")
    BY <1>16 DEF SetTailKey, ptrVars, Return
  <2>3. Fail("key") => "commit" \notin mode.failing
    <3>1. mode.failures \in Nat /\ failures \in 0..mode.failures
      BY <1>0, ModeFields DEF CallTypes
    <3> QED
      BY <3>1 DEF Fail, Restartable
  <2>4. tailKey' \in index => tail <= tailKey'
    BY <1>1, <2>1, <2>2, <2>3 DEF KeysOK
  <2>5. KeysOK'
    BY <1>0, <2>1, <2>2, <2>4 DEF KeysOK
  <2> QED
    BY <1>3, <1>5, <2>1, <2>2, <2>5
<1>17. CASE SetTailHead
  <2>1. dpc = "setTailHead" /\ TailOK
    BY <1>17 DEF SetTailHead, PhaseOK
  <2>2. head # 0 /\ next <= head
    BY <1>0, <2>1 DEF TailOK
  <2>3. dpc' = "done" /\ UNCHANGED <<head, tail, headKey, tailKey, pending, disk, index>> /\ ~half'
    BY <1>1, <1>2, <1>17, <2>1, <2>2 DEF SetTailHead, Return, ptrVars
  <2> QED
    BY <1>7, <2>1, <2>3
<1> QED
  BY <1>8, <1>9, <1>10, <1>11, <1>12, <1>13, <1>14, <1>15, <1>16, <1>17 DEF DeleteStep

\* RestartInv is preserved by every step ...
LEMMA RestartStep ==
    ASSUME QuietInv, GapInv, RestartInv, MissedInv', DeleteNext
    PROVE  RestartInv'
<1> SUFFICES ASSUME Restartable PROVE QueueOK' /\ ReachOK' /\ KeysOK'
  BY ModeStays DEF RestartInv, Restartable, Gapless, Apart, Unstopped
<1>0. /\ IndexOK /\ LoopOK /\ (Settled => RangeOK) /\ PhaseOK /\ TypeOK /\ CallTypes /\ NoNil
      /\ QueueOK /\ ReachOK /\ KeysOK
  BY DEF GapInv, RestartInv, Restartable, QuietInv, CallInv, LifeQuiet, Gapless, Apart
<1>1. CASE DeleteStep
  BY <1>0, <1>1, RestartDeleteStep
<1>2. CASE (CallerStep \/ LoopStep) /\ UNCHANGED delVars
  BY <1>0, <1>2, RestartLoopStep
<1>3. CASE DeleteCrash
  BY <1>0, <1>3 DEF DeleteCrash, Crash, Spend, LoopOK
<1>4. ASSUME Next PROVE left'["ioError"] = 0
  BY <1>0, <1>4, LeftFalls, EventNames DEF ReachOK
<1>5. ASSUME NEW b \in mode.batches, DeleteAppend(b) PROVE QueueOK' /\ ReachOK' /\ KeysOK'
  <2>1. b \in Batches /\ Next
    BY <1>0, <1>5, ModeFields DEF DeleteAppend, Next, CallTypes
  <2>2. /\ UNCHANGED <<pending, disk, index, headKey, tailKey, head, tail, pc, cur, base, boundary, batchKeys, ctxDone>>
        /\ UNCHANGED <<mode, dpc, next, half>>
        /\ writes' = Append(writes, b) /\ accepted' = accepted \cup HeadersOf(b)
        /\ SyncedHead = 0 \/ b[1] = SyncedHead + 1
    BY <1>5 DEF DeleteAppend, AppendBatch, Restartable, diskVars, ptrVars, loopVars, lifeVars, delVars
  <2>3. Have' = Have /\ Top' = Top
    BY <2>2 DEF Have, Top
  <2>4. QueueOK'
    BY <1>0, <2>1, <2>2, <2>3, QueueAppend
  <2>5. ReachOK'
    BY <1>0, <1>4, <2>1, <2>2, <2>3 DEF ReachOK
  <2>6. KeysOK'
    BY <1>0, <2>2 DEF KeysOK
  <2> QED
    BY <2>4, <2>5, <2>6
<1>6. ASSUME NEW r \in Ranges, DeleteRange(r) PROVE QueueOK' /\ ReachOK' /\ KeysOK'
  <2>1. Next
    BY <1>6 DEF DeleteRange, Next
  <2>2. /\ UNCHANGED <<pending, disk, index, headKey, tailKey, head, tail, pc, cur, base, boundary, batchKeys, ctxDone>>
        /\ UNCHANGED <<mode, next, half, writes, accepted>> /\ dpc = "none" /\ dpc' = "sync"
    BY <1>6 DEF DeleteRange, SyncCall, queueVars, diskVars, ptrVars, loopVars, lifeVars
  <2>3. Have' = Have /\ Top' = Top /\ End' = End
    BY <2>2 DEF Have, Top, End
  <2>4. QueueOK' /\ ReachOK'
    BY <1>0, <1>4, <2>1, <2>2, <2>3 DEF QueueOK, ReachOK
  <2>5. KeysOK'
    BY <1>0, <2>2 DEF KeysOK
  <2> QED
    BY <2>4, <2>5
<1> QED
  BY <1>1, <1>2, <1>3, <1>5, <1>6 DEF DeleteNext

\* ... and holds in every state.
LEMMA RestartInvariance == DeleteSpec => [](QuietInv /\ GapInv /\ RestartInv)
<1>1. DeleteInit => RestartInv
  <2> SUFFICES ASSUME DeleteInit, Restartable PROVE QueueOK /\ ReachOK /\ KeysOK
    BY DEF RestartInv
  <2>1. /\ writes = <<>> /\ accepted = {} /\ pending = {} /\ disk = {} /\ index = {} /\ headKey = 0
        /\ head = 0 /\ pc = "off" /\ ~ctxDone /\ left["ioError"] = 0 /\ dpc = "none" /\ ~half
    BY DEF DeleteInit, NewStore, Restartable
  <2>2. Top = 0 /\ End = 0 /\ Have = {}
    BY <2>1 DEF Top, End, Have, Rising
  <2>3. QueueOK
    <3>1. 1..Len(writes) - 1 = {}
      BY <2>1
    <3> QED
      BY <2>1, <2>2, <3>1 DEF QueueOK
  <2> QED
    BY <2>1, <2>2, <2>3 DEF ReachOK, KeysOK, Rising
<1>2. QuietInv /\ GapInv /\ RestartInv /\ MissedInv' /\ [DeleteNext]_allVars => RestartInv'
  <2> SUFFICES ASSUME QuietInv, GapInv, RestartInv, MissedInv', [DeleteNext]_allVars PROVE RestartInv'
    OBVIOUS
  <2>1. CASE DeleteNext
    BY <2>1, RestartStep
  <2>2. CASE UNCHANGED allVars
    <3>1. /\ UNCHANGED <<writes, accepted, pending, disk, index, headKey, tailKey, head, tail, pc, cur, base, boundary>>
          /\ UNCHANGED <<batchKeys, ctxDone, left, mode, dpc, next, half>>
      BY <2>2 DEF allVars, vars, delVars, queueVars, diskVars, ptrVars, loopVars, lifeVars
    <3>2. Have' = Have /\ Top' = Top /\ End' = End
      BY <3>1 DEF Have, Top, End
    <3>3. QueueOK' = QueueOK /\ ReachOK' = ReachOK /\ KeysOK' = KeysOK
      BY <3>1, <3>2 DEF QueueOK, ReachOK, KeysOK
    <3> QED
      BY <3>1, <3>3 DEF RestartInv, Restartable, Gapless, Apart, Unstopped
  <2> QED
    BY <2>1, <2>2
<1> QED
  BY <1>1, <1>2, GapInvariance, QuietInvariance, PTL DEF DeleteSpec

\* A crash at any moment outside of a DeleteRange leaves a datastore from which
\* Start loads a range without gaps, or lacks one of its ends: with any number of
\* adjacent appends and prunings before, failed ones and ones that were cut short
\* included, whatever is still pending or queued.
THEOREM RestartFindsRange == DeleteSpec => [](Restartable => RestartIsContiguous)
<1>1. QuietInv /\ GapInv /\ RestartInv => (Restartable => RestartIsContiguous)
  <2> SUFFICES ASSUME QuietInv, GapInv, RestartInv, Restartable, dpc = "none",
                      headKey \in disk, tailKey \in disk, headKey # 0, tailKey # 0
               PROVE  tailKey <= headKey /\ tailKey..headKey \subseteq disk \cap index
    BY DEF RestartIsContiguous, Persisted
  <2>1. RangeOK /\ (\A h \in index : h \in disk) /\ LoopOK /\ ReachOK /\ KeysOK /\ TypeOK /\ LifeQuiet /\ NoNil
    BY DEF GapInv, RestartInv, Restartable, Settled, IndexOK, QuietInv, CallInv, CallAt, LifeQuiet, Gapless, Apart
  <2>2. headKey \in Nat /\ tailKey \in Nat /\ head \in Nat /\ tail \in Nat
    BY <2>1, StoreAssumption DEF TypeOK
  <2>3. tailKey <= headKey /\ headKey <= head /\ tail <= tailKey /\ head # 0
    BY <2>1, <2>2 DEF KeysOK
  <2>4. \A h \in tailKey..headKey : h \in tail..head /\ h <= headKey /\ h \in Int
    BY <2>2, <2>3
  <2>5. \A h \in Hand : headKey < h /\ h \in Int
    <3> SUFFICES ASSUME NEW h \in Hand, pc = "append" PROVE headKey < h /\ h \in Int
      BY DEF Hand
    <3>1. cur # Nil /\ h \in HeadersOf(cur)
      BY <2>1 DEF Hand, LifeQuiet, Restartable, Gapless, Apart
    <3>2. cur[1] \in Nat /\ cur[2] \in Nat /\ h \in cur[1]..cur[2]
      BY <2>1, <3>1, Spans, StoreAssumption DEF Heights
    <3>3. headKey < cur[1]
      BY <2>1 DEF ReachOK, Rising
    <3> QED
      BY <2>2, <3>2, <3>3
  <2>6. \A h \in pending : h \in index \/ (headKey < h /\ h \in Int)
    BY <2>1, StoreAssumption DEF KeysOK, LoopOK, TypeOK, Heights
  <2>7. \A h \in tailKey..headKey : h \in index
    <3> SUFFICES ASSUME NEW h \in tailKey..headKey PROVE h \in index
      OBVIOUS
    <3>1. h \in pending \cup index \cup Hand /\ ~(headKey < h)
      BY <2>1, <2>2, <2>3, <2>4 DEF RangeOK, Have
    <3> QED
      BY <2>5, <2>6, <3>1
  <2> QED
    BY <2>1, <2>3, <2>7
<1> QED
  BY <1>1, RestartInvariance, PTL

=============================================================================
