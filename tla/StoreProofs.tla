---------------------------- MODULE StoreProofs ----------------------------
(***************************************************************************)
(* Proofs about module Store, for every height bound, queue capacity, write *)
(* batch size, set of batches and budget of events.                         *)
(*                                                                          *)
(* The properties of Store are about what readers, Sync, Stop and a restart *)
(* see; none of them is inductive.  The inductive invariant IInv adds what  *)
(* flushLoop knows at each of its steps: what it has scanned so far, what   *)
(* the batch it is about to commit contains, and that the pointers it runs  *)
(* with are at least as wide as the keys on disk.                           *)
(***************************************************************************)
EXTENDS Store, TLAPS, SequenceTheorems

Kept == pending \cup disk

\* Headers and their height indexes are written together; any header on disk
\* comes with a headKey.
DiskInv == index = disk /\ (disk # {} => headKey # 0)

\* The pointers delimit stored headers; in the middle of the batch that sets
\* them, headers still in flushLoop's hand count.
RangeInv ==
    /\ (head = 0) <=> (tail = 0)
    /\ head # 0 => tail <= head /\ tail..head \subseteq Kept \cup InHand
    /\ (head # 0 /\ pc # "append") => tail..head \subseteq Kept
    /\ pending # {} => head # 0
    /\ (pc = "append" /\ cur # Nil) => head # 0

\* The scans of nextHead and nextTail have only passed stored headers.
ScanInv ==
    /\ pc \in {"scanUp", "storeHead"} =>
          head # 0 /\ base = head /\ head <= boundary /\ head..boundary \subseteq Kept
    /\ pc \in {"scanDown", "storeTail"} =>
          head # 0 /\ base = tail /\ 1 <= boundary /\ boundary <= tail /\ boundary..tail \subseteq Kept

\* A flush writes all of pending with the current pointers, and only then resets it.
FlushInv ==
    /\ pc # "panic"
    /\ pc \in {"load", "commit"} => toFlush = pending
    /\ pc = "commit" => toFlush # {} /\ batchKeys = <<head, tail>>
    /\ pc = "reset" => pending \subseteq disk
    /\ pc = "off" => pending = {}
    /\ writesDn => pc = "off"

\* The running loop's range includes the persisted one.
WiderInv ==
    (pc # "off" /\ headKey # 0) => head # 0 /\ headKey <= head /\ tail <= tailKey

\* heightSub's height is the head's while the loop runs, and 0 as long as
\* nothing is persisted while it does not.
HeightInv ==
    /\ pc # "off" => subHeight = head
    /\ (pc = "off" /\ headKey = 0) => subHeight = 0 /\ head = 0

\* What Sync is waiting for has been accepted, and after it is not in the queue any more.
SyncInv ==
    /\ NothingDropped
    /\ syncSeen \subseteq accepted
    /\ SyncBarrier

\* What does not depend on the queue and the callers.
CoreInv ==
    /\ DiskInv /\ DurableRange /\ RangeInv /\ ScanInv
    /\ FlushInv /\ WiderInv /\ HeightInv

IInv == TypeOK /\ CoreInv /\ SyncInv

-----------------------------------------------------------------------------
\* Lemmas.

\* An event leaves every budget a natural number.
LEMMA SpendType ==
  ASSUME NEW e \in Events, left \in [Events -> Nat], Spend(e)
  PROVE  left' \in [Events -> Nat]
BY DEF Spend

\* The names of the events.
LEMMA EventNames ==
  /\ "append" \in Events /\ "stop" \in Events /\ "timeout" \in Events
  /\ "crash" \in Events /\ "ioError" \in Events
BY DEF Events

\* The headers of a batch are the heights from its first to its last.
LEMMA BatchHeaders ==
  ASSUME NEW b \in Batches \cup {Nil}
  PROVE  /\ HeadersOf(b) \subseteq Heights
         /\ b # Nil => /\ b[1] \in Heights /\ b[2] \in Heights /\ b[1] <= b[2]
                       /\ HeadersOf(b) = b[1]..b[2]
BY StoreAssumption DEF HeadersOf, Heights, Nil

\* Every step keeps TypeOK.
LEMMA TypeStep == TypeOK /\ [Next]_vars => TypeOK'
<1> SUFFICES ASSUME TypeOK, [Next]_vars PROVE TypeOK'
  OBVIOUS
<1> USE StoreAssumption, EventNames
<1>1. ASSUME NEW b \in Batches, AppendBatch(b) PROVE TypeOK'
  <2>1. left' \in [Events -> Nat]
    BY <1>1, SpendType DEF TypeOK, AppendBatch
  <2>2. writes' \in Seq(Batches \cup {Nil})
    BY <1>1 DEF TypeOK, AppendBatch
  <2>3. accepted' \subseteq Heights
    BY <1>1, BatchHeaders DEF TypeOK, AppendBatch
  <2> QED
    BY <2>1, <2>2, <2>3, <1>1 DEF TypeOK, AppendBatch, diskVars, ptrVars, loopVars, lifeVars, syncVars
<1>2. CASE SyncCall
  BY <1>2 DEF TypeOK, SyncCall, queueVars, diskVars, ptrVars, loopVars, lifeVars
<1>3. CASE SyncReturn
  BY <1>3 DEF TypeOK, SyncReturn, queueVars, diskVars, ptrVars, loopVars, lifeVars
<1>4. CASE SyncStopped
  BY <1>4 DEF TypeOK, SyncStopped, queueVars, diskVars, ptrVars, loopVars, lifeVars
<1>5. CASE SyncTimeout
  <2>1. left' \in [Events -> Nat]
    BY <1>5, SpendType DEF TypeOK, SyncTimeout
  <2> QED
    BY <1>5, <2>1 DEF TypeOK, SyncTimeout, queueVars, diskVars, ptrVars, loopVars, lifeVars
<1>6. CASE StopSend
  <2>1. left' \in [Events -> Nat]
    BY <1>6, SpendType DEF TypeOK, StopSend
  <2>2. writes' \in Seq(Batches \cup {Nil})
    BY <1>6 DEF TypeOK, StopSend
  <2> QED
    BY <1>6, <2>1, <2>2 DEF TypeOK, StopSend, diskVars, ptrVars, loopVars, syncVars
<1>7. CASE StopCancel
  BY <1>7 DEF TypeOK, StopCancel, queueVars, diskVars, ptrVars, loopVars, syncVars
<1>8. CASE StopReturn
  <2>1. head' \in 0..MaxHeight /\ tail' \in 0..MaxHeight
    BY <1>8 DEF StopReturn
  <2> QED
    BY <1>8, <2>1 DEF TypeOK, StopReturn, queueVars, diskVars, loopVars, syncVars
<1>9. CASE StopTimeout
  <2>1. left' \in [Events -> Nat]
    BY <1>9, SpendType DEF TypeOK, StopTimeout
  <2> QED
    BY <1>9, <2>1 DEF TypeOK, StopTimeout, queueVars, diskVars, ptrVars, loopVars, syncVars
<1>10. CASE Start
  <2>1. sync' \in {"none", "send", "wait", "ok", "stopped"}
    BY <1>10 DEF TypeOK, Start
  <2>2. /\ head' \in 0..MaxHeight /\ tail' \in 0..MaxHeight /\ subHeight' \in 0..MaxHeight
        /\ headKey' \in 0..MaxHeight /\ tailKey' \in 0..MaxHeight
    BY <1>10 DEF TypeOK, Start
  <2> QED
    BY <2>1, <2>2, <1>10 DEF TypeOK, Start, PCs, queueVars
<1>11. CASE Crash
  <2>1. left' \in [Events -> Nat]
    BY <1>11, SpendType DEF TypeOK, Crash
  <2>2. writes' \in Seq(Batches \cup {Nil})
    BY <1>11 DEF Crash, CrashMemory
  <2>3. /\ head' \in 0..MaxHeight /\ tail' \in 0..MaxHeight /\ subHeight' \in 0..MaxHeight
        /\ base' \in 0..MaxHeight /\ boundary' \in 0..MaxHeight
        /\ batchKeys' \in (0..MaxHeight) \X (0..MaxHeight)
    BY <1>11 DEF Crash, CrashMemory
  <2>4. /\ headKey' \in 0..MaxHeight /\ tailKey' \in 0..MaxHeight
        /\ disk' \subseteq Heights /\ index' \subseteq Heights
    BY <1>11 DEF TypeOK, Crash, diskVars
  <2>5. /\ pending' \subseteq Heights /\ toFlush' \subseteq Heights
        /\ accepted' \subseteq Heights /\ syncSeen' \subseteq Heights
        /\ cur' \in Batches \cup {Nil} /\ pc' \in PCs
    BY <1>11 DEF Crash, CrashMemory, PCs
  <2>6. /\ draining' \in BOOLEAN /\ ctxDone' \in BOOLEAN /\ writesDn' \in BOOLEAN
        /\ stop' \in {"none", "cancel", "wait"}
        /\ sync' \in {"none", "send", "wait", "ok", "stopped"}
    BY <1>11 DEF Crash, CrashMemory
  <2> QED BY <2>1, <2>2, <2>3, <2>4, <2>5, <2>6 DEF TypeOK
<1>12. CASE RecvSync
  BY <1>12 DEF TypeOK, RecvSync, PCs, queueVars, diskVars, ptrVars, callerVars, lifeVars
<1>13. CASE RecvWrites
  <2>1. /\ cur' \in Batches \cup {Nil}
        /\ writes' \in Seq(Batches \cup {Nil})
    BY <1>13 DEF TypeOK, RecvWrites
  <2> QED
    BY <1>13, <2>1 DEF TypeOK, RecvWrites, PCs, diskVars, ptrVars, callerVars, lifeVars, syncVars
<1>14. CASE DrainDone
  BY <1>14 DEF TypeOK, DrainDone, PCs, queueVars, diskVars, ptrVars, callerVars, lifeVars
<1>15. CASE EnsureInit
  <2>0. cur # Nil => cur[1] \in 0..MaxHeight /\ cur[2] \in 0..MaxHeight
    <3>1. cur \in Batches \cup {Nil}
      BY DEF TypeOK
    <3>2. cur # Nil => cur[1] \in Heights /\ cur[2] \in Heights
      BY <3>1, BatchHeaders
    <3> QED BY <3>2 DEF Heights
  <2>1. head' \in 0..MaxHeight /\ tail' \in 0..MaxHeight /\ subHeight' \in 0..MaxHeight
    BY <1>15, <2>0 DEF TypeOK, EnsureInit
  <2> QED
    BY <1>15, <2>1 DEF TypeOK, EnsureInit, PCs, queueVars, diskVars, callerVars, lifeVars, syncVars
<1>16. CASE AppendPending
  BY <1>16, BatchHeaders DEF TypeOK, AppendPending, PCs, queueVars, diskVars, ptrVars, callerVars, lifeVars, syncVars
<1>17. CASE AdvanceHead
  BY <1>17 DEF TypeOK, AdvanceHead, PCs, queueVars, diskVars, ptrVars, callerVars, lifeVars, syncVars
<1>18. CASE ScanUp
  <2>1. boundary' \in 0..MaxHeight
    BY <1>18 DEF TypeOK, ScanUp, HasHeaderAt, Heights
  <2> QED
    BY <1>18, <2>1 DEF TypeOK, ScanUp, PCs, queueVars, diskVars, ptrVars, callerVars, lifeVars, syncVars
<1>19. CASE ScanUpEnd
  BY <1>19 DEF TypeOK, ScanUpEnd, PCs, queueVars, diskVars, ptrVars, callerVars, lifeVars, syncVars
<1>20. CASE StoreHead
  BY <1>20 DEF TypeOK, StoreHead, SetHeight, PCs, queueVars, diskVars, callerVars, lifeVars, syncVars
<1>21. CASE RecedeTail
  BY <1>21 DEF TypeOK, RecedeTail, PCs, queueVars, diskVars, ptrVars, callerVars, lifeVars, syncVars
<1>22. CASE ScanDown
  <2>1. boundary' \in 0..MaxHeight
    BY <1>22 DEF TypeOK, ScanDown
  <2> QED
    BY <1>22, <2>1 DEF TypeOK, ScanDown, PCs, queueVars, diskVars, ptrVars, callerVars, lifeVars, syncVars
<1>23. CASE ScanDownEnd
  BY <1>23 DEF TypeOK, ScanDownEnd, PCs, queueVars, diskVars, ptrVars, callerVars, lifeVars, syncVars
<1>24. CASE StoreTail
  BY <1>24 DEF TypeOK, StoreTail, PCs, queueVars, diskVars, callerVars, lifeVars, syncVars
<1>25. ASSUME Finish
       PROVE  /\ pc' \in PCs /\ writesDn' \in BOOLEAN /\ draining' \in BOOLEAN
              /\ cur' \in Batches \cup {Nil}
              /\ base' \in 0..MaxHeight /\ boundary' \in 0..MaxHeight
  <2>1. pc' \in PCs
    BY <1>25 DEF Finish, PCs
  <2>2. writesDn' \in BOOLEAN /\ draining' \in BOOLEAN
    BY <1>25 DEF Finish
  <2> QED BY <1>25, <2>1, <2>2 DEF Finish
<1>26. CASE SkipFlush
  BY <1>26, <1>25 DEF TypeOK, SkipFlush, queueVars, diskVars, ptrVars, syncVars
<1>27. CASE TakePending
  BY <1>27 DEF TypeOK, TakePending, PCs, queueVars, diskVars, ptrVars, callerVars, lifeVars, syncVars
<1>28. CASE LoadKeys
  <2>1. pc' \in PCs
    BY <1>28 DEF LoadKeys, PCs
  <2> QED
    BY <1>28, <2>1 DEF TypeOK, LoadKeys, queueVars, diskVars, ptrVars, callerVars, lifeVars, syncVars
<1>29. CASE Commit
  BY <1>29 DEF TypeOK, Commit, PCs, queueVars, ptrVars, callerVars, lifeVars, syncVars
<1>30. CASE CommitError
  <2>1. left' \in [Events -> Nat]
    BY <1>30, SpendType DEF TypeOK, CommitError
  <2> QED
    BY <1>30, <2>1 DEF TypeOK, CommitError, PCs, queueVars, diskVars, ptrVars, lifeVars, syncVars
<1>31. CASE Reset
  <2>1. batchKeys' \in (0..MaxHeight) \X (0..MaxHeight)
    BY <1>31 DEF Reset
  <2> QED
    BY <1>31, <1>25, <2>1 DEF TypeOK, Reset, queueVars, diskVars, ptrVars, syncVars
<1>32. CASE ScanError
  <2>1. left' \in [Events -> Nat]
    BY <1>32, SpendType DEF TypeOK, ScanError
  <2> QED
    BY <1>32, <2>1 DEF TypeOK, ScanError, PCs, queueVars, diskVars, ptrVars, lifeVars, syncVars
<1>33. CASE UNCHANGED vars
  BY <1>33 DEF TypeOK, vars, queueVars, diskVars, ptrVars, loopVars, lifeVars, syncVars
<1> QED
  BY <1>1, <1>2, <1>3, <1>4, <1>5, <1>6, <1>7, <1>8, <1>9, <1>10, <1>11, <1>12, <1>13,
     <1>14, <1>15, <1>16, <1>17, <1>18, <1>19, <1>20, <1>21, <1>22, <1>23, <1>24,
     <1>26, <1>27, <1>28, <1>29, <1>30, <1>31, <1>32, <1>33
  DEF Next, CallerStep, LoopStep

\* An interval of integers extended by one.
LEMMA IntervalExtend ==
  ASSUME NEW lo \in Int, NEW hi \in Int, lo <= hi
  PROVE  lo <= hi + 1 /\ lo..(hi + 1) = lo..hi \cup {hi + 1}
OBVIOUS

\* Every step keeps CoreInv.  Callers that touch neither the loop, the pointers
\* nor the datastore cannot disturb it; the other actions each follow from what
\* the invariant says about the loop's position.
LEMMA CoreStep == TypeOK /\ CoreInv /\ [Next]_vars => CoreInv'
<1> SUFFICES ASSUME TypeOK, CoreInv, [Next]_vars PROVE CoreInv'
  OBVIOUS
<1> USE StoreAssumption
<1> USE DEF CoreInv, DiskInv, DurableRange, RangeInv, ScanInv, FlushInv, WiderInv,
            HeightInv, Kept, InHand
<1>1. ASSUME UNCHANGED <<pending, diskVars, ptrVars, loopVars, writesDn>> PROVE CoreInv'
  BY <1>1 DEF diskVars, ptrVars, loopVars
<1>2. ASSUME NEW b \in Batches, AppendBatch(b) PROVE CoreInv'
  BY <1>1, <1>2 DEF AppendBatch, lifeVars
<1>3. CASE SyncCall \/ SyncReturn \/ SyncStopped \/ SyncTimeout
  BY <1>1, <1>3 DEF SyncCall, SyncReturn, SyncStopped, SyncTimeout, lifeVars
<1>4. CASE StopSend \/ StopCancel \/ StopTimeout
  BY <1>1, <1>4 DEF StopSend, StopCancel, StopTimeout
<1>5. CASE StopReturn
  BY <1>5 DEF TypeOK, StopReturn, diskVars, loopVars
<1>6. CASE Start
  BY <1>6 DEF TypeOK, Start, Resolves
<1>7. CASE Crash
  BY <1>7 DEF TypeOK, Crash, CrashMemory, diskVars
<1>8. CASE RecvSync
  BY <1>8 DEF TypeOK, RecvSync, diskVars, ptrVars, callerVars, lifeVars
<1>9. CASE RecvWrites
  BY <1>9 DEF TypeOK, RecvWrites, diskVars, ptrVars, callerVars, lifeVars
<1>10. CASE DrainDone
  BY <1>10 DEF TypeOK, DrainDone, diskVars, ptrVars, callerVars, lifeVars
<1>11. CASE EnsureInit
  <2>1. /\ HeadersOf(cur) \subseteq Heights
        /\ cur # Nil => /\ cur[1] \in Heights /\ cur[2] \in Heights /\ cur[1] <= cur[2]
                        /\ HeadersOf(cur) = cur[1]..cur[2]
    BY BatchHeaders DEF TypeOK
  <2>2. RangeInv'
    BY <1>11, <2>1 DEF TypeOK, EnsureInit, Heights, diskVars
  <2>3. WiderInv' /\ HeightInv'
    BY <1>11, <2>1 DEF TypeOK, EnsureInit, Heights, diskVars
  <2> QED
    BY <1>11, <2>2, <2>3 DEF EnsureInit, diskVars, callerVars, lifeVars
<1>12. CASE AppendPending
  <2>1. HeadersOf(cur) = {} \/ cur # Nil
    BY DEF HeadersOf
  <2>2. RangeInv'
    <3>1. /\ pending' = pending \cup HeadersOf(cur) /\ disk' = disk
          /\ head' = head /\ tail' = tail /\ pc = "append" /\ pc' = "advance"
      BY <1>12 DEF AppendPending, diskVars, ptrVars
    <3>2. head # 0 => tail..head \subseteq pending' \cup disk'
      BY <3>1
    <3>3. pending' # {} => head # 0
      BY <2>1, <3>1
    <3> QED BY <3>1, <3>2, <3>3
  <2> QED
    BY <1>12, <2>2 DEF AppendPending, diskVars, ptrVars, callerVars, lifeVars
<1>13. CASE AdvanceHead
  BY <1>13 DEF TypeOK, AdvanceHead, diskVars, ptrVars, callerVars, lifeVars
<1>14. CASE ScanUp
  <2>1. /\ UNCHANGED <<pc, pending, disk, head, base>>
        /\ boundary' = boundary + 1
        /\ pc = "scanUp" /\ boundary + 1 \in Kept
    BY <1>14 DEF ScanUp, HasHeaderAt, diskVars, ptrVars
  <2>2. head \in Int /\ boundary \in Int /\ head # 0 /\ base = head
        /\ head <= boundary /\ head..boundary \subseteq Kept
    BY <2>1 DEF TypeOK
  <2>3. head <= boundary + 1 /\ head..(boundary + 1) \subseteq Kept
    BY <2>1, <2>2, IntervalExtend
  <2>4. ScanInv'
    BY <2>1, <2>2, <2>3
  <2> QED
    BY <1>14, <2>4 DEF ScanUp, diskVars, ptrVars, callerVars, lifeVars
<1>15. CASE ScanUpEnd
  BY <1>15 DEF TypeOK, ScanUpEnd, diskVars, ptrVars, callerVars, lifeVars
<1>16. CASE StoreHead
  BY <1>16 DEF TypeOK, StoreHead, SetHeight, diskVars, callerVars, lifeVars
<1>17. CASE RecedeTail
  BY <1>17 DEF TypeOK, RecedeTail, diskVars, ptrVars, callerVars, lifeVars
<1>18. CASE ScanDown
  BY <1>18 DEF TypeOK, ScanDown, HasHeaderAt, diskVars, ptrVars, callerVars, lifeVars
<1>19. CASE ScanDownEnd
  BY <1>19 DEF TypeOK, ScanDownEnd, diskVars, ptrVars, callerVars, lifeVars
<1>20. CASE StoreTail
  BY <1>20 DEF TypeOK, StoreTail, diskVars, callerVars, lifeVars
<1>21. CASE SkipFlush
  BY <1>21 DEF TypeOK, SkipFlush, Finish, diskVars, ptrVars
<1>22. CASE TakePending
  BY <1>22 DEF TypeOK, TakePending, diskVars, ptrVars, callerVars, lifeVars
<1>23. CASE LoadKeys
  BY <1>23 DEF TypeOK, LoadKeys, diskVars, ptrVars, callerVars, lifeVars
<1>24. CASE Commit
  BY <1>24 DEF TypeOK, Commit, ptrVars, callerVars, lifeVars
<1>25. CASE CommitError
  BY <1>25 DEF TypeOK, CommitError, diskVars, ptrVars, lifeVars
<1>26. CASE Reset
  <2>1. /\ pending \subseteq disk /\ pending' = {} /\ UNCHANGED <<diskVars, ptrVars>>
        /\ pc = "reset" /\ pc' \in {"off", "drain", "idle"}
    BY <1>26 DEF Reset, Finish
  <2>2. ~writesDn
    BY <2>1
  <2>3. writesDn' => pc' = "off"
    BY <1>26, <2>2 DEF Reset, Finish
  <2> QED
    BY <2>1, <2>3, SMT DEF TypeOK, diskVars, ptrVars
<1>27. CASE ScanError
  BY <1>27 DEF TypeOK, ScanError, diskVars, ptrVars, lifeVars
<1>28. CASE UNCHANGED vars
  BY <1>1, <1>28 DEF vars, lifeVars
<1> QED
  BY <1>2, <1>3, <1>4, <1>5, <1>6, <1>7, <1>8, <1>9, <1>10, <1>11, <1>12, <1>13, <1>14,
     <1>15, <1>16, <1>17, <1>18, <1>19, <1>20, <1>21, <1>22, <1>23, <1>24, <1>25, <1>26,
     <1>27, <1>28
  DEF Next, CallerStep, LoopStep

-----------------------------------------------------------------------------
\* The queue of batches and the headers in it.

\* Enqueueing a batch adds its headers to the queued ones.
LEMMA QueuedAppend ==
  ASSUME writes \in Seq(Batches \cup {Nil}), NEW b \in Batches \cup {Nil},
         writes' = Append(writes, b)
  PROVE  Queued' = Queued \cup HeadersOf(b)
<1>1. /\ Len(writes') = Len(writes) + 1 /\ Len(writes) \in Nat
      /\ \A i \in 1..Len(writes) : writes'[i] = writes[i]
      /\ writes'[Len(writes) + 1] = b
  OBVIOUS
<1>2. 1..Len(writes') = 1..Len(writes) \cup {Len(writes) + 1}
  BY <1>1
<1>3. ASSUME NEW h, h \in Queued' PROVE h \in Queued \cup HeadersOf(b)
  <2>1. PICK i \in 1..Len(writes') : h \in HeadersOf(writes'[i])
    BY <1>3 DEF Queued
  <2> QED BY <1>1, <1>2, <2>1 DEF Queued
<1>4. ASSUME NEW h, h \in Queued PROVE h \in Queued'
  <2>1. PICK i \in 1..Len(writes) : h \in HeadersOf(writes[i])
    BY <1>4 DEF Queued
  <2>2. i \in 1..Len(writes') /\ h \in HeadersOf(writes'[i])
    BY <1>1, <1>2, <2>1
  <2> QED BY <2>2 DEF Queued
<1>5. HeadersOf(b) \subseteq Queued'
  <2>1. Len(writes) + 1 \in 1..Len(writes')
    BY <1>1, <1>2
  <2> QED BY <1>1, <2>1 DEF Queued
<1> QED BY <1>3, <1>4, <1>5

\* Receiving a batch takes no other batch's headers out of the queue.
LEMMA QueuedReceive ==
  ASSUME writes \in Seq(Batches \cup {Nil}), writes # <<>>, writes' = Tail(writes)
  PROVE  Queued \subseteq Queued' \cup HeadersOf(Head(writes))
<1> SUFFICES ASSUME NEW h, h \in Queued PROVE h \in Queued' \cup HeadersOf(Head(writes))
  OBVIOUS
<1>1. PICK i \in 1..Len(writes) : h \in HeadersOf(writes[i])
  BY DEF Queued
<1>2. /\ Len(writes) \in Nat /\ Len(writes') = Len(writes) - 1 /\ Head(writes) = writes[1]
      /\ \A j \in 1..(Len(writes) - 1) : writes'[j] = writes[j + 1]
  OBVIOUS
<1>3. CASE i = 1
  BY <1>1, <1>2, <1>3
<1>4. CASE i # 1
  <2>1. i - 1 \in 1..Len(writes') /\ writes'[i - 1] = writes[i]
    BY <1>1, <1>2, <1>4
  <2> QED BY <1>1, <2>1 DEF Queued
<1> QED BY <1>3, <1>4

\* An empty queue holds nothing.
LEMMA QueuedEmpty == writes = <<>> => Queued = {}
BY DEF Queued

\* Every step keeps SyncInv.
LEMMA SyncStep == TypeOK /\ CoreInv /\ SyncInv /\ [Next]_vars => SyncInv'
<1> SUFFICES ASSUME TypeOK, CoreInv, SyncInv, [Next]_vars PROVE SyncInv'
  OBVIOUS
<1> USE DEF SyncInv, NothingDropped, SyncBarrier
<1>0. writes' = writes => Queued' = Queued
  BY DEF Queued
<1>1. ASSUME NEW b \in Batches, AppendBatch(b) PROVE SyncInv'
  <2>1. Queued' = Queued \cup HeadersOf(b)
    BY <1>1, QueuedAppend DEF AppendBatch, TypeOK
  <2> QED
    BY <1>1, <2>1 DEF AppendBatch, InHand, diskVars, loopVars, syncVars
<1>2. CASE SyncCall \/ SyncReturn \/ SyncStopped \/ SyncTimeout
  BY <1>0, <1>2 DEF SyncCall, SyncReturn, SyncStopped, SyncTimeout, InHand,
     queueVars, diskVars, loopVars
<1>3. CASE StopSend
  <2>1. Queued \subseteq Queued'
    BY <1>3, QueuedAppend DEF StopSend, TypeOK
  <2> QED
    BY <1>3, <2>1 DEF StopSend, InHand, diskVars, loopVars, syncVars
<1>4. CASE StopCancel \/ StopReturn \/ StopTimeout
  BY <1>0, <1>4 DEF StopCancel, StopReturn, StopTimeout, InHand, queueVars, diskVars,
     loopVars, syncVars
<1>5. CASE Start
  <2>1. pending = {} /\ InHand = {} /\ InHand' = {}
    BY <1>5 DEF Start, CoreInv, FlushInv, InHand
  <2> QED
    BY <1>0, <1>5, <2>1 DEF Start, queueVars
<1>6. CASE Crash
  BY <1>6 DEF Crash, CrashMemory
<1>7. CASE RecvSync
  BY <1>0, <1>7 DEF RecvSync, InHand, queueVars, diskVars
<1>8. CASE RecvWrites
  <2>1. Queued \subseteq Queued' \cup HeadersOf(Head(writes))
    BY <1>8, QueuedReceive DEF RecvWrites, TypeOK
  <2>2. InHand = {} /\ InHand' = HeadersOf(Head(writes))
    BY <1>8 DEF RecvWrites, InHand
  <2> QED
    BY <1>8, <2>1, <2>2 DEF RecvWrites, diskVars, syncVars
<1>9. CASE DrainDone
  <2>1. InHand = {} /\ InHand' = {} /\ Queued = {}
    BY <1>9, QueuedEmpty DEF DrainDone, InHand
  <2> QED
    BY <1>0, <1>9, <2>1 DEF DrainDone, queueVars, diskVars
<1>10. CASE EnsureInit
  BY <1>0, <1>10 DEF EnsureInit, InHand, queueVars, diskVars, syncVars
<1>11. CASE AppendPending
  BY <1>0, <1>11 DEF AppendPending, InHand, queueVars, diskVars, syncVars
<1>12. CASE AdvanceHead \/ ScanUp \/ ScanUpEnd \/ StoreHead
  BY <1>0, <1>12 DEF AdvanceHead, ScanUp, ScanUpEnd, StoreHead, InHand,
     queueVars, diskVars, syncVars
<1>13. CASE RecedeTail \/ ScanDown \/ ScanDownEnd \/ StoreTail \/ ScanError
  BY <1>0, <1>13 DEF RecedeTail, ScanDown, ScanDownEnd, StoreTail, ScanError, InHand,
     queueVars, diskVars, syncVars
<1>14. CASE SkipFlush
  BY <1>0, <1>14 DEF SkipFlush, Finish, InHand, queueVars, diskVars, syncVars
<1>15. CASE TakePending \/ LoadKeys \/ CommitError
  BY <1>0, <1>15 DEF TakePending, LoadKeys, CommitError, InHand,
     queueVars, diskVars, syncVars
<1>16. CASE Commit
  BY <1>0, <1>16 DEF Commit, InHand, queueVars, syncVars
<1>17. CASE Reset
  <2>1. pending \subseteq disk
    BY <1>17 DEF Reset, CoreInv, FlushInv
  <2> QED
    BY <1>0, <1>17, <2>1 DEF Reset, Finish, InHand, queueVars, diskVars, syncVars
<1>18. CASE UNCHANGED vars
  BY <1>0, <1>18 DEF vars, InHand, queueVars, diskVars, loopVars, syncVars
<1> QED
  BY <1>1, <1>2, <1>3, <1>4, <1>5, <1>6, <1>7, <1>8, <1>9, <1>10, <1>11, <1>12, <1>13,
     <1>14, <1>15, <1>16, <1>17, <1>18
  DEF Next, CallerStep, LoopStep

-----------------------------------------------------------------------------
\* The theorems.

\* The initial state satisfies the inductive invariant.
LEMMA InitIInv == Init => IInv
<1> SUFFICES ASSUME Init PROVE IInv
  OBVIOUS
<1>1. TypeOK
  <2>1. /\ head \in 0..MaxHeight /\ tail \in 0..MaxHeight /\ subHeight \in 0..MaxHeight
        /\ base \in 0..MaxHeight /\ boundary \in 0..MaxHeight
        /\ headKey \in 0..MaxHeight /\ tailKey \in 0..MaxHeight
        /\ batchKeys \in (0..MaxHeight) \X (0..MaxHeight)
    BY StoreAssumption DEF Init, NewStore
  <2>2. /\ pending \subseteq Heights /\ disk \subseteq Heights /\ index \subseteq Heights
        /\ toFlush \subseteq Heights /\ accepted \subseteq Heights /\ syncSeen \subseteq Heights
        /\ cur \in Batches \cup {Nil} /\ pc \in PCs
    BY DEF Init, NewStore, PCs
  <2>3. /\ writes \in Seq(Batches \cup {Nil}) /\ left \in [Events -> Nat]
    BY StoreAssumption DEF Init, NewStore
  <2>4. /\ draining \in BOOLEAN /\ ctxDone \in BOOLEAN /\ writesDn \in BOOLEAN
        /\ stop \in {"none", "cancel", "wait"}
        /\ sync \in {"none", "send", "wait", "ok", "stopped"}
    BY DEF Init, NewStore
  <2> QED BY <2>1, <2>2, <2>3, <2>4 DEF TypeOK
<1>2. CoreInv
  BY DEF Init, NewStore, CoreInv, DiskInv, DurableRange, RangeInv, ScanInv, FlushInv, WiderInv, HeightInv
<1>3. SyncInv
  BY DEF Init, NewStore, SyncInv, NothingDropped, SyncBarrier
<1> QED BY <1>1, <1>2, <1>3 DEF IInv

\* Every state the write path reaches, whatever the order of appends, syncs,
\* stops, starts, flush retries and crashes, satisfies the inductive invariant.
THEOREM Invariance == Spec => []IInv
<1>1. IInv /\ [Next]_vars => IInv'
  BY TypeStep, CoreStep, SyncStep DEF IInv
<1> QED BY InitIInv, <1>1, PTL DEF Spec

\* The variables of the write path keep their types.
THEOREM TypeCorrect == Spec => []TypeOK
<1>1. IInv => TypeOK
  BY DEF IInv
<1> QED BY <1>1, Invariance, PTL

\* Head and tail always delimit headers every reader finds: there is no gap
\* between them, in any store, with any batches in any order.
THEOREM Contiguous == Spec => []ContiguousRange
<1>1. IInv => ContiguousRange
  BY DEF IInv, CoreInv, RangeInv, DiskInv, Kept, Stored, ContiguousRange
<1> QED BY <1>1, Invariance, PTL

\* A crash at any moment leaves keys that delimit a gapless persisted range.
THEOREM Durable == Spec => []DurableRange
<1>1. IInv => DurableRange
  BY DEF IInv, CoreInv
<1> QED BY <1>1, Invariance, PTL

\* No accepted header is lost between the queue and the datastore.
THEOREM Delivery == Spec => []NothingDropped
<1>1. IInv => NothingDropped
  BY DEF IInv, SyncInv
<1> QED BY <1>1, Invariance, PTL

\* A completed Stop leaves nothing it had taken from the queue outside the datastore.
THEOREM StopDurability == Spec => []StopIsDurable
<1>1. IInv => StopIsDurable
  BY DEF IInv, SyncInv, NothingDropped, CoreInv, FlushInv, InHand, StopIsDurable
<1> QED BY <1>1, Invariance, PTL

\* A successful Sync is a barrier for everything accepted before it was called.
THEOREM Barrier == Spec => []SyncBarrier
<1>1. IInv => SyncBarrier
  BY DEF IInv, SyncInv
<1> QED BY <1>1, Invariance, PTL

\* flush never panics on a nil head or tail.
THEOREM FlushSafety == Spec => []FlushHasPointers
<1>1. IInv => FlushHasPointers
  BY DEF IInv, CoreInv, FlushInv, FlushHasPointers
<1> QED BY <1>1, Invariance, PTL

\* Height() is the height of the head, after stops, crashes and restarts too.
THEOREM HeightReport == Spec => []HeightIsHead
<1>1. IInv => HeightIsHead
  BY DEF IInv, CoreInv, HeightInv, HeightIsHead
<1> QED BY <1>1, Invariance, PTL

\* Over crashes, restarts and retried flushes the persisted range only grows.
THEOREM Growth == Spec => PersistedRangeGrows
<1> DEFINE Grows == headKey # 0 => headKey' >= headKey /\ tailKey' # 0 /\ tailKey' <= tailKey
<1>1. ASSUME IInv, [Next]_vars PROVE [Grows]_vars
  <2> USE <1>1
  <2>1. ASSUME UNCHANGED <<headKey, tailKey>> PROVE Grows
    BY <2>1 DEF IInv, TypeOK, CoreInv, DurableRange
  <2>2. CASE Start
    BY <2>2 DEF Start, Resolves, IInv, TypeOK, CoreInv, DurableRange
  <2>3. CASE Commit
    BY <2>3 DEF Commit, IInv, TypeOK, CoreInv, FlushInv, RangeInv, WiderInv
  <2>4. CASE Next /\ ~Start /\ ~Commit
    <3>1. UNCHANGED <<headKey, tailKey>>
      BY <2>4 DEF Next, CallerStep, LoopStep, AppendBatch, SyncCall, SyncReturn,
         SyncStopped, SyncTimeout, StopSend, StopCancel, StopReturn, StopTimeout, Crash,
         RecvSync, RecvWrites, DrainDone, EnsureInit, AppendPending, AdvanceHead, ScanUp,
         ScanUpEnd, StoreHead, RecedeTail, ScanDown, ScanDownEnd, StoreTail, ScanError, SkipFlush,
         TakePending, LoadKeys, CommitError, Reset, diskVars
    <3> QED BY <2>1, <3>1
  <2> QED BY <2>2, <2>3, <2>4
<1> QED BY <1>1, Invariance, PTL DEF Spec, PersistedRangeGrows

\* While the loop runs, appends in any order only extend the range of headers.
THEOREM Extension == Spec => PointersOnlyExtend
<1> DEFINE Extends == (pc # "off" /\ pc' # "off" /\ head # 0) => head' >= head /\ tail' <= tail
<1>1. ASSUME IInv, [Next]_vars PROVE [Extends]_vars
  <2> USE <1>1
  <2>1. ASSUME UNCHANGED <<head, tail>> PROVE Extends
    BY <2>1 DEF IInv, TypeOK
  <2>2. CASE Start \/ Crash
    BY <2>2 DEF Start, Crash, CrashMemory
  <2>3. CASE StopReturn
    BY <2>3 DEF StopReturn, IInv, CoreInv, FlushInv
  <2>4. CASE EnsureInit
    BY <2>4 DEF EnsureInit, IInv, TypeOK, CoreInv, RangeInv
  <2>5. CASE StoreHead \/ StoreTail
    BY <2>5 DEF StoreHead, StoreTail, IInv, TypeOK, CoreInv, ScanInv
  <2>6. CASE /\ Next /\ ~Start /\ ~Crash /\ ~StopReturn /\ ~EnsureInit
             /\ ~StoreHead /\ ~StoreTail
    <3>1. UNCHANGED <<head, tail>>
      BY <2>6 DEF Next, CallerStep, LoopStep, AppendBatch, SyncCall, SyncReturn,
         SyncStopped, SyncTimeout, StopSend, StopCancel, StopTimeout, RecvSync, RecvWrites,
         DrainDone, AppendPending, AdvanceHead, ScanUp, ScanUpEnd, RecedeTail, ScanDown,
         ScanDownEnd, ScanError, SkipFlush, TakePending, LoadKeys, Commit, CommitError, Reset, ptrVars
    <3> QED BY <2>1, <3>1
  <2> QED BY <2>2, <2>3, <2>4, <2>5, <2>6
<1> QED BY <1>1, Invariance, PTL DEF Spec, PointersOnlyExtend

-----------------------------------------------------------------------------
\* Store implements Chain.

\* What readers see of the steps that only one goroutine notices.
LEMMA HiddenStep ==
  ASSUME IInv,
         \/ \E b \in Batches : AppendBatch(b)
         \/ SyncCall \/ SyncReturn \/ SyncStopped \/ SyncTimeout
         \/ StopSend \/ StopCancel \/ StopTimeout
         \/ RecvSync \/ DrainDone \/ AdvanceHead \/ ScanUp \/ ScanUpEnd \/ RecedeTail
         \/ ScanDown \/ ScanDownEnd \/ ScanError \/ SkipFlush \/ TakePending \/ LoadKeys
         \/ CommitError
  PROVE  UNCHANGED Abstract!chainVars
<1>1. UNCHANGED <<head, tail, pending, disk, index, headKey, tailKey>>
  BY DEF AppendBatch, SyncCall, SyncReturn, SyncStopped, SyncTimeout, StopSend, StopCancel,
     StopTimeout, RecvSync, DrainDone, AdvanceHead, ScanUp, ScanUpEnd, RecedeTail, ScanDown,
     ScanDownEnd, ScanError, SkipFlush, TakePending, LoadKeys, CommitError, ptrVars, diskVars
<1>2. (pc = "off") <=> (pc' = "off")
  BY DEF AppendBatch, SyncCall, SyncReturn, SyncStopped, SyncTimeout, StopSend, StopCancel,
     StopTimeout, RecvSync, DrainDone, AdvanceHead, ScanUp, ScanUpEnd, RecedeTail, ScanDown,
     ScanDownEnd, ScanError, SkipFlush, TakePending, LoadKeys, CommitError, loopVars, Finish
<1>3. InHand' = InHand
  <2>1. CASE UNCHANGED <<pc, cur>>
    BY <2>1 DEF InHand
  <2>2. CASE pc \notin {"ensureInit", "append"} /\ pc' \notin {"ensureInit", "append"}
    BY <2>2 DEF InHand
  <2> QED
    BY <2>1, <2>2 DEF AppendBatch, SyncCall, SyncReturn, SyncStopped, SyncTimeout, StopSend,
       StopCancel, StopTimeout, RecvSync, DrainDone, AdvanceHead, ScanUp, ScanUpEnd, RecedeTail,
       ScanDown, ScanDownEnd, ScanError, SkipFlush, TakePending, LoadKeys, CommitError, loopVars,
       Finish
<1> QED
  BY <1>1, <1>2, <1>3 DEF Abstract!chainVars, Stored

\* Every step of Store is a step of Chain or invisible to its readers.
LEMMA RefinementStep ==
  ASSUME IInv, IInv', [Next]_vars
  PROVE  [Abstract!Next]_(Abstract!chainVars)
<1> USE DEF IInv, CoreInv
<1>1. CASE RecvWrites
  <2>1. InHand = {} /\ InHand' \subseteq Heights
    BY <1>1, BatchHeaders DEF RecvWrites, InHand, TypeOK
  <2> QED
    BY <1>1, <2>1 DEF RecvWrites, Abstract!Next, Abstract!Receive, Stored, TypeOK,
       diskVars, ptrVars
<1>2. CASE EnsureInit
  <2>1. InHand' = InHand
    BY <1>2 DEF EnsureInit, InHand
  <2>2. CASE cur = Nil \/ head # 0
    BY <1>2, <2>1, <2>2 DEF EnsureInit, Abstract!chainVars, Stored, diskVars, RangeInv
  <2>3. CASE cur # Nil /\ head = 0
    <3>1. /\ cur[1] \in Heights /\ cur[2] \in Heights /\ cur[1] <= cur[2]
          /\ cur[1]..cur[2] \subseteq InHand
      BY <1>2, <2>3, BatchHeaders DEF EnsureInit, InHand, TypeOK
    <3>2. head = 0 /\ tail = 0 /\ head' = cur[2] /\ tail' = cur[1]
      BY <1>2, <2>3 DEF EnsureInit, RangeInv
    <3> QED
      BY <1>2, <2>1, <3>1, <3>2 DEF EnsureInit, Abstract!Next, Abstract!Extend, Abstract!Spans,
         Abstract!Span, Abstract!NoRange, Stored, diskVars, Heights
  <2> QED BY <2>2, <2>3
<1>3. CASE AppendPending
  BY <1>3 DEF AppendPending, Abstract!chainVars, Stored, InHand, diskVars, ptrVars
<1>4. CASE StoreHead
  <2>1. /\ tail \in Nat /\ head \in Nat /\ boundary \in Nat /\ head # 0 /\ tail # 0
        /\ tail <= head /\ head <= boundary
    BY <1>4 DEF StoreHead, TypeOK, ScanInv, RangeInv
  <2>2. tail..boundary \subseteq Stored
    BY <1>4, <2>1 DEF StoreHead, RangeInv, ScanInv, DiskInv, Kept, Stored
  <2>3. head' = boundary /\ tail' = tail /\ pc # "off" /\ pc' # "off"
        /\ Stored' = Stored /\ InHand' = InHand
        /\ UNCHANGED <<disk, index, headKey, tailKey>>
    BY <1>4 DEF StoreHead, Stored, InHand, diskVars
  <2> QED
    BY <2>1, <2>2, <2>3 DEF Abstract!Next, Abstract!Extend, Abstract!Spans, Abstract!Span,
       Abstract!NoRange
<1>5. CASE StoreTail
  <2>1. /\ tail \in Nat /\ head \in Nat /\ boundary \in Nat /\ head # 0 /\ tail # 0
        /\ tail <= head /\ 1 <= boundary /\ boundary <= tail
    BY <1>5 DEF StoreTail, TypeOK, ScanInv, RangeInv
  <2>2. boundary..head \subseteq Stored
    BY <1>5, <2>1 DEF StoreTail, RangeInv, ScanInv, DiskInv, Kept, Stored
  <2>3. tail' = boundary /\ head' = head /\ pc # "off" /\ pc' # "off"
        /\ Stored' = Stored /\ InHand' = InHand
        /\ UNCHANGED <<disk, index, headKey, tailKey>>
    BY <1>5 DEF StoreTail, Stored, InHand, diskVars
  <2> QED
    BY <2>1, <2>2, <2>3 DEF Abstract!Next, Abstract!Extend, Abstract!Spans, Abstract!Span,
       Abstract!NoRange
<1>6. CASE Commit
  <2>1. /\ headKey' = head /\ tailKey' = tail /\ UNCHANGED <<head, tail, pending>>
        /\ disk' = disk \cup pending /\ index' = index \cup pending
        /\ pc # "off" /\ pc' # "off" /\ InHand' = InHand
    BY <1>6 DEF Commit, FlushInv, InHand, ptrVars
  <2>2. /\ head # 0 /\ tail # 0 /\ head \in Nat /\ tail \in Nat /\ tail <= head
        /\ headKey \in Nat /\ tailKey \in Nat
    BY <1>6 DEF Commit, FlushInv, RangeInv, TypeOK
  <2>3. tail..head \subseteq disk' \cap index'
    BY <2>1, <2>2 DEF DurableRange
  <2>4. headKey # 0 => headKey <= head /\ tail <= tailKey
    BY <2>1 DEF WiderInv
  <2>5. headKey = 0 => tailKey = 0
    BY DEF DurableRange
  <2>6. disk = index
    BY DEF DiskInv
  <2> QED
    BY <2>1, <2>2, <2>3, <2>4, <2>5, <2>6 DEF Abstract!Next, Abstract!Save, Abstract!Spans,
       Abstract!Span, Abstract!NoRange, Stored
<1>7. CASE Reset
  <2>1. /\ UNCHANGED <<head, tail, disk, index, headKey, tailKey>> /\ pending' = {}
        /\ pc # "off" /\ InHand' = {} /\ InHand = {}
    BY <1>7 DEF Reset, Finish, InHand, ptrVars, diskVars
  <2>2. Stored' = Stored /\ Stored = disk \cap index
    BY <1>7, <2>1 DEF Reset, FlushInv, DiskInv, Stored
  <2> QED
    BY <2>1, <2>2 DEF Abstract!Next, Abstract!Halt, Abstract!chainVars
<1>8. CASE StopReturn
  BY <1>8 DEF StopReturn, FlushInv, Abstract!Next, Abstract!Forget, Abstract!NoRange, Stored,
     InHand, diskVars, loopVars
<1>9. CASE Start
  <2>1. <<tail', head'>> = <<tailKey, headKey>> /\ headKey' = headKey /\ tailKey' = tailKey
    BY <1>9 DEF Start, Resolves, DurableRange, HeightInv, RangeInv, TypeOK
  <2>2. UNCHANGED <<pending, disk, index>> /\ InHand' = InHand /\ pc = "off" /\ pc' # "off"
    BY <1>9 DEF Start, InHand
  <2> QED
    BY <2>1, <2>2 DEF Abstract!Next, Abstract!Open, Stored
<1>10. CASE Crash
  BY <1>10 DEF Crash, CrashMemory, Abstract!Next, Abstract!Crash, Abstract!NoRange, Stored,
     InHand, diskVars
<1>11. CASE UNCHANGED vars
  BY <1>11 DEF vars, queueVars, diskVars, ptrVars, loopVars, Abstract!chainVars, Stored, InHand
<1> QED
  BY HiddenStep, <1>1, <1>2, <1>3, <1>4, <1>5, <1>6, <1>7, <1>8, <1>9, <1>10, <1>11
     DEF Next, CallerStep, LoopStep

\* The write path implements what header.Store promises, for every instance:
\* a readable range that only grows while the store runs and a persisted part
\* of it that survives stops and crashes and never shrinks.
THEOREM Refinement == Spec => ImplementsChain
<1>1. Init => Abstract!Init
  BY DEF Init, NewStore, Abstract!Init, Abstract!NoRange, Stored, InHand
<1>2. IInv /\ IInv' /\ [Next]_vars => [Abstract!Next]_(Abstract!chainVars)
  BY RefinementStep
<1> QED
  BY <1>1, <1>2, Invariance, PTL DEF Spec, ImplementsChain, Abstract!Spec

-----------------------------------------------------------------------------
\* Stop signals, and how far the pointers reach.

\* No budget grows.
BudgetInv == \A e \in Events : left[e] <= Budget[e]

\* The loop handles the nil batch of a Stop.
Handling == pc \notin {"off", "idle", "drain"} /\ cur = Nil

NoNil == \A i \in 1..Len(writes) : writes[i] # Nil
OneNil == \A i, j \in 1..Len(writes) : writes[i] = Nil /\ writes[j] = Nil => i = j

\* Until a call times out there is one nil batch per Stop: none before the call,
\* at most one during it, and none in the queue once the loop has got it.
StopInv ==
    left["timeout"] = Budget["timeout"] =>
        /\ stop = "none" => ~Handling /\ NoNil
        /\ OneNil
        /\ Handling \/ writesDn => NoNil

\* Nothing is stored next to a head or a tail.
EndsAbove(h) == h # 0 => h + 1 \notin Kept
EndsBelow(t) == t # 0 => t - 1 \notin Kept

\* Without stops and failing reads or commits each scan reaches the end of what
\* is stored, and so do the keys of every commit, from which a restart begins.
ReachInv ==
    (left["stop"] = Budget["stop"] /\ left["ioError"] = Budget["ioError"]) =>
        /\ stop = "none" /\ ~ctxDone
        /\ headKey # 0 => headKey + 1 \notin disk /\ tailKey - 1 \notin disk
        /\ pc \in {"idle", "drain", "ensureInit", "append", "recede", "scanDown", "storeTail",
                   "check", "load", "commit", "reset"} => EndsAbove(head)
        /\ pc = "storeHead" => EndsAbove(boundary)
        /\ pc \in {"idle", "drain", "ensureInit", "append", "check", "load", "commit", "reset"}
              => EndsBelow(tail)
        /\ pc = "storeTail" => EndsBelow(boundary)

\* An event lowers its own budget and no other.
LEMMA SpendBudget ==
  ASSUME NEW e \in Events, left \in [Events -> Nat], Spend(e)
  PROVE  /\ left[e] > 0 /\ left'[e] = left[e] - 1
         /\ \A f \in Events : f # e => left'[f] = left[f]
         /\ \A f \in Events : left'[f] <= left[f]
BY DEF Spend

\* What each step does to the budgets.
LEMMA BudgetStep ==
  ASSUME TypeOK, BudgetInv, [Next]_vars
  PROVE  /\ BudgetInv'
         /\ \A e \in Events : left[e] \in Nat /\ left'[e] \in Nat /\ left'[e] <= left[e]
         /\ StopSend => left'["stop"] < left["stop"]
         /\ ScanError => left'["ioError"] < left["ioError"]
         /\ CommitError => left'["ioError"] < left["ioError"]
         /\ SyncTimeout => left'["timeout"] < left["timeout"]
         /\ StopTimeout => left'["timeout"] < left["timeout"]
<1> USE StoreAssumption, EventNames
<1>1. left \in [Events -> Nat]
  BY DEF TypeOK
<1>2. left' \in [Events -> Nat]
  BY TypeStep DEF TypeOK
<1>3. left' = left \/ \E e \in Events : Spend(e)
  BY DEF Next, CallerStep, LoopStep, AppendBatch, SyncCall, SyncReturn, SyncStopped, SyncTimeout,
     StopSend, StopCancel, StopReturn, StopTimeout, Start, Crash, RecvSync, RecvWrites, DrainDone,
     EnsureInit, AppendPending, AdvanceHead, ScanUp, ScanUpEnd, StoreHead, RecedeTail, ScanDown,
     ScanDownEnd, StoreTail, ScanError, SkipFlush, TakePending, LoadKeys, Commit, CommitError,
     Reset, callerVars, vars
<1>4. \A e \in Events : left'[e] <= left[e]
  BY <1>1, <1>3, SpendBudget
<1>5. BudgetInv'
  BY <1>1, <1>2, <1>4 DEF BudgetInv
<1>6. /\ StopSend => left'["stop"] < left["stop"]
      /\ ScanError => left'["ioError"] < left["ioError"]
      /\ CommitError => left'["ioError"] < left["ioError"]
      /\ SyncTimeout => left'["timeout"] < left["timeout"]
      /\ StopTimeout => left'["timeout"] < left["timeout"]
  BY <1>1, SpendBudget DEF StopSend, ScanError, CommitError, SyncTimeout, StopTimeout
<1> QED BY <1>1, <1>2, <1>4, <1>5, <1>6

\* What a send to the queue and a receive do to its nil batches.
LEMMA NilSend ==
  ASSUME TypeOK, NEW b \in Batches \cup {Nil}, writes' = Append(writes, b)
  PROVE  /\ b # Nil /\ NoNil => NoNil'
         /\ b # Nil /\ OneNil => OneNil'
         /\ NoNil => OneNil'
<1>1. /\ writes \in Seq(Batches \cup {Nil}) /\ Len(writes) \in Nat /\ Len(writes') = Len(writes) + 1
      /\ \A i \in 1..Len(writes) : writes'[i] = writes[i]
      /\ writes'[Len(writes) + 1] = b
  BY DEF TypeOK
<1> QED BY <1>1 DEF NoNil, OneNil

\* The loop takes a batch or a stop signal from the queue.
LEMMA NilReceive ==
  ASSUME TypeOK, writes # <<>>, writes' = Tail(writes)
  PROVE  /\ NoNil => NoNil' /\ Head(writes) # Nil
         /\ OneNil => OneNil'
         /\ OneNil /\ Head(writes) = Nil => NoNil'
<1>1. /\ writes \in Seq(Batches \cup {Nil}) /\ Len(writes) \in Nat \ {0}
      /\ Len(writes') = Len(writes) - 1
      /\ \A i \in 1..Len(writes') : writes'[i] = writes[i + 1]
      /\ Head(writes) = writes[1]
  BY DEF TypeOK
<1> QED BY <1>1 DEF NoNil, OneNil

\* Every step keeps StopInv.
LEMMA StopStep == IInv /\ BudgetInv /\ StopInv /\ [Next]_vars => StopInv'
<1> SUFFICES ASSUME IInv, BudgetInv, StopInv, [Next]_vars,
                    left'["timeout"] = Budget["timeout"]
             PROVE  /\ stop' = "none" => ~Handling' /\ NoNil'
                    /\ OneNil'
                    /\ Handling' \/ writesDn' => NoNil'
  BY DEF StopInv
<1> USE StoreAssumption, EventNames
<1>0. /\ TypeOK /\ FlushInv
      /\ stop = "none" => ~Handling /\ NoNil
      /\ OneNil
      /\ Handling \/ writesDn => NoNil
      /\ ~SyncTimeout /\ ~StopTimeout
  <2>1. TypeOK /\ FlushInv
    BY DEF IInv, CoreInv
  <2>2. left["timeout"] = Budget["timeout"] /\ ~SyncTimeout /\ ~StopTimeout
    BY <2>1, BudgetStep DEF BudgetInv
  <2> QED BY <2>1, <2>2 DEF StopInv
<1>1. ASSUME UNCHANGED <<writes, stop, pc, cur, writesDn>>
      PROVE  /\ stop' = "none" => ~Handling' /\ NoNil'
             /\ OneNil'
             /\ Handling' \/ writesDn' => NoNil'
  BY <1>0, <1>1 DEF Handling, NoNil, OneNil
<1>2. ASSUME NEW b \in Batches, AppendBatch(b)
      PROVE  /\ stop' = "none" => ~Handling' /\ NoNil'
             /\ OneNil'
             /\ Handling' \/ writesDn' => NoNil'
  <2>1. b # Nil
    BY DEF Nil, Heights
  <2>2. Handling' = Handling
    BY <1>2 DEF AppendBatch, loopVars, Handling
  <2> QED BY <1>0, <1>2, <2>1, <2>2, NilSend DEF AppendBatch, lifeVars
<1>3. CASE SyncCall \/ SyncReturn \/ SyncStopped
  BY <1>1, <1>3 DEF SyncCall, SyncReturn, SyncStopped, queueVars, loopVars, lifeVars
<1>4. CASE StopSend
  <2>1. Handling' = Handling /\ stop = "none" /\ stop' = "cancel" /\ ~writesDn /\ writesDn' = writesDn
    BY <1>4 DEF StopSend, loopVars, Handling
  <2> QED BY <1>0, <1>4, <2>1, NilSend DEF StopSend
<1>5. CASE StopCancel
  BY <1>0, <1>5 DEF StopCancel, queueVars, loopVars, Handling, NoNil, OneNil
<1>6. CASE StopReturn
  BY <1>0, <1>6 DEF StopReturn, queueVars, loopVars, Handling, NoNil, OneNil, FlushInv
<1>7. CASE Start
  BY <1>0, <1>7 DEF Start, queueVars, Handling, NoNil, OneNil
<1>8. CASE Crash
  BY <1>8 DEF Crash, CrashMemory, Handling, NoNil, OneNil
<1>9. CASE RecvSync \/ DrainDone
  BY <1>0, <1>9 DEF RecvSync, DrainDone, queueVars, callerVars, lifeVars, Handling, NoNil, OneNil
<1>10. CASE RecvWrites
  <2>1. /\ pc \in {"idle", "drain"} /\ ~writesDn /\ writesDn' = writesDn /\ stop' = stop
        /\ (Handling' <=> Head(writes) = Nil)
    BY <1>0, <1>10 DEF RecvWrites, callerVars, lifeVars, Handling, FlushInv
  <2> QED BY <1>0, <1>10, <2>1, NilReceive DEF RecvWrites
<1>11. CASE \/ EnsureInit \/ AppendPending \/ AdvanceHead \/ ScanUp \/ ScanUpEnd \/ StoreHead
            \/ RecedeTail \/ ScanDown \/ ScanDownEnd \/ StoreTail
  <2>1. UNCHANGED <<writes, stop, cur, writesDn>> /\ Handling' = Handling
    BY <1>11 DEF EnsureInit, AppendPending, AdvanceHead, ScanUp, ScanUpEnd, StoreHead, RecedeTail,
       ScanDown, ScanDownEnd, StoreTail, queueVars, callerVars, lifeVars, Handling
  <2> QED BY <1>0, <2>1 DEF NoNil, OneNil
<1>12. CASE ScanError \/ TakePending \/ LoadKeys \/ Commit \/ CommitError
  <2>1. UNCHANGED <<writes, stop, cur, writesDn>> /\ Handling' = Handling
    BY <1>12 DEF ScanError, TakePending, LoadKeys, Commit, CommitError,
       queueVars, callerVars, lifeVars, Handling
  <2> QED BY <1>0, <2>1 DEF NoNil, OneNil
<1>13. CASE SkipFlush \/ Reset
  <2>1. /\ pc \notin {"off", "idle", "drain"} /\ pc' \in {"off", "idle", "drain"}
        /\ writesDn' = (writesDn \/ cur = Nil) /\ UNCHANGED <<writes, stop>>
    BY <1>13 DEF SkipFlush, Reset, Finish, queueVars
  <2> QED BY <1>0, <2>1 DEF Handling, NoNil, OneNil
<1>14. CASE UNCHANGED vars
  BY <1>1, <1>14 DEF vars, queueVars, loopVars, lifeVars
<1> QED
  BY <1>0, <1>2, <1>3, <1>4, <1>5, <1>6, <1>7, <1>8, <1>9, <1>10, <1>11, <1>12, <1>13, <1>14
  DEF Next, CallerStep, LoopStep

\* Every step keeps ReachInv.
LEMMA ReachStep == IInv /\ BudgetInv /\ ReachInv /\ [Next]_vars => ReachInv'
<1> DEFINE Reach ==
      /\ stop = "none" /\ ~ctxDone
      /\ headKey # 0 => headKey + 1 \notin disk /\ tailKey - 1 \notin disk
      /\ pc \in {"idle", "drain", "ensureInit", "append", "recede", "scanDown", "storeTail",
                 "check", "load", "commit", "reset"} => EndsAbove(head)
      /\ pc = "storeHead" => EndsAbove(boundary)
      /\ pc \in {"idle", "drain", "ensureInit", "append", "check", "load", "commit", "reset"}
            => EndsBelow(tail)
      /\ pc = "storeTail" => EndsBelow(boundary)
<1> SUFFICES ASSUME IInv, BudgetInv, ReachInv, [Next]_vars,
                    left'["stop"] = Budget["stop"], left'["ioError"] = Budget["ioError"]
             PROVE  Reach'
  BY DEF ReachInv
<1> USE StoreAssumption, EventNames
<1>0. TypeOK /\ CoreInv /\ Reach /\ ~StopSend /\ ~ScanError /\ ~CommitError
  <2>1. TypeOK /\ CoreInv
    BY DEF IInv
  <2>2. /\ left["stop"] = Budget["stop"] /\ left["ioError"] = Budget["ioError"]
        /\ ~StopSend /\ ~ScanError /\ ~CommitError
    BY <2>1, BudgetStep DEF BudgetInv
  <2> QED BY <2>1, <2>2 DEF ReachInv
<1> USE DEF EndsAbove, EndsBelow, Kept
<1>1. ASSUME UNCHANGED <<pending, diskVars, ptrVars, loopVars, stop, ctxDone>>
      PROVE  Reach'
  BY <1>0, <1>1 DEF diskVars, ptrVars, loopVars
<1>2. ASSUME NEW b \in Batches, AppendBatch(b)
      PROVE  Reach'
  BY <1>1, <1>2 DEF AppendBatch, lifeVars
<1>3. CASE SyncCall \/ SyncReturn \/ SyncStopped \/ SyncTimeout
  BY <1>1, <1>3 DEF SyncCall, SyncReturn, SyncStopped, SyncTimeout, lifeVars
<1>4. CASE StopCancel \/ StopReturn \/ StopTimeout
  BY <1>0, <1>4 DEF StopCancel, StopReturn, StopTimeout
<1>5. CASE Start
  <2>1. /\ UNCHANGED <<pending, disk, stop, headKey, tailKey>> /\ pending = {}
        /\ head' = headKey /\ tail' = tailKey /\ ctxDone' = FALSE /\ pc' = "idle"
    BY <1>0, <1>5 DEF Start, Resolves, CoreInv, DiskInv, DurableRange, FlushInv, HeightInv,
       RangeInv, TypeOK
  <2>2. (headKey = 0) <=> (tailKey = 0)
    BY <1>0 DEF CoreInv, DurableRange
  <2> QED BY <1>0, <2>1, <2>2
<1>6. CASE Crash
  BY <1>0, <1>6 DEF Crash, CrashMemory, diskVars
<1>7. CASE RecvSync \/ DrainDone \/ RecvWrites
  BY <1>0, <1>7 DEF RecvSync, DrainDone, RecvWrites, diskVars, ptrVars, callerVars, lifeVars
<1>8. CASE EnsureInit
  <2>1. CASE head # 0
    <3>1. tail # 0
      BY <1>0, <2>1 DEF CoreInv, RangeInv
    <3> QED BY <1>0, <1>8, <2>1, <3>1 DEF EnsureInit, diskVars, callerVars, lifeVars
  <2>2. CASE head = 0
    <3>1. pending = {} /\ disk = {}
      BY <1>0, <1>8, <2>2 DEF EnsureInit, CoreInv, RangeInv, WiderInv, DiskInv
    <3> QED BY <1>0, <1>8, <3>1 DEF EnsureInit, diskVars, callerVars, lifeVars
  <2> QED BY <2>1, <2>2
<1>9. CASE AppendPending \/ AdvanceHead
  BY <1>0, <1>9 DEF AppendPending, AdvanceHead, diskVars, ptrVars, callerVars, lifeVars, CoreInv,
     RangeInv
<1>10. CASE ScanUp
  BY <1>0, <1>10 DEF ScanUp, diskVars, ptrVars, callerVars, lifeVars
<1>11. CASE ScanUpEnd
  <2>0. /\ index = disk /\ base = head /\ head \in Nat /\ boundary \in Nat
        /\ head # 0 /\ head <= boundary /\ head..boundary \subseteq Kept
    BY <1>0, <1>11 DEF ScanUpEnd, CoreInv, DiskInv, ScanInv, TypeOK
  <2>1. /\ index = disk /\ base = head /\ boundary \in Kept
        /\ boundary + 1 \notin Kept /\ boundary # 0
    BY <1>0, <1>11, <2>0 DEF ScanUpEnd, HasHeaderAt
  <2>2. GetByHeight(boundary)
    BY <2>1 DEF GetByHeight
  <2> QED BY <1>0, <1>11, <2>1, <2>2 DEF ScanUpEnd, diskVars, ptrVars, callerVars, lifeVars
<1>12. CASE StoreHead
  BY <1>0, <1>12 DEF StoreHead, diskVars, callerVars, lifeVars
<1>13. CASE RecedeTail
  <2>1. tail = 0 => head = 0
    BY <1>0 DEF CoreInv, RangeInv
  <2> QED BY <1>0, <1>13, <2>1 DEF RecedeTail, diskVars, ptrVars, callerVars, lifeVars
<1>14. CASE ScanDown
  BY <1>0, <1>14 DEF ScanDown, diskVars, ptrVars, callerVars, lifeVars
<1>15. CASE ScanDownEnd
  <2>1. /\ index = disk /\ base = tail /\ boundary \in Kept /\ boundary \in Nat /\ 1 <= boundary
    BY <1>0, <1>15 DEF ScanDownEnd, CoreInv, DiskInv, ScanInv, TypeOK
  <2>2. 0 \notin Kept
    BY <1>0 DEF TypeOK, Heights
  <2>3. boundary - 1 \notin Kept
    BY <1>0, <1>15, <2>1, <2>2 DEF ScanDownEnd, HasHeaderAt
  <2>4. GetByHeight(boundary)
    BY <2>1 DEF GetByHeight
  <2> QED
    BY <1>0, <1>15, <2>1, <2>3, <2>4 DEF ScanDownEnd, diskVars, ptrVars, callerVars, lifeVars
<1>16. CASE StoreTail
  BY <1>0, <1>16 DEF StoreTail, diskVars, callerVars, lifeVars
<1>17. CASE SkipFlush
  BY <1>0, <1>17 DEF SkipFlush, Finish, diskVars, ptrVars
<1>18. CASE TakePending
  BY <1>0, <1>18 DEF TakePending, diskVars, ptrVars, callerVars, lifeVars
<1>19. CASE LoadKeys
  <2>1. pc = "load" /\ pc' \in {"reset", "panic", "commit"}
    BY <1>19 DEF LoadKeys
  <2> QED BY <1>0, <1>19, <2>1 DEF LoadKeys, diskVars, ptrVars, callerVars, lifeVars
<1>20. CASE Commit
  <2>1. /\ headKey' = head /\ tailKey' = tail /\ disk' = disk \cup pending /\ pending' = pending
        /\ UNCHANGED <<head, tail, stop, ctxDone>> /\ pc = "commit" /\ pc' = "reset"
    BY <1>0, <1>20 DEF Commit, CoreInv, FlushInv, ptrVars, callerVars, lifeVars
  <2>2. head = 0 <=> tail = 0
    BY <1>0 DEF CoreInv, RangeInv
  <2> QED BY <1>0, <2>1, <2>2
<1>21. CASE Reset
  <2>1. pending \subseteq disk
    BY <1>0, <1>21 DEF Reset, CoreInv, FlushInv
  <2> QED BY <1>0, <1>21, <2>1 DEF Reset, Finish, diskVars, ptrVars
<1>22. CASE UNCHANGED vars
  BY <1>1, <1>22 DEF vars, lifeVars
<1> QED
  BY <1>0, <1>2, <1>3, <1>4, <1>5, <1>6, <1>7, <1>8, <1>9, <1>10, <1>11, <1>12, <1>13, <1>14,
     <1>15, <1>16, <1>17, <1>18, <1>19, <1>20, <1>21, <1>22
  DEF Next, CallerStep, LoopStep

\* The invariant that the two last theorems about Store rest on.
LEMMA LifeInvariance == Spec => [](IInv /\ BudgetInv /\ StopInv /\ ReachInv)
<1>1. Init => BudgetInv /\ StopInv /\ ReachInv
  BY StoreAssumption, EventNames DEF Init, NewStore, BudgetInv, StopInv, ReachInv, Handling, NoNil,
     OneNil, EndsAbove, EndsBelow
<1>2. IInv /\ BudgetInv /\ StopInv /\ ReachInv /\ [Next]_vars => (BudgetInv /\ StopInv /\ ReachInv)'
  BY BudgetStep, StopStep, ReachStep DEF IInv
<1> QED BY <1>1, <1>2, Invariance, PTL DEF Spec

\* Each Stop leaves exactly the signal it sent, which the loop has consumed when
\* Stop returns: a restarted store is not ended by the Stop before its Start.
THEOREM NoStopLeftOver == Spec => []NoStrayStop
<1>1. StopInv => NoStrayStop
  BY DEF StopInv, NoStrayStop, NoNil
<1> QED BY <1>1, LifeInvariance, PTL

\* Batches in any order, crashes and restarts included: between batches the head
\* is the highest and the tail the lowest header contiguous with the others.
THEOREM Reach == Spec => []HeadIsHighest
<1>1. IInv /\ ReachInv => HeadIsHighest
  <2> SUFFICES ASSUME IInv, ReachInv, pc \in {"idle", "drain"}, head # 0,
                      left["stop"] = Budget["stop"], left["ioError"] = Budget["ioError"]
               PROVE  head + 1 \notin Stored /\ tail - 1 \notin Stored
    BY DEF HeadIsHighest
  <2>1. tail # 0 /\ Stored \subseteq Kept
    BY DEF IInv, CoreInv, RangeInv, Stored, Kept
  <2> QED BY <2>1 DEF ReachInv, EndsAbove, EndsBelow
<1> QED BY <1>1, LifeInvariance, PTL
=============================================================================
