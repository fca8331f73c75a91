--------------------------- MODULE SyncTailProofs ---------------------------
(***************************************************************************)
(* Proofs about syncStore and the moves of the tail (modules SyncStore and  *)
(* SyncTail), for any number of movers, appenders and readers.              *)
(***************************************************************************)
EXTENDS SyncTail, TLAPS, WellFoundedInduction

\* Where an appender holds the semaphore.
Inside == {"head", "storeHead", "cas", "decide", "empty", "publish"}

\* The height is among those of a batch.
InBatch(h, b) == b[1] <= h /\ h <= b[2]

MoverTypes ==
    /\ config \in Scenarios
    /\ tailMu \in Movers \cup {"free"}
    /\ tpc \in [Movers -> {"idle", "tryLock", "renew", "find", "load", "fetch", "append",
                           "appending", "force", "move", "delete", "sync", "syncing", "moved"}]
    /\ head \in [Movers -> 0..MaxHeight] /\ old \in [Movers -> 0..MaxHeight]
    /\ new \in [Movers -> 0..Width - 1] /\ from \in [Movers -> 0..Width - 1]
    /\ moves \in [Movers -> Nat]
    /\ settled \in 0..MaxHeight

\* What a mover has established where it is.
MoverAt(m) ==
    /\ (tailMu = m) <=> (tpc[m] \notin {"idle", "tryLock"})
    /\ tpc[m] # "idle" => head[m] \in Heights
    /\ tpc[m] \in {"append", "appending", "force"} => new[m] \in Heights
    /\ tpc[m] \in {"move", "moved"} => new[m] <= MaxHeight
    /\ tpc[m] = "delete" => 0 < old[m] /\ old[m] < new[m] /\ new[m] <= MaxHeight
    /\ tpc[m] \in {"sync", "syncing"} => new[m] < old[m] /\ new[m] <= from[m] /\ from[m] <= old[m]
    /\ tpc[m] # "idle" /\ old[m] # 0 => storeTail # 0

MoverInv == \A m \in Movers : MoverAt(m)

\* The wrapped store.
StoreInv ==
    /\ storeHead = 0 <=> storeTail = 0
    /\ storeTail = 0 => stored = {}
    /\ storeTail # 0 => storeTail <= storeHead /\ \A h \in storeTail..storeHead : h \in stored

\* appendSem.
LockInv ==
    /\ \A a \in Appenders :
          /\ a \in sem <=> pc[a] \in Inside
          /\ pc[a] # "done"
          /\ pc[a] # "idle" => batch[a] \in Spans
    /\ \A a, b \in sem : a = b
    /\ \A r \in Readers : pc[r] \notin {"lock", "decide", "empty", "publish"}
    /\ \A m \in Movers : pc[m] # "idle" => tpc[m] \in {"appending", "syncing"}

\* The store or syncStore has a head.
Begun == storeHead # 0 \/ cached # 0

\* The first batch of an empty store, from its Append until it is published.
FirstBatch(a) ==
    /\ a \in Movers /\ tpc[a] = "appending"
    /\ \/ storeHead = 0 /\ queue = <<batch[a]>> /\ cached = 0
       \/ /\ storeTail = batch[a][1] /\ storeHead = batch[a][2]
          /\ queue = <<>> /\ stored = batch[a][1]..batch[a][2] /\ cached <= batch[a][2]

\* What an appender knows where it is ...
HeadAt(a) ==
    /\ pc[a] \in {"lock", "head"} /\ (a \in Movers => tpc[a] = "syncing") => Begun
    /\ pc[a] = "storeHead" => /\ (a \in Movers => tpc[a] = "syncing") => storeHead # 0
                              /\ cached = 0 \/ storeHead # 0
    /\ pc[a] = "decide" => cached # 0 /\ loc[a] = cached
    /\ pc[a] = "empty" => /\ a \in Movers /\ tpc[a] = "appending"
                          /\ loc[a] = 0 /\ storeHead = 0 /\ queue = <<>> /\ cached = 0
    /\ pc[a] = "publish" /\ loc[a] # 0 => /\ cached # 0 /\ loc[a] = cached
                                          /\ advance(a) => batch[a][1] = cached + 1
    /\ pc[a] = "publish" /\ loc[a] = 0 => FirstBatch(a)

\* ... and a mover whose new tail was rejected.
ForceAt(m) ==
    /\ tpc[m] = "force" => Begun
    /\ tpc[m] = "appending" /\ pc[m] = "idle" /\ outcome[m] = "nonAdjacent" => Begun

\* The heads that goroutines have read.
HeadInv ==
    /\ \A p \in Procs : pc[p] = "cas" => loc[p] # 0 /\ loc[p] <= storeHead
    /\ \A a \in Appenders : HeadAt(a)
    /\ \A m \in Movers : ForceAt(m)
    /\ queue # <<>> => Begun \/ \E a \in Appenders : pc[a] = "publish" /\ loc[a] = 0

\* From the bottom of the chain on the store has accepted what is published, and what is about
\* to be.
SkipInv ==
    /\ cached # 0 => Bottom # 0 /\ \A h \in Heights : Bottom <= h /\ h <= cached => h \in Handed
    /\ \A a \in Appenders :
          pc[a] = "publish" =>
              Bottom # 0 /\ \A h \in Heights : Bottom <= h /\ InBatch(h, batch[a]) => h \in Handed

Inv == SyncStoreTypeOK /\ MoverTypes /\ MoverInv /\ StoreInv /\ LockInv /\ HeadInv /\ SkipInv

-----------------------------------------------------------------------------
\* A set of natural numbers that has an element has a smallest one.
LEMMA Smallest ==
    ASSUME NEW T \in SUBSET Nat, T # {}
    PROVE  \E n \in T : \A m \in T : n <= m
<1>1. PICK n \in T : \A m \in T : ~(<<m, n>> \in OpToRel(<, Nat))
  BY NatLessThanWellFounded, WFMin
<1>2. \A m \in T : ~(m < n)
  BY <1>1 DEF OpToRel
<1> QED
  BY <1>2

\* The store finds where the run of its headers that touches its head ends ...
LEMMA UpwardIs ==
    ASSUME NEW h \in Heights, NEW S \in SUBSET Heights
    PROVE  /\ Upward(h, S) \in h..MaxHeight /\ Upward(h, S) + 1 \notin S
           /\ \A i \in h + 1..Upward(h, S) : i \in S
<1> DEFINE T == {n \in Nat : h < n /\ n \notin S}
<1>0. MaxHeight \in Nat
  BY SyncStoreAssumption
<1>1. MaxHeight + 1 \in T
  BY <1>0 DEF Heights
<1>2. PICK n \in T : \A m \in T : n <= m
  <2>1. T \in SUBSET Nat /\ T # {}
    BY <1>1
  <2> HIDE DEF T
  <2> QED  BY <2>1, Smallest
<1>3. n - 1 \in h..MaxHeight /\ h + 1..n - 1 \subseteq S /\ (n - 1) + 1 \notin S
  BY <1>0, <1>1, <1>2 DEF Heights
<1> QED
  BY <1>3 DEF Upward

\* ... and where the one that touches its tail begins.
LEMMA DownwardIs ==
    ASSUME NEW t \in Heights, NEW S \in SUBSET Heights
    PROVE  /\ Downward(t, S) \in 1..t /\ Downward(t, S) - 1 \notin S
           /\ \A i \in Downward(t, S)..t - 1 : i \in S
<1> DEFINE T == {n \in Nat : n < t /\ t - n - 1 \notin S}
<1>0. MaxHeight \in Nat /\ t \in Nat \ {0}
  BY SyncStoreAssumption DEF Heights
<1>1. t - 1 \in T
  BY <1>0 DEF Heights
<1>2. PICK n \in T : \A m \in T : n <= m
  <2>1. T \in SUBSET Nat /\ T # {}
    BY <1>1
  <2> HIDE DEF T
  <2> QED  BY <2>1, Smallest
<1>3. t - n \in 1..t /\ (t - n) - 1 \notin S
  BY <1>0, <1>2
<1>4. ASSUME NEW i \in t - n..t - 1 PROVE i \in S
  <2>1. t - i - 1 \in Nat /\ t - i - 1 < n /\ t - i - 1 < t /\ t - (t - i - 1) - 1 = i
    BY <1>0, <1>2
  <2>2. t - i - 1 \notin T
    BY <1>2, <2>1
  <2> QED  BY <2>1, <2>2
<1> QED
  BY <1>3, <1>4 DEF Downward

\* A mover's steps that leave syncStore and the store alone.
QuietMove(m) ==
    \/ \E h \in config.heads : MoveCall(m, h)
    \/ TryLock(m) \/ Renew(m) \/ Find(m) \/ Load(m) \/ Fetch(m) \/ CallFails(m)
    \/ TailAppended(m) \/ Move(m) \/ DeleteRefused(m) \/ SyncAppended(m) \/ SyncDone(m) \/ Unlock(m)

\* The steps of the other goroutines and of the store.
OtherStep ==
    \/ \E a \in Appenders \ Movers, b \in Batches : Begun /\ AppendCall(a, b)
    \/ \E a \in Appenders : AppendStep(a) \/ LockCancelled(a)
    \/ \E r \in Readers : HeadCall(r) \/ HeadReturn(r)
    \/ \E p \in Procs : HeadStep(p)
    \/ StoreApplies

\* The steps by what they touch.
LEMMA NextCases ==
    ASSUME [Next]_vars
    PROVE  \/ \E m \in Movers : \/ QuietMove(m) \/ AppendTail(m) \/ SyncDiff(m) \/ ForceAppend(m)
                                \/ DeleteRange(m)
           \/ OtherStep /\ UNCHANGED tailVars
           \/ UNCHANGED vars
BY Zenon DEF Next, MoveStep, QuietMove, OtherStep, OthersAppend, Begun, SyncStoreStep

\* A quiet step of a mover leaves syncStore and the store alone.
LEMMA QuietFrame ==
    ASSUME NEW m, QuietMove(m)
    PROVE  /\ UNCHANGED <<cached, sem, storeVars, pc, batch, loc, outcome, calls>>
           /\ UNCHANGED errors \/ (errors < MaxErrors /\ errors' = errors + 1)
<1>1. CASE CallFails(m)
  BY <1>1 DEF CallFails
<1>2. CASE UNCHANGED syncStoreVars
  BY <1>2 DEF syncStoreVars, storeVars
<1>3. CallFails(m) \/ UNCHANGED syncStoreVars
  BY Zenon DEF QuietMove, MoveCall, TryLock, Renew, Find, Load, Fetch, TailAppended, Move,
     DeleteRefused, SyncAppended, SyncDone, Unlock
<1> QED
  BY <1>1, <1>2, <1>3

\* A batch has two ends.
LEMMA SpanTypes ==
    /\ \A b \in Spans : /\ b[1] \in Heights /\ b[2] \in Heights /\ b[1] <= b[2] /\ b # None
                        /\ b = <<b[1], b[2]>>
    /\ \A i, j \in Heights : i <= j => <<i, j>> \in Spans
BY SyncStoreAssumption DEF Spans, Heights, None

\* How the variables of syncStore change, by the kind of step.
LEMMA LeaveTypes ==
    ASSUME SyncStoreTypeOK, NEW a \in Appenders, NEW e \in {"none", "nil", "nonAdjacent", "error"}, Leave(a, e)
    PROVE  /\ sem' \subseteq Appenders
           /\ pc' \in [Procs -> {"idle", "lock", "head", "storeHead", "cas", "decide", "empty",
                         "publish", "done"}]
           /\ loc' \in [Procs -> 0..MaxHeight]
           /\ batch' \in [Appenders -> Spans \cup {None}]
           /\ outcome' \in [Appenders -> {"none", "nil", "nonAdjacent", "error"}]
<1>1. a \in Procs /\ MaxHeight \in Nat
  BY SyncStoreAssumption DEF Procs
<1>2. sem' \subseteq Appenders /\ outcome' \in [Appenders -> {"none", "nil", "nonAdjacent", "error"}]
  BY DEF Leave, SyncStoreTypeOK
<1>3. pc' \in [Procs -> {"idle", "lock", "head", "storeHead", "cas", "decide", "empty", "publish", "done"}]
  BY <1>1 DEF Leave, Goto, SyncStoreTypeOK
<1>4. loc' \in [Procs -> 0..MaxHeight]
  BY <1>1 DEF Leave, Read, SyncStoreTypeOK
<1>5. batch' \in [Appenders -> Spans \cup {None}]
  BY DEF Leave, SyncStoreTypeOK
<1> QED
  BY <1>2, <1>3, <1>4, <1>5

\* An Append that starts.
LEMMA StartTypes ==
    ASSUME SyncStoreTypeOK, NEW a \in Appenders, NEW b \in Spans, StartAppend(a, b)
    PROVE  /\ pc' \in [Procs -> {"idle", "lock", "head", "storeHead", "cas", "decide", "empty",
                         "publish", "done"}]
           /\ batch' \in [Appenders -> Spans \cup {None}]
           /\ outcome' \in [Appenders -> {"none", "nil", "nonAdjacent", "error"}]
<1>1. a \in Procs
  BY DEF Procs
<1>2. CASE cached # 0 /\ b[1] > cached + 1
  BY <1>2 DEF StartAppend, SyncStoreTypeOK
<1>3. CASE ~(cached # 0 /\ b[1] > cached + 1)
  <2>1. outcome' \in [Appenders -> {"none", "nil", "nonAdjacent", "error"}]
    BY <1>3 DEF StartAppend, SyncStoreTypeOK
  <2>2. pc' \in [Procs -> {"idle", "lock", "head", "storeHead", "cas", "decide", "empty", "publish", "done"}]
    BY <1>1, <1>3 DEF StartAppend, Goto, SyncStoreTypeOK
  <2>3. batch' \in [Appenders -> Spans \cup {None}]
    BY <1>3 DEF StartAppend, SyncStoreTypeOK
  <2> QED  BY <2>1, <2>2, <2>3
<1> QED
  BY <1>2, <1>3

\* A batch is accepted.
LEMMA EnqueueTypes ==
    ASSUME SyncStoreTypeOK, NEW b \in Spans, queue' = Append(queue, b)
    PROVE  queue' \in Seq(Spans)
BY DEF SyncStoreTypeOK

\* The store applies a batch.
LEMMA ApplyTypes ==
    ASSUME SyncStoreTypeOK, StoreInv, StoreApplies
    PROVE  /\ queue' \in Seq(Spans) /\ stored' \subseteq Heights
           /\ storeHead' \in Heights /\ storeTail' \in Heights
<1> DEFINE b == Head(queue)
           hi == IF storeHead = 0 THEN b[2] ELSE storeHead
           lo == IF storeTail = 0 THEN b[1] ELSE storeTail
<1>1. b \in Spans /\ queue' \in Seq(Spans)
  BY DEF StoreApplies, SyncStoreTypeOK
<1> HIDE DEF b
<1>2. b[1] \in Heights /\ b[2] \in Heights
  BY <1>1, SpanTypes
<1>3. stored' = stored \cup b[1]..b[2] /\ storeHead' = Upward(hi, stored') /\ storeTail' = Downward(lo, stored')
  BY DEF StoreApplies, b
<1>4. stored' \in SUBSET Heights
  <2>1. MaxHeight \in Nat /\ stored \subseteq Heights
    BY SyncStoreAssumption DEF SyncStoreTypeOK
  <2>2. b[1]..b[2] \subseteq Heights
    BY <1>2, <2>1 DEF Heights
  <2> QED  BY <1>3, <2>1, <2>2
<1>5. hi \in Heights /\ lo \in Heights
  BY <1>2, SyncStoreAssumption DEF SyncStoreTypeOK, Heights
<1> HIDE DEF hi, lo
<1>6. storeHead' \in hi..MaxHeight /\ storeTail' \in 1..lo
  BY <1>3, <1>4, <1>5, UpwardIs, DownwardIs
<1>7. storeHead' \in Heights /\ storeTail' \in Heights
  BY <1>5, <1>6, SyncStoreAssumption DEF Heights
<1> QED
  BY <1>1, <1>4, <1>7

PcTypes == {"idle", "lock", "head", "storeHead", "cas", "decide", "empty", "publish", "done"}
Outcomes == {"none", "nil", "nonAdjacent", "error"}

\* A mover appends a batch of its own.
LEMMA MoverAppends ==
    ASSUME Inv, NEW m \in Movers, AppendTail(m) \/ SyncDiff(m)
    PROVE  \E b \in Spans : StartAppend(m, b)
<1>0. MaxHeight \in Nat
  BY SyncStoreAssumption
<1>1. CASE AppendTail(m)
  <2>1. new[m] \in Heights
    BY <1>1 DEF Inv, MoverInv, MoverAt, AppendTail
  <2>2. <<new[m], new[m]>> \in Spans
    BY <2>1, SpanTypes DEF Heights
  <2> QED  BY <1>1, <2>2 DEF AppendTail
<1>2. CASE SyncDiff(m)
  <2>1. from[m] \in Nat /\ old[m] \in 0..MaxHeight /\ from[m] < old[m] /\ RequestSize \in Nat \ {0}
    BY <1>2, SyncTailAssumption DEF Inv, MoverTypes, SyncDiff
  <2>2. PICK last \in from[m] + 1..Lower(from[m] + RequestSize, old[m]) : StartAppend(m, <<from[m] + 1, last>>)
    BY <1>2 DEF SyncDiff
  <2>3. from[m] + 1 \in Heights /\ last \in Heights /\ from[m] + 1 <= last
    BY <1>0, <2>1 DEF Lower, Heights
  <2>4. <<from[m] + 1, last>> \in Spans
    BY <2>3, SpanTypes
  <2> QED  BY <2>2, <2>4
<1> QED
  BY <1>1, <1>2

\* Every step keeps the types of syncStore.
LEMMA StoreTypeStep ==
    ASSUME Inv, [Next]_vars
    PROVE  SyncStoreTypeOK'
<1>0. /\ SyncStoreTypeOK /\ MaxHeight \in Nat /\ MaxErrors \in Nat /\ MaxAppends \in Nat /\ MaxHeads \in Nat
      /\ Appenders \subseteq Procs /\ Readers \subseteq Procs
      /\ \A a \in Appenders : a \notin Readers
  BY SyncStoreAssumption DEF Inv, Procs
<1>1. CASE UNCHANGED <<cached, sem, storeVars, pc, batch, loc, outcome, calls>>
           /\ (UNCHANGED errors \/ (errors < MaxErrors /\ errors' = errors + 1))
  BY <1>0, <1>1 DEF SyncStoreTypeOK, storeVars
<1>2. ASSUME NEW m \in Movers, AppendTail(m) \/ SyncDiff(m) PROVE SyncStoreTypeOK'
  <2>1. m \in Appenders
    BY SyncTailAssumption
  <2>2. \E b \in Spans : StartAppend(m, b)
    BY <1>2, MoverAppends
  <2>3. UNCHANGED <<cached, sem, storeVars, loc, calls, errors>>
    BY <1>2 DEF AppendTail, SyncDiff
  <2>4. pc' \in [Procs -> PcTypes] /\ batch' \in [Appenders -> Spans \cup {None}]
        /\ outcome' \in [Appenders -> Outcomes]
    BY <1>0, <2>1, <2>2, StartTypes DEF PcTypes, Outcomes
  <2> QED  BY <1>0, <2>3, <2>4 DEF SyncStoreTypeOK, storeVars, PcTypes, Outcomes
<1>3. ASSUME NEW m \in Movers, ForceAppend(m) PROVE SyncStoreTypeOK'
  <2>1. new[m] \in Heights
    BY <1>3 DEF Inv, MoverInv, MoverAt, ForceAppend
  <2>2. <<new[m], new[m]>> \in Spans
    BY <2>1, SpanTypes DEF Heights
  <2>3. queue' \in Seq(Spans)
    BY <1>0, <1>3, <2>2, EnqueueTypes DEF ForceAppend
  <2> QED  BY <1>0, <1>3, <2>3 DEF ForceAppend, SyncStoreTypeOK
<1>4. ASSUME NEW m \in Movers, DeleteRange(m) PROVE SyncStoreTypeOK'
  <2>1. new[m] \in 0..MaxHeight
    BY <1>4 DEF Inv, MoverInv, MoverAt, MoverTypes, DeleteRange, SyncStoreTypeOK
  <2>2. stored' \subseteq Heights /\ storeTail' \in 0..MaxHeight
    BY <1>0, <1>4, <2>1 DEF DeleteRange, SyncStoreTypeOK
  <2> QED  BY <1>0, <1>4, <2>2 DEF DeleteRange, SyncStoreTypeOK
<1>5. ASSUME NEW a \in Appenders, NEW b \in Batches, AppendCall(a, b) PROVE SyncStoreTypeOK'
  <2>1. b \in Spans
    BY SyncStoreAssumption
  <2>2. pc' \in [Procs -> PcTypes] /\ batch' \in [Appenders -> Spans \cup {None}]
        /\ outcome' \in [Appenders -> Outcomes]
    BY <1>0, <1>5, <2>1, StartTypes DEF AppendCall, PcTypes, Outcomes
  <2>3. calls' \in [Procs -> Nat] /\ (\A x \in Appenders : calls'[x] <= MaxAppends)
        /\ (\A r \in Readers : calls'[r] <= MaxHeads)
    BY <1>0, <1>5 DEF AppendCall, SyncStoreTypeOK
  <2> QED  BY <1>0, <1>5, <2>2, <2>3 DEF AppendCall, SyncStoreTypeOK, storeVars, PcTypes, Outcomes
<1>6. ASSUME NEW a \in Appenders, NEW e \in Outcomes, Leave(a, e), UNCHANGED <<storeVars, calls>>,
             cached' \in 0..MaxHeight, UNCHANGED errors \/ (errors < MaxErrors /\ errors' = errors + 1)
      PROVE  SyncStoreTypeOK'
  <2>1. /\ sem' \subseteq Appenders /\ pc' \in [Procs -> PcTypes] /\ loc' \in [Procs -> 0..MaxHeight]
        /\ batch' \in [Appenders -> Spans \cup {None}] /\ outcome' \in [Appenders -> Outcomes]
    BY <1>0, <1>6, LeaveTypes DEF PcTypes, Outcomes
  <2> QED  BY <1>0, <1>6, <2>1 DEF SyncStoreTypeOK, storeVars, PcTypes, Outcomes
<1>7. ASSUME NEW a \in Appenders, Reject(a) \/ StoreAppendFails(a) \/ LockCancelled(a) PROVE SyncStoreTypeOK'
  <2>1. /\ \E e \in Outcomes : Leave(a, e)
        /\ UNCHANGED <<cached, storeVars, calls>>
        /\ UNCHANGED errors \/ (errors < MaxErrors /\ errors' = errors + 1)
    <3>1. CASE Reject(a)
      BY <3>1 DEF Reject, Outcomes
    <3>2. CASE StoreAppendFails(a)
      BY <3>2 DEF StoreAppendFails, Outcomes
    <3>3. CASE LockCancelled(a)
      BY <3>3 DEF LockCancelled, Outcomes
    <3> QED  BY <1>7, <3>1, <3>2, <3>3
  <2> QED  BY <1>0, <1>6, <2>1 DEF SyncStoreTypeOK
<1>8. ASSUME NEW a \in Appenders, Publish(a) PROVE SyncStoreTypeOK'
  <2>1. batch[a] \in Spans
    BY <1>8 DEF Inv, LockInv, Publish
  <2>2. cached' \in 0..MaxHeight
    BY <1>0, <1>8, <2>1, SpanTypes DEF Publish, SyncStoreTypeOK, Heights
  <2>3. Leave(a, "nil") /\ UNCHANGED <<storeVars, calls>> /\ UNCHANGED errors /\ "nil" \in Outcomes
    BY <1>8, Zenon DEF Publish, Outcomes
  <2> QED  BY <1>6, <2>2, <2>3, Zenon
<1>9. ASSUME NEW a \in Appenders, StoreAppend(a) PROVE SyncStoreTypeOK'
  <2>1. batch[a] \in Spans
    BY <1>9 DEF Inv, LockInv, StoreAppend, MayAppend
  <2>2. queue' \in Seq(Spans)
    BY <1>0, <1>9, <2>1, EnqueueTypes DEF StoreAppend
  <2>3. pc' \in [Procs -> PcTypes]
    BY <1>0, <1>9 DEF StoreAppend, Goto, SyncStoreTypeOK, PcTypes
  <2> QED  BY <1>0, <1>9, <2>2, <2>3 DEF StoreAppend, SyncStoreTypeOK, PcTypes
<1>10. ASSUME NEW a \in Appenders, Lock(a) PROVE SyncStoreTypeOK'
  <2>1. pc' \in [Procs -> PcTypes] /\ sem' \subseteq Appenders
    BY <1>0, <1>10 DEF Lock, Goto, SyncStoreTypeOK, PcTypes
  <2> QED  BY <1>0, <1>10, <2>1 DEF Lock, SyncStoreTypeOK, storeVars, PcTypes
<1>11. ASSUME NEW p \in Procs, NEW l \in PcTypes, Goto(p, l), cached' \in 0..MaxHeight,
              UNCHANGED loc \/ \E h \in 0..MaxHeight : Read(p, h),
              UNCHANGED <<sem, storeVars, batch, outcome, calls, errors>>
       PROVE  SyncStoreTypeOK'
  <2>1. pc' \in [Procs -> PcTypes]
    BY <1>0, <1>11 DEF Goto, SyncStoreTypeOK, PcTypes
  <2>2. loc' \in [Procs -> 0..MaxHeight]
    BY <1>0, <1>11 DEF Read, SyncStoreTypeOK
  <2> QED  BY <1>0, <1>11, <2>1, <2>2 DEF SyncStoreTypeOK, storeVars, PcTypes
<1>12. ASSUME NEW p \in Procs, HeadStep(p) PROVE SyncStoreTypeOK'
  <2>0. cached \in 0..MaxHeight /\ storeHead \in 0..MaxHeight /\ loc[p] \in 0..MaxHeight
    BY <1>0 DEF SyncStoreTypeOK
  <2>1. AfterHead(p) \in PcTypes
    BY DEF AfterHead, PcTypes
  <2>2. CASE HeadCached(p)
    BY <1>11, <2>0, <2>1, <2>2 DEF HeadCached
  <2>3. CASE HeadMiss(p)
    BY <1>11, <2>0, <2>3 DEF HeadMiss, PcTypes
  <2>4. CASE HeadLoad(p)
    <3>1. \E l \in PcTypes : Goto(p, l)
      <4>1. (CASE storeHead # 0 -> "cas" [] storeHead = 0 /\ p \in Readers -> "done" [] OTHER -> "empty")
              \in PcTypes
        BY Zenon DEF PcTypes
      <4> QED  BY <2>4, <4>1, Zenon DEF HeadLoad
    <3> QED  BY <1>11, <2>0, <2>4, <3>1 DEF HeadLoad
  <2>5. CASE HeadPublish(p)
    <3>1. cached' \in 0..MaxHeight
      BY <2>0, <2>5 DEF HeadPublish
    <3> QED  BY <1>11, <2>1, <2>5, <3>1 DEF HeadPublish
  <2> QED  BY <1>12, <2>2, <2>3, <2>4, <2>5 DEF HeadStep
<1>13. ASSUME NEW r \in Readers, HeadReturn(r) PROVE SyncStoreTypeOK'
  <2>1. r \in Procs /\ cached \in 0..MaxHeight /\ 0 \in 0..MaxHeight
    BY <1>0 DEF SyncStoreTypeOK
  <2> QED  BY <1>11, <1>13, <2>1 DEF HeadReturn, PcTypes
<1>14. ASSUME NEW r \in Readers, HeadCall(r) PROVE SyncStoreTypeOK'
  <2>1. pc' \in [Procs -> PcTypes]
    BY <1>0, <1>14 DEF HeadCall, Goto, SyncStoreTypeOK, PcTypes
  <2>2. calls' \in [Procs -> Nat] /\ (\A x \in Appenders : calls'[x] <= MaxAppends)
        /\ (\A x \in Readers : calls'[x] <= MaxHeads)
    BY <1>0, <1>14 DEF HeadCall, SyncStoreTypeOK
  <2> QED  BY <1>0, <1>14, <2>1, <2>2 DEF HeadCall, SyncStoreTypeOK, storeVars, PcTypes
<1>15. CASE StoreApplies
  <2>1. queue' \in Seq(Spans) /\ stored' \subseteq Heights /\ storeHead' \in 0..MaxHeight
        /\ storeTail' \in 0..MaxHeight
    BY <1>0, <1>15, ApplyTypes DEF Inv, Heights
  <2> QED  BY <1>0, <1>15, <2>1 DEF StoreApplies, SyncStoreTypeOK
<1>16. CASE OtherStep
  BY <1>5, <1>7, <1>8, <1>9, <1>10, <1>12, <1>13, <1>14, <1>15, <1>16 DEF OtherStep, AppendStep
<1>17. CASE UNCHANGED vars
  BY <1>1, <1>17 DEF vars, syncStoreVars, storeVars
<1>18. ASSUME NEW m \in Movers, QuietMove(m) PROVE SyncStoreTypeOK'
  BY <1>1, <1>18, QuietFrame
<1> QED
  BY <1>2, <1>3, <1>4, <1>16, <1>17, <1>18, NextCases

-----------------------------------------------------------------------------
\* The movers.

Stages == {"idle", "tryLock", "renew", "find", "load", "fetch", "append",
           "appending", "force", "move", "delete", "sync", "syncing", "moved"}

\* The heights renewTail may find: estimates are unsigned.
LEMMA EstimateTypes ==
    ASSUME Inv, NEW m \in Movers, tpc[m] = "renew"
    PROVE  /\ config.height \in 0..Width - 1 /\ config.height <= MaxHeight
           /\ estimateTailHeight(head[m]) \in 0..Width - 1
           /\ config.kind = "window" /\ old[m] # 0 => Estimate(m) \in 0..Width - 1
<1>0. /\ Width \in Nat /\ Window \in Nat /\ BlockTime \in Nat \ {0} /\ Retained \in Nat /\ MaxHeight \in Nat
      /\ MaxHeight + Window < Width
  BY SyncTailAssumption, SyncStoreAssumption
<1>1. config.height \in 0..MaxHeight /\ config.clock \in [Heights -> Int]
  BY SyncTailAssumption DEF Inv, MoverTypes
<1>2. head[m] \in Heights /\ old[m] \in 0..MaxHeight
  BY DEF Inv, MoverInv, MoverAt, MoverTypes
<1>3. estimateTailHeight(head[m]) \in 0..Width - 1
  BY <1>0, <1>2 DEF estimateTailHeight, Heights
<1>4. ASSUME old[m] # 0 PROVE Estimate(m) \in 0..Width - 1
  <2> DEFINE d == TailTimeDiff(m)
  <2>1. old[m] \in Heights
    BY <1>0, <1>2, <1>4 DEF Heights
  <2>2. d \in Int
    BY <1>0, <1>1, <1>2, <2>1 DEF TailTimeDiff, Expected
  <2> HIDE DEF d
  <2>3. \/ Estimate(m) = old[m]
        \/ Estimate(m) = (head[m] - Window \div BlockTime) % Width
        \/ ~(d <= 0) /\ ~(d >= Window) /\ Estimate(m) = old[m] + d \div BlockTime
    BY DEF Estimate, d
  <2>4. old[m] \in 0..Width - 1
    BY <1>0, <1>2
  <2>5. (head[m] - Window \div BlockTime) % Width \in 0..Width - 1
    <3>1. Window \div BlockTime \in Int /\ head[m] \in Int
      BY <1>0, <1>2 DEF Heights
    <3>2. head[m] - Window \div BlockTime \in Int /\ Width \in Nat \ {0}
      BY <1>0, <3>1
    <3>3. \A x \in Int, w \in Nat \ {0} : x % w \in 0..w - 1
      OBVIOUS
    <3> QED  BY <3>2, <3>3
  <2>6. CASE ~(d <= 0) /\ ~(d >= Window)
    <3>1. d \in Nat /\ d < Window
      BY <1>0, <2>2, <2>6
    <3>2. d \div BlockTime \in Nat /\ d \div BlockTime <= d
      <4>1. \A x \in Nat, w \in Nat \ {0} : x \div w \in Nat /\ x \div w <= x
        OBVIOUS
      <4> QED  BY <1>0, <3>1, <4>1
    <3> QED  BY <1>0, <1>2, <2>3, <2>4, <2>5, <3>1, <3>2
  <2> QED  BY <2>3, <2>4, <2>5, <2>6
<1> QED
  BY <1>0, <1>1, <1>3, <1>4

\* A mover's step from a to b that may change its variables; what is left is what holds at b.
MovesTo(m, l) ==
    /\ Step(m, l)
    /\ \A q \in Movers \ {m} : /\ head'[q] = head[q] /\ old'[q] = old[q]
                               /\ new'[q] = new[q] /\ from'[q] = from[q]
    /\ \/ l \in {"idle", "tryLock"} /\ tailMu' = IF tailMu = m THEN "free" ELSE tailMu
       \/ l \notin {"idle", "tryLock"} /\ tailMu' = m /\ tailMu \in {"free", m}
    /\ storeTail # 0 => storeTail' # 0

\* A mover reaches l, where it has what MoverAt asks.
LEMMA MoverGoes ==
    ASSUME Inv, NEW m \in Movers, NEW l \in Stages, MovesTo(m, l),
           l # "idle" => head'[m] \in Heights,
           l \in {"append", "appending", "force"} => new'[m] \in Heights,
           l \in {"move", "moved"} => new'[m] <= MaxHeight,
           l = "delete" => 0 < old'[m] /\ old'[m] < new'[m] /\ new'[m] <= MaxHeight,
           l \in {"sync", "syncing"} => new'[m] < old'[m] /\ new'[m] <= from'[m] /\ from'[m] <= old'[m],
           l # "idle" /\ old'[m] # 0 => storeTail' # 0
    PROVE  MoverInv' /\ tpc' \in [Movers -> Stages] /\ tailMu' \in Movers \cup {"free"}
<1>1. tpc \in [Movers -> Stages] /\ tailMu \in Movers \cup {"free"} /\ "free" \notin Movers
  BY SyncTailAssumption DEF Inv, MoverTypes, Stages
<1>2. tpc' \in [Movers -> Stages] /\ tpc'[m] = l /\ \A q \in Movers \ {m} : tpc'[q] = tpc[q]
  BY <1>1 DEF MovesTo, Step
<1>3. tailMu' \in Movers \cup {"free"}
  BY <1>1 DEF MovesTo
<1>4. \A q \in Movers \ {m} : tailMu' = q <=> tailMu = q
  BY <1>1 DEF MovesTo
<1>5. tailMu' = m <=> l \notin {"idle", "tryLock"}
  BY <1>1 DEF MovesTo
<1>6. MoverAt(m)'
  BY <1>2, <1>5 DEF MoverAt
<1>7. ASSUME NEW q \in Movers \ {m} PROVE MoverAt(q)'
  <2>1. MoverAt(q)
    BY DEF Inv, MoverInv
  <2>2. /\ head'[q] = head[q] /\ old'[q] = old[q] /\ new'[q] = new[q] /\ from'[q] = from[q]
        /\ storeTail # 0 => storeTail' # 0
    BY DEF MovesTo
  <2> QED  BY <1>2, <1>4, <2>1, <2>2 DEF MoverAt
<1>8. MoverInv'
  BY <1>6, <1>7, Zenon DEF MoverInv
<1> QED
  BY <1>2, <1>3, <1>8

\* Every step keeps what the movers have established.
LEMMA MoverStep ==
    ASSUME Inv, [Next]_vars
    PROVE  MoverTypes' /\ MoverInv'
<1>0. /\ MoverTypes /\ MoverInv /\ SyncStoreTypeOK /\ StoreInv
      /\ MaxHeight \in Nat /\ Width \in Nat /\ MaxHeight < Width /\ "free" \notin Movers
      /\ RequestSize \in Nat \ {0} /\ Window \in Nat
  BY SyncTailAssumption, SyncStoreAssumption DEF Inv
<1>1. CASE UNCHANGED tailVars /\ (storeTail # 0 => storeTail' # 0)
  <2>1. MoverTypes'
    BY <1>0, <1>1 DEF MoverTypes, tailVars
  <2>2. MoverInv'
    BY <1>0, <1>1 DEF MoverInv, MoverAt, tailVars
  <2> QED  BY <2>1, <2>2
<1>2. ASSUME NEW m \in Movers,
             \/ QuietMove(m) \/ AppendTail(m) \/ SyncDiff(m) \/ ForceAppend(m) \/ DeleteRange(m)
      PROVE  MoverTypes' /\ MoverInv'
  <2>0. /\ MoverAt(m) /\ tpc \in [Movers -> Stages] /\ tpc[m] \in Stages
        /\ head[m] \in 0..MaxHeight /\ old[m] \in 0..MaxHeight /\ new[m] \in 0..Width - 1
        /\ from[m] \in 0..Width - 1 /\ config \in Scenarios /\ tailMu \in Movers \cup {"free"}
    BY <1>0 DEF MoverInv, MoverTypes, Stages
  <2>1. ASSUME NEW h \in config.heads, MoveCall(m, h) PROVE MoverTypes' /\ MoverInv'
    <3>1. h \in Heights /\ h \in 0..MaxHeight
      <4>1. config.heads \subseteq Heights
        BY <2>0, SyncTailAssumption
      <4> QED  BY <1>0, <2>1, <4>1 DEF Heights
    <3>2. /\ head' \in [Movers -> 0..MaxHeight] /\ old' \in [Movers -> 0..MaxHeight]
          /\ moves' \in [Movers -> Nat]
      <4>1. head' \in [Movers -> 0..MaxHeight]
        BY <1>0, <2>1, <3>1 DEF MoveCall, MoverTypes
      <4>2. old' \in [Movers -> 0..MaxHeight]
        BY <1>0, <2>1 DEF MoveCall, MoverTypes, SyncStoreTypeOK
      <4>3. moves' \in [Movers -> Nat]
        BY <1>0, <2>1 DEF MoveCall, MoverTypes
      <4> QED  BY <4>1, <4>2, <4>3
    <3>3. MovesTo(m, "tryLock") /\ head'[m] \in Heights /\ old'[m] = storeTail'
      BY <1>0, <2>0, <2>1, <3>1 DEF MoveCall, MovesTo, MoverAt, MoverTypes, syncStoreVars, storeVars
    <3>4. MoverInv' /\ tpc' \in [Movers -> Stages] /\ tailMu' \in Movers \cup {"free"}
      BY <3>3, MoverGoes DEF Stages
    <3> QED  BY <1>0, <2>1, <3>2, <3>4 DEF MoveCall, MoverTypes, Stages
  <2>2. ASSUME NEW l \in Stages, Step(m, l), UNCHANGED <<config, head, old, moves>>,
               UNCHANGED storeTail \/ storeTail' # 0,
               tpc[m] # "idle",
               \/ l = "idle" /\ tailMu' = "free" /\ tailMu = m
               \/ l = "idle" /\ UNCHANGED tailMu /\ tailMu # m
               \/ l \notin {"idle", "tryLock"} /\ tailMu' = m /\ tailMu \in {"free", m},
               \E x \in 0..Width - 1 : new' = [new EXCEPT ![m] = x],
               \E x \in 0..Width - 1 : from' = [from EXCEPT ![m] = x],
               l \in {"append", "appending", "force"} => new'[m] \in Heights,
               l \in {"move", "moved"} => new'[m] <= MaxHeight,
               l = "delete" => 0 < old[m] /\ old[m] < new'[m] /\ new'[m] <= MaxHeight,
               l \in {"sync", "syncing"} => new'[m] < old[m] /\ new'[m] <= from'[m] /\ from'[m] <= old[m],
               settled' \in 0..MaxHeight
        PROVE  MoverTypes' /\ MoverInv'
    <3>1. new' \in [Movers -> 0..Width - 1] /\ from' \in [Movers -> 0..Width - 1]
      BY <1>0, <2>2 DEF MoverTypes
    <3>2. MovesTo(m, l)
      <4>1. \A q \in Movers \ {m} : new'[q] = new[q] /\ from'[q] = from[q]
        BY <1>0, <2>2 DEF MoverTypes
      <4> QED  BY <2>0, <2>2, <4>1 DEF MovesTo
    <3>3. head'[m] \in Heights /\ (old'[m] # 0 => storeTail' # 0)
      BY <2>0, <2>2 DEF MoverAt
    <3>4. MoverInv' /\ tpc' \in [Movers -> Stages] /\ tailMu' \in Movers \cup {"free"}
      BY <2>2, <3>2, <3>3, MoverGoes
    <3> QED  BY <1>0, <2>2, <3>1, <3>4 DEF MoverTypes, Stages
  <2>3. /\ UNCHANGED new => \E x \in 0..Width - 1 : new' = [new EXCEPT ![m] = x]
        /\ UNCHANGED from => \E x \in 0..Width - 1 : from' = [from EXCEPT ![m] = x]
        /\ settled \in 0..MaxHeight
        /\ UNCHANGED new => new'[m] = new[m]
    <3>1. new = [new EXCEPT ![m] = new[m]] /\ from = [from EXCEPT ![m] = from[m]]
      BY <1>0 DEF MoverTypes
    <3> QED  BY <1>0, <2>0, <3>1 DEF MoverTypes
  <2>4. CASE TryLock(m)
    <3>1. CASE tailMu = "free" /\ tailMu' = m /\ Step(m, "renew")
      BY <1>0, <2>0, <2>2, <2>3, <2>4, <3>1 DEF TryLock, Stages, syncStoreVars, storeVars
    <3>2. CASE tailMu # "free" /\ Step(m, "idle") /\ UNCHANGED tailMu
      BY <1>0, <2>0, <2>2, <2>3, <2>4, <3>2 DEF TryLock, Stages, syncStoreVars, storeVars, MoverAt
    <3> QED  BY <2>4, <3>1, <3>2 DEF TryLock
  <2>5. CASE /\ tailMu = m /\ tpc[m] # "idle" /\ UNCHANGED <<config, head, old, moves, settled>>
             /\ UNCHANGED storeTail \/ storeTail' # 0
             /\ UNCHANGED <<new, from>>
             /\ \/ Step(m, "idle") /\ tailMu' = "free"
                \/ /\ tailMu' = m
                   /\ \/ Step(m, "fetch") \/ Step(m, "load")
                      \/ Step(m, "move") /\ new[m] <= MaxHeight
                      \/ Step(m, "moved") /\ new[m] <= MaxHeight
                      \/ (Step(m, "append") \/ Step(m, "appending") \/ Step(m, "force")) /\ new[m] \in Heights
                      \/ Step(m, "sync") /\ new[m] < old[m] /\ new[m] <= from[m] /\ from[m] <= old[m]
    BY <2>2, <2>3, <2>5 DEF Stages
  <2>6. tpc[m] \notin {"idle", "tryLock"} => tailMu = m
    BY <2>0 DEF MoverAt
  <2>7. CASE Renew(m)
    <3>1. /\ config.height \in 0..Width - 1 /\ config.height <= MaxHeight
          /\ estimateTailHeight(head[m]) \in 0..Width - 1
          /\ config.kind = "window" /\ old[m] # 0 => Estimate(m) \in 0..Width - 1
      BY <2>7, EstimateTypes DEF Renew
    <3>2. PICK x \in 0..Width - 1 : Found(m, x) /\ \/ Step(m, "move") /\ x <= MaxHeight
                                                   \/ Step(m, "fetch") \/ Step(m, "load") \/ Step(m, "find")
      BY <2>7, <3>1 DEF Renew
    <3>3. new' = [new EXCEPT ![m] = x] /\ new'[m] = x
      BY <1>0, <3>2 DEF Found, MoverTypes
    <3>4. tailMu = m /\ UNCHANGED <<config, head, old, moves, settled, storeTail, tailMu, from>> /\ tpc[m] = "renew"
      BY <2>6, <2>7 DEF Renew, tailStays, syncStoreVars, storeVars
    <3>5. PICK l \in {"move", "fetch", "load", "find"} : Step(m, l) /\ (l = "move" => x <= MaxHeight)
      BY <3>2
    <3> QED  BY <2>2, <2>3, <3>3, <3>4, <3>5 DEF Stages
  <2>8. CASE Find(m)
    <3>1. tailMu = m /\ UNCHANGED <<config, head, old, moves, settled, storeTail, tailMu, from>> /\ tpc[m] = "find"
      BY <2>6, <2>8 DEF Find, tailStays, syncStoreVars, storeVars
    <3>2. CASE Found(m, new[m] + 1) /\ UNCHANGED tpc /\ new[m] < storeHead
      <4>1. new[m] + 1 \in 0..Width - 1
        BY <1>0, <2>0, <3>2 DEF SyncStoreTypeOK
      <4>2. tpc' = [tpc EXCEPT ![m] = "find"]
        BY <2>0, <3>1, <3>2
      <4> QED  BY <2>2, <2>3, <3>1, <3>2, <4>1, <4>2 DEF Found, Step, Stages
    <3>3. CASE Step(m, "load") /\ UNCHANGED new
      BY <2>5, <3>1, <3>3
    <3> QED  BY <2>8, <3>2, <3>3 DEF Find, Scanning
  <2>9. CASE Load(m)
    <3>1. tailMu = m /\ UNCHANGED <<config, head, old, moves, settled, storeTail, tailMu, from, new>> /\ tpc[m] = "load"
      BY <2>6, <2>9 DEF Load, tailStays, syncStoreVars, storeVars
    <3>2. \/ Step(m, "move") /\ new[m] <= MaxHeight
          \/ Step(m, "fetch")
      BY <1>0, <2>0, <2>9 DEF Load, SyncStoreTypeOK
    <3> QED  BY <2>5, <3>1, <3>2
  <2>10. CASE Fetch(m)
    <3>1. tailMu = m /\ UNCHANGED <<config, head, old, moves, settled, storeTail, tailMu, from, new>> /\ tpc[m] = "fetch"
      BY <2>6, <2>10 DEF Fetch, tailStays, syncStoreVars, storeVars
    <3> QED  BY <2>5, <2>10, <3>1 DEF Fetch
  <2>11. CASE CallFails(m)
    <3>1. tailMu = m /\ UNCHANGED <<config, head, old, moves, settled, storeTail, from, new>> /\ tpc[m] # "idle"
      BY <2>6, <2>11 DEF CallFails, tailStays, storeVars
    <3> QED  BY <2>5, <2>11, <3>1 DEF CallFails, Fail
  <2>12. CASE TailAppended(m)
    <3>1. /\ tailMu = m /\ UNCHANGED <<config, head, old, moves, settled, storeTail, from, new>>
          /\ tpc[m] = "appending" /\ new[m] \in Heights
      BY <2>0, <2>6, <2>12 DEF TailAppended, MoverAt, tailStays, syncStoreVars, storeVars
    <3>2. new[m] <= MaxHeight
      BY <1>0, <3>1 DEF Heights
    <3>3. \/ Step(m, "move") /\ UNCHANGED tailMu
          \/ Step(m, "force") /\ UNCHANGED tailMu
          \/ Step(m, "idle") /\ tailMu' = "free"
      BY <2>12 DEF TailAppended, Fail
    <3> QED  BY <2>5, <3>1, <3>2, <3>3
  <2>13. CASE Move(m)
    <3>1. /\ tailMu = m /\ UNCHANGED <<config, head, old, moves, settled, storeTail, tailMu, new>>
          /\ tpc[m] = "move" /\ from' = [from EXCEPT ![m] = new[m]] /\ new[m] <= MaxHeight
      BY <2>0, <2>6, <2>13 DEF Move, MoverAt, tailStays, syncStoreVars, storeVars
    <3>2. \/ Step(m, "moved")
          \/ old[m] # 0 /\ old[m] < new[m] /\ Step(m, "delete")
          \/ old[m] # new[m] /\ old[m] # 0 /\ ~(old[m] # 0 /\ old[m] < new[m]) /\ Step(m, "sync")
      BY <2>13, Zenon DEF Move
    <3>3. from'[m] = new[m] /\ new'[m] = new[m]
      BY <1>0, <3>1 DEF MoverTypes
    <3>4. CASE Step(m, "moved")
      BY <2>0, <2>2, <2>3, <3>1, <3>3, <3>4 DEF Stages
    <3>5. CASE old[m] # 0 /\ old[m] < new[m] /\ Step(m, "delete")
      <4>1. 0 < old[m] /\ new[m] \in 0..Width - 1
        BY <1>0, <2>0, <3>5
      <4>2. UNCHANGED <<config, head, old, moves, storeTail, new>> /\ tailMu' = m /\ tpc[m] # "idle"
            /\ settled' \in 0..MaxHeight /\ "delete" \in Stages
        BY <2>3, <3>1 DEF Stages
      <4> QED  BY <2>2, <2>3, <3>1, <3>3, <3>5, <4>1, <4>2
    <3>6. CASE old[m] # new[m] /\ old[m] # 0 /\ ~(old[m] # 0 /\ old[m] < new[m]) /\ Step(m, "sync")
      <4>1. new[m] < old[m]
        BY <1>0, <2>0, <3>6
      <4>2. new'[m] < old[m] /\ new'[m] <= from'[m] /\ from'[m] <= old[m] /\ new[m] \in 0..Width - 1
        BY <1>0, <2>0, <3>3, <4>1
      <4>3. UNCHANGED <<config, head, old, moves, storeTail, new>> /\ tailMu' = m /\ tpc[m] # "idle"
            /\ settled' \in 0..MaxHeight /\ "sync" \in Stages
        BY <2>3, <3>1 DEF Stages
      <4> QED  BY <2>2, <2>3, <3>1, <3>6, <4>2, <4>3
    <3> QED  BY <3>2, <3>4, <3>5, <3>6
  <2>14. CASE DeleteRefused(m)
    <3>1. tailMu = m /\ UNCHANGED <<config, head, old, moves, settled, storeTail, from, new>> /\ tpc[m] # "idle"
      BY <2>6, <2>14 DEF DeleteRefused, tailStays, syncStoreVars, storeVars
    <3> QED  BY <2>5, <2>14, <3>1 DEF DeleteRefused, Fail
  <2>15. CASE SyncAppended(m)
    <3>1. /\ tailMu = m /\ UNCHANGED <<config, head, old, moves, settled, storeTail, from, new>> /\ tpc[m] # "idle"
          /\ new[m] < old[m] /\ new[m] <= from[m] /\ from[m] <= old[m]
      BY <2>0, <2>6, <2>15 DEF SyncAppended, MoverAt, tailStays, syncStoreVars, storeVars
    <3> QED  BY <2>5, <2>15, <3>1 DEF SyncAppended, Fail
  <2>16. CASE SyncDone(m)
    <3>1. /\ tailMu = m /\ UNCHANGED <<config, head, old, moves, settled, storeTail, from, new, tailMu>>
          /\ tpc[m] # "idle" /\ new[m] < old[m] /\ Step(m, "moved")
      BY <2>0, <2>6, <2>16 DEF SyncDone, MoverAt, tailStays, syncStoreVars, storeVars
    <3>2. new[m] <= MaxHeight
      BY <1>0, <2>0, <3>1
    <3> QED  BY <2>5, <3>1, <3>2
  <2>17. CASE Unlock(m)
    <3>1. /\ tailMu = m /\ UNCHANGED <<config, head, old, moves, storeTail, from, new>> /\ tpc[m] = "moved"
          /\ Step(m, "idle") /\ tailMu' = "free"
      BY <2>6, <2>17 DEF Unlock, syncStoreVars, storeVars
    <3>2. new[m] \in 0..MaxHeight
      BY <1>0, <2>0, <3>1 DEF MoverAt
    <3>3. settled' \in 0..MaxHeight
      BY <2>3, <2>17, <3>2 DEF Unlock
    <3> QED  BY <2>2, <2>3, <3>1, <3>3 DEF Stages
  <2>18. CASE AppendTail(m)
    <3>1. /\ tailMu = m /\ UNCHANGED <<config, head, old, moves, settled, storeTail, tailMu, from, new>>
          /\ tpc[m] # "idle" /\ new[m] \in Heights /\ Step(m, "appending")
      BY <2>0, <2>6, <2>18 DEF AppendTail, MoverAt, tailStays, storeVars
    <3> QED  BY <2>5, <3>1
  <2>19. CASE ForceAppend(m)
    <3>1. /\ tailMu = m /\ UNCHANGED <<config, head, old, moves, settled, storeTail, tailMu, from, new>>
          /\ tpc[m] # "idle" /\ new[m] \in Heights /\ Step(m, "move")
      BY <2>0, <2>6, <2>19 DEF ForceAppend, MoverAt, tailStays
    <3>2. new[m] <= MaxHeight
      BY <1>0, <3>1 DEF Heights
    <3> QED  BY <2>5, <3>1, <3>2
  <2>20. CASE DeleteRange(m)
    <3>1. /\ tailMu = m /\ UNCHANGED <<config, head, old, moves, settled, tailMu, from, new>>
          /\ tpc[m] # "idle" /\ Step(m, "moved") /\ storeTail' = new[m]
          /\ 0 < old[m] /\ old[m] < new[m] /\ new[m] <= MaxHeight
      BY <2>0, <2>6, <2>20 DEF DeleteRange, MoverAt
    <3>2. storeTail' # 0
      BY <1>0, <2>0, <3>1
    <3> QED  BY <2>5, <3>1, <3>2
  <2>21. CASE SyncDiff(m)
    <3>0. PICK last \in from[m] + 1..Lower(from[m] + RequestSize, old[m]) : from' = [from EXCEPT ![m] = last]
      BY <2>21 DEF SyncDiff
    <3>1. /\ tailMu = m /\ UNCHANGED <<config, head, old, moves, settled, storeTail, tailMu, new>>
          /\ tpc[m] # "idle" /\ Step(m, "syncing") /\ from' = [from EXCEPT ![m] = last]
          /\ new[m] < old[m] /\ new[m] <= from[m] /\ from[m] < old[m]
      BY <2>0, <2>6, <2>21, <3>0 DEF SyncDiff, MoverAt, tailStays, storeVars
    <3>2. last \in 0..Width - 1 /\ new[m] <= last /\ last <= old[m]
      BY <1>0, <2>0, <3>1 DEF Lower
    <3>3. from'[m] = last /\ new'[m] = new[m]
      BY <1>0, <3>1 DEF MoverTypes
    <3> QED  BY <2>2, <2>3, <3>1, <3>2, <3>3 DEF Stages
  <2> QED
    BY <1>2, <2>1, <2>4, <2>7, <2>8, <2>9, <2>10, <2>11, <2>12, <2>13, <2>14, <2>15, <2>16, <2>17,
       <2>18, <2>19, <2>20, <2>21 DEF QuietMove
<1>3. CASE OtherStep /\ UNCHANGED tailVars
  <2>1. storeTail # 0 => storeTail' # 0
    <3>1. CASE StoreApplies
      BY <1>0, <3>1, ApplyTypes DEF Heights
    <3>2. CASE UNCHANGED storeTail
      BY <3>2
    <3>3. StoreApplies \/ UNCHANGED storeTail
      BY <1>3 DEF OtherStep, AppendCall, AppendStep, Lock, Reject, StoreAppend, StoreAppendFails, Publish,
         LockCancelled, HeadCall, HeadReturn, HeadStep, HeadCached, HeadMiss, HeadLoad, HeadPublish, storeVars
    <3> QED  BY <3>1, <3>2, <3>3
  <2> QED  BY <1>1, <1>3, <2>1
<1>4. CASE UNCHANGED vars
  BY <1>1, <1>4 DEF vars, syncStoreVars, storeVars
<1> QED
  BY <1>2, <1>3, <1>4, NextCases

-----------------------------------------------------------------------------
\* The wrapped store.

\* The ends of the chain after a batch was applied.
LEMMA ApplyIs ==
    ASSUME Inv, StoreApplies, NEW b, b = Head(queue)
    PROVE  /\ b \in Spans /\ stored' = stored \cup b[1]..b[2] /\ stored' \in SUBSET Heights
           /\ storeHead' \in Heights /\ storeTail' \in Heights
           /\ storeHead # 0 => storeHead <= storeHead' /\ \A i \in storeHead + 1..storeHead' : i \in stored'
           /\ storeTail # 0 => storeTail' <= storeTail /\ \A i \in storeTail'..storeTail - 1 : i \in stored'
           /\ storeHead = 0 => b[2] <= storeHead' /\ \A i \in b[2] + 1..storeHead' : i \in stored'
           /\ storeTail = 0 => storeTail' <= b[1] /\ \A i \in storeTail'..b[1] - 1 : i \in stored'
<1> DEFINE hi == IF storeHead = 0 THEN b[2] ELSE storeHead
           lo == IF storeTail = 0 THEN b[1] ELSE storeTail
<1>0. MaxHeight \in Nat /\ SyncStoreTypeOK /\ StoreInv
  BY SyncStoreAssumption DEF Inv
<1>1. b \in Spans
  BY <1>0 DEF StoreApplies, SyncStoreTypeOK
<1>2. b[1] \in Heights /\ b[2] \in Heights
  BY <1>1, SpanTypes
<1>3. stored' = stored \cup b[1]..b[2] /\ storeHead' = Upward(hi, stored') /\ storeTail' = Downward(lo, stored')
  BY DEF StoreApplies
<1>4. stored' \in SUBSET Heights /\ storeHead' \in Heights /\ storeTail' \in Heights
  BY <1>0, ApplyTypes
<1>5. hi \in Heights /\ lo \in Heights
  BY <1>0, <1>2 DEF SyncStoreTypeOK, Heights
<1>6. /\ storeHead' \in hi..MaxHeight /\ storeHead' + 1 \notin stored' /\ \A i \in hi + 1..storeHead' : i \in stored'
      /\ storeTail' \in 1..lo /\ storeTail' - 1 \notin stored' /\ \A i \in storeTail'..lo - 1 : i \in stored'
  <2> HIDE DEF hi, lo
  <2> QED  BY <1>3, <1>4, <1>5, UpwardIs, DownwardIs
<1>7. hi <= storeHead' /\ storeTail' <= lo
  <2> HIDE DEF hi, lo
  <2> QED  BY <1>5, <1>6 DEF Heights
<1>8. storeHead = 0 => hi = b[2]
  OBVIOUS
<1>9. storeHead # 0 => hi = storeHead
  OBVIOUS
<1>10. storeTail = 0 => lo = b[1]
  OBVIOUS
<1>11. storeTail # 0 => lo = storeTail
  OBVIOUS
<1> HIDE DEF hi, lo
<1> QED
  BY <1>1, <1>3, <1>4, <1>6, <1>7, <1>8, <1>9, <1>10, <1>11

\* Every step keeps the store contiguous.
LEMMA StoreStep ==
    ASSUME Inv, [Next]_vars
    PROVE  StoreInv'
<1>0. /\ SyncStoreTypeOK /\ StoreInv /\ MaxHeight \in Nat
      /\ storeHead \in 0..MaxHeight /\ storeTail \in 0..MaxHeight /\ stored \subseteq Heights
  BY SyncStoreAssumption DEF Inv, SyncStoreTypeOK
<1>1. CASE UNCHANGED <<storeHead, storeTail, stored>>
  BY <1>0, <1>1 DEF StoreInv
<1>2. CASE StoreApplies
  <2> DEFINE b == Head(queue)
  <2>1. b = Head(queue)
    OBVIOUS
  <2> HIDE DEF b
  <2>2. b \in Spans /\ b[1] \in Heights /\ b[2] \in Heights /\ b[1] <= b[2]
    BY <1>2, <2>1, ApplyIs, SpanTypes
  <2>3. /\ stored' = stored \cup b[1]..b[2]
        /\ storeHead' \in Heights /\ storeTail' \in Heights
        /\ storeHead # 0 => storeHead <= storeHead' /\ \A i \in storeHead + 1..storeHead' : i \in stored'
        /\ storeTail # 0 => storeTail' <= storeTail /\ \A i \in storeTail'..storeTail - 1 : i \in stored'
        /\ storeHead = 0 => b[2] <= storeHead' /\ \A i \in b[2] + 1..storeHead' : i \in stored'
        /\ storeTail = 0 => storeTail' <= b[1] /\ \A i \in storeTail'..b[1] - 1 : i \in stored'
    BY <1>2, <2>1, ApplyIs
  <2>4. CASE storeTail = 0
    <3>1. storeTail' <= storeHead'
      BY <1>0, <2>2, <2>3, <2>4 DEF StoreInv, Heights
    <3>2. ASSUME NEW h \in storeTail'..storeHead' PROVE h \in stored'
      <4>1. h \in storeTail'..b[1] - 1 \/ h \in b[1]..b[2] \/ h \in b[2] + 1..storeHead'
        BY <1>0, <2>2, <2>3 DEF Heights
      <4> QED  BY <1>0, <2>3, <2>4, <4>1 DEF StoreInv
    <3> QED  BY <1>0, <2>3, <3>1, <3>2 DEF StoreInv, Heights
  <2>5. CASE storeTail # 0
    <3>1. storeTail' <= storeHead'
      BY <1>0, <2>3, <2>5 DEF StoreInv, Heights
    <3>2. ASSUME NEW h \in storeTail'..storeHead' PROVE h \in stored'
      <4>1. h \in storeTail'..storeTail - 1 \/ h \in storeTail..storeHead \/ h \in storeHead + 1..storeHead'
        BY <1>0, <2>3 DEF Heights
      <4> QED  BY <1>0, <2>3, <2>5, <4>1 DEF StoreInv
    <3> QED  BY <1>0, <2>3, <3>1, <3>2 DEF StoreInv, Heights
  <2> QED  BY <2>4, <2>5
<1>3. ASSUME NEW m \in Movers, DeleteRange(m) PROVE StoreInv'
  <2>1. /\ 0 < old[m] /\ old[m] < new[m] /\ old[m] \in 0..MaxHeight /\ new[m] \in Nat
    BY <1>3 DEF Inv, MoverInv, MoverAt, MoverTypes, DeleteRange
  <2>2. /\ storeTail' = new[m] /\ storeHead' = storeHead /\ stored' = stored \ old[m]..new[m] - 1
        /\ old[m] = storeTail /\ new[m] <= storeHead
    BY <1>3 DEF DeleteRange
  <2> QED  BY <1>0, <2>1, <2>2 DEF StoreInv
<1>4. ASSUME NEW m \in Movers, QuietMove(m) PROVE StoreInv'
  BY <1>1, <1>4, QuietFrame DEF storeVars
<1>5. ASSUME NEW m \in Movers, AppendTail(m) \/ SyncDiff(m) \/ ForceAppend(m) PROVE StoreInv'
  BY <1>1, <1>5 DEF AppendTail, SyncDiff, ForceAppend, storeVars
<1>6. CASE OtherStep
  <2>1. StoreApplies \/ UNCHANGED <<storeHead, storeTail, stored>>
    BY <1>6 DEF OtherStep, AppendCall, AppendStep, Lock, Reject, StoreAppend, StoreAppendFails, Publish,
       LockCancelled, HeadCall, HeadReturn, HeadStep, HeadCached, HeadMiss, HeadLoad, HeadPublish, storeVars
  <2> QED  BY <1>1, <1>2, <2>1
<1>7. CASE UNCHANGED vars
  BY <1>1, <1>7 DEF vars, syncStoreVars, storeVars
<1> QED
  BY <1>3, <1>4, <1>5, <1>6, <1>7, NextCases

-----------------------------------------------------------------------------
\* The semaphore.

\* A mover that moves on is in no Append.
LEMMA QuietIdle ==
    ASSUME Inv, NEW m \in Movers, QuietMove(m)
    PROVE  pc[m] = "idle" /\ \A q \in Movers \ {m} : tpc'[q] = tpc[q]
<1>1. /\ pc[m] # "idle" => tpc[m] \in {"appending", "syncing"}
      /\ tpc \in [Movers -> Stages]
  BY DEF Inv, LockInv, MoverTypes, Stages
<1>2. \/ tpc[m] \notin {"appending", "syncing"}
      \/ pc[m] = "idle"
  BY DEF QuietMove, MoveCall, TryLock, Renew, Find, Load, Fetch, CallFails, TailAppended, Move,
     DeleteRefused, SyncAppended, SyncDone, Unlock
<1>3. UNCHANGED tpc \/ \E l \in Stages : Step(m, l)
  <2>1. Move(m) => Step(m, "moved") \/ Step(m, "delete") \/ Step(m, "sync")
    BY Zenon DEF Move
  <2> QED
    BY <2>1 DEF QuietMove, MoveCall, TryLock, Renew, Find, Load, Fetch, CallFails, TailAppended,
       DeleteRefused, SyncAppended, SyncDone, Unlock, Fail, Stages
<1>4. \A q \in Movers \ {m} : tpc'[q] = tpc[q]
  BY <1>1, <1>3 DEF Step
<1> QED
  BY <1>1, <1>2, <1>4

\* One goroutine moves.
LEMMA LockGoes ==
    ASSUME Inv, NEW p \in Procs, NEW l \in PcTypes, Goto(p, l),
           p \in Appenders => /\ l # "done" /\ (l # "idle" => batch'[p] \in Spans)
                              /\ p \in sem' <=> l \in Inside,
           p \in Readers => l \notin {"lock", "decide", "empty", "publish"},
           \A a \in Appenders \ {p} : batch'[a] = batch[a] /\ (a \in sem' <=> a \in sem),
           \A a, b \in sem' : a = b,
           p \in Movers => l = "idle" \/ tpc'[p] \in {"appending", "syncing"},
           \A m \in Movers \ {p} : tpc'[m] = tpc[m]
    PROVE  LockInv'
<1>1. pc \in [Procs -> PcTypes] /\ Appenders \subseteq Procs /\ Readers \subseteq Procs /\ Movers \subseteq Procs
  BY SyncTailAssumption DEF Inv, SyncStoreTypeOK, PcTypes, Procs
<1>2. pc'[p] = l /\ \A q \in Procs \ {p} : pc'[q] = pc[q]
  BY <1>1 DEF Goto
<1>3. LockInv
  BY DEF Inv
<1>4. \A a \in Appenders : /\ a \in sem' <=> pc'[a] \in Inside
                           /\ pc'[a] # "done"
                           /\ pc'[a] # "idle" => batch'[a] \in Spans
  BY <1>1, <1>2, <1>3 DEF LockInv
<1>5. \A r \in Readers : pc'[r] \notin {"lock", "decide", "empty", "publish"}
  BY <1>1, <1>2, <1>3 DEF LockInv
<1>6. \A m \in Movers : pc'[m] # "idle" => tpc'[m] \in {"appending", "syncing"}
  BY <1>1, <1>2, <1>3 DEF LockInv
<1> QED
  BY <1>4, <1>5, <1>6 DEF LockInv

\* Every step keeps the semaphore with one appender.
LEMMA LockStep ==
    ASSUME Inv, [Next]_vars
    PROVE  LockInv'
<1>0. /\ SyncStoreTypeOK /\ LockInv /\ MaxHeight \in Nat /\ Appenders \subseteq Procs /\ Readers \subseteq Procs
      /\ Movers \subseteq Appenders /\ \A a \in Appenders : a \notin Readers
      /\ pc \in [Procs -> PcTypes] /\ batch \in [Appenders -> Spans \cup {None}] /\ sem \subseteq Appenders
      /\ tpc \in [Movers -> Stages]
  BY SyncStoreAssumption, SyncTailAssumption DEF Inv, Procs, SyncStoreTypeOK, PcTypes, MoverTypes, Stages
<1>1. CASE UNCHANGED <<sem, pc, batch>> /\ \A q \in Movers : pc[q] = "idle" \/ tpc'[q] = tpc[q]
  BY <1>0, <1>1 DEF LockInv
<1>2. ASSUME NEW m \in Movers, QuietMove(m) PROVE LockInv'
  <2>1. UNCHANGED <<sem, pc, batch>>
    BY <1>2, QuietFrame
  <2> QED  BY <1>1, <1>2, <2>1, QuietIdle
<1>3. ASSUME NEW m \in Movers, ForceAppend(m) \/ DeleteRange(m) PROVE LockInv'
  <2>1. UNCHANGED <<sem, pc, batch>>
    BY <1>3 DEF ForceAppend, DeleteRange
  <2>2. pc[m] = "idle"
    BY <1>0, <1>3 DEF ForceAppend, DeleteRange, LockInv
  <2>3. \A q \in Movers \ {m} : tpc'[q] = tpc[q]
    BY <1>0, <1>3 DEF ForceAppend, DeleteRange, Step
  <2> QED  BY <1>1, <2>1, <2>2, <2>3
<1>4. ASSUME NEW a \in Appenders, NEW b \in Spans, StartAppend(a, b), UNCHANGED sem,
             a \in Movers => tpc'[a] \in {"appending", "syncing"},
             \A m \in Movers \ {a} : tpc'[m] = tpc[m]
      PROVE  LockInv'
  <2>1. pc[a] = "idle"
    BY <1>4 DEF StartAppend
  <2>2. CASE UNCHANGED <<batch, pc>>
    BY <1>1, <1>4, <2>1, <2>2
  <2>3. CASE batch' = [batch EXCEPT ![a] = b] /\ Goto(a, "lock")
    <3>1. batch'[a] = b /\ \A x \in Appenders \ {a} : batch'[x] = batch[x]
      BY <1>0, <2>3
    <3>2. a \notin sem
      BY <1>0, <2>1 DEF LockInv, Inside
    <3>3. \A x, y \in sem' : x = y
      BY <1>0, <1>4 DEF LockInv
    <3> QED  BY <1>0, <1>4, <2>3, <3>1, <3>2, <3>3, LockGoes DEF PcTypes, Inside
  <2> QED  BY <1>4, <2>2, <2>3 DEF StartAppend
<1>5. ASSUME NEW m \in Movers, AppendTail(m) \/ SyncDiff(m) PROVE LockInv'
  <2>1. PICK b \in Spans : StartAppend(m, b)
    BY <1>5, MoverAppends
  <2>2. UNCHANGED sem /\ (Step(m, "appending") \/ Step(m, "syncing"))
    BY <1>5 DEF AppendTail, SyncDiff
  <2>3. tpc'[m] \in {"appending", "syncing"} /\ \A q \in Movers \ {m} : tpc'[q] = tpc[q]
    BY <1>0, <2>2 DEF Step
  <2> QED  BY <1>0, <1>4, <2>1, <2>2, <2>3
<1>6. ASSUME OtherStep, UNCHANGED tailVars PROVE LockInv'
  <2>0. \A m \in Movers : tpc'[m] = tpc[m]
    BY <1>6 DEF tailVars
  <2>1. ASSUME NEW a \in Appenders \ Movers, NEW b \in Batches, AppendCall(a, b) PROVE LockInv'
    BY <1>4, <2>0, <2>1, SyncStoreAssumption DEF AppendCall
  <2>2. ASSUME NEW a \in Appenders, NEW e, Leave(a, e) PROVE LockInv'
    <3>1. sem' = sem \ {a} /\ Goto(a, "idle") /\ batch' = [batch EXCEPT ![a] = None]
      BY <2>2 DEF Leave
    <3>2. \A x \in Appenders \ {a} : batch'[x] = batch[x]
      BY <1>0, <3>1
    <3>3. \A x, y \in sem' : x = y
      BY <1>0, <3>1 DEF LockInv
    <3> QED  BY <1>0, <2>0, <3>1, <3>2, <3>3, LockGoes DEF PcTypes, Inside
  <2>3. ASSUME NEW a \in Appenders, Lock(a) PROVE LockInv'
    <3>1. sem = {} /\ sem' = {a} /\ Goto(a, "head") /\ UNCHANGED batch /\ pc[a] = "lock"
      BY <2>3 DEF Lock
    <3>2. batch[a] \in Spans /\ (a \in Movers => tpc[a] \in {"appending", "syncing"})
      BY <1>0, <3>1 DEF LockInv
    <3> QED  BY <1>0, <2>0, <3>1, <3>2, LockGoes DEF PcTypes, Inside
  <2>4. ASSUME NEW p \in Procs, NEW l \in PcTypes, Goto(p, l), UNCHANGED <<sem, batch>>,
               p \in Appenders => pc[p] \in Inside /\ l \in Inside,
               p \in Readers => l \notin {"lock", "decide", "empty", "publish"}
        PROVE  LockInv'
    <3>1. p \in Appenders => batch[p] \in Spans /\ p \in sem /\ l \notin {"done", "idle"}
      BY <1>0, <2>4 DEF LockInv, Inside
    <3>2. p \in Movers => tpc[p] \in {"appending", "syncing"}
      BY <1>0, <2>4 DEF LockInv, Inside
    <3>3. \A x, y \in sem' : x = y
      BY <1>0, <2>4 DEF LockInv
    <3> QED  BY <1>0, <2>0, <2>4, <3>1, <3>2, <3>3, LockGoes
  <2>5. ASSUME NEW a \in Appenders, StoreAppend(a) PROVE LockInv'
    BY <1>0, <2>4, <2>5 DEF StoreAppend, MayAppend, PcTypes, Inside
  <2>6. ASSUME NEW p \in Procs, HeadStep(p) PROVE LockInv'
    <3>1. UNCHANGED <<sem, batch>> /\ pc[p] \in {"head", "storeHead", "cas"}
      BY <2>6 DEF HeadStep, HeadCached, HeadMiss, HeadLoad, HeadPublish
    <3>2. PICK l \in {"storeHead", "cas", "done", "empty", "decide"} :
            Goto(p, l) /\ (p \in Readers => l \notin {"empty", "decide"}) /\ (l = "done" => p \in Readers)
      <4>1. HeadLoad(p) => \/ Goto(p, "cas")
                           \/ p \in Readers /\ Goto(p, "done")
                           \/ p \notin Readers /\ Goto(p, "empty")
        BY Zenon DEF HeadLoad
      <4>2. ~HeadLoad(p) => \/ Goto(p, "storeHead")
                            \/ p \in Readers /\ Goto(p, "done")
                            \/ p \notin Readers /\ Goto(p, "decide")
        BY <2>6 DEF HeadStep, HeadCached, HeadMiss, HeadPublish, AfterHead
      <4> QED  BY <4>1, <4>2
    <3> QED  BY <1>0, <2>4, <3>1, <3>2 DEF PcTypes, Inside
  <2>7. ASSUME NEW r \in Readers, HeadCall(r) \/ HeadReturn(r) PROVE LockInv'
    <3>1. UNCHANGED <<sem, batch>> /\ (Goto(r, "head") \/ Goto(r, "idle"))
      BY <2>7 DEF HeadCall, HeadReturn
    <3> QED  BY <1>0, <2>4, <3>1 DEF PcTypes
  <2>8. CASE StoreApplies
    BY <1>1, <2>0, <2>8 DEF StoreApplies
  <2>9. ASSUME NEW a \in Appenders, Reject(a) \/ StoreAppendFails(a) \/ LockCancelled(a) \/ Publish(a)
        PROVE  LockInv'
    BY <2>2, <2>9 DEF Reject, StoreAppendFails, LockCancelled, Publish
  <2> QED
    BY <1>6, <2>1, <2>3, <2>5, <2>6, <2>7, <2>8, <2>9 DEF OtherStep, AppendStep
<1>7. CASE UNCHANGED vars
  BY <1>1, <1>7 DEF vars, syncStoreVars, tailVars
<1> QED
  BY <1>2, <1>3, <1>5, <1>6, <1>7, NextCases

-----------------------------------------------------------------------------
\* The heads read and published.

\* What belongs to an appender stays.
Still(a) ==
    /\ pc'[a] = pc[a] /\ loc'[a] = loc[a] /\ batch'[a] = batch[a] /\ outcome'[a] = outcome[a]
    /\ a \in Movers => tpc'[a] = tpc[a]

\* Only the goroutine p moves.
Only(p) ==
    /\ \A q \in Procs \ {p} : pc'[q] = pc[q] /\ loc'[q] = loc[q]
    /\ \A a \in Appenders \ {p} : Still(a)

\* A step that assigns to the entries of p only.
LEMMA OnlyIs ==
    ASSUME Inv, NEW p \in Procs,
           UNCHANGED pc \/ \E l : Goto(p, l),
           UNCHANGED loc \/ \E h : Read(p, h),
           UNCHANGED batch \/ \E b : batch' = [batch EXCEPT ![p] = b],
           UNCHANGED outcome \/ \E o : outcome' = [outcome EXCEPT ![p] = o],
           \A m \in Movers \ {p} : tpc'[m] = tpc[m]
    PROVE  Only(p)
<1>0. /\ Appenders \subseteq Procs /\ Movers \subseteq Appenders
      /\ pc \in [Procs -> PcTypes] /\ loc \in [Procs -> 0..MaxHeight]
      /\ batch \in [Appenders -> Spans \cup {None}] /\ outcome \in [Appenders -> Outcomes]
  BY SyncTailAssumption DEF Inv, SyncStoreTypeOK, PcTypes, Outcomes, Procs
<1>1. \A q \in Procs \ {p} : pc'[q] = pc[q]
  BY <1>0 DEF Goto
<1>2. \A q \in Procs \ {p} : loc'[q] = loc[q]
  BY <1>0 DEF Read
<1>3. \A a \in Appenders \ {p} : batch'[a] = batch[a]
  BY <1>0
<1>4. \A a \in Appenders \ {p} : outcome'[a] = outcome[a]
  BY <1>0
<1> QED
  BY <1>0, <1>1, <1>2, <1>3, <1>4 DEF Only, Still

\* An appender that stands still.
LEMMA HeadAtStill ==
    ASSUME NEW a, HeadAt(a), Still(a), UNCHANGED <<cached, storeHead, storeTail, stored, queue>>
    PROVE  HeadAt(a)'
BY DEF HeadAt, Still, Begun, FirstBatch, advance

\* A step of one goroutine that leaves the store and the cached head alone.
LEMMA HeadGoes ==
    ASSUME Inv, NEW p \in Procs, Only(p), UNCHANGED <<cached, storeHead, storeTail, stored, queue>>,
           pc'[p] = "cas" => loc'[p] # 0 /\ loc'[p] <= storeHead,
           p \in Appenders => HeadAt(p)',
           p \in Appenders => ~(pc[p] = "publish" /\ loc[p] = 0),
           p \in Movers => ForceAt(p)'
    PROVE  HeadInv'
<1>0. HeadInv /\ Appenders \subseteq Procs /\ Movers \subseteq Appenders
  BY SyncTailAssumption DEF Inv, Procs
<1>1. \A q \in Procs : pc'[q] = "cas" => loc'[q] # 0 /\ loc'[q] <= storeHead'
  BY <1>0 DEF HeadInv, Only
<1>2. \A a \in Appenders : HeadAt(a)'
  <2>1. ASSUME NEW a \in Appenders \ {p} PROVE HeadAt(a)'
    <3>1. HeadAt(a) /\ Still(a)
      BY <1>0 DEF HeadInv, Only
    <3> QED  BY <3>1, HeadAtStill
  <2> QED  BY <2>1
<1>3. \A m \in Movers : ForceAt(m)'
  <2>1. ASSUME NEW m \in Movers \ {p} PROVE ForceAt(m)'
    BY <1>0 DEF HeadInv, Only, Still, ForceAt, Begun
  <2> QED  BY <2>1
<1>4. queue' # <<>> => Begun' \/ \E a \in Appenders : pc'[a] = "publish" /\ loc'[a] = 0
  <2>1. CASE Begun
    BY <2>1 DEF Begun
  <2>2. ASSUME queue # <<>>, ~Begun PROVE \E a \in Appenders : pc'[a] = "publish" /\ loc'[a] = 0
    <3>1. PICK a \in Appenders : pc[a] = "publish" /\ loc[a] = 0
      BY <1>0, <2>2 DEF HeadInv
    <3>2. a # p /\ Still(a)
      BY <3>1 DEF Only
    <3> QED  BY <3>1, <3>2 DEF Still
  <2> QED  BY <2>1, <2>2
<1> QED
  BY <1>1, <1>2, <1>3, <1>4 DEF HeadInv

\* An Append starts.
LEMMA HeadStart ==
    ASSUME Inv, NEW a \in Appenders, NEW b \in Spans, StartAppend(a, b),
           UNCHANGED <<cached, storeHead, storeTail, stored, queue, loc>>,
           (a \in Movers => tpc'[a] = "syncing") => Begun,
           a \in Movers => tpc'[a] # "force",
           \A m \in Movers \ {a} : tpc'[m] = tpc[m]
    PROVE  HeadInv'
<1>0. /\ a \in Procs /\ pc[a] = "idle" /\ pc \in [Procs -> PcTypes] /\ outcome \in [Appenders -> Outcomes]
  BY DEF Inv, SyncStoreTypeOK, PcTypes, Outcomes, Procs, StartAppend
<1>1. Only(a)
  BY <1>0, OnlyIs DEF StartAppend
<1>2. \/ pc'[a] = "idle" /\ Begun
      \/ pc'[a] = "lock"
  BY <1>0 DEF StartAppend, Goto, Begun
<1>3. HeadAt(a)'
  BY <1>2 DEF HeadAt, Begun
<1>4. a \in Movers => ForceAt(a)'
  BY <1>2 DEF ForceAt, Begun
<1> QED
  BY <1>0, <1>1, <1>2, <1>3, <1>4, HeadGoes

\* No other appender is in the semaphore.
LEMMA Alone ==
    ASSUME Inv, NEW a \in Appenders, pc[a] \in Inside, NEW x \in Appenders, pc[x] \in Inside
    PROVE  x = a
BY DEF Inv, LockInv

\* Nobody appends the first batch while another call moves the tail.
LEMMA OneMover ==
    ASSUME Inv, NEW m \in Movers, tpc[m] \notin {"idle", "tryLock", "appending"},
           NEW a \in Appenders
    PROVE  pc[a] # "empty" /\ ~(pc[a] = "publish" /\ loc[a] = 0)
<1>1. tailMu = m
  BY DEF Inv, MoverInv, MoverAt
<1>2. a \in Movers /\ tpc[a] = "appending" => tailMu = a
  BY DEF Inv, MoverInv, MoverAt
<1>3. HeadAt(a)
  BY DEF Inv, HeadInv
<1> QED
  BY <1>1, <1>2, <1>3 DEF HeadAt, FirstBatch

\* Every step keeps what was read and published.
LEMMA HeadInvStep ==
    ASSUME Inv, [Next]_vars
    PROVE  HeadInv'
<1>0. /\ SyncStoreTypeOK /\ HeadInv /\ LockInv /\ StoreInv /\ MaxHeight \in Nat
      /\ Appenders \subseteq Procs /\ Readers \subseteq Procs
      /\ Movers \subseteq Appenders /\ \A a \in Appenders : a \notin Readers
      /\ pc \in [Procs -> PcTypes] /\ loc \in [Procs -> 0..MaxHeight]
      /\ cached \in 0..MaxHeight /\ storeHead \in 0..MaxHeight /\ storeTail \in 0..MaxHeight
      /\ tpc \in [Movers -> Stages] /\ \A a \in Appenders : HeadAt(a)
  BY SyncStoreAssumption, SyncTailAssumption
     DEF Inv, Procs, SyncStoreTypeOK, PcTypes, MoverTypes, Stages, HeadInv
<1>1. ASSUME NEW m \in Movers, QuietMove(m) PROVE HeadInv'
  <2>1. /\ UNCHANGED <<pc, batch, loc, outcome, cached, storeHead, storeTail, stored, queue>> /\ pc[m] = "idle"
        /\ \A q \in Movers \ {m} : tpc'[q] = tpc[q]
    BY <1>1, QuietFrame, QuietIdle DEF storeVars
  <2>2. Only(m)
    BY <1>0, <2>1, OnlyIs
  <2>3. ForceAt(m)'
    <3>1. tpc'[m] = "force" => Begun
      <4>1. TailAppended(m) => tpc'[m] # "force" \/ Begun
        BY <1>0, <2>1 DEF TailAppended, HeadInv, ForceAt, Step, Fail
      <4>2. Move(m) => tpc'[m] # "force"
        <5>1. Move(m) => Step(m, "moved") \/ Step(m, "delete") \/ Step(m, "sync")
          BY Zenon DEF Move
        <5> QED  BY <1>0, <5>1 DEF Step
      <4> QED
        BY <1>0, <1>1, <4>1, <4>2 DEF QuietMove, MoveCall, TryLock, Renew, Find, Load, Fetch, CallFails,
           DeleteRefused, SyncAppended, SyncDone, Unlock, Fail, Step
    <3>2. tpc'[m] # "appending"
      <4>1. TailAppended(m) => tpc'[m] # "appending"
        BY <1>0 DEF TailAppended, Step, Fail
      <4>2. Move(m) => tpc'[m] # "appending"
        <5>1. Move(m) => Step(m, "moved") \/ Step(m, "delete") \/ Step(m, "sync")
          BY Zenon DEF Move
        <5> QED  BY <1>0, <5>1 DEF Step
      <4> QED
        BY <1>0, <1>1, <4>1, <4>2 DEF QuietMove, MoveCall, TryLock, Renew, Find, Load, Fetch, CallFails,
           DeleteRefused, SyncAppended, SyncDone, Unlock, Fail, Step
    <3> QED  BY <2>1, <3>1, <3>2 DEF ForceAt, Begun
  <2>4. HeadAt(m)'
    BY <2>1 DEF HeadAt
  <2> QED  BY <1>0, <2>1, <2>2, <2>3, <2>4, HeadGoes
<1>2. ASSUME NEW m \in Movers, AppendTail(m) \/ SyncDiff(m) PROVE HeadInv'
  <2>1. PICK b \in Spans : StartAppend(m, b)
    BY <1>2, MoverAppends
  <2>2. UNCHANGED <<cached, storeHead, storeTail, stored, queue, loc>>
    BY <1>2 DEF AppendTail, SyncDiff, storeVars
  <2>3. \/ AppendTail(m) /\ tpc'[m] = "appending"
        \/ SyncDiff(m) /\ tpc'[m] = "syncing"
    BY <1>0, <1>2 DEF AppendTail, SyncDiff, Step
  <2>4. SyncDiff(m) => Begun
    <3>1. SyncDiff(m) => tpc[m] = "sync" /\ from[m] < old[m] /\ from[m] \in Nat /\ old[m] \in Nat
      BY DEF SyncDiff, Inv, MoverTypes
    <3>2. tpc[m] # "idle" /\ old[m] # 0 => storeTail # 0
      BY DEF Inv, MoverInv, MoverAt
    <3> QED  BY <1>0, <3>1, <3>2 DEF StoreInv, Begun
  <2>5. \A q \in Movers \ {m} : tpc'[q] = tpc[q]
    BY <1>0, <1>2 DEF AppendTail, SyncDiff, Step
  <2> QED  BY <1>0, <2>1, <2>2, <2>3, <2>4, <2>5, HeadStart
<1>3. ASSUME NEW m \in Movers, ForceAppend(m) \/ DeleteRange(m) PROVE HeadInv'
  <2>1. /\ tpc[m] \notin {"idle", "tryLock", "appending", "syncing"}
        /\ UNCHANGED <<pc, batch, loc, outcome, cached, storeHead>>
    BY <1>3 DEF ForceAppend, DeleteRange
  <2>2. pc[m] = "idle"
    BY <1>0, <2>1 DEF LockInv
  <2>3. tpc'[m] \notin {"force", "appending"} /\ \A q \in Movers \ {m} : tpc'[q] = tpc[q]
    BY <1>0, <1>3 DEF ForceAppend, DeleteRange, Step
  <2>4. ASSUME NEW a \in Appenders PROVE HeadAt(a)'
    <3>1. pc[a] # "empty" /\ ~(pc[a] = "publish" /\ loc[a] = 0)
      BY <2>1, OneMover
    <3>2. CASE a = m
      BY <2>1, <2>2, <3>2 DEF HeadAt
    <3>3. CASE a # m
      BY <1>0, <2>1, <2>3, <3>1, <3>3 DEF HeadAt, Begun, advance
    <3> QED  BY <3>2, <3>3
  <2>5. \A q \in Movers : ForceAt(q)'
    BY <1>0, <2>1, <2>3 DEF HeadInv, ForceAt, Begun
  <2>6. queue' # <<>> => Begun'
    BY <1>0, <1>3, <2>1 DEF ForceAppend, DeleteRange, HeadInv, ForceAt, Begun
  <2>7. \A p \in Procs : pc'[p] = "cas" => loc'[p] # 0 /\ loc'[p] <= storeHead'
    BY <1>0, <2>1 DEF HeadInv
  <2> QED  BY <2>4, <2>5, <2>6, <2>7 DEF HeadInv
<1>4. ASSUME OtherStep, UNCHANGED tailVars PROVE HeadInv'
  <2>0. UNCHANGED tpc
    BY <1>4 DEF tailVars
  <2>1. ASSUME NEW a \in Appenders \ Movers, NEW b \in Batches, Begun, AppendCall(a, b) PROVE HeadInv'
    <3>1. b \in Spans /\ UNCHANGED <<cached, storeHead, storeTail, stored, queue, loc>> /\ StartAppend(a, b)
      BY <2>1, SyncStoreAssumption DEF AppendCall, storeVars
    <3> QED  BY <2>0, <2>1, <3>1, HeadStart
  \* A step with nothing to show about the goroutine's place.
  <2>2. ASSUME NEW p \in Procs, Only(p), UNCHANGED <<cached, storeHead, storeTail, stored, queue>>,
               pc[p] # "publish", pc'[p] # "cas", p \in Appenders => HeadAt(p)',
               p \in Appenders => pc'[p] # "idle" \/ Begun \/ outcome'[p] # "nonAdjacent"
        PROVE  HeadInv'
    <3>1. p \in Movers => ForceAt(p)'
      BY <1>0, <2>0, <2>2 DEF ForceAt, Begun, HeadInv
    <3> QED  BY <2>2, <3>1, HeadGoes
  <2>3. ASSUME NEW a \in Appenders, Reject(a) \/ StoreAppendFails(a) \/ LockCancelled(a) PROVE HeadInv'
    <3>1. PICK e \in {"nonAdjacent", "error"} : Leave(a, e) /\ (e = "nonAdjacent" => Begun)
      BY <1>0, <2>3 DEF Reject, StoreAppendFails, LockCancelled, HeadAt, Begun
    <3>2. Only(a)
      BY <1>0, <2>0, <3>1, OnlyIs DEF Leave
    <3>3. pc'[a] = "idle" /\ (outcome'[a] = "nonAdjacent" => Begun)
      BY <1>0, <3>1 DEF Leave, Goto, SyncStoreTypeOK
    <3>4. UNCHANGED <<cached, storeHead, storeTail, stored, queue>> /\ pc[a] # "publish"
      BY <2>3 DEF Reject, StoreAppendFails, LockCancelled, MayAppend, storeVars
    <3>5. HeadAt(a)'
      BY <3>3 DEF HeadAt
    <3> QED  BY <1>0, <2>2, <3>2, <3>3, <3>4, <3>5
  <2>4. ASSUME NEW a \in Appenders, Lock(a) PROVE HeadInv'
    <3>1. Only(a)
      BY <1>0, <2>0, <2>4, OnlyIs DEF Lock
    <3>2. /\ UNCHANGED <<cached, storeHead, storeTail, stored, queue>>
          /\ pc[a] = "lock" /\ pc'[a] = "head"
      BY <1>0, <2>4 DEF Lock, Goto, storeVars
    <3>3. HeadAt(a)'
      BY <1>0, <2>0, <3>2 DEF HeadAt, Begun
    <3> QED  BY <1>0, <2>2, <3>1, <3>2, <3>3
  <2>5. ASSUME NEW p \in Procs, HeadCached(p) PROVE HeadInv'
    <3>1. Only(p)
      BY <2>0, <2>5, OnlyIs DEF HeadCached
    <3>2. /\ UNCHANGED <<cached, storeHead, storeTail, stored, queue>>
          /\ pc[p] = "head" /\ pc'[p] \in {"done", "decide"} /\ loc'[p] = cached /\ cached # 0
      BY <1>0, <2>5 DEF HeadCached, Goto, Read, AfterHead, storeVars
    <3>3. HeadAt(p)'
      BY <3>2 DEF HeadAt
    <3> QED  BY <2>2, <3>1, <3>2, <3>3
  <2>6. ASSUME NEW p \in Procs, HeadMiss(p) PROVE HeadInv'
    <3>1. Only(p)
      BY <2>0, <2>6, OnlyIs DEF HeadMiss
    <3>2. /\ UNCHANGED <<cached, storeHead, storeTail, stored, queue>>
          /\ pc[p] = "head" /\ pc'[p] = "storeHead" /\ cached = 0
      BY <1>0, <2>6 DEF HeadMiss, Goto, storeVars
    <3>3. p \in Appenders => HeadAt(p)'
      BY <1>0, <2>0, <3>2 DEF HeadAt, Begun
    <3> QED  BY <2>2, <3>1, <3>2, <3>3
  <2>7. ASSUME NEW p \in Procs, HeadLoad(p) PROVE HeadInv'
    <3>1. Only(p)
      BY <2>0, <2>7, OnlyIs DEF HeadLoad
    <3>2. /\ UNCHANGED <<cached, storeHead, storeTail, stored, queue, outcome>>
          /\ pc[p] = "storeHead" /\ loc'[p] = storeHead
      BY <1>0, <2>7 DEF HeadLoad, Read, storeVars
    <3>3. \/ storeHead # 0 /\ Goto(p, "cas")
          \/ storeHead = 0 /\ p \in Readers /\ Goto(p, "done")
          \/ storeHead = 0 /\ p \notin Readers /\ Goto(p, "empty")
      BY <2>7, Zenon DEF HeadLoad
    <3>4. CASE storeHead # 0 /\ Goto(p, "cas")
      <4>1. pc'[p] = "cas"
        BY <1>0, <3>4 DEF Goto
      <4>2. p \in Movers => tpc[p] # "force"
        BY <1>0, <3>2 DEF LockInv
      <4>3. HeadAt(p)' /\ (p \in Movers => ForceAt(p)')
        BY <2>0, <4>1, <4>2 DEF HeadAt, ForceAt
      <4> QED  BY <1>0, <3>1, <3>2, <3>4, <4>1, <4>3, HeadGoes
    <3>5. CASE storeHead = 0 /\ p \in Readers /\ Goto(p, "done")
      <4>1. pc'[p] = "done" /\ p \notin Appenders
        BY <1>0, <3>5 DEF Goto
      <4> QED  BY <2>2, <3>1, <3>2, <4>1
    <3>6. CASE storeHead = 0 /\ p \notin Readers /\ Goto(p, "empty")
      <4>1. pc'[p] = "empty" /\ p \in Appenders
        BY <1>0, <3>6 DEF Goto, Procs
      <4>2. cached = 0 /\ p \in Movers /\ tpc[p] = "appending"
        BY <1>0, <3>2, <3>6, <4>1 DEF HeadAt, LockInv
      <4>3. queue = <<>>
        <5>1. ASSUME NEW x \in Appenders, pc[x] = "publish" PROVE FALSE
          BY <3>2, <4>1, <5>1, Alone DEF Inside
        <5> QED  BY <1>0, <3>6, <4>2, <5>1 DEF HeadInv, Begun
      <4>4. HeadAt(p)'
        BY <2>0, <3>2, <3>6, <4>1, <4>2, <4>3 DEF HeadAt
      <4> QED  BY <2>2, <3>1, <3>2, <4>1, <4>4
    <3> QED  BY <3>3, <3>4, <3>5, <3>6
  <2>8. ASSUME NEW p \in Procs, HeadPublish(p) PROVE HeadInv'
    <3>1. Only(p)
      BY <2>0, <2>8, OnlyIs DEF HeadPublish
    <3>2. /\ UNCHANGED <<storeHead, storeTail, stored, queue, outcome>>
          /\ pc[p] = "cas" /\ loc'[p] = cached' /\ cached' = IF cached = 0 THEN loc[p] ELSE cached
          /\ pc'[p] = AfterHead(p)
      BY <1>0, <2>8 DEF HeadPublish, Read, Goto, storeVars
    <3>3. loc[p] # 0 /\ loc[p] <= storeHead /\ storeHead # 0 /\ cached' # 0 /\ loc[p] \in 0..MaxHeight
      BY <1>0, <3>2 DEF HeadInv
    <3>4. \A q \in Procs : pc'[q] = "cas" => loc'[q] # 0 /\ loc'[q] <= storeHead'
      BY <1>0, <3>1, <3>2, <3>3 DEF HeadInv, Only, AfterHead
    <3>5. Begun'
      BY <3>2, <3>3 DEF Begun
    <3>6. ASSUME NEW a \in Appenders PROVE HeadAt(a)'
      <4>1. CASE a = p
        BY <3>2, <3>3, <4>1 DEF HeadAt, AfterHead
      <4>2. CASE a # p
        <5>1. HeadAt(a) /\ Still(a)
          BY <1>0, <3>1, <4>2 DEF Only
        <5>2. pc[a] # "empty"
          BY <3>3, <5>1 DEF HeadAt
        <5>3. pc[a] \in {"decide", "publish"} /\ loc[a] # 0 => cached' = cached
          BY <3>2, <5>1 DEF HeadAt
        <5>4. ASSUME pc[a] = "publish", loc[a] = 0 PROVE FirstBatch(a)'
          <6>1. FirstBatch(a) /\ batch[a] \in Spans
            BY <1>0, <5>1, <5>4 DEF HeadAt, LockInv
          <6>2. /\ storeTail = batch[a][1] /\ storeHead = batch[a][2]
                /\ queue = <<>> /\ stored = batch[a][1]..batch[a][2] /\ cached <= batch[a][2]
            BY <3>3, <6>1 DEF FirstBatch
          <6>3. cached' <= batch[a][2]
            BY <3>2, <3>3, <6>2
          <6> QED  BY <2>0, <3>2, <5>1, <6>1, <6>2, <6>3 DEF FirstBatch, Still
        <5>5. pc[a] = "decide" => loc[a] # 0
          BY <5>1 DEF HeadAt
        <5> QED  BY <2>0, <3>2, <3>3, <3>5, <5>1, <5>2, <5>3, <5>4, <5>5 DEF HeadAt, Still, advance
      <4> QED  BY <4>1, <4>2
    <3> QED  BY <3>4, <3>5, <3>6 DEF HeadInv, ForceAt
  <2>9. ASSUME NEW r \in Readers, HeadCall(r) \/ HeadReturn(r) PROVE HeadInv'
    <3>1. Only(r) /\ r \in Procs
      BY <1>0, <2>0, <2>9, OnlyIs DEF HeadCall, HeadReturn
    <3>2. UNCHANGED <<cached, storeHead, storeTail, stored, queue>> /\ pc'[r] \in {"head", "idle"}
          /\ pc[r] # "publish" /\ r \notin Appenders
      BY <1>0, <2>9 DEF HeadCall, HeadReturn, Goto, storeVars
    <3> QED  BY <2>2, <3>1, <3>2
  <2>10. ASSUME NEW a \in Appenders, StoreAppend(a) PROVE HeadInv'
    <3>1. /\ UNCHANGED <<cached, storeHead, storeTail, stored, batch, loc, outcome>>
          /\ queue' = Append(queue, batch[a]) /\ pc'[a] = "publish" /\ MayAppend(a)
          /\ \A q \in Procs \ {a} : pc'[q] = pc[q]
      BY <1>0, <2>10 DEF StoreAppend, Goto
    <3>2. pc[a] \in Inside /\ batch[a] \in Spans
      BY <1>0, <3>1 DEF MayAppend, Inside, LockInv
    <3>3. HeadAt(a)' /\ (loc[a] # 0 => Begun)
      <4>1. CASE pc[a] = "empty"
        <5>1. a \in Movers /\ tpc[a] = "appending" /\ loc[a] = 0 /\ storeHead = 0 /\ queue = <<>> /\ cached = 0
          BY <1>0, <4>1 DEF HeadAt
        <5>2. queue' = <<batch[a]>>
          BY <3>1, <5>1
        <5> QED  BY <2>0, <3>1, <5>1, <5>2 DEF HeadAt, FirstBatch
      <4>2. CASE pc[a] = "decide"
        <5>1. cached # 0 /\ loc[a] = cached /\ (advance(a) => batch[a][1] = loc[a] + 1)
          BY <1>0, <3>1, <4>2 DEF HeadAt, MayAppend
        <5> QED  BY <3>1, <5>1 DEF HeadAt, advance, Begun
      <4> QED  BY <3>1, <4>1, <4>2 DEF MayAppend
    <3>4. ASSUME NEW x \in Appenders \ {a} PROVE HeadAt(x)'
      <4>1. pc[x] \notin Inside /\ pc'[x] = pc[x]
        BY <1>0, <3>1, <3>2, Alone
      <4> QED  BY <1>0, <2>0, <3>1, <4>1 DEF HeadAt, Begun, Inside
    <3>5. \A m \in Movers : ForceAt(m)'
      BY <1>0, <2>0, <3>1 DEF HeadInv, ForceAt, Begun
    <3>6. Begun' \/ \E x \in Appenders : pc'[x] = "publish" /\ loc'[x] = 0
      BY <3>1, <3>3 DEF Begun
    <3>7. \A q \in Procs : pc'[q] = "cas" => loc'[q] # 0 /\ loc'[q] <= storeHead'
      BY <1>0, <3>1 DEF HeadInv
    <3> QED  BY <3>3, <3>4, <3>5, <3>6, <3>7 DEF HeadInv
  <2>11. ASSUME NEW a \in Appenders, Publish(a) PROVE HeadInv'
    <3>1. /\ UNCHANGED <<storeHead, storeTail, stored, queue>> /\ Leave(a, "nil") /\ pc[a] = "publish"
          /\ cached' = IF advance(a) THEN batch[a][2] ELSE cached
      BY <2>11 DEF Publish, storeVars
    <3>2. Only(a)
      BY <1>0, <2>0, <3>1, OnlyIs DEF Leave
    <3>3. batch[a] \in Spans /\ batch[a][1] \in Heights /\ batch[a][2] \in Heights /\ loc[a] \in 0..MaxHeight
      BY <1>0, <3>1, SpanTypes DEF LockInv
    <3>4. cached' # 0
      <4>1. batch[a][2] # 0 /\ (loc[a] = 0 => advance(a))
        BY <1>0, <3>3 DEF advance, Heights
      <4>2. loc[a] # 0 => cached # 0
        BY <1>0, <3>1 DEF HeadAt
      <4> QED  BY <3>1, <4>1, <4>2
    <3>5. Begun'
      BY <3>4 DEF Begun
    <3>6. pc'[a] = "idle"
      BY <1>0, <3>1 DEF Leave, Goto
    <3>7. ASSUME NEW x \in Appenders PROVE HeadAt(x)'
      <4>1. CASE x = a
        BY <3>6, <4>1 DEF HeadAt
      <4>2. CASE x # a
        <5>1. pc[x] \notin Inside /\ pc'[x] = pc[x]
          BY <3>1, <3>2, <4>2, Alone DEF Inside, Only, Still
        <5> QED  BY <3>5, <5>1 DEF HeadAt, Inside
      <4> QED  BY <4>1, <4>2
    <3>8. \A q \in Procs : pc'[q] = "cas" => loc'[q] # 0 /\ loc'[q] <= storeHead'
      BY <1>0, <3>1, <3>2, <3>6 DEF HeadInv, Only
    <3> QED  BY <3>5, <3>7, <3>8 DEF HeadInv, ForceAt
  <2>12. CASE StoreApplies
    <3> DEFINE b == Head(queue)
    <3>1. b = Head(queue)
      OBVIOUS
    <3> HIDE DEF b
    <3>2. /\ b \in Spans /\ stored' = stored \cup b[1]..b[2]
          /\ storeHead' \in Heights /\ storeTail' \in Heights
          /\ storeHead # 0 => storeHead <= storeHead'
          /\ storeHead = 0 => b[2] <= storeHead' /\ \A i \in b[2] + 1..storeHead' : i \in stored'
          /\ storeTail = 0 => storeTail' <= b[1] /\ \A i \in storeTail'..b[1] - 1 : i \in stored'
      BY <2>12, <3>1, ApplyIs
    <3>3. /\ UNCHANGED <<cached, pc, batch, loc, outcome>> /\ queue # <<>> /\ queue' = Tail(queue)
      BY <2>12 DEF StoreApplies
    <3>4. storeHead' # 0 /\ storeHead <= storeHead' /\ Begun'
      BY <1>0, <3>2 DEF Begun, Heights
    <3>5. ASSUME NEW a \in Appenders PROVE HeadAt(a)'
      <4>1. pc[a] # "empty"
        BY <1>0, <3>3 DEF HeadAt
      <4>2. ASSUME pc[a] = "publish", loc[a] = 0 PROVE FirstBatch(a)'
        <5>1. FirstBatch(a)
          BY <1>0, <4>2 DEF HeadAt
        <5>2. a \in Movers /\ tpc[a] = "appending" /\ storeHead = 0 /\ queue = <<batch[a]>> /\ cached = 0
          BY <3>3, <5>1 DEF FirstBatch
        <5>3. b = batch[a] /\ queue' = <<>>
          BY <3>1, <3>3, <5>2
        <5>4. b[1] \in Heights /\ b[2] \in Heights /\ b[1] <= b[2]
          BY <3>2, SpanTypes
        <5>5. storeTail = 0 /\ stored' = b[1]..b[2]
          BY <1>0, <3>2, <5>2 DEF StoreInv
        <5>6. storeHead' = b[2]
          <6>1. ~(b[2] < storeHead')
            <7> SUFFICES ASSUME b[2] < storeHead' PROVE FALSE
              OBVIOUS
            <7>1. b[2] + 1 \in b[2] + 1..storeHead'
              BY <1>0, <3>2, <5>4 DEF Heights
            <7>2. b[2] + 1 \in b[1]..b[2]
              BY <3>2, <5>2, <5>5, <7>1
            <7> QED  BY <1>0, <5>4, <7>2 DEF Heights
          <6> QED  BY <1>0, <3>2, <5>2, <5>4, <6>1 DEF Heights
        <5>7. storeTail' = b[1]
          <6>1. ~(storeTail' < b[1])
            <7> SUFFICES ASSUME storeTail' < b[1] PROVE FALSE
              OBVIOUS
            <7>1. storeTail' \in storeTail'..b[1] - 1
              BY <1>0, <3>2, <5>4 DEF Heights
            <7>2. storeTail' \in b[1]..b[2]
              BY <3>2, <5>5, <7>1
            <7> QED  BY <1>0, <3>2, <5>4, <7>2 DEF Heights
          <6> QED  BY <1>0, <3>2, <5>4, <5>5, <6>1 DEF Heights
        <5>8. cached <= b[2]
          BY <1>0, <5>2, <5>4 DEF Heights
        <5> QED  BY <2>0, <3>3, <5>2, <5>3, <5>5, <5>6, <5>7, <5>8 DEF FirstBatch
      <4> QED  BY <1>0, <2>0, <3>3, <3>4, <4>1, <4>2 DEF HeadAt, advance
    <3>6. \A q \in Procs : pc'[q] = "cas" => loc'[q] # 0 /\ loc'[q] <= storeHead'
      BY <1>0, <3>2, <3>3, <3>4 DEF HeadInv, Heights
    <3> QED  BY <3>4, <3>5, <3>6 DEF HeadInv, ForceAt
  <2> QED
    BY <1>4, <2>1, <2>3, <2>4, <2>5, <2>6, <2>7, <2>8, <2>9, <2>10, <2>11, <2>12
       DEF OtherStep, AppendStep, HeadStep
<1>5. CASE UNCHANGED vars
  <2>1. UNCHANGED <<cached, storeHead, storeTail, stored, queue, pc, batch, loc, outcome, tpc>>
    BY <1>5 DEF vars, syncStoreVars, storeVars, tailVars
  <2> QED  BY <1>0, <2>1 DEF HeadInv, HeadAt, ForceAt, FirstBatch, Begun, advance
<1> QED
  BY <1>1, <1>2, <1>3, <1>4, <1>5, NextCases

-----------------------------------------------------------------------------
\* What the store has accepted.

\* What is stored or queued.
LEMMA HandedIs ==
    ASSUME NEW Q \in Seq(Spans), NEW S, NEW h \in Heights
    PROVE  h \in S \cup UNION {Q[i][1]..Q[i][2] : i \in DOMAIN Q}
             <=> h \in S \/ \E i \in 1..Len(Q) : InBatch(h, Q[i])
<1>1. \A i \in 1..Len(Q) : Q[i] \in Spans
  OBVIOUS
<1>2. \A i \in 1..Len(Q) : h \in Q[i][1]..Q[i][2] <=> InBatch(h, Q[i])
  BY <1>1, SpanTypes DEF InBatch, Heights
<1>3. DOMAIN Q = 1..Len(Q)
  OBVIOUS
<1> QED
  BY <1>2, <1>3

\* Accepting a batch.
LEMMA Accept ==
    ASSUME SyncStoreTypeOK, NEW b \in Spans, queue' = Append(queue, b), UNCHANGED <<stored, storeTail>>
    PROVE  /\ \A h \in Heights : h \in Handed \/ InBatch(h, b) => h \in Handed'
           /\ Bottom' # 0 /\ (Bottom # 0 => Bottom' = Bottom)
<1>1. queue \in Seq(Spans) /\ queue' \in Seq(Spans) /\ Len(queue') = Len(queue) + 1 /\ Len(queue) \in Nat
  BY DEF SyncStoreTypeOK
<1>2. queue'[Len(queue')] = b /\ \A i \in 1..Len(queue) : queue'[i] = queue[i]
  BY <1>1
<1>3. ASSUME NEW h \in Heights, h \in Handed \/ InBatch(h, b) PROVE h \in Handed'
  <2>1. h \in Handed' <=> h \in stored' \/ \E i \in 1..Len(queue') : InBatch(h, queue'[i])
    BY <1>1, HandedIs DEF Handed
  <2>2. h \in Handed <=> h \in stored \/ \E i \in 1..Len(queue) : InBatch(h, queue[i])
    BY <1>1, HandedIs DEF Handed
  <2>3. CASE InBatch(h, b)
    BY <1>1, <1>2, <2>1, <2>3
  <2>4. CASE h \in stored
    BY <2>1, <2>4
  <2>5. CASE \E i \in 1..Len(queue) : InBatch(h, queue[i])
    <3>1. PICK i \in 1..Len(queue) : InBatch(h, queue[i])
      BY <2>5
    <3>2. i \in 1..Len(queue') /\ queue'[i] = queue[i]
      BY <1>1, <1>2
    <3> QED  BY <2>1, <3>1, <3>2
  <2> QED  BY <1>3, <2>2, <2>3, <2>4, <2>5
<1>4. \A i \in 1..Len(queue') : queue'[i][1] # 0
  <2>1. \A c \in Spans : c[1] # 0
    BY SpanTypes, SyncStoreAssumption DEF Heights
  <2>2. \A i \in 1..Len(queue') : queue'[i] \in Spans
    BY <1>1
  <2> QED  BY <2>1, <2>2
<1>5. queue' # <<>> /\ queue'[1][1] # 0 /\ (queue # <<>> => queue'[1] = queue[1])
  BY <1>1, <1>2, <1>4
<1>6. Bottom' # 0
  BY <1>5 DEF Bottom
<1>7. Bottom # 0 => Bottom' = Bottom
  BY <1>5 DEF Bottom
<1> QED
  BY <1>3, <1>6, <1>7

\* Applying one loses nothing, and what the chain grows by at its bottom is stored.
LEMMA ApplyKeeps ==
    ASSUME Inv, StoreApplies
    PROVE  /\ \A h \in Heights : h \in Handed => h \in Handed'
           /\ Bottom' # 0 /\ Bottom \in Heights
           /\ \A h \in Heights : Bottom' <= h => Bottom <= h \/ h \in Handed'
<1> DEFINE b == Head(queue)
<1>0. SyncStoreTypeOK /\ queue \in Seq(Spans) /\ queue # <<>> /\ MaxHeight \in Nat
  BY SyncStoreAssumption DEF Inv, SyncStoreTypeOK, StoreApplies
<1>1. b = Head(queue) /\ b = queue[1]
  BY <1>0
<1> HIDE DEF b
<1>2. /\ b \in Spans /\ stored' = stored \cup b[1]..b[2] /\ storeHead' \in Heights /\ storeTail' \in Heights
      /\ storeTail # 0 => storeTail' <= storeTail /\ \A i \in storeTail'..storeTail - 1 : i \in stored'
      /\ storeTail = 0 => storeTail' <= b[1] /\ \A i \in storeTail'..b[1] - 1 : i \in stored'
  BY <1>1, ApplyIs
<1>3. /\ queue' = Tail(queue) /\ queue' \in Seq(Spans) /\ Len(queue') = Len(queue) - 1 /\ Len(queue) \in Nat \ {0}
      /\ \A i \in 1..Len(queue') : queue'[i] = queue[i + 1]
  BY <1>0 DEF StoreApplies
<1>4. b[1] \in Heights /\ b[2] \in Heights
  BY <1>2, SpanTypes
<1>5. ASSUME NEW h \in Heights, h \in Handed PROVE h \in Handed'
  <2>1. h \in Handed' <=> h \in stored' \/ \E i \in 1..Len(queue') : InBatch(h, queue'[i])
    BY <1>3, HandedIs DEF Handed
  <2>2. h \in Handed <=> h \in stored \/ \E i \in 1..Len(queue) : InBatch(h, queue[i])
    BY <1>0, HandedIs DEF Handed
  <2>3. CASE h \in stored
    BY <1>2, <2>1, <2>3
  <2>4. CASE \E i \in 1..Len(queue) : InBatch(h, queue[i])
    <3>1. PICK i \in 1..Len(queue) : InBatch(h, queue[i])
      BY <2>4
    <3>2. CASE i = 1
      <4>1. h \in b[1]..b[2]
        BY <1>1, <1>4, <3>1, <3>2 DEF InBatch, Heights
      <4> QED  BY <1>2, <2>1, <4>1
    <3>3. CASE i # 1
      <4>1. i - 1 \in 1..Len(queue') /\ (i - 1) + 1 = i
        BY <1>3, <3>3
      <4>2. queue'[i - 1] = queue[i]
        BY <1>3, <4>1
      <4> QED  BY <2>1, <3>1, <4>1, <4>2
    <3> QED  BY <3>2, <3>3
  <2> QED  BY <1>5, <2>2, <2>3, <2>4
<1>6. Bottom' = storeTail' /\ Bottom' # 0 /\ Bottom' \in Heights
  BY <1>0, <1>2 DEF Bottom, Heights
<1>7. Bottom = IF storeTail # 0 THEN storeTail ELSE b[1]
  BY <1>0, <1>1 DEF Bottom
<1>8. Bottom \in Heights
  BY <1>0, <1>4, <1>7 DEF SyncStoreTypeOK, Heights
<1>9. ASSUME NEW h \in Heights, Bottom' <= h PROVE Bottom <= h \/ h \in Handed'
  <2>1. CASE ~(Bottom <= h)
    <3>1. h \in storeTail'..Bottom - 1
      BY <1>0, <1>6, <1>8, <1>9, <2>1 DEF Heights
    <3>2. h \in stored'
      BY <1>2, <1>7, <3>1
    <3> QED  BY <3>2 DEF Handed
  <2> QED  BY <2>1
<1> QED
  BY <1>5, <1>6, <1>8, <1>9

\* Every step keeps SkipInv.
LEMMA SkipStep ==
    ASSUME Inv, [Next]_vars
    PROVE  SkipInv'
<1>0. /\ SyncStoreTypeOK /\ HeadInv /\ LockInv /\ StoreInv /\ SkipInv /\ MaxHeight \in Nat
      /\ Appenders \subseteq Procs /\ Readers \subseteq Procs
      /\ Movers \subseteq Appenders /\ \A a \in Appenders : a \notin Readers
      /\ pc \in [Procs -> PcTypes] /\ loc \in [Procs -> 0..MaxHeight] /\ queue \in Seq(Spans)
      /\ cached \in 0..MaxHeight /\ storeHead \in 0..MaxHeight /\ storeTail \in 0..MaxHeight
      /\ stored \subseteq Heights /\ \A a \in Appenders : HeadAt(a)
      /\ batch \in [Appenders -> Spans \cup {None}]
  BY SyncStoreAssumption, SyncTailAssumption
     DEF Inv, Procs, SyncStoreTypeOK, PcTypes, HeadInv
<1> DEFINE Same == \A a \in Appenders : pc'[a] = "publish" => pc[a] = "publish" /\ batch'[a] = batch[a]
<1>1. CASE UNCHANGED <<cached, storeTail, stored, queue>> /\ Same
  <2>1. Bottom' = Bottom /\ Handed' = Handed
    BY <1>1 DEF Bottom, Handed
  <2> QED  BY <1>0, <1>1, <2>1 DEF SkipInv
\* A batch is accepted.
<1>2. ASSUME NEW b \in Spans, queue' = Append(queue, b), UNCHANGED <<cached, stored, storeTail, batch>>,
             \A a \in Appenders : pc'[a] = "publish" => pc[a] = "publish" \/ batch[a] = b
      PROVE  SkipInv'
  <2>1. /\ \A h \in Heights : h \in Handed \/ InBatch(h, b) => h \in Handed'
        /\ Bottom' # 0 /\ (Bottom # 0 => Bottom' = Bottom)
    BY <1>0, <1>2, Accept
  <2>2. cached' # 0 => Bottom' # 0 /\ \A h \in Heights : Bottom' <= h /\ h <= cached' => h \in Handed'
    BY <1>0, <1>2, <2>1 DEF SkipInv
  <2>3. ASSUME NEW a \in Appenders, pc'[a] = "publish"
        PROVE  Bottom' # 0 /\ \A h \in Heights : Bottom' <= h /\ InBatch(h, batch'[a]) => h \in Handed'
    <3>1. CASE pc[a] = "publish"
      BY <1>0, <1>2, <2>1, <3>1 DEF SkipInv
    <3>2. CASE batch[a] = b
      BY <1>2, <2>1, <3>2
    <3> QED  BY <1>2, <2>3, <3>1, <3>2
  <2> QED  BY <2>2, <2>3 DEF SkipInv
<1>3. ASSUME NEW m \in Movers, QuietMove(m) PROVE SkipInv'
  BY <1>1, <1>3, QuietFrame DEF storeVars
<1>4. ASSUME NEW a \in Appenders, NEW b \in Spans, StartAppend(a, b), UNCHANGED <<cached, storeTail, stored, queue>>
      PROVE  SkipInv'
  BY <1>0, <1>1, <1>4 DEF StartAppend, Goto
<1>5. ASSUME NEW m \in Movers, AppendTail(m) \/ SyncDiff(m) PROVE SkipInv'
  <2>1. UNCHANGED <<cached, storeTail, stored, queue>>
    BY <1>5 DEF AppendTail, SyncDiff, storeVars
  <2> QED  BY <1>0, <1>4, <1>5, <2>1, MoverAppends
<1>6. ASSUME NEW m \in Movers, ForceAppend(m) PROVE SkipInv'
  <2>1. new[m] \in Heights
    BY <1>6 DEF Inv, MoverInv, MoverAt, ForceAppend
  <2>2. <<new[m], new[m]>> \in Spans
    BY <2>1, SpanTypes DEF Heights
  <2> QED  BY <1>2, <1>6, <2>2 DEF ForceAppend
<1>7. ASSUME NEW m \in Movers, DeleteRange(m) PROVE SkipInv'
  <2>1. 0 < old[m] /\ old[m] < new[m] /\ new[m] \in Nat
    BY <1>7 DEF Inv, MoverInv, MoverAt, MoverTypes, DeleteRange
  <2>2. /\ storeTail' = new[m] /\ stored' = stored \ old[m]..new[m] - 1 /\ old[m] = storeTail
        /\ UNCHANGED <<cached, queue, pc, batch>> /\ queue = <<>>
    BY <1>7 DEF DeleteRange
  <2>3. Bottom = storeTail /\ Bottom' = new[m] /\ Bottom' # 0
    BY <1>0, <2>1, <2>2 DEF Bottom
  <2>4. ASSUME NEW h \in Heights, Bottom' <= h, h \in Handed PROVE h \in Handed'
    <3>1. h \in stored
      BY <2>2, <2>4 DEF Handed
    <3>2. h \notin old[m]..new[m] - 1
      BY <1>0, <2>1, <2>3, <2>4 DEF Heights
    <3> QED  BY <2>2, <3>1, <3>2 DEF Handed
  <2>5. \A h \in Heights : Bottom' <= h => Bottom <= h
    BY <1>0, <2>1, <2>2, <2>3 DEF Heights
  <2> QED  BY <1>0, <2>2, <2>3, <2>4, <2>5 DEF SkipInv
<1>8. CASE StoreApplies
  <2>1. /\ \A h \in Heights : h \in Handed => h \in Handed'
        /\ Bottom' # 0
        /\ \A h \in Heights : Bottom' <= h => Bottom <= h \/ h \in Handed'
    BY <1>8, ApplyKeeps
  <2>2. UNCHANGED <<cached, pc, batch>>
    BY <1>8 DEF StoreApplies
  <2> QED  BY <1>0, <2>1, <2>2 DEF SkipInv
<1>9. ASSUME NEW a \in Appenders, StoreAppend(a) PROVE SkipInv'
  <2>1. batch[a] \in Spans
    BY <1>0, <1>9 DEF LockInv, StoreAppend, MayAppend
  <2>2. \A x \in Appenders : x # a => pc'[x] = pc[x]
    BY <1>0, <1>9 DEF StoreAppend, Goto
  <2> QED  BY <1>2, <1>9, <2>1, <2>2 DEF StoreAppend
\* The cached head is published.
<1>10. ASSUME NEW x, cached' = x, x # 0, UNCHANGED <<storeTail, stored, queue>>, Same, Bottom # 0,
              \A h \in Heights : Bottom <= h /\ h <= x => h \in Handed
       PROVE  SkipInv'
  <2>1. Bottom' = Bottom /\ Handed' = Handed
    BY <1>10 DEF Bottom, Handed
  <2> QED  BY <1>0, <1>10, <2>1 DEF SkipInv
<1>11. ASSUME NEW a \in Appenders, Publish(a) PROVE SkipInv'
  <2>1. /\ UNCHANGED <<storeHead, storeTail, stored, queue>> /\ Leave(a, "nil") /\ pc[a] = "publish"
        /\ cached' = IF advance(a) THEN batch[a][2] ELSE cached
    BY <1>11 DEF Publish, storeVars
  <2>2. Same
    BY <1>0, <2>1 DEF Leave, Goto
  <2>3. batch[a] \in Spans /\ batch[a][1] \in Heights /\ batch[a][2] \in Heights
    BY <1>0, <2>1, SpanTypes DEF LockInv
  <2>4. Bottom # 0 /\ \A h \in Heights : Bottom <= h /\ InBatch(h, batch[a]) => h \in Handed
    BY <1>0, <2>1 DEF SkipInv
  <2>5. CASE ~advance(a)
    BY <1>1, <2>1, <2>2, <2>5
  <2>6. CASE advance(a) /\ loc[a] # 0
    <3>1. cached # 0 /\ batch[a][1] = cached + 1
      BY <1>0, <2>1, <2>6 DEF HeadAt
    <3>2. ASSUME NEW h \in Heights, Bottom <= h, h <= batch[a][2] PROVE h \in Handed
      <4>1. h <= cached \/ InBatch(h, batch[a])
        BY <1>0, <3>1, <3>2 DEF InBatch, Heights
      <4> QED  BY <1>0, <2>4, <3>1, <3>2, <4>1 DEF SkipInv
    <3>3. cached' = batch[a][2] /\ batch[a][2] # 0
      BY <1>0, <2>1, <2>3, <2>6 DEF Heights
    <3> QED  BY <1>10, <2>1, <2>2, <2>4, <3>2, <3>3
  <2>7. CASE advance(a) /\ loc[a] = 0
    <3>1. FirstBatch(a)
      BY <1>0, <2>1, <2>7 DEF HeadAt
    <3>2. Bottom = batch[a][1]
      <4>1. CASE storeHead = 0 /\ queue = <<batch[a]>>
        BY <1>0, <4>1 DEF Bottom, StoreInv
      <4>2. CASE storeTail = batch[a][1]
        <5>1. batch[a][1] # 0
          BY <1>0, <2>3 DEF Heights
        <5> QED  BY <4>2, <5>1 DEF Bottom
      <4> QED  BY <3>1, <4>1, <4>2 DEF FirstBatch
    <3>3. \A h \in Heights : Bottom <= h /\ h <= batch[a][2] => h \in Handed
      BY <2>4, <3>2 DEF InBatch
    <3>4. cached' = batch[a][2] /\ batch[a][2] # 0
      BY <1>0, <2>1, <2>3, <2>7 DEF Heights
    <3> QED  BY <1>10, <2>1, <2>2, <2>4, <3>3, <3>4
  <2> QED  BY <2>5, <2>6, <2>7
<1>12. ASSUME NEW p \in Procs, HeadPublish(p) PROVE SkipInv'
  <2>1. /\ UNCHANGED <<storeTail, stored, queue, batch>> /\ pc[p] = "cas" /\ Goto(p, AfterHead(p))
        /\ cached' = IF cached = 0 THEN loc[p] ELSE cached
    BY <1>12 DEF HeadPublish, storeVars
  <2>2. Same
    BY <1>0, <2>1 DEF Goto, AfterHead
  <2>3. CASE cached # 0
    BY <1>1, <2>1, <2>2, <2>3
  <2>4. CASE cached = 0
    <3>1. loc[p] # 0 /\ loc[p] <= storeHead /\ loc[p] \in 0..MaxHeight
      BY <1>0, <2>1 DEF HeadInv
    <3>2. storeTail # 0
      BY <1>0, <3>1 DEF StoreInv
    <3>3. Bottom = storeTail
      BY <3>2 DEF Bottom
    <3>4. ASSUME NEW h \in Heights, Bottom <= h, h <= loc[p] PROVE h \in Handed
      <4>1. h \in storeTail..storeHead
        BY <1>0, <3>1, <3>3, <3>4 DEF Heights
      <4> QED  BY <1>0, <3>2, <4>1 DEF StoreInv, Handed
    <3> QED  BY <1>10, <2>1, <2>2, <2>4, <3>1, <3>2, <3>3, <3>4
  <2> QED  BY <2>3, <2>4
<1>13. ASSUME NEW p \in Procs, HeadCached(p) \/ HeadMiss(p) \/ HeadLoad(p) PROVE SkipInv'
  <2>1. UNCHANGED <<cached, storeTail, stored, queue, batch>>
    BY <1>13 DEF HeadCached, HeadMiss, HeadLoad, storeVars
  <2>2. PICK l \in {"storeHead", "cas", "done", "empty", "decide"} : Goto(p, l)
    <3>1. HeadLoad(p) => Goto(p, "cas") \/ Goto(p, "done") \/ Goto(p, "empty")
      BY Zenon DEF HeadLoad
    <3> QED  BY <1>13, <3>1 DEF HeadCached, HeadMiss, AfterHead
  <2>3. Same
    BY <1>0, <2>1, <2>2 DEF Goto
  <2> QED  BY <1>1, <2>1, <2>3
<1>14. ASSUME NEW r \in Readers, HeadCall(r) \/ HeadReturn(r) PROVE SkipInv'
  BY <1>0, <1>1, <1>14 DEF HeadCall, HeadReturn, Goto, storeVars
<1>15. ASSUME NEW a \in Appenders, Reject(a) \/ StoreAppendFails(a) \/ LockCancelled(a) PROVE SkipInv'
  <2>1. UNCHANGED <<cached, storeTail, stored, queue>> /\ \E e : Leave(a, e)
    BY <1>15 DEF Reject, StoreAppendFails, LockCancelled, storeVars
  <2>2. Same
    BY <1>0, <2>1 DEF Leave, Goto
  <2> QED  BY <1>1, <2>1, <2>2
<1>16. ASSUME NEW a \in Appenders, Lock(a) PROVE SkipInv'
  BY <1>0, <1>1, <1>16 DEF Lock, Goto, storeVars
<1>17. ASSUME NEW a \in Appenders, NEW b \in Batches, AppendCall(a, b) PROVE SkipInv'
  BY <1>4, <1>17, SyncStoreAssumption DEF AppendCall, storeVars
<1>18. CASE OtherStep
  BY <1>8, <1>9, <1>11, <1>12, <1>13, <1>14, <1>15, <1>16, <1>17, <1>18 DEF OtherStep, AppendStep, HeadStep
<1>19. CASE UNCHANGED vars
  BY <1>1, <1>19 DEF vars, syncStoreVars, storeVars
<1> QED
  BY <1>3, <1>5, <1>6, <1>7, <1>18, <1>19, NextCases

-----------------------------------------------------------------------------
\* The invariant holds at first.
LEMMA InitInv == Init => Inv
<1> SUFFICES ASSUME Init PROVE Inv
  OBVIOUS
<1>0. /\ MaxHeight \in Nat /\ MaxErrors \in Nat /\ MaxAppends \in Nat /\ MaxHeads \in Nat
      /\ Width \in Nat /\ MaxHeight < Width /\ Movers \subseteq Appenders /\ "free" \notin Movers
      /\ Appenders \subseteq Procs /\ Readers \subseteq Procs
  BY SyncStoreAssumption, SyncTailAssumption DEF Procs
<1>1. /\ cached = 0 /\ sem = {} /\ queue = <<>> /\ errors = 0
      /\ pc = [p \in Procs |-> "idle"] /\ batch = [a \in Appenders |-> None]
      /\ loc = [p \in Procs |-> 0] /\ outcome = [a \in Appenders |-> "none"]
      /\ calls = [p \in Procs |-> 0] /\ stored = storeTail..storeHead \ {0}
  BY DEF Init, SyncStoreInit
<1>2. \/ storeTail = 0 /\ storeHead = 0 /\ stored = {}
      \/ storeTail \in Heights /\ storeHead \in Heights /\ storeTail <= storeHead
  <2>1. PICK s \in Spans \cup {None} : storeTail = s[1] /\ storeHead = s[2]
    BY SyncStoreAssumption DEF Init, SyncStoreInit
  <2>2. CASE s = None
    BY <1>1, <2>1, <2>2 DEF None
  <2>3. CASE s \in Spans
    BY <2>1, <2>3, SpanTypes
  <2> QED  BY <2>2, <2>3
<1>3. stored \subseteq Heights /\ storeHead \in 0..MaxHeight /\ storeTail \in 0..MaxHeight
  BY <1>0, <1>1, <1>2 DEF Heights
<1>4. SyncStoreTypeOK
  BY <1>0, <1>1, <1>3 DEF SyncStoreTypeOK
<1>5. MoverTypes
  BY <1>0 DEF Init, MoverTypes
<1>6. MoverInv
  BY <1>0 DEF Init, MoverInv, MoverAt
<1>7. StoreInv
  BY <1>0, <1>1, <1>2 DEF StoreInv, Heights
<1>8. LockInv
  BY <1>0, <1>1 DEF LockInv, Inside
<1>9. HeadInv
  <2>1. \A p \in Procs : pc[p] = "idle"
    BY <1>1
  <2>2. \A m \in Movers : tpc[m] = "idle"
    BY DEF Init
  <2> QED  BY <1>0, <1>1, <2>1, <2>2 DEF HeadInv, HeadAt, ForceAt
<1>10. SkipInv
  BY <1>0, <1>1 DEF SkipInv
<1> QED
  BY <1>4, <1>5, <1>6, <1>7, <1>8, <1>9, <1>10 DEF Inv

\* The inductive invariant holds in every reachable state, for any movers, appenders, readers,
\* heights, batches and scenarios.
THEOREM SyncTailInvariant == Spec => []Inv
<1>1. Init => Inv
  BY InitInv
<1>2. Inv /\ [Next]_vars => Inv'
  BY StoreTypeStep, MoverStep, StoreStep, LockStep, HeadInvStep, SkipStep DEF Inv
<1> QED
  BY <1>1, <1>2, PTL DEF Spec

\* SyncTailTypeOK: among others, a call is in subjectiveTail past TryLock exactly while it holds
\* tailMu, on every return path, and the unsigned estimate of findTailHeight stays a height.
THEOREM SyncTailTypes == Spec => []SyncTailTypeOK
<1>1. Inv => SyncTailTypeOK
  <2> SUFFICES ASSUME Inv PROVE SyncTailTypeOK
    OBVIOUS
  <2>1. SyncStoreTypeOK /\ MoverTypes /\ \A m \in Movers : MoverAt(m)
    BY DEF Inv, MoverInv
  <2>2. \A m \in Movers : (tailMu = m) = (tpc[m] \notin {"idle", "tryLock"})
    BY <2>1 DEF MoverAt
  <2>3. \A m \in Movers : new[m] \in 0..Width - 1
    BY <2>1 DEF MoverTypes
  <2> QED  BY <2>1, <2>2, <2>3 DEF SyncTailTypeOK, MoverTypes
<1> QED
  BY <1>1, SyncTailInvariant, PTL

\* "publish only after a successful Store.Append, otherwise syncer skips the failed heights": for any
\* number of appenders, readers and tail moves, the store has accepted everything from its tail up
\* to the head that syncStore serves.
THEOREM NoHeightSkipped == Spec => []NothingSkipped
<1>1. Inv => NothingSkipped
  <2> SUFFICES ASSUME Inv, cached # 0 PROVE Bottom # 0 /\ Bottom..cached \subseteq Handed
    BY DEF NothingSkipped
  <2>1. Bottom # 0 /\ \A h \in Heights : Bottom <= h /\ h <= cached => h \in Handed
    BY DEF Inv, SkipInv
  <2>2. /\ MaxHeight \in Nat /\ cached \in 0..MaxHeight /\ storeTail \in 0..MaxHeight /\ queue \in Seq(Spans)
    BY SyncStoreAssumption DEF Inv, SyncStoreTypeOK
  <2>3. Bottom \in Heights
    <3>1. queue # <<>> => queue[1] \in Spans
      BY <2>2
    <3>2. queue # <<>> => queue[1][1] \in Heights
      BY <3>1, SpanTypes
    <3>3. storeTail # 0 => storeTail \in Heights
      BY <2>2 DEF Heights
    <3> QED  BY <2>1, <3>2, <3>3 DEF Bottom
  <2>4. \A h \in Bottom..cached : h \in Heights /\ Bottom <= h /\ h <= cached
    BY <2>2, <2>3 DEF Heights
  <2> QED  BY <2>1, <2>4
<1> QED
  BY <1>1, SyncTailInvariant, PTL

\* "don't overwrite a head published by a concurrent Append with a possibly stale store head": no
\* step of any appender, reader, tail move or of the store moves the cached head back.
THEOREM NoRegress == Spec => HeadNeverRegresses
<1>1. ASSUME Inv, [Next]_vars PROVE [cached' >= cached]_syncStoreVars
  <2>0. cached \in 0..MaxHeight /\ MaxHeight \in Nat
    BY <1>1, SyncStoreAssumption DEF Inv, SyncStoreTypeOK
  <2>1. CASE UNCHANGED cached
    BY <2>0, <2>1
  <2>2. ASSUME NEW p \in Procs, HeadPublish(p) PROVE cached' >= cached
    <3>1. loc[p] \in 0..MaxHeight
      BY <1>1 DEF Inv, SyncStoreTypeOK
    <3> QED  BY <2>0, <2>2, <3>1 DEF HeadPublish
  <2>3. ASSUME NEW a \in Appenders, Publish(a) PROVE cached' >= cached
    <3>1. batch[a] \in Spans /\ HeadAt(a) /\ loc[a] \in 0..MaxHeight
      BY <1>1, <2>3 DEF Inv, LockInv, HeadInv, Publish, SyncStoreTypeOK, Procs
    <3>2. batch[a][1] \in Heights /\ batch[a][2] \in Heights /\ batch[a][1] <= batch[a][2]
      BY <3>1, SpanTypes
    <3>3. cached <= batch[a][2] \/ ~advance(a)
      <4>1. CASE loc[a] # 0
        BY <2>0, <2>3, <3>1, <3>2, <4>1 DEF HeadAt, Publish, Heights
      <4>2. CASE loc[a] = 0
        <5>1. FirstBatch(a)
          BY <2>3, <3>1, <4>2 DEF HeadAt, Publish
        <5> QED  BY <2>0, <3>2, <5>1 DEF FirstBatch, Heights
      <4> QED  BY <4>1, <4>2
    <3> QED  BY <2>0, <2>3, <3>2, <3>3 DEF Publish, Heights
  <2>4. \/ UNCHANGED cached
        \/ \E p \in Procs : HeadPublish(p)
        \/ \E a \in Appenders : Publish(a)
    <3>1. ASSUME NEW m \in Movers, QuietMove(m) PROVE UNCHANGED cached
      BY <3>1, QuietFrame
    <3>2. ASSUME NEW m \in Movers, AppendTail(m) \/ SyncDiff(m) \/ ForceAppend(m) \/ DeleteRange(m)
          PROVE  UNCHANGED cached
      BY <3>2 DEF AppendTail, SyncDiff, ForceAppend, DeleteRange
    <3>3. CASE OtherStep
      BY <3>3 DEF OtherStep, AppendCall, AppendStep, Lock, Reject, StoreAppend, StoreAppendFails,
         LockCancelled, HeadCall, HeadReturn, HeadStep, HeadCached, HeadMiss, HeadLoad, StoreApplies
    <3>4. CASE UNCHANGED vars
      BY <3>4 DEF vars, syncStoreVars
    <3> QED  BY <1>1, <3>1, <3>2, <3>3, <3>4, NextCases
  <2> QED  BY <2>1, <2>2, <2>3, <2>4
<1> QED
  BY <1>1, SyncTailInvariant, PTL DEF Spec, HeadNeverRegresses
=============================================================================
