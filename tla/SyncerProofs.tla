---------------------------- MODULE SyncerProofs ----------------------------
(***************************************************************************)
(* Proofs about the head side of the Syncer (modules Syncer and Ranges),    *)
(* for any number of validators and callers of Head, any chain length,      *)
(* request size and trust distance, and any pattern of failures.            *)
(***************************************************************************)
EXTENDS Syncer, TLAPS, SequenceTheorems, WellFoundedInduction

\* The ranges that the Syncer builds: an emptied one keeps its last height.
RangeType == [start : Heights, lo : 1..MaxHeight + 1, hi : Heights]
RangeSet == {r \in RangeType : r.lo <= r.hi + 1}

LoopLabels == {"idle", "localHead", "storeHead", "prune", "first", "get",
               "request", "requested", "append", "remove"}
ProcLabels == {"idle", "head", "network", "tail", "lockTail", "fetchTail",
               "lock", "verify", "bifurcate", "bifurcated", "set", "check",
               "prune", "add", "put", "want", "ok", "rejected", "done"}

\* Where a goroutine is inside setLocalHead.
SetLabels == {"set", "check", "prune", "add", "put", "want"}

\* Every height from the tail to h was given to the store.
GivenTo(h) == \A i \in Heights : tail <= i /\ i <= h => i \in stored

\* The store: it has a head once it has a tail, and what is below its head.
StoreInv ==
    /\ cached \in 0..MaxHeight /\ tail \in 0..MaxHeight /\ stored \in SUBSET Heights
    /\ cached = 0 <=> tail = 0
    /\ tail = 0 => stored = {}
    /\ tail # 0 => tail \in stored
    /\ GivenTo(cached)

\* The pending ranges and the lock of Add.
RangesInv ==
    /\ ranges \in Seq(RangeSet)
    /\ rangesLk \in Procs \cup {"free"}
    /\ rangesLk # "free" => ranges # <<>>

LoopTypes ==
    /\ lpc \in LoopLabels
    /\ subjHead \in 0..MaxHeight /\ fromHead \in 0..MaxHeight
    /\ to \in 0..MaxHeight /\ reqTo \in 0..MaxHeight
    /\ held \in BOOLEAN /\ headers \in Spans /\ got \in Spans

\* syncLoop holds a range only inside a pass of processHeaders, and only while there is one.
HeldInv == held => ranges # <<>> /\ lpc \in {"get", "request", "requested", "append", "remove"}

\* What syncLoop knows where it is.
LoopAt ==
    /\ lpc \in {"idle", "localHead", "storeHead", "prune"} => to = 0
    /\ lpc = "requested" => /\ got[1] = fromHead + 1 /\ got[1] <= got[2] /\ got[2] <= reqTo
    /\ lpc \in {"request", "requested"} /\ headers = None => reqTo = to
    /\ lpc \in {"append", "remove"} => headers # None
    /\ lpc \in {"request", "requested", "append", "remove"} /\ headers # None =>
          /\ 1 <= headers[1] /\ headers[1] <= headers[2] /\ headers[2] <= MaxHeight
          /\ reqTo = headers[1] - 1
    /\ lpc \in {"append", "remove"} => headers[1] <= fromHead + 1

\* Its progress: everything up to fromHead was given to the store, and at remove the cached
\* headers were too.
FromInv ==
    /\ fromHead # 0 => tail # 0
    /\ GivenTo(fromHead)
    /\ lpc = "remove" => \A h \in Heights : headers[1] <= h /\ h <= headers[2] => h \in stored

ProcTypes ==
    /\ ppc \in [Procs -> ProcLabels] /\ ret \in [Procs -> {"none", "ok", "bifurcated", "tail"}]
    /\ soft \in [Callers -> BOOLEAN]
    /\ newHead \in [Procs -> 0..MaxHeight] /\ sbj \in [Procs -> 0..MaxHeight]
    /\ diff \in [Procs -> 0..MaxHeight] /\ arg \in [Procs -> 0..MaxHeight]

\* What a goroutine knows where it is.
ProcAt(p) ==
    /\ ppc[p] \notin {"idle", "head", "network"} => newHead[p] # 0
    /\ ppc[p] \in SetLabels => arg[p] # 0 /\ ret[p] # "none"
    /\ ppc[p] = "bifurcate" => sbj[p] + diff[p] <= newHead[p]
    /\ ppc[p] = "bifurcated" \/ (ppc[p] \in SetLabels /\ ret[p] = "bifurcated")
          => sbj[p] <= newHead[p]
    /\ ppc[p] = "put" <=> rangesLk = p
    /\ ppc[p] = "put" => arg[p] = ranges[Len(ranges)].hi + 1

ProcInv == \A p \in Procs : ProcAt(p)

OtherTypes ==
    /\ tailSet \in BOOLEAN /\ triggerSync \in BOOLEAN /\ started \in BOOLEAN /\ failed \in BOOLEAN
    /\ incomingMu \in Procs \cup {"free"} /\ tailMu \in Procs \cup {"free"}
    /\ gossips \in 0..MaxGossips /\ calls \in 0..MaxCalls /\ errors \in 0..MaxErrors

Inv ==
    /\ StoreInv /\ RangesInv /\ LoopTypes /\ HeldInv /\ LoopAt /\ FromInv
    /\ ProcTypes /\ ProcInv /\ OtherTypes

-----------------------------------------------------------------------------
\* Lemmas about the ranges.

\* A set of natural numbers that has an element has a smallest one.
LEMMA Smallest ==
    ASSUME NEW T \in SUBSET Nat, T # {}
    PROVE  \E n \in T : \A m \in T : n <= m
<1>1. PICK n \in T : \A m \in T : ~(<<m, n>> \in OpToRel(<, Nat))
  BY NatLessThanWellFounded, WFMin
<1>2. \A m \in T : ~(m < n)
  BY <1>1 DEF OpToRel
<1> QED
  BY <1>2

\* headerRange.rangeAmount never asks for more than the range has, a stale start included.
LEMMA AmountBounds ==
    ASSUME NEW r \in RangeSet, NEW e \in 0..MaxHeight
    PROVE  rangeAmount(r, e) \in 0..Size(r)
<1>0. MaxHeight \in Nat
  BY SyncerAssumption
<1>1. r.start \in Int /\ r.lo \in Int /\ r.hi \in Int /\ e \in Int /\ Size(r) \in Nat
  BY <1>0 DEF RangeSet, RangeType, Heights, Size
<1>2. \/ rangeAmount(r, e) = 0
      \/ r.start <= e /\ r.start + Size(r) > e /\ rangeAmount(r, e) = e - r.start + 1
      \/ rangeAmount(r, e) = Size(r)
  <2>1. CASE r.start > e
    <3>1. ~(r.start <= e)
      BY <1>1, <2>1
    <3> QED
      BY <2>1, <3>1, Zenon DEF rangeAmount
  <2>2. CASE ~(r.start > e) /\ r.start <= e /\ r.start + Size(r) > e
    BY <2>2, Zenon DEF rangeAmount
  <2>3. CASE ~(r.start > e) /\ ~(r.start <= e /\ r.start + Size(r) > e)
    BY <2>3, Zenon DEF rangeAmount
  <2> QED
    BY <2>1, <2>2, <2>3, Zenon
<1> HIDE DEF Size
<1> QED
  BY <1>1, <1>2

\* headerRange.Remove leaves a range.
LEMMA RemoveType ==
    ASSUME NEW r \in RangeSet, NEW e \in 0..MaxHeight
    PROVE  Remove(r, e) \in RangeSet
<1>0. MaxHeight \in Nat
  BY SyncerAssumption
<1> DEFINE n == rangeAmount(r, e)
<1>1. n \in Nat /\ n <= r.hi - r.lo + 1
  BY <1>0, AmountBounds DEF Size, RangeSet, RangeType, Heights
<1>2. /\ r.start \in Heights /\ r.lo \in 1..MaxHeight + 1 /\ r.hi \in Heights
  BY DEF RangeSet, RangeType
<1>3. Remove(r, e) = [start |-> IF r.lo + n <= r.hi THEN r.lo + n ELSE r.start,
                      lo |-> r.lo + n, hi |-> r.hi]
  BY DEF Remove
<1> HIDE DEF n
<1> DEFINE s == IF r.lo + n <= r.hi THEN r.lo + n ELSE r.start
<1>4. s \in Heights /\ r.lo + n \in 1..MaxHeight + 1 /\ r.lo + n <= r.hi + 1
  BY <1>0, <1>1, <1>2 DEF Heights
<1> HIDE DEF s
<1>5. Remove(r, e) = [start |-> s, lo |-> r.lo + n, hi |-> r.hi]
  BY <1>3 DEF s
<1> QED
  BY <1>2, <1>4, <1>5 DEF RangeSet, RangeType

\* headerRange.Get returns consecutive headers of the range.
LEMMA GetType ==
    ASSUME NEW r \in RangeSet, NEW e \in 0..MaxHeight, Get(r, e)[2] >= Get(r, e)[1]
    PROVE  /\ Get(r, e) \in Spans /\ Get(r, e) # None
           /\ Get(r, e)[1] \in Heights /\ Get(r, e)[2] \in Heights
<1>0. MaxHeight \in Nat
  BY SyncerAssumption
<1> DEFINE n == rangeAmount(r, e)
<1>1. n \in Nat /\ n <= r.hi - r.lo + 1
  BY <1>0, AmountBounds DEF Size, RangeSet, RangeType, Heights
<1>2. r.lo \in 1..MaxHeight + 1 /\ r.hi \in Heights
  BY DEF RangeSet, RangeType
<1>3. Get(r, e) = <<r.lo, r.lo + n - 1>>
  BY DEF Get
<1> HIDE DEF n
<1>4. r.lo <= r.lo + n - 1
  BY <1>3
<1>5. r.lo \in Heights /\ r.lo + n - 1 \in Heights
  BY <1>0, <1>1, <1>2, <1>4 DEF Heights
<1> QED
  BY <1>0, <1>3, <1>4, <1>5 DEF Spans, None, Heights

\* headerRange.Append of a height leaves a range when the height follows the last one; it also
\* does when the range was emptied meanwhile.
LEMMA AppendToType ==
    ASSUME NEW r \in RangeSet, NEW h \in Heights, Empty(r) \/ h >= r.hi
    PROVE  AppendTo(r, h) \in RangeSet
<1>0. MaxHeight \in Nat
  BY SyncerAssumption
<1>1. r \in RangeType /\ r.start \in Heights /\ r.lo \in 1..MaxHeight + 1 /\ r.hi \in Heights
  BY DEF RangeSet, RangeType
<1> DEFINE l == IF Empty(r) THEN h ELSE r.lo
<1>2. l \in 1..MaxHeight + 1 /\ l <= h + 1
  BY <1>0, <1>1 DEF Heights, Empty, RangeSet
<1>3. AppendTo(r, h) = [r EXCEPT !.lo = l, !.hi = h]
  BY DEF AppendTo
<1> HIDE DEF l
<1>4. AppendTo(r, h) \in RangeType /\ AppendTo(r, h).lo = l /\ AppendTo(r, h).hi = h
  BY <1>1, <1>2, <1>3 DEF RangeType
<1> QED
  BY <1>2, <1>4 DEF RangeSet

\* A new range.
LEMMA NewRangeType ==
    ASSUME NEW h \in Heights
    PROVE  newRange(h) \in RangeSet
<1>0. MaxHeight \in Nat
  BY SyncerAssumption
<1> QED
  BY <1>0 DEF newRange, RangeSet, RangeType, Heights

\* The pending head is a height or 0.
LEMMA PendingHeadType ==
    ASSUME NEW rs \in Seq(RangeSet)
    PROVE  PendingHead(rs) \in 0..MaxHeight
<1>0. MaxHeight \in Nat
  BY SyncerAssumption
<1>1. CASE rs = <<>>
  BY <1>0, <1>1 DEF PendingHead
<1>2. CASE rs # <<>>
  <2>1. rs[Len(rs)] \in RangeSet
    BY <1>2
  <2>2. rs[Len(rs)].hi \in Heights
    BY <2>1 DEF RangeSet, RangeType
  <2> QED
    BY <1>0, <1>2, <2>2 DEF PendingHead, RangeHead, Heights
<1> QED
  BY <1>1, <1>2

\* ranges.Prune leaves ranges ...
LEMMA PruneType ==
    ASSUME NEW rs \in Seq(RangeSet), NEW e \in 0..MaxHeight
    PROVE  Prune(rs, e) \in Seq(RangeSet)
<1> DEFINE cut == [i \in DOMAIN rs |-> Remove(rs[i], e)]
           kept == {i \in DOMAIN rs : ~Empty(cut[i]) /\ \A j \in 1..i - 1 : Empty(cut[j])}
           k == CHOOSE i \in kept : TRUE
           left == [i \in 1..Len(rs) - k + 1 |-> IF i = 1 THEN cut[k] ELSE rs[i + k - 1]]
<1>1. Prune(rs, e) = IF kept = {} THEN <<>> ELSE left
  BY DEF Prune
<1>2. CASE kept = {}
  <2>1. Prune(rs, e) = <<>>
    BY <1>1, <1>2
  <2> QED
    BY <2>1
<1>3. CASE kept # {}
  <2>1. k \in kept
    BY <1>3
  <2>2. k \in DOMAIN rs
    BY <2>1
  <2>3. Len(rs) \in Nat /\ DOMAIN rs = 1..Len(rs)
    OBVIOUS
  <2>4. k \in 1..Len(rs) /\ cut[k] \in RangeSet
    <3>1. rs[k] \in RangeSet
      BY <2>2, <2>3
    <3> QED
      BY <2>2, <2>3, <3>1, RemoveType
  <2> HIDE DEF k, cut
  <2>5. \A i \in 1..Len(rs) - k + 1 : (IF i = 1 THEN cut[k] ELSE rs[i + k - 1]) \in RangeSet
    <3> SUFFICES ASSUME NEW i \in 1..Len(rs) - k + 1
                 PROVE  (IF i = 1 THEN cut[k] ELSE rs[i + k - 1]) \in RangeSet
      OBVIOUS
    <3>1. i + k - 1 \in 1..Len(rs)
      BY <2>3, <2>4
    <3>2. rs[i + k - 1] \in RangeSet
      BY <3>1
    <3> QED
      BY <2>4, <3>2
  <2>6. left \in [1..Len(rs) - k + 1 -> RangeSet] /\ Len(rs) - k + 1 \in Nat
    BY <2>3, <2>4, <2>5
  <2>7. left \in Seq(RangeSet)
    BY <2>6
  <2> QED
    BY <1>1, <1>3, <2>7
<1> QED
  BY <1>2, <1>3

\* ... and one at least when headers of the first are left.
LEMMA PruneKeeps ==
    ASSUME NEW rs \in Seq(RangeSet), rs # <<>>, NEW e \in 0..MaxHeight, ~Empty(Remove(rs[1], e))
    PROVE  Prune(rs, e) # <<>>
<1> DEFINE cut == [i \in DOMAIN rs |-> Remove(rs[i], e)]
           kept == {i \in DOMAIN rs : ~Empty(cut[i]) /\ \A j \in 1..i - 1 : Empty(cut[j])}
           k == CHOOSE i \in kept : TRUE
           left == [i \in 1..Len(rs) - k + 1 |-> IF i = 1 THEN cut[k] ELSE rs[i + k - 1]]
<1>1. Prune(rs, e) = IF kept = {} THEN <<>> ELSE left
  BY DEF Prune
<1>2. Len(rs) \in Nat /\ Len(rs) # 0 /\ DOMAIN rs = 1..Len(rs)
  OBVIOUS
<1>3. 1 \in kept
  BY <1>2
<1>4. k \in kept
  BY <1>3
<1>5. k \in 1..Len(rs)
  BY <1>2, <1>4
<1>6. Prune(rs, e) = left
  BY <1>1, <1>3
<1> HIDE DEF k, cut
<1>7. DOMAIN left = 1..Len(rs) - k + 1 /\ 1 \in 1..Len(rs) - k + 1
  BY <1>2, <1>5
<1>8. DOMAIN <<>> = {}
  OBVIOUS
<1> QED
  BY <1>6, <1>7, <1>8

\* ranges.First leaves ranges.
LEMMA DropEmptyType ==
    ASSUME NEW rs \in Seq(RangeSet)
    PROVE  DropEmpty(rs) \in Seq(RangeSet)
<1> DEFINE full == {i \in DOMAIN rs : ~Empty(rs[i])}
           k == CHOOSE i \in full : \A j \in full : i <= j
<1>1. DropEmpty(rs) = IF full = {} THEN <<>> ELSE SubSeq(rs, k, Len(rs))
  BY DEF DropEmpty
<1>2. CASE full = {}
  <2>1. DropEmpty(rs) = <<>>
    BY <1>1, <1>2
  <2> QED
    BY <2>1
<1>3. CASE full # {}
  <2>1. full \in SUBSET Nat
    OBVIOUS
  <2>2. \E i \in full : \A j \in full : i <= j
    BY <1>3, <2>1, Smallest
  <2>3. k \in full
    BY <2>2
  <2>4. k \in 1..Len(rs) /\ Len(rs) \in Nat
    BY <2>3
  <2> HIDE DEF k
  <2>5. SubSeq(rs, k, Len(rs)) \in Seq(RangeSet)
    BY <2>4
  <2> QED
    BY <1>1, <1>3, <2>5
<1> QED
  BY <1>2, <1>3

-----------------------------------------------------------------------------
\* The store.

\* The store finds where the run of its headers that touches its tail begins.
LEMMA TailIs ==
    ASSUME NEW t \in Heights, NEW S \in SUBSET Heights, t \in S,
           NEW u, u = CHOOSE i \in 1..t : i..t \subseteq S /\ i - 1 \notin S
    PROVE  u \in 1..t /\ \A h \in Heights : u <= h /\ h <= t => h \in S
<1> DEFINE D == {d \in Nat : d <= t /\ t - d \notin S}
<1>0. t \in Nat /\ t # 0 /\ 0 \notin S
  BY SyncerAssumption DEF Heights
<1>1. t \in D
  BY <1>0
<1>2. PICK d \in D : \A e \in D : d <= e
  <2>1. D \in SUBSET Nat /\ D # {}
    BY <1>1
  <2> HIDE DEF D
  <2> QED
    BY <2>1, Smallest
<1>3. d \in Nat /\ d <= t /\ d # 0 /\ t - d \notin S
  BY <1>0, <1>2
<1>4. \A i \in t - d + 1..t : i \in S
  <2> SUFFICES ASSUME NEW i \in t - d + 1..t, i \notin S
               PROVE  FALSE
    OBVIOUS
  <2>1. t - i \in Nat /\ t - i <= t /\ t - (t - i) = i /\ t - i < d
    BY <1>0, <1>3
  <2>2. t - i \in D
    BY <2>1
  <2> HIDE DEF D
  <2> QED
    BY <1>2, <1>3, <2>1, <2>2
<1>5. t - d + 1 \in 1..t /\ (t - d + 1) - 1 = t - d
  BY <1>0, <1>3
<1>6. \E i \in 1..t : i..t \subseteq S /\ i - 1 \notin S
  BY <1>3, <1>4, <1>5
<1>7. u \in 1..t /\ u..t \subseteq S
  BY <1>6
<1> QED
  BY <1>0, <1>7 DEF Heights

\* What the store has only grows, and its tail moves down over headers that it has.
StoreGrows ==
    /\ \A h \in stored : h \in stored'
    /\ tail # 0 => tail' # 0 /\ tail' <= tail
    /\ tail # 0 => \A h \in Heights : tail' <= h /\ h <= tail => h \in stored'

\* The store's Append.
LEMMA GrowIs ==
    ASSUME StoreInv, NEW first \in Heights, NEW last \in Heights, first <= last,
           Grow(first, last)
    PROVE  /\ stored' \in SUBSET Heights /\ tail' \in Heights /\ tail' \in stored'
           /\ tail = 0 => tail' = first
           /\ StoreGrows
           /\ \A h \in Heights : first <= h /\ h <= last => h \in stored'
<1>0. /\ MaxHeight \in Nat /\ tail \in 0..MaxHeight /\ stored \in SUBSET Heights
      /\ tail # 0 => tail \in stored
  BY SyncerAssumption DEF StoreInv
<1>1. stored' = stored \cup first..last
  BY DEF Grow
<1>2. stored' \in SUBSET Heights
  BY <1>0, <1>1 DEF Heights
<1>3. \A h \in Heights : first <= h /\ h <= last => h \in stored'
  BY <1>0, <1>1 DEF Heights
<1>4. \A h \in stored : h \in stored'
  BY <1>1
<1>5. CASE tail = 0
  <2>1. tail' = first
    BY <1>5 DEF Grow
  <2>2. first \in stored'
    BY <1>0, <1>3 DEF Heights
  <2> QED
    BY <1>2, <1>3, <1>4, <1>5, <2>1, <2>2 DEF StoreGrows
<1>6. CASE tail # 0
  <2>1. tail' = CHOOSE i \in 1..tail : i..tail \subseteq stored' /\ i - 1 \notin stored'
    BY <1>6 DEF Grow
  <2>2. tail \in Heights /\ tail \in stored'
    BY <1>0, <1>4, <1>6 DEF Heights
  <2>3. tail' \in 1..tail /\ \A h \in Heights : tail' <= h /\ h <= tail => h \in stored'
    BY <1>2, <2>1, <2>2, TailIs
  <2>4. tail' \in Heights /\ tail' # 0 /\ tail' <= tail
    BY <1>0, <2>2, <2>3 DEF Heights
  <2>5. tail' \in stored'
    BY <2>2, <2>3, <2>4 DEF Heights
  <2> QED
    BY <1>2, <1>3, <1>4, <1>6, <2>3, <2>4, <2>5 DEF StoreGrows
<1> QED
  BY <1>5, <1>6

\* syncStore's Append of a batch that it accepts.
LEMMA StoreAppendIs ==
    ASSUME StoreInv, NEW first \in Heights, NEW last \in Heights, first <= last,
           Accepts(first), StoreAppend(first, last)
    PROVE  StoreInv' /\ StoreGrows /\ tail' # 0 /\ tailSet' = tailSet
<1>0. /\ MaxHeight \in Nat /\ tail \in 0..MaxHeight /\ stored \in SUBSET Heights
      /\ tail # 0 => tail \in stored
      /\ cached \in 0..MaxHeight /\ (cached = 0 <=> tail = 0)
      /\ \A h \in Heights : tail <= h /\ h <= cached => h \in stored
  BY SyncerAssumption DEF StoreInv, GivenTo
<1>1. Grow(first, last)
  BY DEF StoreAppend
<1>2. /\ stored' \in SUBSET Heights /\ tail' \in Heights /\ tail' \in stored'
      /\ tail = 0 => tail' = first
      /\ StoreGrows
      /\ \A h \in Heights : first <= h /\ h <= last => h \in stored'
  BY <1>1, GrowIs
<1>3. cached' = IF first < cached THEN cached ELSE last
  BY DEF StoreAppend
<1>4. cached' \in 0..MaxHeight /\ cached' # 0 /\ tail' # 0 /\ tail' \in 0..MaxHeight
  BY <1>0, <1>2, <1>3 DEF Heights
<1>5. cached = 0 \/ first < cached \/ first = cached + 1
  BY DEF Accepts
<1>6. ASSUME NEW h \in Heights, tail' <= h, h <= cached'
      PROVE  h \in stored'
  <2>0. h \in Int /\ first \in Int /\ last \in Int /\ cached \in Int /\ tail \in Int /\ tail' \in Int
    BY <1>0, <1>2 DEF Heights
  <2>1. CASE cached = 0
    BY <1>0, <1>2, <1>3, <1>6, <2>0, <2>1 DEF Heights
  <2>2. CASE cached # 0 /\ first <= h /\ h <= last
    BY <1>2, <2>2
  <2>3. CASE cached # 0 /\ h <= cached
    <3>1. CASE h <= tail
      BY <1>0, <1>2, <1>6, <2>3, <3>1 DEF StoreGrows
    <3>2. CASE tail <= h
      BY <1>0, <1>2, <2>3, <3>2 DEF StoreGrows
    <3> QED
      BY <2>0, <3>1, <3>2
  <2> QED
    BY <1>3, <1>5, <1>6, <2>0, <2>1, <2>2, <2>3
<1>7. tailSet' = tailSet
  BY <1>1 DEF Grow
<1> QED
  BY <1>2, <1>4, <1>6, <1>7 DEF StoreInv, GivenTo

\* A tail that is appended past syncStore, which has a head then.
LEMMA ForcedAppendIs ==
    ASSUME StoreInv, NEW h \in Heights, ~Accepts(h), Grow(h, h), cached' = cached
    PROVE  StoreInv' /\ StoreGrows /\ tail' # 0 /\ tailSet' = tailSet
<1>0. /\ MaxHeight \in Nat /\ tail \in 0..MaxHeight /\ stored \in SUBSET Heights
      /\ tail # 0 => tail \in stored
      /\ cached \in 0..MaxHeight /\ (cached = 0 <=> tail = 0)
      /\ \A i \in Heights : tail <= i /\ i <= cached => i \in stored
  BY SyncerAssumption DEF StoreInv, GivenTo
<1>1. cached # 0 /\ tail # 0
  BY <1>0 DEF Accepts
<1>2. /\ stored' \in SUBSET Heights /\ tail' \in Heights /\ tail' \in stored' /\ StoreGrows
  <2>1. h <= h
    BY <1>0 DEF Heights
  <2> QED
    BY <2>1, GrowIs
<1>3. ASSUME NEW i \in Heights, tail' <= i, i <= cached'
      PROVE  i \in stored'
  <2>1. CASE i <= tail
    BY <1>1, <1>2, <1>3, <2>1 DEF StoreGrows
  <2>2. CASE tail <= i
    BY <1>0, <1>2, <1>3, <2>2 DEF StoreGrows
  <2> QED
    BY <1>0, <2>1, <2>2 DEF Heights
<1>4. tailSet' = tailSet
  BY DEF Grow
<1>5. tail' # 0 /\ tail' \in 0..MaxHeight
  BY <1>0, <1>2 DEF Heights
<1> QED
  BY <1>0, <1>1, <1>2, <1>3, <1>4, <1>5 DEF StoreInv, GivenTo

\* The store is left alone.
LEMMA StoreSame ==
    ASSUME StoreInv, UNCHANGED <<cached, stored, tail>>
    PROVE  StoreInv' /\ StoreGrows
<1>1. \A h \in Heights : tail <= h /\ h <= tail => h = tail
  BY SyncerAssumption DEF Heights, StoreInv
<1>2. tail <= tail
  BY SyncerAssumption DEF StoreInv
<1> QED
  BY <1>1, <1>2 DEF StoreInv, GivenTo, StoreGrows

\* What was given to the store up to some height still was.
LEMMA GivenStays ==
    ASSUME StoreInv, StoreGrows, NEW n \in 0..MaxHeight, tail # 0 \/ n = 0, GivenTo(n)
    PROVE  \A h \in Heights : tail' <= h /\ h <= n => h \in stored'
<1> SUFFICES ASSUME NEW h \in Heights, tail' <= h, h <= n
             PROVE  h \in stored'
  OBVIOUS
<1>0. MaxHeight \in Nat /\ h \in Nat /\ tail \in Nat /\ h # 0
  BY SyncerAssumption DEF StoreInv, Heights
<1>1. tail # 0
  BY <1>0
<1>2. CASE h <= tail
  BY <1>1, <1>2 DEF StoreGrows
<1>3. CASE tail <= h
  BY <1>3 DEF StoreGrows, GivenTo
<1> QED
  BY <1>0, <1>2, <1>3

-----------------------------------------------------------------------------
\* The steps of syncLoop.

\* A goroutine keeps what it knows while its own variables do not change and the last range
\* keeps its last height or nobody is inside Add.
LEMMA ProcSame ==
    ASSUME ProcTypes, ProcInv, UNCHANGED <<procVars, rangesLk>>,
           rangesLk # "free" => ranges'[Len(ranges')].hi = ranges[Len(ranges)].hi
    PROVE  ProcTypes' /\ ProcInv'
<1>0. "free" \notin Procs
  BY SyncerAssumption
<1>1. UNCHANGED <<ppc, ret, soft, newHead, sbj, diff, arg, rangesLk>>
  BY DEF procVars
<1>2. ProcTypes'
  BY <1>1 DEF ProcTypes
<1>3. ASSUME NEW p \in Procs
      PROVE  ProcAt(p)'
  <2>1. ProcAt(p)
    BY DEF ProcInv
  <2>2. ppc[p] = "put" => rangesLk # "free"
    BY <1>0, <2>1 DEF ProcAt
  <2> QED
    BY <1>1, <2>1, <2>2 DEF ProcAt
<1> QED
  BY <1>2, <1>3 DEF ProcInv

\* What syncLoop has behind it stays behind it while fromHead stays.
LEMMA FromSame ==
    ASSUME StoreInv, LoopTypes, FromInv, StoreGrows, fromHead' = fromHead,
           lpc' # "remove" \/ UNCHANGED <<lpc, headers>>
    PROVE  FromInv'
<1>1. fromHead \in 0..MaxHeight /\ (fromHead # 0 => tail # 0) /\ GivenTo(fromHead)
  BY DEF LoopTypes, FromInv
<1>2. \A h \in Heights : tail' <= h /\ h <= fromHead => h \in stored'
  BY <1>1, GivenStays
<1>3. fromHead' # 0 => tail' # 0
  BY <1>1 DEF StoreGrows
<1>4. lpc' = "remove" =>
          \A h \in Heights : headers'[1] <= h /\ h <= headers'[2] => h \in stored'
  BY DEF FromInv, StoreGrows
<1> QED
  BY <1>2, <1>3, <1>4 DEF FromInv, GivenTo

\* The locks, the flags and the counters.
LEMMA OtherSame ==
    ASSUME OtherTypes, UNCHANGED <<tailSet, incomingMu, tailMu, gossips, calls>>,
           started' \in BOOLEAN, failed' \in BOOLEAN, triggerSync' \in BOOLEAN,
           errors' = errors \/ Fails
    PROVE  OtherTypes'
BY SyncerAssumption DEF OtherTypes, Fails

\* The ends of a sync.
LEMMA EndSyncIs ==
    ASSUME Inv, NEW err \in BOOLEAN, EndSync(err), UNCHANGED <<storeVars, ranges>>
    PROVE  /\ StoreInv' /\ StoreGrows /\ LoopTypes' /\ HeldInv' /\ LoopAt' /\ FromInv'
           /\ failed' \in BOOLEAN
<1>0. MaxHeight \in Nat
  BY SyncerAssumption
<1>1. StoreInv /\ UNCHANGED <<cached, stored, tail>>
  BY DEF Inv, storeVars
<1>2. StoreInv' /\ StoreGrows
  BY <1>1, StoreSame
<1>3. /\ lpc' = "idle" /\ failed' = err
      /\ subjHead' = 0 /\ fromHead' = 0 /\ to' = 0 /\ reqTo' = 0
      /\ held' = FALSE /\ headers' = None /\ got' = None
  BY DEF EndSync
<1>4. LoopTypes'
  <2>1. None \in Spans /\ 0 \in 0..MaxHeight /\ "idle" \in LoopLabels
    BY <1>0 DEF Spans, LoopLabels
  <2> QED
    BY <1>3, <2>1, Zenon DEF LoopTypes
<1>5. HeldInv' /\ LoopAt'
  BY <1>3 DEF HeldInv, LoopAt
<1>6. FromInv'
  BY <1>0, <1>3 DEF FromInv, GivenTo, Heights
<1> QED
  BY <1>2, <1>3, <1>4, <1>5, <1>6

\* Every step of syncLoop keeps the invariant.
LEMMA LoopKeeps ==
    ASSUME Inv, LoopStep
    PROVE  Inv'
<1>0. /\ MaxHeight \in Nat /\ "free" \notin Procs /\ RequestSize \in Nat
      /\ StoreInv /\ RangesInv /\ LoopTypes /\ HeldInv /\ LoopAt /\ FromInv
      /\ ProcTypes /\ ProcInv /\ OtherTypes
  BY SyncerAssumption DEF Inv
<1>1. /\ lpc \in LoopLabels /\ subjHead \in 0..MaxHeight /\ fromHead \in 0..MaxHeight
      /\ to \in 0..MaxHeight /\ reqTo \in 0..MaxHeight
      /\ held \in BOOLEAN /\ headers \in Spans /\ got \in Spans
      /\ cached \in 0..MaxHeight /\ tail \in 0..MaxHeight /\ stored \in SUBSET Heights
      /\ ranges \in Seq(RangeSet) /\ failed \in BOOLEAN /\ triggerSync \in BOOLEAN
      /\ started \in BOOLEAN
  BY <1>0 DEF LoopTypes, StoreInv, RangesInv, OtherTypes
<1>2. ASSUME StoreInv', RangesInv', LoopTypes', HeldInv', LoopAt', FromInv', failed' \in BOOLEAN,
             triggerSync' \in BOOLEAN, errors' = errors \/ Fails,
             UNCHANGED <<procVars, rangesLk, tailSet, incomingMu, tailMu, started, gossips, calls>>,
             rangesLk # "free" => ranges'[Len(ranges')].hi = ranges[Len(ranges)].hi
      PROVE  Inv'
  <2>1. ProcTypes' /\ ProcInv'
    BY <1>0, <1>2, ProcSame
  <2>2. OtherTypes'
    BY <1>0, <1>1, <1>2, OtherSame
  <2> QED
    BY <1>2, <2>1, <2>2 DEF Inv
<1>3. ASSUME UNCHANGED <<cached, stored, tail>>
      PROVE  StoreInv' /\ StoreGrows
  BY <1>0, <1>3, StoreSame
<1>4. ASSUME UNCHANGED <<ranges, rangesLk>>
      PROVE  RangesInv' /\ (rangesLk # "free" => ranges'[Len(ranges')].hi = ranges[Len(ranges)].hi)
  BY <1>0, <1>4 DEF RangesInv
<1>5. ASSUME ranges' \in Seq(RangeSet), rangesLk = "free", rangesLk' = rangesLk
      PROVE  RangesInv' /\ (rangesLk # "free" => ranges'[Len(ranges')].hi = ranges[Len(ranges)].hi)
  BY <1>0, <1>5 DEF RangesInv
<1>6. CASE LoopTrigger
  <2>1. /\ UNCHANGED <<cached, stored, tail>> /\ UNCHANGED <<ranges, rangesLk>>
        /\ lpc = "idle" /\ lpc' = "localHead"
        /\ UNCHANGED <<subjHead, fromHead, to, held, headers, reqTo, got>>
    BY <1>6 DEF LoopTrigger, storeVars
  <2>2. /\ failed' \in BOOLEAN /\ triggerSync' \in BOOLEAN /\ errors' = errors
        /\ UNCHANGED <<procVars, rangesLk, tailSet, incomingMu, tailMu, started, gossips, calls>>
    BY <1>1, <1>6 DEF LoopTrigger, storeVars, countVars
  <2>3. LoopTypes'
    BY <1>1, <2>1 DEF LoopTypes, LoopLabels
  <2>4. HeldInv' /\ LoopAt'
    BY <1>0, <2>1 DEF HeldInv, LoopAt
  <2>5. FromInv'
    BY <1>0, <1>3, <2>1, FromSame
  <2> QED
    BY <1>2, <1>3, <1>4, <2>1, <2>2, <2>3, <2>4, <2>5
<1>7. CASE LoopPendingHead
  <2>1. /\ UNCHANGED <<cached, stored, tail>> /\ UNCHANGED <<ranges, rangesLk>>
        /\ lpc = "localHead" /\ lpc' = "storeHead" /\ subjHead' = PendingHead(ranges)
        /\ UNCHANGED <<fromHead, to, held, headers, reqTo, got>>
    BY <1>7 DEF LoopPendingHead, storeVars, sharedVars
  <2>2. /\ failed' \in BOOLEAN /\ triggerSync' \in BOOLEAN /\ errors' = errors
        /\ UNCHANGED <<procVars, rangesLk, tailSet, incomingMu, tailMu, started, gossips, calls>>
    BY <1>1, <1>7 DEF LoopPendingHead, storeVars, sharedVars, countVars
  <2>3. LoopTypes'
    BY <1>1, <2>1, PendingHeadType DEF LoopTypes, LoopLabels
  <2>4. HeldInv' /\ LoopAt'
    BY <1>0, <2>1 DEF HeldInv, LoopAt
  <2>5. FromInv'
    BY <1>0, <1>3, <2>1, FromSame
  <2> QED
    BY <1>2, <1>3, <1>4, <2>1, <2>2, <2>3, <2>4, <2>5
<1>8. CASE LoopStoreHead
  <2>1. /\ UNCHANGED <<cached, stored, tail>> /\ UNCHANGED <<ranges, rangesLk>>
        /\ lpc = "storeHead" /\ lpc' = "prune" /\ subjHead' = Highest(subjHead, cached)
        /\ fromHead' = cached
        /\ UNCHANGED <<to, held, headers, reqTo, got>>
    BY <1>8 DEF LoopStoreHead, storeVars, sharedVars
  <2>2. /\ failed' \in BOOLEAN /\ triggerSync' \in BOOLEAN /\ errors' = errors
        /\ UNCHANGED <<procVars, rangesLk, tailSet, incomingMu, tailMu, started, gossips, calls>>
    BY <1>1, <1>8 DEF LoopStoreHead, storeVars, sharedVars, countVars
  <2>3. LoopTypes'
    BY <1>1, <2>1 DEF LoopTypes, LoopLabels, Highest
  <2>4. HeldInv' /\ LoopAt'
    BY <1>0, <2>1 DEF HeldInv, LoopAt
  <2>5. FromInv'
    BY <1>0, <2>1 DEF FromInv, StoreInv, GivenTo
  <2> QED
    BY <1>2, <1>3, <1>4, <2>1, <2>2, <2>3, <2>4, <2>5
<1>9. CASE LoopPrune
  <2>1. /\ UNCHANGED <<cached, stored, tail>> /\ rangesLk = "free" /\ rangesLk' = rangesLk
        /\ ranges' = Prune(ranges, fromHead) /\ lpc = "prune" /\ subjHead' = 0
        /\ UNCHANGED <<held, headers, reqTo, got>>
        /\ \/ lpc' = "idle" /\ fromHead' = 0 /\ to' = to
           \/ lpc' = "first" /\ fromHead' = fromHead /\ to' = subjHead
    BY <1>9 DEF LoopPrune, storeVars
  <2>2. /\ failed' \in BOOLEAN /\ triggerSync' \in BOOLEAN /\ errors' = errors
        /\ UNCHANGED <<procVars, rangesLk, tailSet, incomingMu, tailMu, started, gossips, calls>>
    BY <1>1, <1>9 DEF LoopPrune, storeVars, countVars
  <2>3. LoopTypes'
    BY <1>0, <1>1, <2>1 DEF LoopTypes, LoopLabels
  <2>4. HeldInv' /\ LoopAt'
    BY <1>0, <2>1 DEF HeldInv, LoopAt
  <2>5. FromInv'
    <3>1. CASE fromHead' = 0
      BY <1>0, <2>1, <3>1 DEF FromInv, GivenTo, Heights
    <3>2. CASE fromHead' = fromHead
      BY <1>0, <1>3, <2>1, <3>2, FromSame
    <3> QED
      BY <2>1, <3>1, <3>2
  <2>6. ranges' \in Seq(RangeSet)
    BY <1>1, <2>1, PruneType
  <2> QED
    BY <1>2, <1>3, <1>5, <2>1, <2>2, <2>3, <2>4, <2>5, <2>6
<1>10. CASE LoopFirst
  <2>1. /\ UNCHANGED <<cached, stored, tail>> /\ rangesLk = "free" /\ rangesLk' = rangesLk
        /\ ranges' = DropEmpty(ranges) /\ lpc = "first"
        /\ UNCHANGED <<subjHead, fromHead, to, got>>
        /\ \/ /\ ranges' = <<>> /\ lpc' = "request" /\ reqTo' = to /\ headers' = None
              /\ held' = FALSE
           \/ ranges' # <<>> /\ lpc' = "get" /\ held' = TRUE /\ UNCHANGED <<reqTo, headers>>
    BY <1>10 DEF LoopFirst, storeVars
  <2>2. /\ failed' \in BOOLEAN /\ triggerSync' \in BOOLEAN /\ errors' = errors
        /\ UNCHANGED <<procVars, rangesLk, tailSet, incomingMu, tailMu, started, gossips, calls>>
    BY <1>1, <1>10 DEF LoopFirst, storeVars, countVars
  <2>3. LoopTypes'
    BY <1>0, <1>1, <2>1 DEF LoopTypes, LoopLabels, Spans
  <2>4. HeldInv' /\ LoopAt'
    BY <1>0, <2>1 DEF HeldInv, LoopAt
  <2>5. FromInv'
    BY <1>0, <1>3, <2>1, FromSame
  <2>6. ranges' \in Seq(RangeSet)
    BY <1>1, <2>1, DropEmptyType
  <2> QED
    BY <1>2, <1>3, <1>5, <2>1, <2>2, <2>3, <2>4, <2>5, <2>6
<1>11. CASE LoopGet
  <2> DEFINE hs == Get(ranges[1], to)
  <2>1. /\ UNCHANGED <<cached, stored, tail>> /\ UNCHANGED <<ranges, rangesLk>>
        /\ lpc = "get" /\ UNCHANGED <<subjHead, fromHead, to, held, got>>
        /\ \/ headers' = None /\ reqTo' = to /\ lpc' = "request"
           \/ /\ held /\ ~(hs[2] < hs[1]) /\ headers' = hs /\ reqTo' = hs[1] - 1
              /\ lpc' = IF fromHead + 1 # hs[1] THEN "request" ELSE "append"
    BY <1>11 DEF LoopGet, storeVars, sharedVars
  <2>2. /\ failed' \in BOOLEAN /\ triggerSync' \in BOOLEAN /\ errors' = errors
        /\ UNCHANGED <<procVars, rangesLk, tailSet, incomingMu, tailMu, started, gossips, calls>>
    BY <1>1, <1>11 DEF LoopGet, storeVars, sharedVars, countVars
  <2>3. held /\ ~(hs[2] < hs[1]) => /\ hs \in Spans /\ hs # None /\ hs[1] <= hs[2]
                                    /\ hs[1] \in Heights /\ hs[2] \in Heights
    <3> SUFFICES ASSUME held, ~(hs[2] < hs[1])
                 PROVE  /\ hs \in Spans /\ hs # None /\ hs[1] <= hs[2]
                        /\ hs[1] \in Heights /\ hs[2] \in Heights
      OBVIOUS
    <3>1. ranges # <<>>
      BY <1>0 DEF HeldInv
    <3>2. ranges[1] \in RangeSet
      BY <1>1, <3>1
    <3>3. hs[1] \in Int /\ hs[2] \in Int
      <4>1. rangeAmount(ranges[1], to) \in Int /\ ranges[1].lo \in Int
        BY <1>0, <1>1, <3>2, AmountBounds DEF RangeSet, RangeType, Size, Heights
      <4> QED
        BY <4>1 DEF Get
    <3>4. hs[2] >= hs[1]
      BY <3>3
    <3> QED
      BY <1>1, <3>2, <3>3, <3>4, GetType
  <2> HIDE DEF hs
  <2>4. LoopTypes'
    BY <1>0, <1>1, <2>1, <2>3 DEF LoopTypes, LoopLabels, Spans, Heights
  <2>5. HeldInv' /\ LoopAt'
    BY <1>0, <1>1, <2>1, <2>3 DEF HeldInv, LoopAt, Heights
  <2>6. FromInv'
    BY <1>0, <1>3, <2>1, FromSame
  <2> QED
    BY <1>2, <1>3, <1>4, <2>1, <2>2, <2>4, <2>5, <2>6
<1>12. CASE RequestDone
  <2>1. /\ UNCHANGED <<cached, stored, tail>> /\ UNCHANGED <<ranges, rangesLk>>
        /\ UNCHANGED storeVars /\ lpc = "request" /\ fromHead >= reqTo
    BY <1>12 DEF RequestDone, storeVars, sharedVars
  <2>2. /\ triggerSync' \in BOOLEAN /\ errors' = errors
        /\ UNCHANGED <<procVars, rangesLk, tailSet, incomingMu, tailMu, started, gossips, calls>>
    BY <1>1, <1>12 DEF RequestDone, storeVars, sharedVars, countVars
  <2>3. CASE headers = None
    <3>1. EndSync(FALSE)
      BY <1>12, <2>3 DEF RequestDone
    <3>2. LoopTypes' /\ HeldInv' /\ LoopAt' /\ FromInv' /\ failed' \in BOOLEAN
      BY <2>1, <3>1, EndSyncIs
    <3> QED
      BY <1>2, <1>3, <1>4, <2>1, <2>2, <3>2
  <2>4. CASE headers # None
    <3>1. lpc' = "append" /\ UNCHANGED <<subjHead, fromHead, to, held, headers, reqTo, got, failed>>
      BY <1>12, <2>4 DEF RequestDone
    <3>2. LoopTypes'
      BY <1>1, <3>1 DEF LoopTypes, LoopLabels
    <3>3. headers[1] \in Int
      BY <1>0, <1>1 DEF Spans, None
    <3>4. HeldInv' /\ LoopAt'
      BY <1>0, <1>1, <2>1, <2>4, <3>1, <3>3 DEF HeldInv, LoopAt
    <3>5. FromInv'
      BY <1>0, <1>3, <2>1, <3>1, FromSame
    <3> QED
      BY <1>1, <1>2, <1>3, <1>4, <2>1, <2>2, <3>1, <3>2, <3>4, <3>5
  <2> QED
    BY <2>3, <2>4
<1>13. CASE GetRange
  <2>1. /\ UNCHANGED <<cached, stored, tail>> /\ UNCHANGED <<ranges, rangesLk>>
        /\ lpc = "request" /\ lpc' = "requested" /\ fromHead < reqTo
        /\ UNCHANGED <<subjHead, fromHead, to, held, headers, reqTo>>
    BY <1>13 DEF GetRange, storeVars, sharedVars
  <2>2. /\ failed' \in BOOLEAN /\ triggerSync' \in BOOLEAN /\ errors' = errors
        /\ UNCHANGED <<procVars, rangesLk, tailSet, incomingMu, tailMu, started, gossips, calls>>
    BY <1>1, <1>13 DEF GetRange, storeVars, sharedVars, countVars
  <2>3. PICK n \in 1..RequestSize : n <= reqTo - fromHead /\ got' = <<fromHead + 1, fromHead + n>>
    BY <1>13 DEF GetRange
  <2>4. LoopTypes'
    BY <1>0, <1>1, <2>1, <2>3 DEF LoopTypes, LoopLabels, Spans
  <2>5. HeldInv' /\ LoopAt'
    BY <1>0, <1>1, <2>1, <2>3 DEF HeldInv, LoopAt
  <2>6. FromInv'
    BY <1>0, <1>3, <2>1, FromSame
  <2> QED
    BY <1>2, <1>3, <1>4, <2>1, <2>2, <2>4, <2>5, <2>6
<1>14. CASE GetRangeFails \/ AppendFails
  <2>1. /\ UNCHANGED <<cached, stored, tail>> /\ UNCHANGED <<ranges, rangesLk>>
        /\ UNCHANGED storeVars /\ EndSync(TRUE)
    BY <1>14 DEF GetRangeFails, AppendFails, storeVars, sharedVars
  <2>2. /\ triggerSync' \in BOOLEAN /\ (errors' = errors \/ Fails)
        /\ UNCHANGED <<procVars, rangesLk, tailSet, incomingMu, tailMu, started, gossips, calls>>
    BY <1>1, <1>14 DEF GetRangeFails, AppendFails, storeVars, sharedVars
  <2>3. LoopTypes' /\ HeldInv' /\ LoopAt' /\ FromInv' /\ failed' \in BOOLEAN
    BY <2>1, EndSyncIs
  <2> QED
    BY <1>2, <1>3, <1>4, <2>1, <2>2, <2>3
<1>15. CASE AppendRequested
  <2>1. /\ UNCHANGED <<ranges, rangesLk>> /\ lpc = "requested" /\ lpc' = "request"
        /\ Accepts(got[1]) /\ StoreAppend(got[1], got[2]) /\ fromHead' = got[2] /\ got' = None
        /\ UNCHANGED <<subjHead, to, held, headers, reqTo>>
    BY <1>15 DEF AppendRequested, sharedVars
  <2>2. /\ got[1] = fromHead + 1 /\ got[1] <= got[2] /\ got[2] <= reqTo
        /\ got[1] \in Heights /\ got[2] \in Heights
    <3>1. got[1] = fromHead + 1 /\ got[1] <= got[2] /\ got[2] <= reqTo
      BY <1>0, <2>1 DEF LoopAt
    <3>2. got[1] \in Int /\ got[2] \in Int
      BY <1>0, <1>1 DEF Spans, None
    <3> QED
      BY <1>0, <1>1, <3>1, <3>2 DEF Heights
  <2>3. StoreInv' /\ StoreGrows /\ tail' # 0 /\ tailSet' = tailSet
    BY <1>0, <2>1, <2>2, StoreAppendIs
  <2>4. /\ failed' \in BOOLEAN /\ triggerSync' \in BOOLEAN /\ errors' = errors
        /\ UNCHANGED <<procVars, rangesLk, incomingMu, tailMu, started, gossips, calls>>
    BY <1>1, <1>15 DEF AppendRequested, sharedVars, countVars
  <2>5. LoopTypes'
    BY <1>0, <1>1, <2>1, <2>2 DEF LoopTypes, LoopLabels, Spans, Heights
  <2>6. HeldInv' /\ LoopAt'
    BY <1>0, <2>1 DEF HeldInv, LoopAt
  <2>7. ASSUME NEW h \in Heights, tail' <= h, h <= fromHead'
        PROVE  h \in stored'
    <3>1. Grow(got[1], got[2])
      BY <2>1 DEF StoreAppend
    <3>2. \A i \in Heights : got[1] <= i /\ i <= got[2] => i \in stored'
      BY <1>0, <2>2, <3>1, GrowIs
    <3>3. CASE fromHead + 1 <= h
      BY <2>1, <2>2, <2>7, <3>2, <3>3
    <3>4. CASE h <= fromHead
      BY <1>0, <1>1, <2>3, <2>7, <3>4, GivenStays DEF FromInv
    <3> QED
      BY <1>0, <1>1, <3>3, <3>4 DEF Heights
  <2>8. FromInv'
    BY <2>1, <2>3, <2>7 DEF FromInv, GivenTo
  <2> QED
    BY <1>2, <1>4, <2>1, <2>3, <2>4, <2>5, <2>6, <2>8
<1>16. CASE AppendPending
  <2>1. /\ UNCHANGED <<ranges, rangesLk>> /\ lpc = "append" /\ lpc' = "remove"
        /\ Accepts(headers[1]) /\ StoreAppend(headers[1], headers[2])
        /\ UNCHANGED <<subjHead, fromHead, to, held, headers, reqTo, got>>
    BY <1>16 DEF AppendPending, sharedVars
  <2>2. /\ headers # None /\ headers[1] <= headers[2]
        /\ headers[1] \in Heights /\ headers[2] \in Heights
    <3>1. /\ headers # None /\ 1 <= headers[1] /\ headers[1] <= headers[2]
          /\ headers[2] <= MaxHeight
      BY <1>0, <2>1 DEF LoopAt
    <3>2. headers[1] \in Int /\ headers[2] \in Int
      BY <1>0, <1>1 DEF Spans, None
    <3> QED
      BY <1>0, <3>1, <3>2 DEF Heights
  <2>3. StoreInv' /\ StoreGrows /\ tail' # 0 /\ tailSet' = tailSet
    BY <1>0, <2>1, <2>2, StoreAppendIs
  <2>4. /\ failed' \in BOOLEAN /\ triggerSync' \in BOOLEAN /\ errors' = errors
        /\ UNCHANGED <<procVars, rangesLk, incomingMu, tailMu, started, gossips, calls>>
    BY <1>1, <1>16 DEF AppendPending, sharedVars, countVars
  <2>5. LoopTypes'
    BY <1>1, <2>1 DEF LoopTypes, LoopLabels
  <2>6. HeldInv' /\ LoopAt'
    BY <1>0, <2>1 DEF HeldInv, LoopAt
  <2>7. \A h \in Heights : headers[1] <= h /\ h <= headers[2] => h \in stored'
    <3>1. Grow(headers[1], headers[2])
      BY <2>1 DEF StoreAppend
    <3> QED
      BY <1>0, <2>2, <3>1, GrowIs
  <2>8. \A h \in Heights : tail' <= h /\ h <= fromHead => h \in stored'
    BY <1>0, <1>1, <2>3, GivenStays DEF FromInv
  <2>9. FromInv'
    BY <2>1, <2>3, <2>7, <2>8 DEF FromInv, GivenTo
  <2> QED
    BY <1>2, <1>4, <2>1, <2>3, <2>4, <2>5, <2>6, <2>9
<1>17. CASE LoopRemove
  <2>1. /\ UNCHANGED <<cached, stored, tail>> /\ lpc = "remove" /\ lpc' = "first"
        /\ rangesLk' = rangesLk
        /\ ranges' = IF held THEN [ranges EXCEPT ![1] = Remove(ranges[1], to)] ELSE ranges
        /\ fromHead' = headers[2] /\ held' = FALSE /\ headers' = None /\ reqTo' = 0
        /\ UNCHANGED <<subjHead, to, got>>
    BY <1>17 DEF LoopRemove, storeVars
  <2>2. /\ failed' \in BOOLEAN /\ triggerSync' \in BOOLEAN /\ errors' = errors
        /\ UNCHANGED <<procVars, rangesLk, tailSet, incomingMu, tailMu, started, gossips, calls>>
    BY <1>1, <1>17 DEF LoopRemove, storeVars, countVars
  <2>3. /\ headers # None /\ headers[1] <= headers[2] /\ headers[1] <= fromHead + 1
        /\ headers[1] \in Heights /\ headers[2] \in Heights
    <3>1. /\ headers # None /\ 1 <= headers[1] /\ headers[1] <= headers[2]
          /\ headers[2] <= MaxHeight /\ headers[1] <= fromHead + 1
      BY <1>0, <2>1 DEF LoopAt
    <3>2. headers[1] \in Int /\ headers[2] \in Int
      BY <1>0, <1>1 DEF Spans, None
    <3> QED
      BY <1>0, <3>1, <3>2 DEF Heights
  <2>4. LoopTypes'
    <3>1. None \in Spans /\ 0 \in 0..MaxHeight /\ "first" \in LoopLabels /\ FALSE \in BOOLEAN
      BY <1>0 DEF Spans, LoopLabels
    <3>2. headers[2] \in 0..MaxHeight
      BY <1>0, <2>3 DEF Heights
    <3> QED
      BY <1>1, <2>1, <3>1, <3>2 DEF LoopTypes
  <2>5. HeldInv' /\ LoopAt'
    BY <2>1 DEF HeldInv, LoopAt
  <2>6. FromInv'
    <3>1. headers[1] \in stored /\ tail # 0
      BY <1>0, <2>1, <2>3 DEF FromInv, StoreInv, Heights
    <3>2. ASSUME NEW h \in Heights, tail <= h, h <= headers[2]
          PROVE  h \in stored
      <4>1. CASE headers[1] <= h
        BY <1>0, <2>1, <3>2, <4>1 DEF FromInv
      <4>2. CASE h <= fromHead
        BY <1>0, <3>2, <4>2 DEF FromInv, GivenTo
      <4> QED
        BY <1>0, <1>1, <2>3, <4>1, <4>2 DEF Heights
    <3> QED
      BY <2>1, <3>1, <3>2 DEF FromInv, GivenTo
  <2>7. /\ ranges' \in Seq(RangeSet) /\ (ranges # <<>> => ranges' # <<>>)
        /\ ranges # <<>> => ranges'[Len(ranges')].hi = ranges[Len(ranges)].hi
    <3>1. CASE ~held
      BY <1>1, <2>1, <3>1
    <3>2. CASE held
      <4>1. ranges # <<>>
        BY <1>0, <3>2 DEF HeldInv
      <4>2. ranges[1] \in RangeSet /\ Len(ranges) \in Nat \ {0} /\ DOMAIN ranges = 1..Len(ranges)
        BY <1>1, <4>1
      <4>3. Remove(ranges[1], to) \in RangeSet
        BY <1>1, <4>2, RemoveType
      <4>4. Remove(ranges[1], to).hi = ranges[1].hi
        BY DEF Remove
      <4>5. ranges' = [ranges EXCEPT ![1] = Remove(ranges[1], to)]
        BY <2>1, <3>2
      <4>6. ranges' \in Seq(RangeSet) /\ Len(ranges') = Len(ranges)
        BY <1>1, <4>2, <4>3, <4>5
      <4>7. \A i \in 1..Len(ranges) : ranges'[i].hi = ranges[i].hi
        BY <4>2, <4>4, <4>5
      <4> QED
        BY <4>1, <4>2, <4>6, <4>7
    <3> QED
      BY <3>1, <3>2
  <2>8. RangesInv' /\ (rangesLk # "free" => ranges'[Len(ranges')].hi = ranges[Len(ranges)].hi)
    BY <1>0, <2>1, <2>7 DEF RangesInv
  <2> QED
    BY <1>2, <1>3, <2>1, <2>2, <2>4, <2>5, <2>6, <2>8
<1> QED
  BY <1>6, <1>7, <1>8, <1>9, <1>10, <1>11, <1>12, <1>13, <1>14, <1>15, <1>16, <1>17 DEF LoopStep

-----------------------------------------------------------------------------
\* The steps of the goroutines.

\* A step of p leaves the variables of the others alone ...
Others(p) ==
    \A q \in Procs : q # p =>
        /\ ppc'[q] = ppc[q] /\ ret'[q] = ret[q] /\ newHead'[q] = newHead[q]
        /\ sbj'[q] = sbj[q] /\ diff'[q] = diff[q] /\ arg'[q] = arg[q]

\* ... and touches the ranges only when nobody else is inside Add.
AddAlone(p) ==
    \/ UNCHANGED <<ranges, rangesLk>>
    \/ rangesLk \in {"free", p} /\ rangesLk' \in {"free", p}

\* What a step of a goroutine has to show.
LEMMA ProcKeeps ==
    ASSUME Inv, NEW p \in Procs, StoreInv', StoreGrows, RangesInv', AddAlone(p),
           UNCHANGED <<lpc, subjHead, fromHead, to, headers, reqTo, got>>,
           held' \in BOOLEAN, held' => held /\ ranges' # <<>>,
           ProcTypes', Others(p), ProcAt(p)', OtherTypes'
    PROVE  Inv'
<1>0. /\ StoreInv /\ LoopTypes /\ HeldInv /\ LoopAt /\ FromInv /\ ProcInv /\ "free" \notin Procs
  BY SyncerAssumption DEF Inv
<1>1. LoopTypes'
  BY <1>0 DEF LoopTypes
<1>2. HeldInv' /\ LoopAt'
  BY <1>0 DEF HeldInv, LoopAt
<1>3. FromInv'
  BY <1>0, FromSame
<1>4. ASSUME NEW q \in Procs, q # p
      PROVE  ProcAt(q)'
  <2>1. ProcAt(q)
    BY <1>0 DEF ProcInv
  <2>2. /\ ppc'[q] = ppc[q] /\ ret'[q] = ret[q] /\ newHead'[q] = newHead[q]
        /\ sbj'[q] = sbj[q] /\ diff'[q] = diff[q] /\ arg'[q] = arg[q]
    BY <1>4 DEF Others
  <2>3. CASE UNCHANGED <<ranges, rangesLk>>
    BY <2>1, <2>2, <2>3 DEF ProcAt
  <2>4. CASE rangesLk \in {"free", p} /\ rangesLk' \in {"free", p}
    <3>1. rangesLk # q /\ rangesLk' # q
      BY <1>0, <1>4, <2>4
    <3>2. ppc[q] # "put"
      BY <2>1, <3>1 DEF ProcAt
    <3> QED
      BY <2>1, <2>2, <3>1, <3>2 DEF ProcAt
  <2> QED
    BY <2>3, <2>4 DEF AddAlone
<1>5. ProcInv'
  BY <1>4 DEF ProcInv
<1> QED
  BY <1>1, <1>2, <1>3, <1>5 DEF Inv

\* Most steps leave the store, the ranges and syncLoop alone.
LEMMA QuietKeeps ==
    ASSUME Inv, NEW p \in Procs, UNCHANGED <<cached, stored, tail, ranges, rangesLk>>,
           UNCHANGED <<lpc, subjHead, fromHead, to, held, headers, reqTo, got>>,
           ProcTypes', Others(p), ProcAt(p)', OtherTypes'
    PROVE  Inv'
<1>1. StoreInv' /\ StoreGrows
  BY StoreSame DEF Inv
<1>2. RangesInv' /\ AddAlone(p)
  BY DEF Inv, RangesInv, AddAlone
<1>3. held' \in BOOLEAN /\ (held' => held /\ ranges' # <<>>)
  BY DEF Inv, LoopTypes, HeldInv
<1> QED
  BY <1>1, <1>2, <1>3, ProcKeeps

\* A call is over.
LEMMA FinishIs ==
    ASSUME ProcTypes, NEW p \in Procs, ProcAt(p), NEW err, Finish(p, err), rangesLk' = rangesLk,
           ppc[p] # "put", soft' \in [Callers -> BOOLEAN]
    PROVE  ProcTypes' /\ Others(p) /\ ProcAt(p)' /\ started' \in BOOLEAN
<1>0. MaxHeight \in Nat
  BY SyncerAssumption
<1>1. /\ ppc' = [ppc EXCEPT ![p] = "idle"] /\ ret' = [ret EXCEPT ![p] = "none"]
      /\ newHead' = [newHead EXCEPT ![p] = 0] /\ sbj' = [sbj EXCEPT ![p] = 0]
      /\ diff' = [diff EXCEPT ![p] = 0] /\ arg' = [arg EXCEPT ![p] = 0]
  BY DEF Finish, Goto
<1>2. ProcTypes'
  BY <1>0, <1>1 DEF ProcTypes, ProcLabels
<1>3. Others(p) /\ ppc'[p] = "idle"
  BY <1>1 DEF ProcTypes, Others
<1>4. rangesLk' # p
  BY DEF ProcAt
<1>5. ProcAt(p)'
  BY <1>3, <1>4 DEF ProcAt, SetLabels
<1>6. started' \in BOOLEAN
  BY DEF Finish
<1> QED
  BY <1>2, <1>3, <1>5, <1>6

\* A goroutine's own entry changes.
LEMMA Update ==
    ASSUME NEW T, NEW f \in [Procs -> T], NEW p \in Procs, NEW g,
           g = f \/ \E v \in T : g = [f EXCEPT ![p] = v]
    PROVE  g \in [Procs -> T] /\ \A q \in Procs : q # p => g[q] = f[q]
OBVIOUS

\* The locks, the flags and the counters under a step of a goroutine.
LEMMA OtherMoves ==
    ASSUME OtherTypes, NEW p \in Procs, tailSet' \in BOOLEAN, failed' = failed,
           incomingMu' \in {incomingMu, p, "free"}, tailMu' \in {tailMu, p, "free"},
           triggerSync' \in BOOLEAN, started' \in BOOLEAN, errors' = errors \/ Fails,
           gossips' = gossips \/ (gossips < MaxGossips /\ gossips' = gossips + 1),
           calls' = calls \/ (calls < MaxCalls /\ calls' = calls + 1)
    PROVE  OtherTypes'
<1>0. MaxGossips \in Nat /\ MaxCalls \in Nat /\ MaxErrors \in Nat
  BY SyncerAssumption
<1>1. errors' \in 0..MaxErrors /\ gossips' \in 0..MaxGossips /\ calls' \in 0..MaxCalls
  BY <1>0 DEF OtherTypes, Fails
<1>2. incomingMu' \in Procs \cup {"free"} /\ tailMu' \in Procs \cup {"free"}
  BY DEF OtherTypes
<1> QED
  BY <1>1, <1>2 DEF OtherTypes

\* The calls, and Head up to what it asks the exchange for.
LEMMA HeadKeeps ==
    ASSUME Inv, NEW p \in Procs, NEW h \in Heights,
           Gossip(p, h) \/ HeadCall(p) \/ ReadHead(p) \/ HeadRecent(p) \/ HeadFails(p)
           \/ HeadInitialize(p, h) \/ HeadRequest(p, h) \/ HeadSoftFailure(p, h)
    PROVE  Inv'
<1>0. /\ MaxHeight \in Nat /\ NetworkHeads \subseteq Heights /\ GossipHeads \subseteq Heights
      /\ cached \in 0..MaxHeight /\ ranges \in Seq(RangeSet) /\ OtherTypes /\ ProcAt(p)
  BY SyncerAssumption DEF Inv, StoreInv, RangesInv, ProcInv
<1>1. /\ ProcTypes
      /\ ppc \in [Procs -> ProcLabels] /\ ret \in [Procs -> {"none", "ok", "bifurcated", "tail"}]
      /\ soft \in [Callers -> BOOLEAN]
      /\ newHead \in [Procs -> 0..MaxHeight] /\ sbj \in [Procs -> 0..MaxHeight]
      /\ diff \in [Procs -> 0..MaxHeight] /\ arg \in [Procs -> 0..MaxHeight]
  BY DEF Inv, ProcTypes
<1>2. CASE Gossip(p, h)
  <2>1. /\ UNCHANGED <<cached, stored, tail, ranges, rangesLk>>
        /\ UNCHANGED <<lpc, subjHead, fromHead, to, held, headers, reqTo, got>>
    BY <1>2 DEF Gossip, storeVars, sharedVars, loopVars
  <2>2. OtherTypes'
    <3>1. /\ UNCHANGED <<incomingMu, tailMu, failed>> /\ started' \in BOOLEAN
          /\ tailSet' \in BOOLEAN /\ triggerSync' \in BOOLEAN
          /\ errors' = errors \/ Fails
          /\ gossips' = gossips \/ (gossips < MaxGossips /\ gossips' = gossips + 1)
          /\ calls' = calls \/ (calls < MaxCalls /\ calls' = calls + 1)
      BY <1>0, <1>2 DEF Gossip, storeVars, sharedVars, loopVars, countVars, OtherTypes
    <3> QED
      BY <1>0, <3>1, OtherMoves
  <2>3. /\ ppc[p] = "idle" /\ ppc' = [ppc EXCEPT ![p] = "lock"]
        /\ newHead' = [newHead EXCEPT ![p] = h] /\ UNCHANGED <<ret, soft, sbj, diff, arg>>
    BY <1>2 DEF Gossip, Goto
  <2>4. ProcTypes' /\ Others(p)
    BY <1>0, <1>1, <2>3 DEF ProcTypes, ProcLabels, Others, Heights
  <2>5. ProcAt(p)'
    BY <1>0, <1>1, <2>1, <2>3 DEF ProcAt, SetLabels, Heights
  <2> QED
    BY <2>1, <2>2, <2>4, <2>5, QuietKeeps
<1>3. CASE HeadCall(p)
  <2>1. /\ UNCHANGED <<cached, stored, tail, ranges, rangesLk>>
        /\ UNCHANGED <<lpc, subjHead, fromHead, to, held, headers, reqTo, got>>
    BY <1>3 DEF HeadCall, storeVars, sharedVars, loopVars
  <2>2. OtherTypes'
    <3>1. /\ UNCHANGED <<incomingMu, tailMu, failed>> /\ started' \in BOOLEAN
          /\ tailSet' \in BOOLEAN /\ triggerSync' \in BOOLEAN
          /\ errors' = errors \/ Fails
          /\ gossips' = gossips \/ (gossips < MaxGossips /\ gossips' = gossips + 1)
          /\ calls' = calls \/ (calls < MaxCalls /\ calls' = calls + 1)
      BY <1>0, <1>3 DEF HeadCall, storeVars, sharedVars, loopVars, countVars, OtherTypes
    <3> QED
      BY <1>0, <3>1, OtherMoves
  <2>3. /\ ppc[p] = "idle" /\ ppc' = [ppc EXCEPT ![p] = "head"]
        /\ sbj' = [sbj EXCEPT ![p] = PendingHead(ranges)]
        /\ UNCHANGED <<ret, soft, newHead, diff, arg>>
    BY <1>3 DEF HeadCall, Goto
  <2>4. ProcTypes' /\ Others(p)
    BY <1>0, <1>1, <2>3, PendingHeadType DEF ProcTypes, ProcLabels, Others
  <2>5. ProcAt(p)'
    BY <1>0, <1>1, <2>1, <2>3 DEF ProcAt, SetLabels
  <2> QED
    BY <2>1, <2>2, <2>4, <2>5, QuietKeeps
<1>4. CASE ReadHead(p)
  <2>1. /\ UNCHANGED <<cached, stored, tail, ranges, rangesLk>>
        /\ UNCHANGED <<lpc, subjHead, fromHead, to, held, headers, reqTo, got>>
    BY <1>4 DEF ReadHead, storeVars, sharedVars, loopVars
  <2>2. OtherTypes'
    <3>1. /\ UNCHANGED <<incomingMu, tailMu, failed>> /\ started' \in BOOLEAN
          /\ tailSet' \in BOOLEAN /\ triggerSync' \in BOOLEAN
          /\ errors' = errors \/ Fails
          /\ gossips' = gossips \/ (gossips < MaxGossips /\ gossips' = gossips + 1)
          /\ calls' = calls \/ (calls < MaxCalls /\ calls' = calls + 1)
      BY <1>0, <1>4 DEF ReadHead, storeVars, sharedVars, loopVars, countVars, OtherTypes
    <3> QED
      BY <1>0, <3>1, OtherMoves
  <2>3. /\ ppc[p] = "head" /\ ppc' = [ppc EXCEPT ![p] = "network"]
        /\ sbj' = [sbj EXCEPT ![p] = Highest(sbj[p], cached)]
        /\ UNCHANGED <<ret, soft, newHead, diff, arg>>
    BY <1>4 DEF ReadHead, Goto
  <2>4. ProcTypes' /\ Others(p)
    BY <1>0, <1>1, <2>3 DEF ProcTypes, ProcLabels, Others, Highest
  <2>5. ProcAt(p)'
    BY <1>0, <1>1, <2>1, <2>3 DEF ProcAt, SetLabels
  <2> QED
    BY <2>1, <2>2, <2>4, <2>5, QuietKeeps
<1>5. CASE HeadRecent(p)
  <2>1. /\ UNCHANGED <<cached, stored, tail, ranges, rangesLk>>
        /\ UNCHANGED <<lpc, subjHead, fromHead, to, held, headers, reqTo, got>>
        /\ ppc[p] # "put" /\ soft' = soft
    BY <1>5 DEF HeadRecent, storeVars, sharedVars, loopVars
  <2>2. PICK err \in BOOLEAN : Finish(p, err)
    BY <1>5 DEF HeadRecent
  <2>3. ProcTypes' /\ Others(p) /\ ProcAt(p)' /\ started' \in BOOLEAN
    BY <1>0, <1>1, <2>1, <2>2, FinishIs
  <2>4. OtherTypes'
    <3>1. /\ UNCHANGED <<tailSet, incomingMu, tailMu, failed, triggerSync, gossips, calls>>
          /\ errors' = errors \/ Fails
      BY <1>5 DEF HeadRecent, storeVars, sharedVars, loopVars, countVars
    <3>2. triggerSync \in BOOLEAN /\ tailSet \in BOOLEAN
      BY <1>0 DEF OtherTypes
    <3> QED
      BY <1>0, <2>3, <3>1, <3>2, OtherMoves
  <2> QED
    BY <2>1, <2>3, <2>4, QuietKeeps
<1>6. CASE HeadFails(p)
  <2>1. /\ UNCHANGED <<cached, stored, tail, ranges, rangesLk>>
        /\ UNCHANGED <<lpc, subjHead, fromHead, to, held, headers, reqTo, got>>
        /\ ppc[p] # "put" /\ soft' = soft
    BY <1>6 DEF HeadFails, storeVars, sharedVars, loopVars
  <2>2. PICK err \in BOOLEAN : Finish(p, err)
    BY <1>6 DEF HeadFails
  <2>3. ProcTypes' /\ Others(p) /\ ProcAt(p)' /\ started' \in BOOLEAN
    BY <1>0, <1>1, <2>1, <2>2, FinishIs
  <2>4. OtherTypes'
    <3>1. /\ UNCHANGED <<tailSet, incomingMu, tailMu, failed, triggerSync, gossips, calls>>
          /\ errors' = errors \/ Fails
      BY <1>6 DEF HeadFails, storeVars, sharedVars, loopVars, countVars
    <3>2. triggerSync \in BOOLEAN /\ tailSet \in BOOLEAN
      BY <1>0 DEF OtherTypes
    <3> QED
      BY <1>0, <2>3, <3>1, <3>2, OtherMoves
  <2> QED
    BY <2>1, <2>3, <2>4, QuietKeeps
<1>7. CASE HeadInitialize(p, h)
  <2>1. /\ UNCHANGED <<cached, stored, tail, ranges, rangesLk>>
        /\ UNCHANGED <<lpc, subjHead, fromHead, to, held, headers, reqTo, got>>
    BY <1>7 DEF HeadInitialize, storeVars, sharedVars, loopVars
  <2>2. OtherTypes'
    <3>1. /\ UNCHANGED <<incomingMu, tailMu, failed>> /\ started' \in BOOLEAN
          /\ tailSet' \in BOOLEAN /\ triggerSync' \in BOOLEAN
          /\ errors' = errors \/ Fails
          /\ gossips' = gossips \/ (gossips < MaxGossips /\ gossips' = gossips + 1)
          /\ calls' = calls \/ (calls < MaxCalls /\ calls' = calls + 1)
      BY <1>0, <1>7 DEF HeadInitialize, storeVars, sharedVars, loopVars, countVars, OtherTypes
    <3> QED
      BY <1>0, <3>1, OtherMoves
  <2>3. /\ ppc[p] = "network" /\ ppc' = [ppc EXCEPT ![p] = "tail"]
        /\ newHead' = [newHead EXCEPT ![p] = h] /\ sbj' = [sbj EXCEPT ![p] = 0]
        /\ UNCHANGED <<ret, soft, diff, arg>>
    BY <1>7 DEF HeadInitialize, Goto, Forget
  <2>4. ProcTypes' /\ Others(p)
    BY <1>0, <1>1, <2>3 DEF ProcTypes, ProcLabels, Others, Heights
  <2>5. ProcAt(p)'
    BY <1>0, <1>1, <2>1, <2>3 DEF ProcAt, SetLabels, Heights
  <2> QED
    BY <2>1, <2>2, <2>4, <2>5, QuietKeeps
<1>8. CASE HeadRequest(p, h)
  <2>1. /\ UNCHANGED <<cached, stored, tail, ranges, rangesLk>>
        /\ UNCHANGED <<lpc, subjHead, fromHead, to, held, headers, reqTo, got>>
    BY <1>8 DEF HeadRequest, storeVars, sharedVars, loopVars
  <2>2. OtherTypes'
    <3>1. /\ UNCHANGED <<incomingMu, tailMu, failed>> /\ started' \in BOOLEAN
          /\ tailSet' \in BOOLEAN /\ triggerSync' \in BOOLEAN
          /\ errors' = errors \/ Fails
          /\ gossips' = gossips \/ (gossips < MaxGossips /\ gossips' = gossips + 1)
          /\ calls' = calls \/ (calls < MaxCalls /\ calls' = calls + 1)
      BY <1>0, <1>8 DEF HeadRequest, storeVars, sharedVars, loopVars, countVars, OtherTypes
    <3> QED
      BY <1>0, <3>1, OtherMoves
  <2>3. /\ ppc[p] = "network" /\ ppc' = [ppc EXCEPT ![p] = "set"]
        /\ newHead' = [newHead EXCEPT ![p] = h] /\ sbj' = [sbj EXCEPT ![p] = 0]
        /\ arg' = [arg EXCEPT ![p] = h] /\ ret' = [ret EXCEPT ![p] = "tail"]
        /\ UNCHANGED <<soft, diff>>
    BY <1>8 DEF HeadRequest, Goto, Forget, SetLocalHead
  <2>4. ProcTypes' /\ Others(p)
    BY <1>0, <1>1, <2>3 DEF ProcTypes, ProcLabels, Others, Heights
  <2>5. ProcAt(p)'
    BY <1>0, <1>1, <2>1, <2>3 DEF ProcAt, SetLabels, Heights
  <2> QED
    BY <2>1, <2>2, <2>4, <2>5, QuietKeeps
<1>9. CASE HeadSoftFailure(p, h)
  <2>1. /\ UNCHANGED <<cached, stored, tail, ranges, rangesLk>>
        /\ UNCHANGED <<lpc, subjHead, fromHead, to, held, headers, reqTo, got>>
    BY <1>9 DEF HeadSoftFailure, storeVars, sharedVars, loopVars
  <2>2. OtherTypes'
    <3>1. /\ UNCHANGED <<incomingMu, tailMu, failed>> /\ started' \in BOOLEAN
          /\ tailSet' \in BOOLEAN /\ triggerSync' \in BOOLEAN
          /\ errors' = errors \/ Fails
          /\ gossips' = gossips \/ (gossips < MaxGossips /\ gossips' = gossips + 1)
          /\ calls' = calls \/ (calls < MaxCalls /\ calls' = calls + 1)
      BY <1>0, <1>9 DEF HeadSoftFailure, storeVars, sharedVars, loopVars, countVars, OtherTypes
    <3> QED
      BY <1>0, <3>1, OtherMoves
  <2>3. /\ ppc[p] = "network" /\ ppc' = [ppc EXCEPT ![p] = "lock"]
        /\ newHead' = [newHead EXCEPT ![p] = h] /\ sbj' = [sbj EXCEPT ![p] = 0]
        /\ soft' = [soft EXCEPT ![p] = TRUE] /\ UNCHANGED <<ret, diff, arg>>
    BY <1>9 DEF HeadSoftFailure, Goto, Forget
  <2>4. ProcTypes' /\ Others(p)
    <3>1. ppc' \in [Procs -> ProcLabels] /\ \A q \in Procs : q # p => ppc'[q] = ppc[q]
      BY <1>0, <1>1, <2>3 DEF ProcLabels
    <3>2. ret' \in [Procs -> {"none", "ok", "bifurcated", "tail"}]
          /\ \A q \in Procs : q # p => ret'[q] = ret[q]
      BY <1>0, <1>1, <2>3
    <3>3. newHead' \in [Procs -> 0..MaxHeight] /\ \A q \in Procs : q # p => newHead'[q] = newHead[q]
      BY <1>0, <1>1, <2>3 DEF Heights
    <3>4. sbj' \in [Procs -> 0..MaxHeight] /\ \A q \in Procs : q # p => sbj'[q] = sbj[q]
      BY <1>0, <1>1, <2>3
    <3>5. diff' \in [Procs -> 0..MaxHeight] /\ \A q \in Procs : q # p => diff'[q] = diff[q]
      BY <1>0, <1>1, <2>3
    <3>6. arg' \in [Procs -> 0..MaxHeight] /\ \A q \in Procs : q # p => arg'[q] = arg[q]
      BY <1>0, <1>1, <2>3 DEF Heights
    <3>7. soft' \in [Callers -> BOOLEAN]
      BY <1>0, <1>1, <2>3
    <3> QED
      BY <3>1, <3>2, <3>3, <3>4, <3>5, <3>6, <3>7 DEF ProcTypes, Others
  <2>5. ProcAt(p)'
    BY <1>0, <1>1, <2>1, <2>3 DEF ProcAt, SetLabels, Heights
  <2> QED
    BY <2>1, <2>2, <2>4, <2>5, QuietKeeps
<1> QED
  BY <1>2, <1>3, <1>4, <1>5, <1>6, <1>7, <1>8, <1>9

\* verify and verifyBifurcating.
LEMMA VerifyKeeps ==
    ASSUME Inv, NEW p \in Procs, Verify(p) \/ Bifurcate(p) \/ BifurcateFails(p) \/ Bifurcated(p)
    PROVE  Inv'
<1>0. /\ MaxHeight \in Nat /\ NetworkHeads \subseteq Heights /\ GossipHeads \subseteq Heights
      /\ cached \in 0..MaxHeight /\ ranges \in Seq(RangeSet) /\ OtherTypes /\ ProcAt(p)
  BY SyncerAssumption DEF Inv, StoreInv, RangesInv, ProcInv
<1>1. /\ ProcTypes
      /\ ppc \in [Procs -> ProcLabels] /\ ret \in [Procs -> {"none", "ok", "bifurcated", "tail"}]
      /\ soft \in [Callers -> BOOLEAN]
      /\ newHead \in [Procs -> 0..MaxHeight] /\ sbj \in [Procs -> 0..MaxHeight]
      /\ diff \in [Procs -> 0..MaxHeight] /\ arg \in [Procs -> 0..MaxHeight]
  BY DEF Inv, ProcTypes
<1>2. CASE Verify(p)
  <2>1. /\ UNCHANGED <<cached, stored, tail, ranges, rangesLk>>
        /\ UNCHANGED <<lpc, subjHead, fromHead, to, held, headers, reqTo, got>>
    BY <1>2 DEF Verify, storeVars, sharedVars, loopVars
  <2>2. OtherTypes'
    <3>1. /\ UNCHANGED <<incomingMu, tailMu, failed>> /\ started' \in BOOLEAN
          /\ tailSet' \in BOOLEAN /\ triggerSync' \in BOOLEAN
          /\ errors' = errors \/ Fails
          /\ gossips' = gossips \/ (gossips < MaxGossips /\ gossips' = gossips + 1)
          /\ calls' = calls \/ (calls < MaxCalls /\ calls' = calls + 1)
      BY <1>0, <1>2 DEF Verify, storeVars, sharedVars, loopVars, countVars, OtherTypes
    <3> QED
      BY <1>0, <3>1, OtherMoves
  <2>3. /\ ppc[p] = "verify" /\ UNCHANGED <<soft, newHead>>
        /\ \/ /\ ppc' = [ppc EXCEPT ![p] = "rejected"] /\ sbj' = [sbj EXCEPT ![p] = 0]
              /\ UNCHANGED <<diff, arg, ret>>
           \/ /\ ppc' = [ppc EXCEPT ![p] = "set"] /\ sbj' = [sbj EXCEPT ![p] = 0]
              /\ arg' = [arg EXCEPT ![p] = newHead[p]] /\ ret' = [ret EXCEPT ![p] = "ok"]
              /\ diff' = diff
           \/ /\ newHead[p] > Highest(sbj[p], cached)
              /\ ppc' = [ppc EXCEPT ![p] = "bifurcate"]
              /\ sbj' = [sbj EXCEPT ![p] = Highest(sbj[p], cached)]
              /\ diff' = [diff EXCEPT ![p] = newHead[p] - Highest(sbj[p], cached)]
              /\ UNCHANGED <<arg, ret>>
    BY <1>2 DEF Verify, Goto, Forget, SetLocalHead
  <2>6. /\ Highest(sbj[p], cached) \in 0..MaxHeight
        /\ newHead[p] > Highest(sbj[p], cached) => newHead[p] - Highest(sbj[p], cached) \in 0..MaxHeight
    BY <1>0, <1>1 DEF Highest
  <2>4. ProcTypes' /\ Others(p)
    <3>1. ppc' \in [Procs -> ProcLabels] /\ \A q \in Procs : q # p => ppc'[q] = ppc[q]
      BY <1>0, <1>1, <2>3, <2>6 DEF ProcLabels
    <3>2. ret' \in [Procs -> {"none", "ok", "bifurcated", "tail"}]
          /\ \A q \in Procs : q # p => ret'[q] = ret[q]
      BY <1>0, <1>1, <2>3, <2>6
    <3>3. newHead' \in [Procs -> 0..MaxHeight] /\ \A q \in Procs : q # p => newHead'[q] = newHead[q]
      BY <1>0, <1>1, <2>3, <2>6 DEF Heights
    <3>4. sbj' \in [Procs -> 0..MaxHeight] /\ \A q \in Procs : q # p => sbj'[q] = sbj[q]
      <4>1. sbj' = sbj \/ \E v \in 0..MaxHeight : sbj' = [sbj EXCEPT ![p] = v]
        <5>1. 0 \in 0..MaxHeight /\ newHead[p] \in 0..MaxHeight
          BY <1>0, <1>1
        <5> QED
          BY <2>3, <2>6, <5>1, Zenon
      <4> QED
        BY <1>1, <4>1, Update
    <3>5. diff' \in [Procs -> 0..MaxHeight] /\ \A q \in Procs : q # p => diff'[q] = diff[q]
      <4>1. diff' = diff \/ \E v \in 0..MaxHeight : diff' = [diff EXCEPT ![p] = v]
        <5>1. 0 \in 0..MaxHeight /\ newHead[p] \in 0..MaxHeight
          BY <1>0, <1>1
        <5> QED
          BY <2>3, <2>6, <5>1, Zenon
      <4> QED
        BY <1>1, <4>1, Update
    <3>6. arg' \in [Procs -> 0..MaxHeight] /\ \A q \in Procs : q # p => arg'[q] = arg[q]
      <4>1. arg' = arg \/ \E v \in 0..MaxHeight : arg' = [arg EXCEPT ![p] = v]
        <5>1. 0 \in 0..MaxHeight /\ newHead[p] \in 0..MaxHeight
          BY <1>0, <1>1
        <5> QED
          BY <2>3, <2>6, <5>1, Zenon
      <4> QED
        BY <1>1, <4>1, Update
    <3>7. soft' \in [Callers -> BOOLEAN]
      BY <1>0, <1>1, <2>3, <2>6
    <3> QED
      BY <3>1, <3>2, <3>3, <3>4, <3>5, <3>6, <3>7 DEF ProcTypes, Others
  <2>5. ProcAt(p)'
    BY <1>0, <1>1, <2>1, <2>3, <2>6 DEF ProcAt, SetLabels
  <2> QED
    BY <2>1, <2>2, <2>4, <2>5, QuietKeeps
<1>3. CASE Bifurcate(p)
  <2>1. /\ UNCHANGED <<cached, stored, tail, ranges, rangesLk>>
        /\ UNCHANGED <<lpc, subjHead, fromHead, to, held, headers, reqTo, got>>
    BY <1>3 DEF Bifurcate, storeVars, sharedVars, loopVars
  <2>2. OtherTypes'
    <3>1. /\ UNCHANGED <<incomingMu, tailMu, failed>> /\ started' \in BOOLEAN
          /\ tailSet' \in BOOLEAN /\ triggerSync' \in BOOLEAN
          /\ errors' = errors \/ Fails
          /\ gossips' = gossips \/ (gossips < MaxGossips /\ gossips' = gossips + 1)
          /\ calls' = calls \/ (calls < MaxCalls /\ calls' = calls + 1)
      BY <1>0, <1>3 DEF Bifurcate, storeVars, sharedVars, loopVars, countVars, OtherTypes
    <3> QED
      BY <1>0, <3>1, OtherMoves
  <2>3. /\ ppc[p] = "bifurcate" /\ UNCHANGED <<soft, newHead>>
        /\ \/ /\ ppc' = [ppc EXCEPT ![p] = "set"]
              /\ sbj[p] + diff[p] \div 2 > sbj[p]
              /\ sbj' = [sbj EXCEPT ![p] = sbj[p] + diff[p] \div 2]
              /\ diff' = [diff EXCEPT ![p] = 0]
              /\ arg' = [arg EXCEPT ![p] = sbj[p] + diff[p] \div 2]
              /\ ret' = [ret EXCEPT ![p] = "bifurcated"]
           \/ /\ diff' = [diff EXCEPT ![p] = diff[p] \div 2]
              /\ \/ ppc' = [ppc EXCEPT ![p] = "rejected"]
                 \/ ppc' = [ppc EXCEPT ![p] = "bifurcate"]
              /\ UNCHANGED <<sbj, arg, ret>>
    BY <1>3 DEF Bifurcate, Goto, Verifies, SetLocalHead
  <2>6. /\ diff[p] \div 2 \in 0..MaxHeight /\ sbj[p] + diff[p] \div 2 \in 0..MaxHeight
        /\ sbj[p] + diff[p] \div 2 <= newHead[p]
    <3>1. sbj[p] + diff[p] <= newHead[p]
      BY <1>0, <2>3 DEF ProcAt
    <3>2. \A d \in Nat : d \div 2 \in Nat /\ d \div 2 <= d
      OBVIOUS
    <3> QED
      BY <1>0, <1>1, <3>1, <3>2
  <2>4. ProcTypes' /\ Others(p)
    <3>1. ppc' \in [Procs -> ProcLabels] /\ \A q \in Procs : q # p => ppc'[q] = ppc[q]
      BY <1>0, <1>1, <2>3, <2>6 DEF ProcLabels
    <3>2. ret' \in [Procs -> {"none", "ok", "bifurcated", "tail"}]
          /\ \A q \in Procs : q # p => ret'[q] = ret[q]
      BY <1>0, <1>1, <2>3, <2>6
    <3>3. newHead' \in [Procs -> 0..MaxHeight] /\ \A q \in Procs : q # p => newHead'[q] = newHead[q]
      BY <1>0, <1>1, <2>3, <2>6 DEF Heights
    <3>4. sbj' \in [Procs -> 0..MaxHeight] /\ \A q \in Procs : q # p => sbj'[q] = sbj[q]
      <4>1. sbj' = sbj \/ \E v \in 0..MaxHeight : sbj' = [sbj EXCEPT ![p] = v]
        <5>1. 0 \in 0..MaxHeight /\ newHead[p] \in 0..MaxHeight
          BY <1>0, <1>1
        <5> QED
          BY <2>3, <2>6, <5>1, Zenon
      <4> QED
        BY <1>1, <4>1, Update
    <3>5. diff' \in [Procs -> 0..MaxHeight] /\ \A q \in Procs : q # p => diff'[q] = diff[q]
      <4>1. diff' = diff \/ \E v \in 0..MaxHeight : diff' = [diff EXCEPT ![p] = v]
        <5>1. 0 \in 0..MaxHeight /\ newHead[p] \in 0..MaxHeight
          BY <1>0, <1>1
        <5> QED
          BY <2>3, <2>6, <5>1, Zenon
      <4> QED
        BY <1>1, <4>1, Update
    <3>6. arg' \in [Procs -> 0..MaxHeight] /\ \A q \in Procs : q # p => arg'[q] = arg[q]
      <4>1. arg' = arg \/ \E v \in 0..MaxHeight : arg' = [arg EXCEPT ![p] = v]
        <5>1. 0 \in 0..MaxHeight /\ newHead[p] \in 0..MaxHeight
          BY <1>0, <1>1
        <5> QED
          BY <2>3, <2>6, <5>1, Zenon
      <4> QED
        BY <1>1, <4>1, Update
    <3>7. soft' \in [Callers -> BOOLEAN]
      BY <1>0, <1>1, <2>3, <2>6
    <3> QED
      BY <3>1, <3>2, <3>3, <3>4, <3>5, <3>6, <3>7 DEF ProcTypes, Others
  <2>5. ProcAt(p)'
    BY <1>0, <1>1, <2>1, <2>3, <2>6 DEF ProcAt, SetLabels
  <2> QED
    BY <2>1, <2>2, <2>4, <2>5, QuietKeeps
<1>4. CASE BifurcateFails(p)
  <2>1. /\ UNCHANGED <<cached, stored, tail, ranges, rangesLk>>
        /\ UNCHANGED <<lpc, subjHead, fromHead, to, held, headers, reqTo, got>>
    BY <1>4 DEF BifurcateFails, storeVars, sharedVars, loopVars
  <2>2. OtherTypes'
    <3>1. /\ UNCHANGED <<incomingMu, tailMu, failed>> /\ started' \in BOOLEAN
          /\ tailSet' \in BOOLEAN /\ triggerSync' \in BOOLEAN
          /\ errors' = errors \/ Fails
          /\ gossips' = gossips \/ (gossips < MaxGossips /\ gossips' = gossips + 1)
          /\ calls' = calls \/ (calls < MaxCalls /\ calls' = calls + 1)
      BY <1>0, <1>4 DEF BifurcateFails, storeVars, sharedVars, loopVars, countVars, OtherTypes
    <3> QED
      BY <1>0, <3>1, OtherMoves
  <2>3. /\ ppc[p] = "bifurcate" /\ ppc' = [ppc EXCEPT ![p] = "rejected"]
        /\ UNCHANGED <<ret, soft, newHead, sbj, diff, arg>>
    BY <1>4 DEF BifurcateFails, Goto
  <2>4. ProcTypes' /\ Others(p)
    BY <1>0, <1>1, <2>3 DEF ProcTypes, ProcLabels, Others
  <2>5. ProcAt(p)'
    BY <1>0, <1>1, <2>1, <2>3 DEF ProcAt, SetLabels
  <2> QED
    BY <2>1, <2>2, <2>4, <2>5, QuietKeeps
<1>5. CASE Bifurcated(p)
  <2>1. /\ UNCHANGED <<cached, stored, tail, ranges, rangesLk>>
        /\ UNCHANGED <<lpc, subjHead, fromHead, to, held, headers, reqTo, got>>
    BY <1>5 DEF Bifurcated, storeVars, sharedVars, loopVars
  <2>2. OtherTypes'
    <3>1. /\ UNCHANGED <<incomingMu, tailMu, failed>> /\ started' \in BOOLEAN
          /\ tailSet' \in BOOLEAN /\ triggerSync' \in BOOLEAN
          /\ errors' = errors \/ Fails
          /\ gossips' = gossips \/ (gossips < MaxGossips /\ gossips' = gossips + 1)
          /\ calls' = calls \/ (calls < MaxCalls /\ calls' = calls + 1)
      BY <1>0, <1>5 DEF Bifurcated, storeVars, sharedVars, loopVars, countVars, OtherTypes
    <3> QED
      BY <1>0, <3>1, OtherMoves
  <2>3. /\ ppc[p] = "bifurcated" /\ UNCHANGED <<soft, newHead>>
        /\ \/ /\ ppc' = [ppc EXCEPT ![p] = "set"] /\ sbj' = [sbj EXCEPT ![p] = 0]
              /\ arg' = [arg EXCEPT ![p] = newHead[p]] /\ ret' = [ret EXCEPT ![p] = "ok"]
              /\ diff' = diff
           \/ /\ ppc' = [ppc EXCEPT ![p] = "bifurcate"]
              /\ diff' = [diff EXCEPT ![p] = newHead[p] - sbj[p]]
              /\ UNCHANGED <<sbj, arg, ret>>
    BY <1>5 DEF Bifurcated, Goto, Forget, SetLocalHead
  <2>6. newHead[p] - sbj[p] \in 0..MaxHeight /\ sbj[p] + (newHead[p] - sbj[p]) <= newHead[p]
    <3>1. sbj[p] <= newHead[p]
      BY <1>0, <2>3 DEF ProcAt
    <3> QED
      BY <1>0, <1>1, <3>1
  <2>4. ProcTypes' /\ Others(p)
    <3>1. ppc' \in [Procs -> ProcLabels] /\ \A q \in Procs : q # p => ppc'[q] = ppc[q]
      BY <1>0, <1>1, <2>3, <2>6 DEF ProcLabels
    <3>2. ret' \in [Procs -> {"none", "ok", "bifurcated", "tail"}]
          /\ \A q \in Procs : q # p => ret'[q] = ret[q]
      BY <1>0, <1>1, <2>3, <2>6
    <3>3. newHead' \in [Procs -> 0..MaxHeight] /\ \A q \in Procs : q # p => newHead'[q] = newHead[q]
      BY <1>0, <1>1, <2>3, <2>6 DEF Heights
    <3>4. sbj' \in [Procs -> 0..MaxHeight] /\ \A q \in Procs : q # p => sbj'[q] = sbj[q]
      <4>1. sbj' = sbj \/ \E v \in 0..MaxHeight : sbj' = [sbj EXCEPT ![p] = v]
        <5>1. 0 \in 0..MaxHeight /\ newHead[p] \in 0..MaxHeight
          BY <1>0, <1>1
        <5> QED
          BY <2>3, <2>6, <5>1, Zenon
      <4> QED
        BY <1>1, <4>1, Update
    <3>5. diff' \in [Procs -> 0..MaxHeight] /\ \A q \in Procs : q # p => diff'[q] = diff[q]
      <4>1. diff' = diff \/ \E v \in 0..MaxHeight : diff' = [diff EXCEPT ![p] = v]
        <5>1. 0 \in 0..MaxHeight /\ newHead[p] \in 0..MaxHeight
          BY <1>0, <1>1
        <5> QED
          BY <2>3, <2>6, <5>1, Zenon
      <4> QED
        BY <1>1, <4>1, Update
    <3>6. arg' \in [Procs -> 0..MaxHeight] /\ \A q \in Procs : q # p => arg'[q] = arg[q]
      <4>1. arg' = arg \/ \E v \in 0..MaxHeight : arg' = [arg EXCEPT ![p] = v]
        <5>1. 0 \in 0..MaxHeight /\ newHead[p] \in 0..MaxHeight
          BY <1>0, <1>1
        <5> QED
          BY <2>3, <2>6, <5>1, Zenon
      <4> QED
        BY <1>1, <4>1, Update
    <3>7. soft' \in [Callers -> BOOLEAN]
      BY <1>0, <1>1, <2>3, <2>6
    <3> QED
      BY <3>1, <3>2, <3>3, <3>4, <3>5, <3>6, <3>7 DEF ProcTypes, Others
  <2>5. ProcAt(p)'
    BY <1>0, <1>1, <2>1, <2>3, <2>6 DEF ProcAt, SetLabels
  <2> QED
    BY <2>1, <2>2, <2>4, <2>5, QuietKeeps
<1> QED
  BY <1>2, <1>3, <1>4, <1>5

\* subjectiveTail.
LEMMA TailKeeps ==
    ASSUME Inv, NEW p \in Procs,
           TailRead(p) \/ TailTryLock(p) \/ TailAppend(p) \/ TailFails(p)
    PROVE  Inv'
<1>0. /\ MaxHeight \in Nat /\ Retained \in Nat /\ "free" \notin Procs
      /\ StoreInv /\ RangesInv /\ OtherTypes /\ ProcAt(p) /\ held \in BOOLEAN
      /\ cached \in 0..MaxHeight /\ ranges \in Seq(RangeSet)
  BY SyncerAssumption DEF Inv, StoreInv, RangesInv, ProcInv, LoopTypes
<1>1. /\ ProcTypes
      /\ ppc \in [Procs -> ProcLabels] /\ ret \in [Procs -> {"none", "ok", "bifurcated", "tail"}]
      /\ soft \in [Callers -> BOOLEAN]
      /\ newHead \in [Procs -> 0..MaxHeight] /\ sbj \in [Procs -> 0..MaxHeight]
      /\ diff \in [Procs -> 0..MaxHeight] /\ arg \in [Procs -> 0..MaxHeight]
  BY DEF Inv, ProcTypes
<1>2. AfterTail(p) \in {"lock", "done"}
  BY DEF AfterTail
<1>3. CASE TailRead(p) \/ TailTryLock(p)
  <2>1. /\ UNCHANGED <<cached, stored, tail, ranges, rangesLk>>
        /\ UNCHANGED <<lpc, subjHead, fromHead, to, held, headers, reqTo, got>>
    BY <1>3 DEF TailRead, TailTryLock, storeVars, sharedVars, loopVars
  <2>2. OtherTypes'
    <3>1. /\ UNCHANGED <<tailSet, incomingMu, failed, triggerSync, started, errors, gossips, calls>>
          /\ tailMu' \in {tailMu, p}
      BY <1>3 DEF TailRead, TailTryLock, storeVars, sharedVars, loopVars, countVars
    <3>2. triggerSync \in BOOLEAN /\ tailSet \in BOOLEAN /\ started \in BOOLEAN
      BY <1>0 DEF OtherTypes
    <3> QED
      BY <1>0, <3>1, <3>2, OtherMoves
  <2>3. PICK l \in {"lock", "done", "lockTail", "fetchTail"} : ppc' = [ppc EXCEPT ![p] = l]
    BY <1>2, <1>3 DEF TailRead, TailTryLock, Goto
  <2>4. ppc[p] \in {"tail", "lockTail"} /\ UNCHANGED <<ret, soft, newHead, sbj, diff, arg>>
    BY <1>3 DEF TailRead, TailTryLock
  <2>5. ProcTypes' /\ Others(p)
    BY <1>1, <2>3, <2>4 DEF ProcTypes, ProcLabels, Others
  <2>6. ProcAt(p)'
    BY <1>0, <1>1, <2>1, <2>3, <2>4 DEF ProcAt, SetLabels
  <2> QED
    BY <2>1, <2>2, <2>5, <2>6, QuietKeeps
<1>4. CASE TailAppend(p)
  <2> DEFINE t == estimateTailHeight(newHead[p])
  <2>1. t \in Heights
    <3>1. MaxHeight # 0 /\ newHead[p] \in 0..MaxHeight
      BY <1>1, SyncerAssumption
    <3> QED
      BY <1>0, <3>1 DEF estimateTailHeight, Heights
  <2>2. StoreInv' /\ StoreGrows /\ tailSet' = tailSet
    <3>1. CASE Accepts(t)
      <4>1. StoreAppend(t, t) /\ t <= t
        BY <1>0, <1>4, <2>1, <3>1 DEF TailAppend, Heights
      <4> QED
        BY <1>0, <2>1, <3>1, <4>1, StoreAppendIs
    <3>2. CASE ~Accepts(t)
      <4>1. Grow(t, t) /\ cached' = cached
        BY <1>4, <3>2 DEF TailAppend
      <4> QED
        BY <1>0, <2>1, <3>2, <4>1, ForcedAppendIs
    <3> QED
      BY <3>1, <3>2
  <2>3. /\ UNCHANGED <<ranges, rangesLk>>
        /\ UNCHANGED <<lpc, subjHead, fromHead, to, held, headers, reqTo, got>>
    BY <1>4 DEF TailAppend, loopVars
  <2>4. OtherTypes'
    <3>1. /\ UNCHANGED <<incomingMu, failed, triggerSync, started, errors, gossips, calls>>
          /\ tailMu' = "free"
      BY <1>4 DEF TailAppend, loopVars, countVars
    <3>2. triggerSync \in BOOLEAN /\ tailSet \in BOOLEAN /\ started \in BOOLEAN
      BY <1>0 DEF OtherTypes
    <3> QED
      BY <1>0, <2>2, <3>1, <3>2, OtherMoves
  <2>5. /\ ppc' = [ppc EXCEPT ![p] = AfterTail(p)] /\ ppc[p] = "fetchTail"
        /\ UNCHANGED <<ret, soft, newHead, sbj, diff, arg>>
    BY <1>4 DEF TailAppend, Goto
  <2>6. ProcTypes' /\ Others(p)
    BY <1>1, <1>2, <2>5 DEF ProcTypes, ProcLabels, Others
  <2>7. ProcAt(p)'
    BY <1>0, <1>1, <1>2, <2>3, <2>5 DEF ProcAt, SetLabels
  <2>8. RangesInv' /\ AddAlone(p)
    BY <1>0, <2>3 DEF RangesInv, AddAlone
  <2>9. held' \in BOOLEAN /\ (held' => held /\ ranges' # <<>>)
    BY <1>0, <2>3 DEF Inv, HeldInv
  <2> QED
    BY <2>2, <2>3, <2>4, <2>6, <2>7, <2>8, <2>9, ProcKeeps
<1>5. CASE TailFails(p)
  <2>1. /\ UNCHANGED <<cached, stored, tail, ranges, rangesLk>>
        /\ UNCHANGED <<lpc, subjHead, fromHead, to, held, headers, reqTo, got>>
        /\ ppc[p] # "put" /\ soft' = soft /\ Finish(p, TRUE)
    BY <1>5 DEF TailFails, storeVars, loopVars
  <2>2. ProcTypes' /\ Others(p) /\ ProcAt(p)' /\ started' \in BOOLEAN
    BY <1>0, <1>1, <2>1, FinishIs
  <2>3. OtherTypes'
    <3>1. /\ UNCHANGED <<tailSet, incomingMu, failed, triggerSync, gossips, calls>>
          /\ tailMu' = "free" /\ Fails
      BY <1>5 DEF TailFails, storeVars, loopVars
    <3>2. triggerSync \in BOOLEAN /\ tailSet \in BOOLEAN
      BY <1>0 DEF OtherTypes
    <3> QED
      BY <1>0, <2>2, <3>1, <3>2, OtherMoves
  <2> QED
    BY <2>1, <2>2, <2>3, QuietKeeps
<1> QED
  BY <1>3, <1>4, <1>5

\* incomingNetworkHead takes its lock and gives it back.
LEMMA IncomingKeeps ==
    ASSUME Inv, NEW p \in Procs,
           IncomingLock(p) \/ SetRequested(p) \/ GossipAccepted(p) \/ IncomingReturn(p)
           \/ GossipDone(p)
    PROVE  Inv'
<1>0. /\ MaxHeight \in Nat /\ Retained \in Nat /\ "free" \notin Procs
      /\ StoreInv /\ RangesInv /\ OtherTypes /\ ProcAt(p) /\ held \in BOOLEAN
      /\ cached \in 0..MaxHeight /\ ranges \in Seq(RangeSet)
  BY SyncerAssumption DEF Inv, StoreInv, RangesInv, ProcInv, LoopTypes
<1>1. /\ ProcTypes
      /\ ppc \in [Procs -> ProcLabels] /\ ret \in [Procs -> {"none", "ok", "bifurcated", "tail"}]
      /\ soft \in [Callers -> BOOLEAN]
      /\ newHead \in [Procs -> 0..MaxHeight] /\ sbj \in [Procs -> 0..MaxHeight]
      /\ diff \in [Procs -> 0..MaxHeight] /\ arg \in [Procs -> 0..MaxHeight]
  BY DEF Inv, ProcTypes
<1>2. /\ UNCHANGED <<cached, stored, tail, ranges, rangesLk>>
      /\ UNCHANGED <<lpc, subjHead, fromHead, to, held, headers, reqTo, got>>
  BY DEF IncomingLock, SetRequested, GossipAccepted, IncomingReturn, GossipDone, storeVars,
         sharedVars, loopVars
<1>3. ASSUME started' \in BOOLEAN
      PROVE  OtherTypes'
  <2>1. /\ UNCHANGED <<tailSet, tailMu, failed, triggerSync, errors, gossips, calls>>
        /\ incomingMu' \in {incomingMu, p, "free"}
    BY DEF IncomingLock, SetRequested, GossipAccepted, IncomingReturn, GossipDone, storeVars,
           sharedVars, loopVars, countVars
  <2>2. triggerSync \in BOOLEAN /\ tailSet \in BOOLEAN
    BY <1>0 DEF OtherTypes
  <2> QED
    BY <1>0, <1>3, <2>1, <2>2, OtherMoves
<1>4. started \in BOOLEAN
  BY <1>0 DEF OtherTypes
<1>5. CASE IncomingLock(p)
  <2>1. /\ started' = started /\ ppc[p] = "lock" /\ ppc' = [ppc EXCEPT ![p] = "verify"]
        /\ sbj' = [sbj EXCEPT ![p] = PendingHead(ranges)]
        /\ UNCHANGED <<ret, soft, newHead, diff, arg>>
    BY <1>5 DEF IncomingLock, Goto
  <2>2. ProcTypes' /\ Others(p)
    BY <1>0, <1>1, <2>1, PendingHeadType DEF ProcTypes, ProcLabels, Others
  <2>3. ProcAt(p)'
    BY <1>0, <1>1, <1>2, <2>1 DEF ProcAt, SetLabels
  <2> QED
    BY <1>2, <1>3, <1>4, <2>1, <2>2, <2>3, QuietKeeps
<1>6. CASE SetRequested(p)
  <2>1. /\ started' = started /\ ppc[p] = "ok" /\ ppc' = [ppc EXCEPT ![p] = "set"]
        /\ arg' = [arg EXCEPT ![p] = newHead[p]] /\ ret' = [ret EXCEPT ![p] = "tail"]
        /\ soft' = [soft EXCEPT ![p] = FALSE] /\ UNCHANGED <<newHead, sbj, diff>>
    BY <1>6 DEF SetRequested, SetLocalHead, Goto
  <2>2. ProcTypes' /\ Others(p)
    <3>1. soft' \in [Callers -> BOOLEAN]
      BY <1>1, <2>1
    <3> QED
      BY <1>0, <1>1, <2>1, <3>1 DEF ProcTypes, ProcLabels, Others
  <2>3. ProcAt(p)'
    BY <1>0, <1>1, <1>2, <2>1 DEF ProcAt, SetLabels
  <2> QED
    BY <1>2, <1>3, <1>4, <2>1, <2>2, <2>3, QuietKeeps
<1>7. CASE GossipAccepted(p)
  <2>1. /\ started' = started /\ ppc[p] = "ok" /\ ppc' = [ppc EXCEPT ![p] = "tail"]
        /\ UNCHANGED <<ret, soft, newHead, sbj, diff, arg>>
    BY <1>7 DEF GossipAccepted, Goto
  <2>2. ProcTypes' /\ Others(p)
    BY <1>0, <1>1, <2>1 DEF ProcTypes, ProcLabels, Others
  <2>3. ProcAt(p)'
    BY <1>0, <1>1, <1>2, <2>1 DEF ProcAt, SetLabels
  <2> QED
    BY <1>2, <1>3, <1>4, <2>1, <2>2, <2>3, QuietKeeps
<1>8. CASE IncomingReturn(p) \/ GossipDone(p)
  <2>1. ppc[p] # "put" /\ Finish(p, FALSE)
    BY <1>8 DEF IncomingReturn, GossipDone
  <2>2. soft' \in [Callers -> BOOLEAN]
    BY <1>1, <1>8 DEF IncomingReturn, GossipDone
  <2>3. ProcTypes' /\ Others(p) /\ ProcAt(p)' /\ started' \in BOOLEAN
    BY <1>0, <1>1, <1>2, <2>1, <2>2, FinishIs
  <2> QED
    BY <1>2, <1>3, <2>3, QuietKeeps
<1> QED
  BY <1>5, <1>6, <1>7, <1>8

\* setLocalHead.
LEMMA SetKeeps ==
    ASSUME Inv, NEW p \in Procs,
           \/ SetAppend(p) \/ SetCheck(p) \/ SetPrune(p)
           \/ SetAdd(p) \/ SetPut(p) \/ SetWant(p)
    PROVE  Inv'
<1>0. /\ MaxHeight \in Nat /\ Retained \in Nat /\ "free" \notin Procs
      /\ StoreInv /\ RangesInv /\ OtherTypes /\ ProcAt(p) /\ held \in BOOLEAN
      /\ cached \in 0..MaxHeight /\ ranges \in Seq(RangeSet)
  BY SyncerAssumption DEF Inv, StoreInv, RangesInv, ProcInv, LoopTypes
<1>1. /\ ProcTypes
      /\ ppc \in [Procs -> ProcLabels] /\ ret \in [Procs -> {"none", "ok", "bifurcated", "tail"}]
      /\ soft \in [Callers -> BOOLEAN]
      /\ newHead \in [Procs -> 0..MaxHeight] /\ sbj \in [Procs -> 0..MaxHeight]
      /\ diff \in [Procs -> 0..MaxHeight] /\ arg \in [Procs -> 0..MaxHeight]
  BY DEF Inv, ProcTypes
<1>2. UNCHANGED <<lpc, subjHead, fromHead, to, headers, reqTo, got>>
  BY DEF SetAppend, SetCheck, SetPrune, SetAdd, SetPut, SetWant, loopVars
<1>3. ASSUME tailSet' = tailSet
      PROVE  OtherTypes'
  <2>1. /\ UNCHANGED <<incomingMu, tailMu, failed, started, gossips, calls>>
        /\ errors' = errors \/ Fails
        /\ triggerSync' \in {triggerSync, TRUE}
    BY DEF SetAppend, SetCheck, SetPrune, SetAdd, SetPut, SetWant, wantSync, sharedVars, loopVars,
           countVars
  <2>2. triggerSync \in BOOLEAN /\ tailSet \in BOOLEAN /\ started \in BOOLEAN
    BY <1>0 DEF OtherTypes
  <2> QED
    BY <1>0, <1>3, <2>1, <2>2, OtherMoves
<1>4. ppc[p] \in SetLabels => arg[p] \in Heights /\ ret[p] \in {"ok", "bifurcated", "tail"}
  BY <1>0, <1>1 DEF ProcAt, Heights
<1>5. ASSUME UNCHANGED <<ranges, rangesLk, held>>
      PROVE  /\ RangesInv' /\ AddAlone(p)
             /\ held' \in BOOLEAN /\ (held' => held /\ ranges' # <<>>)
  BY <1>0, <1>5 DEF RangesInv, AddAlone, Inv, HeldInv
<1>6. CASE SetAppend(p)
  <2>1. /\ UNCHANGED <<ranges, rangesLk, held>> /\ ppc[p] = "set"
        /\ ppc' = [ppc EXCEPT ![p] = "check"] /\ UNCHANGED <<ret, soft, newHead, sbj, diff, arg>>
        /\ \/ Accepts(arg[p]) /\ StoreAppend(arg[p], arg[p])
           \/ UNCHANGED <<cached, stored, tail, tailSet>>
    BY <1>6 DEF SetAppend, sharedVars, loopVars, storeVars, Goto
  <2>2. StoreInv' /\ StoreGrows /\ tailSet' = tailSet
    <3>1. CASE Accepts(arg[p]) /\ StoreAppend(arg[p], arg[p])
      <4>1. arg[p] \in Heights /\ arg[p] <= arg[p]
        BY <1>0, <1>4, <2>1 DEF SetLabels, Heights
      <4> QED
        BY <1>0, <3>1, <4>1, StoreAppendIs
    <3>2. CASE UNCHANGED <<cached, stored, tail, tailSet>>
      BY <1>0, <3>2, StoreSame
    <3> QED
      BY <2>1, <3>1, <3>2
  <2>3. ProcTypes' /\ Others(p)
    BY <1>1, <2>1 DEF ProcTypes, ProcLabels, Others
  <2>4. ProcAt(p)'
    BY <1>0, <1>1, <2>1 DEF ProcAt, SetLabels
  <2> QED
    BY <1>2, <1>3, <1>5, <2>1, <2>2, <2>3, <2>4, ProcKeeps
<1>7. ASSUME ~SetAppend(p)
      PROVE  StoreInv' /\ StoreGrows /\ tailSet' = tailSet
  <2>1. UNCHANGED <<cached, stored, tail, tailSet>>
    BY <1>7 DEF SetCheck, SetPrune, SetAdd, SetPut, SetWant, storeVars
  <2> QED
    BY <1>0, <2>1, StoreSame
<1>8. CASE SetCheck(p) /\ ~SetAppend(p)
  <2>1. /\ UNCHANGED <<ranges, rangesLk, held>> /\ ppc[p] = "check"
        /\ \/ /\ ppc' = [ppc EXCEPT ![p] = "prune"] /\ arg' = [arg EXCEPT ![p] = cached]
              /\ cached >= arg[p]
           \/ ppc' = [ppc EXCEPT ![p] = "add"] /\ arg' = arg
        /\ UNCHANGED <<ret, soft, newHead, sbj, diff>>
    BY <1>8 DEF SetCheck, sharedVars, loopVars, Goto
  <2>2. ProcTypes' /\ Others(p)
    BY <1>0, <1>1, <2>1 DEF ProcTypes, ProcLabels, Others
  <2>3. ProcAt(p)'
    BY <1>0, <1>1, <2>1 DEF ProcAt, SetLabels
  <2> QED
    BY <1>2, <1>3, <1>5, <1>7, <1>8, <2>1, <2>2, <2>3, ProcKeeps
<1>9. ASSUME SetReturn(p), ppc[p] \in SetLabels, ppc[p] # "put", UNCHANGED <<soft, newHead, sbj, diff>>,
             rangesLk' = rangesLk
      PROVE  ProcTypes' /\ Others(p) /\ ProcAt(p)'
  <2>1. /\ arg' = [arg EXCEPT ![p] = 0] /\ ret' = [ret EXCEPT ![p] = "none"]
        /\ ppc' = [ppc EXCEPT ![p] = ret[p]] /\ ret[p] \in {"ok", "bifurcated", "tail"}
    BY <1>4, <1>9 DEF SetReturn, Goto
  <2>2. ProcTypes' /\ Others(p)
    BY <1>0, <1>1, <1>9, <2>1 DEF ProcTypes, ProcLabels, Others
  <2>3. ProcAt(p)'
    BY <1>0, <1>1, <1>9, <2>1 DEF ProcAt, SetLabels
  <2> QED
    BY <2>2, <2>3
<1>10. CASE SetPrune(p) /\ ~SetAppend(p)
  <2>1. /\ ppc[p] = "prune" /\ rangesLk = "free" /\ rangesLk' = rangesLk
        /\ ranges' = Prune(ranges, arg[p])
        /\ held' = (held /\ ~Empty(Remove(ranges[1], arg[p])))
        /\ SetReturn(p) /\ UNCHANGED <<soft, newHead, sbj, diff>>
    BY <1>10 DEF SetPrune
  <2>2. ProcTypes' /\ Others(p) /\ ProcAt(p)'
    BY <1>9, <2>1 DEF SetLabels
  <2>3. arg[p] \in 0..MaxHeight
    BY <1>1
  <2>4. RangesInv' /\ AddAlone(p)
    BY <1>0, <2>1, <2>3, PruneType DEF RangesInv, AddAlone
  <2>5. held' => held /\ ranges' # <<>>
    <3>1. held => ranges # <<>>
      BY DEF Inv, HeldInv
    <3> QED
      BY <1>0, <2>1, <2>3, <3>1, PruneKeeps
  <2>6. held' \in BOOLEAN
    BY <2>1
  <2> QED
    BY <1>2, <1>3, <1>7, <1>10, <2>2, <2>4, <2>5, <2>6, ProcKeeps
<1>11. CASE SetWant(p) /\ ~SetAppend(p)
  <2>1. /\ ppc[p] = "want" /\ UNCHANGED <<ranges, rangesLk, held>>
        /\ SetReturn(p) /\ UNCHANGED <<soft, newHead, sbj, diff>>
    BY <1>11 DEF SetWant, loopVars
  <2>2. ProcTypes' /\ Others(p) /\ ProcAt(p)'
    BY <1>9, <2>1 DEF SetLabels
  <2> QED
    BY <1>2, <1>3, <1>5, <1>7, <1>11, <2>1, <2>2, ProcKeeps
<1>12. CASE SetAdd(p) /\ ~SetAppend(p)
  <2>1. /\ ppc[p] = "add" /\ rangesLk = "free" /\ held' = held
        /\ UNCHANGED <<ret, soft, newHead, sbj, diff, arg>>
        /\ \/ ppc' = [ppc EXCEPT ![p] = "want"] /\ UNCHANGED <<ranges, rangesLk>>
           \/ /\ ppc' = [ppc EXCEPT ![p] = "put"] /\ rangesLk' = p /\ ranges' = ranges
              /\ AddExtends(ranges, arg[p])
           \/ /\ ppc' = [ppc EXCEPT ![p] = "want"] /\ rangesLk' = rangesLk
              /\ ranges' = Append(ranges, newRange(arg[p]))
    BY <1>12 DEF SetAdd, Goto, loopVars
  <2>2. ProcTypes' /\ Others(p)
    BY <1>1, <2>1 DEF ProcTypes, ProcLabels, Others
  <2>3. AddAlone(p)
    BY <2>1 DEF AddAlone
  <2>4. newRange(arg[p]) \in RangeSet
    BY <1>4, <2>1, NewRangeType DEF SetLabels
  <2>5. AddExtends(ranges, arg[p]) =>
            ranges # <<>> /\ arg[p] = ranges[Len(ranges)].hi + 1
    BY DEF AddExtends, PendingHead, RangeHead
  <2>6. RangesInv' /\ (ranges # <<>> => ranges' # <<>>)
    <3>1. CASE UNCHANGED <<ranges, rangesLk>>
      BY <1>0, <3>1 DEF RangesInv
    <3>2. CASE rangesLk' = p /\ ranges' = ranges /\ AddExtends(ranges, arg[p])
      BY <1>0, <2>5, <3>2 DEF RangesInv
    <3>3. CASE rangesLk' = rangesLk /\ ranges' = Append(ranges, newRange(arg[p]))
      <4>1. ranges' \in Seq(RangeSet) /\ ranges' # <<>>
        BY <1>0, <2>4, <3>3
      <4> QED
        BY <1>0, <3>3, <4>1 DEF RangesInv
    <3> QED
      BY <2>1, <3>1, <3>2, <3>3
  <2>7. ProcAt(p)'
    <3>1. rangesLk # p
      BY <1>0, <2>1
    <3>2. CASE rangesLk' = rangesLk /\ ppc' = [ppc EXCEPT ![p] = "want"]
      BY <1>0, <1>1, <2>1, <3>1, <3>2 DEF ProcAt, SetLabels
    <3>3. CASE /\ ppc' = [ppc EXCEPT ![p] = "put"] /\ rangesLk' = p /\ ranges' = ranges
               /\ AddExtends(ranges, arg[p])
      BY <1>0, <1>1, <2>1, <2>5, <3>3 DEF ProcAt, SetLabels
    <3> QED
      BY <2>1, <3>2, <3>3
  <2>8. held' \in BOOLEAN /\ (held' => held /\ ranges' # <<>>)
    BY <1>0, <2>1, <2>6 DEF Inv, HeldInv
  <2> QED
    BY <1>2, <1>3, <1>7, <1>12, <2>2, <2>3, <2>6, <2>7, <2>8, ProcKeeps
<1>13. CASE SetPut(p) /\ ~SetAppend(p)
  <2>1. /\ ppc[p] = "put" /\ rangesLk' = "free" /\ held' = held
        /\ ranges' = [ranges EXCEPT ![Len(ranges)] = AppendTo(ranges[Len(ranges)], arg[p])]
        /\ ppc' = [ppc EXCEPT ![p] = "want"] /\ UNCHANGED <<ret, soft, newHead, sbj, diff, arg>>
    BY <1>13 DEF SetPut, Goto, loopVars
  <2>2. rangesLk = p /\ ranges # <<>> /\ arg[p] = ranges[Len(ranges)].hi + 1
    BY <1>0, <2>1 DEF ProcAt, RangesInv
  <2>3. ProcTypes' /\ Others(p)
    BY <1>1, <2>1 DEF ProcTypes, ProcLabels, Others
  <2>4. AddAlone(p)
    BY <2>1, <2>2 DEF AddAlone
  <2>5. Len(ranges) \in Nat \ {0} /\ DOMAIN ranges = 1..Len(ranges)
        /\ ranges[Len(ranges)] \in RangeSet
    BY <1>0, <2>2
  <2>6. AppendTo(ranges[Len(ranges)], arg[p]) \in RangeSet
    <3>1. arg[p] \in Heights
      BY <1>4, <2>1 DEF SetLabels
    <3>2. ranges[Len(ranges)].hi \in Int
      BY <1>0, <2>5 DEF RangeSet, RangeType, Heights
    <3>3. arg[p] >= ranges[Len(ranges)].hi
      BY <2>2, <3>2
    <3> QED
      BY <2>5, <3>1, <3>3, AppendToType
  <2>7. ranges' \in Seq(RangeSet) /\ ranges' # <<>>
    BY <1>0, <2>1, <2>5, <2>6
  <2>8. RangesInv'
    BY <2>1, <2>7 DEF RangesInv
  <2>9. ProcAt(p)'
    BY <1>0, <1>1, <2>1 DEF ProcAt, SetLabels
  <2>10. held' \in BOOLEAN /\ (held' => held /\ ranges' # <<>>)
    BY <1>0, <2>1, <2>7
  <2> QED
    BY <1>2, <1>3, <1>7, <1>13, <2>3, <2>4, <2>8, <2>9, <2>10, ProcKeeps
<1> QED
  BY <1>6, <1>8, <1>10, <1>11, <1>12, <1>13

-----------------------------------------------------------------------------
\* The Syncer.

\* The Syncer starts in the invariant.
LEMMA InitInv == Init => Inv
<1> SUFFICES ASSUME Init
             PROVE  Inv
  OBVIOUS
<1>0. /\ MaxHeight \in Nat \ {0} /\ InitialHeads \subseteq 0..MaxHeight /\ "free" \notin Procs
      /\ MaxGossips \in Nat /\ MaxCalls \in Nat /\ MaxErrors \in Nat
  BY SyncerAssumption
<1>1. /\ cached \in 0..MaxHeight /\ stored = 1..cached
      /\ tail = IF cached = 0 THEN 0 ELSE 1
  BY <1>0 DEF Init
<1>2. StoreInv
  BY <1>0, <1>1 DEF StoreInv, GivenTo, Heights
<1>3. RangesInv
  BY DEF Init, RangesInv
<1>4. None \in Spans /\ 0 \in 0..MaxHeight
  BY <1>0 DEF Spans
<1>5. LoopTypes
  BY <1>4 DEF Init, LoopTypes, LoopLabels
<1>6. HeldInv /\ LoopAt
  BY DEF Init, HeldInv, LoopAt
<1>7. FromInv
  BY <1>0 DEF Init, FromInv, GivenTo, Heights
<1>8. ProcTypes
  BY <1>4 DEF Init, ProcTypes, ProcLabels
<1>9. ProcInv
  BY <1>0 DEF Init, ProcInv, ProcAt, SetLabels
<1>10. OtherTypes
  <2>1. tailSet \in BOOLEAN
    BY DEF Init
  <2>2. /\ triggerSync \in BOOLEAN /\ started \in BOOLEAN /\ failed \in BOOLEAN
        /\ incomingMu \in Procs \cup {"free"} /\ tailMu \in Procs \cup {"free"}
    BY DEF Init
  <2>3. gossips \in 0..MaxGossips /\ calls \in 0..MaxCalls /\ errors \in 0..MaxErrors
    BY <1>0 DEF Init
  <2> QED
    BY <2>1, <2>2, <2>3 DEF OtherTypes
<1> QED
  BY <1>2, <1>3, <1>5, <1>6, <1>7, <1>8, <1>9, <1>10 DEF Inv

\* The store's flushLoop comes to the first batch.
LEMMA StoreInitKeeps ==
    ASSUME Inv, StoreInit
    PROVE  Inv'
<1>1. /\ UNCHANGED <<cached, stored, tail>> /\ UNCHANGED <<ranges, rangesLk>>
      /\ UNCHANGED <<lpc, subjHead, fromHead, to, held, headers, reqTo, got>>
      /\ UNCHANGED procVars
  BY DEF StoreInit, sharedVars, loopVars
<1>2. StoreInv' /\ StoreGrows
  BY <1>1, StoreSame DEF Inv
<1>3. RangesInv' /\ LoopTypes' /\ HeldInv' /\ LoopAt'
  BY <1>1 DEF Inv, RangesInv, LoopTypes, HeldInv, LoopAt
<1>4. FromInv'
  BY <1>1, <1>2, FromSame DEF Inv
<1>5. ProcTypes' /\ ProcInv'
  BY <1>1, ProcSame DEF Inv
<1>6. OtherTypes'
  BY DEF Inv, OtherTypes, StoreInit, sharedVars, loopVars, countVars
<1> QED
  BY <1>2, <1>3, <1>4, <1>5, <1>6 DEF Inv

\* The invariant is inductive.
LEMMA NextInv == Inv /\ [Next]_vars => Inv'
<1> SUFFICES ASSUME Inv, [Next]_vars
             PROVE  Inv'
  OBVIOUS
<1>0. NetworkHeads \subseteq Heights /\ GossipHeads \subseteq Heights
      /\ Validators \subseteq Procs /\ Callers \subseteq Procs
      /\ 1 \in Heights
  BY SyncerAssumption DEF Procs, Heights
<1>1. CASE LoopStep
  BY <1>1, LoopKeeps
<1>2. CASE StoreInit
  BY <1>2, StoreInitKeeps
<1>3. ASSUME NEW p \in Validators, NEW h \in GossipHeads, Gossip(p, h)
      PROVE  Inv'
  BY <1>0, <1>3, HeadKeeps
<1>4. ASSUME NEW p \in Callers, HeadCall(p)
      PROVE  Inv'
  BY <1>0, <1>4, HeadKeeps
<1>5. ASSUME NEW p \in Procs, ProcStep(p)
      PROVE  Inv'
  <2>1. CASE ReadHead(p) \/ HeadRecent(p) \/ HeadFails(p)
    BY <1>0, <2>1, HeadKeeps
  <2>2. CASE \E h \in NetworkHeads :
                HeadInitialize(p, h) \/ HeadRequest(p, h) \/ HeadSoftFailure(p, h)
    BY <1>0, <2>2, HeadKeeps
  <2>3. CASE TailRead(p) \/ TailTryLock(p) \/ TailAppend(p) \/ TailFails(p)
    BY <2>3, TailKeeps
  <2>4. CASE Verify(p) \/ Bifurcate(p) \/ BifurcateFails(p) \/ Bifurcated(p)
    BY <2>4, VerifyKeeps
  <2>5. CASE \/ SetAppend(p) \/ SetCheck(p) \/ SetPrune(p)
             \/ SetAdd(p) \/ SetPut(p) \/ SetWant(p)
    BY <2>5, SetKeeps
  <2>6. CASE \/ IncomingLock(p) \/ SetRequested(p) \/ GossipAccepted(p) \/ IncomingReturn(p)
             \/ GossipDone(p)
    BY <2>6, IncomingKeeps
  <2> QED
    BY <1>5, <2>1, <2>2, <2>3, <2>4, <2>5, <2>6 DEF ProcStep
<1>6. CASE UNCHANGED vars
  <2>1. /\ UNCHANGED <<cached, stored, tail, ranges, rangesLk>>
        /\ UNCHANGED <<lpc, subjHead, fromHead, to, held, headers, reqTo, got>>
        /\ UNCHANGED procVars /\ UNCHANGED <<ppc, ret, soft, newHead, sbj, diff, arg>>
    BY <1>6 DEF vars, storeVars, sharedVars, loopVars, procVars
  <2>2. OtherTypes'
    BY <1>6 DEF vars, storeVars, sharedVars, loopVars, countVars, Inv, OtherTypes
  <2>3. ProcTypes' /\ ProcInv'
    BY <2>1, ProcSame DEF Inv
  <2>4. RangesInv' /\ LoopTypes' /\ HeldInv' /\ LoopAt'
    BY <2>1 DEF Inv, RangesInv, LoopTypes, HeldInv, LoopAt
  <2>5. StoreInv' /\ StoreGrows
    BY <2>1, StoreSame DEF Inv
  <2>6. FromInv'
    BY <2>1, <2>5, FromSame DEF Inv
  <2> QED
    BY <2>2, <2>3, <2>4, <2>5, <2>6 DEF Inv
<1> QED
  BY <1>1, <1>2, <1>3, <1>4, <1>5, <1>6 DEF Next

\* The invariant holds always.
THEOREM SyncerInvariant == Spec => []Inv
BY InitInv, NextInv, PTL DEF Spec

\* Type correctness: whatever order heads come in and ranges are pruned, extended and emptied,
\* every range stays one of consecutive heights, bifurcation stays between the heads it started
\* from, and setLocalHead knows where to return to.
THEOREM SyncerTypes == Spec => []SyncerTypeOK
<1>1. Inv => SyncerTypeOK
  <2> SUFFICES ASSUME Inv
               PROVE  SyncerTypeOK
    OBVIOUS
  <2>1. ranges \in Seq([start : Heights, lo : 1..MaxHeight + 1, hi : Heights])
    <3>1. ranges \in Seq(RangeSet)
      BY DEF Inv, RangesInv
    <3>2. RangeSet \subseteq RangeType
      BY DEF RangeSet
    <3>3. ranges \in Seq(RangeType)
      BY <3>1, <3>2
    <3> QED
      BY <3>3 DEF RangeType
  <2>2. /\ cached \in 0..MaxHeight /\ stored \subseteq Heights /\ tail \in 0..MaxHeight
        /\ rangesLk \in Procs \cup {"free"}
    BY DEF Inv, StoreInv, RangesInv
  <2>3. /\ lpc \in LoopLabels /\ {subjHead, fromHead, to, reqTo} \subseteq 0..MaxHeight
        /\ held \in BOOLEAN /\ {headers, got} \subseteq Spans
    BY DEF Inv, LoopTypes
  <2>4. OtherTypes /\ ProcTypes
    BY DEF Inv
  <2> QED
    BY <2>1, <2>2, <2>3, <2>4, Zenon DEF SyncerTypeOK, OtherTypes, ProcTypes, LoopLabels, ProcLabels
<1> QED
  BY <1>1, SyncerInvariant, PTL

\* The Syncer never skips heights: whatever order heads, tails, requests and appends come in and
\* whichever of them fail, the store was given every height from its tail to the Syncer's head.
THEOREM NothingMissingAlways == Spec => []NothingMissing
<1>1. Inv => NothingMissing
  <2> SUFFICES ASSUME Inv, cached # 0, NEW h \in tail..cached
               PROVE  h \in stored
    BY DEF NothingMissing
  <2>1. /\ cached \in 0..MaxHeight /\ tail \in 0..MaxHeight /\ tail # 0 /\ MaxHeight \in Nat
        /\ \A i \in Heights : tail <= i /\ i <= cached => i \in stored
    BY SyncerAssumption DEF Inv, StoreInv, GivenTo
  <2>2. h \in Heights
    BY <2>1 DEF Heights
  <2> QED
    BY <2>1, <2>2
<1> QED
  BY <1>1, SyncerInvariant, PTL

\* A sync that ends without an error has brought the store up to its target: it ends so only
\* when there is nothing left to request and no range left, and everything up to where it then
\* is was given to the store.
LEMMA SyncEnds ==
    ASSUME Inv, [Next]_vars, lpc # "idle", lpc' = "idle", to # 0, ~failed'
    PROVE  tail'..to \subseteq stored'
<1>0. /\ MaxHeight \in Nat /\ to \in 0..MaxHeight /\ fromHead \in 0..MaxHeight
      /\ tail \in 0..MaxHeight
  BY SyncerAssumption DEF Inv, LoopTypes, StoreInv
<1>1. LoopStep
  <2>1. ASSUME NEW p \in Procs, ProcStep(p)
        PROVE  lpc' = lpc
    BY <2>1 DEF ProcStep, ReadHead, HeadRecent, HeadFails, HeadInitialize, HeadRequest,
         HeadSoftFailure, TailRead, TailTryLock, TailAppend, TailFails, IncomingLock, Verify,
         Bifurcate, BifurcateFails, Bifurcated, SetAppend, SetCheck, SetPrune, SetAdd, SetPut,
         SetWant, SetRequested, IncomingReturn, GossipAccepted, GossipDone, loopVars
  <2>2. ASSUME NEW p \in Validators, NEW h \in GossipHeads, Gossip(p, h)
        PROVE  lpc' = lpc
    BY <2>2 DEF Gossip, loopVars
  <2>3. ASSUME NEW p \in Callers, HeadCall(p)
        PROVE  lpc' = lpc
    BY <2>3 DEF HeadCall, loopVars
  <2>4. ASSUME StoreInit \/ UNCHANGED vars
        PROVE  lpc' = lpc
    BY <2>4 DEF StoreInit, vars, loopVars
  <2> QED
    BY <2>1, <2>2, <2>3, <2>4 DEF Next
<1>2. RequestDone /\ headers = None
  <2>1. ~LoopPrune
    BY DEF LoopPrune, Inv, LoopAt
  <2>2. ~GetRangeFails /\ ~AppendFails
    BY DEF GetRangeFails, AppendFails, EndSync
  <2>3. LoopTrigger \/ LoopPendingHead \/ LoopStoreHead \/ LoopFirst \/ LoopGet \/ GetRange
           \/ AppendRequested \/ AppendPending \/ LoopRemove => lpc' # "idle"
    BY DEF LoopTrigger, LoopPendingHead, LoopStoreHead, LoopFirst, LoopGet, GetRange,
           AppendRequested, AppendPending, LoopRemove
  <2>4. RequestDone
    BY <1>1, <2>1, <2>2, <2>3 DEF LoopStep
  <2> QED
    BY <2>4 DEF RequestDone
<1>3. lpc = "request" /\ fromHead >= reqTo /\ reqTo = to
  BY <1>2 DEF RequestDone, Inv, LoopAt
<1>4. UNCHANGED <<stored, tail>>
  BY <1>2 DEF RequestDone, storeVars
<1>5. tail # 0 /\ \A i \in Heights : tail <= i /\ i <= fromHead => i \in stored
  BY <1>0, <1>3 DEF Inv, FromInv, GivenTo
<1> SUFFICES ASSUME NEW h \in tail..to
             PROVE  h \in stored
  BY <1>4
<1>6. h \in Heights /\ tail <= h /\ h <= fromHead
  BY <1>0, <1>3, <1>5 DEF Heights
<1> QED
  BY <1>5, <1>6

\* sync keeps its promise: when it ends without an error the store was given every height from
\* its tail to the target, however short the getter's answers were, whoever moved the head
\* meanwhile and whatever was pruned from the ranges it was working on.
THEOREM SyncKeepsItsPromise == Spec => SyncReachesTarget
<1>1. Inv /\ [Next]_vars =>
        [(lpc # "idle" /\ lpc' = "idle" /\ to # 0 /\ ~failed')
              => tail'..to \subseteq stored']_vars
  BY SyncEnds
<1> QED
  BY <1>1, SyncerInvariant, PTL DEF Spec, SyncReachesTarget

=============================================================================
