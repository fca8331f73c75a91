-------------------------- MODULE HeightSubProofs --------------------------
(***************************************************************************)
(* Proofs about module HeightSub, for every finite set of readers, every    *)
(* chain length and every set of batches.                                   *)
(*                                                                          *)
(* The counter of a subscription is decremented by readers that may belong  *)
(* to an earlier, already closed subscription of the same height.  The      *)
(* invariants say how far count can be from the number of readers that wait *)
(* on the subscription, and that it is exact for every height that is not   *)
(* yet in the store: no such reader can have been signalled.                *)
(***************************************************************************)
EXTENDS HeightSub, TLAPS, FiniteSetTheorems, WellFoundedInduction

Waiting(r) == rpc[r] \in {"parked", "cancel"}

\* A reader waits on the subscription in the map unless its own was closed.
\* A stale decrement may leave fewer counts than readers, never more, and the
\* subscription is in the map exactly as long as somebody holds it.
SubInv ==
    /\ \A r \in Readers : rpc[r] # "idle" => want[r] \in Heights
    /\ \A r \in signal : Waiting(r)
    /\ \A h \in Heights :
          /\ parked[h] = {r \in Readers : Waiting(r) /\ want[r] = h /\ r \notin signal}
          /\ count[h] <= Cardinality(parked[h])
          /\ count[h] = 0 <=> parked[h] = {}

\* The publisher works with pointers from the first batch on, and with the
\* batch it received until it has advanced.
LoopInv ==
    /\ ppc = "off" => stored \in Starts
    /\ head # 0 => tail # 0
    /\ ppc \in {"initHeight", "initNotify", "append", "notify", "advance", "setNotify"} => head # 0
    /\ ppc \in {"init", "initHeight", "append", "notify", "advance"} => batch \in Batches

\* What getByHeight finds, and what it never will because it is below the tail.
Present(h) == h \in stored \/ h < tail

\* Adjacent batches: between two of them the store is exactly tail..head, and a
\* batch in hand starts above the head (or is the single header just initialised).
OrderInv ==
    /\ ppc = "off" => head = 0 /\ height = 0 /\ tail = 0 /\ batch = <<0, 0>>
    /\ ppc # "off" =>
          /\ height = IF ppc = "initHeight" THEN 0 ELSE head
          /\ head = 0 => tail = 0 /\ stored = {}
          /\ head # 0 => /\ tail <= head
                         /\ stored = tail..(IF ppc \in {"notify", "advance"} THEN batch[2] ELSE head)
    /\ ppc = "init" => head = 0 /\ batch[1] = batch[2]
    /\ ppc \in {"append", "notify", "advance"} => batch = <<head, head>> \/ batch[1] = head + 1
    /\ ppc = "initHeight" => batch = <<head, head>>
    /\ ppc = "initNotify" => batch = <<0, 0>> \/ batch = <<head, head>>
    /\ ppc = "setNotify" => tail <= prev

\* A reader is released only to a height that is present, and the count of a
\* height that is not is exact.
ReleaseInv ==
    /\ ReleasedMeansPresent
    /\ \A r \in signal : Present(want[r])
    /\ \A h \in Heights : ~Present(h) => count[h] = Cardinality(parked[h])

IInv == TypeOK /\ SubInv /\ LoopInv
InOrderInv == IInv /\ OrderInv /\ ReleaseInv

-----------------------------------------------------------------------------
\* A set of natural numbers that has an element has a smallest one.
LEMMA Smallest ==
    ASSUME NEW T \in SUBSET Nat, T # {}
    PROVE  \E n \in T : \A m \in T : n <= m
<1>1. PICK n \in T : \A m \in T : ~(<<m, n>> \in OpToRel(<, Nat))
  BY NatLessThanWellFounded, WFMin
<1>2. \A m \in T : ~(m < n)
  BY <1>1 DEF OpToRel
<1> QED
  BY <1>2

\* There is a highest height stored without a gap above the head.
LEMMA NextHeadExists ==
    ASSUME TypeOK
    PROVE  NextHead \in head..MaxHeight /\ head + 1..NextHead \subseteq stored /\ NextHead + 1 \notin stored
<1> DEFINE T == {n \in Nat : head < n /\ n \notin stored}
<1>1. MaxHeight + 1 \in T
  BY HeightSubAssumption DEF TypeOK, Heights
<1>2. PICK n \in T : \A m \in T : n <= m
  <2>1. T \in SUBSET Nat /\ T # {}
    BY <1>1
  <2> HIDE DEF T
  <2> QED  BY <2>1, Smallest
<1>3. n - 1 \in head..MaxHeight /\ head + 1..n - 1 \subseteq stored /\ (n - 1) + 1 \notin stored
  BY <1>1, <1>2, HeightSubAssumption DEF TypeOK
<1> QED
  BY <1>3 DEF NextHead

\* And a lowest one stored without a gap below the tail.
LEMMA NextTailExists ==
    ASSUME TypeOK, tail # 0
    PROVE  NextTail \in 1..tail /\ NextTail..tail - 1 \subseteq stored /\ NextTail - 1 \notin stored
<1> DEFINE T == {n \in Nat : n < tail /\ tail - 1 - n \notin stored}
<1>1. tail - 1 \in T
  BY HeightSubAssumption DEF TypeOK, Heights
<1>2. PICK n \in T : \A m \in T : n <= m
  <2>1. T \in SUBSET Nat /\ T # {}
    BY <1>1
  <2> HIDE DEF T
  <2> QED  BY <2>1, Smallest
<1>3. ASSUME NEW k \in tail - n..tail - 1 PROVE k \in stored
  <2>1. tail - 1 - k \in Nat /\ tail - 1 - k < n /\ tail - 1 - k < tail /\ tail - 1 - (tail - 1 - k) = k
    BY <1>2 DEF TypeOK
  <2> QED  BY <2>1, <1>2
<1>4. tail - n \in 1..tail /\ tail - n..tail - 1 \subseteq stored /\ (tail - n) - 1 \notin stored
  <2>1. tail - n \in 1..tail /\ (tail - n) - 1 = tail - 1 - n
    BY <1>2 DEF TypeOK
  <2> QED  BY <2>1, <1>2, <1>3
<1> QED
  BY <1>4 DEF NextTail

-----------------------------------------------------------------------------
\* The subscriptions.

SubType ==
    /\ count \in [Heights -> 0..Cardinality(Readers)]
    /\ parked \in [Heights -> SUBSET Readers]
    /\ signal \subseteq Readers

\* Sets of readers are finite.
LEMMA ReaderSets ==
    \A S \in SUBSET Readers :
        IsFiniteSet(S) /\ Cardinality(S) \in Nat /\ Cardinality(S) <= Cardinality(Readers)
BY HeightSubAssumption, FS_Subset, FS_CardinalityType

\* Closing all subscriptions of some heights (Notify, Init, SetHeight).
LEMMA NotifyAllKeeps ==
    ASSUME TypeOK, SubInv, NEW hs, NotifyAll(hs), UNCHANGED <<rpc, want>>
    PROVE  SubType' /\ SubInv'
<1>1. SubType'
  BY HeightSubAssumption, ReaderSets DEF TypeOK, NotifyAll, SubType
<1>2. \A r \in Readers : r \in signal' <=> r \in signal \/ (Waiting(r) /\ want[r] \in hs)
  <2>1. \A r \in Readers : Waiting(r) => want[r] \in Heights
    BY DEF SubInv, Waiting
  <2> QED  BY <2>1 DEF NotifyAll, SubInv, TypeOK, Waiting
<1>3. \A h \in Heights : parked'[h] = {r \in Readers : Waiting(r)' /\ want'[r] = h /\ r \notin signal'}
  BY <1>2 DEF NotifyAll, SubInv, TypeOK, Waiting
<1>4. \A h \in Heights : count'[h] <= Cardinality(parked'[h]) /\ (count'[h] = 0 <=> parked'[h] = {})
  BY FS_EmptySet DEF NotifyAll, SubInv, TypeOK
<1>5. \A r \in signal' : Waiting(r)'
  BY <1>1, <1>2 DEF SubInv, SubType, Waiting
<1> QED
  BY <1>1, <1>3, <1>4, <1>5 DEF SubInv

\* A step of reader r that is not on the subscriptions.
LEMMA OtherReaderSteps ==
    ASSUME TypeOK, SubInv, NEW r \in Readers, UNCHANGED subVars, UNCHANGED want, NEW l, Goto(r, l),
           rpc[r] # "idle", Waiting(r) <=> l \in {"parked", "cancel"}
    PROVE  SubInv'
<1>1. \A q \in Readers : Waiting(q)' <=> Waiting(q)
  BY DEF Goto, TypeOK, Waiting
<1>2. \A q \in Readers : rpc'[q] # "idle" => want'[q] \in Heights
  BY DEF Goto, TypeOK, SubInv
<1>3. \A q \in signal' : Waiting(q)'
  BY <1>1 DEF SubInv, TypeOK, subVars
<1>4. \A h \in Heights : parked'[h] = {q \in Readers : Waiting(q)' /\ want'[q] = h /\ q \notin signal'}
  BY <1>1 DEF SubInv, TypeOK, subVars
<1> QED
  BY <1>2, <1>3, <1>4 DEF SubInv, subVars

\* A new subscription, or a further reader on one.
LEMMA SubscribeKeeps ==
    ASSUME TypeOK, SubInv, NEW r \in Readers, Subscribe(r)
    PROVE  SubType' /\ SubInv'
<1> DEFINE h == want[r]
<1>1. h \in Heights /\ r \notin signal /\ r \notin parked[h] /\ ~Waiting(r)
  BY DEF Subscribe, SubInv, Waiting
<1>2. Cardinality(parked[h] \cup {r}) = Cardinality(parked[h]) + 1
  BY <1>1, ReaderSets, FS_AddElement DEF TypeOK
<1>3. Cardinality(parked[h]) + 1 <= Cardinality(Readers)
  BY <1>1, <1>2, ReaderSets DEF TypeOK
<1>4. /\ \A g \in Heights : /\ count'[g] = IF g = h THEN count[g] + 1 ELSE count[g]
                            /\ parked'[g] = IF g = h THEN parked[g] \cup {r} ELSE parked[g]
      /\ signal' = signal /\ want' = want
      /\ \A q \in Readers : rpc'[q] = IF q = r THEN "parked" ELSE rpc[q]
  BY <1>1 DEF Subscribe, Goto, TypeOK
<1>5. count[h] \in Nat /\ count[h] <= Cardinality(parked[h])
  BY <1>1 DEF SubInv, TypeOK
<1>6. SubType'
  <2>1. count[h] + 1 \in 0..Cardinality(Readers)
    BY <1>3, <1>5, <1>1, ReaderSets DEF TypeOK
  <2> QED  BY <2>1, <1>1 DEF Subscribe, SubType, TypeOK
<1>7. \A g \in Heights : count'[g] <= Cardinality(parked'[g]) /\ (count'[g] = 0 <=> parked'[g] = {})
  <2> TAKE g \in Heights
  <2>1. CASE g = h
    <3>1. count'[g] = count[h] + 1 /\ parked'[g] = parked[h] \cup {r}
      BY <2>1, <1>4
    <3>2. Cardinality(parked[h]) \in Nat
      BY <1>1, ReaderSets DEF TypeOK
    <3>3. count[h] + 1 <= Cardinality(parked[h]) + 1 /\ count[h] + 1 # 0 
      BY <1>5, <3>2
    <3> QED  BY <3>1, <3>3, <1>2
  <2>2. CASE g # h
    BY <2>2, <1>4 DEF SubInv
  <2> QED  BY <2>1, <2>2
<1>8. \A g \in Heights : parked'[g] = {q \in Readers : Waiting(q)' /\ want'[q] = g /\ q \notin signal'}
  <2> TAKE g \in Heights
  <2>1. parked[g] = {q \in Readers : Waiting(q) /\ want[q] = g /\ q \notin signal}
    BY DEF SubInv
  <2>2. \A q \in Readers : Waiting(q)' <=> (Waiting(q) \/ q = r)
    BY <1>4 DEF Waiting
  <2>3. CASE g = h
    BY <2>1, <2>2, <2>3, <1>1, <1>4
  <2>4. CASE g # h
    BY <2>1, <2>2, <2>4, <1>1, <1>4
  <2> QED  BY <2>3, <2>4
<1>9. /\ \A q \in Readers : rpc'[q] # "idle" => want'[q] \in Heights
      /\ \A q \in signal' : Waiting(q)'
  BY <1>1, <1>4 DEF SubInv, Waiting, TypeOK
<1> QED
  BY <1>6, <1>7, <1>8, <1>9 DEF SubInv

\* A reader that does not wait begins or ends its call.
LEMMA CallKeeps ==
    ASSUME TypeOK, SubInv, NEW r \in Readers, UNCHANGED subVars, ~Waiting(r),
           NEW h, want' = [want EXCEPT ![r] = h],
           NEW l, Goto(r, l), l \notin {"parked", "cancel"}, l # "idle" => h \in Heights
    PROVE  SubInv'
<1>1. /\ \A q \in Readers : Waiting(q)' <=> Waiting(q)
      /\ \A q \in Readers : q # r => want'[q] = want[q]
  BY DEF Goto, TypeOK, Waiting
<1>2. \A q \in Readers : rpc'[q] # "idle" => want'[q] \in Heights
  BY DEF Goto, TypeOK, SubInv
<1>3. \A q \in signal' : Waiting(q)'
  BY <1>1 DEF SubInv, TypeOK, subVars
<1>4. \A g \in Heights : parked'[g] = {q \in Readers : Waiting(q)' /\ want'[q] = g /\ q \notin signal'}
  BY <1>1 DEF SubInv, TypeOK, subVars
<1> QED
  BY <1>2, <1>3, <1>4 DEF SubInv, subVars

\* A signalled reader leaves without touching the map.
LEMMA WokenKeeps ==
    ASSUME TypeOK, SubInv, NEW r \in Readers, Woken(r)
    PROVE  SubType' /\ SubInv'
<1>1. SubType'
  BY DEF Woken, TypeOK, SubType
<1>2. /\ \A q \in Readers : Waiting(q)' <=> (Waiting(q) /\ q # r)
      /\ want' = want /\ parked' = parked /\ count' = count /\ signal' = signal \ {r}
  BY DEF Woken, Goto, TypeOK, Waiting
<1>3. \A q \in Readers : rpc'[q] # "idle" => want'[q] \in Heights
  BY DEF Woken, Goto, TypeOK, SubInv
<1>4. \A q \in signal' : Waiting(q)'
  BY <1>2 DEF SubInv, TypeOK
<1>5. \A h \in Heights : parked'[h] = {q \in Readers : Waiting(q)' /\ want'[q] = h /\ q \notin signal'}
  BY <1>2 DEF SubInv, TypeOK, Woken
<1> QED
  BY <1>1, <1>2, <1>3, <1>4, <1>5 DEF SubInv

\* A cancelled reader takes one count of the subscription that is in the map now,
\* which need not be its own; if that was the last one the others are released.
LEMMA UnsubscribeKeeps ==
    ASSUME TypeOK, SubInv, NEW r \in Readers, Unsubscribe(r)
    PROVE  SubType' /\ SubInv'
<1> DEFINE h == want[r]
           rest == parked[h] \ {r}
<1>1. h \in Heights /\ Waiting(r)
  BY DEF Unsubscribe, SubInv, Waiting
<1>2. /\ want' = want
      /\ \A q \in Readers : Waiting(q)' <=> (Waiting(q) /\ q # r)
      /\ \A q \in Readers : rpc'[q] # "idle" => want'[q] \in Heights
  BY DEF Unsubscribe, Goto, TypeOK, Waiting, SubInv
<1>3. parked[h] = {q \in Readers : Waiting(q) /\ want[q] = h /\ q \notin signal}
  BY <1>1 DEF SubInv
<1>4. /\ count[h] \in Nat /\ Cardinality(parked[h]) \in Nat /\ Cardinality(rest) \in Nat
      /\ count[h] <= Cardinality(parked[h])
      /\ Cardinality(rest) >= Cardinality(parked[h]) - 1
      /\ rest = {} <=> Cardinality(rest) = 0
      /\ rest \in SUBSET Readers
  <2>1. parked[h] \in SUBSET Readers /\ rest \in SUBSET Readers
    BY <1>1 DEF TypeOK
  <2>2. IsFiniteSet(parked[h]) /\ IsFiniteSet(rest)
    BY <2>1, ReaderSets
  <2>3. Cardinality(rest) = IF r \in parked[h] THEN Cardinality(parked[h]) - 1 ELSE Cardinality(parked[h])
    BY <2>2, FS_RemoveElement
  <2>4. count[h] \in Nat /\ count[h] <= Cardinality(parked[h])
    BY <1>1 DEF TypeOK, SubInv
  <2>5. Cardinality(parked[h]) \in Nat /\ Cardinality(rest) \in Nat
    BY <2>1, ReaderSets
  <2> QED  BY <2>1, <2>2, <2>3, <2>4, <2>5, FS_EmptySet
<1>5. CASE count[h] = 0
  <2>1. parked[h] = {} /\ r \in signal
    BY <1>1, <1>3, <1>5 DEF SubInv
  <2>2. count' = count /\ parked' = parked /\ signal' = signal \ {r}
    BY <1>5 DEF Unsubscribe, NotifyOne
  <2>3. \A g \in Heights : parked'[g] = {q \in Readers : Waiting(q)' /\ want'[q] = g /\ q \notin signal'}
    BY <2>1, <2>2, <1>2 DEF SubInv
  <2>4. \A q \in signal' : Waiting(q)'
    BY <2>2, <1>2 DEF SubInv, TypeOK
  <2> QED  BY <2>2, <2>3, <2>4, <1>2 DEF SubInv, SubType, TypeOK
<1>6. CASE count[h] # 0
  <2> DEFINE gone == count[h] = 1
  <2>1. /\ count' = [count EXCEPT ![h] = @ - 1]
        /\ parked' = [parked EXCEPT ![h] = IF gone THEN {} ELSE rest]
        /\ signal' = IF gone THEN (signal \cup rest) \ {r} ELSE signal \ {r}
    BY <1>6 DEF Unsubscribe, NotifyOne
  <2>2. /\ \A g \in Heights : /\ count'[g] = IF g = h THEN count[h] - 1 ELSE count[g]
                              /\ g # h => parked'[g] = parked[g]
        /\ parked'[h] = IF gone THEN {} ELSE rest
    BY <2>1, <1>1 DEF TypeOK
  <2>3. SubType'
    <3>1. count[h] - 1 \in 0..Cardinality(Readers)
      BY <1>1, <1>6, <1>4, ReaderSets DEF TypeOK
    <3> QED  BY <2>1, <3>1, <1>1, <1>4 DEF TypeOK, SubType
  <2>4. \A g \in Heights : count'[g] <= Cardinality(parked'[g]) /\ (count'[g] = 0 <=> parked'[g] = {})
    <3> TAKE g \in Heights
    <3>1. CASE g # h
      BY <3>1, <2>2 DEF SubInv
    <3>2. CASE g = h /\ gone
      BY <3>2, <2>2, FS_EmptySet
    <3>3. CASE g = h /\ ~gone
      <4>1. count'[g] = count[h] - 1 /\ parked'[g] = rest
        BY <3>3, <2>2
      <4>2. count[h] - 1 <= Cardinality(rest) /\ count[h] - 1 # 0 /\ Cardinality(rest) # 0
        BY <1>4, <1>6, <3>3
      <4> QED  BY <4>1, <4>2, <1>4
    <3> QED  BY <3>1, <3>2, <3>3
  <2>5. \A q \in Readers : (q \in signal' <=> q # r /\ (q \in signal \/ (gone /\ q \in parked[h])))
    BY <2>1
  <2>6. \A g \in Heights : parked'[g] = {q \in Readers : Waiting(q)' /\ want'[q] = g /\ q \notin signal'}
    <3> TAKE g \in Heights
    <3>1. parked[g] = {q \in Readers : Waiting(q) /\ want[q] = g /\ q \notin signal}
      BY DEF SubInv
    <3>2. CASE g # h
      <4>1. \A q \in Readers : want[q] = g => q \notin parked[h] /\ q # r
        BY <1>3, <3>2
      <4> QED  BY <3>1, <3>2, <4>1, <2>2, <2>5, <1>2
    <3>3. CASE g = h
      BY <3>1, <3>3, <2>2, <2>5, <1>2
    <3> QED  BY <3>2, <3>3
  <2>7. \A q \in signal' : Waiting(q)'
    <3>1. \A q \in signal' : q \in Readers /\ q # r /\ Waiting(q)
      BY <2>3, <2>5, <1>3 DEF SubType, SubInv
    <3> QED  BY <3>1, <1>2
  <2> QED  BY <2>3, <2>4, <2>6, <2>7, <1>2 DEF SubInv
<1> QED
  BY <1>5, <1>6

-----------------------------------------------------------------------------
\* Every step of the readers and of the publisher.

\* What a reader's step leaves alone.
ReaderFrame == UNCHANGED <<stored, head, tail, height, pubVars>>

\* The invariant holds at first.
LEMMA IInvInit == Init => IInv
<1> SUFFICES ASSUME Init PROVE IInv
  OBVIOUS
<1>1. TypeOK
  BY HeightSubAssumption, ReaderSets DEF Init, TypeOK, Heights
<1>2. SubInv
  BY FS_EmptySet DEF Init, SubInv, Waiting
<1>3. LoopInv
  BY DEF Init, LoopInv
<1> QED
  BY <1>1, <1>2, <1>3 DEF IInv

\* The steps of readers.
LEMMA ReaderKeeps ==
    ASSUME IInv, NEW r \in Readers,
           Read(r) \/ ContextDone(r) \/ \E h \in Heights : Lookup(r, h)
    PROVE  IInv' /\ ReaderFrame
<1> USE DEF IInv
<1>1. ReaderFrame
  BY DEF Read, ContextDone, Lookup, WaitCheck, WaitElapsed, Subscribe, Woken, Unsubscribe,
         Reread, Return, ReaderFrame
<1>2. LoopInv'
  BY <1>1 DEF LoopInv, ReaderFrame, pubVars
<1>3. rpc' \in [Readers -> {"idle", "check", "lock", "parked", "cancel", "reread",
                            "found", "missing", "cancelled"}]
  BY DEF Read, ContextDone, Lookup, WaitCheck, WaitElapsed, Subscribe, Woken, Unsubscribe,
         Reread, Return, TypeOK, Goto
<1>4. want' \in [Readers -> 0..MaxHeight] /\ calls' \in [Readers -> 0..MaxCalls]
  <2>1. CASE \E h \in Heights : Lookup(r, h)
    <3>1. calls[r] + 1 \in 0..MaxCalls
      BY <2>1, HeightSubAssumption DEF Lookup, TypeOK
    <3>2. Heights \subseteq 0..MaxHeight
      BY HeightSubAssumption DEF Heights
    <3> QED  BY <2>1, <3>1, <3>2 DEF Lookup, TypeOK
  <2>2. CASE Return(r)
    BY <2>2, HeightSubAssumption DEF Return, TypeOK
  <2>3. CASE (Read(r) /\ ~Return(r)) \/ ContextDone(r)
    BY <2>3 DEF Read, ContextDone, WaitCheck, WaitElapsed, Subscribe, Woken, Unsubscribe, Reread, TypeOK
  <2> QED  BY <2>1, <2>2, <2>3 DEF Read
<1>5. SubType' /\ SubInv'
  <2>1. CASE ContextDone(r) \/ WaitCheck(r) \/ WaitElapsed(r) \/ Reread(r)
    <3>1. SubType'
      BY <2>1 DEF ContextDone, WaitCheck, WaitElapsed, Reread, subVars, SubType, TypeOK
    <3>2. PICK l : Goto(r, l) /\ (Waiting(r) <=> l \in {"parked", "cancel"})
      BY <2>1 DEF ContextDone, WaitCheck, WaitElapsed, Reread, Waiting
    <3>3. UNCHANGED subVars /\ UNCHANGED want /\ rpc[r] # "idle"
      BY <2>1 DEF ContextDone, WaitCheck, WaitElapsed, Reread
    <3> QED  BY <3>1, <3>2, <3>3, OtherReaderSteps
  <2>2. CASE Subscribe(r)
    BY <2>2, SubscribeKeeps
  <2>3. CASE Woken(r)
    BY <2>3, WokenKeeps
  <2>4. CASE Unsubscribe(r)
    BY <2>4, UnsubscribeKeeps
  <2>5. CASE Return(r)
    <3>1. UNCHANGED subVars /\ ~Waiting(r) /\ want' = [want EXCEPT ![r] = 0] /\ Goto(r, "idle")
      BY <2>5 DEF Return, Waiting
    <3>2. SubType'
      BY <3>1 DEF subVars, SubType, TypeOK
    <3>3. SubInv'
      BY <3>1, CallKeeps
    <3> QED  BY <3>2, <3>3
  <2>6. ASSUME NEW h \in Heights, Lookup(r, h) PROVE SubType' /\ SubInv'
    <3>1. UNCHANGED subVars /\ ~Waiting(r) /\ want' = [want EXCEPT ![r] = h]
      BY <2>6 DEF Lookup, Waiting
    <3>2. PICK l \in {"found", "check"} : Goto(r, l)
      BY <2>6 DEF Lookup
    <3>3. SubType'
      BY <3>1 DEF subVars, SubType, TypeOK
    <3>4. SubInv'
      BY <3>1, <3>2, CallKeeps
    <3> QED  BY <3>3, <3>4
  <2> QED
    BY <2>1, <2>2, <2>3, <2>4, <2>5, <2>6 DEF Read
<1>6. TypeOK'
  BY <1>1, <1>3, <1>4, <1>5 DEF TypeOK, SubType, ReaderFrame, pubVars
<1> QED
  BY <1>1, <1>2, <1>5, <1>6

\* What a step of the publisher leaves alone when it is not a notification.
LEMMA PublisherFrame ==
    ASSUME TypeOK, SubInv, UNCHANGED <<subVars, readerVars>>
    PROVE  SubType' /\ SubInv'
BY DEF TypeOK, SubInv, SubType, Waiting, subVars, readerVars

\* The steps of the publisher.
LEMMA PublisherKeeps ==
    ASSUME IInv, Publish \/ \E b \in Batches : Receive(b)
    PROVE  IInv'
<1> USE DEF IInv
<1>1. SubType' /\ SubInv' /\ UNCHANGED readerVars
  <2>1. CASE InitNotify \/ Notify \/ SetHeightNotify
    <3>1. UNCHANGED readerVars
      BY <2>1 DEF InitNotify, Notify, SetHeightNotify
    <3>2. PICK hs : NotifyAll(hs)
      BY <2>1 DEF InitNotify, Notify, SetHeightNotify
    <3> QED  BY <3>1, <3>2, NotifyAllKeeps DEF readerVars
  <2>2. CASE ~(InitNotify \/ Notify \/ SetHeightNotify)
    <3>1. UNCHANGED <<subVars, readerVars>>
      BY <2>2 DEF Publish, Start, InitHead, InitHeight, AppendPending, Advance, Receive
    <3> QED  BY <3>1, PublisherFrame
  <2> QED  BY <2>1, <2>2
<1>2. \A b \in Batches : b[1] \in Heights /\ b[2] \in Heights
  BY HeightSubAssumption
<1>3. stored' \subseteq Heights
  <2>1. CASE InitHead
    BY <2>1, <1>2 DEF InitHead, TypeOK, LoopInv
  <2>2. CASE AppendPending
    <3>1. batch[1]..batch[2] \subseteq Heights
      BY <2>2, <1>2, HeightSubAssumption DEF AppendPending, LoopInv, Heights
    <3> QED  BY <2>2, <3>1 DEF AppendPending, TypeOK
  <2>3. CASE ~(InitHead \/ AppendPending)
    BY <2>3 DEF Publish, Start, InitHeight, InitNotify, Notify, Advance, SetHeightNotify, Receive, TypeOK
  <2> QED  BY <2>1, <2>2, <2>3
<1>4. /\ head' \in 0..MaxHeight /\ tail' \in 0..MaxHeight /\ height' \in 0..MaxHeight
      /\ prev' \in 0..MaxHeight
      /\ LoopInv'
  <2>1. CASE Start
    <3>1. CASE stored = {}
      BY <2>1, <3>1, HeightSubAssumption DEF Start, TypeOK, LoopInv
    <3>2. CASE stored # {}
      <4>1. PICK a \in Heights, b \in Heights : stored = a..b
        BY <2>1, HeightSubAssumption DEF Start, LoopInv
      <4>2. a \in stored /\ b \in stored /\ a <= b /\ \A g \in stored : a <= g /\ g <= b
        BY <4>1, <3>2 DEF Heights
      <4>3. head' \in Heights /\ tail' \in Heights
        BY <2>1, <3>2, <4>2 DEF Start, TypeOK
      <4>4. ppc' = "initNotify" /\ height' = head' /\ prev' = prev
        BY <2>1, <3>2 DEF Start
      <4> QED  BY <4>3, <4>4, HeightSubAssumption DEF LoopInv, Heights, TypeOK
    <3> QED  BY <3>1, <3>2
  <2>2. CASE InitHead
    BY <2>2, <1>2, HeightSubAssumption DEF InitHead, TypeOK, LoopInv, Heights
  <2>6. CASE InitHeight
    BY <2>6, HeightSubAssumption DEF InitHeight, TypeOK, LoopInv
  <2>3. CASE Advance
    <3>1. NextHead \in head..MaxHeight /\ NextTail \in 1..tail
      BY <2>3, NextHeadExists, NextTailExists DEF Advance, LoopInv
    <3> QED  BY <2>3, <3>1, HeightSubAssumption DEF Advance, TypeOK, LoopInv
  <2>4. CASE InitNotify \/ AppendPending \/ Notify \/ SetHeightNotify
    BY <2>4, HeightSubAssumption
       DEF InitNotify, AppendPending, Notify, SetHeightNotify, TypeOK, LoopInv
  <2>5. ASSUME NEW b \in Batches, Receive(b)
        PROVE  /\ head' \in 0..MaxHeight /\ tail' \in 0..MaxHeight /\ height' \in 0..MaxHeight
               /\ prev' \in 0..MaxHeight
               /\ LoopInv'
    BY <2>5 DEF Receive, TypeOK, LoopInv
  <2> QED  BY <2>1, <2>2, <2>3, <2>4, <2>5, <2>6 DEF Publish
<1>5. batch' \in Batches \cup {<<0, 0>>} /\ published' \in 0..MaxPublished
  BY HeightSubAssumption
     DEF Publish, Start, InitHead, InitHeight, InitNotify, AppendPending, Notify, Advance, SetHeightNotify,
         Receive, TypeOK, pubVars
<1>6. ppc' \in {"off", "idle", "init", "initHeight", "initNotify", "append", "notify", "advance", "setNotify"}
  BY DEF Publish, Start, InitHead, InitHeight, InitNotify, AppendPending, Notify, Advance, SetHeightNotify,
         Receive, TypeOK, pubVars
<1> QED
  BY <1>1, <1>3, <1>4, <1>5, <1>6 DEF TypeOK, SubType, readerVars

\* HeightSub keeps its types: in particular count never goes below zero or above the
\* number of readers, and advanceHead and recedeTail always find a height.
THEOREM TypeCorrect == Spec => []TypeOK
<1>1. Init => IInv
  BY IInvInit
<1>2. IInv /\ [Next]_vars => IInv'
  <2> SUFFICES ASSUME IInv, [Next]_vars PROVE IInv'
    OBVIOUS
  <2>1. CASE \E r \in Readers : Read(r) \/ ContextDone(r) \/ \E h \in Heights : Lookup(r, h)
    BY <2>1, ReaderKeeps
  <2>2. CASE Publish \/ \E b \in Batches : Receive(b)
    BY <2>2, PublisherKeeps
  <2>3. CASE UNCHANGED vars
    BY <2>3 DEF IInv, TypeOK, SubInv, LoopInv, Waiting, vars, subVars, readerVars, pubVars
  <2> QED
    BY <2>1, <2>2, <2>3 DEF Next
<1>3. IInv => TypeOK
  BY DEF IInv
<1> QED
  BY <1>1, <1>2, <1>3, PTL DEF Spec

-----------------------------------------------------------------------------
\* Adjacent batches.

\* Every height up to the published one is present.
LEMMA ElapsedIsPresent ==
    ASSUME IInv, OrderInv, NEW h \in Heights, h <= height
    PROVE  Present(h)
<1>1. ppc # "off" /\ head # 0 /\ height = head
  BY DEF OrderInv, IInv, TypeOK, Heights
<1>2. tail..head \subseteq stored
  <2>1. batch \in Batches /\ (batch = <<head, head>> \/ batch[1] = head + 1) => head <= batch[2]
    BY HeightSubAssumption DEF IInv, TypeOK, Heights
  <2>2. ppc \in {"notify", "advance"} => head <= batch[2]
    BY <2>1 DEF OrderInv, IInv, LoopInv
  <2>3. batch \in Batches => batch[2] \in Int
    BY HeightSubAssumption DEF Heights
  <2> QED  BY <1>1, <2>2, <2>3 DEF OrderInv, IInv, TypeOK, LoopInv
<1> QED
  BY <1>1, <1>2 DEF Present, IInv, TypeOK, Heights

\* With the last batch of adjacent ones in hand the head advances to its end and
\* the tail stays.
LEMMA AdvanceInOrder ==
    ASSUME IInv, OrderInv, ppc = "advance"
    PROVE  NextHead = batch[2] /\ NextTail = tail /\ head <= batch[2]
<1>1. /\ batch \in Batches /\ batch[2] \in Heights /\ batch[1] \in Heights /\ batch[1] <= batch[2]
      /\ head # 0 /\ tail # 0
  BY HeightSubAssumption DEF IInv, LoopInv
<1>2. stored = tail..batch[2] /\ head <= batch[2] /\ tail <= head
  BY <1>1 DEF OrderInv, IInv, TypeOK, Heights
<1>3. NextHead = batch[2]
  <2>1. NextHead \in head..MaxHeight /\ head + 1..NextHead \subseteq stored /\ NextHead + 1 \notin stored
    BY NextHeadExists DEF IInv
  <2>2. NextHead <= batch[2]
    <3>1. CASE NextHead = head
      BY <3>1, <1>2
    <3>2. CASE NextHead # head
      <4>1. NextHead \in head + 1..NextHead
        BY <2>1, <3>2 DEF IInv, TypeOK
      <4> QED  BY <4>1, <2>1, <1>2
    <3> QED  BY <3>1, <3>2
  <2>3. ~(NextHead < batch[2])
    BY <2>1, <1>1, <1>2 DEF IInv, TypeOK, Heights
  <2> QED  BY <2>1, <2>2, <2>3, <1>1 DEF IInv, TypeOK, Heights
<1>4. NextTail = tail
  <2>1. NextTail \in 1..tail /\ NextTail..tail - 1 \subseteq stored
    BY <1>1, NextTailExists DEF IInv
  <2>2. CASE NextTail # tail
    <3>1. NextTail \in NextTail..tail - 1
      BY <2>1, <2>2 DEF IInv, TypeOK
    <3> QED  BY <3>1, <2>1, <2>2, <1>2 DEF IInv, TypeOK
  <2> QED  BY <2>2
<1> QED
  BY <1>2, <1>3, <1>4

\* Batches that arrive in order leave no gap below the height, and nothing that is present goes away.
LEMMA OrderKeeps ==
    ASSUME IInv, IInv', OrderInv, InOrder, Publish \/ \E b \in Batches : Receive(b)
    PROVE  OrderInv' /\ \A h \in Heights : Present(h) => Present(h)'
<1>1. \A b \in Batches : b[1] \in Heights /\ b[2] \in Heights /\ b[1] <= b[2] /\ b = <<b[1], b[2]>>
  BY HeightSubAssumption
<1>2. CASE Start
  <2>1. CASE stored = {}
    BY <1>2, <2>1 DEF Start, OrderInv, Present
  <2>2. CASE stored # {}
    <3>1. PICK a \in Heights, b \in Heights : stored = a..b
      BY <1>2, HeightSubAssumption DEF Start, LoopInv, IInv
    <3>2. a \in stored /\ b \in stored /\ a <= b /\ \A g \in stored : a <= g /\ g <= b
      BY <3>1, <2>2 DEF Heights
    <3>3. head' = b /\ tail' = a
      <4>1. /\ head' \in stored /\ \A g \in stored : g <= head'
            /\ tail' \in stored /\ \A g \in stored : tail' <= g
        BY <1>2, <2>2, <3>2 DEF Start
      <4> QED  BY <4>1, <3>1, <3>2 DEF Heights
    <3>4. ppc' = "initNotify" /\ height' = head' /\ batch' = <<0, 0>> /\ stored' = stored /\ tail = 0
      BY <1>2, <2>2 DEF Start, OrderInv
    <3>5. OrderInv'
      BY <3>1, <3>2, <3>3, <3>4 DEF OrderInv, Heights
    <3> QED  BY <3>4, <3>5, <3>3 DEF Present, Heights
  <2> QED  BY <2>1, <2>2
<1>3. CASE InitHead
  <2>1. /\ batch \in Batches /\ batch[1] = batch[2] /\ head = 0 /\ tail = 0 /\ stored = {} /\ height = 0
    BY <1>3 DEF InitHead, OrderInv, IInv, LoopInv
  <2>2. /\ head' = batch[2] /\ tail' = batch[2] /\ height' = height /\ stored' = {batch[2]}
        /\ ppc' = "initHeight" /\ batch' = <<batch[2], batch[2]>>
    BY <1>3, <2>1, <1>1 DEF InitHead
  <2>3. {batch[2]} = batch[2]..batch[2] /\ batch[2] # 0 /\ batch[2] \in Int
    BY <2>1, <1>1 DEF Heights
  <2> QED  BY <2>1, <2>2, <2>3 DEF OrderInv, Present, Heights
<1>4. CASE InitNotify
  <2>1. ppc' = "idle" \/ (ppc' = "append" /\ batch # <<0, 0>>)
    BY <1>4 DEF InitNotify
  <2> QED  BY <1>4, <2>1 DEF InitNotify, OrderInv, Present
<1>5. CASE AppendPending
  <2>1. batch \in Batches /\ head # 0 /\ stored = tail..head /\ tail <= head /\ ppc = "append"
    BY <1>5 DEF AppendPending, OrderInv, IInv, LoopInv
  <2>2. stored' = tail..batch[2]
    <3>1. batch = <<head, head>> \/ batch[1] = head + 1
      BY <2>1 DEF OrderInv
    <3>2. stored' = tail..head \cup batch[1]..batch[2]
      BY <1>5, <2>1 DEF AppendPending
    <3>3. head \in Int /\ tail \in Int /\ batch[1] \in Int /\ batch[2] \in Int /\ batch[1] <= batch[2]
      BY <2>1, <1>1 DEF IInv, TypeOK, Heights
    <3>4. CASE batch = <<head, head>>
      <4>1. batch[1] = head /\ batch[2] = head
        BY <3>4
      <4> QED  BY <4>1, <3>2, <3>3, <2>1
    <3>5. CASE batch[1] = head + 1
      BY <3>5, <3>2, <3>3, <2>1
    <3> QED  BY <3>1, <3>4, <3>5
  <2> QED  BY <1>5, <2>1, <2>2 DEF AppendPending, OrderInv, Present
<1>6. CASE Notify
  BY <1>6 DEF Notify, OrderInv, Present
<1>7. CASE Advance
  <2>1. NextHead = batch[2] /\ NextTail = tail /\ head <= batch[2] /\ head # 0 /\ head = height
    BY <1>7, AdvanceInOrder DEF Advance, OrderInv, IInv, LoopInv
  <2>2. stored = tail..batch[2] /\ tail <= head /\ batch \in Batches
    BY <1>7, <2>1 DEF Advance, OrderInv, IInv, LoopInv
  <2>3. head' = batch[2] /\ tail' = tail /\ stored' = stored /\ prev' = head /\ height' = batch[2]
    BY <1>7, <2>1, <2>2, <1>1 DEF Advance, IInv, TypeOK, Heights
  <2>4. ppc' \in {"idle", "setNotify"} 
    BY <1>7 DEF Advance
  <2>5. batch[2] # 0 /\ tail <= batch[2]
    <3>1. batch[2] \in Heights
      BY <2>2, <1>1
    <3>2. head \in Int /\ tail \in Int
      BY DEF IInv, TypeOK
    <3> QED  BY <2>1, <2>2, <3>1, <3>2 DEF Heights
  <2> QED  BY <2>1, <2>2, <2>3, <2>4, <2>5 DEF OrderInv, Present
<1>8. CASE SetHeightNotify
  BY <1>8 DEF SetHeightNotify, OrderInv, Present
<1>9. ASSUME NEW b \in Batches, Receive(b)
      PROVE  OrderInv' /\ \A h \in Heights : Present(h) => Present(h)'
  <2>1. b[1] = IF head = 0 THEN b[2] ELSE head + 1
    BY <1>9 DEF Receive
  <2> QED  BY <1>9, <2>1, <1>1 DEF Receive, OrderInv, Present
<1>10. CASE InitHeight
  BY <1>10 DEF InitHeight, OrderInv, Present
<1> QED
  BY <1>2, <1>3, <1>4, <1>5, <1>6, <1>7, <1>8, <1>9, <1>10 DEF Publish

\* A step that leaves the readers alone, and closes subscriptions of present heights only.
LEMMA ReleaseByPublisher ==
    ASSUME IInv, ReleaseInv, UNCHANGED readerVars, \A h \in Heights : Present(h) => Present(h)',
           UNCHANGED subVars \/ \E hs : NotifyAll(hs) /\ \A h \in hs \cap Heights : Present(h)'
    PROVE  ReleaseInv'
<1>1. \A r \in Readers : rpc[r] # "idle" => want[r] \in Heights
  BY DEF IInv, SubInv
<1>2. ReleasedMeansPresent'
  <2> SUFFICES ASSUME NEW r \in Readers, rpc[r] = "reread"
               PROVE  Present(want[r])'
    BY DEF ReleasedMeansPresent, Present, readerVars
  <2> QED  BY <1>1 DEF ReleaseInv, ReleasedMeansPresent, Present, readerVars
<1>3. CASE UNCHANGED subVars
  <2>1. \A r \in signal' : Present(want[r])'
    BY <1>1, <1>3 DEF ReleaseInv, IInv, SubInv, TypeOK, Waiting, subVars, readerVars
  <2>2. \A h \in Heights : ~Present(h)' => count'[h] = Cardinality(parked'[h])
    BY <1>3 DEF ReleaseInv, subVars
  <2> QED  BY <1>2, <2>1, <2>2 DEF ReleaseInv
<1>4. ASSUME NEW hs, NotifyAll(hs), \A h \in hs \cap Heights : Present(h)' PROVE ReleaseInv'
  <2>1. ASSUME NEW r \in signal' PROVE Present(want[r])'
    <3> HIDE DEF Present
    <3>1. CASE r \in signal
      <4>1. want[r] \in Heights /\ Present(want[r]) /\ want' = want
        BY <3>1, <1>1 DEF ReleaseInv, IInv, SubInv, TypeOK, Waiting, readerVars
      <4> QED  BY <4>1
    <3>2. CASE r \notin signal
      <4>1. PICK h \in hs \cap Heights : r \in parked[h]
        BY <1>4, <3>2 DEF NotifyAll
      <4>2. want[r] = h /\ want' = want
        BY <4>1 DEF IInv, SubInv, readerVars
      <4> QED  BY <4>1, <4>2, <1>4
    <3> QED  BY <3>1, <3>2
  <2>2. \A h \in Heights : ~Present(h)' => count'[h] = Cardinality(parked'[h])
    <3> TAKE h \in Heights
    <3> HAVE ~Present(h)'
    <3>1. h \notin hs /\ ~Present(h)
      BY <1>4
    <3>2. count'[h] = count[h] /\ parked'[h] = parked[h]
      BY <1>4, <3>1 DEF NotifyAll
    <3> QED  BY <3>1, <3>2 DEF ReleaseInv
  <2> QED  BY <1>2, <2>1, <2>2 DEF ReleaseInv, readerVars
<1> QED
  BY <1>3, <1>4

\* The publisher only signals heights that are present.
LEMMA PublisherReleases ==
    ASSUME InOrderInv, InOrder, IInv', OrderInv', Publish \/ \E b \in Batches : Receive(b),
           \A h \in Heights : Present(h) => Present(h)'
    PROVE  ReleaseInv'
<1> USE DEF InOrderInv
<1>1. CASE InitNotify
  <2>1. \A h \in (1..height - 1) \cap Heights : Present(h)
    <3>1. height \in Int
      BY HeightSubAssumption DEF IInv, TypeOK
    <3>2. \A h \in 1..height - 1 : h <= height
      BY <3>1
    <3> QED  BY <3>2, ElapsedIsPresent
  <2>2. NotifyAll(1..height - 1) /\ UNCHANGED readerVars
    BY <1>1 DEF InitNotify
  <2> QED  BY <2>1, <2>2, ReleaseByPublisher
<1>2. CASE Notify
  <2>1. /\ batch \in Batches /\ tail <= head /\ stored = tail..batch[2]
        /\ (batch = <<head, head>> \/ batch[1] = head + 1)
    BY <1>2 DEF Notify, OrderInv, IInv, LoopInv
  <2>2. \A h \in (batch[1]..batch[2]) \cap Heights : Present(h)
    <3>1. batch[1] \in Int /\ batch[2] \in Int /\ head \in Int /\ tail \in Int
      BY <2>1, HeightSubAssumption DEF IInv, TypeOK, Heights
    <3>2. tail <= batch[1]
      BY <2>1, <3>1
    <3> QED  BY <3>1, <3>2, <2>1 DEF Present
  <2>3. NotifyAll(batch[1]..batch[2]) /\ UNCHANGED readerVars
    BY <1>2 DEF Notify
  <2> QED  BY <2>2, <2>3, ReleaseByPublisher
<1>3. CASE SetHeightNotify
  <2>1. \A h \in (prev..height) \cap Heights : Present(h)
    <3>1. \A h \in prev..height : h <= height
      BY DEF IInv, TypeOK
    <3> QED  BY <3>1, ElapsedIsPresent
  <2>2. NotifyAll(prev..height) /\ UNCHANGED readerVars
    BY <1>3 DEF SetHeightNotify
  <2> QED  BY <2>1, <2>2, ReleaseByPublisher
<1>4. CASE ~(InitNotify \/ Notify \/ SetHeightNotify)
  <2>1. UNCHANGED <<subVars, readerVars>>
    BY <1>4 DEF Publish, Start, InitHead, InitHeight, AppendPending, Advance, Receive
  <2> QED  BY <2>1, ReleaseByPublisher
<1> QED
  BY <1>1, <1>2, <1>3, <1>4

\* A reader is released only when its height has elapsed or its subscription was
\* closed, and a cancelled one closes no subscription of a height to come unless
\* nobody else waits on it.
LEMMA ReaderReleases ==
    ASSUME InOrderInv, IInv', ReaderFrame, NEW r \in Readers,
           Read(r) \/ ContextDone(r) \/ \E h \in Heights : Lookup(r, h)
    PROVE  ReleaseInv'
<1> USE DEF InOrderInv
<1>1. \A h : Present(h)' <=> Present(h)
  BY DEF ReaderFrame, Present
<1>2. ASSUME rpc'[r] = "reread" => Present(want'[r]),
             \A q \in Readers : q # r => rpc'[q] = rpc[q] /\ want'[q] = want[q]
      PROVE  ReleasedMeansPresent'
  BY <1>1, <1>2 DEF ReleaseInv, ReleasedMeansPresent, Present
<1>3. ASSUME UNCHANGED subVars, r \in signal => want'[r] = want[r],
             \A q \in Readers : q # r => want'[q] = want[q]
      PROVE  /\ \A q \in signal' : Present(want[q])'
             /\ \A h \in Heights : ~Present(h)' => count'[h] = Cardinality(parked'[h])
  BY <1>1, <1>3 DEF ReleaseInv, subVars, IInv, TypeOK
<1>4. CASE ContextDone(r) \/ WaitCheck(r) \/ WaitElapsed(r) \/ Reread(r)
  <2>1. /\ UNCHANGED subVars /\ want' = want
        /\ \A q \in Readers : q # r => rpc'[q] = rpc[q]
        /\ rpc'[r] = "reread" => rpc[r] # "idle" /\ height >= want[r]
    BY <1>4 DEF ContextDone, WaitCheck, WaitElapsed, Reread, Goto, IInv, TypeOK
  <2>2. rpc'[r] = "reread" => Present(want'[r])
    BY <2>1, ElapsedIsPresent DEF IInv, SubInv
  <2> QED  BY <1>2, <1>3, <2>1, <2>2 DEF ReleaseInv
<1>5. CASE Return(r) \/ \E h \in Heights : Lookup(r, h)
  <2>1. /\ UNCHANGED subVars /\ rpc'[r] # "reread" /\ ~Waiting(r)
        /\ \A q \in Readers : q # r => rpc'[q] = rpc[q] /\ want'[q] = want[q]
    BY <1>5 DEF Return, Lookup, Goto, IInv, TypeOK, Waiting
  <2>2. r \notin signal
    BY <2>1 DEF IInv, SubInv
  <2> QED  BY <1>2, <1>3, <2>1, <2>2 DEF ReleaseInv
<1>6. CASE Woken(r)
  <2>1. /\ r \in signal /\ signal' = signal \ {r} /\ want' = want /\ count' = count /\ parked' = parked
        /\ \A q \in Readers : q # r => rpc'[q] = rpc[q]
    BY <1>6 DEF Woken, Goto, IInv, TypeOK
  <2>2. Present(want'[r])
    BY <2>1 DEF ReleaseInv
  <2> QED  BY <1>1, <1>2, <2>1, <2>2 DEF ReleaseInv
<1>7. CASE Subscribe(r)
  <2> DEFINE h == want[r]
  <2>1. h \in Heights /\ r \notin parked[h]
    BY <1>7 DEF Subscribe, IInv, SubInv, Waiting
  <2>2. /\ \A g \in Heights : /\ count'[g] = IF g = h THEN count[g] + 1 ELSE count[g]
                              /\ parked'[g] = IF g = h THEN parked[g] \cup {r} ELSE parked[g]
        /\ signal' = signal /\ want' = want
        /\ \A q \in Readers : rpc'[q] = IF q = r THEN "parked" ELSE rpc[q]
    BY <1>7, <2>1 DEF Subscribe, Goto, IInv, TypeOK
  <2>3. Cardinality(parked[h] \cup {r}) = Cardinality(parked[h]) + 1
    BY <2>1, ReaderSets, FS_AddElement DEF IInv, TypeOK
  <2>4. \A g \in Heights : ~Present(g) => count'[g] = Cardinality(parked'[g])
    BY <2>2, <2>3 DEF ReleaseInv
  <2> QED  BY <1>1, <1>2, <2>2, <2>4 DEF ReleaseInv
<1>8. CASE Unsubscribe(r)
  <2> DEFINE h == want[r]
             rest == parked[h] \ {r}
  <2>1. /\ h \in Heights /\ Waiting(r) /\ want' = want /\ rpc'[r] = "cancelled"
        /\ \A q \in Readers : q # r => rpc'[q] = rpc[q]
    BY <1>8 DEF Unsubscribe, Goto, IInv, SubInv, Waiting, TypeOK
  <2>2. /\ \A g \in Heights : g # h => count'[g] = count[g] /\ parked'[g] = parked[g]
        /\ signal' \subseteq signal \/ (count[h] = 1 /\ signal' = (signal \cup rest) \ {r})
        /\ count[h] # 0 => count'[h] = count[h] - 1 /\ parked'[h] = IF count[h] = 1 THEN {} ELSE rest
    BY <1>8, <2>1 DEF Unsubscribe, NotifyOne, IInv, TypeOK
  <2>3. CASE Present(h)
    <3>1. \A q \in rest : want[q] = h
      BY <2>1 DEF IInv, SubInv
    <3> QED  BY <2>1, <2>2, <2>3, <3>1, <1>1, <1>2 DEF ReleaseInv
  <2>4. CASE ~Present(h)
    <3>1. count[h] = Cardinality(parked[h]) /\ r \notin signal
      BY <2>1, <2>4 DEF ReleaseInv
    <3>2. r \in parked[h] /\ parked[h] \in SUBSET Readers
      BY <2>1, <3>1 DEF IInv, SubInv, TypeOK
    <3>3. Cardinality(rest) = count[h] - 1 /\ count[h] \in Nat /\ IsFiniteSet(rest)
      BY <3>1, <3>2, ReaderSets, FS_RemoveElement
    <3>4. count[h] # 0
      BY <2>1, <3>2 DEF IInv, SubInv
    <3>5. count[h] = 1 => rest = {}
      BY <3>3, FS_EmptySet
    <3>6. signal' \subseteq signal
      BY <2>2, <3>5
    <3>7. count'[h] = Cardinality(parked'[h])
      BY <2>2, <3>3, <3>4, <3>5
    <3>8. \A g \in Heights : ~Present(g) => count'[g] = Cardinality(parked'[g])
      BY <2>2, <3>7 DEF ReleaseInv
    <3> QED  BY <2>1, <3>6, <3>8, <1>1, <1>2 DEF ReleaseInv
  <2> QED  BY <2>3, <2>4
<1> QED
  BY <1>4, <1>5, <1>6, <1>7, <1>8 DEF Read

\* A reader that stops waiting finds its header (store.go, GetByHeight: errElapsedHeight
\* means that the height should be present), for headers appended in order.
THEOREM ReleaseSafety ==
    ASSUME InOrder
    PROVE  Spec => []ReleasedMeansPresent
<1>1. Init => InOrderInv
  <2> SUFFICES ASSUME Init PROVE InOrderInv
    OBVIOUS
  <2>1. OrderInv
    BY DEF Init, OrderInv
  <2>2. ReleaseInv
    BY FS_EmptySet DEF Init, ReleaseInv, ReleasedMeansPresent
  <2> QED  BY <2>1, <2>2, IInvInit DEF InOrderInv
<1>2. InOrderInv /\ [Next]_vars => InOrderInv'
  <2> SUFFICES ASSUME InOrderInv, [Next]_vars PROVE InOrderInv'
    OBVIOUS
  <2>1. CASE \E r \in Readers : Read(r) \/ ContextDone(r) \/ \E h \in Heights : Lookup(r, h)
    <3>1. PICK r \in Readers : Read(r) \/ ContextDone(r) \/ \E h \in Heights : Lookup(r, h)
      BY <2>1
    <3>2. IInv' /\ ReaderFrame
      BY <3>1, ReaderKeeps DEF InOrderInv
    <3>3. OrderInv'
      BY <3>2 DEF InOrderInv, OrderInv, ReaderFrame, pubVars
    <3>4. ReleaseInv'
      BY <3>1, <3>2, ReaderReleases
    <3> QED  BY <3>2, <3>3, <3>4 DEF InOrderInv
  <2>2. CASE Publish \/ \E b \in Batches : Receive(b)
    <3>1. IInv'
      BY <2>2, PublisherKeeps DEF InOrderInv
    <3>2. OrderInv' /\ \A h \in Heights : Present(h) => Present(h)'
      BY <2>2, <3>1, OrderKeeps DEF InOrderInv
    <3>3. ReleaseInv'
      BY <2>2, <3>1, <3>2, PublisherReleases
    <3> QED  BY <3>1, <3>2, <3>3 DEF InOrderInv
  <2>3. CASE UNCHANGED vars
    BY <2>3 DEF InOrderInv, IInv, TypeOK, SubInv, LoopInv, OrderInv, ReleaseInv, ReleasedMeansPresent,
                Present, Waiting, vars, subVars, readerVars, pubVars
  <2> QED
    BY <2>1, <2>2, <2>3 DEF Next
<1>3. InOrderInv => ReleasedMeansPresent
  BY DEF InOrderInv, ReleaseInv
<1> QED
  BY <1>1, <1>2, <1>3, PTL DEF Spec
=============================================================================
