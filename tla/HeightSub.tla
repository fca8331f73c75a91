----------------------------- MODULE HeightSub -----------------------------
(***************************************************************************)
(* heightSub (src/store/heightsub.go) between the readers that block in     *)
(* Store.GetByHeight and the one goroutine that publishes headers, the      *)
(* flushLoop of src/store/store.go.  A critical section under heightSubsLk  *)
(* is one step; every access to the atomic height outside of it is a step   *)
(* of its own, because that is where a wake-up can get lost.                *)
(***************************************************************************)
EXTENDS Integers, FiniteSets

CONSTANTS
    Readers,       \* goroutines calling GetByHeight
    MaxHeight,     \* heights are 1..MaxHeight
    Batches,       \* batches <<lo, hi>> the publisher may handle
    Starts,        \* what the datastore may hold when the store starts: ranges of heights
    InOrder,       \* as from the Syncer: a single first header, then adjacent batches
    MaxPublished,  \* bound on the batches published
    MaxCalls       \* bound on the GetByHeight calls of a reader

Heights == 1..MaxHeight

ASSUME HeightSubAssumption ==
    /\ IsFiniteSet(Readers)
    /\ MaxHeight \in Nat \ {0}
    /\ Batches \subseteq {b \in Heights \X Heights : b[1] <= b[2]}
    /\ \A S \in Starts : \E a, b \in Heights : S = a..b
    /\ InOrder \in BOOLEAN
    /\ MaxPublished \in Nat /\ MaxCalls \in Nat

VARIABLES
    stored,    \* heights getByHeight finds
    head,      \* contiguous head, 0 = nil
    tail,      \* tail, 0 = nil
    height,    \* hs.height
    count,     \* sub.count of hs.heightSubs[h]; 0 = no sub in the map
    parked,    \* per height, the readers holding the sub now in the map
    signal,    \* readers whose sub's channel is closed
    rpc,       \* per reader, where it is in GetByHeight
    want,      \* per reader, the requested height
    calls,     \* per reader, calls made
    ppc,       \* where the publisher is
    batch,     \* the batch it handles
    prev,      \* SetHeight's `curr': the height it replaced
    published  \* number of batches published

subVars    == <<count, parked, signal>>
readerVars == <<rpc, want, calls>>
pubVars    == <<ppc, batch, prev, published>>
vars == <<stored, head, tail, height, subVars, readerVars, pubVars>>

TypeOK ==
    /\ stored \subseteq Heights
    /\ head \in 0..MaxHeight /\ tail \in 0..MaxHeight /\ height \in 0..MaxHeight
    /\ count \in [Heights -> 0..Cardinality(Readers)]
    /\ parked \in [Heights -> SUBSET Readers]
    /\ signal \subseteq Readers
    /\ rpc \in [Readers -> {"idle", "check", "lock", "parked", "cancel", "reread",
                            "found", "missing", "cancelled"}]
    /\ want \in [Readers -> 0..MaxHeight]
    /\ calls \in [Readers -> 0..MaxCalls]
    /\ ppc \in {"off", "idle", "init", "initHeight", "initNotify", "append", "notify", "advance", "setNotify"}
    /\ batch \in Batches \cup {<<0, 0>>}
    /\ prev \in 0..MaxHeight
    /\ published \in 0..MaxPublished

-----------------------------------------------------------------------------
\* Mutant of NotifyAll: the subscription is removed but its channel not closed.
NotifyAllSilent(hs) ==
    /\ count' = [h \in Heights |-> IF h \in hs THEN 0 ELSE count[h]]
    /\ parked' = [h \in Heights |-> IF h \in hs THEN {} ELSE parked[h]]
    /\ signal' = signal

\* notify for every height in hs at once, as a loop under the lock does: with
\* `all' the sub's channel is closed and the sub removed from the map.
NotifyAll(hs) ==
    /\ count' = [h \in Heights |-> IF h \in hs THEN 0 ELSE count[h]]
    /\ parked' = [h \in Heights |-> IF h \in hs THEN {} ELSE parked[h]]
    /\ signal' = signal \cup UNION {parked[h] : h \in hs \cap Heights}

\* Mutant of NotifyOne: a height without a subscription is not skipped.
NotifyOneUnguarded(r, h) ==
    LET last == count[h] = 1
        rest == parked[h] \ {r}
    IN  IF FALSE
          THEN UNCHANGED <<count, parked>> /\ signal' = signal \ {r}
          ELSE /\ count' = [count EXCEPT ![h] = @ - 1]
               /\ parked' = [parked EXCEPT ![h] = IF last THEN {} ELSE rest]
               /\ signal' = IF last THEN (signal \cup rest) \ {r} ELSE signal \ {r}

\* notify(h, FALSE) of a cancelled Wait: whatever sub is at h now loses one
\* count, and is closed and removed when none is left.
NotifyOne(r, h) ==
    LET last == count[h] = 1
        rest == parked[h] \ {r}
    IN  IF count[h] = 0
          THEN UNCHANGED <<count, parked>> /\ signal' = signal \ {r}
          ELSE /\ count' = [count EXCEPT ![h] = @ - 1]
               /\ parked' = [parked EXCEPT ![h] = IF last THEN {} ELSE rest]
               /\ signal' = IF last THEN (signal \cup rest) \ {r} ELSE signal \ {r}

-----------------------------------------------------------------------------
\* Readers: GetByHeight.

Goto(r, l) == rpc' = [rpc EXCEPT ![r] = l]

\* The first lookup.
Lookup(r, h) ==
    /\ rpc[r] = "idle" /\ calls[r] < MaxCalls
    /\ want' = [want EXCEPT ![r] = h]
    /\ calls' = [calls EXCEPT ![r] = @ + 1]
    /\ Goto(r, IF h \in stored THEN "found" ELSE "check")
    /\ UNCHANGED <<stored, head, tail, height, subVars, pubVars>>

\* Mutant of WaitCheck: off by one, the height above counts as elapsed.
WaitCheckEarly(r) ==
    /\ rpc[r] = "check"
    /\ Goto(r, IF height + 1 >= want[r] THEN "reread" ELSE "lock")
    /\ UNCHANGED <<stored, head, tail, height, subVars, want, calls, pubVars>>

\* Wait: the check before the lock ...
WaitCheck(r) ==
    /\ rpc[r] = "check"
    /\ Goto(r, IF height >= want[r] THEN "reread" ELSE "lock")
    /\ UNCHANGED <<stored, head, tail, height, subVars, want, calls, pubVars>>

\* ... and the one under it; a height not yet reached is subscribed to.
WaitElapsed(r) ==
    /\ rpc[r] = "lock" /\ height >= want[r]
    /\ Goto(r, "reread")
    /\ UNCHANGED <<stored, head, tail, height, subVars, want, calls, pubVars>>

Subscribe(r) ==
    /\ rpc[r] = "lock" /\ height < want[r]
    /\ count' = [count EXCEPT ![want[r]] = @ + 1]
    /\ parked' = [parked EXCEPT ![want[r]] = @ \cup {r}]
    /\ Goto(r, "parked")
    /\ UNCHANGED <<stored, head, tail, height, signal, want, calls, pubVars>>

\* The select: the signal and the caller's context may both be ready.
Woken(r) ==
    /\ rpc[r] = "parked" /\ r \in signal
    /\ signal' = signal \ {r}
    /\ Goto(r, "reread")
    /\ UNCHANGED <<stored, head, tail, height, count, parked, want, calls, pubVars>>

ContextDone(r) ==
    /\ rpc[r] = "parked"
    /\ Goto(r, "cancel")
    /\ UNCHANGED <<stored, head, tail, height, subVars, want, calls, pubVars>>

Unsubscribe(r) ==
    /\ rpc[r] = "cancel"
    /\ NotifyOne(r, want[r])
    /\ Goto(r, "cancelled")
    /\ UNCHANGED <<stored, head, tail, height, want, calls, pubVars>>

\* The second lookup, after the signal or errElapsedHeight.
Reread(r) ==
    /\ rpc[r] = "reread"
    /\ Goto(r, IF want[r] \in stored THEN "found" ELSE "missing")
    /\ UNCHANGED <<stored, head, tail, height, subVars, want, calls, pubVars>>

Return(r) ==
    /\ rpc[r] \in {"found", "missing", "cancelled"}
    /\ Goto(r, "idle")
    /\ want' = [want EXCEPT ![r] = 0]
    /\ UNCHANGED <<stored, head, tail, height, subVars, calls, pubVars>>

-----------------------------------------------------------------------------
\* The publisher: Start's init, then flushLoop's handling of a batch.

\* init loads head and tail, if the datastore has any, and calls Init.
Start ==
    /\ ppc = "off"
    /\ IF stored = {}
         THEN ppc' = "idle" /\ UNCHANGED <<head, tail, height>>
         ELSE /\ head' = CHOOSE h \in stored : \A g \in stored : g <= h
              /\ tail' = CHOOSE h \in stored : \A g \in stored : h <= g
              /\ height' = head'
              /\ ppc' = "initNotify"
    /\ UNCHANGED <<stored, subVars, readerVars, batch, prev, published>>

\* A batch is received; an empty store is initialised with it: the head pointer
\* is set, which makes the last header readable, and Init is called.
Receive(b) ==
    /\ ppc = "idle" /\ published < MaxPublished
    /\ InOrder => b[1] = IF head = 0 THEN b[2] ELSE head + 1
    /\ batch' = b
    /\ published' = published + 1
    /\ ppc' = IF head = 0 THEN "init" ELSE "append"
    /\ UNCHANGED <<stored, head, tail, height, subVars, readerVars, prev>>

\* ensureInit: the head pointer, with it the tail, which no reader looks at ...
InitHead ==
    /\ ppc = "init"
    /\ head' = batch[2] /\ tail' = batch[1]
    /\ stored' = stored \cup {batch[2]}
    /\ ppc' = "initHeight"
    /\ UNCHANGED <<height, subVars, readerVars, batch, prev, published>>

\* ... and the store of Init.
InitHeight ==
    /\ ppc = "initHeight"
    /\ height' = head
    /\ ppc' = "initNotify"
    /\ UNCHANGED <<stored, head, tail, subVars, readerVars, batch, prev, published>>

\* Init notifies the waiters below the height, not those at it.
InitNotify ==
    /\ ppc = "initNotify"
    /\ NotifyAll(1..height - 1)
    /\ ppc' = IF batch = <<0, 0>> THEN "idle" ELSE "append"
    /\ UNCHANGED <<stored, head, tail, height, readerVars, batch, prev, published>>

\* pending.Append
AppendPending ==
    /\ ppc = "append"
    /\ stored' = stored \cup batch[1]..batch[2]
    /\ ppc' = "notify"
    /\ UNCHANGED <<head, tail, height, subVars, readerVars, batch, prev, published>>

\* heightSub.Notify: the height does not move.
Notify ==
    /\ ppc = "notify"
    /\ NotifyAll(batch[1]..batch[2])
    /\ ppc' = "advance"
    /\ UNCHANGED <<stored, head, tail, height, readerVars, batch, prev, published>>

\* The highest height stored without a gap above the head, the lowest below the tail.
NextHead == CHOOSE b \in head..MaxHeight : head + 1..b \subseteq stored /\ b + 1 \notin stored
NextTail == CHOOSE b \in 1..tail : b..tail - 1 \subseteq stored /\ b - 1 \notin stored

\* advanceHead and recedeTail; SetHeight's load and compare-and-swap.
Advance ==
    /\ ppc = "advance"
    /\ head' = NextHead /\ tail' = NextTail
    /\ prev' = height
    /\ height' = IF height >= NextHead THEN height ELSE NextHead
    /\ ppc' = IF height >= NextHead THEN "idle" ELSE "setNotify"
    /\ batch' = <<0, 0>>
    /\ UNCHANGED <<stored, subVars, readerVars, published>>

\* SetHeight's notifications, from the replaced height (inclusive) to the new one.
SetHeightNotify ==
    /\ ppc = "setNotify"
    /\ NotifyAll(prev..height)
    /\ prev' = 0
    /\ ppc' = "idle"
    /\ UNCHANGED <<stored, head, tail, height, readerVars, batch, published>>

-----------------------------------------------------------------------------
Init ==
    /\ stored \in Starts /\ head = 0 /\ tail = 0 /\ height = 0
    /\ count = [h \in Heights |-> 0]
    /\ parked = [h \in Heights |-> {}]
    /\ signal = {}
    /\ rpc = [r \in Readers |-> "idle"]
    /\ want = [r \in Readers |-> 0]
    /\ calls = [r \in Readers |-> 0]
    /\ ppc = "off" /\ batch = <<0, 0>> /\ prev = 0 /\ published = 0

Publish ==
    \/ Start \/ InitHead \/ InitHeight \/ InitNotify \/ AppendPending \/ Notify
    \/ Advance \/ SetHeightNotify

Read(r) ==
    \/ WaitCheck(r) \/ WaitElapsed(r) \/ Subscribe(r) \/ Woken(r)
    \/ Unsubscribe(r) \/ Reread(r) \/ Return(r)

Next ==
    \/ \E b \in Batches : Receive(b)
    \/ Publish
    \/ \E r \in Readers : Read(r) \/ ContextDone(r)
    \/ \E r \in Readers, h \in Heights : Lookup(r, h)

Spec == Init /\ [][Next]_vars

\* The publisher and every reader keep running; new calls, new batches and
\* expiring contexts are up to the environment.
FairSpec == Spec /\ WF_vars(Publish) /\ \A r \in Readers : WF_vars(Read(r))

-----------------------------------------------------------------------------
\* Correctness.

\* "errElapsedHeight ... means the requested 'height' should be present" (store.go):
\* a reader that stops waiting finds its header, unless it asked below the tail,
\* even when a cancelled reader's notify hits a subscription that is not its own.
ReleasedMeansPresent ==
    \A r \in Readers : rpc[r] = "reread" => want[r] \in stored \/ want[r] < tail

\* A reader whose header is stored while it waits returns.
WaiterReturns ==
    \A r \in Readers :
        (rpc[r] \in {"check", "lock", "parked"} /\ want[r] \in stored)
            ~> rpc[r] \in {"found", "missing", "cancelled", "idle"}
=============================================================================
