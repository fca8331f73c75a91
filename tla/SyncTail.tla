------------------------------ MODULE SyncTail ------------------------------
(***************************************************************************)
(* subjectiveTail (src/sync/syncer_tail.go): the Syncer finds the height    *)
(* its store should begin at and moves the tail there, by pruning or by     *)
(* syncing what is missing, while the sync loop and new heads go on         *)
(* appending through syncStore.                                             *)
(*                                                                          *)
(* A clock gives every header its time; blocks are at most BlockTime apart, *)
(* as Parameters asks for.  DeleteRange is one step here: what it does      *)
(* inside is StoreDelete.                                                   *)
(***************************************************************************)
EXTENDS SyncStore

CONSTANTS
    Movers,       \* goroutines in subjectiveTail: callers of Head, gossip validators
    Scenarios,    \* where the store begins and ends, the times of the headers, the heads the
                  \* movers may bring, and whether SyncFromHash, SyncFromHeight or neither is set
                  \* and to which height
    BlockTime, Window,
    Retained,     \* trustingPeriod / blockTime
    RequestSize,  \* header.MaxRangeRequestSize
    Width,        \* 2^64: heights are unsigned
    MaxMoves      \* bound on the calls of each mover

ASSUME SyncTailAssumption ==
    /\ Movers \subseteq Appenders /\ "free" \notin Movers
    /\ \A s \in Scenarios :
          /\ s.kind \in {"window", "height", "hash"} /\ s.height \in 0..MaxHeight
          /\ <<s.tail, s.head>> \in InitialStores /\ s.heads \subseteq Heights
          /\ s.clock \in [Heights -> Int]
          /\ \A h \in 1..MaxHeight - 1 : s.clock[h + 1] - s.clock[h] \in 0..BlockTime
    /\ BlockTime \in Nat \ {0} /\ RequestSize \in Nat \ {0}
    /\ Window \in Nat /\ Retained \in Nat /\ MaxMoves \in Nat
    /\ Width \in Nat /\ Width > MaxHeight + Window

VARIABLES
    config,    \* the scenario
    tailMu,    \* its holder, or "free"
    tpc,       \* per mover
    head,      \* the head it brings
    old,       \* oldTail, 0 when the store has none
    new,       \* the height of the new tail, as far as it is known
    from,      \* fromHead of requestHeaders
    moves,
    stale,     \* history: the tail that the holder of tailMu had read before was not the store's when it
               \* took tailMu, nor when it deleted from there
    settled    \* history: the tail the last successful move that was not stale settled on

tailVars == <<config, tailMu, tpc, head, old, new, from, moves, stale, settled>>
vars == <<syncStoreVars, tailVars>>

SyncTailTypeOK ==
    /\ SyncStoreTypeOK
    /\ tailMu \in Movers \cup {"free"}
    /\ tpc \in [Movers -> {"idle", "tryLock", "renew", "find", "load", "fetch", "append",
                           "appending", "force", "move", "delete", "sync", "syncing", "moved"}]
    /\ \A m \in Movers : /\ (tailMu = m) = (tpc[m] \notin {"idle", "tryLock"})
                         /\ new[m] \in 0..Width - 1
    /\ settled \in 0..MaxHeight

Step(m, l) == tpc' = [tpc EXCEPT ![m] = l]
Found(m, h) == new' = [new EXCEPT ![m] = h]
Lower(a, b) == IF a < b THEN a ELSE b

\* subjectiveTail returns an error; its deferred unlock runs.
Fail(m) ==
    /\ Step(m, "idle")
    /\ tailMu' = "free"

tailStays == <<config, head, old, moves, stale, settled>>

-----------------------------------------------------------------------------
\* subjectiveTail reads the tail.  Until Start has initialized the store there is
\* only its own call.
MoveCall(m, h) ==
    /\ tpc[m] = "idle" /\ moves[m] < MaxMoves
    /\ storeHead # 0 \/ \A q \in Movers : tpc[q] = "idle"
    /\ moves' = [moves EXCEPT ![m] = @ + 1]
    /\ head' = [head EXCEPT ![m] = h] /\ old' = [old EXCEPT ![m] = storeTail]
    /\ Step(m, "tryLock")
    /\ UNCHANGED <<syncStoreVars, config, tailMu, new, from, stale, settled>>

\* A call that finds another one at work leaves the tail to it.
TryLock(m) ==
    /\ tpc[m] = "tryLock"
    /\ \/ tailMu = "free" /\ tailMu' = m /\ Step(m, "renew") /\ stale' = (old[m] # storeTail)
       \/ tailMu # "free" /\ Step(m, "idle") /\ UNCHANGED <<tailMu, stale>>
    /\ UNCHANGED <<syncStoreVars, config, head, old, moves, settled, new, from>>

\* findTailHeight: how far the tail has fallen behind the window of its head.
Expected(m) == config.clock[head[m]] - Window
TailTimeDiff(m) == Expected(m) - config.clock[old[m]]

\* Its first estimate: from the head when the tail is far away, otherwise from the tail.
Estimate(m) ==
    IF TailTimeDiff(m) <= 0 THEN old[m]
    ELSE IF TailTimeDiff(m) >= Window THEN (head[m] - Window \div BlockTime) % Width
    ELSE old[m] + TailTimeDiff(m) \div BlockTime

estimateTailHeight(h) == IF Retained >= h THEN 1 ELSE h - Retained

\* renewTail: the header SyncFromHash names unless the tail is it already, the height
\* SyncFromHeight gives, an estimate for an empty store, or what is found from the tail.
Renew(m) ==
    /\ tpc[m] = "renew"
    /\ \/ /\ config.kind = "hash"
          /\ Found(m, config.height)
          /\ Step(m, IF config.height = old[m] \/ config.height \in stored THEN "move" ELSE "fetch")
       \/ config.kind = "height" /\ Found(m, config.height) /\ Step(m, "load")
       \/ /\ config.kind = "window" /\ old[m] = 0
          /\ Found(m, estimateTailHeight(head[m])) /\ Step(m, "load")
       \/ /\ config.kind = "window" /\ old[m] # 0
          /\ Found(m, Estimate(m))
          /\ Step(m, IF TailTimeDiff(m) <= 0 THEN "load" ELSE "find")
    /\ UNCHANGED <<syncStoreVars, tailStays, tailMu, from>>

\* The heights whose headers findTailHeight looks at.
Scanning(m) == old[m] < new[m] /\ new[m] < storeHead

\* Mutant of Find: it goes one header too far.
FindThrough(m) ==
    /\ tpc[m] = "find" /\ (Scanning(m) => new[m] \in stored)
    /\ IF Scanning(m) /\ config.clock[new[m]] <= Expected(m)
         THEN Found(m, new[m] + 1) /\ UNCHANGED tpc
         ELSE Step(m, "load") /\ UNCHANGED new
    /\ UNCHANGED <<syncStoreVars, tailStays, tailMu, from>>

\* One iteration of its loop over the stored headers.
Find(m) ==
    /\ tpc[m] = "find" /\ (Scanning(m) => new[m] \in stored)
    /\ IF Scanning(m) /\ config.clock[new[m]] < Expected(m)
         THEN Found(m, new[m] + 1) /\ UNCHANGED tpc
         ELSE Step(m, "load") /\ UNCHANGED new
    /\ UNCHANGED <<syncStoreVars, tailStays, tailMu, from>>

\* The store is asked for heights it has passed, the network for the others.
Load(m) ==
    /\ tpc[m] = "load"
    /\ Step(m, IF new[m] <= storeHead /\ new[m] \in stored THEN "move" ELSE "fetch")
    /\ UNCHANGED <<syncStoreVars, tailStays, tailMu, new, from>>

Fetch(m) ==
    /\ tpc[m] = "fetch" /\ new[m] \in Heights
    /\ Step(m, "append")
    /\ UNCHANGED <<syncStoreVars, tailStays, tailMu, new, from>>

\* An error ends the call: of the network, here or in the middle of requestHeaders, or of the
\* store that is searched or appended to; the search also ends at a header that was pruned.
CallFails(m) ==
    /\ tpc[m] \in {"find", "fetch", "force", "sync"}
    /\ tpc[m] = "find" => Scanning(m)
    /\ \/ errors < MaxErrors /\ errors' = errors + 1
       \/ tpc[m] = "find" /\ new[m] \notin stored /\ errors' = errors
    /\ Fail(m)
    /\ UNCHANGED <<cached, sem, storeVars, pc, batch, loc, outcome, calls>>
    /\ UNCHANGED <<tailStays, new, from>>

\* The new tail is appended through syncStore ...
AppendTail(m) ==
    /\ tpc[m] = "append"
    /\ StartAppend(m, <<new[m], new[m]>>)
    /\ Step(m, "appending")
    /\ UNCHANGED <<cached, sem, storeVars, loc, calls, errors>>
    /\ UNCHANGED <<tailStays, tailMu, new, from>>

TailAppended(m) ==
    /\ tpc[m] = "appending" /\ pc[m] = "idle"
    /\ \/ outcome[m] = "nil" /\ Step(m, "move") /\ UNCHANGED tailMu
       \/ outcome[m] = "nonAdjacent" /\ Step(m, "force") /\ UNCHANGED tailMu
       \/ outcome[m] = "error" /\ Fail(m)
    /\ UNCHANGED <<syncStoreVars, tailStays, new, from>>

\* ... or, if it is not adjacent, past it.
ForceAppend(m) ==
    /\ tpc[m] = "force"
    /\ queue' = Append(queue, <<new[m], new[m]>>)
    /\ Step(m, "move")
    /\ UNCHANGED <<cached, sem, storeHead, storeTail, stored, pc, batch, loc, outcome, calls, errors>>
    /\ UNCHANGED <<tailStays, tailMu, new, from>>

-----------------------------------------------------------------------------
\* moveTail.
Move(m) ==
    /\ tpc[m] = "move"
    /\ Step(m, CASE old[m] = 0 \/ old[m] = new[m] -> "moved"
                 [] old[m] # 0 /\ old[m] < new[m] -> "delete"
                 [] OTHER -> "sync")
    /\ from' = [from EXCEPT ![m] = new[m]]
    /\ UNCHANGED <<syncStoreVars, tailStays, tailMu, new>>

\* Mutant of DeleteRange: the new tail is deleted too.
DeleteRangeThrough(m) ==
    /\ tpc[m] = "delete" /\ queue = <<>>
    /\ old[m] = storeTail /\ new[m] < storeHead
    /\ stored' = stored \ old[m]..new[m]
    /\ storeTail' = new[m] + 1
    /\ Step(m, "moved")
    /\ UNCHANGED <<cached, sem, storeHead, queue, pc, batch, loc, outcome, calls, errors>>
    /\ stale' = FALSE
    /\ UNCHANGED <<config, head, old, moves, settled, tailMu, new, from>>

\* Upward: Store.DeleteRange(old, new), which begins with Sync.
DeleteRange(m) ==
    /\ tpc[m] = "delete" /\ queue = <<>>
    /\ old[m] = storeTail /\ new[m] <= storeHead
    /\ stored' = stored \ old[m]..new[m] - 1
    /\ storeTail' = new[m]
    /\ Step(m, "moved")
    /\ UNCHANGED <<cached, sem, storeHead, queue, pc, batch, loc, outcome, calls, errors>>
    /\ stale' = FALSE
    /\ UNCHANGED <<config, head, old, moves, settled, tailMu, new, from>>

\* It refuses a range that does not begin at the tail or ends above the head.  The
\* header at `new' was stored before, so it is never the height after the head.
DeleteRefused(m) ==
    /\ tpc[m] = "delete" /\ queue = <<>>
    /\ old[m] # storeTail \/ new[m] > storeHead
    /\ Fail(m)
    /\ UNCHANGED <<syncStoreVars, tailStays, new, from>>

\* Downward: doSync(new, old) requests and appends (new:old] piece by piece.  An answer is a
\* prefix of what was asked for.
SyncDiff(m) ==
    /\ tpc[m] = "sync" /\ from[m] < old[m]
    /\ \E last \in from[m] + 1..Lower(from[m] + RequestSize, old[m]) :
           /\ StartAppend(m, <<from[m] + 1, last>>)
           /\ from' = [from EXCEPT ![m] = last]
    /\ Step(m, "syncing")
    /\ UNCHANGED <<cached, sem, storeVars, loc, calls, errors>>
    /\ UNCHANGED <<tailStays, tailMu, new>>

SyncAppended(m) ==
    /\ tpc[m] = "syncing" /\ pc[m] = "idle"
    /\ IF outcome[m] = "nil" THEN Step(m, "sync") /\ tailMu' = tailMu ELSE Fail(m)
    /\ UNCHANGED <<syncStoreVars, tailStays, new, from>>

SyncDone(m) ==
    /\ tpc[m] = "sync" /\ from[m] = old[m]
    /\ Step(m, "moved")
    /\ UNCHANGED <<syncStoreVars, tailStays, tailMu, new, from>>

\* Mutant of Unlock: tailMu is kept.
UnlockNever(m) ==
    /\ tpc[m] = "moved"
    /\ Step(m, "idle") /\ tailMu' = tailMu
    /\ settled' = IF old[m] = 0 \/ stale THEN settled ELSE new[m]
    /\ UNCHANGED <<syncStoreVars, config, head, old, new, from, moves, stale>>

\* subjectiveTail returns the new tail.
Unlock(m) ==
    /\ tpc[m] = "moved"
    /\ Step(m, "idle") /\ tailMu' = "free"
    /\ settled' = IF old[m] = 0 \/ stale THEN settled ELSE new[m]
    /\ UNCHANGED <<syncStoreVars, config, head, old, new, from, moves, stale>>

-----------------------------------------------------------------------------
Init ==
    /\ SyncStoreInit
    /\ config \in {s \in Scenarios : s.tail = storeTail /\ s.head = storeHead}
    /\ tailMu = "free" /\ stale = FALSE /\ settled = 0
    /\ tpc = [m \in Movers |-> "idle"]
    /\ head = [m \in Movers |-> 0] /\ old = [m \in Movers |-> 0]
    /\ new = [m \in Movers |-> 0] /\ from = [m \in Movers |-> 0]
    /\ moves = [m \in Movers |-> 0]

MoveStep(m) ==
    \/ TryLock(m) \/ Renew(m) \/ Find(m) \/ Load(m) \/ Fetch(m) \/ CallFails(m)
    \/ AppendTail(m) \/ TailAppended(m) \/ ForceAppend(m)
    \/ Move(m) \/ DeleteRange(m) \/ DeleteRefused(m)
    \/ SyncDiff(m) \/ SyncAppended(m) \/ SyncDone(m) \/ Unlock(m)

\* The sync loop and new network heads, once Start has initialized the store, append
\* above the head they saw.
OthersAppend ==
    \E a \in Appenders \ Movers, b \in Batches :
        /\ storeHead # 0 \/ cached # 0
        /\ b[1] > (IF cached # 0 THEN cached ELSE storeHead)
        /\ AppendCall(a, b)

Next ==
    \/ \E m \in Movers : (\E h \in config.heads : MoveCall(m, h)) \/ MoveStep(m)
    \/ (OthersAppend \/ SyncStoreStep) /\ UNCHANGED tailVars

Spec == Init /\ [][Next]_vars

\* Goroutines run, and the store's write loop takes what it has accepted.
FairSpec ==
    /\ Spec
    /\ \A m \in Movers : WF_vars(MoveStep(m))
    /\ \A a \in Appenders : WF_vars((AppendStep(a) \/ HeadStep(a)) /\ UNCHANGED tailVars)
    /\ WF_vars(StoreApplies /\ UNCHANGED tailVars)

-----------------------------------------------------------------------------
\* "ensuring Syncer maintains the tail within the window" (findTailHeight): when a call
\* for a head has moved the tail, the tail is no older than the window before that
\* head, give or take one block time, unless all the store had at first is older; and no
\* header within the window was pruned, unless the old tail was so far behind that the
\* new one was estimated from the head.
WindowMaintained ==
    \A m \in Movers : (tpc[m] = "moved" /\ config.kind = "window" /\ old[m] # 0) =>
        /\ \/ config.clock[new[m]] > Expected(m) - BlockTime
           \/ new[m] >= config.head
        /\ \A h \in old[m]..new[m] - 1 :
               TailTimeDiff(m) >= Window \/ config.clock[h] < Expected(m)

\* Moves, appends and syncs that overlap leave one chain (moveTail): once the store has
\* handled its queue and nobody moves the tail, it holds every header from the tail the
\* last successful call settled on up to its head.  A call whose tail was moved by another
\* one between its read and its TryLock is left out, unless it prunes: it may fetch and
\* return a header that has just been pruned.
TailSettles ==
    (queue = <<>> /\ tailMu = "free" /\ settled # 0) =>
        storeTail <= settled /\ settled..storeHead \subseteq stored

\* Every call of subjectiveTail and every Append returns.
Busy == (\E m \in Movers : tpc[m] # "idle") \/ (\E a \in Appenders : pc[a] # "idle")
TailReturns == Busy ~> ~Busy
=============================================================================
