------------------------------- MODULE Syncer -------------------------------
(***************************************************************************)
(* The head side of the Syncer (src/sync/syncer.go, syncer_head.go):        *)
(* syncLoop against the goroutines that bring new network heads, the gossip *)
(* validator and callers of Head, among them Start.  They share syncStore,  *)
(* the pending ranges and the trigger channel.  syncStore's Append and Head *)
(* are one step each (module SyncStore is about their inside); of the       *)
(* ranges every section under a lock is one step, and Add is two, because   *)
(* a range it has looked at may be emptied before it is appended to.        *)
(*                                                                          *)
(* A header is its height.  The chain is honest; verification across more   *)
(* than TrustDistance heights fails softly and is bifurcated.  The pruning  *)
(* window is longer than the chain, so that the tail, once set, stays.      *)
(***************************************************************************)
EXTENDS Ranges, FiniteSets

CONSTANTS
    Validators,    \* goroutines running the gossip validator
    Callers,       \* goroutines calling Head
    Starter,       \* the one of them whose call is made by Start
    MaxHeight,     \* heights are 1..MaxHeight
    GossipHeads,   \* heights that are gossiped
    NetworkHeads,  \* heights the exchange answers a head request with
    InitialHeads,  \* heads the store may have at the start, 0 when it is empty
    Retained,      \* trusting period over block time
    TrustDistance, \* how far direct verification reaches
    RequestSize,   \* MaxRangeRequestSize
    MaxGossips, MaxCalls, MaxErrors  \* bounds on messages, Head calls and failing calls

Heights == 1..MaxHeight
Procs == Validators \cup Callers

ASSUME SyncerAssumption ==
    /\ MaxHeight \in Nat \ {0}
    /\ GossipHeads \subseteq Heights /\ NetworkHeads \subseteq Heights
    /\ InitialHeads \subseteq 0..MaxHeight
    /\ Retained \in Nat /\ TrustDistance \in Nat \ {0} /\ RequestSize \in Nat \ {0}
    /\ {MaxGossips, MaxCalls, MaxErrors} \subseteq Nat
    /\ Starter \in Callers /\ Validators \cap Callers = {} /\ "free" \notin Procs

VARIABLES
    cached,      \* syncStore's head, 0 when the store is empty
    stored,      \* heights given to the store
    tail,        \* the tail the store has, or will have once it handled its queue
    tailSet,     \* the store reports the tail
    ranges,      \* the pending ranges
    rangesLk,    \* the goroutine inside Add, or "free"
    triggerSync, \* the trigger channel holds a signal
    started,     \* Start has succeeded: syncLoop runs and the validator is let through
    incomingMu,  \* holder, or "free"
    tailMu,      \* holder, or "free"
    lpc,         \* where syncLoop is
    subjHead, fromHead, to,  \* variables of sync and processHeaders
    held,        \* processHeaders' headersRange is still the first range (else it is empty)
    headers,     \* <<first, last>> got from headersRange
    reqTo,       \* the `to' of requestHeaders
    got,         \* <<first, last>> got from the getter
    failed,      \* s.state.Error of the last sync is set
    ppc,         \* per goroutine
    ret,         \* per goroutine, where setLocalHead returns to
    soft,        \* per caller, incomingNetworkHead was called by networkHead
    newHead,     \* per goroutine, the head candidate
    sbj,         \* per goroutine, the subjective head read
    diff,        \* per goroutine, bifurcation's diff
    arg,         \* per goroutine, setLocalHead's argument
    gossips, calls, errors

storeVars == <<cached, stored, tail, tailSet>>
sharedVars == <<ranges, rangesLk, triggerSync, incomingMu, tailMu>>
loopVars == <<lpc, subjHead, fromHead, to, held, headers, reqTo, got, failed>>
procVars == <<ppc, ret, soft, newHead, sbj, diff, arg>>
countVars == <<gossips, calls, errors>>
vars == <<storeVars, sharedVars, started, loopVars, procVars, countVars>>

None == <<0, 0>>
Spans == {None} \cup {s \in (1..MaxHeight + 1) \X (0..MaxHeight) : s[1] <= s[2] + 1}

SyncerTypeOK ==
    /\ cached \in 0..MaxHeight /\ stored \subseteq Heights
    /\ ranges \in Seq([start : Heights, lo : 1..MaxHeight + 1, hi : Heights])
    /\ rangesLk \in Procs \cup {"free"} /\ incomingMu \in Procs \cup {"free"}
    /\ tail \in 0..MaxHeight /\ tailSet \in BOOLEAN
    /\ tailMu \in Procs \cup {"free"}
    /\ triggerSync \in BOOLEAN /\ started \in BOOLEAN
    /\ lpc \in {"idle", "localHead", "storeHead", "prune", "first", "get",
                "request", "requested", "append", "remove"}
    /\ {subjHead, fromHead, to, reqTo} \subseteq 0..MaxHeight
    /\ held \in BOOLEAN /\ {headers, got} \subseteq Spans
    /\ failed \in BOOLEAN
    /\ ppc \in [Procs -> {"idle", "head", "network", "tail", "lockTail", "fetchTail",
                          "lock", "verify", "bifurcate", "bifurcated", "set", "check",
                          "prune", "add", "put", "want", "ok", "rejected", "done"}]
    /\ ret \in [Procs -> {"none", "ok", "bifurcated", "tail"}]
    /\ soft \in [Callers -> BOOLEAN]
    /\ newHead \in [Procs -> 0..MaxHeight] /\ sbj \in [Procs -> 0..MaxHeight]
    /\ diff \in [Procs -> 0..MaxHeight] /\ arg \in [Procs -> 0..MaxHeight]
    /\ gossips \in 0..MaxGossips /\ calls \in 0..MaxCalls /\ errors \in 0..MaxErrors

Goto(p, l) == ppc' = [ppc EXCEPT ![p] = l]
Forget(p) == sbj' = [sbj EXCEPT ![p] = 0]
Fails == errors < MaxErrors /\ errors' = errors + 1
Highest(a, b) == IF a >= b THEN a ELSE b

\* setLocalHead is called and returns: ret is where to; variables that are dead are cleared.
SetLocalHead(p, h, l) ==
    /\ arg' = [arg EXCEPT ![p] = h]
    /\ ret' = [ret EXCEPT ![p] = l]
    /\ Goto(p, "set")
SetReturn(p) ==
    /\ arg' = [arg EXCEPT ![p] = 0]
    /\ ret' = [ret EXCEPT ![p] = "none"]
    /\ Goto(p, ret[p])

-----------------------------------------------------------------------------
\* Mutant of Accepts: a batch above the head need not be adjacent.
AcceptsGap(first) == cached = 0 \/ first # cached

\* syncStore.Append of the heights first..last accepts a batch on an empty store,
\* below the head, or adjacent to it; anything else is errNonAdjacent.
Accepts(first) == cached = 0 \/ first < cached \/ first = cached + 1

\* The store's own Append: the first header makes the tail, lower ones move it down
\* as far as they are contiguous.
Grow(first, last) ==
    /\ stored' = stored \cup first..last
    /\ tail' = IF tail = 0 THEN first
               ELSE CHOOSE t \in 1..tail : t..tail \subseteq stored' /\ t - 1 \notin stored'
    /\ tailSet' = tailSet

StoreAppend(first, last) ==
    /\ Grow(first, last)
    /\ cached' = IF first < cached THEN cached ELSE last

\* localHead: the pending head is read first, then the store's.
LocalHead == Highest(PendingHead(ranges), cached)

\* header.Verify of a candidate against a trusted head: passes, or fails softly
\* because it is too far; a candidate that is not above the head is known.
Verifies(trusted, h) == h > trusted /\ h - trusted <= TrustDistance

\* Mutant of wantSync: the trigger channel is not buffered.
wantSyncUnbuffered == triggerSync' = (triggerSync \/ lpc = "idle")

\* wantSync: a second signal in the channel of one is dropped.
wantSync == triggerSync' = TRUE

-----------------------------------------------------------------------------
\* syncLoop.

LoopTrigger ==
    /\ started /\ lpc = "idle" /\ triggerSync
    /\ triggerSync' = FALSE
    /\ lpc' = "localHead"
    /\ UNCHANGED <<storeVars, ranges, rangesLk, incomingMu, tailMu, started, subjHead,
                   fromHead, to, held, headers, reqTo, got, failed, procVars, countVars>>

LoopPendingHead ==
    /\ lpc = "localHead" /\ rangesLk = "free"
    /\ subjHead' = PendingHead(ranges)
    /\ lpc' = "storeHead"
    /\ UNCHANGED <<storeVars, sharedVars, started, fromHead, to, held, headers, reqTo, got,
                   failed, procVars, countVars>>

\* The store's head is read twice, for localHead and as where to start from; a
\* head that moves in between makes no difference.
LoopStoreHead ==
    /\ lpc = "storeHead"
    /\ subjHead' = Highest(subjHead, cached)
    /\ fromHead' = cached
    /\ lpc' = "prune"
    /\ UNCHANGED <<storeVars, sharedVars, started, to, held, headers, reqTo, got, failed,
                   procVars, countVars>>

\* Prune, then either nothing to sync or doSync.
LoopPrune ==
    /\ lpc = "prune" /\ rangesLk = "free"
    /\ ranges' = Prune(ranges, fromHead)
    /\ IF fromHead >= subjHead
         THEN lpc' = "idle" /\ fromHead' = 0 /\ to' = to
         ELSE /\ lpc' = "first"
              /\ to' = subjHead
              /\ fromHead' = fromHead
    /\ subjHead' = 0
    /\ UNCHANGED <<storeVars, rangesLk, triggerSync, incomingMu, tailMu, started, failed, held,
                   headers, reqTo, got, procVars, countVars>>

\* processHeaders: the first range, or the final requestHeaders ...
LoopFirst ==
    /\ lpc = "first" /\ rangesLk = "free"
    /\ ranges' = DropEmpty(ranges)
    /\ IF ranges' = <<>>
         THEN lpc' = "request" /\ reqTo' = to /\ headers' = None /\ held' = FALSE
         ELSE lpc' = "get" /\ held' = TRUE /\ UNCHANGED <<reqTo, headers>>
    /\ UNCHANGED <<storeVars, rangesLk, triggerSync, incomingMu, tailMu, started, subjHead,
                   fromHead, to, got, failed, procVars, countVars>>

\* ... what it holds up to the target, and a request for what is missing before it.
LoopGet ==
    /\ lpc = "get"
    /\ LET hs == IF held THEN Get(ranges[1], to) ELSE None
       IN  IF ~held \/ hs[2] < hs[1]
             THEN headers' = None /\ reqTo' = to /\ lpc' = "request"
             ELSE /\ headers' = hs
                  /\ reqTo' = hs[1] - 1
                  /\ lpc' = IF fromHead + 1 # hs[1] THEN "request" ELSE "append"
    /\ UNCHANGED <<storeVars, sharedVars, started, subjHead, fromHead, to, held, got, failed,
                   procVars, countVars>>

\* Mutant of EndSync: the error of processHeaders is dropped.
EndSyncNoError(err) ==
    /\ lpc' = "idle"
    /\ failed' = FALSE
    /\ subjHead' = 0 /\ fromHead' = 0 /\ to' = 0 /\ reqTo' = 0
    /\ held' = FALSE /\ headers' = None /\ got' = None

\* doSync ends, and with it sync.
EndSync(err) ==
    /\ lpc' = "idle"
    /\ failed' = err
    /\ subjHead' = 0 /\ fromHead' = 0 /\ to' = 0 /\ reqTo' = 0
    /\ held' = FALSE /\ headers' = None /\ got' = None

\* requestHeaders: the loop is over, the getter answers with a non-empty prefix of
\* the request, or fails.
RequestDone ==
    /\ lpc = "request" /\ fromHead >= reqTo
    /\ IF headers = None
         THEN EndSync(FALSE)
         ELSE lpc' = "append" /\ UNCHANGED <<subjHead, fromHead, to, held, headers, reqTo,
                                             got, failed>>
    /\ UNCHANGED <<storeVars, sharedVars, started, procVars, countVars>>

\* Mutant of GetRange: a request of full size whatever is missing.
GetRangeFull ==
    /\ lpc = "request" /\ fromHead < reqTo
    /\ got' = <<fromHead + 1, fromHead + RequestSize>>
    /\ lpc' = "requested"
    /\ UNCHANGED <<storeVars, sharedVars, started, subjHead, fromHead, to, held, headers, reqTo,
                   failed, procVars, countVars>>

GetRange ==
    /\ lpc = "request" /\ fromHead < reqTo
    /\ \E n \in 1..RequestSize :
         /\ n <= reqTo - fromHead
         /\ got' = <<fromHead + 1, fromHead + n>>
    /\ lpc' = "requested"
    /\ UNCHANGED <<storeVars, sharedVars, started, subjHead, fromHead, to, held, headers, reqTo,
                   failed, procVars, countVars>>

GetRangeFails ==
    /\ lpc = "request" /\ fromHead < reqTo
    /\ Fails
    /\ EndSync(TRUE)
    /\ UNCHANGED <<storeVars, sharedVars, started, procVars, gossips, calls>>

\* The answer is appended and the rest requested next.
AppendRequested ==
    /\ lpc = "requested" /\ Accepts(got[1])
    /\ StoreAppend(got[1], got[2])
    /\ fromHead' = got[2]
    /\ got' = None /\ lpc' = "request"
    /\ UNCHANGED <<sharedVars, started, subjHead, to, held, headers, reqTo, failed, procVars,
                   countVars>>

\* The cached headers are appended ...
AppendPending ==
    /\ lpc = "append" /\ Accepts(headers[1])
    /\ StoreAppend(headers[1], headers[2])
    /\ lpc' = "remove"
    /\ UNCHANGED <<sharedVars, started, subjHead, fromHead, to, held, headers, reqTo, got, failed,
                   procVars, countVars>>

\* Either append fails: not adjacent any more, or a storage error.
AppendFails ==
    /\ \/ lpc = "requested" /\ ~Accepts(got[1]) /\ errors' = errors
       \/ lpc = "append" /\ ~Accepts(headers[1]) /\ errors' = errors
       \/ lpc \in {"requested", "append"} /\ Fails
    /\ EndSync(TRUE)
    /\ UNCHANGED <<storeVars, sharedVars, started, procVars, gossips, calls>>

\* ... and removed from the range: under its own lock only.
LoopRemove ==
    /\ lpc = "remove"
    /\ ranges' = IF held THEN [ranges EXCEPT ![1] = Remove(ranges[1], to)] ELSE ranges
    /\ fromHead' = headers[2]
    /\ held' = FALSE /\ headers' = None /\ reqTo' = 0
    /\ lpc' = "first"
    /\ UNCHANGED <<storeVars, rangesLk, triggerSync, incomingMu, tailMu, started, subjHead, to,
                   got, failed, procVars, countVars>>

LoopStep ==
    \/ LoopTrigger \/ LoopPendingHead \/ LoopStoreHead \/ LoopPrune
    \/ LoopFirst \/ LoopGet \/ RequestDone \/ GetRange \/ GetRangeFails
    \/ AppendRequested \/ AppendPending \/ AppendFails \/ LoopRemove

-----------------------------------------------------------------------------
\* The calls: a gossiped head reaches the validator, which waits for Start ...
Gossip(p, h) ==
    /\ ppc[p] = "idle" /\ started /\ gossips < MaxGossips
    /\ gossips' = gossips + 1
    /\ newHead' = [newHead EXCEPT ![p] = h]
    /\ Goto(p, "lock")
    /\ UNCHANGED <<storeVars, sharedVars, started, loopVars, ret, soft, sbj, diff, arg,
                   calls, errors>>

\* ... and Head is called, by Start or by a user; subjectiveHead begins with localHead,
\* and that with the pending head.
HeadCall(p) ==
    /\ ppc[p] = "idle" /\ calls < MaxCalls /\ rangesLk = "free"
    /\ calls' = calls + 1
    /\ sbj' = [sbj EXCEPT ![p] = PendingHead(ranges)]
    /\ Goto(p, "head")
    /\ UNCHANGED <<storeVars, sharedVars, started, loopVars, ret, soft, newHead, diff, arg,
                   gossips, errors>>

\* The store's head completes it.
ReadHead(p) ==
    /\ ppc[p] = "head"
    /\ sbj' = [sbj EXCEPT ![p] = Highest(sbj[p], cached)]
    /\ Goto(p, "network")
    /\ UNCHANGED <<storeVars, sharedVars, started, loopVars, ret, soft, newHead, diff, arg,
                   countVars>>

\* A call is over.  Start succeeds when Head did, whose last localHead finds a head.
Finish(p, err) ==
    /\ started' = (started \/ (p = Starter /\ ~err /\ LocalHead # 0))
    /\ Goto(p, "idle")
    /\ ret' = [ret EXCEPT ![p] = "none"]
    /\ newHead' = [newHead EXCEPT ![p] = 0] /\ sbj' = [sbj EXCEPT ![p] = 0]
    /\ diff' = [diff EXCEPT ![p] = 0] /\ arg' = [arg EXCEPT ![p] = 0]

\* The local head is recent, or the exchange has nothing newer: Head returns it.
HeadRecent(p) ==
    /\ ppc[p] = "network" /\ sbj[p] # 0
    /\ Finish(p, FALSE)
    /\ UNCHANGED <<storeVars, sharedVars, loopVars, soft, countVars>>

\* There is no local head or it has expired: the exchange's head is taken, and
\* the tail comes next.
HeadInitialize(p, h) ==
    /\ ppc[p] = "network"
    /\ newHead' = [newHead EXCEPT ![p] = h]
    /\ Forget(p)
    /\ Goto(p, "tail")
    /\ UNCHANGED <<storeVars, sharedVars, started, loopVars, ret, soft, diff, arg, countVars>>

\* The local head is not recent: a higher head of the exchange is set without
\* incomingMu, the exchange having verified it against the local head or, when
\* the request was shared with another caller, against that caller's.
HeadRequest(p, h) ==
    /\ ppc[p] = "network" /\ sbj[p] # 0 /\ h > sbj[p]
    /\ newHead' = [newHead EXCEPT ![p] = h]
    /\ Forget(p)
    /\ SetLocalHead(p, h, "tail")
    /\ UNCHANGED <<storeVars, sharedVars, started, loopVars, soft, diff, countVars>>

\* The exchange reports a soft failure: bifurcate first.
HeadSoftFailure(p, h) ==
    /\ ppc[p] = "network" /\ sbj[p] # 0 /\ h > sbj[p] /\ ~Verifies(sbj[p], h)
    /\ newHead' = [newHead EXCEPT ![p] = h]
    /\ soft' = [soft EXCEPT ![p] = TRUE]
    /\ Forget(p)
    /\ Goto(p, "lock")
    /\ UNCHANGED <<storeVars, sharedVars, started, loopVars, ret, diff, arg, countVars>>

\* The exchange fails: fatal without a local head or with an expired one.
HeadFails(p) ==
    /\ ppc[p] = "network"
    /\ Fails
    /\ \E err \in BOOLEAN : (sbj[p] = 0 => err) /\ Finish(p, err)
    /\ UNCHANGED <<storeVars, sharedVars, loopVars, soft, gossips, calls>>

-----------------------------------------------------------------------------
\* The store's flushLoop has come to the first batch (external).
StoreInit ==
    /\ stored # {} /\ ~tailSet
    /\ tailSet' = TRUE
    /\ UNCHANGED <<cached, stored, tail, sharedVars, started, loopVars, procVars, countVars>>

\* subjectiveTail, called by Head before it offers its head to incomingNetworkHead
\* and by the validator after it did: a store that reports no tail gets one, unless
\* somebody is at it.  A tail that is there stays.
estimateTailHeight(h) == IF Retained >= h THEN 1 ELSE h - Retained
AfterTail(p) == IF p \in Callers THEN "lock" ELSE "done"

TailRead(p) ==
    /\ ppc[p] = "tail"
    /\ Goto(p, IF tailSet THEN AfterTail(p) ELSE "lockTail")
    /\ UNCHANGED <<storeVars, sharedVars, started, loopVars, ret, soft, newHead, sbj, diff, arg,
                   countVars>>

TailTryLock(p) ==
    /\ ppc[p] = "lockTail"
    /\ IF tailMu = "free"
         THEN Goto(p, "fetchTail") /\ tailMu' = p
         ELSE Goto(p, AfterTail(p)) /\ tailMu' = tailMu
    /\ UNCHANGED <<storeVars, ranges, rangesLk, triggerSync, incomingMu, started, loopVars, ret,
                   soft, newHead, sbj, diff, arg, countVars>>

\* renewTail: fetched and appended, past syncStore if it is not adjacent.
TailAppend(p) ==
    /\ ppc[p] = "fetchTail"
    /\ LET t == estimateTailHeight(newHead[p])
       IN  IF Accepts(t) THEN StoreAppend(t, t) ELSE Grow(t, t) /\ cached' = cached
    /\ tailMu' = "free"
    /\ Goto(p, AfterTail(p))
    /\ UNCHANGED <<ranges, rangesLk, triggerSync, incomingMu, started, loopVars, ret, soft,
                   newHead, sbj, diff, arg, countVars>>

\* Head returns the error, and Start with it; the validator logs it.
TailFails(p) ==
    /\ ppc[p] = "fetchTail"
    /\ Fails
    /\ tailMu' = "free"
    /\ Finish(p, TRUE)
    /\ UNCHANGED <<storeVars, ranges, rangesLk, triggerSync, incomingMu, loopVars, soft,
                   gossips, calls>>

-----------------------------------------------------------------------------
\* incomingNetworkHead

\* The lock, and verify's localHead begins.
IncomingLock(p) ==
    /\ ppc[p] = "lock" /\ incomingMu = "free" /\ rangesLk = "free"
    /\ incomingMu' = p
    /\ sbj' = [sbj EXCEPT ![p] = PendingHead(ranges)]
    /\ Goto(p, "verify")
    /\ UNCHANGED <<storeVars, ranges, rangesLk, triggerSync, tailMu, started, loopVars, ret, soft,
                   newHead, diff, arg, countVars>>

\* verify: a known header or an empty store rejects the candidate, a soft failure
\* is bifurcated.
Verify(p) ==
    /\ ppc[p] = "verify"
    /\ LET head == Highest(sbj[p], cached)
       IN  \/ /\ head = 0 \/ newHead[p] <= head
              /\ Forget(p) /\ Goto(p, "rejected") /\ UNCHANGED <<diff, arg, ret>>
           \/ /\ head # 0 /\ Verifies(head, newHead[p])
              /\ Forget(p) /\ SetLocalHead(p, newHead[p], "ok") /\ diff' = diff
           \/ /\ head # 0 /\ newHead[p] > head /\ ~Verifies(head, newHead[p])
              /\ sbj' = [sbj EXCEPT ![p] = head]
              /\ diff' = [diff EXCEPT ![p] = newHead[p] - head]
              /\ Goto(p, "bifurcate") /\ UNCHANGED <<arg, ret>>
    /\ UNCHANGED <<storeVars, sharedVars, started, loopVars, soft, newHead, countVars>>

\* verifyBifurcating: the candidate half way becomes the head, or is too far too; a
\* candidate that is the head itself is known and ends the attempt.
Bifurcate(p) ==
    /\ ppc[p] = "bifurcate"
    /\ LET candidate == sbj[p] + diff[p] \div 2
       IN  \/ /\ Verifies(sbj[p], candidate)
              /\ sbj' = [sbj EXCEPT ![p] = candidate]
              /\ diff' = [diff EXCEPT ![p] = 0]
              /\ SetLocalHead(p, candidate, "bifurcated")
           \/ /\ ~Verifies(sbj[p], candidate)
              /\ diff' = [diff EXCEPT ![p] = @ \div 2]
              /\ Goto(p, IF candidate = sbj[p] THEN "rejected" ELSE "bifurcate")
              /\ UNCHANGED <<sbj, arg, ret>>
    /\ UNCHANGED <<storeVars, sharedVars, started, loopVars, soft, newHead, countVars>>

BifurcateFails(p) ==
    /\ ppc[p] = "bifurcate"
    /\ Fails
    /\ Goto(p, "rejected")
    /\ UNCHANGED <<storeVars, sharedVars, started, loopVars, ret, soft, newHead, sbj, diff,
                   arg, gossips, calls>>

\* The new head against the adopted candidate, else the upper half; the check for a
\* distance of one is never met, since adjacent headers verify.
Bifurcated(p) ==
    /\ ppc[p] = "bifurcated"
    /\ \/ /\ Verifies(sbj[p], newHead[p])
          /\ Forget(p) /\ SetLocalHead(p, newHead[p], "ok") /\ diff' = diff
       \/ /\ ~Verifies(sbj[p], newHead[p])
          /\ diff' = [diff EXCEPT ![p] = newHead[p] - sbj[p]]
          /\ Goto(p, "bifurcate") /\ UNCHANGED <<sbj, arg, ret>>
    /\ UNCHANGED <<storeVars, sharedVars, started, loopVars, soft, newHead, countVars>>

-----------------------------------------------------------------------------
\* setLocalHead

\* The head is appended if the store takes it, an error being logged only.
SetAppend(p) ==
    /\ ppc[p] = "set"
    /\ \/ Accepts(arg[p]) /\ StoreAppend(arg[p], arg[p]) /\ errors' = errors
       \/ ~Accepts(arg[p]) /\ UNCHANGED <<storeVars, errors>>
       \/ Fails /\ UNCHANGED storeVars
    /\ Goto(p, "check")
    /\ UNCHANGED <<sharedVars, started, loopVars, ret, soft, newHead, sbj, diff, arg,
                   gossips, calls>>

\* A head the store has reached is not a target.
SetCheck(p) ==
    /\ ppc[p] = "check"
    /\ IF cached >= arg[p]
         THEN arg' = [arg EXCEPT ![p] = cached] /\ Goto(p, "prune")
         ELSE arg' = arg /\ Goto(p, "add")
    /\ UNCHANGED <<storeVars, sharedVars, started, loopVars, ret, soft, newHead, sbj, diff,
                   countVars>>

SetPrune(p) ==
    /\ ppc[p] = "prune" /\ rangesLk = "free"
    /\ ranges' = Prune(ranges, arg[p])
    /\ held' = (held /\ ~Empty(Remove(ranges[1], arg[p])))
    /\ SetReturn(p)
    /\ UNCHANGED <<storeVars, rangesLk, triggerSync, incomingMu, tailMu, started, lpc, subjHead,
                   fromHead, to, headers, reqTo, got, failed, soft, newHead, sbj, diff, countVars>>

\* pending.Add: a header from the past is ignored, one that is adjacent to the
\* head just read goes to the last range in the next step, any other one
\* starts a range.
SetAdd(p) ==
    /\ ppc[p] = "add" /\ rangesLk = "free"
    /\ \/ /\ AddIgnores(ranges, arg[p])
          /\ Goto(p, "want") /\ UNCHANGED <<ranges, rangesLk>>
       \/ /\ AddExtends(ranges, arg[p])
          /\ rangesLk' = p
          /\ Goto(p, "put") /\ UNCHANGED ranges
       \/ /\ ~AddIgnores(ranges, arg[p]) /\ ~AddExtends(ranges, arg[p])
          /\ ranges' = Append(ranges, newRange(arg[p]))
          /\ Goto(p, "want") /\ UNCHANGED rangesLk
    /\ UNCHANGED <<storeVars, triggerSync, incomingMu, tailMu, started, loopVars, ret, soft,
                   newHead, sbj, diff, arg, countVars>>

SetPut(p) ==
    /\ ppc[p] = "put"
    /\ ranges' = [ranges EXCEPT ![Len(ranges)] = AppendTo(@, arg[p])]
    /\ rangesLk' = "free"
    /\ Goto(p, "want")
    /\ UNCHANGED <<storeVars, triggerSync, incomingMu, tailMu, started, loopVars, ret, soft,
                   newHead, sbj, diff, arg, countVars>>

SetWant(p) ==
    /\ ppc[p] = "want"
    /\ wantSync
    /\ SetReturn(p)
    /\ UNCHANGED <<storeVars, ranges, rangesLk, incomingMu, tailMu, started, loopVars, soft,
                   newHead, sbj, diff, countVars>>

-----------------------------------------------------------------------------
\* incomingNetworkHead returns: networkHead sets the head it asked about, the validator
\* looks at the tail, for Head the call is over.
SetRequested(p) ==
    /\ ppc[p] = "ok" /\ p \in Callers /\ soft[p]
    /\ incomingMu' = "free"
    /\ soft' = [soft EXCEPT ![p] = FALSE]
    /\ SetLocalHead(p, newHead[p], "tail")
    /\ UNCHANGED <<storeVars, ranges, rangesLk, triggerSync, tailMu, started, loopVars, newHead,
                   sbj, diff, countVars>>

GossipAccepted(p) ==
    /\ ppc[p] = "ok" /\ p \in Validators
    /\ incomingMu' = "free"
    /\ Goto(p, "tail")
    /\ UNCHANGED <<storeVars, ranges, rangesLk, triggerSync, tailMu, started, loopVars, ret, soft,
                   newHead, sbj, diff, arg, countVars>>

GossipDone(p) ==
    /\ ppc[p] = "done"
    /\ Finish(p, FALSE)
    /\ UNCHANGED <<storeVars, sharedVars, loopVars, soft, countVars>>

\* Mutant of IncomingReturn: incomingMu stays locked after a rejection.
IncomingReturnLocked(p) ==
    /\ ppc[p] = "rejected" \/ (ppc[p] = "ok" /\ p \in Callers /\ ~soft[p])
    /\ incomingMu' = IF ppc[p] = "rejected" THEN incomingMu ELSE "free"
    /\ soft' = [c \in Callers |-> soft[c] /\ c # p]
    /\ Finish(p, FALSE)
    /\ UNCHANGED <<storeVars, ranges, rangesLk, triggerSync, tailMu, loopVars, countVars>>

IncomingReturn(p) ==
    /\ ppc[p] = "rejected" \/ (ppc[p] = "ok" /\ p \in Callers /\ ~soft[p])
    /\ incomingMu' = "free"
    /\ soft' = [c \in Callers |-> soft[c] /\ c # p]
    /\ Finish(p, FALSE)
    /\ UNCHANGED <<storeVars, ranges, rangesLk, triggerSync, tailMu, loopVars, countVars>>

ProcStep(p) ==
    \/ ReadHead(p) \/ HeadRecent(p) \/ HeadFails(p)
    \/ \E h \in NetworkHeads :
         HeadInitialize(p, h) \/ HeadRequest(p, h) \/ HeadSoftFailure(p, h)
    \/ TailRead(p) \/ TailTryLock(p) \/ TailAppend(p) \/ TailFails(p)
    \/ IncomingLock(p) \/ Verify(p) \/ Bifurcate(p) \/ BifurcateFails(p) \/ Bifurcated(p)
    \/ SetAppend(p) \/ SetCheck(p) \/ SetPrune(p) \/ SetAdd(p) \/ SetPut(p) \/ SetWant(p)
    \/ SetRequested(p) \/ IncomingReturn(p)
    \/ GossipAccepted(p) \/ GossipDone(p)

Init ==
    /\ cached \in InitialHeads
    /\ stored = 1..cached
    /\ tailSet = (cached # 0) /\ tail = IF cached = 0 THEN 0 ELSE 1
    /\ ranges = <<>> /\ rangesLk = "free" /\ triggerSync = FALSE
    /\ started = FALSE /\ incomingMu = "free" /\ tailMu = "free"
    /\ lpc = "idle" /\ subjHead = 0 /\ fromHead = 0 /\ to = 0 /\ held = FALSE
    /\ headers = None /\ reqTo = 0 /\ got = None /\ failed = FALSE
    /\ ppc = [p \in Procs |-> "idle"] /\ ret = [p \in Procs |-> "none"]
    /\ soft = [p \in Callers |-> FALSE]
    /\ newHead = [p \in Procs |-> 0] /\ sbj = [p \in Procs |-> 0]
    /\ diff = [p \in Procs |-> 0] /\ arg = [p \in Procs |-> 0]
    /\ gossips = 0 /\ calls = 0 /\ errors = 0

Next ==
    \/ LoopStep \/ StoreInit
    \/ \E p \in Validators, h \in GossipHeads : Gossip(p, h)
    \/ \E p \in Callers : HeadCall(p)
    \/ \E p \in Procs : ProcStep(p)

Spec == Init /\ [][Next]_vars

\* syncLoop and every goroutine inside a call keep being scheduled; no call,
\* message or failure is assumed to come.
FairSpec ==
    /\ Spec
    /\ WF_vars(LoopStep)
    /\ \A p \in Procs : WF_vars(ProcStep(p))

-----------------------------------------------------------------------------
\* Correctness.

\* "otherwise syncer skips the failed heights" (sync_store.go): whatever order heads,
\* tails, requests and appends come in, the store was given every height between its
\* tail and the Syncer's head.
NothingMissing == cached # 0 => tail..cached \subseteq stored

\* "sync ensures we are synced from the Store's head up to the new subjective head"
\* (syncer.go): when it ends without an error the store was given every height from its
\* tail to the target, however short the getter's answers and wherever the head moved.
SyncReachesTarget ==
    [][(lpc # "idle" /\ lpc' = "idle" /\ to # 0 /\ ~failed')
            => tail'..to \subseteq stored']_vars

\* "localHead reports the current highest locally known head" (syncer_head.go): a
\* head that was adopted is never forgotten, so the local head does not move back.
LocalHeadNeverRegresses ==
    [][Highest(PendingHead(ranges'), cached') >= LocalHead]_vars

\* A target above the Syncer's head is eventually reached, unless a sync has failed:
\* no trigger gets lost between wantSync and syncLoop.
TargetReached ==
    (started /\ PendingHead(ranges) > cached) ~> (PendingHead(ranges) <= cached \/ failed)

\* The validator and Head return, incomingMu is not left locked.
CallsReturn == (\E p \in Procs : ppc[p] # "idle") ~> (\A p \in Procs : ppc[p] = "idle")
=============================================================================
