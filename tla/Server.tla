------------------------------- MODULE Server -------------------------------
(***************************************************************************)
(* p2p.ExchangeServer (src/p2p/server.go): the stream handler of each of    *)
(* several nodes, reading a store that is appended to and pruned while it   *)
(* reads.  Every access to the store is a step of its own, the opening of   *)
(* the read transaction of GetRange included.                               *)
(*                                                                          *)
(* A server is on the chain Fork gives it, and its header at a height is    *)
(* told from those of other chains by that.  The store is what Chain        *)
(* promises of it: headers arrive in pending and are flushed later.  It is  *)
(* pruned in the two steps StoreDelete shows: headers go first, the tail    *)
(* follows; only headers that are not pending are pruned.                   *)
(***************************************************************************)
EXTENDS Integers, Sequences, FiniteSets

CONSTANTS
    Servers,     \* the nodes
    Fork,        \* the chain each of them is on, a number from 1
    Stores,      \* what the stores may be at the beginning
    MaxHeight,   \* bound on the chains
    RangeLimit,  \* header.MaxRangeRequestSize
    Width,       \* 2^64: heights and amounts are unsigned
    MaxChanges   \* bound on appends and prunings together

Store == [low : 0..MaxHeight, tail : 0..MaxHeight, flushed : 0..MaxHeight, head : 0..MaxHeight]

ASSUME ServerAssumption ==
    /\ IsFiniteSet(Servers)
    /\ MaxHeight \in Nat /\ RangeLimit \in Nat /\ Width \in Nat /\ MaxChanges \in Nat
    /\ MaxHeight + 1 < Width
    /\ Stores \subseteq [Servers -> Store]
    /\ \A s \in Stores : \A p \in Servers :
          /\ s[p].low = s[p].tail /\ s[p].tail <= s[p].flushed + 1 /\ s[p].tail <= s[p].head
          /\ s[p].flushed <= s[p].head
          /\ (s[p].low = 0) = (s[p].head = 0)
    /\ Fork \in [Servers -> Nat]

VARIABLES
    store,    \* per server: lowest header it has, tail pointer, highest persisted, head; 0 when empty
    changes,  \* how often the stores have changed
    hpc,      \* where the handler of each server is
    req,      \* its request
    upto,     \* `to' of handleRangeRequest
    snap,     \* what the read transaction of GetRange sees of the datastore
    at,       \* the header GetRange has reached on its way down
    headThen, \* history: the store's head when the request was received
    late,     \* history: the request ran into its deadline
    resp      \* what it wrote: status, first and last height

handlerVars == <<hpc, req, upto, snap, at, headThen, late, resp>>
serverVars == <<store, changes, handlerVars>>

\* A request for `amount' headers from `origin' on (0: the head), or for the
\* header with a hash, which stands for its height and chain.
NoRequest == [kind |-> "none", origin |-> 0, amount |-> 0, fork |-> 0]
RangeRequest(o, n) == [kind |-> "range", origin |-> o, amount |-> n, fork |-> 0]
HashRequest(h, f) == [kind |-> "hash", origin |-> h, amount |-> 1, fork |-> f]

\* A transaction sees the headers from lo to hi, or there is none.
NoTransaction == [open |-> FALSE, lo |-> 0, hi |-> 0]
Transaction(lo, hi) == [open |-> TRUE, lo |-> lo, hi |-> hi]

NoResponse == [status |-> "none", first |-> 0, last |-> 0]
OK(lo, hi) == [status |-> "ok", first |-> lo, last |-> hi]
NotFound == [status |-> "notFound", first |-> 0, last |-> 0]
StreamReset == [status |-> "reset", first |-> 0, last |-> 0]

Serving == {"tail", "hasHead", "hasTail", "head", "open", "last", "walk"}

\* Past its checks a handler works on a range that is not empty and within the
\* limit, whatever amount was asked for.
ServerTypeOK ==
    /\ store \in [Servers -> Store]
    /\ changes \in 0..MaxChanges
    /\ hpc \in [Servers -> {"idle", "received"} \cup Serving]
    /\ snap \in [Servers -> [open : BOOLEAN, lo : 0..MaxHeight, hi : 0..MaxHeight]]
    /\ late \in [Servers -> BOOLEAN]
    /\ \A p \in Servers : /\ req[p].origin \in 0..Width - 1 /\ upto[p] \in 0..Width - 1
                          /\ at[p] \in 0..MaxHeight /\ headThen[p] \in 0..MaxHeight
                          /\ resp[p].status \in {"none", "ok", "notFound", "reset"}
                          /\ resp[p].last \in 0..MaxHeight
                          /\ hpc[p] \in Serving =>
                                upto[p] - req[p].origin \in 1..RangeLimit

ServerInit ==
    /\ store \in Stores
    /\ changes = 0
    /\ hpc = [p \in Servers |-> "idle"] /\ req = [p \in Servers |-> NoRequest]
    /\ upto = [p \in Servers |-> 0] /\ at = [p \in Servers |-> 0]
    /\ snap = [p \in Servers |-> NoTransaction]
    /\ headThen = [p \in Servers |-> 0] /\ late = [p \in Servers |-> FALSE]
    /\ resp = [p \in Servers |-> NoResponse]

-----------------------------------------------------------------------------
\* The stores.

Change == changes < MaxChanges /\ changes' = changes + 1

StoreGrows(p) ==
    /\ Change
    /\ store[p].head < MaxHeight
    /\ store' = [store EXCEPT ![p] = [low |-> IF @.low = 0 THEN 1 ELSE @.low,
                                      tail |-> IF @.tail = 0 THEN 1 ELSE @.tail,
                                      flushed |-> @.flushed,
                                      head |-> @.head + 1]]
    /\ UNCHANGED handlerVars

\* flushLoop commits what is pending and then resets it: a header is in the
\* datastore before it leaves pending, so the two are one step for readers.
StoreFlushes(p) ==
    /\ store[p].flushed < store[p].head
    /\ store' = [store EXCEPT ![p].flushed = store[p].head]
    /\ UNCHANGED <<changes, handlerVars>>

\* DeleteRange commits the deletion of the headers below h ...
StorePrunes(p, h) ==
    /\ Change
    /\ store[p].low = store[p].tail
    /\ store[p].low < h /\ h <= store[p].head /\ h <= store[p].flushed + 1
    /\ store' = [store EXCEPT ![p].low = h]
    /\ UNCHANGED handlerVars

\* ... and then sets the tail.
StoreSetsTail(p) ==
    /\ store[p].tail # store[p].low
    /\ store' = [store EXCEPT ![p].tail = store[p].low]
    /\ UNCHANGED <<changes, handlerVars>>

Has(p, h) == store[p].low # 0 /\ h \in store[p].low..store[p].head

Pending(p, h) == h \in (store[p].flushed + 1)..store[p].head
Persisted(p, h) == store[p].low # 0 /\ h \in store[p].low..store[p].flushed

\* Mutant of Readable: pending is not looked at.
ReadablePersisted(p, h) ==
    IF snap[p].open THEN h \in snap[p].lo..snap[p].hi ELSE Persisted(p, h)

\* Get by hash reads pending as it is now, and the datastore as it was when the
\* transaction was opened, if there is one.
Readable(p, h) ==
    Pending(p, h) \/ IF snap[p].open THEN h \in snap[p].lo..snap[p].hi ELSE Persisted(p, h)

\* GetByHeight also finds the headers the pointers hold.
Pointed(p, h) == h # 0 /\ h \in {store[p].head, store[p].tail}

-----------------------------------------------------------------------------
\* requestHandler.

Goto(p, label) == hpc' = [hpc EXCEPT ![p] = label] /\ UNCHANGED resp

Respond(p, r) ==
    /\ hpc' = [hpc EXCEPT ![p] = "idle"]
    /\ resp' = [resp EXCEPT ![p] = r]

stays == <<store, changes, req, snap, headThen, late>>

\* handleRequestByHash
ServeHash(p) ==
    /\ hpc[p] = "received" /\ req[p].kind = "hash"
    /\ Respond(p, IF Has(p, req[p].origin) /\ Fork[p] = req[p].fork
                    THEN OK(req[p].origin, req[p].origin) ELSE NotFound)
    /\ UNCHANGED <<stays, upto, at>>

\* pbreq.GetOrigin()+pbreq.Amount on 64 bits
To(p) == (req[p].origin + req[p].amount) % Width

\* Mutant of ServeRange: the range may end before it starts, and its length is
\* subtracted on 64 bits.
ServeRangeUnguarded(p) ==
    /\ hpc[p] = "received" /\ req[p].kind = "range"
    /\ upto' = [upto EXCEPT ![p] = To(p)]
    /\ CASE req[p].origin = 0 ->
              Respond(p, IF store[p].head = 0 THEN StreamReset
                         ELSE OK(store[p].head, store[p].head))
         [] req[p].origin # 0 /\ (To(p) - req[p].origin) % Width > RangeLimit ->
              Respond(p, StreamReset)
         [] OTHER -> Goto(p, "tail")
    /\ UNCHANGED <<stays, at>>

\* handleRangeRequest and handleHeadRequest up to the first read of the tail.
\* ErrRangeMixUp, ErrHeadersLimitExceeded and an empty store reset the stream.
ServeRange(p) ==
    /\ hpc[p] = "received" /\ req[p].kind = "range"
    /\ upto' = [upto EXCEPT ![p] = To(p)]
    /\ CASE req[p].origin >= To(p) -> Respond(p, StreamReset)
         [] req[p].origin < To(p) /\ req[p].origin = 0 ->
              Respond(p, IF store[p].head = 0 THEN StreamReset
                         ELSE OK(store[p].head, store[p].head))
         [] req[p].origin < To(p) /\ req[p].origin # 0 /\ To(p) - req[p].origin > RangeLimit ->
              Respond(p, StreamReset)
         [] OTHER -> Goto(p, "tail")
    /\ UNCHANGED <<stays, at>>

ReadTail(p) ==
    /\ hpc[p] = "tail"
    /\ CASE store[p].tail = 0 -> Respond(p, StreamReset)
         [] store[p].tail # 0 /\ req[p].origin < store[p].tail -> Respond(p, NotFound)
         [] OTHER -> Goto(p, "hasHead")
    /\ UNCHANGED <<stays, upto, at>>

\* HasAt(to-1): load the head ...
HasAtHead(p) ==
    /\ hpc[p] = "hasHead"
    /\ Goto(p, IF store[p].head >= upto[p] - 1 THEN "hasTail" ELSE "head")
    /\ UNCHANGED <<stays, upto, at>>

\* ... and the tail.
HasAtTail(p) ==
    /\ hpc[p] = "hasTail"
    /\ Goto(p, IF upto[p] - 1 >= store[p].tail THEN "open" ELSE "head")
    /\ UNCHANGED <<stays, upto, at>>

\* A partial range is served up to the head.
ReadHead(p) ==
    /\ hpc[p] = "head"
    /\ IF store[p].head < req[p].origin THEN Respond(p, NotFound) ELSE Goto(p, "open")
    /\ upto' = [upto EXCEPT ![p] = IF store[p].head + 1 < @ THEN store[p].head + 1 ELSE @]
    /\ UNCHANGED <<stays, at>>

\* GetRange opens a read transaction, unless the datastore has none to give.
OpenTransaction(p) ==
    /\ hpc[p] = "open"
    /\ Goto(p, "last")
    /\ \E s \in {NoTransaction, Transaction(store[p].low, store[p].flushed)} :
          snap' = [snap EXCEPT ![p] = s]
    /\ UNCHANGED <<store, changes, req, upto, at, headThen, late>>

\* GetRange: GetByHeight of the last header.  The cache may have a header of the
\* store that is in neither of the places Get reads.
GetLast(p) ==
    /\ hpc[p] = "last"
    /\ \/ /\ Pointed(p, upto[p] - 1) \/ Readable(p, upto[p] - 1) \/ Has(p, upto[p] - 1)
          /\ Goto(p, "walk")
          /\ at' = [at EXCEPT ![p] = upto[p] - 1]
       \/ /\ ~Pointed(p, upto[p] - 1) /\ ~Readable(p, upto[p] - 1)
          /\ Respond(p, NotFound)
          /\ UNCHANGED at
    /\ UNCHANGED <<stays, upto>>

\* GetRange: Get by LastHeader down to `from'.
GetPrevious(p) ==
    /\ hpc[p] = "walk" /\ at[p] > req[p].origin
    /\ \/ /\ Readable(p, at[p] - 1) \/ Has(p, at[p] - 1)
          /\ Goto(p, "walk")
          /\ at' = [at EXCEPT ![p] = @ - 1]
       \/ /\ ~Readable(p, at[p] - 1)
          /\ Respond(p, NotFound)
          /\ UNCHANGED at
    /\ UNCHANGED <<stays, upto>>

\* GetRange runs into the deadline of the request, which is answered like a
\* missing header.
DeadlineExceeded(p) ==
    /\ hpc[p] \in {"last", "walk"}
    /\ Respond(p, NotFound)
    /\ late' = [late EXCEPT ![p] = TRUE]
    /\ UNCHANGED <<store, changes, req, upto, snap, at, headThen>>

\* Any other error of a read resets the stream; for a hash also the deadline.
ReadFails(p) ==
    /\ hpc[p] \in {"last", "walk"} \/ (hpc[p] = "received" /\ req[p].kind = "hash")
    /\ Respond(p, StreamReset)
    /\ UNCHANGED <<stays, upto, at>>

WriteRange(p) ==
    /\ hpc[p] = "walk" /\ at[p] = req[p].origin
    /\ Respond(p, OK(req[p].origin, upto[p] - 1))
    /\ UNCHANGED <<stays, upto, at>>

HandlerStep(p) ==
    \/ ServeHash(p) \/ ServeRange(p)
    \/ ReadTail(p) \/ HasAtHead(p) \/ HasAtTail(p) \/ ReadHead(p)
    \/ OpenTransaction(p) \/ GetLast(p) \/ GetPrevious(p) \/ WriteRange(p)
    \/ DeadlineExceeded(p) \/ ReadFails(p)

StoreStep(p) ==
    \/ StoreGrows(p) \/ StoreSetsTail(p)
    \/ \E h \in 2..MaxHeight : StorePrunes(p, h)

-----------------------------------------------------------------------------
\* A header of the range was flushed after the transaction was opened: it has left
\* pending, and the transaction does not see it.
FlushedBehind(p) ==
    /\ snap[p].open
    /\ \E h \in req[p].origin..MaxHeight :
          h < upto[p] /\ snap[p].hi < h /\ h <= store[p].flushed

\* What a peer may conclude from an answer, however the store was appended to, flushed
\* and pruned while the handler read it.  A range is never sparse or misplaced: it
\* starts at the origin, and is shorter than asked for only when the store ended
\* there at some moment of the request.  NOT_FOUND is said of a range whose first header
\* the server had all the time only at the deadline, or when a flush moved headers of
\* the range from pending to the datastore behind the transaction that reads them.
HonestAnswers ==
    \A p \in Servers : (req[p].kind = "range" /\ req[p].origin > 0) =>
        /\ resp[p].status = "ok" =>
              /\ resp[p].first = req[p].origin /\ resp[p].first <= resp[p].last
              /\ resp[p].last < req[p].origin + req[p].amount
              /\ resp[p].last < req[p].origin + req[p].amount - 1 =>
                    resp[p].last \in headThen[p]..store[p].head
        /\ resp[p].status = "notFound" =>
              \/ req[p].origin > headThen[p] \/ req[p].origin < store[p].low
              \/ late[p] \/ FlushedBehind(p)
=============================================================================
