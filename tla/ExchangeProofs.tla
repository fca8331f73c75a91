--------------------------- MODULE ExchangeProofs ---------------------------
(***************************************************************************)
(* Proofs about modules Server and Exchange, for every finite set of        *)
(* servers, whatever chains they are on, and every width of the heights.    *)
(*                                                                          *)
(* On the server's side the invariant follows the handler: what it has read *)
(* of the store so far still bounds what the store holds, because the head  *)
(* only grows and the lowest header only rises.  On the client's side it    *)
(* says what every pushed answer is worth, and what the answers collected   *)
(* so far cannot have been, as Head did not return on them.                 *)
(***************************************************************************)
EXTENDS Exchange, TLAPS, FiniteSetTheorems

Request == [kind : {"none", "range", "hash"}, origin : 0..Width - 1, amount : 0..Width - 1, fork : Nat]
Response == [status : {"none", "ok", "notFound", "reset"}, first : 0..Width - 1, last : 0..MaxHeight]
Labels == {"idle", "received", "tail", "hasHead", "hasTail", "head", "open", "last", "walk"}
Snapshot == [open : BOOLEAN, lo : 0..MaxHeight, hi : 0..MaxHeight]

StoreType == store \in [Servers -> Store]

ServerType ==
    /\ StoreType
    /\ changes \in 0..MaxChanges
    /\ hpc \in [Servers -> Labels]
    /\ req \in [Servers -> Request]
    /\ upto \in [Servers -> 0..Width - 1]
    /\ snap \in [Servers -> Snapshot]
    /\ late \in [Servers -> BOOLEAN]
    /\ at \in [Servers -> 0..MaxHeight]
    /\ headThen \in [Servers -> 0..MaxHeight]
    /\ resp \in [Servers -> Response]

\* A store is empty or a range; between the two steps of a pruning the tail
\* pointer is below the lowest header.
StoreOK(p) ==
    /\ store[p].tail <= store[p].low /\ store[p].low <= store[p].head
    /\ store[p].head = 0 <=> store[p].low = 0
    /\ store[p].tail = 0 <=> store[p].low = 0

\* What the handler knows at each of its steps.
HandlerOK(p) ==
    /\ headThen[p] <= store[p].head
    /\ snap[p].open => snap[p].lo <= store[p].low
    /\ hpc[p] # "idle" => req[p].kind # "none" /\ resp[p] = NoResponse
    /\ hpc[p] \notin {"idle", "received"} =>
          req[p].kind = "range" /\ 0 < req[p].origin /\ req[p].origin < upto[p]
          /\ upto[p] - req[p].origin <= RangeLimit
    /\ hpc[p] \in {"tail", "hasHead", "hasTail", "head"} =>
          upto[p] = req[p].origin + req[p].amount
    /\ hpc[p] = "hasTail" => upto[p] - 1 <= store[p].head
    /\ hpc[p] \in {"open", "last", "walk"} =>
          /\ upto[p] - 1 <= store[p].head
          /\ upto[p] <= req[p].origin + req[p].amount
          /\ upto[p] < req[p].origin + req[p].amount => headThen[p] <= upto[p] - 1
    /\ hpc[p] = "walk" => req[p].origin <= at[p] /\ at[p] <= upto[p] - 1

\* HonestAnswers, for one server.
Honest(p) ==
    (req[p].kind = "range" /\ req[p].origin > 0) =>
        /\ resp[p].status = "ok" =>
              /\ resp[p].first = req[p].origin /\ resp[p].first <= resp[p].last
              /\ resp[p].last < req[p].origin + req[p].amount
              /\ resp[p].last < req[p].origin + req[p].amount - 1 =>
                    resp[p].last \in headThen[p]..store[p].head
        /\ resp[p].status = "notFound" =>
              \/ req[p].origin > headThen[p] \/ req[p].origin < store[p].low
              \/ late[p] \/ FlushedBehind(p)

\* A hash is answered by the header that has it.
HashOK(p) ==
    (req[p].kind = "hash" /\ resp[p].status = "ok") =>
        resp[p].first = req[p].origin /\ Fork[p] = req[p].fork

ServerOK(p) == StoreOK(p) /\ HandlerOK(p) /\ Honest(p) /\ HashOK(p)
ServerInv == ServerType /\ \A p \in Servers : ServerOK(p)

-----------------------------------------------------------------------------
\* The stores.

\* What the stores may do to a server: the head, the highest persisted and the lowest header rise.
Evolves(p) ==
    /\ StoreOK(p)' /\ store'[p].head >= store[p].head /\ store'[p].low >= store[p].low
    /\ store'[p].flushed >= store[p].flushed
    /\ UNCHANGED <<hpc, req, upto, snap, at, headThen, late, resp>>

\* One store is replaced by one that is wider or pruned, and no handler moves.
LEMMA StoreReplaced ==
    ASSUME ServerInv, NEW p \in Servers, NEW new \in Store,
           store' = [store EXCEPT ![p] = new],
           new.low >= store[p].low, new.head >= store[p].head, new.flushed >= store[p].flushed,
           new.tail <= new.low, new.low <= new.head,
           new.head = 0 <=> new.low = 0, new.tail = 0 <=> new.low = 0,
           UNCHANGED <<hpc, req, upto, snap, at, headThen, late, resp>>
    PROVE  StoreType' /\ \A q \in Servers : Evolves(q)
<1> USE DEF ServerInv, ServerType, StoreType, ServerOK, StoreOK, Evolves
<1>1. StoreType' /\ store'[p] = new /\ \A q \in Servers : q # p => store'[q] = store[q]
  OBVIOUS
<1>2. Evolves(p)
  BY <1>1
<1>3. \A q \in Servers : q # p => Evolves(q)
  BY <1>1 DEF Store
<1> QED
  BY <1>1, <1>2, <1>3

\* An append, a flush or a pruning keeps the types of the stores and only widens what a handler may find.
LEMMA StoreEvolves ==
    ASSUME ServerInv, NEW p \in Servers, StoreStep(p) \/ StoreFlushes(p)
    PROVE  /\ StoreType' /\ changes' \in 0..MaxChanges
           /\ \A q \in Servers : Evolves(q)
<1> DEFINE old == store[p]
<1>1. /\ old \in Store /\ changes \in 0..MaxChanges
      /\ old.tail <= old.low /\ old.low <= old.head
      /\ (old.head = 0 <=> old.low = 0) /\ (old.tail = 0 <=> old.low = 0)
      /\ store \in [Servers -> Store]
  BY DEF ServerInv, ServerType, StoreType, ServerOK, StoreOK
<1>2. CASE StoreGrows(p)
  <2> DEFINE new == [low |-> IF old.low = 0 THEN 1 ELSE old.low,
                     tail |-> IF old.tail = 0 THEN 1 ELSE old.tail,
                     flushed |-> old.flushed,
                     head |-> old.head + 1]
  <2>1. store' = [store EXCEPT ![p] = new]
    BY <1>2, <1>1 DEF StoreGrows
  <2>2. changes' \in 0..MaxChanges /\ UNCHANGED <<hpc, req, upto, snap, at, headThen, late, resp>>
    BY <1>1, <1>2, ServerAssumption DEF StoreGrows, Change, handlerVars
  <2>3. /\ new \in Store /\ new.low >= old.low /\ new.head >= old.head /\ new.flushed >= old.flushed
        /\ new.tail <= new.low /\ new.low <= new.head
        /\ (new.head = 0 <=> new.low = 0) /\ (new.tail = 0 <=> new.low = 0)
    BY <1>1, <1>2, ServerAssumption DEF StoreGrows, Store
  <2> QED  BY <2>1, <2>2, <2>3, StoreReplaced
<1>3. CASE StoreSetsTail(p)
  <2> DEFINE new == [old EXCEPT !.tail = old.low]
  <2>1. store' = [store EXCEPT ![p] = new]
    BY <1>1, <1>3 DEF StoreSetsTail
  <2>2. changes' \in 0..MaxChanges /\ UNCHANGED <<hpc, req, upto, snap, at, headThen, late, resp>>
    BY <1>1, <1>3 DEF StoreSetsTail, handlerVars
  <2>3. /\ new \in Store /\ new.low >= old.low /\ new.head >= old.head /\ new.flushed >= old.flushed
        /\ new.tail <= new.low /\ new.low <= new.head
        /\ (new.head = 0 <=> new.low = 0) /\ (new.tail = 0 <=> new.low = 0)
    BY <1>1, ServerAssumption DEF Store
  <2> QED  BY <2>1, <2>2, <2>3, StoreReplaced
<1>4. ASSUME NEW h \in 2..MaxHeight, StorePrunes(p, h)
      PROVE  /\ StoreType' /\ changes' \in 0..MaxChanges
             /\ \A q \in Servers : Evolves(q)
  <2> DEFINE new == [old EXCEPT !.low = h]
  <2>1. store' = [store EXCEPT ![p] = new] /\ old.low = old.tail /\ old.low < h /\ h <= old.head /\ h <= old.flushed + 1
    BY <1>1, <1>4 DEF StorePrunes
  <2>2. changes' \in 0..MaxChanges /\ UNCHANGED <<hpc, req, upto, snap, at, headThen, late, resp>>
    BY <1>1, <1>4, ServerAssumption DEF StorePrunes, Change, handlerVars
  <2>3. /\ new \in Store /\ new.low >= old.low /\ new.head >= old.head /\ new.flushed >= old.flushed
        /\ new.tail <= new.low /\ new.low <= new.head
        /\ (new.head = 0 <=> new.low = 0) /\ (new.tail = 0 <=> new.low = 0)
    BY <1>1, <2>1, ServerAssumption DEF Store
  <2> QED  BY <2>1, <2>2, <2>3, StoreReplaced
<1>5. CASE StoreFlushes(p)
  <2> DEFINE new == [old EXCEPT !.flushed = old.head]
  <2>1. store' = [store EXCEPT ![p] = new] /\ old.flushed < old.head
    BY <1>1, <1>5 DEF StoreFlushes
  <2>2. changes' \in 0..MaxChanges /\ UNCHANGED <<hpc, req, upto, snap, at, headThen, late, resp>>
    BY <1>1, <1>5 DEF StoreFlushes, handlerVars
  <2>3. /\ new \in Store /\ new.low >= old.low /\ new.head >= old.head /\ new.flushed >= old.flushed
        /\ new.tail <= new.low /\ new.low <= new.head
        /\ (new.head = 0 <=> new.low = 0) /\ (new.tail = 0 <=> new.low = 0)
    BY <1>1, <2>1, ServerAssumption DEF Store
  <2> QED  BY <2>1, <2>2, <2>3, StoreReplaced
<1> QED
  BY <1>2, <1>3, <1>4, <1>5 DEF StoreStep

\* A store that changes under a handler leaves true what the handler has established.
LEMMA EvolvingKeeps ==
    ASSUME ServerInv, NEW p \in Servers, Evolves(p), StoreType'
    PROVE  ServerOK(p)'
<1> USE DEF ServerInv, ServerType, StoreType, ServerOK, Evolves
<1>1. HandlerOK(p)'
  BY DEF HandlerOK, Request, Store, Snapshot
<1>2. FlushedBehind(p) => FlushedBehind(p)'
  BY DEF FlushedBehind, Store, Snapshot
<1>3. Honest(p)'
  BY <1>2 DEF Honest, Request, Response, Store
<1>4. HashOK(p)'
  BY DEF HashOK
<1> QED
  BY <1>1, <1>3, <1>4

-----------------------------------------------------------------------------
\* The handlers.

\* A step of the handler of p changes nothing of the others.
Local(p) ==
    /\ UNCHANGED <<store, changes, req, headThen>>
    /\ upto' \in [Servers -> 0..Width - 1] /\ at' \in [Servers -> 0..MaxHeight]
    /\ snap' \in [Servers -> Snapshot] /\ late' \in [Servers -> BOOLEAN]
    /\ snap'[p].open => snap'[p].lo <= store[p].low
    /\ \A q \in Servers : q # p => /\ upto'[q] = upto[q] /\ at'[q] = at[q]
                                 /\ snap'[q] = snap[q] /\ late'[q] = late[q]

\* What makes r an honest answer of p.
Justified(p, r) ==
    /\ (req[p].kind = "range" /\ req[p].origin > 0) =>
          /\ r.status = "ok" =>
                /\ r.first = req[p].origin /\ r.first <= r.last
                /\ r.last < req[p].origin + req[p].amount
                /\ r.last < req[p].origin + req[p].amount - 1 => r.last \in headThen[p]..store[p].head
          /\ r.status = "notFound" => \/ req[p].origin > headThen[p] \/ req[p].origin < store[p].low
                                       \/ late'[p] \/ FlushedBehind(p)'
    /\ (req[p].kind = "hash" /\ r.status = "ok") => r.first = req[p].origin /\ Fork[p] = req[p].fork

\* The handler ends with an answer.
LEMMA Answered ==
    ASSUME ServerInv, NEW p \in Servers, NEW r \in Response, Respond(p, r), Local(p), Justified(p, r)
    PROVE  ServerInv'
<1> USE DEF ServerInv, ServerType, StoreType, ServerOK
<1>1. hpc' \in [Servers -> Labels] /\ resp' \in [Servers -> Response]
  BY DEF Respond, Labels
<1>2. ServerType'
  BY <1>1 DEF Local
<1>3. ASSUME NEW q \in Servers, q # p PROVE ServerOK(q)'
  <2>1. /\ hpc'[q] = hpc[q] /\ resp'[q] = resp[q] /\ upto'[q] = upto[q] /\ at'[q] = at[q]
        /\ snap'[q] = snap[q] /\ late'[q] = late[q] /\ UNCHANGED <<store, changes, req, headThen>>
    BY <1>3 DEF Respond, Local
  <2> QED  BY <2>1 DEF HandlerOK, StoreOK, Honest, FlushedBehind, HashOK
<1>4. ServerOK(p)'
  <2>1. /\ hpc'[p] = "idle" /\ resp'[p] = r /\ (snap'[p].open => snap'[p].lo <= store[p].low)
        /\ UNCHANGED <<store, changes, req, headThen>>
    BY DEF Respond, Local
  <2> QED  BY <2>1 DEF HandlerOK, StoreOK, Honest, HashOK, Justified
<1> QED
  BY <1>2, <1>3, <1>4

\* Or goes on.
LEMMA Continues ==
    ASSUME ServerInv, NEW p \in Servers, NEW l \in Labels, Goto(p, l), Local(p),
           hpc[p] # "idle", HandlerOK(p)'
    PROVE  ServerInv'
<1> USE DEF ServerInv, ServerType, StoreType, Store, ServerOK
<1>1. ServerType'
  BY DEF Local, Goto
<1>2. ASSUME NEW q \in Servers, q # p PROVE ServerOK(q)'
  <2>1. /\ hpc'[q] = hpc[q] /\ resp'[q] = resp[q] /\ upto'[q] = upto[q] /\ at'[q] = at[q]
        /\ snap'[q] = snap[q] /\ late'[q] = late[q] /\ UNCHANGED <<store, changes, req, headThen>>
    BY <1>2 DEF Goto, Local
  <2> QED  BY <2>1 DEF HandlerOK, StoreOK, Honest, FlushedBehind, HashOK
<1>3. ServerOK(p)'
  <2>1. resp'[p] = NoResponse /\ UNCHANGED <<store, changes, req, headThen>>
    BY DEF Goto, Local, HandlerOK
  <2> QED  BY <2>1 DEF StoreOK, Honest, HashOK, NoResponse
<1> QED
  BY <1>1, <1>2, <1>3

\* Errors tell nothing.
LEMMA Refusals ==
    /\ StreamReset \in Response /\ NotFound \in Response
    /\ \A p \in Servers : Justified(p, StreamReset)
BY ServerAssumption DEF StreamReset, NotFound, Response, Justified

\* The sum on 64 bits: it is past the origin only when it did not overflow.
LEMMA ToValue ==
    ASSUME ServerInv, NEW p \in Servers
    PROVE  /\ To(p) \in 0..Width - 1
           /\ req[p].origin < To(p) => To(p) = req[p].origin + req[p].amount
<1>1. req[p].origin \in 0..Width - 1 /\ req[p].amount \in 0..Width - 1 /\ Width \in Nat \ {0}
  BY ServerAssumption DEF ServerInv, ServerType, Request
<1>2. ASSUME NEW o \in 0..Width - 1, NEW n \in 0..Width - 1
      PROVE  (o + n) % Width = IF o + n < Width THEN o + n ELSE o + n - Width
  BY <1>1
<1> QED
  BY <1>1, <1>2 DEF To

\* The handler, one lemma per step: a request by hash,
LEMMA ServeHashKeeps ==
    ASSUME ServerInv, NEW p \in Servers, ServeHash(p)
    PROVE  ServerInv'
<1>1. Local(p)
  BY DEF ServeHash, Local, ServerInv, ServerType, stays, ServerOK, HandlerOK
<1>2. CASE Has(p, req[p].origin) /\ Fork[p] = req[p].fork
  <2> DEFINE r == OK(req[p].origin, req[p].origin)
  <2>1. Respond(p, r)
    BY <1>2 DEF ServeHash
  <2>2. r \in Response
    BY <1>2, ServerAssumption DEF OK, Response, Has, ServerInv, ServerType, StoreType, Store, Request
  <2>3. Justified(p, r)
    BY <1>2 DEF Justified, OK, ServeHash
  <2> QED  BY <1>1, <2>1, <2>2, <2>3, Answered
<1>3. CASE ~(Has(p, req[p].origin) /\ Fork[p] = req[p].fork)
  <2>1. Respond(p, NotFound)
    BY <1>3 DEF ServeHash
  <2>2. Justified(p, NotFound)
    BY DEF Justified, NotFound, ServeHash
  <2> QED  BY <1>1, <2>1, <2>2, Answered, Refusals
<1> QED
  BY <1>2, <1>3

\* a range that is checked,
LEMMA ServeRangeKeeps ==
    ASSUME ServerInv, NEW p \in Servers, ServeRange(p)
    PROVE  ServerInv'
<1>1. Local(p) /\ upto'[p] = To(p) /\ UNCHANGED stays /\ hpc[p] = "received" /\ req[p].kind = "range"
  BY ToValue DEF ServeRange, Local, ServerInv, ServerType, stays, ServerOK, HandlerOK
<1>2. \/ Respond(p, StreamReset)
      \/ req[p].origin = 0 /\ Respond(p, OK(store[p].head, store[p].head))
      \/ /\ req[p].origin # 0 /\ ~(req[p].origin >= To(p)) /\ To(p) - req[p].origin <= RangeLimit
         /\ Goto(p, "tail")
  <2>1. \/ Respond(p, StreamReset)
        \/ req[p].origin = 0 /\ Respond(p, IF store[p].head = 0 THEN StreamReset
                                          ELSE OK(store[p].head, store[p].head))
        \/ /\ ~(req[p].origin >= To(p))
           /\ ~(req[p].origin < To(p) /\ req[p].origin = 0)
           /\ ~(req[p].origin < To(p) /\ req[p].origin # 0 /\ To(p) - req[p].origin > RangeLimit)
           /\ Goto(p, "tail")
    BY Zenon DEF ServeRange
  <2>2. /\ ~(req[p].origin >= To(p)) => req[p].origin < To(p)
        /\ ~(To(p) - req[p].origin > RangeLimit) => To(p) - req[p].origin <= RangeLimit
    BY ToValue, ServerAssumption DEF ServerInv, ServerType, Request
  <2> QED  BY <2>1, <2>2
<1>3. CASE Respond(p, StreamReset)
  BY <1>1, <1>3, Refusals, Answered
<1>4. CASE req[p].origin = 0 /\ Respond(p, OK(store[p].head, store[p].head))
  <2>1. OK(store[p].head, store[p].head) \in Response
    BY ServerAssumption DEF OK, Response, ServerInv, ServerType, StoreType, Store
  <2>2. Justified(p, OK(store[p].head, store[p].head))
    BY <1>1, <1>4 DEF Justified
  <2> QED  BY <1>1, <1>4, <2>1, <2>2, Answered
<1>5. CASE /\ req[p].origin # 0 /\ ~(req[p].origin >= To(p)) /\ To(p) - req[p].origin <= RangeLimit
           /\ Goto(p, "tail")
  <2>1. /\ hpc'[p] = "tail" /\ resp' = resp
    BY <1>5 DEF Goto, ServerInv, ServerType
  <2>2. req[p].origin \in Nat /\ To(p) \in Nat
    BY ToValue DEF ServerInv, ServerType, Request
  <2>3. HandlerOK(p)'
    BY <1>1, <1>5, <2>1, <2>2, ToValue DEF HandlerOK, ServerInv, ServerOK, stays
  <2> QED  BY <1>1, <1>5, <2>3, Continues DEF Labels
<1> QED
  BY <1>2, <1>3, <1>4, <1>5

\* the tail,
LEMMA ReadTailKeeps ==
    ASSUME ServerInv, NEW p \in Servers, ReadTail(p)
    PROVE  ServerInv'
<1>1. Local(p) /\ UNCHANGED <<stays, upto, at>> /\ hpc[p] = "tail"
  BY DEF ReadTail, Local, ServerInv, ServerType, stays, ServerOK, HandlerOK
<1>2. \/ Respond(p, StreamReset)
      \/ req[p].origin < store[p].tail /\ Respond(p, NotFound)
      \/ Goto(p, "hasHead")
  BY Zenon DEF ReadTail
<1>3. CASE Respond(p, StreamReset)
  BY <1>1, <1>3, Refusals, Answered
<1>4. CASE req[p].origin < store[p].tail /\ Respond(p, NotFound)
  <2>1. Justified(p, NotFound)
    BY <1>1, <1>4 DEF Justified, NotFound, ServerInv, ServerType, StoreType, Store, ServerOK, StoreOK, HandlerOK, Request
  <2> QED  BY <1>1, <1>4, <2>1, Refusals, Answered
<1>5. CASE Goto(p, "hasHead")
  <2>1. HandlerOK(p)'
    BY <1>1, <1>5 DEF Goto, HandlerOK, ServerInv, ServerType, ServerOK, stays
  <2> QED  BY <1>1, <1>5, <2>1, Continues DEF Labels
<1> QED
  BY <1>2, <1>3, <1>4, <1>5

\* a lookup,
LEMMA HasAtKeeps ==
    ASSUME ServerInv, NEW p \in Servers, HasAtHead(p) \/ HasAtTail(p)
    PROVE  ServerInv'
<1>1. Local(p) /\ UNCHANGED <<stays, upto, at>> /\ hpc[p] # "idle"
  BY DEF HasAtHead, HasAtTail, Local, ServerInv, ServerType, stays, ServerOK, HandlerOK
<1>2. PICK l \in {"hasTail", "head", "open"} :
          /\ Goto(p, l)
          /\ hpc[p] = "hasHead" /\ l = "hasTail" => store[p].head >= upto[p] - 1
          /\ l = "open" => hpc[p] = "hasTail"
          /\ hpc[p] \in {"hasHead", "hasTail"}
          /\ l = "hasTail" => hpc[p] = "hasHead"
  BY DEF HasAtHead, HasAtTail
<1>3. HandlerOK(p)'
  <2>1. hpc'[p] = l /\ resp' = resp
    BY <1>2 DEF Goto, ServerInv, ServerType
  <2> QED
    BY <1>1, <1>2, <2>1
       DEF HandlerOK, ServerInv, ServerType, StoreType, Store, ServerOK, stays, Request
<1> QED
  BY <1>1, <1>2, <1>3, Continues DEF Labels

\* the head and the cut of the range,
LEMMA ReadHeadKeeps ==
    ASSUME ServerInv, NEW p \in Servers, ReadHead(p)
    PROVE  ServerInv'
<1>1. /\ store[p].head \in 0..MaxHeight /\ upto[p] \in 0..Width - 1 /\ req[p].origin \in Nat
      /\ req[p].amount \in Nat /\ headThen[p] \in Nat
      /\ upto'[p] = IF store[p].head + 1 < upto[p] THEN store[p].head + 1 ELSE upto[p]
  BY DEF ReadHead, ServerInv, ServerType, StoreType, Store, Request
<1>2. upto'[p] \in 0..Width - 1
  BY <1>1, ServerAssumption
<1>3. Local(p) /\ UNCHANGED stays /\ hpc[p] = "head"
  BY <1>2 DEF ReadHead, Local, ServerInv, ServerType, stays, ServerOK, HandlerOK
<1>4. CASE store[p].head < req[p].origin
  <2>1. Respond(p, NotFound)
    BY <1>4 DEF ReadHead
  <2>2. Justified(p, NotFound)
    BY <1>1, <1>3, <1>4 DEF Justified, NotFound, HandlerOK, ServerInv, ServerOK
  <2> QED  BY <1>3, <2>1, <2>2, Refusals, Answered
<1>5. CASE ~(store[p].head < req[p].origin)
  <2>1. Goto(p, "open")
    BY <1>5 DEF ReadHead
  <2>2. hpc'[p] = "open" /\ resp' = resp
    BY <2>1 DEF Goto, ServerInv, ServerType
  <2>3. HandlerOK(p)'
    BY <1>1, <1>3, <1>5, <2>2, ServerAssumption DEF HandlerOK, ServerInv, ServerOK, stays
  <2> QED  BY <1>3, <2>1, <2>3, Continues DEF Labels
<1> QED
  BY <1>4, <1>5

\* the opening of the transaction,
LEMMA OpenTransactionKeeps ==
    ASSUME ServerInv, NEW p \in Servers, OpenTransaction(p)
    PROVE  ServerInv'
<1>1. PICK s \in {NoTransaction, Transaction(store[p].low, store[p].flushed)} : snap' = [snap EXCEPT ![p] = s]
  BY DEF OpenTransaction
<1>2. s \in Snapshot /\ (s.open => s.lo = store[p].low)
  <2>1. store[p] \in Store
    BY DEF ServerInv, ServerType, StoreType
  <2>2. /\ NoTransaction \in Snapshot /\ ~NoTransaction.open
        /\ Transaction(store[p].low, store[p].flushed) \in Snapshot
        /\ Transaction(store[p].low, store[p].flushed).lo = store[p].low
    BY <2>1, ServerAssumption DEF NoTransaction, Transaction, Snapshot, Store
  <2> QED  BY <1>1, <2>2
<1>3. /\ hpc[p] = "open" /\ Goto(p, "last") /\ snap'[p] = s
      /\ UNCHANGED <<store, changes, req, upto, at, headThen, late>>
      /\ store[p].low \in 0..MaxHeight
  BY <1>1 DEF OpenTransaction, ServerInv, ServerType, StoreType, Store
<1>4. Local(p)
  BY <1>1, <1>2, <1>3 DEF Local, ServerInv, ServerType
<1>5. hpc'[p] = "last" /\ resp' = resp
  BY <1>3 DEF Goto, ServerInv, ServerType
<1>6. HandlerOK(p)'
  BY <1>2, <1>3, <1>5 DEF HandlerOK, ServerInv, ServerOK
<1> QED
  BY <1>3, <1>4, <1>6, Continues DEF Labels

\* A header of the range that Get does not find was pruned, or flushed behind the transaction.
LEMMA Unreadable ==
    ASSUME ServerInv, NEW p \in Servers, hpc[p] \in {"last", "walk"}, NEW h \in Nat,
           req[p].origin <= h, h <= upto[p] - 1, ~Readable(p, h)
    PROVE  req[p].origin < store[p].low \/ FlushedBehind(p)
<1>1. /\ HandlerOK(p) /\ StoreOK(p) /\ upto[p] \in Nat /\ req[p].origin \in Nat
      /\ store[p] \in Store /\ snap[p] \in Snapshot
  BY DEF ServerInv, ServerType, StoreType, Store, ServerOK, Request
<1>2. /\ 0 < req[p].origin /\ h <= store[p].head /\ store[p].low # 0
      /\ snap[p].open => snap[p].lo <= store[p].low
  BY <1>1 DEF HandlerOK, StoreOK, Store
<1>3. h \in 0..MaxHeight /\ h <= store[p].flushed
  BY <1>1, <1>2, ServerAssumption DEF Readable, Pending, Store
<1>4. CASE snap[p].open
  BY <1>1, <1>2, <1>3, <1>4 DEF Readable, FlushedBehind, Store, Snapshot
<1>5. CASE ~snap[p].open
  BY <1>1, <1>2, <1>3, <1>5 DEF Readable, Persisted, Store
<1> QED
  BY <1>4, <1>5

\* So NOT_FOUND is honest then.
LEMMA NotFoundJustified ==
    ASSUME NEW p \in Servers, req[p].origin < store[p].low \/ FlushedBehind(p), UNCHANGED <<stays, upto>>
    PROVE  Justified(p, NotFound)
BY DEF Justified, NotFound, FlushedBehind, stays

\* the last header,
LEMMA GetLastKeeps ==
    ASSUME ServerInv, NEW p \in Servers, GetLast(p)
    PROVE  ServerInv'
<1>1. /\ hpc[p] = "last" /\ HandlerOK(p) /\ UNCHANGED <<stays, upto>>
      /\ store[p].head \in 0..MaxHeight /\ upto[p] \in Nat /\ req[p].origin \in Nat
  BY DEF GetLast, ServerInv, ServerType, StoreType, Store, ServerOK, Request
<1>2. upto[p] - 1 \in 0..MaxHeight /\ req[p].origin <= upto[p] - 1
  BY <1>1, ServerAssumption DEF HandlerOK
<1>3. CASE Goto(p, "walk") /\ at' = [at EXCEPT ![p] = upto[p] - 1]
  <2>1. Local(p) /\ at'[p] = upto[p] - 1
    BY <1>1, <1>2, <1>3 DEF Local, ServerInv, ServerType, ServerOK, HandlerOK, stays
  <2>2. hpc'[p] = "walk" /\ resp' = resp
    BY <1>3 DEF Goto, ServerInv, ServerType
  <2>3. HandlerOK(p)'
    BY <1>1, <1>2, <2>1, <2>2 DEF HandlerOK, stays
  <2> QED  BY <1>1, <1>3, <2>1, <2>3, Continues DEF Labels
<1>4. CASE ~Readable(p, upto[p] - 1) /\ Respond(p, NotFound) /\ at' = at
  <2>1. Local(p)
    BY <1>1, <1>4 DEF Local, ServerInv, ServerType, ServerOK, HandlerOK, stays
  <2>2. Justified(p, NotFound)
    BY <1>1, <1>2, <1>4, Unreadable, NotFoundJustified
  <2> QED  BY <1>4, <2>1, <2>2, Refusals, Answered
<1> QED
  BY <1>3, <1>4 DEF GetLast

\* the ones before it,
LEMMA GetPreviousKeeps ==
    ASSUME ServerInv, NEW p \in Servers, GetPrevious(p)
    PROVE  ServerInv'
<1>1. /\ hpc[p] = "walk" /\ HandlerOK(p) /\ UNCHANGED <<stays, upto>>
      /\ store[p].head \in 0..MaxHeight /\ upto[p] \in Nat /\ req[p].origin \in Nat
      /\ at[p] \in 0..MaxHeight /\ at[p] > req[p].origin
  BY DEF GetPrevious, ServerInv, ServerType, StoreType, Store, ServerOK, Request
<1>2. at[p] - 1 \in 0..MaxHeight /\ req[p].origin <= at[p] - 1 /\ at[p] - 1 <= upto[p] - 1
  BY <1>1, ServerAssumption DEF HandlerOK
<1>3. CASE Goto(p, "walk") /\ at' = [at EXCEPT ![p] = @ - 1]
  <2>1. Local(p) /\ at'[p] = at[p] - 1
    BY <1>1, <1>2, <1>3 DEF Local, ServerInv, ServerType, ServerOK, HandlerOK, stays
  <2>2. hpc'[p] = "walk" /\ resp' = resp
    BY <1>3 DEF Goto, ServerInv, ServerType
  <2>3. HandlerOK(p)'
    BY <1>1, <1>2, <2>1, <2>2 DEF HandlerOK, stays
  <2> QED  BY <1>1, <1>3, <2>1, <2>3, Continues DEF Labels
<1>4. CASE ~Readable(p, at[p] - 1) /\ Respond(p, NotFound) /\ at' = at
  <2>1. Local(p)
    BY <1>1, <1>4 DEF Local, ServerInv, ServerType, ServerOK, HandlerOK, stays
  <2>2. Justified(p, NotFound)
    BY <1>1, <1>2, <1>4, Unreadable, NotFoundJustified
  <2> QED  BY <1>4, <2>1, <2>2, Refusals, Answered
<1> QED
  BY <1>3, <1>4 DEF GetPrevious

\* the deadline and other errors,
LEMMA ReadErrorsKeep ==
    ASSUME ServerInv, NEW p \in Servers, DeadlineExceeded(p) \/ ReadFails(p)
    PROVE  ServerInv'
<1>1. CASE DeadlineExceeded(p)
  <2>1. Local(p) /\ late'[p] = TRUE /\ Respond(p, NotFound)
    BY <1>1 DEF DeadlineExceeded, Local, ServerInv, ServerType, ServerOK, HandlerOK
  <2>2. Justified(p, NotFound)
    BY <2>1 DEF Justified, NotFound
  <2> QED  BY <2>1, <2>2, Refusals, Answered
<1>2. CASE ReadFails(p)
  <2>1. Local(p) /\ Respond(p, StreamReset)
    BY <1>2 DEF ReadFails, Local, ServerInv, ServerType, ServerOK, HandlerOK, stays
  <2> QED  BY <2>1, Refusals, Answered
<1> QED
  BY <1>1, <1>2

\* the answer.
LEMMA WriteRangeKeeps ==
    ASSUME ServerInv, NEW p \in Servers, WriteRange(p)
    PROVE  ServerInv'
<1> DEFINE r == OK(req[p].origin, upto[p] - 1)
<1>1. /\ hpc[p] = "walk" /\ HandlerOK(p) /\ UNCHANGED <<stays, upto, at>> /\ Respond(p, r)
      /\ store[p].head \in 0..MaxHeight /\ upto[p] \in Nat
      /\ req[p].origin \in 0..Width - 1 /\ req[p].amount \in Nat /\ headThen[p] \in Nat
  BY DEF WriteRange, ServerInv, ServerType, StoreType, Store, ServerOK, Request
<1>2. Local(p)
  BY <1>1 DEF Local, ServerInv, ServerType, ServerOK, HandlerOK, stays
<1>3. r \in Response
  BY <1>1, ServerAssumption DEF OK, Response, HandlerOK
<1>4. Justified(p, r)
  BY <1>1, ServerAssumption DEF OK, Justified, HandlerOK
<1> QED
  BY <1>1, <1>2, <1>3, <1>4, Answered

\* The handler as a whole.
LEMMA HandlerKeeps ==
    ASSUME ServerInv, NEW p \in Servers, HandlerStep(p)
    PROVE  ServerInv'
BY ServeHashKeeps, ServeRangeKeeps, ReadTailKeeps, HasAtKeeps, ReadHeadKeeps, GetLastKeeps,
   OpenTransactionKeeps, GetPreviousKeeps, WriteRangeKeeps, ReadErrorsKeep DEF HandlerStep

\* The stores.
LEMMA StoresKeep ==
    ASSUME ServerInv, NEW p \in Servers, StoreStep(p) \/ StoreFlushes(p)
    PROVE  ServerInv'
<1>1. StoreType' /\ changes' \in 0..MaxChanges /\ \A q \in Servers : Evolves(q)
  BY StoreEvolves
<1>2. \A q \in Servers : ServerOK(q)'
  BY <1>1, EvolvingKeeps
<1>3. ServerType'
  BY <1>1 DEF ServerInv, ServerType, Evolves
<1> QED
  BY <1>2, <1>3 DEF ServerInv

\* A step that leaves the servers alone keeps their invariant.
LEMMA ServersUntouched ==
    ASSUME ServerInv, UNCHANGED serverVars
    PROVE  ServerInv'
<1>1. UNCHANGED <<store, changes, hpc, req, upto, snap, at, headThen, late, resp>>
  BY DEF serverVars, handlerVars
<1>2. ServerType'
  BY <1>1 DEF ServerInv, ServerType, StoreType, Store, Snapshot
<1>3. ASSUME NEW p \in Servers PROVE ServerOK(p)'
  <2>1. StoreOK(p)' /\ HandlerOK(p)'
    BY <1>1, <1>3 DEF ServerInv, ServerOK, StoreOK, HandlerOK
  <2>2. Honest(p)' /\ HashOK(p)'
    BY <1>1, <1>3 DEF ServerInv, ServerOK, Honest, FlushedBehind, HashOK
  <2> QED  BY <2>1, <2>2 DEF ServerOK
<1> QED
  BY <1>2, <1>3 DEF ServerInv

-----------------------------------------------------------------------------
\* The client.

Answer == [status : {"none", "error", "ok", "interrupted"}, height : 0..Width - 1, fork : Nat, soft : BOOLEAN]

ClientType ==
    /\ call \in Calls \cup {NoCall}
    /\ cpc \in {"idle", "collecting", "done"}
    /\ asked \subseteq Servers /\ got \subseteq asked
    /\ gpc \in [Servers -> {"none", "dialing", "waiting", "pushed"}]
    /\ answer \in [Servers -> Answer]
    /\ result \in Answer
    /\ cancelled \in BOOLEAN

\* The goroutines: one per asked peer, each pushes once, and what is pushed is received once.
CallOK ==
    /\ cpc = "idle" <=> call = NoCall
    /\ cpc = "idle" => asked = {}
    /\ cpc = "collecting" => asked # {}
    /\ cancelled <=> cpc = "done"
    /\ result.status = "none" <=> cpc # "done"
    /\ \A p \in got : gpc[p] = "pushed"
    /\ (call.kind = "byHeight" /\ asked # {}) => call.height # 0

\* A header that was pushed by the goroutine of p.
Good(p, a) ==
    /\ a.fork = Fork[p] /\ Fork[p] \notin Foreign
    /\ call.kind = "byHeight" => a.height = call.height
    /\ call.kind = "byHash" => a.height = call.height /\ a.fork = call.fork
    /\ call.kind = "trustedHead" =>
          a.height > call.height /\ VerifyHeader(call, a.height, a.fork) = (IF a.soft THEN "soft" ELSE "ok")

GoroutineOK(p) ==
    /\ gpc[p] = "none" <=> p \notin asked
    /\ gpc[p] = "pushed" <=> answer[p].status # "none"
    /\ answer[p].status # "interrupted"
    /\ gpc[p] \in {"none", "dialing"} => hpc[p] = "idle" /\ req[p] = NoRequest /\ resp[p] = NoResponse
    /\ gpc[p] = "waiting" => req[p] = RequestOf(call)
    /\ answer[p].status = "ok" => Good(p, answer[p])
    /\ answer[p].status # "ok" => answer[p].height = 0

\* performRequest returns the first success, or has seen nothing but errors.
FirstInv ==
    ~IsHead(call) =>
        /\ cpc = "collecting" => \A q \in got : answer[q].status = "error"
        /\ result.status = "error" => \A q \in asked : answer[q].status = "error"
        /\ result.status = "ok" => \E q \in asked : result = answer[q]

Agrees(h, f) == 3 * Cardinality(Votes(asked, h, f)) >= 2 * Cardinality(asked)

\* While Head collects, no header has the votes of two thirds.  It returns one that
\* has, or, when all answers are there and none has, one that nothing is above.
HeadInv ==
    IsHead(call) =>
        /\ cpc = "collecting" =>
              \A q \in got : answer[q].status = "ok" =>
                  Cardinality(Votes(got, answer[q].height, answer[q].fork))
                      < minHeadResponses(Cardinality(asked))
        /\ result.status = "ok" =>
              /\ asked # {}
              /\ \/ Agrees(result.height, result.fork)
                 \/ \A q \in asked :
                       /\ answer[q].status # "none" /\ answer[q].height <= result.height
                       /\ answer[q].status = "ok" => ~Agrees(answer[q].height, answer[q].fork)

ClientInv ==
    /\ ClientType /\ CallOK /\ (\A p \in Servers : GoroutineOK(p))
    /\ FirstInv /\ HeadInv /\ HeadVerified

Inv == ServerInv /\ ClientInv

\* What the calls contain.
LEMMA CallTypes ==
    /\ NoCall \notin Calls
    /\ \A c \in Calls : /\ c.kind \in {"head", "trustedHead", "byHeight", "byHash", "range"}
                        /\ c.height \in 0..Width - 1 /\ c.fork \in Nat /\ c.amount \in 0..Width - 1
    /\ 1 \in 0..Width - 1 /\ 0 \in 0..Width - 1
BY ExchangeAssumption, ServerAssumption DEF NoCall

\* What the client asks for.
LEMMA RequestOfCall ==
    ASSUME NEW c \in Calls
    PROVE  /\ RequestOf(c) \in Request /\ RequestOf(c).kind # "none"
           /\ c.kind = "byHeight" => RequestOf(c) = RangeRequest(c.height, 1)
           /\ c.kind = "byHash" => RequestOf(c) = HashRequest(c.height, c.fork)
<1>1. c.kind \in {"head", "trustedHead", "byHeight", "byHash", "range"}
  BY CallTypes
<1>2. \/ RequestOf(c) = RangeRequest(0, 1) /\ IsHead(c)
      \/ RequestOf(c) = RangeRequest(c.height, 1) /\ c.kind = "byHeight"
      \/ RequestOf(c) = HashRequest(c.height, c.fork) /\ c.kind = "byHash"
      \/ RequestOf(c) = RangeRequest(c.height, c.amount) /\ c.kind = "range"
  BY <1>1, Zenon DEF RequestOf, IsHead
<1> QED
  BY <1>2, CallTypes DEF RangeRequest, HashRequest, Request, IsHead

\* header.Verify has three outcomes, and refutes what is not above the trusted header.
LEMMA VerdictMeaning ==
    ASSUME NEW c, NEW h \in Nat, NEW f, c.height \in Nat
    PROVE  /\ VerifyHeader(c, h, f) \in {"ok", "soft", "hard"}
           /\ VerifyHeader(c, h, f) # "hard" => h > c.height
<1>1. h <= c.height => h # c.height + 1
  OBVIOUS
<1>2. VerifyHeader(c, h, f) \in {"ok", "soft", "hard"}
  BY Zenon DEF VerifyHeader
<1>3. VerifyHeader(c, h, f) # "hard" => ~(h <= c.height)
  BY <1>1, Zenon DEF VerifyHeader
<1> QED
  BY <1>2, <1>3

\* Whom the client asks.
LEMMA PeersAreServers ==
    ASSUME NEW c, NEW tracked \in Tracked, NEW S \in Peers(c, tracked)
    PROVE  S \subseteq Servers
<1>1. \/ S \in {{p} : p \in Servers}
      \/ S \in SUBSET tracked
      \/ S = Trusted
  BY Zenon DEF Peers
<1> QED
  BY <1>1, ExchangeAssumption

\* The answers that goroutines push.
LEMMA AnswerTypes ==
    /\ Nothing \in Answer /\ Failed \in Answer /\ Interrupted \in Answer
    /\ \A h \in 0..Width - 1, f \in Nat, s \in BOOLEAN : Found(h, f, s) \in Answer
BY CallTypes DEF Nothing, Failed, Interrupted, Found, Answer

\* What the goroutine makes of a response is an error or a header worth pushing.
LEMMA CheckedIsGood ==
    ASSUME Inv, NEW p \in Servers, gpc[p] = "waiting", resp[p].status = "ok"
    PROVE  \/ Checked(p) = Failed
           \/ Checked(p) \in Answer /\ Checked(p).status = "ok" /\ Good(p, Checked(p))
<1> DEFINE h == resp[p].first
           v == VerifyHeader(call, h, Fork[p])
<1>1. h \in 0..Width - 1 /\ Fork[p] \in Nat
  BY ServerAssumption DEF Inv, ServerInv, ServerType, Response
<1>2. p \in asked /\ call \in Calls /\ req[p] = RequestOf(call)
  BY DEF Inv, ClientInv, ClientType, CallOK, GoroutineOK
<1>3. call.kind = "byHeight" => h = call.height
  <2> HAVE call.kind = "byHeight"
  <2>1. call.height > 0
    BY <1>2, CallTypes DEF Inv, ClientInv, CallOK
  <2>2. req[p] = RangeRequest(call.height, 1)
    BY <1>2, RequestOfCall
  <2> QED  BY <2>1, <2>2 DEF Inv, ServerInv, ServerOK, Honest, RangeRequest
<1>4. call.kind = "byHash" => h = call.height /\ Fork[p] = call.fork
  <2> HAVE call.kind = "byHash"
  <2>1. req[p] = HashRequest(call.height, call.fork)
    BY <1>2, RequestOfCall
  <2> QED  BY <2>1 DEF Inv, ServerInv, ServerOK, HashOK, HashRequest
<1>5. \/ Checked(p) = Failed
      \/ Fork[p] \notin Foreign /\ call.kind # "trustedHead" /\ Checked(p) = Found(h, Fork[p], FALSE)
      \/ /\ Fork[p] \notin Foreign
         /\ Checked(p) = IF v = "hard" THEN Failed ELSE Found(h, Fork[p], v = "soft")
  BY Zenon DEF Checked
<1>6. v \in {"ok", "soft", "hard"} /\ (v # "hard" => h > call.height)
  BY <1>1, <1>2, CallTypes, VerdictMeaning
<1> HIDE DEF v
<1>7. CASE Fork[p] \notin Foreign /\ call.kind # "trustedHead" /\ Checked(p) = Found(h, Fork[p], FALSE)
  <2>1. Checked(p) \in Answer
    BY <1>1, <1>7, AnswerTypes
  <2>2. Checked(p).status = "ok" /\ Checked(p).height = h /\ Checked(p).fork = Fork[p]
    BY <1>7 DEF Found
  <2> QED  BY <2>1, <2>2, <1>3, <1>4, <1>7 DEF Good
<1>8. CASE /\ Fork[p] \notin Foreign /\ v # "hard"
           /\ Checked(p) = Found(h, Fork[p], v = "soft")
  <2>1. (v = "soft") \in BOOLEAN
    OBVIOUS
  <2>2. Checked(p) \in Answer
    BY <1>1, <1>8, <2>1, AnswerTypes
  <2>3. /\ Checked(p).status = "ok" /\ Checked(p).height = h /\ Checked(p).fork = Fork[p]
        /\ Checked(p).soft = (v = "soft")
    BY <1>8 DEF Found
  <2>4. VerifyHeader(call, Checked(p).height, Checked(p).fork) = (IF Checked(p).soft THEN "soft" ELSE "ok")
    BY <2>3, <1>6, <1>8 DEF v
  <2> QED  BY <2>2, <2>3, <2>4, <1>3, <1>4, <1>6, <1>8 DEF Good
<1> QED
  BY <1>5, <1>7, <1>8

-----------------------------------------------------------------------------
\* The steps of the call.

\* Sets of servers are finite.
LEMMA ServerSets ==
    \A S \in SUBSET Servers : IsFiniteSet(S) /\ Cardinality(S) \in Nat
BY ServerAssumption, FS_Subset, FS_CardinalityType

\* ceil(2n/3): that many votes are two thirds, and fewer are not.
LEMMA TwoThirds ==
    ASSUME NEW n \in Nat, NEW k \in Nat
    PROVE  k >= minHeadResponses(n) <=> 3 * k >= 2 * n
BY DEF minHeadResponses

\* The invariant holds at first.
LEMMA InvInit == Init => Inv
<1> SUFFICES ASSUME Init PROVE Inv
  OBVIOUS
<1>1. ServerInv
  <2>1. NoTransaction \in Snapshot /\ ~NoTransaction.open /\ store \in [Servers -> Store]
    BY ServerAssumption DEF NoTransaction, Snapshot, Init, ServerInit
  <2>2. ServerType
    BY <2>1, ServerAssumption
       DEF Init, ServerInit, ServerType, StoreType, NoRequest, NoResponse, Request, Response, Labels
  <2>3. ASSUME NEW p \in Servers PROVE ServerOK(p)
    <3>1. StoreOK(p)
      BY ServerAssumption DEF Init, ServerInit, StoreOK, Store
    <3>2. HandlerOK(p) /\ Honest(p) /\ HashOK(p)
      BY <2>1, ServerAssumption
         DEF Init, ServerInit, Store, HandlerOK, Honest, HashOK, NoRequest, NoResponse
    <3> QED  BY <3>1, <3>2 DEF ServerOK
  <2> QED  BY <2>2, <2>3 DEF ServerInv
<1>2. ClientType /\ CallOK /\ \A p \in Servers : GoroutineOK(p)
  <2>1. ClientType
    BY AnswerTypes DEF Init, ClientType
  <2> QED
    BY <2>1 DEF Init, ServerInit, CallOK, GoroutineOK, Nothing, NoCall
<1>3. FirstInv /\ HeadInv /\ HeadVerified
  BY DEF Init, FirstInv, HeadInv, HeadVerified, Nothing
<1> QED
  BY <1>1, <1>2, <1>3 DEF Inv, ClientInv

\* Server steps: a handler that runs has its goroutine waiting or given up.
LEMMA ServerStepKeepsClient ==
    ASSUME Inv, NEW p \in Servers, HandlerStep(p) \/ (hpc[p] # "idle" /\ (StoreStep(p) \/ StoreFlushes(p))),
           UNCHANGED clientVars
    PROVE  ClientInv'
<1> USE DEF Inv, ClientInv
<1>1. hpc[p] # "idle" /\ UNCHANGED req
      /\ \A q \in Servers : q # p => hpc'[q] = hpc[q] /\ resp'[q] = resp[q]
  <2>1. CASE HandlerStep(p)
    <3>1. UNCHANGED req /\ hpc[p] # "idle"
      BY <2>1 DEF HandlerStep, ServeHash, ServeRange, ReadTail, HasAtHead, HasAtTail, ReadHead, GetLast,
                  OpenTransaction, GetPrevious, WriteRange, DeadlineExceeded, ReadFails, stays
    <3>2. (\E l : Goto(p, l)) \/ (\E r : Respond(p, r))
      <4>1. CASE ServeRange(p)
        <5>1. \/ Respond(p, StreamReset)
              \/ Respond(p, IF store[p].head = 0 THEN StreamReset ELSE OK(store[p].head, store[p].head))
              \/ Goto(p, "tail")
          BY <4>1, Zenon DEF ServeRange
        <5> QED  BY <5>1
      <4>2. CASE ReadTail(p)
        <5>1. Respond(p, StreamReset) \/ Respond(p, NotFound) \/ Goto(p, "hasHead")
          BY <4>2, Zenon DEF ReadTail
        <5> QED  BY <5>1
      <4>3. CASE HandlerStep(p) /\ ~ServeRange(p) /\ ~ReadTail(p)
        BY <4>3 DEF HandlerStep, ServeHash, HasAtHead, HasAtTail, ReadHead, OpenTransaction, GetLast,
                    GetPrevious, WriteRange, DeadlineExceeded, ReadFails
      <4> QED  BY <2>1, <4>1, <4>2, <4>3
    <3>3. \A q \in Servers : q # p => hpc'[q] = hpc[q] /\ resp'[q] = resp[q]
      BY <3>2 DEF Goto, Respond, ServerInv, ServerType
    <3> QED  BY <3>1, <3>3
  <2>2. CASE hpc[p] # "idle" /\ (StoreStep(p) \/ StoreFlushes(p))
    BY <2>2 DEF StoreStep, StoreGrows, StoreFlushes, StoreSetsTail, StorePrunes, handlerVars
  <2> QED  BY <2>1, <2>2
<1>2. UNCHANGED <<call, cpc, asked, gpc, answer, got, result, cancelled>>
  BY DEF clientVars
<1>3. \A q \in Servers : GoroutineOK(q)'
  BY <1>1, <1>2 DEF GoroutineOK, Good
<1>4. ClientType' /\ CallOK'
  BY <1>2 DEF ClientType, CallOK
<1>5. FirstInv' /\ HeadInv' /\ HeadVerified'
  BY <1>2 DEF FirstInv, HeadInv, HeadVerified, Agrees, Votes, IsHead
<1> QED
  BY <1>3, <1>4, <1>5

\* A goroutine sends its request.
LEMMA SendKeeps ==
    ASSUME Inv, NEW p \in Servers, Send(p)
    PROVE  Inv'
<1> USE DEF Inv, ClientInv
<1>1. /\ hpc[p] = "idle" /\ resp[p] = NoResponse /\ call \in Calls /\ p \in asked
  BY DEF Send, GoroutineOK, CallOK, ClientType
<1>2. /\ hpc' = [hpc EXCEPT ![p] = "received"] /\ req' = [req EXCEPT ![p] = RequestOf(call)]
      /\ headThen' = [headThen EXCEPT ![p] = store[p].head]
      /\ UNCHANGED <<store, changes, upto, snap, at, late, resp>>
      /\ gpc' = [gpc EXCEPT ![p] = "waiting"] /\ gpc[p] = "dialing"
      /\ UNCHANGED <<call, cpc, asked, answer, got, result, cancelled>>
  BY DEF Send
<1>3. ServerInv'
  <2>1. ServerType'
    BY <1>1, <1>2, RequestOfCall DEF ServerInv, ServerType, StoreType, Store, Labels
  <2>2. \A q \in Servers : q # p => ServerOK(q)'
    <3> SUFFICES ASSUME NEW q \in Servers, q # p PROVE ServerOK(q)'
      OBVIOUS
    <3>1. /\ hpc'[q] = hpc[q] /\ req'[q] = req[q] /\ headThen'[q] = headThen[q]
          /\ UNCHANGED <<store, changes, upto, snap, at, late, resp>>
      BY <1>2 DEF ServerInv, ServerType
    <3> QED  BY <3>1 DEF ServerInv, ServerOK, StoreOK, HandlerOK, Honest, FlushedBehind, HashOK
  <2>3. ServerOK(p)'
    <3>1. /\ hpc'[p] = "received" /\ req'[p] = RequestOf(call) /\ headThen'[p] = store[p].head
          /\ resp'[p] = NoResponse /\ store' = store /\ snap' = snap
          /\ snap[p].open => snap[p].lo <= store[p].low
      BY <1>1, <1>2 DEF ServerInv, ServerType, ServerOK, HandlerOK
    <3>2. store[p].head \in Nat /\ StoreOK(p)
      BY DEF ServerInv, ServerType, StoreType, Store, ServerOK
    <3> QED
      BY <3>1, <3>2, <1>1, RequestOfCall DEF ServerOK, StoreOK, HandlerOK, Honest, HashOK, NoResponse
  <2> QED  BY <2>1, <2>2, <2>3 DEF ServerInv
<1>4. ClientType' /\ CallOK'
  BY <1>1, <1>2 DEF ClientType, CallOK
<1>5. \A q \in Servers : GoroutineOK(q)'
  BY <1>1, <1>2 DEF GoroutineOK, Good, ClientType, ServerInv, ServerType
<1>6. FirstInv' /\ HeadInv' /\ HeadVerified'
  <2>1. FirstInv'
    BY <1>2 DEF FirstInv, IsHead
  <2>2. HeadInv'
    BY <1>2 DEF HeadInv, Agrees, Votes, IsHead
  <2>3. HeadVerified'
    BY <1>2 DEF HeadVerified
  <2> QED  BY <2>1, <2>2, <2>3
<1> QED
  BY <1>3, <1>4, <1>5, <1>6

\* A call begins.
LEMMA CallKeeps ==
    ASSUME Inv, CallStep
    PROVE  Inv'
<1> USE DEF Inv, ClientInv
<1>1. PICK c \in Calls, tracked \in Tracked : \E S \in Peers(c, tracked) : Call(c, S)
  BY DEF CallStep
<1>2. PICK S \in Peers(c, tracked) : Call(c, S)
  BY <1>1
<1>3. S \subseteq Servers
  BY PeersAreServers
<1>4. /\ cpc = "idle" /\ asked = {} /\ got = {} /\ UNCHANGED <<serverVars, answer, got>> /\ call' = c
      /\ result.status = "none" /\ c # NoCall
      /\ \A p \in Servers : gpc[p] = "none" /\ answer[p].status = "none"
  BY <1>2, CallTypes DEF Call, CallOK, GoroutineOK, ClientType
<1>5. ServerInv'
  BY <1>4, ServersUntouched
<1>6. CASE (c.kind = "byHeight" /\ c.height = 0) \/ S = {}
  <2>1. result' = Failed /\ cpc' = "done" /\ cancelled' = TRUE /\ UNCHANGED <<asked, gpc>>
    BY <1>2, <1>6 DEF Call, Return
  <2>2. ClientType' /\ CallOK'
    BY <1>4, <2>1, AnswerTypes DEF ClientType, CallOK, Failed
  <2>3. \A p \in Servers : GoroutineOK(p)'
    BY <1>4, <2>1 DEF GoroutineOK, Good, serverVars, handlerVars
  <2>4. FirstInv' /\ HeadInv' /\ HeadVerified'
    BY <1>4, <2>1 DEF FirstInv, HeadInv, HeadVerified, Failed
  <2> QED  BY <1>5, <2>2, <2>3, <2>4
<1>7. CASE ~((c.kind = "byHeight" /\ c.height = 0) \/ S = {})
  <2>1. /\ asked' = S /\ cpc' = "collecting" /\ UNCHANGED <<result, cancelled>>
        /\ gpc' = [p \in Servers |-> IF p \in S THEN "dialing" ELSE "none"]
    BY <1>2, <1>7 DEF Call
  <2>2. ClientType' /\ CallOK'
    BY <1>3, <1>4, <1>7, <2>1 DEF ClientType, CallOK
  <2>3. \A p \in Servers : GoroutineOK(p)'
    BY <1>4, <2>1 DEF GoroutineOK, Good, serverVars, handlerVars
  <2>4. FirstInv' /\ HeadInv' /\ HeadVerified'
    BY <1>4, <2>1 DEF FirstInv, HeadInv, HeadVerified
  <2> QED  BY <1>5, <2>2, <2>3, <2>4
<1> QED
  BY <1>6, <1>7

\* A goroutine hands in its answer.
LEMMA PushKeeps ==
    ASSUME Inv, NEW p \in Servers, gpc[p] \in {"dialing", "waiting"}, NEW a \in Answer, Push(p, a),
           a = Failed \/ (a.status = "ok" /\ Good(p, a))
    PROVE  Inv'
<1> USE DEF Inv, ClientInv
<1>1. /\ p \in asked /\ p \notin got /\ answer[p].status = "none" /\ cpc # "idle"
      /\ a.status \in {"ok", "error"} /\ (a.status # "ok" => a.height = 0)
  BY DEF CallOK, GoroutineOK, Failed
<1>2. /\ gpc' = [gpc EXCEPT ![p] = "pushed"] /\ answer' = [answer EXCEPT ![p] = a]
      /\ UNCHANGED <<serverVars, call, cpc, asked, got, result, cancelled>>
  BY DEF Push
<1>3. answer'[p] = a /\ \A q \in Servers : q # p => answer'[q] = answer[q]
  BY <1>2 DEF ClientType
<1>4. ServerInv'
  BY <1>2, ServersUntouched
<1>5. ClientType' /\ CallOK'
  BY <1>2 DEF ClientType, CallOK
<1>6. \A q \in Servers : GoroutineOK(q)'
  <2>1. ASSUME NEW q \in Servers, q # p PROVE GoroutineOK(q)'
    BY <1>2, <1>3, <2>1 DEF GoroutineOK, Good, ClientType, serverVars, handlerVars
  <2>2. GoroutineOK(p)'
    <3>1. gpc'[p] = "pushed"
      BY <1>2 DEF ClientType
    <3>2. a.status = "ok" => Good(p, a)'
      BY <1>2 DEF Good, Failed
    <3> QED  BY <1>1, <1>2, <1>3, <3>1, <3>2 DEF GoroutineOK
  <2> QED  BY <2>1, <2>2
<1>7. FirstInv'
  <2> SUFFICES ASSUME ~IsHead(call) PROVE FirstInv'
    BY <1>2 DEF FirstInv, IsHead
  <2>1. result.status # "error"
    BY <1>1 DEF FirstInv
  <2>2. result.status = "ok" => \E q \in asked : result = answer'[q]
    BY <1>1, <1>3 DEF FirstInv, ClientType
  <2> QED  BY <1>1, <1>2, <1>3, <2>1, <2>2 DEF FirstInv, ClientType
<1>8. HeadInv'
  <2> SUFFICES ASSUME IsHead(call) PROVE HeadInv'
    BY <1>2 DEF HeadInv, IsHead
  <2>1. \A q \in got : answer'[q] = answer[q]
    BY <1>1, <1>3 DEF ClientType
  <2>2. \A h, f : Votes(got, h, f)' = Votes(got, h, f)
    BY <2>1, <1>2 DEF Votes
  <2>3. ASSUME result.status = "ok" PROVE Agrees(result.height, result.fork)'
    <3> DEFINE V == Votes(asked, result.height, result.fork)
    <3>1. Agrees(result.height, result.fork)
      BY <1>1, <2>3 DEF HeadInv
    <3>2. V \in SUBSET V' /\ V' \in SUBSET Servers
      BY <1>1, <1>2, <1>3 DEF Votes, ClientType
    <3> HIDE DEF V
    <3>3. Cardinality(V) <= Cardinality(V')
      BY <3>2, ServerSets, FS_Subset
    <3>4. Cardinality(V) \in Nat /\ Cardinality(V') \in Nat /\ Cardinality(asked) \in Nat
      BY <3>2, ServerSets DEF ClientType
    <3>5. 3 * Cardinality(V') >= 2 * Cardinality(asked)
      BY <3>1, <3>3, <3>4 DEF Agrees, V
    <3> QED  BY <3>5, <1>2 DEF Agrees, V
  <2> QED  BY <1>2, <2>1, <2>2, <2>3 DEF HeadInv
<1>9. HeadVerified'
  BY <1>2 DEF HeadVerified
<1> QED
  BY <1>4, <1>5, <1>6, <1>7, <1>8, <1>9

\* A step of the calling goroutine leaves the servers and the other goroutines alone.
LEMMA CollectFrame ==
    ASSUME Inv, UNCHANGED <<serverVars, call, asked, gpc, answer>>
    PROVE  ServerInv' /\ \A p \in Servers : GoroutineOK(p)'
<1> USE DEF Inv, ClientInv
<1>1. ServerInv'
  BY ServersUntouched
<1>2. \A p \in Servers : GoroutineOK(p)'
  BY DEF GoroutineOK, Good, serverVars, handlerVars
<1> QED
  BY <1>1, <1>2

\* Get takes an answer.
LEMMA CollectFirstKeeps ==
    ASSUME Inv, NEW p \in Servers, CollectFirst(p)
    PROVE  Inv'
<1> USE DEF Inv, ClientInv
<1>1. /\ cpc = "collecting" /\ ~IsHead(call) /\ p \in asked \ got /\ gpc[p] = "pushed" /\ got' = got \cup {p}
      /\ UNCHANGED <<serverVars, call, asked, gpc, answer>>
      /\ answer[p] \in Answer /\ answer[p].status \in {"ok", "error"} /\ result.status = "none"
  BY DEF CollectFirst, ClientType, GoroutineOK, CallOK, Answer
<1>2. ServerInv' /\ \A q \in Servers : GoroutineOK(q)'
  BY <1>1, CollectFrame
<1>3. HeadInv' /\ HeadVerified'
  BY <1>1 DEF HeadInv, HeadVerified, IsHead
<1>4. answer[p].status = "ok" => Expected(answer[p])
  BY <1>1 DEF GoroutineOK, Good, Expected
<1>5. CASE answer[p].status = "ok" /\ Return(answer[p])
  <2>1. ClientType' /\ CallOK'
    BY <1>1, <1>5 DEF Return, ClientType, CallOK
  <2>2. FirstInv'
    BY <1>1, <1>5 DEF Return, FirstInv
  <2> QED  BY <1>2, <1>3, <2>1, <2>2
<1>6. CASE answer[p].status = "error" /\ got' = asked /\ Return(Failed)
  <2>1. ClientType' /\ CallOK'
    BY <1>1, <1>6, AnswerTypes DEF Return, ClientType, CallOK, Failed
  <2>2. FirstInv'
    BY <1>1, <1>6 DEF Return, FirstInv, Failed
  <2> QED  BY <1>2, <1>3, <2>1, <2>2
<1>7. CASE answer[p].status = "error" /\ UNCHANGED <<result, cpc, cancelled>>
  <2>1. ClientType' /\ CallOK'
    BY <1>1, <1>7 DEF ClientType, CallOK
  <2>2. FirstInv'
    BY <1>1, <1>7 DEF FirstInv
  <2> QED  BY <1>2, <1>3, <2>1, <2>2
<1> QED
  BY <1>1, <1>4, <1>5, <1>6, <1>7 DEF CollectFirst

\* A call ends early.
LEMMA InterruptKeeps ==
    ASSUME Inv, Interrupt
    PROVE  Inv'
<1> USE DEF Inv, ClientInv
<1>1. /\ cpc = "collecting" /\ result' = Interrupted /\ cpc' = "done" /\ cancelled' = TRUE
      /\ UNCHANGED <<serverVars, call, asked, gpc, answer, got>>
  BY DEF Interrupt, Return
<1>2. ServerInv' /\ \A q \in Servers : GoroutineOK(q)'
  BY <1>1, CollectFrame
<1>3. ClientType' /\ CallOK'
  BY <1>1, AnswerTypes DEF ClientType, CallOK, Interrupted
<1>4. FirstInv' /\ HeadInv' /\ HeadVerified'
  BY <1>1 DEF FirstInv, HeadInv, HeadVerified, Interrupted
<1> QED
  BY <1>2, <1>3, <1>4

-----------------------------------------------------------------------------
\* Head's loop.

\* The soft failure of a header does not depend on the peer that is asked for it.
LEMMA SoftIsVerdict ==
    ASSUME Inv, NEW S \in SUBSET Servers, NEW q \in S, answer[q].status = "ok", call.kind = "trustedHead"
    PROVE  LET h == answer[q].height
               f == answer[q].fork
           IN  /\ h > call.height
               /\ VerifyHeader(call, h, f) = (IF SoftErr(S, h, f) THEN "soft" ELSE "ok")
<1> DEFINE h == answer[q].height
           f == answer[q].fork
           V == Votes(S, h, f)
<1>1. \A x \in V : /\ x \in Servers /\ answer[x].status = "ok" /\ answer[x].height = h /\ answer[x].fork = f
  BY DEF Votes
<1>2. \A x \in V : Good(x, answer[x])
  BY <1>1 DEF Inv, ClientInv, GoroutineOK
<1>3. \A x \in V : VerifyHeader(call, h, f) = (IF answer[x].soft THEN "soft" ELSE "ok")
  <2> TAKE x \in V
  <2>1. VerifyHeader(call, answer[x].height, answer[x].fork) = (IF answer[x].soft THEN "soft" ELSE "ok")
    BY <1>2 DEF Good
  <2> QED  BY <2>1, <1>1
<1>4. q \in V /\ h > call.height
  BY DEF Votes, Inv, ClientInv, GoroutineOK, Good
<1>5. SoftErr(S, h, f) <=> \E x \in V : answer[x].soft
  BY DEF SoftErr
<1> HIDE DEF V
<1>6. CASE SoftErr(S, h, f)
  BY <1>3, <1>4, <1>5, <1>6
<1>7. CASE ~SoftErr(S, h, f)
  BY <1>3, <1>4, <1>5, <1>7
<1> QED
  BY <1>4, <1>6, <1>7

\* One more answer without a return: still no header has two thirds of the votes.
LEMMA StillNoQuorum ==
    ASSUME Inv, NEW p \in asked \ got, cpc = "collecting", IsHead(call),
           ~(/\ answer[p].status = "ok"
             /\ Cardinality(Votes(got \cup {p}, answer[p].height, answer[p].fork))
                    >= minHeadResponses(Cardinality(asked)))
    PROVE  \A q \in got \cup {p} : answer[q].status = "ok" =>
               Cardinality(Votes(got \cup {p}, answer[q].height, answer[q].fork))
                   < minHeadResponses(Cardinality(asked))
<1> DEFINE seen == got \cup {p}
           n == minHeadResponses(Cardinality(asked))
           V(q) == Votes(seen, answer[q].height, answer[q].fork)
<1>1. asked \in SUBSET Servers /\ seen \in SUBSET Servers
  BY DEF Inv, ClientInv, ClientType
<1>2. n \in Nat /\ \A q : Cardinality(V(q)) \in Nat
  <2>1. Cardinality(asked) \in Nat
    BY <1>1, ServerSets
  <2>2. \A q : V(q) \in SUBSET Servers
    BY <1>1 DEF Votes
  <2>3. n \in Nat
    BY <2>1 DEF minHeadResponses
  <2> QED  BY <2>2, <2>3, ServerSets
<1>3. ASSUME NEW q \in seen, answer[q].status = "ok" PROVE Cardinality(V(q)) < n
  <2>1. CASE answer[p].status = "ok" /\ answer[p].height = answer[q].height /\ answer[p].fork = answer[q].fork
    <3>1. Cardinality(V(p)) < n
      BY <2>1, <1>2
    <3> QED  BY <2>1, <3>1
  <2>2. CASE ~(answer[p].status = "ok" /\ answer[p].height = answer[q].height /\ answer[p].fork = answer[q].fork)
    <3>1. V(q) = Votes(got, answer[q].height, answer[q].fork)
      BY <2>2 DEF Votes
    <3>2. q \in got
      BY <1>3, <2>2
    <3> QED  BY <1>3, <3>1, <3>2 DEF Inv, ClientInv, HeadInv
  <2> QED  BY <2>1, <2>2
<1> QED
  BY <1>3

\* Head takes an answer and decides: the last one it needs, or a quorum.
LEMMA CollectHeadKeeps ==
    ASSUME Inv, NEW p \in Servers, CollectHead(p)
    PROVE  Inv'
<1> DEFINE seen == got \cup {p}
           a == answer[p]
           oks == {q \in seen : answer[q].status = "ok"}
           highest == {q \in oks : \A r \in oks : answer[r].height <= answer[q].height}
           quorum == a.status = "ok" /\ Cardinality(Votes(seen, a.height, a.fork))
                                            >= minHeadResponses(Cardinality(asked))
           found(q) == Found(answer[q].height, answer[q].fork,
                             SoftErr(seen, answer[q].height, answer[q].fork))
<1>1. /\ cpc = "collecting" /\ IsHead(call) /\ p \in asked \ got /\ gpc[p] = "pushed" /\ got' = seen
      /\ UNCHANGED <<serverVars, call, asked, gpc, answer>>
  BY DEF CollectHead
<1>2. \/ quorum /\ Return(found(p))
      \/ ~quorum /\ seen # asked /\ UNCHANGED <<result, cpc, cancelled>>
      \/ ~quorum /\ seen = asked /\ oks = {} /\ Return(Failed)
      \/ ~quorum /\ seen = asked /\ \E q \in highest : Return(found(q))
  BY Zenon DEF CollectHead
<1>3. ServerInv' /\ \A q \in Servers : GoroutineOK(q)'
  BY <1>1, CollectFrame
<1>4. /\ FirstInv' /\ result.status = "none" /\ seen \in SUBSET asked /\ asked \in SUBSET Servers
      /\ \A q \in seen : gpc[q] = "pushed"
  BY <1>1 DEF FirstInv, IsHead, Inv, ClientInv, CallOK, ClientType
<1>5. ASSUME NEW q \in seen, answer[q].status = "ok", Return(found(q))
      PROVE  ClientType' /\ CallOK' /\ HeadVerified'
  <2> DEFINE s == SoftErr(seen, answer[q].height, answer[q].fork)
  <2>1. answer[q].height \in 0..Width - 1 /\ answer[q].fork \in Nat /\ s \in BOOLEAN
    BY <1>4 DEF Inv, ClientInv, ClientType, Answer, SoftErr
  <2>2. found(q) \in Answer
    BY <2>1, AnswerTypes
  <2>3. result' = found(q) /\ cpc' = "done" /\ cancelled' = TRUE /\ result'.status = "ok"
        /\ result'.height = answer[q].height /\ result'.fork = answer[q].fork /\ result'.soft = s
    BY <1>5 DEF Return, Found
  <2>4. ClientType' /\ CallOK'
    BY <1>1, <1>4, <2>2, <2>3 DEF Inv, ClientInv, ClientType, CallOK
  <2>5. HeadVerified'
    <3> SUFFICES ASSUME call.kind = "trustedHead"
                 PROVE  /\ result'.height > call.height
                        /\ VerifyHeader(call, result'.height, result'.fork)
                              = (IF result'.soft THEN "soft" ELSE "ok")
      BY <1>1 DEF HeadVerified
    <3>1. answer[q].height > call.height
          /\ VerifyHeader(call, answer[q].height, answer[q].fork) = (IF s THEN "soft" ELSE "ok")
      BY <1>4, <1>5, SoftIsVerdict
    <3> HIDE DEF s
    <3> QED  BY <2>3, <3>1
  <2> QED  BY <2>4, <2>5
<1>6. ~quorum => \A q \in seen : answer[q].status = "ok" =>
          Cardinality(Votes(seen, answer[q].height, answer[q].fork)) < minHeadResponses(Cardinality(asked))
  BY <1>1, StillNoQuorum
<1>7. asked # {} /\ Cardinality(asked) \in Nat
      /\ \A S \in SUBSET Servers : \A h, f : Votes(S, h, f) \in SUBSET S /\ Cardinality(Votes(S, h, f)) \in Nat
  BY <1>1, <1>4, ServerSets DEF Votes
<1>8. CASE quorum /\ Return(found(p))
  <2>1. ClientType' /\ CallOK' /\ HeadVerified'
    BY <1>5, <1>8
  <2>2. /\ result'.height = a.height /\ result'.fork = a.fork /\ cpc' = "done"
    BY <1>8 DEF Return, Found
  <2>3. Agrees(a.height, a.fork)
    <3> DEFINE V == Votes(seen, a.height, a.fork)
               W == Votes(asked, a.height, a.fork)
    <3>1. V \in SUBSET W /\ Cardinality(V) \in Nat /\ Cardinality(W) \in Nat /\ IsFiniteSet(W)
      <4>1. V \in SUBSET W /\ W \in SUBSET Servers /\ V \in SUBSET Servers
        BY <1>4 DEF Votes
      <4> QED  BY <4>1, ServerSets
    <3>2. Cardinality(V) >= minHeadResponses(Cardinality(asked))
      BY <1>8
    <3> HIDE DEF V, W
    <3>3. Cardinality(V) <= Cardinality(W)
      BY <3>1, FS_Subset
    <3>4. 3 * Cardinality(V) >= 2 * Cardinality(asked)
      BY <3>1, <3>2, <1>7, TwoThirds
    <3>5. 3 * Cardinality(W) >= 2 * Cardinality(asked)
      BY <3>1, <3>3, <3>4, <1>7
    <3> QED  BY <3>5 DEF Agrees, W
  <2>4. Agrees(a.height, a.fork)'
    BY <2>3, <1>1 DEF Agrees, Votes
  <2>5. HeadInv'
    BY <2>2, <2>4, <1>1, <1>7 DEF HeadInv
  <2> QED  BY <1>3, <1>4, <2>1, <2>5 DEF Inv, ClientInv
<1>9. CASE ~quorum /\ seen # asked /\ UNCHANGED <<result, cpc, cancelled>>
  <2>1. ClientType' /\ CallOK'
    BY <1>1, <1>4, <1>9 DEF Inv, ClientInv, ClientType, CallOK
  <2>2. HeadVerified'
    BY <1>1, <1>9 DEF Inv, ClientInv, HeadVerified
  <2>3. HeadInv'
    BY <1>1, <1>4, <1>6, <1>9 DEF HeadInv, Votes
  <2> QED  BY <1>3, <1>4, <2>1, <2>2, <2>3 DEF Inv, ClientInv
<1>10. CASE ~quorum /\ seen = asked /\ oks = {} /\ Return(Failed)
  <2>1. ClientType' /\ CallOK'
    BY <1>1, <1>4, <1>10, AnswerTypes DEF Return, Failed, Inv, ClientInv, ClientType, CallOK
  <2>2. HeadVerified' /\ HeadInv'
    BY <1>10 DEF Return, Failed, HeadVerified, HeadInv
  <2> QED  BY <1>3, <1>4, <2>1, <2>2 DEF Inv, ClientInv
<1>11. ASSUME ~quorum, seen = asked, NEW q \in highest, Return(found(q))
       PROVE  Inv'
  <2>1. ClientType' /\ CallOK' /\ HeadVerified'
    BY <1>5, <1>11
  <2>2. result'.height = answer[q].height /\ cpc' = "done"
    BY <1>11 DEF Return, Found
  <2>3. ASSUME NEW x \in asked
        PROVE  /\ answer[x].status # "none" /\ answer[x].height <= answer[q].height
               /\ answer[x].status = "ok" => ~Agrees(answer[x].height, answer[x].fork)
    <3>1. answer[x].status # "none" /\ x \in Servers /\ (answer[x].status # "ok" => answer[x].height = 0)
      BY <1>4, <1>11 DEF Inv, ClientInv, GoroutineOK
    <3>2. answer[q].height \in Nat
      BY <1>4 DEF Inv, ClientInv, ClientType, Answer
    <3>3. answer[x].height <= answer[q].height
      BY <3>1, <3>2, <1>11
    <3>4. ASSUME answer[x].status = "ok" PROVE ~Agrees(answer[x].height, answer[x].fork)
      <4> DEFINE k == Cardinality(Votes(asked, answer[x].height, answer[x].fork))
      <4>1. k < minHeadResponses(Cardinality(asked)) /\ k \in Nat
        BY <1>4, <1>6, <1>7, <1>11, <3>4
      <4>2. minHeadResponses(Cardinality(asked)) \in Nat
        BY <1>7 DEF minHeadResponses
      <4> HIDE DEF k
      <4>3. ~(3 * k >= 2 * Cardinality(asked))
        BY <4>1, <4>2, <1>7, TwoThirds
      <4> QED  BY <4>3 DEF Agrees, k
    <3> QED  BY <3>1, <3>3, <3>4
  <2>4. \A x \in asked : Agrees(answer[x].height, answer[x].fork)' <=> Agrees(answer[x].height, answer[x].fork)
    BY <1>1 DEF Agrees, Votes
  <2>5. HeadInv'
    BY <1>1, <1>7, <2>2, <2>3, <2>4 DEF HeadInv
  <2> QED  BY <1>3, <1>4, <2>1, <2>5 DEF Inv, ClientInv
<1> QED
  BY <1>2, <1>8, <1>9, <1>10, <1>11

-----------------------------------------------------------------------------
\* The invariant, and what follows from it.

\* The invariant always holds.
LEMMA Invariance == Spec => []Inv
<1>1. Init => Inv
  BY InvInit
<1>2. Inv /\ [Next]_vars => Inv'
  <2> SUFFICES ASSUME Inv, [Next]_vars PROVE Inv'
    OBVIOUS
  <2>1. CASE CallStep
    BY <2>1, CallKeeps
  <2>2. ASSUME NEW p \in Servers, Receive(p) PROVE Inv'
    <3>1. /\ gpc[p] = "waiting"
          /\ Push(p, IF resp[p].status = "ok" THEN Checked(p) ELSE Failed)
      BY <2>2 DEF Receive
    <3>2. resp[p].status = "ok" => \/ Checked(p) = Failed
                                   \/ Checked(p) \in Answer /\ Checked(p).status = "ok" /\ Good(p, Checked(p))
      BY <3>1, CheckedIsGood
    <3> QED  BY <3>1, <3>2, PushKeeps, AnswerTypes
  <2>3. ASSUME NEW p \in Servers, RequestFails(p) PROVE Inv'
    BY <2>3, PushKeeps, AnswerTypes DEF RequestFails
  <2>4. CASE \E p \in Servers : Goroutine(p) \/ RequestFails(p) \/ Collect(p)
    BY <2>2, <2>3, <2>4, SendKeeps, CollectHeadKeeps, CollectFirstKeeps DEF Goroutine, Collect
  <2>5. CASE Interrupt
    BY <2>5, InterruptKeeps
  <2>6. ASSUME NEW p \in Servers, HandlerStep(p), UNCHANGED clientVars PROVE Inv'
    BY <2>6, HandlerKeeps, ServerStepKeepsClient DEF Inv
  <2>7. CASE StoresChange
    BY <2>7, StoresKeep, ServerStepKeepsClient DEF Inv, StoresChange
  <2>8. CASE UNCHANGED vars
    <3>1. UNCHANGED <<serverVars, call, asked, gpc, answer>> /\ UNCHANGED clientVars
      BY <2>8 DEF vars, clientVars
    <3>2. ServerInv' /\ \A p \in Servers : GoroutineOK(p)'
      BY <3>1, CollectFrame
    <3>3. ClientType' /\ CallOK'
      BY <3>1 DEF clientVars, Inv, ClientInv, ClientType, CallOK
    <3>4. FirstInv' /\ HeadInv'
      <4>1. FirstInv'
        BY <3>1 DEF clientVars, Inv, ClientInv, FirstInv, IsHead
      <4>2. HeadInv'
        BY <3>1 DEF clientVars, Inv, ClientInv, HeadInv, Agrees, Votes, IsHead
      <4> QED  BY <4>1, <4>2
    <3>5. HeadVerified'
      BY <3>1 DEF clientVars, Inv, ClientInv, HeadVerified
    <3> QED  BY <3>2, <3>3, <3>4, <3>5 DEF Inv, ClientInv
  <2> QED
    BY <2>1, <2>4, <2>5, <2>6, <2>7, <2>8 DEF Next
<1> QED
  BY <1>1, <1>2, PTL DEF Spec

\* The types of the client and the servers; that every goroutine pushes once, and that
\* a call has a result exactly when it has returned.
THEOREM ExchangeTypes == Spec => []ExchangeTypeOK
<1>1. Inv => ExchangeTypeOK
  <2> SUFFICES ASSUME Inv PROVE ExchangeTypeOK
    OBVIOUS
  <2>1. ServerTypeOK
    <3>1. store \in [Servers -> Store] /\ changes \in 0..MaxChanges
      BY DEF Inv, ServerInv, ServerType, StoreType
    <3>2. hpc \in [Servers -> {"idle", "received"} \cup Serving]
      BY DEF Inv, ServerInv, ServerType, Labels, Serving
    <3>3. /\ snap \in [Servers -> [open : BOOLEAN, lo : 0..MaxHeight, hi : 0..MaxHeight]]
          /\ late \in [Servers -> BOOLEAN]
      BY DEF Inv, ServerInv, ServerType, Snapshot
    <3>4. ASSUME NEW p \in Servers
          PROVE  /\ req[p].origin \in 0..Width - 1 /\ upto[p] \in 0..Width - 1
                 /\ at[p] \in 0..MaxHeight /\ headThen[p] \in 0..MaxHeight
                 /\ resp[p].status \in {"none", "ok", "notFound", "reset"}
                 /\ resp[p].last \in 0..MaxHeight
      BY DEF Inv, ServerInv, ServerType, Request, Response
    <3>5. ASSUME NEW p \in Servers, hpc[p] \in Serving
          PROVE  upto[p] - req[p].origin \in 1..RangeLimit
      <4>1. req[p].origin < upto[p] /\ upto[p] - req[p].origin <= RangeLimit
        BY <3>5 DEF Inv, ServerInv, ServerOK, HandlerOK, Serving
      <4> QED  BY <3>4, <4>1, ServerAssumption
    <3> QED  BY <3>1, <3>2, <3>3, <3>4, <3>5 DEF ServerTypeOK
  <2>2. \A p \in Servers : answer[p].status \in {"none", "error", "ok"}
    BY DEF Inv, ClientInv, ClientType, GoroutineOK, Answer
  <2>3. \A p \in Servers : /\ (gpc[p] = "pushed") = (answer[p].status # "none")
                           /\ (gpc[p] = "none") = (p \notin asked)
    BY DEF Inv, ClientInv, GoroutineOK
  <2>4. (result.status # "none") = (cpc = "done") /\ cancelled = (cpc = "done")
    BY DEF Inv, ClientInv, CallOK, ClientType
  <2> QED  BY <2>1, <2>2, <2>3, <2>4 DEF ExchangeTypeOK, Inv, ClientInv, ClientType
<1> QED
  BY <1>1, Invariance, PTL

\* An answer of the server (server.go, handleRangeRequest) is what a peer may conclude
\* from it, however the store is appended to and pruned in between.
THEOREM ServerHonesty == Spec => []HonestAnswers
<1>1. Inv => HonestAnswers
  BY DEF Inv, ServerInv, ServerOK, Honest, HonestAnswers
<1> QED
  BY <1>1, Invariance, PTL

\* Get and GetByHeight (exchange.go, performRequest) return the header asked for, and
\* fail only when every trusted peer failed.
THEOREM Requests == Spec => []GetSucceeds
<1>1. Inv => GetSucceeds
  <2> SUFFICES ASSUME Inv, call.kind \in {"byHeight", "byHash"}
               PROVE  /\ result.status = "ok" => /\ result.height = call.height /\ result.fork \notin Foreign
                                                 /\ \E p \in asked : result.fork = Fork[p]
                      /\ result.status = "error" => \A p \in asked : answer[p].status = "error"
    BY DEF GetSucceeds
  <2>1. ~IsHead(call) /\ asked \subseteq Servers
    BY DEF IsHead, Inv, ClientInv, ClientType
  <2>2. ASSUME result.status = "ok"
        PROVE  /\ result.height = call.height /\ result.fork \notin Foreign
               /\ \E p \in asked : result.fork = Fork[p]
    <3>1. PICK p \in asked : result = answer[p]
      BY <2>1, <2>2 DEF Inv, ClientInv, FirstInv
    <3>2. Good(p, answer[p])
      BY <2>1, <2>2, <3>1 DEF Inv, ClientInv, GoroutineOK
    <3> QED  BY <3>1, <3>2 DEF Good
  <2> QED  BY <2>1, <2>2 DEF Inv, ClientInv, FirstInv
<1> QED
  BY <1>1, Invariance, PTL

\* A head returned for a trusted one was verified against it, and carries the soft
\* failure exactly if it has one (exchange.go, Head).
THEOREM HeadVerification == Spec => []HeadVerified
<1>1. Inv => HeadVerified
  BY DEF Inv, ClientInv
<1> QED
  BY <1>1, Invariance, PTL

\* Head never contradicts two thirds of the peers it asked, the late answers included.
\* Two sets of two thirds have a peer in common, which gave one answer.
THEOREM HeadAgreement == Spec => []HeadAgreed
<1>1. ASSUME Inv, NEW h, NEW f, NEW g, NEW e, Agrees(h, f), Agrees(g, e), asked # {}
      PROVE  h = g /\ f = e
  <2> DEFINE V == Votes(asked, h, f)
             W == Votes(asked, g, e)
  <2>1. V \in SUBSET asked /\ W \in SUBSET asked /\ asked \in SUBSET Servers
    BY <1>1 DEF Votes, Inv, ClientInv, ClientType
  <2>2. /\ IsFiniteSet(V) /\ IsFiniteSet(W) /\ IsFiniteSet(asked) /\ IsFiniteSet(V \cup W)
        /\ Cardinality(V) \in Nat /\ Cardinality(W) \in Nat /\ Cardinality(asked) \in Nat
        /\ Cardinality(V \cup W) \in Nat /\ Cardinality(V \cap W) \in Nat
    <3> HIDE DEF V, W
    <3>1. V \in SUBSET Servers /\ W \in SUBSET Servers /\ V \cup W \in SUBSET Servers /\ V \cap W \in SUBSET Servers
      BY <2>1
    <3> QED  BY <2>1, <3>1, ServerSets
  <2>3. Cardinality(asked) # 0
    BY <1>1, <2>2, FS_EmptySet
  <2>4. 3 * Cardinality(V) >= 2 * Cardinality(asked) /\ 3 * Cardinality(W) >= 2 * Cardinality(asked)
    BY <1>1 DEF Agrees
  <2> HIDE DEF V, W
  <2>5. Cardinality(V \cup W) = Cardinality(V) + Cardinality(W) - Cardinality(V \cap W)
    BY <2>2, FS_Union
  <2>6. Cardinality(V \cup W) <= Cardinality(asked)
    <3>1. V \cup W \in SUBSET asked
      BY <2>1
    <3> QED  BY <2>2, <3>1, FS_Subset
  <2>7. Cardinality(V \cap W) # 0
    <3>1. \A v, w, n, u, i \in Nat : (3 * v >= 2 * n /\ 3 * w >= 2 * n /\ n # 0 /\ u = v + w - i /\ u <= n) => i # 0
      OBVIOUS
    <3> QED  BY <2>2, <2>3, <2>4, <2>5, <2>6, <3>1
  <2>8. V \cap W # {}
    BY <2>7, FS_EmptySet
  <2> QED  BY <2>8 DEF V, W, Votes
<1>2. Inv => HeadAgreed
  <2> SUFFICES ASSUME Inv, IsHead(call), result.status = "ok"
               PROVE  /\ \A q \in asked : (answer[q].status = "ok" /\ Agrees(answer[q].height, answer[q].fork)) =>
                             (answer[q].height = result.height /\ answer[q].fork = result.fork)
                      /\ ~Agrees(result.height, result.fork) =>
                             \A q \in asked : answer[q].height <= result.height
    BY DEF HeadAgreed, Agrees
  <2>1. asked # {}
    BY DEF Inv, ClientInv, HeadInv
  <2>2. CASE Agrees(result.height, result.fork)
    BY <1>1, <2>1, <2>2
  <2>3. CASE ~Agrees(result.height, result.fork)
    BY <2>3 DEF Inv, ClientInv, HeadInv
  <2> QED  BY <2>2, <2>3
<1> QED
  BY <1>2, Invariance, PTL
=============================================================================
