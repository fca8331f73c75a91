------------------------------- MODULE Session -------------------------------
(***************************************************************************)
(* One p2p session (src/p2p/session.go): getRangeByHeight cuts a range into *)
(* requests, handleOutgoingRequests gives each to a peer of the queue, and  *)
(* a goroutine per request (doRequest) delivers what the peer answers and   *)
(* hands the rest back.  Beside it run the peer tracker                     *)
(* (src/p2p/peer_tracker.go), which follows connects and disconnects, the   *)
(* caller, who may give up, and Exchange.Stop.                              *)
(*                                                                          *)
(* A header is its height and a request or an answer a span <<first, last>> *)
(* of heights.  Scores only decide which queued peer goes first; any may.   *)
(***************************************************************************)
EXTENDS Integers, Sequences, FiniteSets

CONSTANTS
    Peers,
    Connected,   \* peers that are connected and tracked at the start
    Amount,      \* headers asked for, heights 1..Amount
    PerPeer,     \* MaxHeadersPerRangeRequest
    MaxTrouble   \* bound on connects, disconnects, bad answers, giving up and stopping

Heights == 1..Amount
Nothing == <<1, 0>>
Spans == {Nothing} \cup {s \in Heights \X Heights : s[1] <= s[2]}

ASSUME SessionAssumption ==
    /\ Connected \subseteq Peers
    /\ Amount \in Nat \ {0} /\ PerPeer \in Nat \ {0}
    /\ MaxTrouble \in Nat

VARIABLES
    connected,   \* peers the network is connected to
    blocked,     \* peers the connection gater refuses
    events,      \* per peer, connectedness events on their way to the tracker
    tracked,     \* trackedPeers
    newPeer,     \* the channel newPeerCh returned last has been closed
    queue,       \* per peer, how often the peer queue has it
    havePeer,    \* the queue's signal
    known,       \* peers the session knows
    delayed,     \* peers waiting for their requeue timer
    reqCh, result,  \* channels
    ctxDone,     \* the caller's context is done
    closed,      \* the session's context is done
    mpc,         \* getRangeByHeight
    todo,        \* requests it has not sent to reqCh
    headers,     \* the spans it has received
    hpc,         \* handleOutgoingRequests and nextPeer
    hreq,        \* the request in its hand
    hpeers,      \* connected peers it has found
    workers,     \* goroutines in doRequest
    trouble

netVars == <<connected, blocked, events, tracked>>
queueVars == <<queue, havePeer, known, delayed>>
chanVars == <<reqCh, result>>
ctxVars == <<ctxDone, closed>>
mainVars == <<mpc, todo, headers>>
handVars == <<hpc, hreq, hpeers>>
vars == <<netVars, newPeer, queueVars, chanVars, ctxVars, mainVars, handVars, workers, trouble>>

Size(s) == s[2] - s[1] + 1
In(h, s) == s[1] <= h /\ h <= s[2]

\* prepareRequests: the span in pieces of size, the last one shorter.
prepareRequests(first, last, size) ==
    [i \in 1..((last - first) \div size) + 1 |->
        <<first + (i - 1) * size,
          IF first + i * size - 1 <= last THEN first + i * size - 1 ELSE last>>]

\* Both channels have room for one entry per request.
Cap == Len(prepareRequests(1, Amount, PerPeer))

Worker == [peer : Peers, req : Spans, got : Spans, err : {"none", "notFound", "empty", "invalid"},
           pc : {"sent", "rest", "deliver", "give", "back", "release", "forget"}]

\* The variables keep their types: no span leaves the range (prepareRequests) and no channel
\* holds more than its capacity.
SessionTypeOK ==
    /\ {connected, blocked, tracked, known, delayed, hpeers} \subseteq SUBSET Peers
    /\ events \in [Peers -> Seq({"up", "down"})]
    /\ {newPeer, havePeer, ctxDone, closed} \subseteq BOOLEAN
    /\ queue \in [Peers -> Nat]
    /\ reqCh \in Seq(Spans) /\ Len(reqCh) <= Cap
    /\ result \in Seq(Spans) /\ Len(result) <= Cap
    /\ mpc \in {"take", "read", "wait", "push", "collect", "returned", "failed"}
    /\ todo \in Seq(Spans) /\ headers \in Seq(Spans)
    /\ hpc \in {"off", "select", "take", "pop", "read", "add", "popAgain", "wait", "done"}
    /\ hreq \in Spans
    /\ workers \subseteq Worker
    /\ trouble \in 0..MaxTrouble

Init ==
    /\ connected = Connected /\ tracked = Connected /\ blocked = {}
    /\ events = [p \in Peers |-> <<>>]
    /\ newPeer = FALSE
    /\ queue = [p \in Peers |-> 0] /\ havePeer = FALSE /\ known = {} /\ delayed = {}
    /\ reqCh = <<>> /\ result = <<>> /\ ctxDone = FALSE /\ closed = FALSE
    /\ mpc = "take" /\ todo = <<>> /\ headers = <<>>
    /\ hpc = "off" /\ hreq = Nothing /\ hpeers = {}
    /\ workers = {} /\ trouble = 0

-----------------------------------------------------------------------------
\* The network and the peer tracker.

\* What may go wrong while the range is asked for, as often as the bound allows.
Trouble ==
    /\ mpc \notin {"returned", "failed"} /\ trouble < MaxTrouble
    /\ trouble' = trouble + 1

Connect(p) ==
    /\ p \notin connected \cup blocked /\ Trouble
    /\ connected' = connected \cup {p}
    /\ events' = [events EXCEPT ![p] = Append(@, "up")]
    /\ UNCHANGED <<blocked, tracked, newPeer, queueVars, chanVars, ctxVars, mainVars, handVars,
                   workers>>

Disconnect(p) ==
    /\ p \in connected /\ Trouble
    /\ connected' = connected \ {p}
    /\ events' = [events EXCEPT ![p] = Append(@, "down")]
    /\ UNCHANGED <<blocked, tracked, newPeer, queueVars, chanVars, ctxVars, mainVars, handVars,
                   workers>>

\* track: connected closes the channel, waking whoever holds it; disconnected does not.
Track(p) ==
    /\ events[p] # <<>>
    /\ events' = [events EXCEPT ![p] = Tail(@)]
    /\ \/ /\ Head(events[p]) = "up"
          /\ tracked' = tracked \cup {p}
          /\ newPeer' = (newPeer \/ p \notin tracked)
       \/ /\ Head(events[p]) = "down"
          /\ tracked' = tracked \ {p}
          /\ newPeer' = newPeer
    /\ UNCHANGED <<connected, blocked, queueVars, chanVars, ctxVars, mainVars, handVars, workers,
                   trouble>>

\* The peer queue: push and signal.
Push(ps) ==
    /\ queue' = [p \in Peers |-> IF p \in ps THEN queue[p] + 1 ELSE queue[p]]
    /\ havePeer' = (havePeer \/ ps # {})

\* Mutant of addPeers: peers the session knows are queued again.
addPeersAll(ps) ==
    /\ Push(ps)
    /\ known' = known \cup ps

addPeers(ps) ==
    /\ Push(ps \ known)
    /\ known' = known \cup ps

\* The caller gives up; Exchange.Stop.
Cancel ==
    /\ ~ctxDone /\ Trouble
    /\ ctxDone' = TRUE
    /\ UNCHANGED <<netVars, newPeer, queueVars, chanVars, closed, mainVars, handVars, workers>>

Stop ==
    /\ ~closed /\ Trouble
    /\ closed' = TRUE
    /\ UNCHANGED <<netVars, newPeer, queueVars, chanVars, ctxDone, mainVars, handVars, workers>>

-----------------------------------------------------------------------------
\* getRangeByHeight

\* waitPeers: the channel is taken before the peers are read.
TakeNewPeer ==
    /\ mpc = "take"
    /\ newPeer' = FALSE
    /\ mpc' = "read"
    /\ UNCHANGED <<netVars, queueVars, chanVars, ctxVars, todo, headers, handVars, workers, trouble>>

\* With peers there are requests, and the handler starts.
ReadPeers ==
    /\ mpc = "read"
    /\ \/ /\ tracked # {}
          /\ addPeers(tracked)
          /\ todo' = prepareRequests(1, Amount, PerPeer)
          /\ hpc' = "select"
          /\ mpc' = "push"
       \/ /\ tracked = {}
          /\ mpc' = "wait" /\ UNCHANGED <<queue, havePeer, known, todo, hpc>>
    /\ UNCHANGED <<netVars, newPeer, delayed, chanVars, ctxVars, headers, hreq, hpeers, workers,
                   trouble>>

WaitPeers ==
    /\ mpc = "wait" /\ newPeer
    /\ mpc' = "take"
    /\ UNCHANGED <<netVars, newPeer, queueVars, chanVars, ctxVars, todo, headers, handVars, workers,
                   trouble>>

PushRequest ==
    /\ mpc = "push"
    /\ \/ /\ todo # <<>> /\ Len(reqCh) < Cap
          /\ reqCh' = Append(reqCh, Head(todo))
          /\ todo' = Tail(todo) /\ mpc' = mpc
       \/ /\ todo = <<>>
          /\ mpc' = "collect" /\ UNCHANGED <<reqCh, todo>>
    /\ UNCHANGED <<netVars, newPeer, queueVars, result, ctxVars, headers, handVars, workers, trouble>>

Count(ss) == Cardinality({x \in (DOMAIN ss) \X Heights : In(x[2], ss[x[1]])})

\* A result; with the last one the range is sorted and returned, which closes the session.
Collect ==
    /\ mpc = "collect" /\ result # <<>>
    /\ headers' = Append(headers, Head(result))
    /\ result' = Tail(result)
    /\ \/ Count(headers') >= Amount /\ mpc' = "returned" /\ closed' = TRUE
       \/ Count(headers') < Amount /\ UNCHANGED <<mpc, closed>>
    /\ UNCHANGED <<netVars, newPeer, queueVars, reqCh, ctxDone, todo, handVars, workers, trouble>>

\* The context or the session is done: an error, which closes the session as well.
GiveUp ==
    /\ mpc \in {"wait", "collect"} /\ (ctxDone \/ closed)
    /\ mpc' = "failed" /\ closed' = TRUE
    /\ UNCHANGED <<netVars, newPeer, queueVars, chanVars, ctxDone, todo, headers, handVars, workers,
                   trouble>>

MainStep == TakeNewPeer \/ ReadPeers \/ WaitPeers \/ PushRequest \/ Collect \/ GiveUp

-----------------------------------------------------------------------------
\* handleOutgoingRequests and nextPeer

Ended == ctxDone \/ closed

SelectRequest ==
    /\ hpc = "select" /\ reqCh # <<>>
    /\ hreq' = Head(reqCh) /\ reqCh' = Tail(reqCh)
    /\ hpc' = "take"
    /\ UNCHANGED <<netVars, newPeer, queueVars, result, ctxVars, mainVars, hpeers, workers, trouble>>

\* nextPeer takes the tracker's channel before it looks for a peer.
TakePeerCh ==
    /\ hpc = "take"
    /\ newPeer' = FALSE
    /\ hpc' = "pop"
    /\ UNCHANGED <<netVars, queueVars, chanVars, ctxVars, mainVars, hreq, hpeers, workers, trouble>>

\* The request goes to a queued peer.
DoRequest ==
    /\ hpc \in {"pop", "popAgain"}
    /\ \E p \in Peers :
        /\ queue[p] > 0
        /\ queue' = [queue EXCEPT ![p] = @ - 1]
        /\ workers' = workers \cup
               {[peer |-> p, req |-> hreq, got |-> Nothing, err |-> "none", pc |-> "sent"]}
    /\ hreq' = Nothing /\ hpc' = "select"
    /\ UNCHANGED <<netVars, newPeer, havePeer, known, delayed, chanVars, ctxVars, mainVars, hpeers,
                   trouble>>

NoQueuedPeer ==
    /\ hpc \in {"pop", "popAgain"} /\ \A p \in Peers : queue[p] = 0
    /\ hpc' = IF hpc = "pop" THEN "read" ELSE "wait"
    /\ UNCHANGED <<netVars, newPeer, queueVars, chanVars, ctxVars, mainVars, hreq, hpeers, workers,
                   trouble>>

ReadConnected ==
    /\ hpc = "read"
    /\ hpeers' = tracked \cap connected
    /\ hpc' = "add"
    /\ UNCHANGED <<netVars, newPeer, queueVars, chanVars, ctxVars, mainVars, hreq, workers, trouble>>

AddConnected ==
    /\ hpc = "add"
    /\ addPeers(hpeers)
    /\ hpeers' = {} /\ hpc' = "popAgain"
    /\ UNCHANGED <<netVars, newPeer, delayed, chanVars, ctxVars, mainVars, hreq, workers, trouble>>

\* The select of nextPeer: a push to the queue or a new peer; then from the start.
Awake ==
    /\ hpc = "wait"
    /\ \/ havePeer /\ havePeer' = FALSE
       \/ newPeer /\ UNCHANGED havePeer
    /\ hpc' = "take"
    /\ UNCHANGED <<netVars, newPeer, queue, known, delayed, chanVars, ctxVars, mainVars, hreq, hpeers,
                   workers, trouble>>

HandlerEnds ==
    /\ hpc \in {"select", "wait"} /\ Ended
    /\ hpc' = "done" /\ hreq' = Nothing
    /\ UNCHANGED <<netVars, newPeer, queueVars, chanVars, ctxVars, mainVars, hpeers, workers, trouble>>

HandlerStep ==
    \/ SelectRequest \/ TakePeerCh \/ DoRequest \/ NoQueuedPeer \/ ReadConnected \/ AddConnected
    \/ Awake \/ HandlerEnds

-----------------------------------------------------------------------------
\* doRequest

Become(w, v) == workers' = (workers \ {w}) \cup {v}
Exit(w) == workers' = workers \ {w}

\* The peer's answer: some of the headers from the first one on.
Answered(w) ==
    /\ w.pc = "sent" /\ w.peer \in connected
    /\ \E last \in w.req[1]..w.req[2] :
        Become(w, [w EXCEPT !.got = <<w.req[1], last>>,
                            !.pc = IF last < w.req[2] THEN "rest" ELSE "deliver"])
    /\ UNCHANGED <<netVars, newPeer, queueVars, chanVars, ctxVars, mainVars, handVars, trouble>>

\* No stream, a reset or a timeout before the first header.
NoAnswer(w) ==
    /\ w.pc = "sent"
    /\ \/ (w.peer \notin connected \/ ctxDone) /\ UNCHANGED trouble
       \/ Trouble
    /\ Become(w, [w EXCEPT !.err = "empty", !.pc = "back"])
    /\ UNCHANGED <<netVars, newPeer, queueVars, chanVars, ctxVars, mainVars, handVars>>

\* The peer does not have the range yet.
NotFound(w) ==
    /\ w.pc = "sent" /\ w.peer \in connected /\ Trouble
    /\ Become(w, [w EXCEPT !.err = "notFound", !.pc = "back"])
    /\ UNCHANGED <<netVars, newPeer, queueVars, chanVars, ctxVars, mainVars, handVars>>

\* The peer is blocked and disconnected; each of the two may fail, which is only logged.
blockPeer(p) ==
    /\ blocked' \in {blocked, blocked \cup {p}}
    /\ \/ connected' = connected \ {p} /\ events' = [events EXCEPT ![p] = Append(@, "down")]
       \/ UNCHANGED <<connected, events>>

\* Headers that are not the ones asked for or do not verify.
Invalid(w) ==
    /\ w.pc = "sent" /\ w.peer \in connected /\ Trouble
    /\ blockPeer(w.peer)
    /\ Become(w, [w EXCEPT !.err = "invalid", !.pc = "back"])
    /\ UNCHANGED <<tracked, newPeer, queueVars, chanVars, ctxVars, mainVars, handVars>>

\* Mutant of HandBack: the request is not sent to reqCh again.
HandBackNot(w) ==
    /\ w.pc = "back"
    /\ Become(w, [w EXCEPT !.pc = "release"])
    /\ UNCHANGED <<netVars, newPeer, queueVars, chanVars, ctxVars, mainVars, handVars, trouble>>

HandBack(w) ==
    /\ w.pc = "back"
    /\ \/ /\ Len(reqCh) < Cap
          /\ reqCh' = Append(reqCh, w.req)
          /\ Become(w, [w EXCEPT !.pc = "release"])
       \/ closed /\ Exit(w) /\ UNCHANGED reqCh
    /\ UNCHANGED <<netVars, newPeer, queueVars, result, ctxVars, mainVars, handVars, trouble>>

\* The peer is queued, queued after a delay if it is connected, or about to be forgotten.
Release(w) ==
    /\ w.pc = "release"
    /\ \/ /\ w.err = "notFound"
          /\ Push({w.peer}) /\ Exit(w) /\ UNCHANGED delayed
       \/ /\ w.err = "empty" /\ w.peer \in connected
          /\ delayed' = delayed \cup {w.peer} /\ Exit(w) /\ UNCHANGED <<queue, havePeer>>
       \/ /\ w.err = "invalid" \/ (w.err = "empty" /\ w.peer \notin connected)
          /\ Become(w, [w EXCEPT !.pc = "forget"]) /\ UNCHANGED <<queue, havePeer, delayed>>
    /\ UNCHANGED <<netVars, newPeer, known, chanVars, ctxVars, mainVars, handVars, trouble>>

\* Mutant of forgetPeer: a waiting nextPeer is not woken.
forgetPeerSilent(w) ==
    /\ w.pc = "forget"
    /\ known' = known \ {w.peer}
    /\ Exit(w)
    /\ UNCHANGED <<netVars, newPeer, queue, havePeer, delayed, chanVars, ctxVars, mainVars, handVars,
                   trouble>>

\* By now the peer may be back, and nextPeer have skipped it as known: the signal wakes it.
forgetPeer(w) ==
    /\ w.pc = "forget"
    /\ known' = known \ {w.peer}
    /\ havePeer' = TRUE
    /\ Exit(w)
    /\ UNCHANGED <<netVars, newPeer, queue, delayed, chanVars, ctxVars, mainVars, handVars, trouble>>

\* The timer of a delayed peer; it runs after the goroutine that set it.
Requeue(p) ==
    /\ p \in delayed
    /\ delayed' = delayed \ {p} /\ Push({p})
    /\ UNCHANGED <<netVars, newPeer, known, chanVars, ctxVars, mainVars, handVars, workers, trouble>>

\* What a partial answer leaves becomes a request of its own.
AskRest(w) ==
    /\ w.pc = "rest"
    /\ \/ /\ Len(reqCh) < Cap
          /\ reqCh' = Append(reqCh,
                 prepareRequests(w.got[2] + 1, w.req[2], Size(w.req))[1])
          /\ Become(w, [w EXCEPT !.pc = "deliver"])
       \/ closed /\ Exit(w) /\ UNCHANGED reqCh
    /\ UNCHANGED <<netVars, newPeer, queueVars, result, ctxVars, mainVars, handVars, trouble>>

\* A plain send: nothing ends it but room in the channel.
Deliver(w) ==
    /\ w.pc = "deliver" /\ Len(result) < Cap
    /\ result' = Append(result, w.got)
    /\ Become(w, [w EXCEPT !.pc = "give"])
    /\ UNCHANGED <<netVars, newPeer, queueVars, reqCh, ctxVars, mainVars, handVars, trouble>>

GiveBack(w) ==
    /\ w.pc = "give"
    /\ Push({w.peer}) /\ Exit(w)
    /\ UNCHANGED <<netVars, newPeer, known, delayed, chanVars, ctxVars, mainVars, handVars, trouble>>

WorkerStep(p) ==
    \E w \in {v \in workers : v.peer = p} :
        \/ Answered(w) \/ NoAnswer(w) \/ NotFound(w) \/ Invalid(w) \/ HandBack(w) \/ Release(w)
        \/ forgetPeer(w) \/ AskRest(w) \/ Deliver(w) \/ GiveBack(w)

-----------------------------------------------------------------------------
Next ==
    \/ MainStep \/ HandlerStep
    \/ \E p \in Peers : WorkerStep(p) \/ Requeue(p) \/ Track(p) \/ Connect(p) \/ Disconnect(p)
    \/ Cancel \/ Stop

\* Goroutines run, requests have a timeout, timers fire and events are handled until the
\* exchange stops.  Nobody has to connect, to disconnect or to give up.
Fairness ==
    /\ WF_vars(MainStep) /\ WF_vars(HandlerStep)
    /\ \A p \in Peers : WF_vars(WorkerStep(p)) /\ WF_vars(Requeue(p)) /\ WF_vars(~closed /\ Track(p))

SessionSpec == Init /\ [][Next]_vars /\ Fairness

-----------------------------------------------------------------------------
\* What a worker still has to bring home.
Work(w) ==
    CASE w.pc \in {"sent", "back", "rest"} -> w.req
      [] w.pc = "deliver" -> w.got
      [] OTHER -> Nothing

Holding(h, ss) == Cardinality({i \in DOMAIN ss : In(h, ss[i])})

Holders(h) ==
    Holding(h, todo) + Holding(h, reqCh) + Holding(h, <<hreq>>) + Holding(h, result)
        + Holding(h, headers) + Cardinality({w \in workers : In(h, Work(w))})

(* No header of the range is lost or asked for twice: while the session runs, each is in     *)
(* exactly one place (requests to send, reqCh, the handler, a goroutine, result, received),  *)
(* through every failure and partial answer; and getRangeByHeight returns each exactly once. *)
NothingLost ==
    /\ mpc \in {"push", "collect"} /\ ~Ended => (\A h \in Heights : Holders(h) = 1)
    /\ mpc = "returned" => \A h \in Heights : Holding(h, headers) = 1

(* A peer is at most once in the queue, in flight or waiting for its requeue: the comment of *)
(* known, session.go:52, and so it never serves two requests of a session at the same time.  *)
PeerOnce ==
    \A p \in Peers :
        queue[p] + Cardinality({w \in workers : w.peer = p}) + (IF p \in delayed THEN 1 ELSE 0) <= 1

(* If a peer stays connected from some point on, or the caller gives up, or the exchange     *)
(* stops, getRangeByHeight returns: neither a wake-up nor a request is lost and its sends to *)
(* reqCh never block; after a range the handler and every goroutine of the session end.      *)
Served ==
    (<>[](connected # {}) \/ <>Ended) =>
        <>(mpc = "failed" \/ (mpc = "returned" /\ hpc = "done" /\ workers = {}))
=============================================================================
