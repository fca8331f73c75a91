------------------------------ MODULE Exchange ------------------------------
(***************************************************************************)
(* p2p.Exchange (src/p2p/exchange.go): one call of the client, with a       *)
(* goroutine per peer it asks, composed with the handlers of Server.  The   *)
(* goroutines push into a channel with room for all of them, so a push      *)
(* never blocks and the order of arrival is any order.                      *)
(*                                                                          *)
(* A stream may break at any time, and the call may be interrupted by its   *)
(* context or by Stop.  Calls of kind "range" are one request of a session. *)
(***************************************************************************)
EXTENDS Server

CONSTANTS
    Trusted,        \* the peers NewExchange was given
    Tracked,        \* sets of peers the peer tracker may hold
    Calls,          \* the calls a client may make
    Foreign,        \* chains with another ID than the one the client is configured with (one always is)
    TrustDistance,  \* headers further above a trusted one are not verifiable
    MaxUntrusted    \* maxUntrustedHeadRequests

ASSUME ExchangeAssumption ==
    /\ Calls \subseteq [kind : {"head", "trustedHead", "byHeight", "byHash", "range"},
                        height : 0..Width - 1, fork : Nat, amount : 0..Width - 1]
    /\ Trusted \subseteq Servers /\ Tracked \subseteq SUBSET Servers
    /\ TrustDistance \in Nat \ {0} /\ MaxUntrusted \in Nat \ {0}

VARIABLES
    call,       \* kind, height, chain and amount; for trustedHead the trusted header
    cpc,        \* the calling goroutine
    asked,      \* the peers it asks
    gpc,        \* the goroutine of each peer
    answer,     \* what it pushed
    got,        \* the peers whose push was received
    result,     \* what the call returned
    cancelled   \* reqCtx is done

clientVars == <<call, cpc, asked, gpc, answer, got, result, cancelled>>
vars == <<serverVars, clientVars>>

NoCall == [kind |-> "none", height |-> 0, fork |-> 0, amount |-> 0]
Nothing == [status |-> "none", height |-> 0, fork |-> 0, soft |-> FALSE]
Failed == [status |-> "error", height |-> 0, fork |-> 0, soft |-> FALSE]
Interrupted == [status |-> "interrupted", height |-> 0, fork |-> 0, soft |-> FALSE]
Found(h, f, s) == [status |-> "ok", height |-> h, fork |-> f, soft |-> s]

ExchangeTypeOK ==
    /\ ServerTypeOK
    /\ call \in Calls \cup {NoCall}
    /\ cpc \in {"idle", "collecting", "done"}
    /\ got \subseteq asked /\ asked \subseteq Servers
    /\ gpc \in [Servers -> {"none", "dialing", "waiting", "pushed"}]
    /\ \A p \in Servers : /\ answer[p].status \in {"none", "error", "ok"}
                          /\ (gpc[p] = "pushed") = (answer[p].status # "none")
                          /\ (gpc[p] = "none") = (p \notin asked)
    /\ (result.status # "none") = (cpc = "done")
    /\ cancelled = (cpc = "done")

IsHead(c) == c.kind \in {"head", "trustedHead"}

\* Mutant of minHeadResponses: half of the peers.
minHeadResponsesHalf(n) == (n + 1) \div 2

\* ceil(2n/3) from three peers on
minHeadResponses(n) == IF n <= 2 THEN n ELSE (2 * n + 2) \div 3

\* header.Verify of a header on chain f against the trusted header of the call: known
\* heights fail, a wrong header fails hard next to the trusted one and softly above.
VerifyHeader(c, h, f) ==
    CASE f \in Foreign \/ h <= c.height -> "hard"
      [] f \notin Foreign /\ h = c.height + 1 -> IF f = c.fork THEN "ok" ELSE "hard"
      [] OTHER -> IF f = c.fork /\ h - c.height <= TrustDistance THEN "ok" ELSE "soft"

-----------------------------------------------------------------------------
\* The call.

Return(r) ==
    /\ result' = r
    /\ cpc' = "done"
    /\ cancelled' = TRUE

\* trustedPeers, or with a trusted head some of the tracked peers when there are any.
Peers(c, tracked) ==
    CASE c.kind = "range" -> {{p} : p \in Servers}
      [] c.kind = "trustedHead" /\ tracked # {} ->
           {S \in SUBSET tracked : \/ Cardinality(S) = MaxUntrusted
                                   \/ (S = tracked /\ Cardinality(S) < MaxUntrusted)}
      [] OTHER -> {Trusted}

\* Height 0 is refused; otherwise one goroutine per peer is started.
Call(c, S) ==
    /\ cpc = "idle"
    /\ call' = c
    /\ IF (c.kind = "byHeight" /\ c.height = 0) \/ S = {}
         THEN Return(Failed) /\ UNCHANGED <<asked, gpc>>
         ELSE /\ asked' = S
              /\ cpc' = "collecting"
              /\ gpc' = [p \in Servers |-> IF p \in S THEN "dialing" ELSE "none"]
              /\ UNCHANGED <<result, cancelled>>
    /\ UNCHANGED <<serverVars, answer, got>>

RequestOf(c) ==
    CASE IsHead(c) -> RangeRequest(0, 1)
      [] c.kind = "byHeight" -> RangeRequest(c.height, 1)
      [] c.kind = "byHash" -> HashRequest(c.height, c.fork)
      [] c.kind = "range" -> RangeRequest(c.height, c.amount)

\* sendMessage: the stream is opened and the request written.
Send(p) ==
    /\ gpc[p] = "dialing" /\ ~cancelled
    /\ gpc' = [gpc EXCEPT ![p] = "waiting"]
    /\ hpc' = [hpc EXCEPT ![p] = "received"]
    /\ req' = [req EXCEPT ![p] = RequestOf(call)]
    /\ headThen' = [headThen EXCEPT ![p] = store[p].head]
    /\ UNCHANGED <<store, changes, upto, snap, at, late, resp>>
    /\ UNCHANGED <<call, cpc, asked, answer, got, result, cancelled>>

\* Mutant of Push: the channel has no buffer.
PushUnbuffered(p, a) ==
    /\ cpc = "collecting"
    /\ gpc' = [gpc EXCEPT ![p] = "pushed"]
    /\ answer' = [answer EXCEPT ![p] = a]
    /\ UNCHANGED <<serverVars, call, cpc, asked, got, result, cancelled>>

Push(p, a) ==
    /\ gpc' = [gpc EXCEPT ![p] = "pushed"]
    /\ answer' = [answer EXCEPT ![p] = a]
    /\ UNCHANGED <<serverVars, call, cpc, asked, got, result, cancelled>>

\* The stream cannot be opened or breaks.
RequestFails(p) ==
    /\ gpc[p] \in {"dialing", "waiting"}
    /\ Push(p, Failed)

\* Mutant of Checked: the head is not verified.
CheckedNever(p) == Found(resp[p].first, Fork[p], FALSE)

\* What the goroutine makes of a header: the chain ID is validated and, if a trusted
\* head was given, a head is verified against it.
Checked(p) ==
    LET h == resp[p].first
        verdict == VerifyHeader(call, h, Fork[p])
    IN  CASE Fork[p] \in Foreign -> Failed
          [] Fork[p] \notin Foreign /\ call.kind # "trustedHead" -> Found(h, Fork[p], FALSE)
          [] OTHER -> IF verdict = "hard" THEN Failed ELSE Found(h, Fork[p], verdict = "soft")

\* The response is read; NOT_FOUND and a reset stream are errors.
Receive(p) ==
    /\ gpc[p] = "waiting" /\ hpc[p] = "idle"
    /\ Push(p, IF resp[p].status = "ok" THEN Checked(p) ELSE Failed)

\* The loop of Head: counter[hash] and softErrs[hash].
Votes(S, h, f) == {q \in S : answer[q].status = "ok" /\ answer[q].height = h /\ answer[q].fork = f}
SoftErr(S, h, f) == \E q \in Votes(S, h, f) : answer[q].soft

CollectHead(p) ==
    LET seen == got \cup {p}
        a == answer[p]
        oks == {q \in seen : answer[q].status = "ok"}
        highest == {q \in oks : \A r \in oks : answer[r].height <= answer[q].height}
    IN  /\ cpc = "collecting" /\ IsHead(call)
        /\ p \in asked \ got /\ gpc[p] = "pushed"
        /\ got' = seen
        /\ CASE a.status = "ok" /\ Cardinality(Votes(seen, a.height, a.fork))
                                     >= minHeadResponses(Cardinality(asked)) ->
                  Return(Found(a.height, a.fork, SoftErr(seen, a.height, a.fork)))
             [] OTHER ->
                  \/ seen # asked /\ UNCHANGED <<result, cpc, cancelled>>
                  \/ seen = asked /\ oks = {} /\ Return(Failed)
                  \/ /\ seen = asked
                     /\ \E q \in highest :
                           Return(Found(answer[q].height, answer[q].fork,
                                        SoftErr(seen, answer[q].height, answer[q].fork)))
        /\ UNCHANGED <<serverVars, call, asked, gpc, answer>>

\* The hash of what arrived is compared with the one asked for.
Expected(a) == call.kind = "byHash" => (a.height = call.height /\ a.fork = call.fork)

\* Mutant of CollectFirst: the first answer ends the call.
CollectFirstAny(p) ==
    /\ cpc = "collecting" /\ ~IsHead(call)
    /\ p \in asked \ got /\ gpc[p] = "pushed"
    /\ got' = got \cup {p}
    /\ Return(answer[p])
    /\ UNCHANGED <<serverVars, call, asked, gpc, answer>>

\* performRequest: the first success ends the call, or the last error.
CollectFirst(p) ==
    /\ cpc = "collecting" /\ ~IsHead(call)
    /\ p \in asked \ got /\ gpc[p] = "pushed"
    /\ got' = got \cup {p}
    /\ \/ answer[p].status = "ok" /\ Return(IF Expected(answer[p]) THEN answer[p] ELSE Failed)
       \/ answer[p].status # "ok" /\ got' = asked /\ Return(Failed)
       \/ answer[p].status # "ok" /\ got' # asked /\ UNCHANGED <<result, cpc, cancelled>>
    /\ UNCHANGED <<serverVars, call, asked, gpc, answer>>

\* The context of the call ends, or the exchange is stopped.
Interrupt ==
    /\ cpc = "collecting"
    /\ Return(Interrupted)
    /\ UNCHANGED <<serverVars, call, asked, gpc, answer, got>>

Init ==
    /\ ServerInit
    /\ call = NoCall /\ cpc = "idle" /\ asked = {} /\ got = {}
    /\ gpc = [p \in Servers |-> "none"]
    /\ answer = [p \in Servers |-> Nothing]
    /\ result = Nothing /\ cancelled = FALSE

CallStep ==
    \E c \in Calls, tracked \in Tracked : \E S \in Peers(c, tracked) : Call(c, S)

Goroutine(p) == Send(p) \/ Receive(p) \/ (cancelled /\ gpc[p] = "dialing" /\ RequestFails(p))
Collect(p) == CollectHead(p) \/ CollectFirst(p)

\* A store matters while its server handles a request, and what of it is pending
\* from the opening of the transaction on.
StoresChange ==
    \E p \in Servers : /\ \/ hpc[p] # "idle" /\ StoreStep(p)
                          \/ hpc[p] \in {"open", "last", "walk"} /\ StoreFlushes(p)
                       /\ UNCHANGED clientVars

Next ==
    \/ CallStep
    \/ \E p \in Servers : Goroutine(p) \/ RequestFails(p) \/ Collect(p)
    \/ Interrupt
    \/ \E p \in Servers : HandlerStep(p) /\ UNCHANGED clientVars
    \/ StoresChange

Spec == Init /\ [][Next]_vars

\* Goroutines run and handlers end: a server bounds its reads with RequestTimeout.
FairSpec ==
    /\ Spec
    /\ \A p \in Servers : /\ WF_vars(Goroutine(p)) /\ WF_vars(Collect(p))
                          /\ WF_vars(HandlerStep(p) /\ UNCHANGED clientVars)

-----------------------------------------------------------------------------
\* Head never contradicts its peers (exchange.go, Head): no header other than the one
\* it returned was answered by two thirds of those it asked, the answers that arrive
\* after it returned included; without such agreement nothing higher was answered.
HeadAgreed ==
    LET Agree(h, f) == 3 * Cardinality(Votes(asked, h, f)) >= 2 * Cardinality(asked)
    IN  (IsHead(call) /\ result.status = "ok") =>
          /\ \A q \in asked : LET a == answer[q] IN
                (a.status = "ok" /\ Agree(a.height, a.fork)) =>
                    (a.height = result.height /\ a.fork = result.fork)
          /\ ~Agree(result.height, result.fork) =>
                \A q \in asked : answer[q].height <= result.height

\* A head returned for a trusted one (exchange.go, Head): it is above it, is never a
\* header that verification refuted, and carries the soft failure exactly if it has one,
\* whichever of the peers that answered it came first.
HeadVerified ==
    (call.kind = "trustedHead" /\ result.status = "ok") =>
        /\ result.height > call.height
        /\ VerifyHeader(call, result.height, result.fork) =
              (IF result.soft THEN "soft" ELSE "ok")

\* Get and GetByHeight (performRequest) return the header they were asked for, and fail
\* only if every trusted peer failed: one slow, pruned or broken peer never fails them.
GetSucceeds ==
    call.kind \in {"byHeight", "byHash"} =>
        /\ result.status = "ok" => /\ result.height = call.height /\ result.fork \notin Foreign
                                   /\ \E p \in asked : result.fork = Fork[p]
        /\ result.status = "error" => \A p \in asked : answer[p].status = "error"

\* Every call returns and leaves no goroutine behind, also when it returned early
\* and nobody receives any more.
CallsEnd == (cpc = "collecting") ~> (cpc = "done" /\ \A p \in asked : gpc[p] = "pushed")
=============================================================================
