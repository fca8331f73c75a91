------------------------------- MODULE Gossip -------------------------------
(***************************************************************************)
(* Gossiped headers: p2p.Subscriber (src/p2p/subscriber.go) screens each of *)
(* them with the verifier that the Syncer registers in Start                *)
(* (src/sync/syncer.go), and tells pubsub to accept, ignore or reject it; a *)
(* rejection counts against the peer that forwarded it.  pubsub validates   *)
(* messages concurrently and in any order, and ends a validation that takes *)
(* too long.                                                                *)
(*                                                                          *)
(* The chain is honest and a header is its height; 0 is one that does not   *)
(* decode or validate.  What setLocalHead and subjectiveTail do inside is   *)
(* in Syncer and SyncTail.                                                  *)
(***************************************************************************)
EXTENDS Integers

CONSTANTS
    Validations,    \* goroutines of pubsub that validate a message
    MaxHeight,      \* bound on the chain
    TrustDistance,  \* how far direct verification reaches
    MaxMessages,    \* bound on the messages
    MaxStarts       \* bound on the calls of Start

VARIABLES
    chain,      \* the head of the network
    joined,     \* the Subscriber's topic is joined and its validator registered
    verifier,   \* the verifier is set, verifierSema closed
    running,    \* s.cancel # nil
    started,    \* s.started is closed
    starting,   \* Start is in its Head call
    local,      \* the local head, 0 when there is none
    incomingMu, \* its holder, or "free"
    vpc,        \* where each validation is
    msg,        \* its header
    verdict,    \* what it last returned
    known,      \* history: the local head when its message arrived, 0 before Start
    cut,        \* history: its context ended or the getter failed it
    messages, starts

gossipVars == <<vpc, msg, verdict, known, cut, messages>>
lifeVars == <<joined, verifier, running, started, starting, starts>>
vars == <<chain, local, incomingMu, gossipVars, lifeVars>>

Init ==
    /\ chain = 1 /\ local = 0 /\ incomingMu = "free"
    /\ joined = FALSE /\ verifier = FALSE
    /\ running = FALSE /\ started = FALSE /\ starting = FALSE /\ starts = 0
    /\ vpc = [v \in Validations |-> "idle"] /\ msg = [v \in Validations |-> 0]
    /\ verdict = [v \in Validations |-> "none"] /\ known = [v \in Validations |-> 0]
    /\ cut = [v \in Validations |-> FALSE] /\ messages = 0

Goto(v, l) == vpc' = [vpc EXCEPT ![v] = l]

NewBlock ==
    /\ chain < MaxHeight
    /\ chain' = chain + 1
    /\ UNCHANGED <<local, incomingMu, gossipVars, lifeVars>>

-----------------------------------------------------------------------------
\* Lifecycles.

\* Subscriber.Start and Stop.
Join ==
    /\ ~joined
    /\ joined' = TRUE
    /\ UNCHANGED <<chain, local, incomingMu, gossipVars, verifier, running, started, starting, starts>>

Leave ==
    /\ joined
    /\ joined' = FALSE
    /\ UNCHANGED <<chain, local, incomingMu, gossipVars, verifier, running, started, starting, starts>>

\* Syncer.Start registers the verifier, which only works once in the life of a
\* Subscriber, and asks for the head ...
Start ==
    /\ ~running /\ starts < MaxStarts
    /\ starts' = starts + 1
    /\ verifier' = TRUE
    /\ running' = ~verifier /\ starting' = ~verifier
    /\ UNCHANGED <<chain, local, incomingMu, gossipVars, joined, started>>

\* ... and starts the sync loop and lets the messages through, or is undone.
StartHead ==
    /\ starting
    /\ starting' = FALSE
    /\ \/ local' = chain /\ started' = TRUE /\ running' = running
       \/ local' = local /\ started' = started /\ running' = FALSE
    /\ UNCHANGED <<chain, incomingMu, gossipVars, joined, verifier, starts>>

\* Stop cancels the sync loop and waits for it; the verifier stays where it is.
Stop ==
    /\ running /\ ~starting
    /\ running' = FALSE
    /\ UNCHANGED <<chain, local, incomingMu, gossipVars, joined, verifier, started, starting, starts>>

-----------------------------------------------------------------------------
\* verifyMessage.

Verdict(v, r) ==
    /\ verdict' = [verdict EXCEPT ![v] = r]
    /\ Goto(v, "idle")

extractHeader(h) == h # 0

\* A message arrives: a header of the chain, however old, or one that does not decode.
Deliver(v, h) ==
    /\ joined /\ vpc[v] = "idle" /\ messages < MaxMessages
    /\ messages' = messages + 1
    /\ msg' = [msg EXCEPT ![v] = h]
    /\ known' = [known EXCEPT ![v] = IF started THEN local ELSE 0] /\ cut' = [cut EXCEPT ![v] = FALSE]
    /\ IF extractHeader(h)
         THEN verdict' = [verdict EXCEPT ![v] = "none"] /\ Goto(v, "verifier")
         ELSE Verdict(v, "reject")
    /\ UNCHANGED <<chain, local, incomingMu, lifeVars>>

AwaitVerifier(v) ==
    /\ vpc[v] = "verifier" /\ verifier
    /\ Goto(v, "started")
    /\ UNCHANGED <<chain, local, incomingMu, msg, verdict, known, cut, messages, lifeVars>>

AwaitStarted(v) ==
    /\ vpc[v] = "started" /\ started
    /\ Goto(v, "lock")
    /\ UNCHANGED <<chain, local, incomingMu, msg, verdict, known, cut, messages, lifeVars>>

\* The context of the validation ends in one of the two waits.
Expire(v) ==
    /\ vpc[v] \in {"verifier", "started"}
    /\ Verdict(v, IF vpc[v] = "verifier" THEN "ignore" ELSE "reject")
    /\ cut' = [cut EXCEPT ![v] = TRUE]
    /\ UNCHANGED <<chain, local, incomingMu, msg, known, messages, lifeVars>>

-----------------------------------------------------------------------------
\* incomingNetworkHead.

IncomingLock(v) ==
    /\ vpc[v] = "lock" /\ incomingMu = "free"
    /\ incomingMu' = v
    /\ Goto(v, "verify")
    /\ UNCHANGED <<chain, local, msg, verdict, known, cut, messages, lifeVars>>

\* A header above the local head is adopted, at once or through the headers between;
\* the local head itself fails softly, one below it does not.
Verify(v) ==
    /\ vpc[v] = "verify"
    /\ incomingMu' = "free"
    /\ local' = IF msg[v] > local THEN msg[v] ELSE local
    /\ Verdict(v, CASE msg[v] > local -> "accept"
                    [] msg[v] = local -> "ignore"
                    [] OTHER -> "reject")
    /\ UNCHANGED <<chain, msg, known, cut, messages, lifeVars>>

\* A header between cannot be got: the error is returned.
BifurcationFails(v) ==
    /\ vpc[v] = "verify" /\ msg[v] - local > TrustDistance
    /\ incomingMu' = "free"
    /\ Verdict(v, "reject")
    /\ cut' = [cut EXCEPT ![v] = TRUE]
    /\ UNCHANGED <<chain, local, msg, known, messages, lifeVars>>

\* A caller of Head adopts the network head without incomingMu.
HeadCall ==
    /\ chain > local
    /\ local' = chain
    /\ UNCHANGED <<chain, incomingMu, gossipVars, lifeVars>>

Validation(v) ==
    \/ AwaitVerifier(v) \/ AwaitStarted(v) \/ Expire(v)
    \/ IncomingLock(v) \/ Verify(v) \/ BifurcationFails(v)

Next ==
    \/ NewBlock \/ Join \/ Leave \/ Start \/ StartHead \/ Stop \/ HeadCall
    \/ \E v \in Validations : Validation(v) \/ \E h \in 0..chain : Deliver(v, h)

Spec == Init /\ [][Next]_vars

-----------------------------------------------------------------------------
\* "honest peers may gossip the current head more than once [...] so don't punish them
\* for it" (syncer_head.go): a header that was no older than the node's own head when
\* its message arrived at a started Syncer is not rejected, if its validation was allowed
\* to finish.
HonestHeadNotPunished ==
    \A v \in Validations :
        (msg[v] # 0 /\ known[v] \in 1..msg[v] /\ ~cut[v]) => verdict[v] # "reject"
=============================================================================
