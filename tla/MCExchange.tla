----------------------------- MODULE MCExchange -----------------------------
(* Small instances of Exchange for TLC. *)
EXTENDS Exchange, TLC

CONSTANTS s1, s2, s3, s4

\* Two servers on the node's chain, one on a fork of it, one on another network.
MCServers == {s1, s2, s3, s4}
MCTrusted == {s1, s3}
MCFork == (s1 :> 1) @@ (s2 :> 1) @@ (s3 :> 2) @@ (s4 :> 3)
MCForeign == {3}

Full(f, h) == [low |-> 1, tail |-> 1, flushed |-> f, head |-> h]
Pruned(l, h) == [low |-> l, tail |-> l, flushed |-> h, head |-> h]
Empty == [low |-> 0, tail |-> 0, flushed |-> 0, head |-> 0]

\* Either s1 is pruned, s2 is behind and s3 empty, or all are full, s3 is ahead and
\* s2 has headers that are pending.
MCStores ==
    {(s1 :> Pruned(2, 3)) @@ (s2 :> Full(2, 2)) @@ (s3 :> Empty) @@ (s4 :> Full(3, 3)),
     (s1 :> Full(3, 3)) @@ (s2 :> Full(1, 3)) @@ (s3 :> Full(4, 4)) @@ (s4 :> Full(3, 3))}

MCTracked == {{}, {s2}, MCServers}

MCCall(kind, h, f, n) == [kind |-> kind, height |-> h, fork |-> f, amount |-> n]

\* Heads, with and without a trusted one, single headers, and ranges that fit, are
\* longer than a server's limit, or overflow.
MCCalls ==
    {MCCall("head", 0, 0, 1), MCCall("trustedHead", 1, 1, 1), MCCall("trustedHead", 2, 1, 1),
     MCCall("byHeight", 0, 0, 1), MCCall("byHeight", 2, 0, 1), MCCall("byHash", 2, 1, 1),
     MCCall("range", 2, 0, 3), MCCall("range", 1, 0, 4), MCCall("range", 6, 0, 3)}
=============================================================================
