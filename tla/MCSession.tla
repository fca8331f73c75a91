----------------------------- MODULE MCSession -----------------------------
(* A small instance of Session for TLC. *)
EXTENDS Session

OnePeer == {"p"}
TwoPeers == {"p", "q"}
=============================================================================
