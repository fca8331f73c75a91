------------------------------ MODULE MCSyncer ------------------------------
(* Small instances of Syncer for TLC. *)
EXTENDS Syncer
=============================================================================
