----------------------------- MODULE MCSyncing -----------------------------
(* Syncing for TLC: the clock ends at MaxHeight. *)
EXTENDS Syncing
=============================================================================
