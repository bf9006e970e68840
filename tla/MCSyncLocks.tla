----------------------------- MODULE MCSyncLocks ----------------------------
(* A small instance of SyncLocks for TLC. *)
EXTENDS SyncLocks
=============================================================================
