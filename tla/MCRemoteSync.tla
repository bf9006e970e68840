---------------------------- MODULE MCRemoteSync ----------------------------
(* Small instances of RemoteSync for TLC. *)
EXTENDS RemoteSync
=============================================================================
