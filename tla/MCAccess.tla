------------------------------ MODULE MCAccess -------------------------------
(* A small instance of Access. *)
EXTENDS Access
=============================================================================
