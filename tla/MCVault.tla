------------------------------- MODULE MCVault ------------------------------
(* Small instances of Vault. *)
EXTENDS Vault

\* Saved answers, named in the order of their saving.
MCRank == [q \in Queries |-> IF q = "q1" THEN 1 ELSE IF q = "q2" THEN 2 ELSE 3]

=============================================================================
