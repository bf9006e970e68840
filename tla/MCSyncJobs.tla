----------------------------- MODULE MCSyncJobs -----------------------------
(* Small instances of SyncJobs for TLC. *)
EXTENDS SyncJobs, TLC

\* Worker threads, and polling threads, are interchangeable (safety runs only).
Symmetry == Permutations(Workers) \cup Permutations(Pollers)

=============================================================================
