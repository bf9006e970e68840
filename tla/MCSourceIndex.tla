--------------------------- MODULE MCSourceIndex ----------------------------
(* Small instances of SourceIndex for TLC. *)
EXTENDS SourceIndex, TLC

\* Paths, texts of ordinary size, and ingesting threads are interchangeable
\* (safety runs only).
Symmetry == Permutations(Paths) \cup Permutations(Contents \ (Big \cup Foreign))
                                \cup Permutations(Ingesters)

=============================================================================
