----------------------------- MODULE JobService -----------------------------
(***************************************************************************)
(* What the job control of the index promises its callers, without saying  *)
(* how: there is one slot.  A job takes the free slot, records exactly one *)
(* summary for its user while it holds it, newer than every summary        *)
(* recorded before, and only then gives the slot back.  A failure may lose *)
(* the slot; a restart of the process, and nothing else, frees a lost one. *)
(***************************************************************************)
EXTENDS Naturals

CONSTANT Keys

VARIABLES slot, summaries

svars == <<slot, summaries>>

Init ==
    /\ slot = "free"
    /\ summaries = [k \in Keys |-> 0]

Take ==
    /\ slot = "free"
    /\ slot' = "taken"
    /\ UNCHANGED summaries

Record(k) ==
    /\ slot = "taken"
    /\ slot' = "recorded"
    /\ summaries'[k] \in Nat \ {0}
    /\ \A j \in Keys : summaries[j] < summaries'[k]
    /\ summaries' = [summaries EXCEPT ![k] = summaries'[k]]

Give ==
    /\ slot = "recorded"
    /\ slot' = "free"
    /\ UNCHANGED summaries

Lose ==
    /\ slot \in {"taken", "recorded"}
    /\ slot' = "lost"
    /\ UNCHANGED summaries

Crash ==
    /\ slot' = "free"
    /\ UNCHANGED summaries

Next == Take \/ (\E k \in Keys : Record(k)) \/ Give \/ Lose \/ Crash

Spec == Init /\ [][Next]_svars

=============================================================================
