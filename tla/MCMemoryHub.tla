----------------------------- MODULE MCMemoryHub -----------------------------
(***************************************************************************)
(* TLC instance of MemoryHubProperties.                                    *)
(***************************************************************************)
EXTENDS MemoryHubProperties, TLC

HubSymmetry ==
    Permutations(Callbacks) \cup Permutations(Deliverers) \cup Permutations(Flows)

\* Two verifications overlap, as long as there is one update and no Close; with a
\* second update or after Close one of them runs at a time.
Explored == (accepted <= 1 /\ ~closed) \/ \E f \in Flows : flow[f] = None
=============================================================================
