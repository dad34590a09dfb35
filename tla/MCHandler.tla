------------------------------ MODULE MCHandler ------------------------------
(***************************************************************************)
(* TLC instance of HandlerProperties: symmetry sets for the safety runs    *)
(* (none of the safety properties names a particular goroutine).           *)
(***************************************************************************)
EXTENDS HandlerProperties, TLC

HandlerSymmetry ==
    Permutations(Requests) \cup Permutations(Workers) \cup Permutations(Closers)
=============================================================================
