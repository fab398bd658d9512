-------------------------- MODULE MCHttp3Provider --------------------------
(* Http3Provider with interchangeable tasks and sessions.                    *)
EXTENDS Http3Provider, TLC

Symmetry ==
    Permutations(Dialers) \cup Permutations(Sessions) \cup Permutations(Retirers)
        \cup Permutations(Closers)

=============================================================================
