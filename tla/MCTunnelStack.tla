--------------------------- MODULE MCTunnelStack ---------------------------
(* Small instances of TunnelStack for TLC.                                 *)
EXTENDS TunnelStack, TLC

\* Callers are interchangeable, and so are the entries of the socket set.
Symmetry == Permutations(Callers) \cup Permutations(Handles)
=============================================================================
