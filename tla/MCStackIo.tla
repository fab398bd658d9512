----------------------------- MODULE MCStackIo -----------------------------
(* StackIo with interchangeable tasks and DNS slots.                         *)
EXTENDS StackIo, TLC

Symmetry ==
    Permutations(Senders) \cup Permutations(Receivers) \cup Permutations(Resolvers)
        \cup Permutations(Slots)

=============================================================================
