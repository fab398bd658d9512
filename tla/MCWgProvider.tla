---------------------------- MODULE MCWgProvider ----------------------------
(* WgProvider with an outer provider and an inner one carried by it, or with *)
(* one provider on an OS socket.                                             *)
EXTENDS WgProvider, TLC

CONSTANTS Outer, Inner

Nested == Inner :> Outer @@ Outer :> NoProvider
Alone == Outer :> NoProvider

=============================================================================
