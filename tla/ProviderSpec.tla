---------------------------- MODULE ProviderSpec ----------------------------
(***************************************************************************)
(* What a TunnelProvider promises about the session it owns, whatever the  *)
(* technology (src/provider.rs): there is at most one current session, a   *)
(* new one is established only where there is none, retire releases it and *)
(* a later dial may establish another, and once a shutdown has returned    *)
(* the session is gone for good.                                           *)
(***************************************************************************)
CONSTANTS Sessions, NoSession

VARIABLES
    current,  \* the session the provider owns
    phase     \* "open"; "closing" once shutdown is called; "closed" once one returned

pvars == <<current, phase>>

PInit == current = NoSession /\ phase = "open"

\* prepare or dial establishes the session they share.
Establish(s) ==
    /\ phase # "closed" /\ current = NoSession
    /\ current' = s
    /\ UNCHANGED phase

\* retire, shutdown, or a dial that found the session dead lets go of it.
Release ==
    /\ current # NoSession
    /\ current' = NoSession
    /\ UNCHANGED phase

BeginShutdown ==
    /\ phase = "open"
    /\ phase' = "closing"
    /\ UNCHANGED current

\* "Stop the provider's owned session permanently."
EndShutdown ==
    /\ phase = "closing" /\ current = NoSession
    /\ phase' = "closed"
    /\ UNCHANGED current

PNext == (\E s \in Sessions : Establish(s)) \/ Release \/ BeginShutdown \/ EndShutdown

PSpec == PInit /\ [][PNext]_pvars

=============================================================================
