------------------------------ MODULE SendSpec ------------------------------
(***************************************************************************)
(* What the write side of a tunnel stream promises to its owner (the       *)
(* contract of tokio's AsyncWrite that socks5.rs relies on when it copies  *)
(* a conversation): chunks that were accepted go out once and in order;    *)
(* FIN follows only the last of them; a stream ends once, with FIN or with *)
(* a reset; and the answers to flush and shutdown are true.                *)
(***************************************************************************)
EXTENDS Naturals, Sequences

VARIABLES
    accepted,  \* chunks accepted so far; they are numbered in that order
    wire,      \* chunks handed to the transport
    end,       \* how the stream ended: "open", "fin" or "reset"
    answer     \* the answer to the owner's last call

vars == <<accepted, wire, end, answer>>

SInit == accepted = 0 /\ wire = <<>> /\ end = "open" /\ answer = "none"

Accept ==
    /\ end = "open"
    /\ accepted' = accepted + 1
    /\ answer' = "written"
    /\ UNCHANGED <<wire, end>>

Transmit ==
    /\ end = "open" /\ Len(wire) < accepted
    /\ wire' = Append(wire, Len(wire) + 1)
    /\ UNCHANGED <<accepted, end, answer>>

Finish ==
    /\ end = "open" /\ Len(wire) = accepted
    /\ end' = "fin"
    /\ UNCHANGED <<accepted, wire, answer>>

Reset ==
    /\ end = "open"
    /\ end' = "reset"
    /\ UNCHANGED <<accepted, wire, answer>>

AnswerFlushed ==
    /\ Len(wire) = accepted
    /\ answer' = "flushed"
    /\ UNCHANGED <<accepted, wire, end>>

AnswerClosed ==
    /\ Len(wire) = accepted /\ end = "fin"
    /\ answer' = "closed"
    /\ UNCHANGED <<accepted, wire, end>>

AnswerOther ==
    /\ answer' \in {"none", "empty", "error"}
    /\ UNCHANGED <<accepted, wire, end>>

SNext == Accept \/ Transmit \/ Finish \/ Reset \/ AnswerFlushed \/ AnswerClosed \/ AnswerOther

SSpec == SInit /\ [][SNext]_vars

=============================================================================
