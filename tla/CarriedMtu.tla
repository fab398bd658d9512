----------------------------- MODULE CarriedMtu -----------------------------
(***************************************************************************)
(* carried_mtu (src/wireguard/mod.rs): the MTU of a WireGuard tunnel whose *)
(* datagrams travel inside another tunnel.  Tunnels are nested one in      *)
(* another, each with the MTU that carried_mtu derives from its operator's *)
(* setting and from the tunnel beneath it.                                 *)
(***************************************************************************)
EXTENDS Integers, Sequences

CONSTANTS
    Configured,  \* MTUs an operator may set (MIN_WIREGUARD_MTU..MAX_WIREGUARD_MTU)
    MaxDepth     \* bound on the nesting

MinMtu == 1280          \* MIN_WIREGUARD_MTU
MaxMtu == 3800          \* MAX_WIREGUARD_MTU

ASSUME MtuAssumption == Configured \subseteq MinMtu .. MaxMtu /\ MaxDepth \in Nat \ {0}

Headers == {20, 40}     \* bytes of an IPv4 and of an IPv6 header
UdpHeader == 8          \* UDP_HEADER
WireGuardData == 32     \* WIREGUARD_DATA_OVERHEAD
MinCarried == 576       \* MIN_CARRIED_MTU

VARIABLES
    mtus,    \* of the tunnels, the outermost first
    headers  \* the IP header each tunnel's datagrams have on the link beneath

mtuVars == <<mtus, headers>>

Overhead(h) == h + UdpHeader + WireGuardData

SaturatingSub(a, b) == IF a < b THEN 0 ELSE a - b

\* Faulty variant: what is left over is used to the last byte.
Unrounded(n) == n
RoundDown(n) == n - (n % 16)

\* Faulty variant: a link too narrow carries a tunnel all the same.
WideAlways(available) == TRUE
WideEnough(available) == available >= MinCarried

Available(link, h) == RoundDown(SaturatingSub(link, Overhead(h)))

Smaller(a, b) == IF a <= b THEN a ELSE b

MtuInit ==
    /\ \E c \in Configured : mtus = <<c>>
    /\ headers = <<20>>

\* bring_up of a carried tunnel, which fails when the link beneath is too narrow.
Carry(c, h) ==
    LET available == Available(mtus[Len(mtus)], h) IN
        /\ Len(mtus) < MaxDepth
        /\ WideEnough(available)
        /\ mtus' = Append(mtus, Smaller(c, available))
        /\ headers' = Append(headers, h)

\* The innermost tunnel is retired.
Release ==
    /\ Len(mtus) > 1
    /\ mtus' = SubSeq(mtus, 1, Len(mtus) - 1)
    /\ headers' = SubSeq(headers, 1, Len(headers) - 1)

MtuNext == (\E c \in Configured, h \in Headers : Carry(c, h)) \/ Release

MtuSpec == MtuInit /\ [][MtuNext]_mtuVars

-----------------------------------------------------------------------------
\* WireGuard pads a packet to a multiple of 16; the far end, whose own MTU is
\* usually larger, does not stop at ours.
Padded(n) == 16 * ((n + 15) \div 16)

\* Every tunnel has an MTU that fits 16 bits and that an IPv4 host must accept.
MtuTypeOK ==
    /\ mtus \in Seq(MinCarried .. MaxMtu) /\ headers \in Seq(Headers)
    /\ Len(mtus) = Len(headers) /\ Len(mtus) > 0

(* carried_mtu's documentation: "The carried tunnel must leave room for all  *)
(* of that" and "one sized to a multiple of 16 never grows": at every level  *)
(* of the nesting a packet of any size the tunnel carries, padded by either  *)
(* end, fits the link beneath with its headers.                              *)
PacketsFit ==
    \A i \in 1 .. Len(mtus) - 1 : \A n \in 1 .. mtus[i + 1] :
        Padded(n) + Overhead(headers[i + 1]) <= mtus[i]

=============================================================================
