------------------------------ MODULE StackIo ------------------------------
(***************************************************************************)
(* How packets move through a WireGuard tunnel's stack (src/wireguard/:    *)
(* stack.rs, udp.rs, phy.rs, adapter.rs): tasks that send and receive on   *)
(* one WgUdpSocket and tasks that resolve names through the shared DNS     *)
(* socket; the pump, the one task that drives smoltcp; and the two bounded *)
(* channels between the stack and the WireGuard device.                    *)
(*                                                                         *)
(* Every step takes the stack's mutex once.  smoltcp keeps one waker for   *)
(* each direction of a socket and for each DNS query: registering a second *)
(* one replaces the first, and waking takes it out.  A future that is      *)
(* dropped leaves its waker behind.                                        *)
(***************************************************************************)
EXTENDS Integers, Sequences, FiniteSets

CONSTANTS
    Senders,    \* tasks in WgUdpSocket::send_to
    Receivers,  \* tasks in WgUdpSocket::recv_from
    Resolvers,  \* tasks in WgStack::query
    NoTask,
    Slots,      \* the queries the DNS socket has room for (DNS_QUERY_SLOTS)
    NoSlot,
    Room,       \* datagrams a UDP socket buffers each way (UDP_PACKETS)
    Depth,      \* PACKET_QUEUE_DEPTH
    Batch       \* packets the pump takes from the channel at once (64)

Tasks == Senders \cup Receivers \cup Resolvers

ASSUME IoAssumption ==
    /\ Senders \cap Receivers = {} /\ Senders \cap Resolvers = {}
    /\ Receivers \cap Resolvers = {} /\ NoTask \notin Tasks /\ NoSlot \notin Slots
    /\ {"tx", "rx"} \cap Slots = {} /\ IsFiniteSet(Slots) /\ IsFiniteSet(Tasks)
    /\ Room \in Nat \ {0} /\ Batch \in Nat \ {0} /\ Depth \in Nat /\ Batch <= Depth

VARIABLES
    pc,        \* where each task is
    woken,     \* parked tasks whose waker was called
    sendLock,  \* who holds WgUdpSocket::send_lock
    recvLock,  \* and recv_lock
    size,      \* of the datagram a task sends, against the buffer's bytes
    waker,     \* the task registered for each direction and each query
    tx,        \* datagrams in the socket's send buffer
    filled,    \* one of them leaves no bytes for another
    rx,        \* and in its receive buffer
    slot,      \* the DNS socket's slots: "free", "unsent", "sent" or "answered"
    query,     \* the slot of each task's query (QueryGuard::handle)
    permits,   \* the tasks that hold a permit of dns_slots
    out,       \* packets in the channel to the device
    inn,       \* packets in the channel from the device, by what they are
    inbound,   \* WgPhy::inbound
    pump,      \* "poll", "select", "stopping" or "done"
    delay,     \* what the last poll said about the next: "now", "later", "none"
    rung,      \* the permit of StackShared::wake
    device,    \* the device runs
    stopped    \* StackShared::stopped

lockVars == <<sendLock, recvLock, size>>
taskVars == <<pc, woken, lockVars, waker>>
sockVars == <<tx, filled, rx, slot>>
dnsVars  == <<query, permits>>
linkVars == <<out, inn, inbound, device>>
pumpVars == <<pump, delay, rung, stopped>>
vars == <<taskVars, sockVars, dnsVars, linkVars, pumpVars>>

Wakers == {"tx", "rx"} \cup Slots

\* A datagram of a few bytes, one that needs most of the send buffer, and one that
\* is larger than all of it.
Sizes == {"small", "large", "over"}

Init ==
    /\ pc = [p \in Tasks |-> "idle"] /\ woken = {}
    /\ sendLock = NoTask /\ recvLock = NoTask /\ waker = [w \in Wakers |-> NoTask]
    /\ size = [p \in Senders |-> "small"]
    /\ tx = 0 /\ filled = FALSE /\ rx = 0 /\ slot = [s \in Slots |-> "free"]
    /\ query = [q \in Resolvers |-> NoSlot] /\ permits = {}
    /\ out = 0 /\ inn = <<>> /\ inbound = <<>> /\ device = TRUE
    /\ pump = "poll" /\ delay = "none" /\ rung = FALSE
    /\ stopped = FALSE

Goto(p, l) == pc' = [pc EXCEPT ![p] = l]

\* The poll returns Pending with its waker registered.
Park(p, w) ==
    /\ Goto(p, "parked")
    /\ waker' = [waker EXCEPT ![w] = p]
    /\ woken' = woken \ {p}

\* The wakers ws are called and taken out.
Wake(ws) ==
    /\ woken' = woken \cup {p \in Tasks : pc[p] = "parked" /\ \E w \in ws : waker[w] = p}
    /\ waker' = [w \in Wakers |-> IF w \in ws THEN NoTask ELSE waker[w]]

-----------------------------------------------------------------------------
(* WgUdpSocket::send_to and recv_from.                                       *)

\* Faulty variant: several tasks may wait for room at once.
NoLock(p) == TRUE
MaySend(p) == sendLock = NoTask

\* Until it has the lock a call has done nothing, and may be dropped.
LockSend(p, z) ==
    /\ p \in Senders /\ pc[p] = "idle" /\ MaySend(p)
    /\ sendLock' = p /\ size' = [size EXCEPT ![p] = z]
    /\ Goto(p, "try")
    /\ UNCHANGED <<woken, recvLock, waker, sockVars, dnsVars, linkVars, pumpVars>>

LockRecv(p) ==
    /\ p \in Receivers /\ pc[p] = "idle" /\ recvLock = NoTask
    /\ recvLock' = p
    /\ Goto(p, "try")
    /\ UNCHANGED <<woken, sendLock, size, waker, sockVars, dnsVars, linkVars, pumpVars>>

\* A parked task is polled again: its waker was called, or something else
\* that the same task waits for has happened.
Repoll(p) ==
    /\ pc[p] = "parked"
    /\ Goto(p, "try")
    /\ woken' = woken \ {p}
    /\ UNCHANGED <<lockVars, waker, sockVars, dnsVars, linkVars, pumpVars>>

Unlock(p) ==
    /\ sendLock' = IF sendLock = p THEN NoTask ELSE sendLock
    /\ recvLock' = IF recvLock = p THEN NoTask ELSE recvLock
    /\ size' = [x \in Senders |-> IF x = p THEN "small" ELSE size[x]]

\* The stop flag is read under the mutex; a destination the tunnel has no
\* address for is refused likewise.
Refuse(p) ==
    /\ p \in Senders \cup Receivers /\ pc[p] = "try" /\ (stopped \/ p \in Senders)
    /\ Goto(p, "idle") /\ Unlock(p)
    /\ UNCHANGED <<woken, waker, sockVars, dnsVars, linkVars, pumpVars>>

\* smoltcp answers BufferFull as well to what would never fit.
Fits(p) ==
    /\ tx < Room /\ ~filled
    /\ size[p] = "small" \/ (size[p] = "large" /\ tx = 0)

Send(p) ==
    /\ p \in Senders /\ pc[p] = "try" /\ ~stopped
    /\ IF Fits(p)
       THEN /\ tx' = tx + 1 /\ filled' = (size[p] = "large")
            /\ Goto(p, "ring") /\ UNCHANGED <<woken, waker>>
       ELSE Park(p, "tx") /\ UNCHANGED <<tx, filled>>
    /\ UNCHANGED <<lockVars, rx, slot, dnsVars, linkVars, pumpVars>>

Recv(p) ==
    /\ p \in Receivers /\ pc[p] = "try" /\ ~stopped
    /\ IF rx > 0
       THEN rx' = rx - 1 /\ Goto(p, "idle") /\ Unlock(p) /\ UNCHANGED <<woken, waker>>
       ELSE Park(p, "rx") /\ UNCHANGED <<rx, lockVars>>
    /\ UNCHANGED <<tx, filled, slot, dnsVars, linkVars, pumpVars>>

\* Faulty variant: the pump is not told.
Quiet == UNCHANGED rung
Ring == rung' = TRUE

\* The mutex is released; StackShared::wake leaves a permit for the pump.
RingPump(p) ==
    /\ pc[p] = "ring"
    /\ Ring
    /\ Goto(p, IF p \in Senders THEN "idle"
               ELSE IF query[p] = NoSlot THEN "release" ELSE "try")
    /\ Unlock(p)
    /\ UNCHANGED <<woken, waker, sockVars, dnsVars, linkVars, pump, delay, stopped>>

\* The future is dropped while it waits.
Drop(p) ==
    /\ p \in Senders \cup Receivers /\ pc[p] = "parked"
    /\ Goto(p, "idle") /\ Unlock(p)
    /\ woken' = woken \ {p}
    /\ UNCHANGED <<waker, sockVars, dnsVars, linkVars, pumpVars>>

-----------------------------------------------------------------------------
(* WgStack::query.                                                           *)

\* A place among dns_slots; giving up at the deadline instead changes nothing.
Permit(q) ==
    /\ q \in Resolvers /\ pc[q] = "idle" /\ Cardinality(permits) < Cardinality(Slots)
    /\ permits' = permits \cup {q}
    /\ Goto(q, "start")
    /\ UNCHANGED <<woken, lockVars, waker, sockVars, query, linkVars, pumpVars>>

FreeSlots == {s \in Slots : slot[s] = "free"}

\* start_query takes a slot.  NoFreeSlot would be an error for the caller.
StartQuery(q, s) ==
    /\ q \in Resolvers /\ pc[q] = "start" /\ s \in FreeSlots
    /\ slot' = [slot EXCEPT ![s] = "unsent"]
    /\ query' = [query EXCEPT ![q] = s]
    /\ waker' = [waker EXCEPT ![s] = NoTask]
    /\ Goto(q, "ring")
    /\ UNCHANGED <<woken, lockVars, tx, filled, rx, permits, linkVars, pumpVars>>

\* The name is refused.
BadName(q) ==
    /\ q \in Resolvers /\ pc[q] = "start"
    /\ Goto(q, "ring")
    /\ UNCHANGED <<woken, lockVars, waker, sockVars, dnsVars, linkVars, pumpVars>>

\* get_query_result frees the slot of a query that was answered or failed.
QueryResult(q) ==
    /\ q \in Resolvers /\ pc[q] = "try"
    /\ IF slot[query[q]] = "answered"
       THEN /\ slot' = [slot EXCEPT ![query[q]] = "free"]
            /\ query' = [query EXCEPT ![q] = NoSlot]
            /\ Goto(q, "release") /\ UNCHANGED <<woken, waker>>
       ELSE Park(q, query[q]) /\ UNCHANGED <<slot, query>>
    /\ UNCHANGED <<lockVars, tx, filled, rx, permits, linkVars, pumpVars>>

\* Faulty variant: the guard goes after the permit.
LateCancel(q) == permits' = permits \ {q}
EarlyCancel(q) == UNCHANGED permits

\* The deadline passes, or the future is dropped: first the guard's destructor.
Deadline(q) ==
    /\ q \in Resolvers /\ pc[q] = "parked"
    /\ EarlyCancel(q)
    /\ Goto(q, "cancel")
    /\ woken' = woken \ {q}
    /\ UNCHANGED <<lockVars, waker, sockVars, query, linkVars, pumpVars>>

CancelQuery(q) ==
    /\ q \in Resolvers /\ pc[q] = "cancel"
    /\ slot' = [slot EXCEPT ![query[q]] = "free"]
    /\ query' = [query EXCEPT ![q] = NoSlot]
    /\ Goto(q, "ring")
    /\ UNCHANGED <<woken, lockVars, waker, tx, filled, rx, permits, linkVars, pumpVars>>

Release(q) ==
    /\ q \in Resolvers /\ pc[q] = "release"
    /\ permits' = permits \ {q}
    /\ Goto(q, "idle")
    /\ UNCHANGED <<woken, lockVars, waker, sockVars, query, linkVars, pumpVars>>

-----------------------------------------------------------------------------
(* The pump: StackInner::poll, then whatever comes first of four things.     *)

Smaller(a, b) == IF a <= b THEN a ELSE b
Count(k) == Cardinality({i \in 1 .. Len(inbound) : inbound[i] = k})
Unsent == {s \in Slots : slot[s] = "unsent"}
Pending == {s \in Slots : slot[s] = "sent"}

\* The token that comes with a packet is not refused; without room in the
\* channel its reply is dropped.
Replies == Smaller(Count("stray"), Depth - out)

\* WgPhy::transmit gives out tokens while the channel has room.
Tokens == Depth - out - Replies

\* poll_delay: at once while something waits for a token.
NextPoll == IF tx' > 0 \/ \E s \in Slots : slot'[s] = "unsent" THEN "now"
            ELSE IF \E s \in Slots : slot'[s] = "sent" THEN "later" ELSE "none"

\* One Interface::poll: everything inbound is handed to the sockets (a UDP
\* datagram without room is dropped), n datagrams and the queries qs leave, as
\* many as there are tokens, and the queries done have their answer or failed.
Poll(n, qs, done) ==
    /\ pump = "poll"
    /\ n + Cardinality(qs) = Smaller(Tokens, tx + Cardinality(Unsent))
    /\ tx' = tx - n /\ filled' = (filled /\ n = 0)
    /\ rx' = Smaller(Room, rx + Count("udp"))
    /\ slot' = [s \in Slots |-> IF s \in done THEN "answered"
                                ELSE IF s \in qs THEN "sent" ELSE slot[s]]
    /\ Wake({"tx" : x \in 1 .. n} \cup {"rx" : x \in 1 .. rx' - rx} \cup done)
    /\ out' = IF device THEN Smaller(Depth, out + Replies + n + Cardinality(qs)) ELSE out
    /\ inbound' = <<>>
    /\ pump' = "select" /\ delay' = NextPoll
    /\ UNCHANGED <<pc, lockVars, dnsVars, inn, device, rung, stopped>>

\* WgPhy::push_inbound: past its depth the oldest packet goes.
PushInbound(packets) ==
    LET all == inbound \o packets
    IN  SubSeq(all, 1 + Len(all) - Smaller(Depth, Len(all)), Len(all))

\* The rest of the loop looks at the events in this order.
Receive ==
    /\ pump = "select" /\ inn # <<>>
    /\ LET n == Smaller(Batch, Len(inn)) IN
        /\ inbound' = PushInbound(SubSeq(inn, 1, n))
        /\ inn' = SubSeq(inn, n + 1, Len(inn))
    /\ pump' = "poll"
    /\ UNCHANGED <<taskVars, sockVars, dnsVars, out, device, delay, rung, stopped>>

Woken ==
    /\ pump = "select" /\ inn = <<>> /\ device /\ rung
    /\ rung' = FALSE /\ pump' = "poll"
    /\ UNCHANGED <<taskVars, sockVars, dnsVars, linkVars, delay, stopped>>

\* sleep_for: a delay of zero gives up the thread once.
Sleep ==
    /\ pump = "select" /\ inn = <<>> /\ device /\ ~rung /\ delay # "none"
    /\ pump' = "poll"
    /\ UNCHANGED <<taskVars, sockVars, dnsVars, linkVars, delay, rung, stopped>>

\* The provider may tell it to shut down, or abort it, at any time; or the
\* device is gone.
Leave ==
    /\ pump = "select"
    /\ pump' = "stopping"
    /\ UNCHANGED <<taskVars, sockVars, dnsVars, linkVars, delay, rung, stopped>>

\* StopOnExit: the flag, then the sockets; the channel from the device closes.
SetStopped ==
    /\ pump = "stopping" /\ ~stopped
    /\ stopped' = TRUE
    /\ UNCHANGED <<taskVars, sockVars, dnsVars, linkVars, pump, delay, rung>>

\* Faulty variant: the sockets are left as they are.
Abandoned == UNCHANGED <<tx, filled, rx, woken, waker>>
\* Closing a UDP socket empties it and calls both its wakers.
CloseSockets == tx' = 0 /\ filled' = FALSE /\ rx' = 0 /\ Wake({"tx", "rx"})

Sweep ==
    /\ pump = "stopping" /\ stopped
    /\ CloseSockets
    /\ pump' = "done" /\ inn' = <<>>
    /\ UNCHANGED <<pc, lockVars, slot, dnsVars, out, inbound, device, delay,
                   rung, stopped>>

-----------------------------------------------------------------------------
(* The device.                                                               *)

\* StackToDevice::recv takes all there is.
DeviceTakes ==
    /\ device /\ out > 0
    /\ out' = 0
    /\ UNCHANGED <<taskVars, sockVars, dnsVars, inn, inbound, device, pumpVars>>

\* DeviceToStack::send waits for room, and fails once the pump is gone.
DeviceSends(k) ==
    /\ device /\ pump # "done" /\ Len(inn) < Depth
    /\ inn' = Append(inn, k)
    /\ UNCHANGED <<taskVars, sockVars, dnsVars, out, inbound, device, pumpVars>>

\* What is left in the channel to it goes with its end of the channel.
DeviceEnds ==
    /\ device
    /\ device' = FALSE /\ out' = 0
    /\ UNCHANGED <<taskVars, sockVars, dnsVars, inn, inbound, pumpVars>>

-----------------------------------------------------------------------------
TaskNext(p) ==
    \/ \E z \in Sizes : LockSend(p, z)
    \/ LockRecv(p)
    \/ Repoll(p)
    \/ Refuse(p)
    \/ Send(p)
    \/ Recv(p)
    \/ RingPump(p)
    \/ Drop(p)
    \/ Permit(p)
    \/ \E s \in Slots : StartQuery(p, s)
    \/ BadName(p)
    \/ QueryResult(p)
    \/ Deadline(p)
    \/ CancelQuery(p)
    \/ Release(p)

PumpNext ==
    \/ \E n \in 0 .. tx, qs \in SUBSET Unsent, done \in SUBSET Pending : Poll(n, qs, done)
    \/ Receive
    \/ Woken
    \/ Sleep
    \/ Leave
    \/ SetStopped
    \/ Sweep

LinkNext == DeviceTakes \/ (\E k \in {"udp", "stray"} : DeviceSends(k)) \/ DeviceEnds

Next == (\E p \in Tasks : TaskNext(p)) \/ PumpNext \/ LinkNext

Spec == Init /\ [][Next]_vars

-----------------------------------------------------------------------------
\* The types of the tasks', the sockets', the link's and the pump's state.
TypeOK ==
    /\ pc \in [Tasks -> {"idle", "try", "parked", "ring", "start", "cancel", "release"}]
    /\ woken \subseteq Tasks
    /\ sendLock \in Senders \cup {NoTask} /\ recvLock \in Receivers \cup {NoTask}
    /\ waker \in [Wakers -> Tasks \cup {NoTask}]
    /\ size \in [Senders -> Sizes] /\ filled \in BOOLEAN
    /\ tx \in 0 .. Room /\ rx \in 0 .. Room
    /\ slot \in [Slots -> {"free", "unsent", "sent", "answered"}]
    /\ query \in [Resolvers -> Slots \cup {NoSlot}] /\ permits \subseteq Resolvers
    /\ out \in 0 .. Depth /\ inn \in Seq({"udp", "stray"}) /\ inbound \in Seq({"udp", "stray"})
    /\ pump \in {"poll", "select", "stopping", "done"} /\ delay \in {"now", "later", "none"}
    /\ rung \in BOOLEAN /\ device \in BOOLEAN
    /\ stopped \in BOOLEAN

\* What a parked task waits for.
Direction(p) == IF p \in Senders THEN "tx" ELSE IF p \in Receivers THEN "rx" ELSE query[p]
Ready(p) ==
    \/ p \in Senders /\ (Fits(p) \/ pump = "done")
    \/ p \in Receivers /\ (rx > 0 \/ pump = "done")
    \/ p \in Resolvers /\ slot[query[p]] = "answered"

(* udp.rs: "Two tasks waiting on the same direction would therefore strand   *)
(* one of them forever, so each direction admits one waiter at a time".  A   *)
(* task that is parked and was not woken has its own waker registered, and   *)
(* what it waits for has not come; neither a dropped future's stale waker,   *)
(* nor a task that waited before it, nor the end of the stack takes it away. *)
NoStrandedTask ==
    \A p \in Tasks : pc[p] = "parked" /\ p \notin woken =>
        waker[Direction(p)] = p /\ ~Ready(p)

(* stack.rs: "forgetting the wake is the one bug this design can have".      *)
(* While the pump is parked without a timer, nobody has queued a datagram or *)
(* a query that it has not seen, unless its permit is there or the task that *)
(* queued it is about to leave one.                                          *)
WorkSeen ==
    pump = "select" /\ delay = "none" /\ ~rung /\ (tx > 0 \/ Unsent # {}) =>
        \E p \in Tasks : pc[p] = "ring"

(* Nobody who waited for a place among dns_slots is told that there are too  *)
(* many queries in flight: whoever holds a permit finds a free slot.  A slot *)
(* in use belongs to the query of one task that has its permit still, so     *)
(* what a QueryGuard cancels is its own, and nothing is left in use when a   *)
(* lookup was given up.                                                      *)
PermitFindsSlot ==
    /\ \A q \in Resolvers : pc[q] = "start" => FreeSlots # {}
    /\ \A s \in Slots \ FreeSlots : \E q \in permits : query[q] = s
    /\ \A q \in Resolvers : query[q] # NoSlot =>
        slot[query[q]] # "free" /\ \A r \in Resolvers \ {q} : query[r] # query[q]

=============================================================================
