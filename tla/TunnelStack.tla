---------------------------- MODULE TunnelStack ----------------------------
(***************************************************************************)
(* The user-space network stack inside one WireGuard tunnel: the smoltcp   *)
(* socket set behind one lock, the pump task that drives it, the cap on    *)
(* open sockets with its "slot freed" signal, and the TCP stream, listener *)
(* and UDP wrappers that create, hand over and give back sockets           *)
(* (src/wireguard/stack.rs, tcp.rs, udp.rs, and SlotFreed in error.rs).    *)
(*                                                                         *)
(* One action is one section between two points where another thread can   *)
(* interfere: a critical section of the stack lock, one atomic access to   *)
(* the slot counter, or one Notify call.  with_stack's trailing ring of    *)
(* `wake' is part of the section it follows.                               *)
(***************************************************************************)
EXTENDS Integers, FiniteSets

CONSTANTS
    Callers,      \* tasks that dial, bind UDP sockets and drop what they got
    Acceptors,    \* tasks that each run one WgTcpListener at a time
    Watchers,     \* tasks in StackShared::wait_stopped
    Pump,         \* the pump task
    NoProc,       \* "nobody holds the lock"
    Handles,      \* the entries of smoltcp's SocketSet
    NoHandle,
    Opens,        \* what callers open: "tcp", "udp" or both
    Ports,        \* ports a listener may ask for
    NoPort,
    MaxSockets,   \* MAX_SOCKETS
    Backlog       \* the sockets one listener keeps listening

Tasks == Callers \cup Acceptors
Procs == Tasks \cup {Pump}

ASSUME CapAssumption == MaxSockets \in Nat \ {0} /\ Backlog \in Nat \ {0}
ASSUME FiniteAssumption == IsFiniteSet(Tasks) /\ IsFiniteSet(Handles)
ASSUME DistinctAssumption ==
    /\ Callers \cap Acceptors = {}
    /\ Pump \notin Tasks
    /\ NoProc \notin Procs
    /\ Handles \cap Tasks = {}
    /\ NoHandle \notin Handles
    /\ NoPort \notin Ports

VARIABLES
    pc,         \* where each task, and the pump, is
    mine,       \* the handle a task is working on
    want,       \* what a caller is opening: "tcp" or "udp"
    bell,       \* a caller's Notified future on SlotFreed
    sock,       \* SocketSet: the state of the socket under each handle
    open,       \* SocketSlots::open
    streams,    \* handles owned by a live WgTcpStream
    udps,       \* handles owned by a live WgUdpSocket
    closing,    \* StackInner::closing, its handles
    uncounted,  \* the entries of closing with counted = false
    expired,    \* the entries of closing whose LINGER deadline has passed
    backlog,    \* WgTcpListener::listening
    port,       \* the port a listener is bound to
    lock,       \* who holds StackShared::inner
    wake,       \* the permit of StackShared::wake
    timed,      \* the deadlines the pump's sleep takes into account
    stopped,    \* StackShared::stopped
    watch       \* where each task in wait_stopped is

vars == <<pc, mine, want, bell, sock, open, streams, udps, closing, uncounted,
          expired, backlog, port, lock, wake, timed, stopped, watch>>

\* The variables only the callers' protocol, the listeners, the pump use.
slotVars  == <<open, closing, uncounted, expired>>
ownVars   == <<streams, udps>>
listVars  == <<backlog, port>>
pumpVars  == <<timed, stopped, watch>>

-----------------------------------------------------------------------------
(* Socket states.  "Open" stands for every state in which a TCP socket may   *)
(* still send (Established, CloseWait) and "Fin" for those with our FIN      *)
(* outstanding.  "Aborted" is smoltcp's Closed reached by our own abort      *)
(* rather than by a segment of the peer's: the code cannot tell them apart.  *)

SockStates == {"Free", "SynSent", "Open", "Fin", "TimeWait", "Closed", "Aborted",
               "Listen", "SynReceived", "Udp"}
IsClosed(s) == s \in {"Closed", "Aborted"}

\* tcp::Socket::close and abort and, in one interface poll, the peer's doing.
Close(s) == IF s = "Open" THEN "Fin" ELSE s
AbortByClose(s) == Close(s)  \* faulty variant: a graceful close for an abort
Abort(s) == IF s \in {"Free", "Udp", "Closed"} THEN s ELSE "Aborted"
Segments ==
    {<<"SynSent", "Open">>, <<"SynSent", "Closed">>,
     <<"Listen", "SynReceived">>, <<"SynReceived", "Open">>, <<"SynReceived", "Listen">>,
     <<"Open", "Closed">>,
     <<"Fin", "TimeWait">>, <<"Fin", "Closed">>, <<"TimeWait", "Closed">>}

\* SocketSet::add takes one entry that is not in use.
FreeHandles == {h \in Handles : sock[h] = "Free"}

Goto(p, l) == pc' = [pc EXCEPT ![p] = l]

\* with_stack ends by leaving the pump a permit; peek_stack does not.
RingPumpNot == UNCHANGED wake  \* faulty variant: the wake is forgotten
RingPump == wake' = TRUE

\* StackInner::discard and retire.
DiscardNot(h) == UNCHANGED sock  \* faulty variant: the socket is leaked
Discard(h) == sock' = [sock EXCEPT ![h] = "Free"]

\* Faulty variant: every retired socket is taken for a charged one.
RetireCounted(h, counted) == closing' = closing \cup {h} /\ UNCHANGED uncounted
Retire(h, counted) ==
    /\ closing' = closing \cup {h}
    /\ uncounted' = IF counted THEN uncounted ELSE uncounted \cup {h}

\* A task parked in a poll_fn on one of its sockets is woken when the socket
\* changes state: the connecting caller, or the acceptor of the backlog.
Parked(t) == pc[t] \in {"syn", "parked"}
SocketsOf(t) == {mine[t]} \cup IF t \in Acceptors THEN backlog[t] ELSE {}
Unpark(l) == IF l = "syn" THEN "connecting" ELSE "accept"
WakeOwners(hs) ==
    pc' = [t \in Procs |-> IF t \in Tasks /\ Parked(t) /\ SocketsOf(t) \cap hs # {}
                           THEN Unpark(pc[t]) ELSE pc[t]]

Init ==
    /\ pc = [p \in Procs |-> IF p = Pump THEN "poll" ELSE "idle"]
    /\ mine = [t \in Tasks |-> NoHandle]
    /\ want = [t \in Callers |-> "tcp"]
    /\ bell = [t \in Callers |-> "none"]
    /\ sock = [h \in Handles |-> "Free"]
    /\ open = 0
    /\ streams = {} /\ udps = {}
    /\ closing = {} /\ uncounted = {} /\ expired = {}
    /\ backlog = [a \in Acceptors |-> {}]
    /\ port = [a \in Acceptors |-> NoPort]
    /\ lock = NoProc /\ wake = FALSE /\ timed = {} /\ stopped = FALSE
    /\ watch = [w \in Watchers |-> "idle"]

-----------------------------------------------------------------------------
(* claim_socket: the load of the counter, the reclaim under pressure when    *)
(* the tunnel looks full, and the fetch_update.                              *)

ClaimLoad(t) ==
    /\ pc[t] = "load"
    /\ Goto(t, IF open >= MaxSockets THEN "pressure" ELSE "claim")
    /\ UNCHANGED <<mine, want, bell, sock, slotVars, ownVars, listVars, lock, wake, pumpVars>>

ReclaimUnderPressure(t) ==
    /\ pc[t] = "pressure" /\ lock = NoProc
    /\ lock' = t
    /\ Goto(t, "reclaim")
    /\ UNCHANGED <<mine, want, bell, sock, slotVars, ownVars, listVars, wake, pumpVars>>

HasRoomAtCap == open <= MaxSockets  \* faulty variant: off by one
HasRoom == open < MaxSockets

ClaimSlot(t) ==
    /\ pc[t] = "claim"
    /\ IF HasRoom
       THEN /\ open' = open + 1
            /\ Goto(t, "claimed")
            /\ bell' = IF t \in Callers THEN [bell EXCEPT ![t] = "none"] ELSE bell
       ELSE /\ Goto(t, IF t \in Callers THEN "full" ELSE "reset")
            /\ UNCHANGED <<open, bell>>
    /\ UNCHANGED <<mine, want, sock, closing, uncounted, expired, ownVars, listVars,
                   lock, wake, pumpVars>>

(* SocketSlots::release: the decrement, then SlotFreed::signal.              *)
ReleasedTwice == open - 2  \* faulty variant
Released == open - 1

\* Faulty variant: notify_one, which wakes a single waiter.
RingOne ==
    IF \E t \in Callers : bell[t] = "armed"
    THEN \E t \in Callers : bell[t] = "armed" /\ bell' = [bell EXCEPT ![t] = "rung"]
    ELSE UNCHANGED bell

\* Every caller whose Notified is enabled.
RingAll == bell' = [t \in Callers |-> IF bell[t] = "armed" THEN "rung" ELSE bell[t]]

ReleaseSlot(t) ==
    /\ pc[t] = "unclaim"
    /\ open' = Released
    /\ Goto(t, "ring")
    /\ UNCHANGED <<mine, want, bell, sock, closing, uncounted, expired, ownVars, listVars,
                   lock, wake, pumpVars>>

SignalFreed(t) ==
    /\ pc[t] = "ring"
    /\ RingAll
    /\ Goto(t, "idle")
    /\ UNCHANGED <<mine, want, sock, slotVars, ownVars, listVars, lock, wake, pumpVars>>

(* reclaim_finished, run by the pump after each poll and, under pressure,    *)
(* by a task that found the tunnel full.  The loop visits every entry of     *)
(* closing once; entries do not influence each other, so the order is free.  *)
Finished(h, underPressure) ==
    \/ IsClosed(sock[h])
    \/ underPressure /\ sock[h] = "TimeWait"

Reclaimable(p) == {h \in closing : Finished(h, p # Pump) \/ h \in expired}

\* What follows a removal: the signal, if the entry was charged a slot.
AfterRemoval(h) == IF h \in uncounted THEN "reclaim" ELSE "reclaimRing"

\* sockets.remove, and release when the entry is counted.
ReclaimOne(p, h) ==
    /\ pc[p] = "reclaim" /\ h \in Reclaimable(p)
    /\ Discard(h)
    /\ closing' = closing \ {h}
    /\ uncounted' = uncounted \ {h}
    /\ expired' = expired \ {h}
    /\ open' = IF h \in uncounted THEN open ELSE Released
    /\ Goto(p, AfterRemoval(h))
    /\ UNCHANGED <<mine, want, bell, ownVars, listVars, lock, wake, pumpVars>>

ReclaimRing(p) ==
    /\ pc[p] = "reclaimRing"
    /\ RingAll
    /\ Goto(p, "reclaim")
    /\ UNCHANGED <<mine, want, sock, slotVars, ownVars, listVars, lock, wake, pumpVars>>

\* The end of the loop: a task rings the pump and claims; the pump works out
\* how long it may sleep from the deadlines that are left.
ReclaimDone(p) ==
    /\ pc[p] = "reclaim" /\ Reclaimable(p) = {}
    /\ lock' = NoProc
    /\ IF p = Pump
       THEN Goto(p, "asleep") /\ timed' = closing /\ UNCHANGED wake
       ELSE Goto(p, "claim") /\ RingPump /\ UNCHANGED timed
    /\ UNCHANGED <<mine, want, bell, sock, slotVars, ownVars, listVars, stopped, watch>>

-----------------------------------------------------------------------------
(* A caller of WgStack::connect and bind_udp.                                *)

\* connect starts with the claim; bind_udp_sized first looks at the flag.
Dial(t) ==
    /\ pc[t] = "idle" /\ "tcp" \in Opens
    /\ want' = [want EXCEPT ![t] = "tcp"]
    /\ Goto(t, "load")
    /\ UNCHANGED <<mine, bell, sock, slotVars, ownVars, listVars, lock, wake, pumpVars>>

BindUdp(t) ==
    /\ pc[t] = "idle" /\ "udp" \in Opens /\ ~stopped
    /\ want' = [want EXCEPT ![t] = "udp"]
    /\ Goto(t, "load")
    /\ UNCHANGED <<mine, bell, sock, slotVars, ownVars, listVars, lock, wake, pumpVars>>

\* AtCapacity: the caller enables a Notified on `freed' and dials again; if
\* the tunnel is full still, it waits until that Notified is rung and repeats.
Redial(t) ==
    /\ pc[t] = "full" /\ bell[t] # "armed"
    /\ bell' = [bell EXCEPT ![t] = "armed"]
    /\ Goto(t, "load")
    /\ UNCHANGED <<mine, want, sock, slotVars, ownVars, listVars, lock, wake, pumpVars>>

GiveUp(t) ==
    /\ pc[t] = "full"
    /\ bell' = [bell EXCEPT ![t] = "none"]
    /\ Goto(t, "idle")
    /\ UNCHANGED <<mine, want, sock, slotVars, ownVars, listVars, lock, wake, pumpVars>>

\* WgTcpStream::connect, its first critical section: add the socket and start
\* the handshake.  A destination in a family the tunnel has no address for
\* leaves the socket closed.
StartConnect(t, h) ==
    /\ pc[t] = "claimed" /\ t \in Callers /\ want[t] = "tcp"
    /\ lock = NoProc /\ h \in FreeHandles
    /\ mine' = [mine EXCEPT ![t] = h]
    /\ \/ sock' = [sock EXCEPT ![h] = "SynSent"] /\ Goto(t, "connecting")
       \/ sock' = [sock EXCEPT ![h] = "Closed"] /\ Goto(t, "unaddressable")
    /\ RingPump
    /\ UNCHANGED <<want, bell, slotVars, ownVars, listVars, lock, pumpVars>>

\* One poll of the future that waits for the handshake: register the waker,
\* or report a refusal, or hand the stream over together with its slot.
PollConnect(t) ==
    /\ pc[t] = "connecting" /\ lock = NoProc
    /\ \/ /\ sock[mine[t]] = "SynSent"
          /\ Goto(t, "syn") /\ UNCHANGED <<mine, streams>>
       \/ /\ IsClosed(sock[mine[t]]) \/ sock[mine[t]] = "TimeWait"
          /\ Goto(t, "refused") /\ UNCHANGED <<mine, streams>>
       \/ /\ sock[mine[t]] = "Open"
          /\ streams' = streams \cup {mine[t]}
          /\ mine' = [mine EXCEPT ![t] = NoHandle]
          /\ Goto(t, "idle")
    /\ UNCHANGED <<want, bell, sock, slotVars, udps, listVars, lock, wake, pumpVars>>

\* StackInner::discard of the caller's socket; the slot is dropped after it.
DiscardMine(t) ==
    /\ lock = NoProc
    /\ Discard(mine[t])
    /\ mine' = [mine EXCEPT ![t] = NoHandle]
    /\ RingPump
    /\ Goto(t, "unclaim")
    /\ UNCHANGED <<want, bell, slotVars, ownVars, listVars, lock, pumpVars>>

\* Faulty variant: the handshake is awaited without a timeout.
ConnectTimeoutNever(t) == pc[t] = "syn" /\ FALSE

\* The dial's timeout fires on a poll that found the handshake unfinished.
ConnectTimeout(t) ==
    /\ pc[t] = "syn"
    /\ Goto(t, "timedout")
    /\ UNCHANGED <<mine, want, bell, sock, slotVars, ownVars, listVars, lock, wake, pumpVars>>

DiscardFailed(t) ==
    pc[t] \in {"refused", "unaddressable", "timedout"} /\ DiscardMine(t)

\* The future is dropped while it waits (PendingConnect).
CancelConnect(t) == pc[t] \in {"syn", "connecting"} /\ DiscardMine(t)

\* WgUdpSocket::bind.  smoltcp refuses to bind only port 0 or a bound socket.
BindSocket(t, h) ==
    /\ pc[t] = "claimed" /\ t \in Callers /\ want[t] = "udp"
    /\ lock = NoProc /\ h \in FreeHandles
    /\ sock' = [sock EXCEPT ![h] = "Udp"]
    /\ udps' = udps \cup {h}
    /\ RingPump
    /\ Goto(t, "idle")
    /\ UNCHANGED <<mine, want, bell, slotVars, streams, listVars, lock, pumpVars>>

\* Drop for WgUdpSocket: close and discard; release_socket follows.
DropUdp(t, h) ==
    /\ pc[t] = "idle" /\ h \in udps /\ lock = NoProc
    /\ udps' = udps \ {h}
    /\ Discard(h)
    /\ RingPump
    /\ Goto(t, "unclaim")
    /\ UNCHANGED <<mine, want, bell, slotVars, streams, listVars, lock, pumpVars>>

\* poll_shutdown: our half of the connection is closed, the stream lives on.
ShutdownStream(h) ==
    /\ h \in streams /\ lock = NoProc /\ sock[h] = "Open"
    /\ sock' = [sock EXCEPT ![h] = Close(@)]
    /\ RingPump
    /\ UNCHANGED <<pc, mine, want, bell, slotVars, ownVars, listVars, lock, pumpVars>>

\* Drop for WgTcpStream: close_half and, in a second critical section, retire.
DropStream(t, h) ==
    /\ pc[t] = "idle" /\ h \in streams /\ lock = NoProc
    /\ streams' = streams \ {h}
    /\ mine' = [mine EXCEPT ![t] = h]
    /\ sock' = [sock EXCEPT ![h] = Close(@)]
    /\ RingPump
    /\ Goto(t, "retiring")
    /\ UNCHANGED <<want, bell, slotVars, udps, listVars, lock, pumpVars>>

RetireStream(t) ==
    /\ pc[t] = "retiring" /\ lock = NoProc
    /\ Retire(mine[t], TRUE)
    /\ mine' = [mine EXCEPT ![t] = NoHandle]
    /\ RingPump
    /\ Goto(t, "idle")
    /\ UNCHANGED <<want, bell, sock, open, expired, ownVars, listVars, lock, pumpVars>>

-----------------------------------------------------------------------------
(* A listener: WgStack::listen, WgTcpListener::bind, accept and Drop.        *)

\* listening_on: some socket is in the Listen state on that port.
ListeningOn(p) ==
    \E a \in Acceptors : port[a] = p /\ \E h \in backlog[a] : sock[h] = "Listen"

\* The check on the port; port 0 takes any port that passes it.
Listen(a, p) ==
    /\ pc[a] = "idle" /\ lock = NoProc /\ ~ListeningOn(p)
    /\ port' = [port EXCEPT ![a] = p]
    /\ Goto(a, "bind")
    /\ UNCHANGED <<mine, want, bell, sock, slotVars, ownVars, backlog, lock, wake, pumpVars>>

BindListener(a) ==
    /\ pc[a] = "bind"
    /\ IF stopped
       THEN Goto(a, "idle") /\ port' = [port EXCEPT ![a] = NoPort]
       ELSE Goto(a, "binding") /\ UNCHANGED port
    /\ UNCHANGED <<mine, want, bell, sock, slotVars, ownVars, backlog, lock, wake, pumpVars>>

\* listen_one: while binding, and to replace a socket that was taken.  smoltcp
\* refuses to listen only on port 0 or on an open socket.
ListenOne(a, h) ==
    /\ lock = NoProc /\ h \in FreeHandles
    /\ sock' = [sock EXCEPT ![h] = "Listen"]
    /\ backlog' = [backlog EXCEPT ![a] = @ \cup {h}]
    /\ RingPump
    /\ \/ /\ pc[a] = "binding"
          /\ Goto(a, IF Cardinality(backlog[a]) + 1 = Backlog THEN "accept" ELSE "binding")
       \/ pc[a] = "relist" /\ Goto(a, "load")
    /\ UNCHANGED <<mine, want, bell, slotVars, ownVars, port, lock, pumpVars>>

\* listening.swap_remove.
TakeNot(a, h) == UNCHANGED backlog  \* faulty variant: it stays in the backlog
Take(a, h) == backlog' = [backlog EXCEPT ![a] = @ \ {h}]

\* One poll of accept: take a socket whose handshake is done, having put back
\* to work the reset ones before it.
AcceptReady(a, h) ==
    /\ pc[a] = "accept" /\ lock = NoProc /\ ~stopped
    /\ h \in backlog[a] /\ sock[h] = "Open"
    /\ \E passed \in SUBSET {g \in backlog[a] : IsClosed(sock[g])} :
           sock' = [g \in Handles |-> IF g \in passed THEN "Listen" ELSE sock[g]]
    /\ mine' = [mine EXCEPT ![a] = h]
    /\ Take(a, h)
    /\ Goto(a, "relist")
    /\ UNCHANGED <<want, bell, slotVars, ownVars, port, lock, wake, pumpVars>>

\* Or register the wakers and wait.
AcceptPending(a) ==
    /\ pc[a] = "accept" /\ lock = NoProc /\ ~stopped
    /\ \A h \in backlog[a] : sock[h] # "Open"
    /\ sock' = [g \in Handles |-> IF g \in backlog[a] /\ IsClosed(sock[g])
                                  THEN "Listen" ELSE sock[g]]
    /\ Goto(a, "parked")
    /\ UNCHANGED <<mine, want, bell, slotVars, ownVars, listVars, lock, wake, pumpVars>>

\* Or fail, because the stack has stopped.
AcceptStopped(a) ==
    /\ pc[a] = "accept" /\ lock = NoProc /\ stopped
    /\ Goto(a, "failed")
    /\ UNCHANGED <<mine, want, bell, sock, slotVars, ownVars, listVars, lock, wake, pumpVars>>

\* The claim succeeded: the accepted connection is a stream with a slot.
KeepAccepted(a) ==
    /\ pc[a] = "claimed" /\ a \in Acceptors
    /\ streams' = streams \cup {mine[a]}
    /\ mine' = [mine EXCEPT ![a] = NoHandle]
    /\ Goto(a, "accept")
    /\ UNCHANGED <<want, bell, sock, slotVars, udps, listVars, lock, wake, pumpVars>>

\* The tunnel is full: abort the connection and retire it without a slot.
ResetAccepted(a) ==
    /\ pc[a] = "reset" /\ lock = NoProc
    /\ sock' = [sock EXCEPT ![mine[a]] = Abort(@)]
    /\ Retire(mine[a], FALSE)
    /\ mine' = [mine EXCEPT ![a] = NoHandle]
    /\ RingPump
    /\ Goto(a, "accept")
    /\ UNCHANGED <<want, bell, open, expired, ownVars, listVars, lock, pumpVars>>

DropListener(a) ==
    /\ pc[a] \in {"accept", "parked", "failed"} /\ lock = NoProc
    /\ sock' = [h \in Handles |-> IF h \in backlog[a] THEN "Free" ELSE sock[h]]
    /\ backlog' = [backlog EXCEPT ![a] = {}]
    /\ port' = [port EXCEPT ![a] = NoPort]
    /\ RingPump
    /\ Goto(a, "idle")
    /\ UNCHANGED <<mine, want, bell, slotVars, ownVars, lock, pumpVars>>

-----------------------------------------------------------------------------
(* The pump, and everything that happens to sockets while it polls.          *)

PumpPoll ==
    /\ pc[Pump] = "poll" /\ lock = NoProc
    /\ lock' = Pump
    /\ Goto(Pump, "net")
    /\ UNCHANGED <<mine, want, bell, sock, slotVars, ownVars, listVars, wake, pumpVars>>

\* iface.poll: the peer's segments and smoltcp's timers move sockets along.
NetEvent(h, s) ==
    /\ pc[Pump] = "net" /\ <<sock[h], s>> \in Segments
    /\ sock' = [sock EXCEPT ![h] = s]
    /\ WakeOwners({h})
    /\ UNCHANGED <<mine, want, bell, slotVars, ownVars, listVars, lock, wake, pumpVars>>

PumpReclaim ==
    /\ pc[Pump] = "net"
    /\ Goto(Pump, "reclaim")
    /\ UNCHANGED <<mine, want, bell, sock, slotVars, ownVars, listVars, lock, wake, pumpVars>>

\* The select: the wake permit, or a deadline the sleep took into account.
PumpWoken ==
    /\ pc[Pump] = "asleep" /\ (wake \/ timed \cap expired # {})
    /\ wake' = FALSE
    /\ Goto(Pump, "poll")
    /\ UNCHANGED <<mine, want, bell, sock, slotVars, ownVars, listVars, lock, pumpVars>>

\* Or packets from the device, or a protocol timer of smoltcp's.
PumpInbound ==
    /\ pc[Pump] = "asleep"
    /\ Goto(Pump, "poll")
    /\ UNCHANGED <<mine, want, bell, sock, slotVars, ownVars, listVars, lock, wake, pumpVars>>

\* Or the end: the shutdown notification, the device gone, or an abort of the
\* task.  StopOnExit then runs StackShared::stop, in three steps.
PumpExit ==
    /\ pc[Pump] = "asleep"
    /\ Goto(Pump, "stopping")
    /\ UNCHANGED <<mine, want, bell, sock, slotVars, ownVars, listVars, lock, wake, pumpVars>>

\* Faulty variant: the flag is not set before the sockets are closed.
StopFlagLate ==
    /\ pc[Pump] = "stopping"
    /\ Goto(Pump, "stopClose")
    /\ UNCHANGED <<mine, want, bell, sock, slotVars, ownVars, listVars, lock, wake, pumpVars>>

StopFlag ==
    /\ pc[Pump] = "stopping"
    /\ stopped' = TRUE
    /\ Goto(Pump, "stopClose")
    /\ UNCHANGED <<mine, want, bell, sock, slotVars, ownVars, listVars, lock, wake, timed, watch>>

\* Abort every TCP socket and close every UDP socket, which wakes their tasks.
StopClose ==
    /\ pc[Pump] = "stopClose" /\ lock = NoProc
    /\ sock' = [h \in Handles |-> Abort(sock[h])]
    /\ pc' = [t \in Procs |-> IF t = Pump THEN "stopNotify"
                              ELSE IF Parked(t) THEN Unpark(pc[t]) ELSE pc[t]]
    /\ UNCHANGED <<mine, want, bell, slotVars, ownVars, listVars, lock, wake, pumpVars>>

StopNotify ==
    /\ pc[Pump] = "stopNotify"
    /\ watch' = [w \in Watchers |-> IF watch[w] = "wait" THEN "idle" ELSE watch[w]]
    /\ Goto(Pump, "done")
    /\ UNCHANGED <<mine, want, bell, sock, slotVars, ownVars, listVars, lock, wake, timed, stopped>>

\* Time: LINGER passes for a retired socket.  now() is read once per poll and
\* once per reclaim, so it does not move while the lock is held.
LingerExpires(h) ==
    /\ h \in closing \ expired /\ lock = NoProc
    /\ expired' = expired \cup {h}
    /\ UNCHANGED <<pc, mine, want, bell, sock, open, closing, uncounted, ownVars, listVars,
                   lock, wake, pumpVars>>

\* wait_stopped: enable the Notified, then read the flag, then wait and repeat.
WatchEnable(w) ==
    /\ watch[w] = "idle"
    /\ watch' = [watch EXCEPT ![w] = "check"]
    /\ UNCHANGED <<pc, mine, want, bell, sock, slotVars, ownVars, listVars, lock, wake, timed, stopped>>

\* Faulty variant: the flag is not read once the Notified is enabled.
WatchCheckMissing(w) ==
    /\ watch[w] = "check"
    /\ watch' = [watch EXCEPT ![w] = "wait"]
    /\ UNCHANGED <<pc, mine, want, bell, sock, slotVars, ownVars, listVars, lock, wake, timed, stopped>>

WatchCheck(w) ==
    /\ watch[w] = "check"
    /\ watch' = [watch EXCEPT ![w] = IF stopped THEN "returned" ELSE "wait"]
    /\ UNCHANGED <<pc, mine, want, bell, sock, slotVars, ownVars, listVars, lock, wake, timed, stopped>>

-----------------------------------------------------------------------------
\* The steps a caller, an acceptor and the pump take once they have begun.
CallerStep(t) ==
    \/ ClaimLoad(t) \/ ReclaimUnderPressure(t) \/ ClaimSlot(t)
    \/ ReleaseSlot(t) \/ SignalFreed(t)
    \/ \E h \in closing : ReclaimOne(t, h)
    \/ ReclaimRing(t) \/ ReclaimDone(t)
    \/ Redial(t)
    \/ \E h \in Handles : StartConnect(t, h) \/ BindSocket(t, h)
    \/ PollConnect(t) \/ ConnectTimeout(t) \/ DiscardFailed(t)
    \/ RetireStream(t)

AcceptorStep(a) ==
    \/ ClaimLoad(a) \/ ReclaimUnderPressure(a) \/ ClaimSlot(a)
    \/ \E h \in closing : ReclaimOne(a, h)
    \/ ReclaimRing(a) \/ ReclaimDone(a)
    \/ BindListener(a)
    \/ \E h \in Handles : ListenOne(a, h) \/ AcceptReady(a, h)
    \/ AcceptPending(a) \/ AcceptStopped(a)
    \/ KeepAccepted(a) \/ ResetAccepted(a)

PumpStep ==
    \/ PumpPoll \/ PumpReclaim
    \/ \E h \in closing : ReclaimOne(Pump, h)
    \/ ReclaimRing(Pump) \/ ReclaimDone(Pump)
    \/ PumpWoken
    \/ StopFlag \/ StopClose \/ StopNotify

\* What callers and listeners may decide to begin, or to abandon.
CallerChoice(t) ==
    \/ Dial(t) \/ BindUdp(t) \/ GiveUp(t) \/ CancelConnect(t)
    \/ \E h \in Handles : DropStream(t, h) \/ DropUdp(t, h)

AcceptorChoice(a) ==
    \/ \E p \in Ports : Listen(a, p)
    \/ DropListener(a)

\* The peer, the device and the owner of the tunnel.
Environment ==
    \/ \E h \in Handles, s \in SockStates : NetEvent(h, s)
    \/ \E h \in Handles : ShutdownStream(h)
    \/ PumpInbound \/ PumpExit

Next ==
    \/ \E t \in Callers : CallerStep(t) \/ CallerChoice(t)
    \/ \E a \in Acceptors : AcceptorStep(a) \/ AcceptorChoice(a)
    \/ \E w \in Watchers : WatchEnable(w) \/ WatchCheck(w)
    \/ \E h \in Handles : LingerExpires(h)
    \/ PumpStep
    \/ Environment

\* Every task that has begun something and every timer goes on.  The steps
\* need strong fairness because the lock they take is also taken by others.
Fairness ==
    /\ \A t \in Callers : SF_vars(CallerStep(t))
    /\ \A a \in Acceptors : SF_vars(AcceptorStep(a))
    /\ \A w \in Watchers : WF_vars(WatchEnable(w) \/ WatchCheck(w))
    /\ \A h \in Handles : SF_vars(LingerExpires(h))
    /\ SF_vars(PumpStep)

Spec == Init /\ [][Next]_vars
FairSpec == Spec /\ Fairness

-----------------------------------------------------------------------------
CallerPcs == {"idle", "load", "pressure", "reclaim", "reclaimRing", "claim", "claimed",
              "full", "connecting", "syn", "refused", "unaddressable", "timedout",
              "retiring", "unclaim", "ring"}
AcceptorPcs == {"idle", "bind", "binding", "accept", "parked", "relist", "load", "pressure",
                "reclaim", "reclaimRing", "claim", "claimed", "reset", "failed"}
PumpPcs == {"poll", "net", "reclaim", "reclaimRing", "asleep", "stopping", "stopClose",
            "stopNotify", "done"}

\* Every variable of the stack has its type.
TypeOK ==
    /\ pc \in [Procs -> CallerPcs \cup AcceptorPcs \cup PumpPcs]
    /\ \A t \in Callers : pc[t] \in CallerPcs
    /\ \A a \in Acceptors : pc[a] \in AcceptorPcs
    /\ pc[Pump] \in PumpPcs
    /\ mine \in [Tasks -> Handles \cup {NoHandle}]
    /\ want \in [Callers -> {"tcp", "udp"}]
    /\ bell \in [Callers -> {"none", "armed", "rung"}]
    /\ sock \in [Handles -> SockStates]
    /\ open \in Nat
    /\ streams \subseteq Handles /\ udps \subseteq Handles
    /\ closing \subseteq Handles /\ uncounted \subseteq closing /\ expired \subseteq closing
    /\ backlog \in [Acceptors -> SUBSET Handles]
    /\ port \in [Acceptors -> Ports \cup {NoPort}]
    /\ lock \in Procs \cup {NoProc}
    /\ wake \in BOOLEAN /\ stopped \in BOOLEAN
    /\ timed \subseteq Handles
    /\ watch \in [Watchers -> {"idle", "check", "wait", "returned"}]

\* The owners of a slot: tasks between their claim and its release or its
\* handover, live sockets, and retired sockets that are still charged.
HoldingPcs == {"claimed", "connecting", "syn", "refused", "unaddressable", "timedout",
               "retiring", "unclaim"}
Holders == {t \in Tasks : pc[t] \in HoldingPcs}
Charged == Holders \cup streams \cup udps \cup (closing \ uncounted)

\* MAX_SOCKETS bounds the tunnel: the counter is exactly the number of slot
\* owners, over every failure, cancellation, reclaim and stop, and it never
\* passes the cap.
SlotsAccounted == open = Cardinality(Charged) /\ open <= MaxSockets

\* SlotFreed is never missed: a caller asleep on it while a slot is free has
\* a signal on its way.  This is what "enabled before they dial again" buys.
RingPending == \E p \in Procs : pc[p] \in {"ring", "reclaimRing"}
FreedNotMissed ==
    \A t \in Callers :
        pc[t] = "full" /\ bell[t] = "armed" /\ open < MaxSockets => RingPending

\* Every entry of the socket set has exactly one owner and every owner's entry
\* is in the set: no handle is used after its removal (smoltcp panics), none
\* is removed twice, and none is leaked when a dial, a stream, a listener or
\* the whole stack ends.
Held(t) == {mine[t]} \ {NoHandle}
OwnedBy(t) == Held(t) \cup (IF t \in Acceptors THEN backlog[t] ELSE {})
HandlesOwnedOnce ==
    /\ \A h \in Handles :
          sock[h] # "Free" <=> \/ h \in streams \cup udps \cup closing
                              \/ \E t \in Tasks : h \in OwnedBy(t)
    /\ streams \cap udps = {} /\ streams \cap closing = {} /\ udps \cap closing = {}
    /\ \A t \in Tasks :
          /\ OwnedBy(t) \cap (streams \cup udps \cup closing) = {}
          /\ t \in Acceptors => mine[t] \notin backlog[t]
          /\ \A u \in Tasks \ {t} : OwnedBy(t) \cap OwnedBy(u) = {}

\* "A flood of inbound peers cannot grow the tunnel's memory past its cap":
\* beside the capped sockets, a listener accounts for its backlog, and for the
\* connection it has in hand and as many as its backlog that it has reset and
\* the next poll removes.
SocketsBounded ==
    Cardinality({h \in Handles : sock[h] # "Free"})
        <= MaxSockets + (2 * Backlog + 1) * Cardinality(Acceptors)

\* The pump never sleeps past a retired socket: its deadline is part of the
\* sleep, or the wake permit is there (the wake with_stack cannot forget).
RetiredSocketSeen ==
    pc[Pump] = "asleep" => closing \subseteq timed \/ wake

\* Nobody waits on a stopped stack: stop() sets the flag before it takes the
\* lock, so an accept either sees it or is woken by the close, and the same
\* order keeps wait_stopped from missing it.
StopReleasesWaiters ==
    pc[Pump] = "done" =>
        /\ \A a \in Acceptors : pc[a] # "parked"
        /\ \A w \in Watchers : watch[w] # "wait"

-----------------------------------------------------------------------------
(* What makes the above inductive.                                           *)

\* A task has a handle in hand exactly between taking and handing it over.
CarryingPcs(t) ==
    IF t \in Callers
    THEN {"connecting", "syn", "refused", "unaddressable", "timedout", "retiring"}
    ELSE {"relist", "load", "pressure", "reclaim", "reclaimRing", "claim", "claimed", "reset"}
Carrying == \A t \in Tasks : mine[t] # NoHandle <=> pc[t] \in CarryingPcs(t)

\* The flag goes up before the sockets are closed, and nobody registers after.
StopOrder ==
    /\ stopped <=> pc[Pump] \in {"stopClose", "stopNotify", "done"}
    /\ pc[Pump] \in {"stopNotify", "done"} => \A a \in Acceptors : pc[a] # "parked"
    /\ pc[Pump] = "done" => \A w \in Watchers : watch[w] # "wait"

StackInv ==
    /\ TypeOK
    /\ Carrying
    /\ HandlesOwnedOnce
    /\ SlotsAccounted
    /\ FreedNotMissed
    /\ RetiredSocketSeen
    /\ StopOrder

\* SocketsBounded counts more than slots, and rests on how the pump works.
\* The sockets the stack aborts on a listener's behalf are closed at once, so
\* the next poll removes every one of them ...
SocketKinds ==
    /\ \A h \in Handles : sock[h] = "Udp" => h \in udps
    /\ \A h \in uncounted : IsClosed(sock[h])

\* ... and while it polls and removes, under one lock, nobody accepts or resets.
Polling == pc[Pump] \in {"net", "reclaim", "reclaimRing"}
LockHeld == \A p \in Procs :
    pc[p] \in {"reclaim", "reclaimRing"} \/ (p = Pump /\ Polling) => lock = p

\* A listener has at most a backlog of sockets listening.
BacklogKept == \A a \in Acceptors :
    /\ Cardinality(backlog[a]) <= Backlog
    /\ pc[a] \in {"idle", "bind"} => backlog[a] = {}
    /\ pc[a] \in {"binding", "relist"} => Cardinality(backlog[a]) < Backlog

\* The connections reset, in hand and ready to be accepted.  A handshake is
\* only completed by a poll, and the poll ends by removing the resets: what
\* one poll leaves ready bounds the resets until the next.
InHand == {mine[a] : a \in Acceptors} \ {NoHandle}
Resets == uncounted \cup InHand
Ready == {h \in Handles : sock[h] = "Open" /\ \E a \in Acceptors : h \in backlog[a]}
ResetsBounded ==
    /\ Cardinality(Resets) <= (Backlog + 1) * Cardinality(Acceptors)
    /\ ~Polling => Cardinality(Resets \cup Ready) <= (Backlog + 1) * Cardinality(Acceptors)

BoundInv == SocketKinds /\ LockHeld /\ BacklogKept /\ ResetsBounded

-----------------------------------------------------------------------------
\* While the pump runs, a retired socket is reclaimed: closed, or after LINGER.
RetiredReclaimed == \A h \in Handles : h \in closing ~> h \notin closing \/ stopped

\* Every dial ends, with a stream, an error, or AtCapacity.
DialsEnd == \A t \in Callers : pc[t] = "load" ~> pc[t] \in {"idle", "full"}

=============================================================================
