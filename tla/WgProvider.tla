----------------------------- MODULE WgProvider -----------------------------
(***************************************************************************)
(* WireGuardTunnelProvider (src/wireguard/mod.rs): providers that each own *)
(* at most one tunnel (a gotatun device, a network stack and the pump that *)
(* joins them), bring it up for the first caller, replace it when it is    *)
(* dead or silent, and tear it down on retire, on shutdown or when the     *)
(* last Arc of it is dropped.  A provider may be carried by another one:   *)
(* its tunnel then rides on a UDP socket of the other's stack and ends     *)
(* with it.                                                                *)
(*                                                                         *)
(* One action is what a task does between two awaits.  The stack itself is *)
(* TunnelStack's; here it is stopped exactly when its pump has ended.      *)
(***************************************************************************)
EXTENDS Integers, FiniteSets

CONSTANTS
    Callers,     \* tasks in dial, prepare, listen, resolve_host or probe_handshake
    Closers,     \* tasks in retire or shutdown
    Jobs,        \* what callers call: "dial", "prepare" (a use of tunnel()), "probe";
                 \* and closers: "retire", "shutdown"
    Providers,
    Carrier,     \* the provider each one is carried by, or NoProvider
    NoProvider,
    Tunnels,     \* identities of tunnels, free for reuse once one is gone
    NoTunnel,
    NoTask

Tasks == Callers \cup Closers

\* A carried provider holds its own mutex while it waits for its carrier's, so
\* chains are acyclic; two levels show all that longer ones do.
ASSUME WgAssumption ==
    /\ IsFiniteSet(Tasks) /\ IsFiniteSet(Tunnels)
    /\ Callers \cap Closers = {} /\ NoTask \notin Tasks /\ NoTunnel \notin Tunnels
    /\ NoProvider \notin Providers
    /\ Carrier \in [Providers -> Providers \cup {NoProvider}]
    /\ \A p \in Providers : Carrier[p] # NoProvider => Carrier[Carrier[p]] = NoProvider
    /\ Jobs \subseteq {"dial", "prepare", "probe", "retire", "shutdown"}

VARIABLES
    pc,        \* where each task is
    job,       \* what a task was asked for
    goal,      \* the provider a task was asked of
    at,        \* the provider it is working in: goal, or the carrier of goal
    need,      \* what a carried bring-up wants of its carrier: "resolve", then "bind"
    redial,    \* a dial is on its second attempt
    target,    \* the tunnel a task dials on or tears down
    holds,     \* the tunnels a task holds an Arc of
    made,      \* the tunnel a task's bring_up is building
    sock,      \* the carrier tunnel whose stack the bound socket belongs to
    lock,      \* who holds a provider's `tunnel' mutex
    current,   \* what that mutex protects
    closed,    \* WireGuardTunnelProvider::closed
    down,      \* history: a shutdown of the provider has returned
    device,    \* "none", "up", "stopping" or "stopped"
    taken,     \* tunnels whose `device' field is None: retire took it
    pump,      \* "none", "running", "aborted" or "ended"
    carrier,   \* the tunnel whose stack carries this one
    watched,   \* tunnels whose carrier_watch task is running
    age,       \* of the last handshake: "recent", "old" (RECENT_HANDSHAKE) or "expired"
    dropping   \* tunnels whose destructor's task is running

taskVars == <<pc, job, goal, at, need, redial, target, holds, made, sock>>
provVars == <<lock, current, closed, down>>
tunVars == <<device, taken, pump, carrier, watched, age>>
vars == <<taskVars, provVars, tunVars, dropping>>

Goto(k, l) == pc' = [pc EXCEPT ![k] = l]

\* The tunnels somebody has an Arc of.
Live(h, cur) == {t \in Tunnels : (\E p \in Providers : cur[p] = t) \/ \E k \in Tasks : t \in h[k]}

\* The Arcs after a step; a tunnel nobody holds any more is dropped.
Hold(h, cur) ==
    /\ holds' = h
    /\ current' = cur
    /\ dropping' = dropping \cup (Live(holds, current) \ Live(h, cur))

\* JoinHandle::abort, which does nothing to a task that has ended.
AbortPump(t) == pump' = [pump EXCEPT ![t] = IF @ = "ended" THEN @ ELSE "aborted"]

Unlocked(k) == [p \in Providers |-> IF lock[p] = k THEN NoTask ELSE lock[p]]

Init ==
    /\ pc = [k \in Tasks |-> "idle"] /\ job = [k \in Tasks |-> "none"]
    /\ goal = [k \in Tasks |-> NoProvider] /\ at = [k \in Tasks |-> NoProvider]
    /\ need = [k \in Callers |-> "none"] /\ redial = [k \in Callers |-> FALSE]
    /\ target = [k \in Tasks |-> NoTunnel] /\ holds = [k \in Tasks |-> {}]
    /\ made = [k \in Callers |-> NoTunnel] /\ sock = [k \in Callers |-> NoTunnel]
    /\ lock = [p \in Providers |-> NoTask] /\ current = [p \in Providers |-> NoTunnel]
    /\ closed = [p \in Providers |-> FALSE] /\ down = [p \in Providers |-> FALSE]
    /\ device = [t \in Tunnels |-> "none"] /\ taken = {} /\ pump = [t \in Tunnels |-> "none"]
    /\ carrier = [t \in Tunnels |-> NoTunnel] /\ watched = {}
    /\ age = [t \in Tunnels |-> "expired"]
    /\ dropping = {}

\* A task is done, or its future is dropped: guards and Arcs go.
Leave(k) ==
    /\ Goto(k, "idle")
    /\ job' = [job EXCEPT ![k] = "none"]
    /\ goal' = [goal EXCEPT ![k] = NoProvider] /\ at' = [at EXCEPT ![k] = NoProvider]
    /\ target' = [target EXCEPT ![k] = NoTunnel]
    /\ lock' = Unlocked(k)
    /\ Hold([holds EXCEPT ![k] = {}], current)

\* ... and with them what a caller's bring_up has built so far.
LeaveCall(k) ==
    /\ Leave(k)
    /\ need' = [need EXCEPT ![k] = "none"] /\ redial' = [redial EXCEPT ![k] = FALSE]
    /\ made' = [made EXCEPT ![k] = NoTunnel] /\ sock' = [sock EXCEPT ![k] = NoTunnel]

-----------------------------------------------------------------------------
(* tunnel, replace_tunnel and bring_up.                                      *)

\* prepare, dial, listen, resolve_host and a carried tunnel's bind start with
\* tunnel(); a probe with bring_up, without the mutex and whatever `closed' says.
Call(k, p, j) ==
    /\ pc[k] = "idle" /\ j \in Jobs \cap {"dial", "prepare", "probe"}
    /\ job' = [job EXCEPT ![k] = j]
    /\ goal' = [goal EXCEPT ![k] = p] /\ at' = [at EXCEPT ![k] = p]
    /\ Goto(k, IF j = "probe" THEN "bringup" ELSE "tunnel")
    /\ UNCHANGED <<need, redial, target, holds, made, sock, provVars, tunVars, dropping>>

Stopped(t) == pump[t] = "ended"

\* WgTunnel::is_alive
Alive(t) ==
    /\ ~Stopped(t)
    /\ carrier[t] # NoTunnel => ~Stopped(carrier[t])
    /\ device[t] = "up" /\ age[t] # "expired"

\* What the caller does with the Arc: a dial goes on to dial_on; a bring_up of
\* the carried provider has its name resolved or its socket bound, lets go of
\* the Arc and goes on; anything else is done.
Proceed(k, t, cur) ==
    /\ lock' = [lock EXCEPT ![at[k]] = NoTask]
    /\ made' = [made EXCEPT ![k] = NoTunnel]
    /\ \/ /\ at[k] # goal[k]
          /\ at' = [at EXCEPT ![k] = goal[k]]
          /\ need' = [need EXCEPT ![k] = IF @ = "resolve" THEN "bind" ELSE "none"]
          /\ sock' = [sock EXCEPT ![k] = IF need[k] = "bind" THEN t ELSE NoTunnel]
          /\ Goto(k, IF need[k] = "bind" THEN "start" ELSE "carry")
          /\ Hold(holds, cur)
          /\ UNCHANGED <<job, goal, redial, target>>
       \/ /\ at[k] = goal[k] /\ job[k] = "dial"
          /\ sock' = [sock EXCEPT ![k] = NoTunnel]
          /\ Goto(k, "dial")
          /\ target' = [target EXCEPT ![k] = t]
          /\ Hold([holds EXCEPT ![k] = @ \cup {t}], cur)
          /\ UNCHANGED <<job, goal, at, need, redial>>
       \/ /\ at[k] = goal[k] /\ job[k] = "prepare"
          /\ sock' = [sock EXCEPT ![k] = NoTunnel]
          /\ Goto(k, "idle")
          /\ job' = [job EXCEPT ![k] = "none"]
          /\ goal' = [goal EXCEPT ![k] = NoProvider] /\ at' = [at EXCEPT ![k] = NoProvider]
          /\ Hold(holds, cur)
          /\ UNCHANGED <<need, redial, target>>

\* Faulty variant: the flag is not looked at once the mutex is won.
ClosedUnseen(p) == FALSE
ClosedSeen(p) == closed[p]

\* Faulty variant: a dial replaces whatever tunnel is there.
KeepNothing(k, t) == FALSE
\* tunnel() keeps a tunnel that is alive, replace_tunnel one that is not the
\* tunnel its dial went silent on.
Kept(k, t) ==
    /\ t # NoTunnel
    /\ IF pc[k] = "tunnel" THEN Alive(t) ELSE t # target[k]

Acquire(k) ==
    /\ pc[k] \in {"tunnel", "replace"} /\ lock[at[k]] = NoTask
    /\ UNCHANGED <<closed, down, tunVars>>
    /\ \/ /\ ClosedSeen(at[k])
          /\ LeaveCall(k)
       \/ /\ ~ClosedSeen(at[k]) /\ Kept(k, current[at[k]])
          /\ Proceed(k, current[at[k]], current)
       \/ /\ ~ClosedSeen(at[k]) /\ ~Kept(k, current[at[k]])
          /\ lock' = [lock EXCEPT ![at[k]] = k]
          /\ Hold(holds, [current EXCEPT ![at[k]] = NoTunnel])
          /\ Goto(k, "bringup")
          /\ UNCHANGED <<job, goal, at, need, redial, target, made, sock>>

\* A carried provider has its endpoint's name, unless it is an address,
\* resolved by its carrier, and a socket bound there.
BringUp(k) ==
    /\ pc[k] = "bringup"
    /\ IF Carrier[at[k]] = NoProvider
       THEN Goto(k, "start") /\ UNCHANGED need
       ELSE /\ Goto(k, "carry")
            /\ \E n \in {"resolve", "bind"} : need' = [need EXCEPT ![k] = n]
    /\ UNCHANGED <<job, goal, at, redial, target, holds, made, sock, provVars, tunVars, dropping>>

VisitCarrier(k) ==
    /\ pc[k] = "carry"
    /\ at' = [at EXCEPT ![k] = Carrier[goal[k]]]
    /\ Goto(k, "tunnel")
    /\ UNCHANGED <<job, goal, need, redial, target, holds, made, sock, provVars, tunVars, dropping>>

Gone(t) ==
    /\ t \notin Live(holds, current) /\ t \notin dropping
    /\ \A k \in Callers : made[k] # t /\ sock[k] # t
    /\ device[t] \in {"none", "stopped"} /\ pump[t] \in {"none", "ended"}

FreeTunnels == {t \in Tunnels : Gone(t) /\ \A u \in Tunnels : carrier[u] = t => Gone(u)}

\* WgStack::start spawns the pump; then the device is built.
StartStack(k, t) ==
    /\ pc[k] = "start" /\ t \in FreeTunnels
    /\ pump' = [pump EXCEPT ![t] = "running"]
    /\ device' = [device EXCEPT ![t] = "none"] /\ taken' = taken \ {t}
    /\ carrier' = [u \in Tunnels |-> IF u = t THEN (IF at[k] = goal[k] THEN sock[k] ELSE NoTunnel)
                                     ELSE IF carrier[u] = t THEN NoTunnel ELSE carrier[u]]
    /\ age' = [age EXCEPT ![t] = "expired"]
    /\ made' = [made EXCEPT ![k] = t]
    /\ Goto(k, "build")
    /\ UNCHANGED <<job, goal, at, need, redial, target, holds, sock, provVars, watched, dropping>>

DeviceBuilt(k) ==
    /\ pc[k] = "build"
    /\ device' = [device EXCEPT ![made[k]] = "up"]
    /\ Goto(k, "handshake")
    /\ UNCHANGED <<job, goal, at, need, redial, target, holds, made, sock, provVars, taken, pump, carrier,
                   watched, age, dropping>>

\* The device cannot be built: the pump is told to stop.
BuildFails(k) ==
    /\ pc[k] = "build"
    /\ AbortPump(made[k])
    /\ LeaveCall(k)
    /\ UNCHANGED <<closed, down, device, taken, carrier, watched, age>>

\* Validation, the resolver or the carrier's socket fails: an early return.
BringUpFails(k) ==
    /\ pc[k] \in {"bringup", "carry", "start"}
    /\ LeaveCall(k)
    /\ UNCHANGED <<closed, down, tunVars>>

\* Faulty variant: nobody watches the carrier.
NoWatch(t) == watched
\* carrier_watch is spawned for a carried tunnel.
Watch(t) == IF carrier[t] = NoTunnel THEN watched ELSE watched \cup {t}

\* await_handshake sees the first handshake, and the tunnel is current; a probe
\* drops it instead.
HandshakeDone(k) ==
    /\ pc[k] = "handshake"
    /\ age' = [age EXCEPT ![made[k]] = "recent"]
    /\ watched' = Watch(made[k])
    /\ IF at[k] = goal[k] /\ job[k] = "probe"
       THEN /\ Goto(k, "idle")
            /\ job' = [job EXCEPT ![k] = "none"]
            /\ goal' = [goal EXCEPT ![k] = NoProvider] /\ at' = [at EXCEPT ![k] = NoProvider]
            /\ made' = [made EXCEPT ![k] = NoTunnel] /\ sock' = [sock EXCEPT ![k] = NoTunnel]
            /\ dropping' = dropping \cup {made[k]}
            /\ UNCHANGED <<need, redial, target, holds, lock, current>>
       ELSE Proceed(k, made[k], [current EXCEPT ![at[k]] = made[k]])
    /\ UNCHANGED <<closed, down, device, taken, pump, carrier>>

\* The budget is used up, or the pump has ended: the device is stopped ...
HandshakeFailsNever(k) == FALSE /\ UNCHANGED vars  \* faulty variant: no budget
HandshakeFails(k) ==
    /\ pc[k] = "handshake"
    /\ device' = [device EXCEPT ![made[k]] = "stopping"]
    /\ Goto(k, "failing")
    /\ UNCHANGED <<job, goal, at, need, redial, target, holds, made, sock, provVars, taken, pump, carrier,
                   watched, age, dropping>>

\* ... and, once it has, the pump.
BringUpFailed(k) ==
    /\ pc[k] = "failing" /\ device[made[k]] = "stopped"
    /\ AbortPump(made[k])
    /\ LeaveCall(k)
    /\ UNCHANGED <<closed, down, device, taken, carrier, watched, age>>

\* A future is dropped at an await.  A half-built tunnel goes with it: its
\* device stops on drop, or its halves of the channels are gone.
Cancel(k) ==
    /\ pc[k] # "idle" /\ k \in Callers
    /\ LeaveCall(k)
    /\ device' = [t \in Tunnels |-> IF t # made[k] THEN device[t]
                                    ELSE IF device[t] = "up" THEN "stopping"
                                    ELSE IF device[t] = "none" THEN "stopped" ELSE device[t]]
    /\ UNCHANGED <<closed, down, taken, pump, carrier, watched, age>>

-----------------------------------------------------------------------------
(* dial, once it has a tunnel.                                               *)

\* dial_on has a stream, or the destination's refusal, or the resolver's error.
DialEnds(k) ==
    /\ pc[k] = "dial"
    /\ LeaveCall(k)
    /\ UNCHANGED <<closed, down, tunVars>>

Recent(t) == device[t] = "up" /\ age[t] = "recent"

\* dial_on went silent.  last_handshake_age waits for a retire that is stopping
\* the device; the first silence of a tunnel without a recent handshake costs
\* one reconnect.
DialSilent(k) ==
    /\ pc[k] = "dial" /\ device[target[k]] # "stopping"
    /\ \/ /\ redial[k] \/ Recent(target[k])
          /\ LeaveCall(k)
       \/ /\ ~redial[k] /\ ~Recent(target[k])
          /\ redial' = [redial EXCEPT ![k] = TRUE]
          /\ Goto(k, "replace")
          /\ UNCHANGED <<job, goal, at, need, target, holds, made, sock, lock, current, dropping>>
    /\ UNCHANGED <<closed, down, tunVars>>

-----------------------------------------------------------------------------
(* retire and shutdown.                                                      *)

Retire(c, p, j) ==
    /\ pc[c] = "idle" /\ j \in Jobs \cap {"retire", "shutdown"}
    /\ job' = [job EXCEPT ![c] = j]
    /\ goal' = [goal EXCEPT ![c] = p]
    /\ closed' = [closed EXCEPT ![p] = @ \/ j = "shutdown"]
    /\ Goto(c, "retire")
    /\ UNCHANGED <<at, need, redial, target, holds, made, sock, lock, current, down, tunVars, dropping>>

Done(c) == down' = [down EXCEPT ![goal[c]] = @ \/ job[c] = "shutdown"]

\* Faulty variant: the pump is stopped first.
StopPumpFirst(t) == AbortPump(t) /\ UNCHANGED <<device, age>>
StopDevice(t) ==
    /\ device' = [device EXCEPT ![t] = "stopping"]
    /\ age' = [age EXCEPT ![t] = "expired"]
    /\ UNCHANGED pump

\* Faulty variant: the provider keeps the Arc that retire works on.
Lent(p) == current
Emptied(p) == [current EXCEPT ![p] = NoTunnel]

\* The mutex is kept until retire is done.
Take(c) ==
    /\ pc[c] = "retire" /\ lock[goal[c]] = NoTask
    /\ UNCHANGED <<at, need, redial, made, sock, closed, carrier, watched>>
    /\ LET t == current[goal[c]] IN
        IF t = NoTunnel
        THEN Leave(c) /\ Done(c) /\ UNCHANGED <<device, taken, pump, age>>
        ELSE /\ lock' = [lock EXCEPT ![goal[c]] = c]
             /\ Hold([holds EXCEPT ![c] = {t}], Emptied(goal[c]))
             /\ target' = [target EXCEPT ![c] = t]
             /\ StopDevice(t) /\ taken' = taken \cup {t}
             /\ Goto(c, "stopping")
             /\ UNCHANGED <<job, goal, down>>

\* The device has stopped: the pump and the watch are stopped.
StopPump(c) ==
    /\ pc[c] = "stopping" /\ device[target[c]] = "stopped"
    /\ AbortPump(target[c])
    /\ watched' = watched \ {target[c]}
    /\ Goto(c, "joining")
    /\ UNCHANGED <<job, goal, at, need, redial, target, holds, made, sock, provVars, device, taken, carrier,
                   age, dropping>>

\* Only the last holder of the tunnel waits for its pump.
Joined(c) ==
    /\ pc[c] = "joining"
    /\ (\E k \in Tasks \ {c} : target[c] \in holds[k]) \/ Stopped(target[c])
    /\ Leave(c) /\ Done(c)
    /\ UNCHANGED <<need, redial, made, sock, closed, tunVars>>

CancelRetire(c) ==
    /\ pc[c] # "idle" /\ c \in Closers
    /\ Leave(c)
    /\ UNCHANGED <<need, redial, made, sock, closed, down, tunVars>>

-----------------------------------------------------------------------------
(* The tunnel's own tasks, and time.                                         *)

\* gotatun: a device that is asked to stop, or is dropped, stops.
DeviceStops(t) ==
    /\ device[t] = "stopping"
    /\ device' = [device EXCEPT ![t] = "stopped"]
    /\ UNCHANGED <<taskVars, provVars, taken, pump, carrier, watched, age, dropping>>

\* Faulty variant: a pump whose channels are closed goes on.
PumpEndsAborted(t) ==
    /\ pump[t] = "aborted"
    /\ pump' = [pump EXCEPT ![t] = "ended"]
    /\ UNCHANGED <<taskVars, provVars, device, taken, carrier, watched, age, dropping>>

\* The pump ends when it is aborted or notified, or when the device's halves of
\* the channels are gone; StopOnExit then stops the stack.
PumpEnds(t) ==
    /\ pump[t] = "aborted" \/ (pump[t] = "running" /\ device[t] = "stopped")
    /\ pump' = [pump EXCEPT ![t] = "ended"]
    /\ UNCHANGED <<taskVars, provVars, device, taken, carrier, watched, age, dropping>>

\* Drop for WgTunnel spawns a task: the device first, then the pump.
DropDevice(t) ==
    /\ t \in dropping /\ device[t] = "up"
    /\ StopDevice(t)
    /\ UNCHANGED <<taskVars, provVars, taken, carrier, watched, dropping>>

DropPump(t) ==
    /\ t \in dropping /\ (device[t] = "stopped" \/ t \in taken)
    /\ AbortPump(t)
    /\ watched' = watched \ {t}
    /\ dropping' = dropping \ {t}
    /\ UNCHANGED <<taskVars, provVars, device, taken, carrier, age>>

\* carrier_watch: the carrier's socket has closed.
CarrierCloses(t) ==
    /\ t \in watched /\ Stopped(carrier[t])
    /\ AbortPump(t)
    /\ watched' = watched \ {t}
    /\ UNCHANGED <<taskVars, provVars, device, taken, carrier, age, dropping>>

\* A peer that is silent for longer and longer, or shakes hands again.
Age(t) ==
    /\ device[t] = "up" /\ age[t] # "expired" /\ t \in Live(holds, current)
    /\ \E a \in {"recent", "old", "expired"} \ {age[t]} :
        age' = [age EXCEPT ![t] = a]
    /\ UNCHANGED <<taskVars, provVars, device, taken, pump, carrier, watched, dropping>>

-----------------------------------------------------------------------------
\* The steps of a bring_up that do not depend on the peer.
Own(k) ==
    \/ BringUp(k)
    \/ VisitCarrier(k)
    \/ \E t \in Tunnels : StartStack(k, t)
    \/ DeviceBuilt(k)
    \/ BuildFails(k)
    \/ BringUpFails(k)
    \/ HandshakeFails(k)
    \/ BringUpFailed(k)

CallerNext(k) ==
    \/ \E p \in Providers, j \in Jobs : Call(k, p, j)
    \/ Acquire(k)
    \/ Own(k)
    \/ HandshakeDone(k)
    \/ Cancel(k)
    \/ DialEnds(k)
    \/ DialSilent(k)

CloserNext(c) ==
    \/ \E p \in Providers, j \in Jobs : Retire(c, p, j)
    \/ Take(c)
    \/ StopPump(c)
    \/ Joined(c)
    \/ CancelRetire(c)

TunnelNext(t) ==
    \/ DeviceStops(t)
    \/ PumpEnds(t)
    \/ DropDevice(t)
    \/ DropPump(t)
    \/ CarrierCloses(t)
    \/ Age(t)

Next ==
    \/ \E k \in Callers : CallerNext(k)
    \/ \E c \in Closers : CloserNext(c)
    \/ \E t \in Tunnels : TunnelNext(t)

Spec == Init /\ [][Next]_vars

\* Spawned tasks run.
TunnelFairness ==
    \A t \in Tunnels :
        /\ WF_vars(DeviceStops(t)) /\ WF_vars(PumpEnds(t)) /\ WF_vars(CarrierCloses(t))
        /\ WF_vars(DropDevice(t)) /\ WF_vars(DropPump(t))

\* The provider's mutex is tokio's, which is fair; every await of bring_up and
\* of retire is bounded by a timeout or is a device that stops.
TaskFairness ==
    /\ \A k \in Callers : WF_vars(Own(k)) /\ SF_vars(Acquire(k))
    /\ \A c \in Closers : SF_vars(Take(c)) /\ WF_vars(StopPump(c)) /\ WF_vars(Joined(c))

FairSpec == Spec /\ TunnelFairness /\ TaskFairness

-----------------------------------------------------------------------------
\* The types of the tasks' local state, the providers' fields and the tunnels;
\* only a carried tunnel has a carrier_watch.
TypeOK ==
    /\ pc \in [Tasks -> {"idle", "tunnel", "replace", "bringup", "carry", "start", "build",
                         "handshake", "failing", "dial", "retire", "stopping", "joining"}]
    /\ job \in [Tasks -> {"none", "dial", "prepare", "probe", "retire", "shutdown"}]
    /\ goal \in [Tasks -> Providers \cup {NoProvider}]
    /\ at \in [Tasks -> Providers \cup {NoProvider}]
    /\ need \in [Callers -> {"none", "resolve", "bind"}] /\ redial \in [Callers -> BOOLEAN]
    /\ target \in [Tasks -> Tunnels \cup {NoTunnel}] /\ holds \in [Tasks -> SUBSET Tunnels]
    /\ made \in [Callers -> Tunnels \cup {NoTunnel}]
    /\ sock \in [Callers -> Tunnels \cup {NoTunnel}]
    /\ lock \in [Providers -> Tasks \cup {NoTask}]
    /\ current \in [Providers -> Tunnels \cup {NoTunnel}]
    /\ closed \in [Providers -> BOOLEAN] /\ down \in [Providers -> BOOLEAN]
    /\ device \in [Tunnels -> {"none", "up", "stopping", "stopped"}] /\ taken \subseteq Tunnels
    /\ pump \in [Tunnels -> {"none", "running", "aborted", "ended"}]
    /\ carrier \in [Tunnels -> Tunnels \cup {NoTunnel}] 
    /\ watched \subseteq {t \in Tunnels : carrier[t] # NoTunnel}
    /\ age \in [Tunnels -> {"recent", "old", "expired"}] /\ dropping \subseteq Tunnels

(* WgTunnel is shared as an Arc.  The tunnel a provider hands out is no      *)
(* other provider's, its device runs, and nobody tears it down: neither a    *)
(* destructor, nor the retire or the cancelled bring_up of another tunnel.   *)
CurrentIntact ==
    \A p \in Providers : LET t == current[p] IN t # NoTunnel =>
        /\ device[t] = "up" /\ t \notin taken /\ t \notin dropping
        /\ \A q \in Providers : current[q] = t => q = p

(* Drop for WgTunnel and retire: "The device before the pump".  However a    *)
(* tunnel ends, by retire, by a failed or cancelled bring_up or by the drop  *)
(* of its last Arc, its pump is not stopped while its device runs and nobody *)
(* has asked it to stop; only a carrier that is gone stops the pump first.   *)
DeviceBeforePump ==
    \A t \in Tunnels : pump[t] \in {"aborted", "ended"} /\ device[t] = "up" =>
        carrier[t] # NoTunnel /\ Stopped(carrier[t])

(* tunnel, replace_tunnel: a caller takes the current tunnel away from the   *)
(* provider only if it is dead, or is the one that caller's own dial went    *)
(* silent on; never the tunnel another dial has rebuilt meanwhile.           *)
OnlySuspectReplaced ==
    [][\A p \in Providers : current[p] # NoTunnel /\ current'[p] # current[p] =>
        \/ ~Alive(current[p])
        \/ \E c \in Closers : lock'[p] = c
        \/ \E k \in Callers : pc[k] = "replace" /\ target[k] = current[p] /\ lock'[p] = k]_vars

(* Each provider implements ProviderSpec: one tunnel at a time, established  *)
(* only where there is none, and none once a shutdown has returned, whatever *)
(* bring_up was under way when it was called.                                *)
Phase(p) == IF down[p] THEN "closed" ELSE IF closed[p] THEN "closing" ELSE "open"
Provider(p) == INSTANCE ProviderSpec
    WITH Sessions <- Tunnels, NoSession <- NoTunnel, current <- current[p], phase <- Phase(p)
ImplementsProvider ==
    /\ \A p \in Providers : Provider(p)!PInit
    /\ [][\A p \in Providers : Provider(p)!PNext \/ UNCHANGED Provider(p)!pvars]_vars

(* WgTunnel::carrier_watch: "a carried tunnel whose carrier is gone ends its *)
(* connections instead of leaving them waiting".  Once a tunnel is up, the   *)
(* end of its carrier's stack ends its own.                                  *)
CarriedEnds ==
    \A t \in Tunnels :
        carrier[t] # NoTunnel /\ Stopped(carrier[t]) /\ (\E p \in Providers : current[p] = t)
            ~> Stopped(t)

(* WgTunnel::runtime: a tunnel dropped from any place, half-built ones of    *)
(* cancelled calls included, does not leak its device, socket and pump.      *)
Abandoned(t) ==
    t \notin Live(holds, current) /\ (\A k \in Callers : made[k] # t) /\ pump[t] # "none"
NothingLeaks ==
    \A t \in Tunnels : Abandoned(t) ~> pump[t] = "ended" /\ device[t] \in {"none", "stopped"}

(* shutdown and retire return: neither a bring_up that holds the mutex while *)
(* it waits for its carrier's, nor the callers queued before, block them for *)
(* ever.                                                                     *)
RetireReturns == \A c \in Closers : pc[c] = "retire" ~> pc[c] = "idle"

=============================================================================
