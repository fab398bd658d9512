-------------------------- MODULE WireGuardProofs --------------------------
(* Proofs about src/wireguard/mod.rs: WgProvider, for any number of tasks,   *)
(* tunnels and providers of which each may be carried by one that is not     *)
(* carried itself, and CarriedMtu, for any nesting.                          *)
EXTENDS WgProvider, CarriedMtu, TLAPS

CallerPcs == {"idle", "tunnel", "replace", "bringup", "carry", "start", "build", "handshake",
              "failing", "dial"}
CloserPcs == {"idle", "retire", "stopping", "joining"}

\* The places of a bring_up, and those at which it has made a tunnel.
Building == {"bringup", "carry", "start", "build", "handshake", "failing"}
Making == {"build", "handshake", "failing"}

\* A probe brings up its tunnel without the mutex of the provider it probes.
Unguarded(k) == at[k] = goal[k] /\ job[k] = "probe"

\* Where a task is tells which provider it works in and whether it has made a tunnel.
PlaceInv ==
    /\ \A k \in Callers :
        /\ pc[k] \in CallerPcs
        /\ pc[k] = "idle" => at[k] = goal[k]
        /\ pc[k] # "idle" => goal[k] \in Providers /\ at[k] \in Providers
        /\ at[k] # goal[k] => Carrier[goal[k]] = at[k]
        /\ pc[k] = "carry" => at[k] = goal[k] /\ Carrier[goal[k]] \in Providers
        /\ pc[k] \in {"replace", "dial"} => at[k] = goal[k] /\ job[k] = "dial"
        /\ pc[k] \in Making <=> made[k] # NoTunnel
    /\ \A c \in Closers :
        /\ pc[c] \in CloserPcs
        /\ pc[c] # "idle" => goal[c] \in Providers

\* The mutex of a provider is held over an empty slot: by whoever brings up its
\* tunnel or a tunnel carried by it, and by whoever tears its tunnel down.
LockInv ==
    /\ \A p \in Providers : lock[p] # NoTask => current[p] = NoTunnel
    /\ \A k \in Callers :
        /\ pc[k] \in Building /\ ~Unguarded(k) => lock[at[k]] = k
        /\ at[k] # goal[k] /\ job[k] # "probe" => lock[goal[k]] = k
    /\ \A c \in Closers : pc[c] \in {"stopping", "joining"} => lock[goal[c]] = c

\* A shutdown raises the flag before it waits for the mutex, so once it has
\* returned there is no tunnel and nobody who could establish one.
ClosedInv ==
    /\ \A c \in Closers : pc[c] # "idle" /\ job[c] = "shutdown" => closed[goal[c]]
    /\ \A p \in Providers : down[p] => closed[p] /\ current[p] = NoTunnel /\ lock[p] \notin Callers

\* A tunnel in the making is its maker's alone.
MakingInv ==
    /\ \A k \in Callers :
        /\ made[k] # NoTunnel => made[k] \notin Live(holds, current) /\ made[k] \notin dropping
        /\ pc[k] = "build" => device[made[k]] = "none" /\ pump[made[k]] = "running"
        /\ pc[k] = "handshake" => device[made[k]] = "up"
    /\ \A k, l \in Callers : made[k] # NoTunnel /\ made[k] = made[l] => k = l

\* A destructor runs when the last Arc is gone, and only a tunnel that is held or
\* being dropped has a carrier_watch; a device that was taken is being stopped.
DropInv ==
    /\ \A t \in dropping : t \notin Live(holds, current)
    /\ \A t \in watched : t \in Live(holds, current) \/ t \in dropping
    /\ \A t \in taken : device[t] \in {"stopping", "stopped"}

WgInv == TypeOK /\ PlaceInv /\ LockInv /\ ClosedInv /\ MakingInv /\ DropInv /\ CurrentIntact /\ DeviceBeforePump

\* The empty provider satisfies the invariant.
LEMMA WgInit == Init => WgInv
<1> USE WgAssumption
<1> SUFFICES ASSUME Init PROVE WgInv
  OBVIOUS
<1> USE DEF Init
<1>1. TypeOK
  <2>1. redial \in [Callers -> BOOLEAN] /\ closed \in [Providers -> BOOLEAN] /\ down \in [Providers -> BOOLEAN]
    OBVIOUS
  <2> QED
    BY <2>1 DEF TypeOK, Tasks
<1>2. PlaceInv /\ LockInv /\ ClosedInv
  BY DEF PlaceInv, LockInv, ClosedInv, CallerPcs, CloserPcs, Making, Building, Unguarded, Tasks
<1>3. MakingInv /\ DropInv
  BY DEF MakingInv, DropInv, Tasks
<1>4. CurrentIntact /\ DeviceBeforePump
  BY DEF CurrentIntact, DeviceBeforePump
<1> QED
  BY <1>1, <1>2, <1>3, <1>4 DEF WgInv

\* Every step keeps the types.
LEMMA WgTypeStep == WgInv /\ [Next]_vars => TypeOK'
<1> USE WgAssumption DEF Tasks, Goto, taskVars, provVars, tunVars
<1> SUFFICES ASSUME WgInv, [Next]_vars PROVE TypeOK'
  OBVIOUS
<1>0. TypeOK /\ PlaceInv /\ DropInv
  BY DEF WgInv
<1> USE DEF TypeOK
<1>1. ASSUME NEW h \in [Tasks -> SUBSET Tunnels], NEW cur \in [Providers -> Tunnels \cup {NoTunnel}], Hold(h, cur)
      PROVE  /\ holds' \in [Tasks -> SUBSET Tunnels] /\ current' \in [Providers -> Tunnels \cup {NoTunnel}]
             /\ dropping' \subseteq Tunnels
  BY <1>0, <1>1 DEF Hold, Live
<1>2. ASSUME NEW k \in Tasks, Leave(k)
      PROVE  /\ pc' \in [Tasks -> CallerPcs \cup CloserPcs]
             /\ job' \in [Tasks -> {"none", "dial", "prepare", "probe", "retire", "shutdown"}]
             /\ goal' \in [Tasks -> Providers \cup {NoProvider}]
             /\ at' \in [Tasks -> Providers \cup {NoProvider}]
             /\ target' \in [Tasks -> Tunnels \cup {NoTunnel}] /\ holds' \in [Tasks -> SUBSET Tunnels]
             /\ lock' \in [Providers -> Tasks \cup {NoTask}]
             /\ current' \in [Providers -> Tunnels \cup {NoTunnel}] /\ dropping' \subseteq Tunnels
  <2>1. [holds EXCEPT ![k] = {}] \in [Tasks -> SUBSET Tunnels]
    BY <1>0
  <2>2. Hold([holds EXCEPT ![k] = {}], current)
    BY <1>2 DEF Leave
  <2> QED
    BY <1>0, <1>1, <1>2, <2>1, <2>2 DEF Leave, Unlocked, CallerPcs, CloserPcs
<1>3. ASSUME NEW k \in Callers, LeaveCall(k)
      PROVE  /\ need' \in [Callers -> {"none", "resolve", "bind"}] /\ redial' \in [Callers -> BOOLEAN]
             /\ made' \in [Callers -> Tunnels \cup {NoTunnel}] /\ sock' \in [Callers -> Tunnels \cup {NoTunnel}]
  BY <1>0, <1>3 DEF LeaveCall
<1>4. ASSUME NEW k \in Callers, LeaveCall(k), UNCHANGED <<closed, down, tunVars>> PROVE TypeOK'
  <2>1. Leave(k)
    BY <1>4 DEF LeaveCall
  <2> QED
    BY <1>0, <1>2, <1>3, <1>4, <2>1 DEF CallerPcs, CloserPcs
<1>5. ASSUME NEW k \in Callers, LeaveCall(k), NEW t, AbortPump(t),
             UNCHANGED <<closed, down, device, taken, carrier, watched, age>>
      PROVE  TypeOK'
  <2>1. Leave(k)
    BY <1>5 DEF LeaveCall
  <2>2. pump' \in [Tunnels -> {"none", "running", "aborted", "ended"}]
    BY <1>0, <1>5 DEF AbortPump
  <2> QED
    BY <1>0, <1>2, <1>3, <1>5, <2>1, <2>2 DEF CallerPcs, CloserPcs
<1>6. ASSUME NEW k \in Callers, NEW t \in Tunnels \cup {NoTunnel}, NEW cur \in [Providers -> Tunnels \cup {NoTunnel}],
             Proceed(k, t, cur), t \in Tunnels
      PROVE  /\ pc' \in [Tasks -> CallerPcs \cup CloserPcs]
             /\ job' \in [Tasks -> {"none", "dial", "prepare", "probe", "retire", "shutdown"}]
             /\ goal' \in [Tasks -> Providers \cup {NoProvider}]
             /\ at' \in [Tasks -> Providers \cup {NoProvider}]
             /\ need' \in [Callers -> {"none", "resolve", "bind"}] /\ redial' \in [Callers -> BOOLEAN]
             /\ target' \in [Tasks -> Tunnels \cup {NoTunnel}] /\ holds' \in [Tasks -> SUBSET Tunnels]
             /\ made' \in [Callers -> Tunnels \cup {NoTunnel}] /\ sock' \in [Callers -> Tunnels \cup {NoTunnel}]
             /\ lock' \in [Providers -> Tasks \cup {NoTask}]
             /\ current' \in [Providers -> Tunnels \cup {NoTunnel}] /\ dropping' \subseteq Tunnels
  <2>1. lock' \in [Providers -> Tasks \cup {NoTask}] /\ made' \in [Callers -> Tunnels \cup {NoTunnel}]
    BY <1>0, <1>6 DEF Proceed
  <2>2. CASE at[k] # goal[k]
    <3>1. Hold(holds, cur)
      BY <1>6, <2>2 DEF Proceed
    <3>2. /\ at' = [at EXCEPT ![k] = goal[k]] /\ pc' = [pc EXCEPT ![k] = IF need[k] = "bind" THEN "start" ELSE "carry"]
          /\ need' = [need EXCEPT ![k] = IF @ = "resolve" THEN "bind" ELSE "none"]
          /\ sock' = [sock EXCEPT ![k] = IF need[k] = "bind" THEN t ELSE NoTunnel]
          /\ UNCHANGED <<job, goal, redial, target>>
      BY <1>6, <2>2 DEF Proceed
    <3>3. at' \in [Tasks -> Providers \cup {NoProvider}] /\ pc' \in [Tasks -> CallerPcs \cup CloserPcs]
      BY <1>0, <3>2 DEF CallerPcs, CloserPcs
    <3>4. need' \in [Callers -> {"none", "resolve", "bind"}] /\ sock' \in [Callers -> Tunnels \cup {NoTunnel}]
      BY <1>0, <1>6, <3>2
    <3> QED
      BY <1>0, <1>1, <1>6, <2>1, <3>1, <3>2, <3>3, <3>4
  <2>3. CASE at[k] = goal[k] /\ job[k] = "dial"
    <3>1. Hold([holds EXCEPT ![k] = @ \cup {t}], cur)
      BY <1>6, <2>3 DEF Proceed
    <3>2. [holds EXCEPT ![k] = @ \cup {t}] \in [Tasks -> SUBSET Tunnels]
      BY <1>0, <1>6
    <3>3. /\ pc' = [pc EXCEPT ![k] = "dial"] /\ sock' = [sock EXCEPT ![k] = NoTunnel]
          /\ target' = [target EXCEPT ![k] = t]
          /\ UNCHANGED <<job, goal, at, need, redial>>
      BY <1>6, <2>3 DEF Proceed
    <3>4. /\ pc' \in [Tasks -> CallerPcs \cup CloserPcs] /\ sock' \in [Callers -> Tunnels \cup {NoTunnel}]
          /\ target' \in [Tasks -> Tunnels \cup {NoTunnel}]
      BY <1>0, <3>3 DEF CallerPcs, CloserPcs
    <3> QED
      BY <1>0, <1>1, <1>6, <2>1, <3>1, <3>2, <3>3, <3>4
  <2>4. CASE at[k] = goal[k] /\ job[k] = "prepare"
    <3>1. Hold(holds, cur)
      BY <1>6, <2>4 DEF Proceed
    <3>2. /\ pc' = [pc EXCEPT ![k] = "idle"] /\ sock' = [sock EXCEPT ![k] = NoTunnel]
          /\ job' = [job EXCEPT ![k] = "none"] /\ goal' = [goal EXCEPT ![k] = NoProvider]
          /\ at' = [at EXCEPT ![k] = NoProvider] /\ UNCHANGED <<need, redial, target>>
      BY <1>6, <2>4 DEF Proceed
    <3>3. /\ pc' \in [Tasks -> CallerPcs \cup CloserPcs]
          /\ job' \in [Tasks -> {"none", "dial", "prepare", "probe", "retire", "shutdown"}]
      BY <1>0, <3>2 DEF CallerPcs, CloserPcs
    <3>4. /\ goal' \in [Tasks -> Providers \cup {NoProvider}] /\ at' \in [Tasks -> Providers \cup {NoProvider}]
          /\ sock' \in [Callers -> Tunnels \cup {NoTunnel}]
      BY <1>0, <3>2
    <3> QED
      BY <1>0, <1>1, <1>6, <2>1, <3>1, <3>2, <3>3, <3>4
  <2> QED
    BY <1>6, <2>2, <2>3, <2>4 DEF Proceed
<1>7. ASSUME NEW k \in Callers, NEW p \in Providers, NEW j \in Jobs, Call(k, p, j) PROVE TypeOK'
  BY <1>0, <1>7 DEF Call
<1>8. ASSUME NEW k \in Callers, Acquire(k) PROVE TypeOK'
  <2>0. at[k] \in Providers
    BY <1>0, <1>8 DEF Acquire, PlaceInv
  <2>1. CASE LeaveCall(k)
    BY <1>4, <1>8, <2>1 DEF Acquire
  <2>2. CASE Kept(k, current[at[k]]) /\ Proceed(k, current[at[k]], current)
    <3>1. current[at[k]] \in Tunnels
      BY <1>0, <2>0, <2>2 DEF Kept
    <3> QED
      BY <1>0, <1>6, <1>8, <2>2, <3>1 DEF Acquire, CallerPcs, CloserPcs
  <2>3. CASE /\ lock' = [lock EXCEPT ![at[k]] = k]
             /\ Hold(holds, [current EXCEPT ![at[k]] = NoTunnel])
             /\ Goto(k, "bringup")
             /\ UNCHANGED <<job, goal, at, need, redial, target, made, sock>>
    <3>1. [current EXCEPT ![at[k]] = NoTunnel] \in [Providers -> Tunnels \cup {NoTunnel}]
      BY <1>0
    <3> QED
      BY <1>0, <1>1, <1>8, <2>3, <3>1 DEF Acquire
  <2> QED
    BY <1>8, <2>1, <2>2, <2>3 DEF Acquire
<1>9. ASSUME NEW k \in Callers, BringUp(k) \/ VisitCarrier(k) PROVE TypeOK'
  <2>1. CASE BringUp(k)
    <3>1. /\ pc' \in [Tasks -> CallerPcs \cup CloserPcs]
          /\ need' \in [Callers -> {"none", "resolve", "bind"}]
      BY <1>0, <2>1, SMTT(20) DEF BringUp, CallerPcs, CloserPcs
    <3> QED
      BY <1>0, <2>1, <3>1 DEF BringUp, CallerPcs, CloserPcs
  <2>2. CASE VisitCarrier(k)
    <3>1. Carrier[goal[k]] \in Providers
      BY <1>0, <2>2 DEF VisitCarrier, PlaceInv
    <3> QED
      BY <1>0, <2>2, <3>1 DEF VisitCarrier
  <2> QED
    BY <1>9, <2>1, <2>2
<1>10. ASSUME NEW k \in Callers, NEW t \in Tunnels, StartStack(k, t) PROVE TypeOK'
  <2>1. Gone(t) /\ \A u \in Tunnels : carrier[u] = t => Gone(u)
    BY <1>10 DEF StartStack, FreeTunnels
  <2>2. \A u \in watched : u # t /\ carrier[u] # t
    BY <1>0, <2>1 DEF Gone, DropInv
  <2>3. /\ device' \in [Tunnels -> {"none", "up", "stopping", "stopped"}] /\ taken' \subseteq Tunnels
        /\ pump' \in [Tunnels -> {"none", "running", "aborted", "ended"}]
        /\ age' \in [Tunnels -> {"recent", "old", "expired"}]
        /\ made' \in [Callers -> Tunnels \cup {NoTunnel}]
    BY <1>0, <1>10 DEF StartStack
  <2>4. carrier' \in [Tunnels -> Tunnels \cup {NoTunnel}]
    BY <1>0, <1>10 DEF StartStack
  <2>5. watched' \subseteq {u \in Tunnels : carrier'[u] # NoTunnel}
    BY <1>0, <1>10, <2>2 DEF StartStack
  <2> QED
    BY <1>0, <1>10, <2>3, <2>4, <2>5 DEF StartStack
<1>11. ASSUME NEW k \in Callers, DeviceBuilt(k) \/ HandshakeFails(k) PROVE TypeOK'
  BY <1>0, <1>11, SMTT(20) DEF DeviceBuilt, HandshakeFails
<1>12. ASSUME NEW k \in Callers, BuildFails(k) \/ BringUpFailed(k) PROVE TypeOK'
  BY <1>5, <1>12 DEF BuildFails, BringUpFailed
<1>13. ASSUME NEW k \in Callers, BringUpFails(k) \/ DialEnds(k) PROVE TypeOK'
  BY <1>4, <1>13 DEF BringUpFails, DialEnds
<1>14. ASSUME NEW k \in Callers, HandshakeDone(k) PROVE TypeOK'
  <2>1. made[k] \in Tunnels /\ at[k] \in Providers
    BY <1>0, <1>14 DEF HandshakeDone, PlaceInv, Making
  <2>2. age' \in [Tunnels -> {"recent", "old", "expired"}]
    BY <1>0, <1>14 DEF HandshakeDone
  <2>3. watched' \subseteq {t \in Tunnels : carrier'[t] # NoTunnel}
    BY <1>0, <1>14, <2>1 DEF HandshakeDone, Watch
  <2>4. CASE at[k] = goal[k] /\ job[k] = "probe"
    <3>0. /\ pc' = [pc EXCEPT ![k] = "idle"] /\ job' = [job EXCEPT ![k] = "none"]
          /\ goal' = [goal EXCEPT ![k] = NoProvider] /\ at' = [at EXCEPT ![k] = NoProvider]
      BY <1>14, <2>4 DEF HandshakeDone
    <3>1. /\ pc' \in [Tasks -> CallerPcs \cup CloserPcs]
          /\ job' \in [Tasks -> {"none", "dial", "prepare", "probe", "retire", "shutdown"}]
          /\ goal' \in [Tasks -> Providers \cup {NoProvider}] /\ at' \in [Tasks -> Providers \cup {NoProvider}]
      BY <1>0, <3>0 DEF CallerPcs, CloserPcs
    <3>2. /\ made' \in [Callers -> Tunnels \cup {NoTunnel}] /\ sock' \in [Callers -> Tunnels \cup {NoTunnel}]
          /\ dropping' \subseteq Tunnels
      BY <1>0, <1>14, <2>1, <2>4, SMTT(20) DEF HandshakeDone
    <3>3. UNCHANGED <<need, redial, target, holds, lock, current, closed, down, device, taken, pump, carrier>>
      BY <1>14, <2>4 DEF HandshakeDone
    <3> QED
      BY <1>0, <2>2, <2>3, <3>1, <3>2, <3>3 DEF CallerPcs, CloserPcs
  <2>5. CASE ~(at[k] = goal[k] /\ job[k] = "probe")
    <3>1. [current EXCEPT ![at[k]] = made[k]] \in [Providers -> Tunnels \cup {NoTunnel}]
      BY <1>0, <2>1
    <3>2. Proceed(k, made[k], [current EXCEPT ![at[k]] = made[k]])
      BY <1>14, <2>5 DEF HandshakeDone
    <3>3. UNCHANGED <<closed, down, device, taken, pump, carrier>>
      BY <1>14 DEF HandshakeDone
    <3>4. /\ pc' \in [Tasks -> CallerPcs \cup CloserPcs]
          /\ job' \in [Tasks -> {"none", "dial", "prepare", "probe", "retire", "shutdown"}]
          /\ goal' \in [Tasks -> Providers \cup {NoProvider}] /\ at' \in [Tasks -> Providers \cup {NoProvider}]
          /\ need' \in [Callers -> {"none", "resolve", "bind"}] /\ redial' \in [Callers -> BOOLEAN]
          /\ target' \in [Tasks -> Tunnels \cup {NoTunnel}] /\ holds' \in [Tasks -> SUBSET Tunnels]
          /\ made' \in [Callers -> Tunnels \cup {NoTunnel}] /\ sock' \in [Callers -> Tunnels \cup {NoTunnel}]
          /\ lock' \in [Providers -> Tasks \cup {NoTask}]
          /\ current' \in [Providers -> Tunnels \cup {NoTunnel}] /\ dropping' \subseteq Tunnels
      BY <1>6, <2>1, <3>1, <3>2
    <3> QED
      BY <1>0, <2>2, <2>3, <3>3, <3>4 DEF CallerPcs, CloserPcs
  <2> QED
    BY <2>4, <2>5
<1>15. ASSUME NEW k \in Callers, Cancel(k) PROVE TypeOK'
  <2>1. LeaveCall(k) /\ Leave(k)
    BY <1>15 DEF Cancel, LeaveCall
  <2>2. device' \in [Tunnels -> {"none", "up", "stopping", "stopped"}]
    BY <1>0, <1>15 DEF Cancel
  <2> QED
    BY <1>0, <1>2, <1>3, <1>15, <2>1, <2>2 DEF Cancel, CallerPcs, CloserPcs
<1>16. ASSUME NEW k \in Callers, DialSilent(k) PROVE TypeOK'
  <2>1. CASE LeaveCall(k)
    BY <1>4, <1>16, <2>1 DEF DialSilent
  <2>2. CASE ~LeaveCall(k)
    <3>1. redial' \in [Callers -> BOOLEAN]
      <4>1. redial' = [redial EXCEPT ![k] = TRUE] /\ redial \in [Callers -> BOOLEAN]
        BY <1>0, <1>16, <2>2 DEF DialSilent
      <4> QED
        BY <4>1
    <3> QED
      BY <1>0, <1>16, <2>2, <3>1 DEF DialSilent
  <2> QED
    BY <2>1, <2>2
<1>17. ASSUME NEW c \in Closers, NEW p \in Providers, NEW j \in Jobs, Retire(c, p, j) PROVE TypeOK'
  <2>1. closed' \in [Providers -> BOOLEAN]
    BY <1>0, <1>17 DEF Retire
  <2> QED
    BY <1>0, <1>17, <2>1 DEF Retire
<1>18. ASSUME NEW c \in Closers, Done(c) PROVE down' \in [Providers -> BOOLEAN]
  BY <1>0, <1>18 DEF Done
<1>19. ASSUME NEW c \in Closers, Take(c) PROVE TypeOK'
  <2>0. goal[c] \in Providers
    BY <1>0, <1>19 DEF Take, Emptied, PlaceInv
  <2>1. CASE current[goal[c]] = NoTunnel
    BY <1>0, <1>2, <1>18, <1>19, <2>1 DEF Take, Emptied, CallerPcs, CloserPcs
  <2>2. CASE current[goal[c]] # NoTunnel
    <3>1. PICK t \in Tunnels : t = current[goal[c]]
      BY <1>0, <2>0, <2>2
    <3>2. [holds EXCEPT ![c] = {t}] \in [Tasks -> SUBSET Tunnels]
          /\ [current EXCEPT ![goal[c]] = NoTunnel] \in [Providers -> Tunnels \cup {NoTunnel}]
      BY <1>0
    <3>3. Hold([holds EXCEPT ![c] = {t}], [current EXCEPT ![goal[c]] = NoTunnel])
      BY <1>19, <2>2, <3>1 DEF Take, Emptied
    <3>4. /\ lock' = [lock EXCEPT ![goal[c]] = c] /\ target' = [target EXCEPT ![c] = t]
          /\ StopDevice(t) /\ taken' = taken \cup {t} /\ Goto(c, "stopping")
      BY <1>19, <2>2, <3>1 DEF Take, Emptied
    <3>5. UNCHANGED <<job, goal, down, at, need, redial, made, sock, closed, carrier, watched>>
      BY <1>19, <2>2 DEF Take, Emptied
    <3>6. /\ device' \in [Tunnels -> {"none", "up", "stopping", "stopped"}] /\ taken' \subseteq Tunnels
          /\ age' \in [Tunnels -> {"recent", "old", "expired"}] /\ pump' = pump
      BY <1>0, <3>1, <3>4 DEF StopDevice
    <3>7. /\ lock' \in [Providers -> Tasks \cup {NoTask}] /\ target' \in [Tasks -> Tunnels \cup {NoTunnel}]
          /\ pc' \in [Tasks -> CallerPcs \cup CloserPcs]
      BY <1>0, <3>1, <3>4 DEF CallerPcs, CloserPcs
    <3>8. /\ holds' \in [Tasks -> SUBSET Tunnels] /\ current' \in [Providers -> Tunnels \cup {NoTunnel}]
          /\ dropping' \subseteq Tunnels
      BY <1>1, <3>2, <3>3
    <3> QED
      BY <1>0, <3>5, <3>6, <3>7, <3>8 DEF CallerPcs, CloserPcs
  <2> QED
    BY <2>1, <2>2
<1>20. ASSUME NEW c \in Closers, StopPump(c) PROVE TypeOK'
  BY <1>0, <1>20 DEF StopPump, AbortPump
<1>21. ASSUME NEW c \in Closers, Joined(c) \/ CancelRetire(c) PROVE TypeOK'
  <2>1. Leave(c)
    BY <1>21 DEF Joined, CancelRetire
  <2>2. down' \in [Providers -> BOOLEAN]
    BY <1>0, <1>18, <1>21 DEF Joined, CancelRetire
  <2> QED
    BY <1>0, <1>2, <1>21, <2>1, <2>2 DEF Joined, CancelRetire, CallerPcs, CloserPcs
<1>22. ASSUME NEW t \in Tunnels, TunnelNext(t) PROVE TypeOK'
  <2>1. CASE DeviceStops(t) \/ PumpEnds(t)
    BY <1>0, <2>1 DEF DeviceStops, PumpEnds
  <2>2. CASE DropDevice(t)
    BY <1>0, <2>2 DEF DropDevice, StopDevice
  <2>3. CASE DropPump(t) \/ CarrierCloses(t)
    BY <1>0, <2>3 DEF DropPump, CarrierCloses, AbortPump
  <2>4. CASE Age(t)
    BY <1>0, <2>4 DEF Age
  <2> QED
    BY <1>22, <2>1, <2>2, <2>3, <2>4 DEF TunnelNext
<1>23. CASE UNCHANGED vars
  BY <1>0, <1>23 DEF vars
<1> QED
  BY <1>7, <1>8, <1>9, <1>10, <1>11, <1>12, <1>13, <1>14, <1>15, <1>16, <1>17, <1>19, <1>20, <1>21,
     <1>22, <1>23 DEF Next, CallerNext, Own, CloserNext

\* What Proceed does with the mutex, the task and the provider's slot.
LEMMA ProceedCases ==
    ASSUME NEW k, NEW t, NEW cur, Proceed(k, t, cur)
    PROVE  /\ lock' = [lock EXCEPT ![at[k]] = NoTask] /\ made' = [made EXCEPT ![k] = NoTunnel] /\ current' = cur
           /\ \/ /\ at[k] # goal[k] /\ at' = [at EXCEPT ![k] = goal[k]] /\ UNCHANGED <<job, goal>>
                 /\ pc' = [pc EXCEPT ![k] = IF need[k] = "bind" THEN "start" ELSE "carry"]
              \/ /\ at[k] = goal[k] /\ job[k] = "dial" /\ UNCHANGED <<job, goal, at>>
                 /\ pc' = [pc EXCEPT ![k] = "dial"]
              \/ /\ at[k] = goal[k] /\ job[k] = "prepare" /\ job' = [job EXCEPT ![k] = "none"]
                 /\ goal' = [goal EXCEPT ![k] = NoProvider] /\ at' = [at EXCEPT ![k] = NoProvider]
                 /\ pc' = [pc EXCEPT ![k] = "idle"]
BY DEF Proceed, Goto, Hold

\* Every step leaves each task at a place it can be.
LEMMA PlaceStep == WgInv /\ [Next]_vars => PlaceInv'
<1> USE WgAssumption DEF Tasks, Goto
<1> SUFFICES ASSUME WgInv, [Next]_vars PROVE PlaceInv'
  OBVIOUS
<1>0. PlaceInv /\ pc \in [Tasks -> CallerPcs \cup CloserPcs] /\ job \in [Tasks -> {"none", "dial", "prepare", "probe", "retire", "shutdown"}]
      /\ goal \in [Tasks -> Providers \cup {NoProvider}] /\ at \in [Tasks -> Providers \cup {NoProvider}]
      /\ made \in [Callers -> Tunnels \cup {NoTunnel}]
  BY DEF WgInv, TypeOK, CallerPcs, CloserPcs
<1> USE DEF PlaceInv, CallerPcs, CloserPcs, Making
<1>1. ASSUME NEW k \in Callers, LeaveCall(k) PROVE PlaceInv'
  BY <1>0, <1>1 DEF LeaveCall, Leave
<1>2. ASSUME NEW c \in Closers, Leave(c), made' = made PROVE PlaceInv'
  BY <1>0, <1>2 DEF Leave
<1>3. ASSUME NEW k \in Callers, NEW p \in Providers, NEW j \in Jobs, Call(k, p, j) PROVE PlaceInv'
  BY <1>0, <1>3 DEF Call
<1>4. ASSUME NEW k \in Callers, NEW t, NEW cur, Proceed(k, t, cur), pc[k] # "idle" PROVE PlaceInv'
  <2>1. CASE at[k] # goal[k]
    BY <1>0, <1>4, <2>1, ProceedCases
  <2>2. CASE at[k] = goal[k]
    BY <1>0, <1>4, <2>2, ProceedCases
  <2> QED
    BY <2>1, <2>2
<1>5. ASSUME NEW k \in Callers, Acquire(k) PROVE PlaceInv'
  <2>1. CASE \E t : Proceed(k, t, current)
    BY <1>4, <1>5, <2>1 DEF Acquire
  <2>2. CASE Goto(k, "bringup") /\ UNCHANGED <<job, goal, at, need, redial, target, made, sock>>
    BY <1>0, <1>5, <2>2 DEF Acquire
  <2> QED
    BY <1>1, <1>5, <2>1, <2>2 DEF Acquire
<1>6. ASSUME NEW k \in Callers, BringUp(k) PROVE PlaceInv'
  BY <1>0, <1>6 DEF BringUp
<1>7. ASSUME NEW k \in Callers, VisitCarrier(k) PROVE PlaceInv'
  BY <1>0, <1>7 DEF VisitCarrier
<1>8. ASSUME NEW k \in Callers, NEW t \in Tunnels, StartStack(k, t) PROVE PlaceInv'
  BY <1>0, <1>8 DEF StartStack
<1>9. ASSUME NEW k \in Callers, DeviceBuilt(k) \/ HandshakeFails(k) PROVE PlaceInv'
  BY <1>0, <1>9 DEF DeviceBuilt, HandshakeFails
<1>10. ASSUME NEW k \in Callers, BuildFails(k) \/ BringUpFailed(k) \/ BringUpFails(k) \/ DialEnds(k) \/ Cancel(k)
       PROVE  PlaceInv'
  BY <1>1, <1>10 DEF BuildFails, BringUpFailed, BringUpFails, DialEnds, Cancel
<1>11. ASSUME NEW k \in Callers, HandshakeDone(k) PROVE PlaceInv'
  <2>1. CASE at[k] = goal[k] /\ job[k] = "probe"
    BY <1>0, <1>11, <2>1 DEF HandshakeDone
  <2>2. CASE ~(at[k] = goal[k] /\ job[k] = "probe")
    BY <1>4, <1>11, <2>2 DEF HandshakeDone
  <2> QED
    BY <2>1, <2>2
<1>12. ASSUME NEW k \in Callers, DialSilent(k) PROVE PlaceInv'
  <2>1. CASE Goto(k, "replace") /\ UNCHANGED <<job, goal, at, made>>
    BY <1>0, <1>12, <2>1 DEF DialSilent
  <2> QED
    BY <1>1, <1>12, <2>1 DEF DialSilent
<1>13. ASSUME NEW c \in Closers, NEW p \in Providers, NEW j \in Jobs, Retire(c, p, j) PROVE PlaceInv'
  BY <1>0, <1>13 DEF Retire
<1>14. ASSUME NEW c \in Closers, Take(c) PROVE PlaceInv'
  <2>1. CASE current[goal[c]] = NoTunnel
    BY <1>2, <1>14, <2>1 DEF Take, Emptied
  <2>2. CASE current[goal[c]] # NoTunnel
    <3>1. Goto(c, "stopping") /\ UNCHANGED <<job, goal, at, made>>
      BY <1>14, <2>2 DEF Take, Emptied
    <3> QED
      BY <1>0, <1>14, <3>1 DEF Take, Emptied
  <2> QED
    BY <2>1, <2>2
<1>15. ASSUME NEW c \in Closers, StopPump(c) PROVE PlaceInv'
  BY <1>0, <1>15 DEF StopPump
<1>16. ASSUME NEW c \in Closers, Joined(c) \/ CancelRetire(c) PROVE PlaceInv'
  BY <1>2, <1>16 DEF Joined, CancelRetire
<1>17. ASSUME UNCHANGED taskVars PROVE PlaceInv'
  BY <1>0, <1>17 DEF taskVars
<1>18. ASSUME NEW t \in Tunnels, TunnelNext(t) PROVE PlaceInv'
  BY <1>17, <1>18 DEF TunnelNext, DeviceStops, PumpEnds, DropDevice, DropPump, CarrierCloses, Age
<1>19. CASE UNCHANGED vars
  BY <1>17, <1>19 DEF vars
<1> QED
  BY <1>3, <1>5, <1>6, <1>7, <1>8, <1>9, <1>10, <1>11, <1>12, <1>13, <1>14, <1>15, <1>16, <1>18, <1>19
  DEF Next, CallerNext, Own, CloserNext

\* Every step keeps the mutexes with those who need them.
LEMMA LockStep == WgInv /\ [Next]_vars => LockInv'
<1> USE WgAssumption DEF Tasks, Goto
<1> SUFFICES ASSUME WgInv, [Next]_vars PROVE LockInv'
  OBVIOUS
<1>0. /\ PlaceInv /\ LockInv /\ pc \in [Tasks -> CallerPcs \cup CloserPcs]
      /\ job \in [Tasks -> {"none", "dial", "prepare", "probe", "retire", "shutdown"}]
      /\ goal \in [Tasks -> Providers \cup {NoProvider}] /\ at \in [Tasks -> Providers \cup {NoProvider}]
      /\ lock \in [Providers -> Tasks \cup {NoTask}] /\ current \in [Providers -> Tunnels \cup {NoTunnel}]
  BY DEF WgInv, TypeOK, CallerPcs, CloserPcs
<1> USE DEF PlaceInv, LockInv, CallerPcs, CloserPcs, Building, Unguarded
<1>1. ASSUME NEW k \in Tasks, Leave(k) PROVE LockInv'
  BY <1>0, <1>1 DEF Leave, Unlocked, Hold
<1>2. ASSUME NEW k \in Callers, NEW p \in Providers, NEW j \in Jobs, Call(k, p, j) PROVE LockInv'
  BY <1>0, <1>2 DEF Call, provVars
<1>3. ASSUME NEW k \in Callers, NEW t, NEW cur, Proceed(k, t, cur), pc[k] # "idle",
             \A p \in Providers \ {at[k]} : cur[p] = current[p], lock[at[k]] \in {NoTask, k}
      PROVE  LockInv'
  <2>0. at[k] \in Providers /\ goal[k] \in Providers
    BY <1>0, <1>3
  <2>1. \A p \in Providers : lock'[p] # NoTask => current'[p] = NoTunnel
    BY <1>0, <1>3, <2>0, ProceedCases
  <2>2. \A c \in Closers : pc'[c] \in {"stopping", "joining"} => lock'[goal'[c]] = c
    BY <1>0, <1>3, <2>0, ProceedCases
  <2>3. ASSUME NEW l \in Callers
        PROVE  /\ pc'[l] \in Building /\ ~(at'[l] = goal'[l] /\ job'[l] = "probe") => lock'[at'[l]] = l
               /\ at'[l] # goal'[l] /\ job'[l] # "probe" => lock'[goal'[l]] = l
    <3>1. CASE at[k] # goal[k]
      BY <1>0, <1>3, <2>0, <3>1, ProceedCases
    <3>2. CASE at[k] = goal[k]
      BY <1>0, <1>3, <2>0, <3>2, ProceedCases
    <3> QED
      BY <3>1, <3>2
  <2> QED
    BY <2>1, <2>2, <2>3
<1>4. ASSUME NEW k \in Callers, Acquire(k) PROVE LockInv'
  <2>0. at[k] \in Providers
    BY <1>0, <1>4 DEF Acquire
  <2>1. CASE \E t : Proceed(k, t, current)
    BY <1>3, <1>4, <2>1 DEF Acquire
  <2>2. CASE /\ lock' = [lock EXCEPT ![at[k]] = k] /\ current' = [current EXCEPT ![at[k]] = NoTunnel]
             /\ Goto(k, "bringup") /\ UNCHANGED <<job, goal, at>>
    BY <1>0, <1>4, <2>0, <2>2 DEF Acquire
  <2> QED
    BY <1>1, <1>4, <2>1, <2>2 DEF Acquire, LeaveCall, Hold
<1>5. ASSUME NEW k \in Callers, BringUp(k) \/ DeviceBuilt(k) \/ HandshakeFails(k) \/ \E t \in Tunnels : StartStack(k, t)
      PROVE  LockInv'
  BY <1>0, <1>5 DEF BringUp, StartStack, DeviceBuilt, HandshakeFails, provVars
<1>6. ASSUME NEW k \in Callers, VisitCarrier(k) PROVE LockInv'
  BY <1>0, <1>6 DEF VisitCarrier, provVars
<1>7. ASSUME NEW k \in Callers, BuildFails(k) \/ BringUpFailed(k) \/ BringUpFails(k) \/ DialEnds(k) \/ Cancel(k)
      PROVE  LockInv'
  BY <1>1, <1>7 DEF BuildFails, BringUpFailed, BringUpFails, DialEnds, Cancel, LeaveCall
<1>8. ASSUME NEW k \in Callers, HandshakeDone(k) PROVE LockInv'
  <2>1. CASE at[k] = goal[k] /\ job[k] = "probe"
    BY <1>0, <1>8, <2>1 DEF HandshakeDone
  <2>2. CASE ~(at[k] = goal[k] /\ job[k] = "probe")
    <3>1. \A p \in Providers \ {at[k]} : [current EXCEPT ![at[k]] = made[k]][p] = current[p]
      BY <1>0
    <3>2. lock[at[k]] = k
      BY <1>0, <1>8, <2>2 DEF HandshakeDone
    <3> QED
      BY <1>3, <1>8, <2>2, <3>1, <3>2 DEF HandshakeDone
  <2> QED
    BY <2>1, <2>2
<1>9. ASSUME NEW k \in Callers, DialSilent(k) PROVE LockInv'
  <2>1. CASE Goto(k, "replace") /\ UNCHANGED <<job, goal, at, lock, current>>
    BY <1>0, <1>9, <2>1 DEF DialSilent
  <2> QED
    BY <1>1, <1>9, <2>1 DEF DialSilent, LeaveCall
<1>10. ASSUME NEW c \in Closers, NEW p \in Providers, NEW j \in Jobs, Retire(c, p, j) PROVE LockInv'
  BY <1>0, <1>10 DEF Retire
<1>11. ASSUME NEW c \in Closers, Take(c) PROVE LockInv'
  <2>1. CASE current[goal[c]] = NoTunnel
    BY <1>1, <1>11, <2>1 DEF Take, Emptied
  <2>2. CASE current[goal[c]] # NoTunnel
    <3>1. /\ Goto(c, "stopping") /\ UNCHANGED <<job, goal, at>> /\ lock[goal[c]] = NoTask /\ goal[c] \in Providers
          /\ lock' = [lock EXCEPT ![goal[c]] = c] /\ current' = [current EXCEPT ![goal[c]] = NoTunnel]
      BY <1>0, <1>11, <2>2 DEF Take, Emptied, Hold
    <3> QED
      BY <1>0, <3>1
  <2> QED
    BY <2>1, <2>2
<1>12. ASSUME NEW c \in Closers, StopPump(c) PROVE LockInv'
  BY <1>0, <1>12 DEF StopPump, provVars
<1>13. ASSUME NEW c \in Closers, Joined(c) \/ CancelRetire(c) PROVE LockInv'
  BY <1>1, <1>13 DEF Joined, CancelRetire
<1>14. ASSUME UNCHANGED <<taskVars, provVars>> PROVE LockInv'
  BY <1>0, <1>14 DEF taskVars, provVars
<1>15. ASSUME NEW t \in Tunnels, TunnelNext(t) PROVE LockInv'
  BY <1>14, <1>15 DEF TunnelNext, DeviceStops, PumpEnds, DropDevice, DropPump, CarrierCloses, Age
<1>16. CASE UNCHANGED vars
  BY <1>14, <1>16 DEF vars
<1> QED
  BY <1>2, <1>4, <1>5, <1>6, <1>7, <1>8, <1>9, <1>10, <1>11, <1>12, <1>13, <1>15, <1>16
  DEF Next, CallerNext, Own, CloserNext

\* Every step keeps a provider that was shut down without a tunnel.
LEMMA ClosedStep == WgInv /\ [Next]_vars => ClosedInv'
<1> USE WgAssumption DEF Tasks, Goto
<1> SUFFICES ASSUME WgInv, [Next]_vars PROVE ClosedInv'
  OBVIOUS
<1>0. /\ PlaceInv /\ LockInv /\ ClosedInv /\ pc \in [Tasks -> CallerPcs \cup CloserPcs]
      /\ job \in [Tasks -> {"none", "dial", "prepare", "probe", "retire", "shutdown"}]
      /\ goal \in [Tasks -> Providers \cup {NoProvider}] /\ at \in [Tasks -> Providers \cup {NoProvider}]
      /\ lock \in [Providers -> Tasks \cup {NoTask}] /\ current \in [Providers -> Tunnels \cup {NoTunnel}]
  BY DEF WgInv, TypeOK, CallerPcs, CloserPcs
<1>b. closed \in [Providers -> BOOLEAN] /\ down \in [Providers -> BOOLEAN]
  BY DEF WgInv, TypeOK
<1> USE DEF ClosedInv
<1>1. ASSUME NEW k \in Tasks, Leave(k), UNCHANGED <<closed, down>> PROVE ClosedInv'
  BY <1>0, <1>1 DEF Leave, Unlocked, Hold
<1>2. ASSUME UNCHANGED <<closed, down, current, lock>>,
             \A c \in Closers : UNCHANGED <<pc[c], job[c], goal[c]>>
      PROVE  ClosedInv'
  BY <1>0, <1>2
<1>3. ASSUME NEW k \in Callers, NEW p \in Providers, NEW j \in Jobs, Call(k, p, j) PROVE ClosedInv'
  BY <1>0, <1>2, <1>3 DEF Call, provVars
<1>4. ASSUME NEW k \in Callers, NEW t, NEW cur, Proceed(k, t, cur), pc[k] # "idle", UNCHANGED <<closed, down>>,
             \A p \in Providers : cur[p] = current[p] \/ (p = at[k] /\ lock[at[k]] = k)
      PROVE  ClosedInv'
  <2>0. at[k] \in Providers
    BY <1>0, <1>4 DEF PlaceInv
  <2>1. \A c \in Closers : UNCHANGED <<pc[c], job[c], goal[c]>>
    BY <1>0, <1>4, ProceedCases
  <2>2. current' = cur /\ lock' = [lock EXCEPT ![at[k]] = NoTask]
    BY <1>4, ProceedCases
  <2> QED
    BY <1>0, <1>4, <2>0, <2>1, <2>2
<1>5. ASSUME NEW k \in Callers, Acquire(k) PROVE ClosedInv'
  <2>1. CASE \E t : Proceed(k, t, current)
    BY <1>4, <1>5, <2>1 DEF Acquire
  <2>2. CASE /\ ~ClosedSeen(at[k]) /\ lock' = [lock EXCEPT ![at[k]] = k]
             /\ current' = [current EXCEPT ![at[k]] = NoTunnel]
             /\ Goto(k, "bringup") /\ UNCHANGED <<job, goal, at>>
    BY <1>0, <1>5, <2>2 DEF Acquire, ClosedSeen
  <2> QED
    BY <1>1, <1>5, <2>1, <2>2 DEF Acquire, LeaveCall, Hold
<1>6. ASSUME NEW k \in Callers, BringUp(k) \/ VisitCarrier(k) \/ DeviceBuilt(k) \/ HandshakeFails(k)
                                \/ \E t \in Tunnels : StartStack(k, t)
      PROVE  ClosedInv'
  BY <1>0, <1>2, <1>6 DEF BringUp, VisitCarrier, StartStack, DeviceBuilt, HandshakeFails, provVars
<1>7. ASSUME NEW k \in Callers, BuildFails(k) \/ BringUpFailed(k) \/ BringUpFails(k) \/ DialEnds(k) \/ Cancel(k)
      PROVE  ClosedInv'
  BY <1>1, <1>7 DEF BuildFails, BringUpFailed, BringUpFails, DialEnds, Cancel, LeaveCall
<1>8. ASSUME NEW k \in Callers, HandshakeDone(k) PROVE ClosedInv'
  <2>1. CASE at[k] = goal[k] /\ job[k] = "probe"
    BY <1>0, <1>2, <1>8, <2>1 DEF HandshakeDone
  <2>2. CASE ~(at[k] = goal[k] /\ job[k] = "probe")
    <3>1. lock[at[k]] = k
      BY <1>0, <1>8, <2>2 DEF HandshakeDone, LockInv, Building, Unguarded
    <3>2. PICK cur : cur = [current EXCEPT ![at[k]] = made[k]]
      OBVIOUS
    <3>3. Proceed(k, made[k], cur) /\ pc[k] # "idle" /\ UNCHANGED <<closed, down>>
      BY <1>8, <2>2, <3>2 DEF HandshakeDone
    <3>4. \A p \in Providers : cur[p] = current[p] \/ (p = at[k] /\ lock[at[k]] = k)
      BY <1>0, <3>1, <3>2
    <3> QED
      BY <1>4, <3>3, <3>4
  <2> QED
    BY <2>1, <2>2
<1>9. ASSUME NEW k \in Callers, DialSilent(k) PROVE ClosedInv'
  <2>1. CASE Goto(k, "replace") /\ UNCHANGED <<job, goal, at, lock, current>>
    BY <1>0, <1>2, <1>9, <2>1 DEF DialSilent
  <2> QED
    BY <1>1, <1>9, <2>1 DEF DialSilent, LeaveCall
<1>10. ASSUME NEW c \in Closers, NEW p \in Providers, NEW j \in Jobs, Retire(c, p, j) PROVE ClosedInv'
  <2>1. /\ closed' = [closed EXCEPT ![p] = @ \/ j = "shutdown"] /\ job' = [job EXCEPT ![c] = j]
        /\ goal' = [goal EXCEPT ![c] = p] /\ pc' = [pc EXCEPT ![c] = "retire"] /\ UNCHANGED <<lock, current, down>>
    BY <1>10 DEF Retire
  <2>2. (\A q \in Providers : closed[q] => closed'[q]) /\ (j = "shutdown" => closed'[p])
    BY <1>b, <2>1
  <2>3. \A q \in Providers : down'[q] => closed'[q] /\ current'[q] = NoTunnel /\ lock'[q] \notin Callers
    BY <1>0, <2>1, <2>2
  <2>4. ASSUME NEW d \in Closers, pc'[d] # "idle", job'[d] = "shutdown" PROVE closed'[goal'[d]]
    <3>1. CASE d = c
      BY <1>0, <2>1, <2>2, <2>4, <3>1
    <3>2. CASE d # c
      BY <1>0, <2>1, <2>2, <2>4, <3>2 DEF PlaceInv
    <3> QED
      BY <3>1, <3>2
  <2> QED
    BY <2>3, <2>4
<1>11. ASSUME NEW c \in Closers, Leave(c), Done(c), closed' = closed, pc[c] # "idle", current[goal[c]] = NoTunnel,
              lock[goal[c]] \in {NoTask, c}
       PROVE  ClosedInv'
  <2>1. goal[c] \in Providers
    BY <1>0, <1>11 DEF PlaceInv
  <2>2. \A p \in Providers : down'[p] => down[p] \/ (p = goal[c] /\ job[c] = "shutdown")
    BY <1>b, <1>11, <2>1 DEF Done
  <2>3. \A p \in Providers : down'[p] => closed[p] /\ current[p] = NoTunnel /\ lock[p] \notin Callers
    BY <1>0, <1>11, <2>1, <2>2
  <2>4. current' = current /\ \A p \in Providers : lock'[p] \in {lock[p], NoTask}
    BY <1>0, <1>11 DEF Leave, Unlocked, Hold
  <2>5. \A d \in Closers : pc'[d] # "idle" /\ job'[d] = "shutdown" => closed[goal'[d]]
    BY <1>0, <1>11 DEF Leave
  <2> QED
    BY <1>11, <2>3, <2>4, <2>5
<1>12. ASSUME NEW c \in Closers, Take(c) PROVE ClosedInv'
  <2>1. CASE current[goal[c]] = NoTunnel
    BY <1>11, <1>12, <2>1 DEF Take, Emptied
  <2>2. CASE current[goal[c]] # NoTunnel
    <3>1. /\ Goto(c, "stopping") /\ UNCHANGED <<job, goal, closed, down>> /\ goal[c] \in Providers
          /\ lock' = [lock EXCEPT ![goal[c]] = c] /\ current' = [current EXCEPT ![goal[c]] = NoTunnel]
          /\ pc[c] = "retire"
      BY <1>0, <1>12, <2>2 DEF Take, Emptied, Hold, PlaceInv
    <3> QED
      BY <1>0, <3>1
  <2> QED
    BY <2>1, <2>2
<1>13. ASSUME NEW c \in Closers, StopPump(c) PROVE ClosedInv'
  BY <1>0, <1>13 DEF StopPump, provVars
<1>14. ASSUME NEW c \in Closers, Joined(c) PROVE ClosedInv'
  <2>1. lock[goal[c]] = c /\ goal[c] \in Providers
    BY <1>0, <1>14 DEF Joined, LockInv, PlaceInv
  <2>2. current[goal[c]] = NoTunnel
    BY <1>0, <2>1 DEF LockInv
  <2> QED
    BY <1>11, <1>14, <2>1, <2>2 DEF Joined
<1>15. ASSUME NEW c \in Closers, CancelRetire(c) PROVE ClosedInv'
  BY <1>1, <1>15 DEF CancelRetire
<1>16. ASSUME UNCHANGED <<taskVars, provVars>> PROVE ClosedInv'
  BY <1>0, <1>16 DEF taskVars, provVars
<1>17. ASSUME NEW t \in Tunnels, TunnelNext(t) PROVE ClosedInv'
  BY <1>16, <1>17 DEF TunnelNext, DeviceStops, PumpEnds, DropDevice, DropPump, CarrierCloses, Age
<1>18. CASE UNCHANGED vars
  BY <1>16, <1>18 DEF vars
<1> QED
  BY <1>3, <1>5, <1>6, <1>7, <1>8, <1>9, <1>10, <1>12, <1>13, <1>14, <1>15, <1>17, <1>18
  DEF Next, CallerNext, Own, CloserNext

-----------------------------------------------------------------------------
\* Arcs: a step that adds none leaves what loses its last one to its destructor.
Shed ==
    /\ Live(holds', current') \subseteq Live(holds, current)
    /\ dropping' = dropping \cup (Live(holds, current) \ Live(holds', current'))

\* A finished handshake makes one tunnel somebody's, or a probe drops it.
Gain(t) ==
    \/ Live(holds', current') = Live(holds, current) \cup {t} /\ dropping' = dropping
    \/ Live(holds', current') = Live(holds, current) /\ dropping' = dropping \cup {t}

\* Arcs that are let go are shed ...
LEMMA HoldSheds ==
    ASSUME NEW h, NEW cur, Hold(h, cur), Live(h, cur) \subseteq Live(holds, current)
    PROVE  Shed
BY DEF Hold, Shed

\* ... as those of a call that returns are ...
LEMMA LeaveSheds == ASSUME TypeOK, NEW k \in Tasks, Leave(k) PROVE Shed
<1>1. Live([holds EXCEPT ![k] = {}], current) \subseteq Live(holds, current)
  BY DEF TypeOK, Live
<1> QED
  BY <1>1, HoldSheds DEF Leave

\* ... and a step that touches no Arc sheds none.
LEMMA UnchangedSheds == ASSUME UNCHANGED <<holds, current, dropping>> PROVE Shed
BY DEF Shed

\* What a step of a task does to the Arcs.
LEMMA TaskArcs ==
    ASSUME WgInv
    PROVE  /\ \A k \in Callers : CallerNext(k) /\ ~HandshakeDone(k) => Shed
           /\ \A k \in Callers : HandshakeDone(k) => Gain(made[k])
           /\ \A c \in Closers : CloserNext(c) => Shed
<1> USE WgAssumption DEF Tasks, provVars
<1>0. TypeOK /\ PlaceInv /\ LockInv
  BY DEF WgInv
<1>1. ASSUME NEW k \in Callers, LeaveCall(k) PROVE Shed
  BY <1>0, <1>1, LeaveSheds DEF LeaveCall
<1>2. ASSUME NEW k \in Callers, Acquire(k) PROVE Shed
  <2>0. at[k] \in Providers
    BY <1>0, <1>2 DEF Acquire, PlaceInv
  <2>1. CASE Kept(k, current[at[k]]) /\ Proceed(k, current[at[k]], current)
    <3>1. Live(holds, current) \subseteq Live(holds, current)
      OBVIOUS
    <3>2. Live([holds EXCEPT ![k] = @ \cup {current[at[k]]}], current) \subseteq Live(holds, current)
      BY <1>0, <2>0, <2>1 DEF TypeOK, Live, Kept
    <3> QED
      BY <2>1, <3>1, <3>2, HoldSheds DEF Proceed
  <2>2. CASE Hold(holds, [current EXCEPT ![at[k]] = NoTunnel])
    <3>1. Live(holds, [current EXCEPT ![at[k]] = NoTunnel]) \subseteq Live(holds, current)
      BY <1>0 DEF TypeOK, Live
    <3> QED
      BY <2>2, <3>1, HoldSheds
  <2> QED
    BY <1>1, <1>2, <2>1, <2>2 DEF Acquire
<1>3. ASSUME NEW k \in Callers, CallerNext(k), ~HandshakeDone(k) PROVE Shed
  <2>1. CASE \E p \in Providers, j \in Jobs : Call(k, p, j)
    BY <2>1, UnchangedSheds DEF Call
  <2>2. CASE BringUp(k) \/ VisitCarrier(k) \/ DeviceBuilt(k) \/ HandshakeFails(k) \/ \E t \in Tunnels : StartStack(k, t)
    BY <2>2, UnchangedSheds DEF BringUp, VisitCarrier, DeviceBuilt, HandshakeFails, StartStack
  <2>3. CASE BuildFails(k) \/ BringUpFails(k) \/ BringUpFailed(k) \/ Cancel(k) \/ DialEnds(k)
    BY <1>1, <2>3 DEF BuildFails, BringUpFails, BringUpFailed, Cancel, DialEnds
  <2>4. CASE DialSilent(k)
    BY <1>1, <2>4, UnchangedSheds DEF DialSilent
  <2> QED
    BY <1>2, <1>3, <2>1, <2>2, <2>3, <2>4 DEF CallerNext, Own
<1>4. ASSUME NEW k \in Callers, HandshakeDone(k) PROVE Gain(made[k])
  <2>0. at[k] \in Providers /\ made[k] \in Tunnels
    BY <1>0, <1>4 DEF HandshakeDone, PlaceInv, Making, TypeOK
  <2>1. CASE at[k] = goal[k] /\ job[k] = "probe"
    BY <1>4, <2>1 DEF HandshakeDone, Gain
  <2>2. CASE ~(at[k] = goal[k] /\ job[k] = "probe")
    <3>1. PICK cur : cur = [current EXCEPT ![at[k]] = made[k]]
      OBVIOUS
    <3>2. Proceed(k, made[k], cur)
      BY <1>4, <2>2, <3>1 DEF HandshakeDone
    <3>3. lock[at[k]] = k
      BY <1>0, <1>4, <2>2 DEF HandshakeDone, LockInv, Building, Unguarded
    <3>4. current[at[k]] = NoTunnel
      BY <1>0, <2>0, <3>3 DEF LockInv
    <3>5. Live(holds, cur) = Live(holds, current) \cup {made[k]}
      BY <1>0, <2>0, <3>1, <3>4 DEF TypeOK, Live
    <3>6. Live([holds EXCEPT ![k] = @ \cup {made[k]}], cur) = Live(holds, current) \cup {made[k]}
      BY <1>0, <2>0, <3>1, <3>4 DEF TypeOK, Live
    <3>7. Hold(holds, cur) \/ Hold([holds EXCEPT ![k] = @ \cup {made[k]}], cur)
      BY <3>2 DEF Proceed
    <3> QED
      BY <3>5, <3>6, <3>7 DEF Hold, Gain
  <2> QED
    BY <2>1, <2>2
<1>5. ASSUME NEW c \in Closers, CloserNext(c) PROVE Shed
  <2>1. CASE \E p \in Providers, j \in Jobs : Retire(c, p, j)
    BY <2>1, UnchangedSheds DEF Retire
  <2>2. CASE StopPump(c)
    BY <2>2, UnchangedSheds DEF StopPump
  <2>3. CASE Joined(c) \/ CancelRetire(c)
    BY <1>0, <2>3, LeaveSheds DEF Joined, CancelRetire
  <2>4. CASE Take(c)
    <3>0. goal[c] \in Providers
      BY <1>0, <2>4 DEF Take, Emptied, PlaceInv
    <3>1. CASE current[goal[c]] = NoTunnel
      BY <1>0, <2>4, <3>1, LeaveSheds DEF Take, Emptied
    <3>2. CASE current[goal[c]] # NoTunnel
      <4>1. Hold([holds EXCEPT ![c] = {current[goal[c]]}], [current EXCEPT ![goal[c]] = NoTunnel])
        BY <2>4, <3>2 DEF Take, Emptied
      <4>2. Live([holds EXCEPT ![c] = {current[goal[c]]}], [current EXCEPT ![goal[c]] = NoTunnel])
              \subseteq Live(holds, current)
        BY <1>0, <3>0, <3>2 DEF TypeOK, Live
      <4> QED
        BY <4>1, <4>2, HoldSheds
    <3> QED
      BY <3>1, <3>2
  <2> QED
    BY <1>5, <2>1, <2>2, <2>3, <2>4 DEF CloserNext
<1> QED
  BY <1>3, <1>4, <1>5

\* What a step of a tunnel's own tasks does to them.
LEMMA TunnelArcs ==
    ASSUME NEW t \in Tunnels, TunnelNext(t)
    PROVE  /\ Live(holds', current') = Live(holds, current) /\ UNCHANGED <<pc, made, current>>
           /\ dropping' = dropping \/ (DropPump(t) /\ dropping' = dropping \ {t})
BY DEF TunnelNext, DeviceStops, PumpEnds, DropDevice, DropPump, CarrierCloses, Age, taskVars, provVars

\* Every step leaves a tunnel in the making to its maker.
LEMMA MakingStep == WgInv /\ [Next]_vars => MakingInv'
<1> USE WgAssumption DEF Tasks, Goto
<1> SUFFICES ASSUME WgInv, [Next]_vars PROVE MakingInv'
  OBVIOUS
<1>0. /\ PlaceInv /\ MakingInv /\ DropInv /\ pc \in [Tasks -> CallerPcs \cup CloserPcs]
      /\ made \in [Callers -> Tunnels \cup {NoTunnel}]
      /\ current \in [Providers -> Tunnels \cup {NoTunnel}]
      /\ device \in [Tunnels -> {"none", "up", "stopping", "stopped"}]
      /\ pump \in [Tunnels -> {"none", "running", "aborted", "ended"}]
      /\ goal \in [Tasks -> Providers \cup {NoProvider}]
  BY DEF WgInv, TypeOK, CallerPcs, CloserPcs
<1> USE DEF MakingInv
\* It is enough that nobody makes more, no Arc of what is made appears, and its
\* device and pump are left alone.
<1>1. ASSUME \A k \in Callers : made'[k] \in {made[k], NoTunnel},
             \A t \in Tunnels : t \in Live(holds', current') \/ t \in dropping' =>
                t \in Live(holds, current) \/ t \in dropping \/ \A k \in Callers : made'[k] # t,
             \A k \in Callers : pc'[k] = "build" =>
                pc[k] = "build" /\ made'[k] = made[k] /\ device'[made[k]] = "none" /\ pump'[made[k]] = "running",
             \A k \in Callers : pc'[k] = "handshake" => made'[k] \in Tunnels /\ device'[made'[k]] = "up"
      PROVE  MakingInv'
  BY <1>0, <1>1
<1>2. ASSUME Shed
      PROVE  \A t \in Tunnels : t \in Live(holds', current') \/ t \in dropping' =>
                t \in Live(holds, current) \/ t \in dropping \/ \A k \in Callers : made'[k] # t
  BY <1>2 DEF Shed
<1>3. \A k \in Callers : pc[k] \in {"build", "handshake"} => made[k] \in Tunnels
  BY <1>0 DEF PlaceInv, Making
<1>4. ASSUME NEW k \in Callers, LeaveCall(k), UNCHANGED <<device, pump>>, Shed PROVE MakingInv'
  <2>1. pc' = [pc EXCEPT ![k] = "idle"] /\ made' = [made EXCEPT ![k] = NoTunnel]
    BY <1>4 DEF LeaveCall, Leave
  <2> QED
    BY <1>0, <1>1, <1>2, <1>3, <1>4, <2>1
<1>5. ASSUME NEW k \in Callers, CallerNext(k) PROVE MakingInv'
  <2>0. ~HandshakeDone(k) => Shed
    BY <1>5, TaskArcs
  <2>1. CASE \E p \in Providers, j \in Jobs : Call(k, p, j)
    <3>1. Shed /\ UNCHANGED <<made, device, pump>> /\ \A l \in Callers : pc'[l] = pc[l] \/ pc'[l] \in {"tunnel", "bringup"}
      BY <1>0, <2>1, UnchangedSheds DEF Call, tunVars, provVars
    <3> QED
      BY <1>0, <1>1, <1>2, <1>3, <3>1
  <2>2. CASE Acquire(k)
    <3>1. UNCHANGED <<device, pump>> /\ Shed
      BY <2>2, TaskArcs DEF Acquire, tunVars, CallerNext, HandshakeDone
    <3>2. \A l \in Callers : pc'[l] = pc[l] \/ pc'[l] \notin {"build", "handshake"}
      BY <1>0, <2>2, ProceedCases DEF Acquire, LeaveCall, Leave
    <3>3. \A l \in Callers : made'[l] = made[l] \/ (l = k /\ made'[l] = NoTunnel)
      BY <1>0, <2>2, ProceedCases DEF Acquire, LeaveCall
    <3>4. pc[k] \notin {"build", "handshake"} /\ made[k] = NoTunnel
      BY <1>0, <2>2 DEF Acquire, PlaceInv, Making
    <3> QED
      BY <1>0, <1>1, <1>2, <1>3, <3>1, <3>2, <3>3, <3>4
  <2>3. CASE BringUp(k) \/ VisitCarrier(k)
    <3>1. Shed /\ UNCHANGED <<made, device, pump>>
          /\ \A l \in Callers : pc'[l] = pc[l] \/ pc'[l] \in {"start", "carry", "tunnel"}
      BY <1>0, <2>3, UnchangedSheds DEF BringUp, VisitCarrier, tunVars, provVars
    <3> QED
      BY <1>0, <1>1, <1>2, <1>3, <3>1
  <2>4. ASSUME NEW t \in Tunnels, StartStack(k, t) PROVE MakingInv'
    <3>1. Gone(t)
      BY <2>4 DEF StartStack, FreeTunnels
    <3>2. /\ pc' = [pc EXCEPT ![k] = "build"] /\ made' = [made EXCEPT ![k] = t]
          /\ pump' = [pump EXCEPT ![t] = "running"] /\ device' = [device EXCEPT ![t] = "none"]
          /\ UNCHANGED <<holds, current, dropping>>
      BY <2>4 DEF StartStack, provVars
    <3>3. \A l \in Callers : made[l] # t
      BY <3>1 DEF Gone
    <3> QED
      BY <1>0, <1>3, <3>1, <3>2, <3>3 DEF Gone
  <2>5. CASE DeviceBuilt(k)
    <3>1. /\ pc[k] = "build" /\ pc' = [pc EXCEPT ![k] = "handshake"] /\ device' = [device EXCEPT ![made[k]] = "up"]
          /\ UNCHANGED <<made, pump>> /\ Shed
      BY <2>5, UnchangedSheds DEF DeviceBuilt, provVars
    <3> QED
      BY <1>0, <1>1, <1>2, <1>3, <3>1
  <2>6. CASE BuildFails(k) \/ BringUpFailed(k)
    <3>1. /\ pc[k] \in {"build", "failing"} /\ pc' = [pc EXCEPT ![k] = "idle"] /\ made' = [made EXCEPT ![k] = NoTunnel]
          /\ AbortPump(made[k]) /\ device' = device /\ Shed
      BY <2>6, TaskArcs DEF BuildFails, BringUpFailed, LeaveCall, Leave, CallerNext, Own, HandshakeDone
    <3> QED
      BY <1>0, <1>1, <1>2, <1>3, <3>1 DEF AbortPump
  <2>7. CASE BringUpFails(k) \/ DialEnds(k)
    BY <1>4, <2>7, TaskArcs DEF BringUpFails, DialEnds, CallerNext, Own, HandshakeDone, tunVars
  <2>8. CASE HandshakeFails(k)
    <3>1. /\ pc[k] = "handshake" /\ pc' = [pc EXCEPT ![k] = "failing"]
          /\ device' = [device EXCEPT ![made[k]] = "stopping"] /\ UNCHANGED <<made, pump>> /\ Shed
      BY <2>8, UnchangedSheds DEF HandshakeFails, provVars
    <3> QED
      BY <1>0, <1>1, <1>2, <1>3, <3>1
  <2>9. CASE HandshakeDone(k)
    <3>1. pc[k] = "handshake" /\ UNCHANGED <<device, pump>> /\ made' = [made EXCEPT ![k] = NoTunnel] /\ Gain(made[k])
      BY <2>9, ProceedCases, TaskArcs DEF HandshakeDone
    <3>2. \A l \in Callers : pc'[l] = pc[l] \/ (l = k /\ pc'[l] \notin {"build", "handshake"})
      BY <1>0, <2>9, ProceedCases DEF HandshakeDone
    <3>3. pc'[k] \notin {"build", "handshake"}
      BY <1>0, <2>9, ProceedCases DEF HandshakeDone
    <3>4. \A t \in Tunnels : t \in Live(holds', current') \/ t \in dropping' =>
                t \in Live(holds, current) \/ t \in dropping \/ \A l \in Callers : made'[l] # t
      BY <1>0, <1>3, <3>1 DEF Gain
    <3> QED
      BY <1>0, <1>1, <1>3, <3>1, <3>2, <3>3, <3>4
  <2>10. CASE Cancel(k)
    <3>1. /\ pc' = [pc EXCEPT ![k] = "idle"] /\ made' = [made EXCEPT ![k] = NoTunnel] /\ pump' = pump
          /\ \A t \in Tunnels : t # made[k] => device'[t] = device[t]
      BY <1>0, <2>10 DEF Cancel, LeaveCall, Leave
    <3>2. Shed
      BY <2>10, LeaveSheds DEF Cancel, LeaveCall, WgInv
    <3> QED
      BY <1>0, <1>1, <1>2, <1>3, <3>1, <3>2
  <2>11. CASE DialSilent(k)
    <3>1. CASE LeaveCall(k)
      BY <1>4, <2>0, <2>11, <3>1, TaskArcs DEF DialSilent, tunVars, HandshakeDone
    <3>2. CASE Goto(k, "replace") /\ UNCHANGED <<made, holds, current, dropping>>
      BY <1>0, <1>1, <1>2, <1>3, <2>11, <3>2, UnchangedSheds DEF DialSilent, tunVars
    <3> QED
      BY <2>11, <3>1, <3>2 DEF DialSilent
  <2> QED
    BY <1>5, <2>1, <2>2, <2>3, <2>4, <2>5, <2>6, <2>7, <2>8, <2>9, <2>10, <2>11 DEF CallerNext, Own
<1>6. ASSUME NEW c \in Closers, CloserNext(c) PROVE MakingInv'
  <2>0. Shed
    BY <1>6, TaskArcs
  <2>1. made' = made /\ \A k \in Callers : pc'[k] = pc[k]
    <3>1. CASE Take(c)
      BY <1>0, <3>1 DEF Take, Emptied, Leave
    <3> QED
      BY <1>0, <1>6, <3>1 DEF CloserNext, Retire, StopPump, Joined, CancelRetire, Leave
  <2>2. CASE UNCHANGED <<device, pump>>
    BY <1>0, <1>1, <1>2, <1>3, <2>0, <2>1, <2>2
  <2>3. CASE Take(c)
    <3>1. CASE current[goal[c]] = NoTunnel
      BY <2>2, <2>3, <3>1 DEF Take, Emptied
    <3>2. CASE current[goal[c]] # NoTunnel
      <4>1. PICK t \in Tunnels : t = current[goal[c]] /\ t \in Live(holds, current)
        BY <1>0, <2>3, <3>2 DEF Take, Emptied, PlaceInv, Live
      <4>2. device' = [device EXCEPT ![t] = "stopping"] /\ pump' = pump
        BY <2>3, <3>2, <4>1 DEF Take, Emptied, StopDevice
      <4> QED
        BY <1>0, <1>1, <1>2, <1>3, <2>0, <2>1, <4>1, <4>2
    <3> QED
      BY <3>1, <3>2
  <2>4. CASE StopPump(c)
    <3>1. device[target[c]] = "stopped" /\ AbortPump(target[c]) /\ device' = device
      BY <2>4 DEF StopPump
    <3>2. \A t \in Tunnels : device[t] = "none" => pump'[t] = pump[t]
      BY <1>0, <3>1 DEF AbortPump
    <3> QED
      BY <1>0, <1>1, <1>2, <1>3, <2>0, <2>1, <3>1, <3>2
  <2> QED
    BY <1>6, <2>2, <2>3, <2>4 DEF CloserNext, Retire, Joined, CancelRetire, tunVars
<1>7. ASSUME NEW t \in Tunnels, TunnelNext(t) PROVE MakingInv'
  <2>1. /\ Live(holds', current') = Live(holds, current) /\ UNCHANGED <<pc, made>>
        /\ \A u \in dropping' : u \in dropping
    BY <1>7, TunnelArcs
  <2>2. CASE UNCHANGED <<device, pump>>
    BY <1>0, <1>1, <1>3, <2>1, <2>2
  <2>3. CASE DeviceStops(t) \/ PumpEnds(t)
    BY <1>0, <1>1, <1>3, <2>1, <2>3 DEF DeviceStops, PumpEnds
  <2>4. CASE DropDevice(t) \/ DropPump(t) \/ CarrierCloses(t)
    <3>1. t \in Live(holds, current) \/ t \in dropping
      BY <1>0, <2>4 DEF DropDevice, DropPump, CarrierCloses, DropInv
    <3>2. \A u \in Tunnels : u # t => device'[u] = device[u] /\ pump'[u] = pump[u]
      BY <1>0, <2>4 DEF DropDevice, DropPump, CarrierCloses, StopDevice, AbortPump
    <3> QED
      BY <1>0, <1>1, <1>3, <2>1, <3>1, <3>2
  <2> QED
    BY <1>7, <2>2, <2>3, <2>4 DEF TunnelNext, Age
<1>8. CASE UNCHANGED vars
  BY <1>0, <1>8 DEF vars, taskVars, provVars, tunVars
<1> QED
  BY <1>5, <1>6, <1>7, <1>8 DEF Next

\* Every step leaves a tunnel nobody holds any more to its destructor.
LEMMA DropStep == WgInv /\ [Next]_vars => DropInv'
<1> USE WgAssumption DEF Tasks, Goto
<1> SUFFICES ASSUME WgInv, [Next]_vars PROVE DropInv'
  OBVIOUS
<1>0. /\ PlaceInv /\ MakingInv /\ DropInv
      /\ made \in [Callers -> Tunnels \cup {NoTunnel}]
      /\ current \in [Providers -> Tunnels \cup {NoTunnel}]
      /\ device \in [Tunnels -> {"none", "up", "stopping", "stopped"}]
      /\ taken \subseteq Tunnels /\ goal \in [Tasks -> Providers \cup {NoProvider}]
  BY DEF WgInv, TypeOK
<1> USE DEF DropInv
<1>1. ASSUME Shed, \A t \in watched' : t \in watched, \A t \in taken' : device'[t] \in {"stopping", "stopped"}
      PROVE  DropInv'
  BY <1>0, <1>1 DEF Shed
<1>2. ASSUME NEW k \in Callers, CallerNext(k) PROVE DropInv'
  <2>1. CASE HandshakeDone(k)
    <3>1. made[k] # NoTunnel /\ Gain(made[k]) /\ UNCHANGED <<device, taken>>
      BY <1>0, <2>1, TaskArcs DEF HandshakeDone, PlaceInv, Making
    <3>2. \A t \in watched' : t \in watched \/ t = made[k]
      BY <2>1 DEF HandshakeDone, Watch
    <3>3. made[k] \notin Live(holds, current) /\ made[k] \notin dropping
      BY <1>0, <3>1 DEF MakingInv
    <3> QED
      BY <1>0, <3>1, <3>2, <3>3 DEF Gain
  <2>2. CASE ~HandshakeDone(k)
    <3>0. Shed
      BY <1>2, <2>2, TaskArcs
    <3>1. CASE UNCHANGED <<watched, taken, device>>
      BY <1>0, <1>1, <3>0, <3>1
    <3>2. CASE \E t \in Tunnels : StartStack(k, t)
      <4>1. PICK t \in Tunnels : StartStack(k, t)
        BY <3>2
      <4>2. watched' = watched /\ taken' = taken \ {t} /\ device' = [device EXCEPT ![t] = "none"]
        BY <4>1 DEF StartStack
      <4> QED
        BY <1>0, <1>1, <3>0, <4>2
    <3>3. CASE DeviceBuilt(k)
      <4>1. watched' = watched /\ taken' = taken /\ device' = [device EXCEPT ![made[k]] = "up"]
        BY <3>3 DEF DeviceBuilt
      <4>2. device[made[k]] = "none"
        BY <1>0, <3>3 DEF DeviceBuilt, MakingInv
      <4> QED
        BY <1>0, <1>1, <3>0, <4>1, <4>2
    <3>4. CASE HandshakeFails(k)
      <4>1. watched' = watched /\ taken' = taken /\ device' = [device EXCEPT ![made[k]] = "stopping"]
        BY <3>4 DEF HandshakeFails
      <4> QED
        BY <1>0, <1>1, <3>0, <4>1
    <3>5. CASE Cancel(k)
      <4>1. /\ watched' = watched /\ taken' = taken
            /\ \A t \in Tunnels : device[t] \in {"stopping", "stopped"} => device'[t] = device[t]
        BY <1>0, <3>5 DEF Cancel
      <4> QED
        BY <1>0, <1>1, <3>0, <4>1
    <3> QED
      BY <1>2, <2>2, <3>1, <3>2, <3>3, <3>4, <3>5 DEF CallerNext, Own, Call, Acquire, BringUp, VisitCarrier,
         BuildFails, BringUpFails, BringUpFailed, DialEnds, DialSilent, tunVars
  <2> QED
    BY <2>1, <2>2
<1>3. ASSUME NEW c \in Closers, CloserNext(c) PROVE DropInv'
  <2>0. Shed
    BY <1>3, TaskArcs
  <2>1. CASE Take(c)
    <3>1. CASE current[goal[c]] = NoTunnel
      BY <1>0, <1>1, <2>0, <2>1, <3>1 DEF Take, Emptied
    <3>2. CASE current[goal[c]] # NoTunnel
      <4>1. PICK t \in Tunnels : t = current[goal[c]]
        BY <1>0, <2>1, <3>2 DEF Take, Emptied, PlaceInv
      <4>2. device' = [device EXCEPT ![t] = "stopping"] /\ taken' = taken \cup {t} /\ watched' = watched
        BY <2>1, <3>2, <4>1 DEF Take, Emptied, StopDevice
      <4> QED
        BY <1>0, <1>1, <2>0, <4>2
    <3> QED
      BY <3>1, <3>2
  <2>2. CASE ~Take(c)
    <3>1. UNCHANGED <<device, taken>> /\ \A t \in watched' : t \in watched
      BY <1>3, <2>2 DEF CloserNext, Retire, StopPump, Joined, CancelRetire, tunVars
    <3> QED
      BY <1>0, <1>1, <2>0, <3>1
  <2> QED
    BY <2>1, <2>2
<1>4. ASSUME NEW t \in Tunnels, TunnelNext(t) PROVE DropInv'
  <2>1. Live(holds', current') = Live(holds, current)
        /\ (dropping' = dropping \/ (DropPump(t) /\ dropping' = dropping \ {t}))
    BY <1>4, TunnelArcs
  <2>2. taken' = taken /\ \A u \in taken : device'[u] \in {"stopping", "stopped"}
    BY <1>0, <1>4 DEF TunnelNext, DeviceStops, PumpEnds, DropDevice, StopDevice, DropPump, CarrierCloses, Age
  <2>3. \A u \in watched' : u \in watched /\ (DropPump(t) => u # t)
    BY <1>4 DEF TunnelNext, DeviceStops, PumpEnds, DropDevice, DropPump, CarrierCloses, Age
  <2> QED
    BY <1>0, <2>1, <2>2, <2>3
<1>5. CASE UNCHANGED vars
  BY <1>0, <1>5 DEF vars, taskVars, provVars, tunVars
<1> QED
  BY <1>2, <1>3, <1>4, <1>5 DEF Next

\* Every step leaves the tunnel a provider shares alone, or takes it away.
LEMMA IntactStep == WgInv /\ [Next]_vars => CurrentIntact'
<1> USE WgAssumption DEF Tasks, Goto
<1> SUFFICES ASSUME WgInv, [Next]_vars PROVE CurrentIntact'
  OBVIOUS
<1>0. /\ PlaceInv /\ MakingInv /\ DropInv /\ CurrentIntact
      /\ made \in [Callers -> Tunnels \cup {NoTunnel}]
      /\ current \in [Providers -> Tunnels \cup {NoTunnel}]
      /\ device \in [Tunnels -> {"none", "up", "stopping", "stopped"}]
      /\ goal \in [Tasks -> Providers \cup {NoProvider}]
  BY DEF WgInv, TypeOK
<1>1. current' \in [Providers -> Tunnels \cup {NoTunnel}] /\ DropInv'
  BY WgTypeStep, DropStep DEF TypeOK
<1>2. \A p \in Providers : current'[p] # NoTunnel => current'[p] \notin dropping'
  BY <1>1 DEF DropInv, Live
<1>3. \A p \in Providers : current[p] # NoTunnel => current[p] \in Live(holds, current)
  BY <1>0 DEF Live
\* It is enough that no slot is filled, and that what stays current is not stopped.
<1>4. ASSUME \A p \in Providers : current'[p] \in {current[p], NoTunnel},
             \A p \in Providers : current'[p] # NoTunnel => device'[current[p]] = "up" /\ current[p] \notin taken'
      PROVE  CurrentIntact'
  BY <1>0, <1>2, <1>4 DEF CurrentIntact
<1>5. ASSUME NEW k \in Callers, Acquire(k) PROVE \A p \in Providers : current'[p] \in {current[p], NoTunnel}
  <2>1. current' = current \/ current' = [current EXCEPT ![at[k]] = NoTunnel]
    BY <1>5, ProceedCases DEF Acquire, LeaveCall, Leave, Hold
  <2> QED
    BY <1>0, <2>1
<1>6. ASSUME NEW k \in Callers, CallerNext(k) PROVE CurrentIntact'
  <2>1. CASE HandshakeDone(k)
    <3>0. /\ at[k] \in Providers /\ made[k] \in Tunnels /\ pc[k] = "handshake"
          /\ UNCHANGED <<device, taken>>
      BY <1>0, <2>1 DEF HandshakeDone, PlaceInv, Making
    <3>1. current' = current \/ current' = [current EXCEPT ![at[k]] = made[k]]
      BY <2>1, ProceedCases DEF HandshakeDone
    <3>2. device[made[k]] = "up" /\ made[k] \notin taken /\ made[k] \notin Live(holds, current)
      BY <1>0, <3>0 DEF MakingInv, DropInv
    <3>3. CASE current' = current
      BY <1>0, <1>4, <3>0, <3>3 DEF CurrentIntact
    <3>4. CASE current' = [current EXCEPT ![at[k]] = made[k]]
      BY <1>0, <1>2, <1>3, <3>0, <3>2, <3>4 DEF CurrentIntact
    <3> QED
      BY <3>1, <3>3, <3>4
  <2>2. CASE Acquire(k)
    <3>1. UNCHANGED <<device, taken>>
      BY <2>2 DEF Acquire, tunVars
    <3> QED
      BY <1>0, <1>4, <1>5, <2>2, <3>1 DEF CurrentIntact
  <2>3. CASE current' = current /\ UNCHANGED <<device, taken>>
    BY <1>0, <1>4, <2>3 DEF CurrentIntact
  <2>4. ASSUME NEW t \in Tunnels, StartStack(k, t) PROVE CurrentIntact'
    <3>1. current' = current /\ device' = [device EXCEPT ![t] = "none"] /\ taken' = taken \ {t} /\ Gone(t)
      BY <2>4 DEF StartStack, FreeTunnels, provVars
    <3> QED
      BY <1>0, <1>3, <1>4, <3>1 DEF CurrentIntact, Gone
  <2>5. CASE DeviceBuilt(k) \/ HandshakeFails(k) \/ Cancel(k)
    <3>1. /\ current' = current /\ taken' = taken
          /\ \A t \in Tunnels : t # made[k] => device'[t] = device[t]
      BY <1>0, <2>5 DEF DeviceBuilt, HandshakeFails, Cancel, LeaveCall, Leave, Hold, provVars
    <3> QED
      BY <1>0, <1>3, <1>4, <3>1 DEF CurrentIntact, MakingInv
  <2> QED
    BY <1>6, <2>1, <2>2, <2>3, <2>4, <2>5
    DEF CallerNext, Own, Call, BringUp, VisitCarrier, BuildFails, BringUpFails, BringUpFailed, DialEnds,
        DialSilent, LeaveCall, Leave, Hold, tunVars, provVars
<1>7. ASSUME NEW c \in Closers, CloserNext(c) PROVE CurrentIntact'
  <2>1. CASE current' = current /\ UNCHANGED <<device, taken>>
    BY <1>0, <1>4, <2>1 DEF CurrentIntact
  <2>2. CASE Take(c)
    <3>1. CASE current[goal[c]] = NoTunnel
      BY <2>1, <2>2, <3>1 DEF Take, Emptied, Leave, Hold
    <3>2. CASE current[goal[c]] # NoTunnel
      <4>1. PICK t \in Tunnels : t = current[goal[c]] /\ goal[c] \in Providers
        BY <1>0, <2>2, <3>2 DEF Take, Emptied, PlaceInv
      <4>2. /\ current' = [current EXCEPT ![goal[c]] = NoTunnel]
            /\ device' = [device EXCEPT ![t] = "stopping"] /\ taken' = taken \cup {t}
        BY <2>2, <3>2, <4>1 DEF Take, Emptied, Hold, StopDevice
      <4> QED
        BY <1>0, <1>4, <4>1, <4>2 DEF CurrentIntact
    <3> QED
      BY <3>1, <3>2
  <2> QED
    BY <1>7, <2>1, <2>2 DEF CloserNext, Retire, StopPump, Joined, CancelRetire, Leave, Hold, tunVars, provVars
<1>8. ASSUME NEW t \in Tunnels, TunnelNext(t) PROVE CurrentIntact'
  <2>1. current' = current /\ taken' = taken
    BY <1>8 DEF TunnelNext, DeviceStops, PumpEnds, DropDevice, DropPump, CarrierCloses, Age, provVars
  <2>2. \A u \in Tunnels : device[u] = "up" /\ u \notin dropping => device'[u] = "up"
    BY <1>0, <1>8 DEF TunnelNext, DeviceStops, PumpEnds, DropDevice, StopDevice, DropPump, CarrierCloses, Age
  <2> QED
    BY <1>0, <1>4, <2>1, <2>2 DEF CurrentIntact
<1>9. CASE UNCHANGED vars
  BY <1>0, <1>9 DEF vars, provVars, tunVars, CurrentIntact
<1> QED
  BY <1>6, <1>7, <1>8, <1>9 DEF Next

\* Every step that stops a pump finds its device stopped or its carrier gone.
LEMMA PumpStep == WgInv /\ [Next]_vars => DeviceBeforePump'
<1> USE WgAssumption DEF Tasks, Goto
<1> SUFFICES ASSUME WgInv, [Next]_vars PROVE DeviceBeforePump'
  OBVIOUS
<1>0. /\ PlaceInv /\ MakingInv /\ DropInv /\ DeviceBeforePump
      /\ made \in [Callers -> Tunnels \cup {NoTunnel}]
      /\ device \in [Tunnels -> {"none", "up", "stopping", "stopped"}]
      /\ pump \in [Tunnels -> {"none", "running", "aborted", "ended"}]
      /\ carrier \in [Tunnels -> Tunnels \cup {NoTunnel}]
      /\ \A t \in watched : t \in Tunnels /\ carrier[t] # NoTunnel
  BY DEF WgInv, TypeOK
<1> USE DEF DeviceBeforePump, Stopped
\* A tunnel whose device runs and whose pump is not stopped by this step.
<1>1. ASSUME \A t \in Tunnels : device'[t] = "up" /\ pump'[t] \in {"aborted", "ended"} =>
                \/ /\ device[t] = "up" /\ pump[t] \in {"aborted", "ended"} /\ carrier'[t] = carrier[t]
                   /\ pump[carrier[t]] = "ended" => pump'[carrier[t]] = "ended"
                \/ carrier'[t] # NoTunnel /\ pump'[carrier'[t]] = "ended"
      PROVE  DeviceBeforePump'
  BY <1>0, <1>1
<1>2. ASSUME UNCHANGED <<device, pump, carrier>> PROVE DeviceBeforePump'
  BY <1>0, <1>2
<1>3. ASSUME NEW t, AbortPump(t), device' = device, carrier' = carrier, t \in Tunnels => device[t] # "up"
      PROVE  DeviceBeforePump'
  BY <1>0, <1>1, <1>3 DEF AbortPump
<1>4. ASSUME \A t \in Tunnels : device'[t] = "up" => device[t] = "up", UNCHANGED <<pump, carrier>>
      PROVE  DeviceBeforePump'
  BY <1>0, <1>1, <1>4
<1>5. ASSUME NEW k \in Callers, CallerNext(k) PROVE DeviceBeforePump'
  <2>1. ASSUME NEW t \in Tunnels, StartStack(k, t) PROVE DeviceBeforePump'
    <3>1. \A u \in Tunnels : carrier[u] = t => device[u] # "up"
      BY <2>1 DEF StartStack, FreeTunnels, Gone
    <3>2. /\ device' = [device EXCEPT ![t] = "none"] /\ pump' = [pump EXCEPT ![t] = "running"]
          /\ \A u \in Tunnels : u # t /\ carrier[u] # t => carrier'[u] = carrier[u]
      BY <1>0, <2>1 DEF StartStack
    <3> QED
      BY <1>0, <1>1, <3>1, <3>2
  <2>2. CASE DeviceBuilt(k)
    <3>1. /\ made[k] \in Tunnels /\ pump[made[k]] = "running"
      BY <1>0, <2>2 DEF DeviceBuilt, MakingInv, PlaceInv, Making
    <3>2. device' = [device EXCEPT ![made[k]] = "up"] /\ UNCHANGED <<pump, carrier>>
      BY <2>2 DEF DeviceBuilt
    <3> QED
      BY <1>0, <1>1, <3>1, <3>2
  <2>3. CASE BuildFails(k) \/ BringUpFailed(k)
    <3>1. device[made[k]] # "up"
      BY <1>0, <2>3 DEF BuildFails, BringUpFailed, MakingInv
    <3> QED
      BY <1>3, <2>3, <3>1 DEF BuildFails, BringUpFailed
  <2>4. CASE HandshakeFails(k) \/ Cancel(k)
    <3>1. UNCHANGED <<pump, carrier>> /\ \A t \in Tunnels : device'[t] = "up" => device[t] = "up"
      BY <1>0, <2>4 DEF HandshakeFails, Cancel
    <3> QED
      BY <1>4, <3>1
  <2> QED
    BY <1>2, <1>5, <2>1, <2>2, <2>3, <2>4 DEF CallerNext, Own, Call, Acquire, BringUp, VisitCarrier,
       BringUpFails, HandshakeDone, DialEnds, DialSilent, tunVars
<1>6. ASSUME NEW c \in Closers, CloserNext(c) PROVE DeviceBeforePump'
  <2>1. CASE Take(c)
    <3>1. UNCHANGED <<pump, carrier>> /\ \A t \in Tunnels : device'[t] = "up" => device[t] = "up"
      BY <1>0, <2>1 DEF Take, Emptied, StopDevice
    <3> QED
      BY <1>4, <3>1
  <2>2. CASE StopPump(c)
    BY <1>3, <2>2 DEF StopPump
  <2> QED
    BY <1>2, <1>6, <2>1, <2>2 DEF CloserNext, Retire, Joined, CancelRetire, tunVars
<1>7. ASSUME NEW t \in Tunnels, TunnelNext(t) PROVE DeviceBeforePump'
  <2>1. CASE DeviceStops(t)
    BY <1>0, <1>4, <2>1 DEF DeviceStops
  <2>2. CASE DropDevice(t)
    BY <1>0, <1>4, <2>2 DEF DropDevice, StopDevice
  <2>3. CASE PumpEnds(t)
    BY <1>0, <1>1, <2>3 DEF PumpEnds
  <2>4. CASE DropPump(t)
    <3>1. device[t] # "up"
      BY <1>0, <2>4 DEF DropPump, DropInv
    <3> QED
      BY <1>3, <2>4, <3>1 DEF DropPump
  <2>5. CASE CarrierCloses(t)
    <3>1. carrier[t] # NoTunnel /\ pump[carrier[t]] = "ended" /\ UNCHANGED <<device, carrier>> /\ AbortPump(t)
      BY <1>0, <2>5 DEF CarrierCloses
    <3> QED
      BY <1>0, <1>1, <3>1 DEF AbortPump
  <2> QED
    BY <1>2, <1>7, <2>1, <2>2, <2>3, <2>4, <2>5 DEF TunnelNext, Age
<1>8. CASE UNCHANGED vars
  BY <1>2, <1>8 DEF vars, tunVars
<1> QED
  BY <1>5, <1>6, <1>7, <1>8 DEF Next

-----------------------------------------------------------------------------
(* WgProvider.                                                               *)

\* The inductive invariant: the types, the places of the tasks, the mutexes,
\* the flags, the tunnels in the making, the Arcs and the two properties below
\* hold in every state of the provider.
THEOREM WgInvariant == Spec => []WgInv
<1>1. WgInv /\ [Next]_vars => WgInv'
  BY WgTypeStep, PlaceStep, LockStep, ClosedStep, MakingStep, DropStep, IntactStep, PumpStep DEF WgInv
<1> QED
  BY WgInit, <1>1, PTL DEF Spec

\* The fields of the provider, its tunnels and its tasks keep their types, and
\* only a carried tunnel has a carrier_watch.
THEOREM WgTypeCorrect == Spec => []TypeOK
<1>1. WgInv => TypeOK
  BY DEF WgInv
<1> QED
  BY WgInvariant, <1>1, PTL

\* The tunnel a provider hands out has its device running and is nobody else's,
\* whatever is retired, dropped or cancelled meanwhile.
THEOREM WgCurrentIntact == Spec => []CurrentIntact
<1>1. WgInv => CurrentIntact
  BY DEF WgInv
<1> QED
  BY WgInvariant, <1>1, PTL

\* Drop for WgTunnel, retire and bring_up: the device is stopped before the pump.
THEOREM WgDeviceBeforePump == Spec => []DeviceBeforePump
<1>1. WgInv => DeviceBeforePump
  BY DEF WgInv
<1> QED
  BY WgInvariant, <1>1, PTL

\* replace_tunnel: a dial takes away only a dead tunnel or the one it went silent on.
THEOREM WgOnlySuspectReplaced == Spec => OnlySuspectReplaced
<1> DEFINE Step == \A p \in Providers : current[p] # NoTunnel /\ current'[p] # current[p] =>
                     \/ ~Alive(current[p])
                     \/ \E c \in Closers : lock'[p] = c
                     \/ \E k \in Callers : pc[k] = "replace" /\ target[k] = current[p] /\ lock'[p] = k
<1>1. WgInv /\ [Next]_vars => [Step]_vars
  <2> USE WgAssumption DEF Tasks, provVars
  <2> SUFFICES ASSUME WgInv, [Next]_vars PROVE Step
    OBVIOUS
  <2>0. /\ PlaceInv /\ LockInv /\ current \in [Providers -> Tunnels \cup {NoTunnel}]
        /\ lock \in [Providers -> Tasks \cup {NoTask}]
    BY DEF WgInv, TypeOK
  <2>1. ASSUME current' = current PROVE Step
    BY <2>1
  <2>2. ASSUME NEW k \in Callers, Acquire(k) PROVE Step
    <3>0. at[k] \in Providers
      BY <2>0, <2>2 DEF Acquire, PlaceInv
    <3>1. CASE \E t : Proceed(k, t, current)
      BY <2>1, <3>1, ProceedCases
    <3>2. CASE /\ ~Kept(k, current[at[k]]) /\ lock' = [lock EXCEPT ![at[k]] = k]
               /\ current' = [current EXCEPT ![at[k]] = NoTunnel]
      BY <2>0, <2>2, <3>0, <3>2 DEF Acquire, Kept
    <3> QED
      BY <2>1, <2>2, <3>1, <3>2 DEF Acquire, LeaveCall, Leave, Hold
  <2>3. ASSUME NEW k \in Callers, HandshakeDone(k) PROVE Step
    <3>1. CASE at[k] = goal[k] /\ job[k] = "probe"
      BY <2>1, <2>3, <3>1 DEF HandshakeDone
    <3>2. CASE ~(at[k] = goal[k] /\ job[k] = "probe")
      <4>1. current' = [current EXCEPT ![at[k]] = made[k]]
        BY <2>3, <3>2, ProceedCases DEF HandshakeDone
      <4>2. lock[at[k]] = k /\ at[k] \in Providers
        BY <2>0, <2>3, <3>2 DEF HandshakeDone, LockInv, PlaceInv, Building, Unguarded
      <4>3. current[at[k]] = NoTunnel
        BY <2>0, <4>2 DEF LockInv
      <4> QED
        BY <2>0, <4>1, <4>3
    <3> QED
      BY <3>1, <3>2
  <2>4. ASSUME NEW k \in Callers, CallerNext(k) PROVE Step
    BY <2>1, <2>2, <2>3, <2>4
    DEF CallerNext, Own, Call, BringUp, VisitCarrier, StartStack, DeviceBuilt, BuildFails, BringUpFails,
        HandshakeFails, BringUpFailed, Cancel, DialEnds, DialSilent, LeaveCall, Leave, Hold
  <2>5. ASSUME NEW c \in Closers, Take(c) PROVE Step
    <3>1. CASE current[goal[c]] = NoTunnel
      BY <2>1, <2>5, <3>1 DEF Take, Emptied, Leave, Hold
    <3>2. CASE current[goal[c]] # NoTunnel
      <4>1. /\ current' = [current EXCEPT ![goal[c]] = NoTunnel] /\ lock' = [lock EXCEPT ![goal[c]] = c]
        BY <2>5, <3>2 DEF Take, Emptied, Hold
      <4> QED
        BY <2>0, <4>1
    <3> QED
      BY <3>1, <3>2
  <2>6. ASSUME NEW c \in Closers, CloserNext(c) PROVE Step
    BY <2>1, <2>5, <2>6 DEF CloserNext, Retire, StopPump, Joined, CancelRetire, Leave, Hold
  <2>7. ASSUME NEW t \in Tunnels, TunnelNext(t) PROVE Step
    BY <2>1, <2>7, TunnelArcs
  <2>8. CASE UNCHANGED vars
    BY <2>1, <2>8 DEF vars
  <2> QED
    BY <2>4, <2>6, <2>7, <2>8 DEF Next
<1> QED
  BY WgInvariant, <1>1, PTL DEF Spec, OnlySuspectReplaced

\* What a step does to a provider's slot and flags.
LEMMA SlotStep ==
    ASSUME WgInv, [Next]_vars, NEW p \in Providers
    PROVE  \/ UNCHANGED <<current[p], closed[p], down[p]>>
           \/ current[p] # NoTunnel /\ current'[p] = NoTunnel /\ UNCHANGED <<closed[p], down[p]>>
           \/ /\ current[p] = NoTunnel /\ current'[p] \in Tunnels /\ ~down[p]
              /\ UNCHANGED <<closed[p], down[p]>>
           \/ closed'[p] = TRUE /\ UNCHANGED <<current[p], down[p]>>
           \/ closed[p] /\ current[p] = NoTunnel /\ down'[p] = TRUE /\ UNCHANGED <<current[p], closed[p]>>
<1> USE WgAssumption DEF Tasks, provVars
<1> DEFINE Kinds == \/ UNCHANGED <<current[p], closed[p], down[p]>>
                    \/ current[p] # NoTunnel /\ current'[p] = NoTunnel /\ UNCHANGED <<closed[p], down[p]>>
                    \/ /\ current[p] = NoTunnel /\ current'[p] \in Tunnels /\ ~down[p]
                       /\ UNCHANGED <<closed[p], down[p]>>
                    \/ closed'[p] = TRUE /\ UNCHANGED <<current[p], down[p]>>
                    \/ closed[p] /\ current[p] = NoTunnel /\ down'[p] = TRUE /\ UNCHANGED <<current[p], closed[p]>>
<1>0. /\ PlaceInv /\ LockInv /\ ClosedInv /\ current \in [Providers -> Tunnels \cup {NoTunnel}]
      /\ lock \in [Providers -> Tasks \cup {NoTask}] /\ made \in [Callers -> Tunnels \cup {NoTunnel}]
  BY DEF WgInv, TypeOK
<1>b. closed \in [Providers -> BOOLEAN] /\ down \in [Providers -> BOOLEAN]
  BY DEF WgInv, TypeOK
<1>1. ASSUME UNCHANGED <<current, closed, down>> PROVE Kinds
  BY <1>1
<1>2. ASSUME NEW k \in Callers, Acquire(k) PROVE Kinds
  <2>1. UNCHANGED <<closed, down>> /\ (current' = current \/ current' = [current EXCEPT ![at[k]] = NoTunnel])
    BY <1>2, ProceedCases DEF Acquire, LeaveCall, Leave, Hold
  <2> QED
    BY <1>0, <2>1
<1>3. ASSUME NEW k \in Callers, HandshakeDone(k) PROVE Kinds
  <2>0. UNCHANGED <<closed, down>>
    BY <1>3 DEF HandshakeDone
  <2>1. CASE at[k] = goal[k] /\ job[k] = "probe"
    BY <1>1, <1>3, <2>0, <2>1 DEF HandshakeDone
  <2>2. CASE ~(at[k] = goal[k] /\ job[k] = "probe")
    <3>1. current' = [current EXCEPT ![at[k]] = made[k]]
      BY <1>3, <2>2, ProceedCases DEF HandshakeDone
    <3>2. lock[at[k]] = k /\ at[k] \in Providers /\ made[k] \in Tunnels
      BY <1>0, <1>3, <2>2 DEF HandshakeDone, LockInv, PlaceInv, Building, Making, Unguarded
    <3>3. current[at[k]] = NoTunnel /\ ~down[at[k]]
      BY <1>0, <3>2 DEF LockInv, ClosedInv
    <3> QED
      BY <1>0, <2>0, <3>1, <3>2, <3>3
  <2> QED
    BY <2>1, <2>2
<1>4. ASSUME NEW k \in Callers, CallerNext(k) PROVE Kinds
  BY <1>1, <1>2, <1>3, <1>4
  DEF CallerNext, Own, Call, BringUp, VisitCarrier, StartStack, DeviceBuilt, BuildFails, BringUpFails,
      HandshakeFails, BringUpFailed, Cancel, DialEnds, DialSilent, LeaveCall, Leave, Hold
<1>5. ASSUME NEW c \in Closers, NEW q \in Providers, NEW j \in Jobs, Retire(c, q, j) PROVE Kinds
  <2>1. closed' = [closed EXCEPT ![q] = @ \/ j = "shutdown"] /\ UNCHANGED <<current, down>>
    BY <1>5 DEF Retire
  <2>2. closed'[p] = TRUE \/ closed'[p] = closed[p]
    BY <1>b, <2>1
  <2> QED
    BY <2>1, <2>2
<1>6. ASSUME NEW c \in Closers, Done(c), UNCHANGED <<current, closed>>, pc[c] # "idle", current[goal[c]] = NoTunnel
      PROVE  Kinds
  <2>1. down'[p] = down[p] \/ (p = goal[c] /\ job[c] = "shutdown" /\ down'[p] = TRUE)
    <3>1. down' = [down EXCEPT ![goal[c]] = @ \/ job[c] = "shutdown"]
      BY <1>6 DEF Done
    <3>2. CASE job[c] = "shutdown"
      BY <1>b, <3>1, <3>2
    <3>3. CASE job[c] # "shutdown"
      BY <1>b, <3>1, <3>3
    <3> QED
      BY <3>2, <3>3
  <2> QED
    BY <1>0, <1>6, <2>1 DEF ClosedInv
<1>7. ASSUME NEW c \in Closers, Take(c) PROVE Kinds
  <2>1. CASE current[goal[c]] = NoTunnel
    BY <1>6, <1>7, <2>1 DEF Take, Emptied, Leave, Hold
  <2>2. CASE current[goal[c]] # NoTunnel
    <3>1. current' = [current EXCEPT ![goal[c]] = NoTunnel] /\ UNCHANGED <<closed, down>>
      BY <1>7, <2>2 DEF Take, Emptied, Hold
    <3> QED
      BY <1>0, <3>1
  <2> QED
    BY <2>1, <2>2
<1>8. ASSUME NEW c \in Closers, Joined(c) PROVE Kinds
  <2>1. current[goal[c]] = NoTunnel
    BY <1>0, <1>8 DEF Joined, LockInv, PlaceInv
  <2> QED
    BY <1>6, <1>8, <2>1 DEF Joined, Leave, Hold
<1>9. ASSUME NEW c \in Closers, CloserNext(c) PROVE Kinds
  BY <1>1, <1>5, <1>7, <1>8, <1>9 DEF CloserNext, StopPump, CancelRetire, Leave, Hold
<1>10. ASSUME NEW t \in Tunnels, TunnelNext(t) PROVE Kinds
  BY <1>1, <1>10 DEF TunnelNext, DeviceStops, PumpEnds, DropDevice, DropPump, CarrierCloses, Age
<1>11. CASE UNCHANGED vars
  BY <1>1, <1>11 DEF vars
<1> QED
  BY <1>4, <1>9, <1>10, <1>11 DEF Next

\* Each WireGuardTunnelProvider implements the contract of TunnelProvider: once
\* its shutdown has returned, no tunnel is ever established again.
THEOREM WgImplementsProvider == Spec => ImplementsProvider
<1> DEFINE Step == \A p \in Providers : Provider(p)!PNext \/ UNCHANGED Provider(p)!pvars
<1>1. Init => \A p \in Providers : Provider(p)!PInit
  BY DEF Init, Provider!PInit, Phase
<1>2. WgInv /\ [Next]_vars => [Step]_vars
  <2> SUFFICES ASSUME WgInv, [Next]_vars, NEW p \in Providers
               PROVE  Provider(p)!PNext \/ UNCHANGED Provider(p)!pvars
    OBVIOUS
  <2> USE DEF Phase, Provider!PNext, Provider!pvars, Provider!Establish, Provider!Release,
              Provider!BeginShutdown, Provider!EndShutdown
  <2>0. ClosedInv /\ closed[p] \in BOOLEAN /\ down[p] \in BOOLEAN
    BY DEF WgInv, TypeOK
  <2>1. CASE UNCHANGED <<current[p], closed[p], down[p]>>
    BY <2>1
  <2>2. CASE current[p] # NoTunnel /\ current'[p] = NoTunnel /\ UNCHANGED <<closed[p], down[p]>>
    BY <2>2
  <2>3. CASE /\ current[p] = NoTunnel /\ current'[p] \in Tunnels /\ ~down[p] /\ UNCHANGED <<closed[p], down[p]>>
    BY <2>0, <2>3
  <2>4. CASE closed'[p] = TRUE /\ UNCHANGED <<current[p], down[p]>>
    BY <2>0, <2>4
  <2>5. CASE closed[p] /\ current[p] = NoTunnel /\ down'[p] = TRUE /\ UNCHANGED <<current[p], closed[p]>>
    BY <2>0, <2>5
  <2> QED
    BY <2>1, <2>2, <2>3, <2>4, <2>5, SlotStep
<1> QED
  BY WgInvariant, <1>1, <1>2, PTL DEF Spec, ImplementsProvider

-----------------------------------------------------------------------------
(* What the liveness properties of WgProvider rest on.                       *)

\* A tunnel on its way out: its destructor runs, its device stops or has
\* stopped, which ends the pump, or it never had one and its pump was stopped.
Ending(t) ==
    \/ t \in dropping
    \/ device[t] \in {"stopping", "stopped"}
    \/ device[t] = "none" /\ pump[t] \in {"aborted", "ended"}

\* Every tunnel that was started, and that nobody makes or holds, is on its way out.
NoOrphan == \A t \in Tunnels : Abandoned(t) => Ending(t)

\* A carried tunnel that is handed out has its carrier_watch, unless its pump
\* was stopped already.
CarriedWatched == \A p \in Providers : LET t == current[p] IN
    t # NoTunnel /\ carrier[t] # NoTunnel => t \in watched \/ pump[t] \in {"aborted", "ended"}

\* No step leaves a tunnel to nobody.
LEMMA OrphanStep == WgInv /\ NoOrphan /\ [Next]_vars => NoOrphan'
<1> USE WgAssumption DEF Tasks, Goto, Abandoned, Ending
<1> SUFFICES ASSUME WgInv, NoOrphan, [Next]_vars PROVE NoOrphan'
  OBVIOUS
<1>0. /\ PlaceInv /\ MakingInv /\ DropInv /\ pc \in [Tasks -> CallerPcs \cup CloserPcs]
      /\ made \in [Callers -> Tunnels \cup {NoTunnel}]
      /\ current \in [Providers -> Tunnels \cup {NoTunnel}]
      /\ device \in [Tunnels -> {"none", "up", "stopping", "stopped"}]
      /\ pump \in [Tunnels -> {"none", "running", "aborted", "ended"}]
  BY DEF WgInv, TypeOK, CallerPcs, CloserPcs
\* It is enough that a tunnel on its way out stays there, and that what the step
\* abandons is: what loses its last Arc, and what its maker gives up.
<1>1. ASSUME Shed, NEW m \in Tunnels \cup {NoTunnel},
             \A k \in Callers : made'[k] = made[k] \/ (made[k] = m /\ made'[k] = NoTunnel),
             \A t \in Tunnels : pump'[t] # "none" => pump[t] # "none",
             m # NoTunnel => device'[m] \in {"stopping", "stopped"} \/ (device'[m] = "none" /\ pump'[m] \in {"aborted", "ended"}),
             \A t \in Tunnels \ {m} : Ending(t) => Ending(t)'
      PROVE  NoOrphan'
  BY <1>0, <1>1 DEF NoOrphan, Shed
<1>2. ASSUME Shed, UNCHANGED <<device, pump>>, \A k \in Callers : made'[k] = made[k] PROVE NoOrphan'
  BY <1>0, <1>1, <1>2 DEF Shed
<1>3. ASSUME NEW k \in Callers, CallerNext(k) PROVE NoOrphan'
  <2>0. ~HandshakeDone(k) => Shed
    BY <1>3, TaskArcs
  <2>1. CASE (\E p \in Providers, j \in Jobs : Call(k, p, j)) \/ BringUp(k) \/ VisitCarrier(k)
    BY <1>2, <2>1, UnchangedSheds DEF Call, BringUp, VisitCarrier, tunVars, provVars
  <2>2. CASE Acquire(k) \/ BringUpFails(k) \/ DialEnds(k) \/ DialSilent(k)
    <3>1. made[k] = NoTunnel /\ ~HandshakeDone(k)
      BY <1>0, <2>2 DEF Acquire, BringUpFails, DialEnds, DialSilent, PlaceInv, Making, HandshakeDone
    <3>2. UNCHANGED <<device, pump>>
      BY <2>2 DEF Acquire, BringUpFails, DialEnds, DialSilent, tunVars
    <3>3. made' = made \/ made' = [made EXCEPT ![k] = NoTunnel]
      BY <2>2, ProceedCases DEF Acquire, BringUpFails, DialEnds, DialSilent, LeaveCall
    <3> QED
      BY <1>0, <1>2, <2>0, <3>1, <3>2, <3>3
  <2>3. ASSUME NEW t \in Tunnels, StartStack(k, t) PROVE NoOrphan'
    <3>1. /\ made' = [made EXCEPT ![k] = t] /\ UNCHANGED <<holds, current, dropping>>
          /\ pump' = [pump EXCEPT ![t] = "running"] /\ device' = [device EXCEPT ![t] = "none"]
          /\ pc[k] = "start"
      BY <2>3 DEF StartStack, provVars
    <3>2. made[k] = NoTunnel
      BY <1>0, <3>1 DEF PlaceInv, Making
    <3> QED
      BY <1>0, <3>1, <3>2 DEF NoOrphan
  <2>4. CASE DeviceBuilt(k) \/ HandshakeFails(k)
    <3>1. /\ made' = made /\ UNCHANGED <<holds, current, dropping, pump>>
          /\ \A t \in Tunnels : t # made[k] => device'[t] = device[t]
      BY <1>0, <2>4 DEF DeviceBuilt, HandshakeFails, provVars
    <3> QED
      BY <1>0, <3>1 DEF NoOrphan
  <2>5. CASE BuildFails(k) \/ BringUpFailed(k)
    <3>1. /\ pc[k] \in {"build", "failing"} /\ made' = [made EXCEPT ![k] = NoTunnel] /\ AbortPump(made[k])
          /\ device' = device /\ ~HandshakeDone(k)
      BY <2>5 DEF BuildFails, BringUpFailed, LeaveCall, HandshakeDone
    <3>2. made[k] \in Tunnels /\ (device[made[k]] = "none" \/ device[made[k]] = "stopped")
      BY <1>0, <2>5, <3>1 DEF PlaceInv, Making, MakingInv, BuildFails, BringUpFailed
    <3>3. pump'[made[k]] \in {"aborted", "ended"}
      BY <1>0, <3>1, <3>2 DEF AbortPump
    <3>4. \A t \in Tunnels \ {made[k]} : pump'[t] = pump[t]
      BY <1>0, <3>1 DEF AbortPump
    <3>5. \A t \in Tunnels : t = made[k] => Ending(t)'
      BY <1>0, <3>1, <3>2, <3>3
    <3> QED
      BY <1>0, <2>0, <3>1, <3>2, <3>4, <3>5 DEF NoOrphan, Shed
  <2>6. CASE HandshakeDone(k)
    <3>1. made' = [made EXCEPT ![k] = NoTunnel] /\ UNCHANGED <<device, pump>>
      BY <2>6, ProceedCases DEF HandshakeDone
    <3>2. Gain(made[k])
      BY <1>3, <2>6, TaskArcs
    <3>3. made[k] \in Tunnels
      BY <1>0, <2>6 DEF HandshakeDone, PlaceInv, Making
    <3> QED
      BY <1>0, <3>1, <3>2, <3>3 DEF NoOrphan, Gain
  <2>7. CASE Cancel(k)
    <3>1. made' = [made EXCEPT ![k] = NoTunnel] /\ pump' = pump /\ Shed
      BY <2>7, LeaveSheds DEF Cancel, LeaveCall, WgInv
    <3>2. /\ \A t \in Tunnels : t # made[k] => device'[t] = device[t]
          /\ made[k] # NoTunnel => device'[made[k]] \in {"stopping", "stopped"}
      BY <1>0, <2>7 DEF Cancel
    <3> QED
      BY <1>0, <3>1, <3>2 DEF NoOrphan, Shed
  <2> QED
    BY <1>3, <2>1, <2>2, <2>3, <2>4, <2>5, <2>6, <2>7 DEF CallerNext, Own
<1>4. ASSUME NEW c \in Closers, CloserNext(c) PROVE NoOrphan'
  <2>1. Shed /\ made' = made
    BY <1>4, TaskArcs DEF CloserNext, Retire, Take, StopPump, Joined, CancelRetire
  <2>2. \A t \in Tunnels : /\ device[t] \in {"stopping", "stopped"} => device'[t] \in {"stopping", "stopped"}
                           /\ device'[t] = device[t] \/ device'[t] = "stopping"
                           /\ pump'[t] # "none" => pump[t] # "none" \/ Ending(t)'
                           /\ pump[t] \in {"aborted", "ended"} => pump'[t] \in {"aborted", "ended"}
    BY <1>0, <1>4 DEF CloserNext, Retire, Take, StopDevice, StopPump, AbortPump, Joined, CancelRetire, tunVars
  <2> QED
    BY <1>0, <2>1, <2>2 DEF NoOrphan, Shed
<1>5. ASSUME NEW t \in Tunnels, TunnelNext(t) PROVE NoOrphan'
  <2>1. Live(holds', current') = Live(holds, current) /\ made' = made
        /\ (dropping' = dropping \/ (DropPump(t) /\ dropping' = dropping \ {t}))
    BY <1>5, TunnelArcs
  <2>2. \A u \in Tunnels : /\ device[u] \in {"stopping", "stopped"} => device'[u] \in {"stopping", "stopped"}
                           /\ device'[u] = device[u] \/ device'[u] \in {"stopping", "stopped"}
                           /\ pump[u] \in {"aborted", "ended"} => pump'[u] \in {"aborted", "ended"}
                           /\ u # t => pump'[u] = pump[u]
    BY <1>0, <1>5 DEF TunnelNext, DeviceStops, PumpEnds, DropDevice, StopDevice, DropPump, AbortPump, CarrierCloses, Age
  <2>3. DropPump(t) => device'[t] \in {"stopping", "stopped"}
    BY <1>0 DEF DropPump, DropInv
  <2>4. pump'[t] # "none" /\ pump[t] = "none" => t \in Live(holds, current) \/ t \in dropping
    BY <1>0, <1>5 DEF TunnelNext, DeviceStops, PumpEnds, DropDevice, StopDevice, DropPump, CarrierCloses, Age, DropInv
  <2> QED
    BY <1>0, <2>1, <2>2, <2>3, <2>4 DEF NoOrphan
<1>6. CASE UNCHANGED vars
  BY <1>6 DEF vars, taskVars, provVars, tunVars, NoOrphan
<1> QED
  BY <1>3, <1>4, <1>5, <1>6 DEF Next

\* No step takes its watch from a tunnel whose pump runs.
LEMMA WatchedStep == WgInv /\ CarriedWatched /\ [Next]_vars => CarriedWatched'
<1> USE WgAssumption DEF Tasks, Goto
<1> SUFFICES ASSUME WgInv, CarriedWatched, [Next]_vars PROVE CarriedWatched'
  OBVIOUS
<1>0. /\ PlaceInv /\ MakingInv
      /\ made \in [Callers -> Tunnels \cup {NoTunnel}]
      /\ current \in [Providers -> Tunnels \cup {NoTunnel}]
      /\ pump \in [Tunnels -> {"none", "running", "aborted", "ended"}]
      /\ carrier \in [Tunnels -> Tunnels \cup {NoTunnel}]
      /\ goal \in [Tasks -> Providers \cup {NoProvider}]
  BY DEF WgInv, TypeOK
<1>1. \A p \in Providers : current[p] # NoTunnel => current[p] \in Live(holds, current)
  BY <1>0 DEF Live
<1>2. ASSUME \A p \in Providers : current'[p] \in {current[p], NoTunnel},
             \A t \in Live(holds, current) : /\ carrier'[t] \in {carrier[t], NoTunnel}
                                             /\ t \in watched => t \in watched' \/ pump'[t] \in {"aborted", "ended"}
                                             /\ pump[t] \in {"aborted", "ended"} => pump'[t] \in {"aborted", "ended"}
      PROVE  CarriedWatched'
  BY <1>0, <1>1, <1>2 DEF CarriedWatched
<1>3. \A t \in Live(holds, current) : t \in Tunnels
  BY DEF Live
<1>4. ASSUME NEW k \in Callers, CallerNext(k) PROVE CarriedWatched'
  <2>1. CASE HandshakeDone(k)
    <3>0. made[k] \in Tunnels /\ UNCHANGED <<pump, carrier>> /\ watched' = Watch(made[k])
      BY <1>0, <2>1 DEF HandshakeDone, PlaceInv, Making
    <3>1. current' = current \/ current' = [current EXCEPT ![at[k]] = made[k]]
      BY <2>1, ProceedCases DEF HandshakeDone
    <3> QED
      BY <1>0, <3>0, <3>1 DEF CarriedWatched, Watch
  <2>2. CASE Acquire(k)
    <3>1. current' = current \/ current' = [current EXCEPT ![at[k]] = NoTunnel]
      BY <2>2, ProceedCases DEF Acquire, LeaveCall, Leave, Hold
    <3>2. UNCHANGED tunVars
      BY <2>2 DEF Acquire
    <3> QED
      BY <1>0, <1>2, <3>1, <3>2 DEF tunVars
  <2>3. ASSUME NEW t \in Tunnels, StartStack(k, t) PROVE CarriedWatched'
    <3>1. t \notin Live(holds, current)
      BY <2>3 DEF StartStack, FreeTunnels, Gone
    <3>2. /\ UNCHANGED <<current, watched>> /\ pump' = [pump EXCEPT ![t] = "running"]
          /\ \A u \in Tunnels : u # t => carrier'[u] \in {carrier[u], NoTunnel}
      BY <2>3 DEF StartStack, provVars
    <3> QED
      BY <1>0, <1>2, <1>3, <3>1, <3>2
  <2>4. CASE BuildFails(k) \/ BringUpFailed(k)
    <3>1. UNCHANGED <<current, watched, carrier>> /\ AbortPump(made[k])
      BY <2>4 DEF BuildFails, BringUpFailed, LeaveCall, Leave, Hold
    <3> QED
      BY <1>0, <1>2, <1>3, <3>1 DEF AbortPump
  <2>5. CASE UNCHANGED <<current, watched, carrier, pump>>
    BY <1>0, <1>2, <2>5
  <2> QED
    BY <1>4, <2>1, <2>2, <2>3, <2>4, <2>5
    DEF CallerNext, Own, Call, BringUp, VisitCarrier, DeviceBuilt, BringUpFails, HandshakeFails, Cancel, DialEnds,
        DialSilent, LeaveCall, Leave, Hold, tunVars, provVars
<1>5. ASSUME NEW c \in Closers, CloserNext(c) PROVE CarriedWatched'
  <2>1. CASE Take(c)
    <3>1. current' = current \/ current' = [current EXCEPT ![goal[c]] = NoTunnel]
      BY <2>1 DEF Take, Emptied, Leave, Hold
    <3>2. UNCHANGED <<watched, carrier, pump>>
      BY <2>1 DEF Take, StopDevice
    <3> QED
      BY <1>0, <1>2, <3>1, <3>2
  <2>2. CASE StopPump(c)
    <3>1. UNCHANGED <<current, carrier>> /\ watched' = watched \ {target[c]} /\ AbortPump(target[c])
      BY <2>2 DEF StopPump, provVars
    <3> QED
      BY <1>0, <1>2, <1>3, <3>1 DEF AbortPump
  <2>3. CASE UNCHANGED <<current, watched, carrier, pump>>
    BY <1>0, <1>2, <2>3
  <2> QED
    BY <1>5, <2>1, <2>2, <2>3 DEF CloserNext, Retire, Joined, CancelRetire, Leave, Hold, tunVars, provVars
<1>6. ASSUME NEW t \in Tunnels, TunnelNext(t) PROVE CarriedWatched'
  <2>1. UNCHANGED <<current, carrier>>
    BY <1>6 DEF TunnelNext, DeviceStops, PumpEnds, DropDevice, DropPump, CarrierCloses, Age, provVars
  <2>2. \A u \in Tunnels : /\ u \in watched => u \in watched' \/ pump'[u] \in {"aborted", "ended"}
                           /\ pump[u] \in {"aborted", "ended"} => pump'[u] \in {"aborted", "ended"}
    BY <1>0, <1>6 DEF TunnelNext, DeviceStops, PumpEnds, DropDevice, StopDevice, DropPump, AbortPump, CarrierCloses, Age
  <2> QED
    BY <1>0, <1>2, <1>3, <2>1, <2>2
<1>7. CASE UNCHANGED vars
  BY <1>7 DEF vars, provVars, tunVars, CarriedWatched
<1> QED
  BY <1>4, <1>5, <1>6, <1>7 DEF Next

\* NothingLeaks, its safety half: however a bring_up fails or is cancelled and
\* whoever drops the last Arc, no tunnel is left with its device running, or a
\* pump and no device, and nobody to stop it.
THEOREM WgNoOrphan == Spec => []NoOrphan
<1>1. Init => NoOrphan
  BY DEF Init, NoOrphan, Abandoned
<1> QED
  BY WgInvariant, <1>1, OrphanStep, PTL DEF Spec

\* CarriedEnds, its safety half: the tunnel a carried provider hands out never
\* runs without the watch that ends it with its carrier.
THEOREM WgCarriedWatched == Spec => []CarriedWatched
<1>1. Init => CarriedWatched
  BY DEF Init, CarriedWatched
<1> QED
  BY WgInvariant, <1>1, WatchedStep, PTL DEF Spec

-----------------------------------------------------------------------------
(* CarriedMtu.                                                               *)

\* The last element of a sequence.
LEMMA LastTyped ==
    ASSUME NEW S, NEW s \in Seq(S), Len(s) > 0
    PROVE  Len(s) \in Nat /\ s[Len(s)] \in S
OBVIOUS

\* What Append does to a sequence.
LEMMA AppendTyped ==
    ASSUME NEW S, NEW s \in Seq(S), NEW x \in S
    PROVE  /\ Append(s, x) \in Seq(S) /\ Len(Append(s, x)) = Len(s) + 1 /\ Len(s) \in Nat
           /\ Append(s, x)[Len(s) + 1] = x
           /\ \A i \in 1 .. Len(s) : Append(s, x)[i] = s[i]
OBVIOUS

\* A sequence without its last element.
LEMMA FrontTyped ==
    ASSUME NEW S, NEW s \in Seq(S), Len(s) > 1
    PROVE  /\ SubSeq(s, 1, Len(s) - 1) \in Seq(S) /\ Len(s) \in Nat
           /\ Len(SubSeq(s, 1, Len(s) - 1)) = Len(s) - 1
           /\ \A i \in 1 .. Len(s) - 1 : SubSeq(s, 1, Len(s) - 1)[i] = s[i]
OBVIOUS

\* A packet no larger than a multiple of 16 does not grow past it.
LEMMA PaddingFits ==
    ASSUME NEW a \in Int, a % 16 = 0, NEW n \in Int, n <= a
    PROVE  Padded(n) \in Int /\ Padded(n) <= a
BY DEF Padded

\* What the link leaves over, for an overhead of o bytes.
LEMMA LeftOver ==
    ASSUME NEW link \in MinCarried .. MaxMtu, NEW o \in {60, 80},
           RoundDown(SaturatingSub(link, o)) >= MinCarried
    PROVE  LET a == RoundDown(SaturatingSub(link, o)) IN
            a \in MinCarried .. MaxMtu /\ a + o <= link /\ a % 16 = 0
<1> USE DEF MinCarried, MaxMtu
<1>1. link >= o
  BY DEF RoundDown, SaturatingSub
<1>2. RoundDown(SaturatingSub(link, o)) = (link - o) - ((link - o) % 16)
  BY <1>1 DEF RoundDown, SaturatingSub
<1> DEFINE d == link - o
<1>3. d \in Int /\ d <= 3800 /\ d + o = link
  OBVIOUS
<1>4. d - (d % 16) >= 576
  BY <1>2
<1> HIDE DEF d
<1>5. d - (d % 16) \in 576 .. 3800 /\ d - (d % 16) <= d /\ (d - (d % 16)) % 16 = 0
  BY <1>3, <1>4
<1>6. d - (d % 16) + o <= link
  BY <1>3, <1>5
<1> QED BY <1>2, <1>5, <1>6 DEF d

\* What one call guarantees, for every link and every setting.
LEMMA CarriedFits ==
    ASSUME NEW link \in MinCarried .. MaxMtu, NEW h \in Headers, NEW c \in MinMtu .. MaxMtu,
           NEW m, m = Smaller(c, Available(link, h)), WideEnough(Available(link, h))
    PROVE  /\ m \in MinCarried .. MaxMtu
           /\ \A n \in 1 .. m : Padded(n) + Overhead(h) <= link
<1>1. PICK o \in {60, 80} : o = Overhead(h)
  BY DEF Headers, Overhead, UdpHeader, WireGuardData
<1>2. PICK a : a = RoundDown(SaturatingSub(link, o))
  OBVIOUS
<1>3. a = Available(link, h)
  BY <1>1, <1>2 DEF Available
<1>4. a \in MinCarried .. MaxMtu /\ a + o <= link /\ a % 16 = 0
  <2>1. Available(link, h) >= MinCarried
    BY DEF WideEnough
  <2>2. RoundDown(SaturatingSub(link, o)) >= MinCarried
    BY <1>2, <1>3, <2>1
  <2> QED BY <1>2, <2>2, LeftOver
<1>5. m = IF c <= a THEN c ELSE a
  BY <1>3 DEF Smaller
<1>6. m \in MinCarried .. MaxMtu /\ m <= a
  BY <1>4, <1>5 DEF MinCarried, MinMtu, MaxMtu
<1>7. ASSUME NEW n \in 1 .. m PROVE Padded(n) + o <= link
  <2>1. n \in Int /\ n <= a
    BY <1>4, <1>6 DEF MinCarried, MaxMtu
  <2>2. Padded(n) \in Int /\ Padded(n) <= a
    <3>1. a \in Int /\ a % 16 = 0
      BY <1>4 DEF MinCarried, MaxMtu
    <3> QED BY <2>1, <3>1, PaddingFits
  <2>3. a \in Int /\ link \in Int
    BY <1>4 DEF MinCarried, MaxMtu
  <2> QED BY <1>4, <2>2, <2>3
<1> QED BY <1>1, <1>6, <1>7

\* The types, and the fit of every packet on every level, hold of any nesting.
THEOREM MtuCorrect == MtuSpec => [](MtuTypeOK /\ PacketsFit)
<1> USE MtuAssumption
<1>1. MtuInit => MtuTypeOK /\ PacketsFit
  BY DEF MtuInit, MtuTypeOK, PacketsFit, MinCarried, MinMtu, MaxMtu, Headers
<1>2. MtuTypeOK /\ PacketsFit /\ [MtuNext]_mtuVars => MtuTypeOK' /\ PacketsFit'
  <2> SUFFICES ASSUME MtuTypeOK, PacketsFit, [MtuNext]_mtuVars PROVE MtuTypeOK' /\ PacketsFit'
    OBVIOUS
  <2>0. /\ mtus \in Seq(MinCarried .. MaxMtu) /\ headers \in Seq(Headers)
        /\ Len(mtus) = Len(headers) /\ Len(mtus) > 0 /\ Len(mtus) \in Nat
    BY DEF MtuTypeOK
  <2>1. ASSUME NEW c \in Configured, NEW h \in Headers, Carry(c, h)
        PROVE  MtuTypeOK' /\ PacketsFit'
    <3>1. PICK link : link = mtus[Len(mtus)]
      OBVIOUS
    <3>2. PICK m : m = Smaller(c, Available(link, h))
      OBVIOUS
    <3>3. link \in MinCarried .. MaxMtu /\ c \in MinMtu .. MaxMtu
      BY <2>0, <3>1, LastTyped
    <3>4. WideEnough(Available(link, h)) /\ mtus' = Append(mtus, m) /\ headers' = Append(headers, h)
      BY <2>1, <3>1, <3>2 DEF Carry
    <3>5. m \in MinCarried .. MaxMtu /\ \A n \in 1 .. m : Padded(n) + Overhead(h) <= link
      BY <3>2, <3>3, <3>4, CarriedFits
    <3>6. /\ mtus' \in Seq(MinCarried .. MaxMtu) /\ Len(mtus') = Len(mtus) + 1
          /\ mtus'[Len(mtus) + 1] = m
          /\ \A i \in 1 .. Len(mtus) : mtus'[i] = mtus[i]
      BY <2>0, <3>4, <3>5, AppendTyped
    <3>7. /\ headers' \in Seq(Headers) /\ Len(headers') = Len(mtus) + 1
          /\ headers'[Len(mtus) + 1] = h
          /\ \A i \in 1 .. Len(mtus) : headers'[i] = headers[i]
      BY <2>0, <3>4, AppendTyped
    <3>8. MtuTypeOK'
      BY <2>0, <3>6, <3>7 DEF MtuTypeOK
    <3>9. ASSUME NEW i \in 1 .. Len(mtus') - 1, NEW n \in 1 .. mtus'[i + 1]
          PROVE  Padded(n) + Overhead(headers'[i + 1]) <= mtus'[i]
      <4>1. CASE i = Len(mtus)
        <5>1. mtus'[i + 1] = m /\ headers'[i + 1] = h
          BY <3>6, <3>7, <4>1
        <5>2. mtus'[i] = link
          BY <2>0, <3>1, <3>6, <4>1
        <5> QED BY <3>5, <5>1, <5>2
      <4>2. CASE i # Len(mtus)
        <5>1. i \in 1 .. Len(mtus) - 1
          BY <2>0, <3>6, <4>2
        <5>2. mtus'[i + 1] = mtus[i + 1] /\ headers'[i + 1] = headers[i + 1] /\ mtus'[i] = mtus[i]
          BY <2>0, <3>6, <3>7, <5>1
        <5> QED BY <5>1, <5>2 DEF PacketsFit
      <4> QED BY <4>1, <4>2
    <3> QED BY <3>8, <3>9 DEF PacketsFit
  <2>2. ASSUME Release PROVE MtuTypeOK' /\ PacketsFit'
    <3>1. /\ Len(mtus) > 1 /\ mtus' = SubSeq(mtus, 1, Len(mtus) - 1)
          /\ headers' = SubSeq(headers, 1, Len(headers) - 1)
      BY <2>2 DEF Release
    <3>2. /\ mtus' \in Seq(MinCarried .. MaxMtu) /\ Len(mtus') = Len(mtus) - 1
          /\ \A i \in 1 .. Len(mtus) - 1 : mtus'[i] = mtus[i]
      BY <2>0, <3>1, FrontTyped
    <3>3. /\ headers' \in Seq(Headers) /\ Len(headers') = Len(mtus) - 1
          /\ \A i \in 1 .. Len(mtus) - 1 : headers'[i] = headers[i]
      BY <2>0, <3>1, FrontTyped
    <3>4. MtuTypeOK'
      BY <2>0, <3>1, <3>2, <3>3 DEF MtuTypeOK
    <3>5. ASSUME NEW i \in 1 .. Len(mtus') - 1
          PROVE  /\ i \in 1 .. Len(mtus) - 1 /\ mtus'[i] = mtus[i]
                 /\ mtus'[i + 1] = mtus[i + 1] /\ headers'[i + 1] = headers[i + 1]
      BY <2>0, <3>2, <3>3
    <3> QED BY <3>4, <3>5 DEF PacketsFit
  <2>3. CASE UNCHANGED mtuVars
    BY <2>3 DEF mtuVars, MtuTypeOK, PacketsFit
  <2> QED BY <2>1, <2>2, <2>3 DEF MtuNext
<1> QED BY <1>1, <1>2, PTL DEF MtuSpec

=============================================================================
