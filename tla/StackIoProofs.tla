--------------------------- MODULE StackIoProofs ---------------------------
(* Proofs about StackIo, for any number of tasks, DNS slots and buffer       *)
(* sizes.  The run checks the same invariants on a small instance.           *)
EXTENDS StackIo, FiniteSetTheorems, SequenceTheorems, TLAPS

\* A task that has begun to send or to receive holds the lock of its direction.
LockInv ==
    /\ \A p \in Senders : /\ pc[p] \in {"idle", "try", "parked", "ring"}
                          /\ pc[p] # "idle" => sendLock = p
    /\ \A p \in Receivers : /\ pc[p] \in {"idle", "try", "parked"}
                            /\ pc[p] # "idle" => recvLock = p

\* Who has a query has a permit, and the slots in use are those of the queries,
\* each of one task.
QueryInv ==
    /\ \A q \in Resolvers :
        /\ pc[q] # "idle" => q \in permits
        /\ pc[q] \in {"try", "parked", "cancel"} => query[q] # NoSlot
        /\ pc[q] \in {"idle", "start", "release"} => query[q] = NoSlot
        /\ query[q] # NoSlot => slot[query[q]] # "free"
        /\ \A r \in Resolvers : query[q] # NoSlot /\ query[r] = query[q] => r = q
    /\ \A s \in Slots : slot[s] # "free" => \E q \in Resolvers : query[q] = s

\* No more permits than slots.
PermitInv == Cardinality(permits) <= Cardinality(Slots)

\* The pump's end comes after the flag.
StopInv == pump = "done" => stopped

IoInv == TypeOK /\ LockInv /\ QueryInv /\ PermitInv /\ StopInv /\ NoStrandedTask /\ WorkSeen

\* A new stack satisfies the invariant.
LEMMA IoInit == Init => IoInv
<1> SUFFICES ASSUME Init PROVE IoInv
  OBVIOUS
<1> USE IoAssumption DEF Init
<1>1. TypeOK
  <2>1. pc \in [Tasks -> {"idle", "try", "parked", "ring", "start", "cancel", "release"}]
    OBVIOUS
  <2>2. waker \in [Wakers -> Tasks \cup {NoTask}] /\ slot \in [Slots -> {"free", "unsent", "sent", "answered"}]
    OBVIOUS
  <2>3. query \in [Resolvers -> Slots \cup {NoSlot}]
    OBVIOUS
  <2>4. tx \in 0 .. Room /\ rx \in 0 .. Room /\ out \in 0 .. Depth
    OBVIOUS
  <2>5. inn \in Seq({"udp", "stray"}) /\ inbound \in Seq({"udp", "stray"})
    OBVIOUS
  <2>6. size \in [Senders -> Sizes] /\ filled \in BOOLEAN
    BY DEF Sizes
  <2> QED
    BY <2>1, <2>2, <2>3, <2>4, <2>5, <2>6 DEF TypeOK
<1>2. LockInv /\ QueryInv /\ StopInv
  BY DEF LockInv, QueryInv, StopInv, Tasks
<1>3. PermitInv
  BY FS_EmptySet, FS_CardinalityType DEF PermitInv
<1>4. NoStrandedTask /\ WorkSeen
  BY DEF NoStrandedTask, WorkSeen
<1> QED
  BY <1>1, <1>2, <1>3, <1>4 DEF IoInv

\* The smaller of two numbers is one of them.
LEMMA SmallerNat == \A a, b \in Nat : /\ Smaller(a, b) \in Nat
                                      /\ Smaller(a, b) <= a /\ Smaller(a, b) <= b
                                      /\ Smaller(a, b) \in {a, b}
BY DEF Smaller

\* Packets of a kind are counted by a number.
LEMMA CountNat == ASSUME TypeOK, NEW k PROVE Count(k) \in Nat
<1>1. Len(inbound) \in Int
  BY DEF TypeOK
<1>2. IsFiniteSet(1 .. Len(inbound))
  BY <1>1, FS_Interval
<1>3. {i \in 1 .. Len(inbound) : inbound[i] = k} \in SUBSET (1 .. Len(inbound))
  OBVIOUS
<1>4. IsFiniteSet({i \in 1 .. Len(inbound) : inbound[i] = k})
  BY <1>2, <1>3, FS_Subset
<1> QED
  BY <1>4, FS_CardinalityType DEF Count

\* A part of a channel's packets is a sequence of packets.
LEMMA SubSeqType ==
    ASSUME NEW S, NEW s \in Seq(S), NEW m \in Nat, m >= 1, NEW n \in Nat, n <= Len(s)
    PROVE  SubSeq(s, m, n) \in Seq(S)
<1>1. \A i \in m .. n : s[i] \in S
  OBVIOUS
<1> QED
  BY <1>1, SubSeqProperties

\* What WgPhy::push_inbound leaves is a sequence of packets.
LEMMA PushInboundType ==
    ASSUME TypeOK, NEW ps \in Seq({"udp", "stray"})
    PROVE  PushInbound(ps) \in Seq({"udp", "stray"})
<1> DEFINE all == inbound \o ps
           k == Smaller(Depth, Len(all))
<1>1. all \in Seq({"udp", "stray"})
  BY ConcatProperties DEF TypeOK
<1>2. k \in Nat /\ k <= Len(all) /\ Len(all) \in Nat
  <2> HIDE DEF all
  <2>1. Len(all) \in Nat
    BY <1>1
  <2> QED
    BY <2>1, IoAssumption DEF Smaller
<1>3. PushInbound(ps) = SubSeq(all, 1 + Len(all) - k, Len(all))
  BY DEF PushInbound
<1> HIDE DEF k, all
<1>4. 1 + Len(all) - k \in Nat /\ 1 + Len(all) - k >= 1
  BY <1>2
<1> QED
  BY <1>1, <1>2, <1>3, <1>4, SubSeqType

\* A task that parks keeps the types of the tasks' state.
LEMMA ParkType ==
    ASSUME TypeOK, NEW p \in Tasks, NEW w \in Wakers, Park(p, w)
    PROVE  /\ pc' \in [Tasks -> {"idle", "try", "parked", "ring", "start", "cancel", "release"}]
           /\ woken' \subseteq Tasks /\ waker' \in [Wakers -> Tasks \cup {NoTask}]
BY DEF TypeOK, Park, Goto

\* So does one that gives up its lock.
LEMMA UnlockType ==
    ASSUME TypeOK, NEW p \in Tasks, Unlock(p)
    PROVE  /\ sendLock' \in Senders \cup {NoTask} /\ recvLock' \in Receivers \cup {NoTask}
           /\ size' \in [Senders -> Sizes]
BY DEF TypeOK, Unlock, Sizes

\* Every step keeps the types.
LEMMA TypeNext == TypeOK /\ [Next]_vars => TypeOK'
<1> SUFFICES ASSUME TypeOK, [Next]_vars PROVE TypeOK'
  OBVIOUS
<1> USE IoAssumption
<1>1. ASSUME NEW p \in Tasks, TaskNext(p) PROVE TypeOK'
  <2> USE DEF TypeOK, Goto, lockVars, sockVars, dnsVars, linkVars, pumpVars
  <2>1. CASE \E z \in Sizes : LockSend(p, z)
    BY <2>1 DEF LockSend
  <2>2. CASE LockRecv(p)
    BY <2>2 DEF LockRecv
  <2>3. CASE Repoll(p)
    BY <2>3 DEF Repoll
  <2>4. CASE Refuse(p)
    BY <2>4, UnlockType DEF Refuse
  <2>5. CASE Send(p)
    <3>1. CASE Fits(p)
      <4>1. tx' \in 0 .. Room
        BY <2>5, <3>1 DEF Send, Fits
      <4>2. filled' \in BOOLEAN
        BY <2>5, <3>1 DEF Send
      <4> QED
        BY <2>5, <3>1, <4>1, <4>2 DEF Send
    <3>2. CASE ~Fits(p)
      <4>1. Park(p, "tx")
        BY <2>5, <3>2 DEF Send
      <4>2. "tx" \in Wakers
        BY DEF Wakers
      <4> QED
        BY <2>5, <3>2, <4>1, <4>2, ParkType DEF Send
    <3> QED
      BY <3>1, <3>2
  <2>6. CASE Recv(p)
    <3>1. CASE rx > 0
      <4>1. rx' \in 0 .. Room
        BY <2>6, <3>1 DEF Recv
      <4> QED
        BY <2>6, <3>1, <4>1, UnlockType DEF Recv
    <3>2. CASE ~(rx > 0)
      <4>1. Park(p, "rx")
        BY <2>6, <3>2 DEF Recv
      <4>2. "rx" \in Wakers
        BY DEF Wakers
      <4> QED
        BY <2>6, <3>2, <4>1, <4>2, ParkType DEF Recv
    <3> QED
      BY <3>1, <3>2
  <2>7. CASE RingPump(p)
    BY <2>7, UnlockType DEF RingPump, Ring
  <2>8. CASE Drop(p)
    BY <2>8, UnlockType DEF Drop
  <2>9. CASE Permit(p)
    BY <2>9 DEF Permit
  <2>10. CASE \E s \in Slots : StartQuery(p, s)
    BY <2>10 DEF StartQuery, Wakers
  <2>11. CASE BadName(p)
    BY <2>11 DEF BadName
  <2>12. CASE QueryResult(p)
    <3>1. CASE slot[query[p]] = "answered"
      <4>1. /\ pc' = [pc EXCEPT ![p] = "release"] /\ slot' = [slot EXCEPT ![query[p]] = "free"]
            /\ query' = [query EXCEPT ![p] = NoSlot] /\ p \in Resolvers
        BY <2>12, <3>1 DEF QueryResult
      <4>2. pc' \in [Tasks -> {"idle", "try", "parked", "ring", "start", "cancel", "release"}]
        BY <4>1
      <4>3. slot' \in [Slots -> {"free", "unsent", "sent", "answered"}]
        BY <4>1
      <4>4. query' \in [Resolvers -> Slots \cup {NoSlot}]
        BY <4>1
      <4> QED
        BY <2>12, <3>1, <4>2, <4>3, <4>4 DEF QueryResult
    <3>2. CASE slot[query[p]] # "answered"
      <4>1. /\ pc' \in [Tasks -> {"idle", "try", "parked", "ring", "start", "cancel", "release"}]
            /\ woken' \subseteq Tasks
        BY <2>12, <3>2, SMTT(20) DEF QueryResult, Park
      <4>2. waker' \in [Wakers -> Tasks \cup {NoTask}]
        <5>1. waker' = [waker EXCEPT ![query[p]] = p] /\ waker \in [Wakers -> Tasks \cup {NoTask}]
          BY <2>12, <3>2 DEF QueryResult, Park
        <5> HIDE DEF TypeOK
        <5> QED
          BY <5>1
      <4> QED
        BY <2>12, <3>2, <4>1, <4>2 DEF QueryResult
    <3> QED
      BY <3>1, <3>2
  <2>13. CASE Deadline(p)
    BY <2>13 DEF Deadline, EarlyCancel
  <2>14. CASE CancelQuery(p)
    BY <2>14 DEF CancelQuery
  <2>15. CASE Release(p)
    BY <2>15 DEF Release
  <2> QED
    BY <1>1, <2>1, <2>2, <2>3, <2>4, <2>5, <2>6, <2>7, <2>8, <2>9, <2>10, <2>11, <2>12,
       <2>13, <2>14, <2>15 DEF TaskNext
<1>2. ASSUME NEW n \in 0 .. tx, NEW qs \in SUBSET Unsent, NEW done \in SUBSET Pending,
             Poll(n, qs, done)
      PROVE  TypeOK'
  <2>1. Count("udp") \in Nat /\ Count("stray") \in Nat
    BY CountNat
  <2>2. PICK c \in Nat : c = Count("udp")
    BY <2>1
  <2>3. PICK k \in Nat : k = Replies
    BY <2>1, SmallerNat DEF Replies, TypeOK
  <2>4. IsFiniteSet(qs)
    BY FS_Subset DEF Unsent
  <2>5. PICK z \in Nat : z = Cardinality(qs)
    BY <2>4, FS_CardinalityType
  <2>6. tx' \in 0 .. Room
    BY <1>2 DEF Poll, TypeOK
  <2>7. rx' \in 0 .. Room
    <3>1. rx + c \in Nat /\ Room \in Nat
      BY DEF TypeOK
    <3> QED
      BY <1>2, <2>2, <3>1, SmallerNat DEF Poll
  <2>8. out' \in 0 .. Depth
    <3>1. out + k + n + z \in Nat /\ Depth \in Nat
      BY DEF TypeOK
    <3>2. Smaller(Depth, out + k + n + z) \in 0 .. Depth
      BY <3>1 DEF Smaller
    <3> QED
      BY <1>2, <2>3, <2>5, <3>2 DEF Poll, TypeOK
  <2>9. slot' \in [Slots -> {"free", "unsent", "sent", "answered"}]
    BY <1>2 DEF Poll, TypeOK
  <2>10. woken' \subseteq Tasks /\ waker' \in [Wakers -> Tasks \cup {NoTask}]
    BY <1>2 DEF Poll, Wake, TypeOK
  <2>11. inbound' \in Seq({"udp", "stray"})
    BY <1>2 DEF Poll
  <2>12. delay' \in {"now", "later", "none"} /\ pump' \in {"poll", "select", "stopping", "done"}
    BY <1>2 DEF Poll, NextPoll
  <2>13. filled' \in BOOLEAN
    BY <1>2 DEF Poll
  <2> QED
    BY <1>2, <2>6, <2>7, <2>8, <2>9, <2>10, <2>11, <2>12, <2>13
    DEF Poll, TypeOK, lockVars, dnsVars
<1>3. CASE Receive
  <2>1. PICK n \in Nat : n = Smaller(Batch, Len(inn)) /\ n <= Len(inn)
    <3>1. Len(inn) \in Nat
      BY DEF TypeOK
    <3> QED
      BY <3>1 DEF Smaller
  <2>2. SubSeq(inn, 1, n) \in Seq({"udp", "stray"})
    BY <2>1, SubSeqType DEF TypeOK
  <2>3. SubSeq(inn, n + 1, Len(inn)) \in Seq({"udp", "stray"})
    BY <2>1, SubSeqType DEF TypeOK
  <2>4. inbound' \in Seq({"udp", "stray"}) /\ inn' \in Seq({"udp", "stray"})
    BY <1>3, <2>1, <2>2, <2>3, PushInboundType DEF Receive
  <2> QED
    BY <1>3, <2>4 DEF Receive, TypeOK, taskVars, lockVars, sockVars, dnsVars
<1>4. CASE Woken \/ Sleep \/ Leave \/ SetStopped
  BY <1>4 DEF Woken, Sleep, Leave, SetStopped, TypeOK, taskVars, lockVars, sockVars, dnsVars, linkVars
<1>5. CASE Sweep
  <2>1. woken' \subseteq Tasks /\ waker' \in [Wakers -> Tasks \cup {NoTask}]
    BY <1>5 DEF Sweep, CloseSockets, Wake, TypeOK
  <2>2. tx' \in 0 .. Room /\ rx' \in 0 .. Room /\ inn' \in Seq({"udp", "stray"})
    BY <1>5 DEF Sweep, CloseSockets
  <2>3. filled' \in BOOLEAN
    BY <1>5 DEF Sweep, CloseSockets
  <2> QED
    BY <1>5, <2>1, <2>2, <2>3 DEF Sweep, TypeOK, lockVars, dnsVars
<1>6. CASE DeviceTakes \/ DeviceEnds
  <2>1. out' \in 0 .. Depth /\ device' \in BOOLEAN /\ inn' = inn /\ inbound' = inbound
    <3>1. 0 \in 0 .. Depth
      OBVIOUS
    <3>2. device \in BOOLEAN
      BY DEF TypeOK
    <3> QED
      BY <1>6, <3>1, <3>2 DEF DeviceTakes, DeviceEnds
  <2>2. UNCHANGED <<taskVars, sockVars, dnsVars, pumpVars>>
    BY <1>6 DEF DeviceTakes, DeviceEnds
  <2> QED
    BY <2>1, <2>2 DEF TypeOK, taskVars, lockVars, sockVars, dnsVars, pumpVars
<1>7. ASSUME NEW k \in {"udp", "stray"}, DeviceSends(k) PROVE TypeOK'
  <2>1. Append(inn, k) \in Seq({"udp", "stray"})
    BY AppendProperties DEF TypeOK
  <2> QED
    BY <1>7, <2>1 DEF DeviceSends, TypeOK, taskVars, lockVars, sockVars, dnsVars, pumpVars
<1>8. CASE UNCHANGED vars
  BY <1>8 DEF vars, TypeOK, taskVars, lockVars, sockVars, dnsVars, linkVars, pumpVars
<1> QED
  BY <1>1, <1>2, <1>3, <1>4, <1>5, <1>6, <1>7, <1>8 DEF Next, PumpNext, LinkNext

\* What the steps of the pump and of the device leave alone.
LEMMA PumpKeeps ==
    (PumpNext \/ LinkNext \/ UNCHANGED vars) => UNCHANGED <<pc, lockVars, dnsVars>>
BY DEF PumpNext, LinkNext, Poll, Receive, Woken, Sleep, Leave, SetStopped, Sweep, DeviceTakes,
       DeviceSends, DeviceEnds, vars, taskVars, lockVars, sockVars, dnsVars, linkVars, pumpVars

\* Only a poll of the pump touches the DNS slots.
LEMMA PumpSlots ==
    ASSUME TypeOK, PumpNext \/ LinkNext \/ UNCHANGED vars
    PROVE  \A s \in Slots : slot'[s] = "free" <=> slot[s] = "free"
<1>1. ASSUME NEW n \in 0 .. tx, NEW qs \in SUBSET Unsent, NEW done \in SUBSET Pending,
             Poll(n, qs, done)
      PROVE  \A s \in Slots : slot'[s] = "free" <=> slot[s] = "free"
  BY <1>1 DEF Poll, Unsent, Pending
<1>2. CASE ~(\E n \in 0 .. tx, qs \in SUBSET Unsent, done \in SUBSET Pending : Poll(n, qs, done))
  BY <1>2 DEF PumpNext, LinkNext, Receive, Woken, Sleep, Leave, SetStopped, Sweep, DeviceTakes,
       DeviceSends, DeviceEnds, vars, taskVars, lockVars, sockVars, dnsVars, linkVars, pumpVars
<1> QED
  BY <1>1, <1>2

\* The locks of the two directions are held through every step.
LEMMA LockNext == TypeOK /\ LockInv /\ [Next]_vars => LockInv'
<1> SUFFICES ASSUME TypeOK, LockInv, [Next]_vars PROVE LockInv'
  OBVIOUS
<1>1. ASSUME NEW p \in Tasks, TaskNext(p) PROVE LockInv'
  <2> USE IoAssumption DEF TypeOK, LockInv, Goto, Unlock, Tasks, lockVars
  <2>1. CASE \E z \in Sizes : LockSend(p, z)
    BY <2>1 DEF LockSend, MaySend
  <2>2. CASE LockRecv(p)
    BY <2>2 DEF LockRecv
  <2>3. CASE Repoll(p)
    BY <2>3 DEF Repoll
  <2>4. CASE Refuse(p)
    BY <2>4 DEF Refuse
  <2>5. CASE Send(p)
    BY <2>5 DEF Send, MaySend, Park
  <2>6. CASE Recv(p)
    BY <2>6 DEF Recv, Park
  <2>7. CASE RingPump(p)
    BY <2>7 DEF RingPump, Ring
  <2>8. CASE Drop(p)
    BY <2>8 DEF Drop
  <2>9. CASE Permit(p)
    BY <2>9 DEF Permit
  <2>10. CASE \E s \in Slots : StartQuery(p, s)
    BY <2>10 DEF StartQuery
  <2>11. CASE BadName(p)
    BY <2>11 DEF BadName
  <2>12. CASE QueryResult(p)
    BY <2>12 DEF QueryResult, Park
  <2>13. CASE Deadline(p)
    BY <2>13 DEF Deadline, EarlyCancel
  <2>14. CASE CancelQuery(p)
    BY <2>14 DEF CancelQuery
  <2>15. CASE Release(p)
    BY <2>15 DEF Release
  <2> QED
    BY <1>1, <2>1, <2>2, <2>3, <2>4, <2>5, <2>6, <2>7, <2>8, <2>9, <2>10, <2>11, <2>12,
       <2>13, <2>14, <2>15 DEF TaskNext
<1>2. CASE PumpNext \/ LinkNext \/ UNCHANGED vars
  BY <1>2, PumpKeeps DEF LockInv, lockVars
<1> QED
  BY <1>1, <1>2 DEF Next

\* The slots in use stay those of the queries.
LEMMA QueryNext == TypeOK /\ QueryInv /\ [Next]_vars => QueryInv'
<1> SUFFICES ASSUME TypeOK, QueryInv, [Next]_vars PROVE QueryInv'
  OBVIOUS
<1>1. ASSUME NEW p \in Tasks, TaskNext(p) PROVE QueryInv'
  <2> USE IoAssumption DEF TypeOK, QueryInv, Goto, Tasks, sockVars, dnsVars
  <2>1. CASE \E z \in Sizes : LockSend(p, z)
    BY <2>1 DEF LockSend, MaySend
  <2>2. CASE LockRecv(p)
    BY <2>2 DEF LockRecv
  <2>3. CASE Repoll(p)
    BY <2>3 DEF Repoll
  <2>4. CASE Refuse(p)
    BY <2>4 DEF Refuse
  <2>5. CASE Send(p)
    BY <2>5 DEF Send, MaySend, Park
  <2>6. CASE Recv(p)
    BY <2>6 DEF Recv, Park
  <2>7. CASE RingPump(p)
    BY <2>7 DEF RingPump, Ring
  <2>8. CASE Drop(p)
    BY <2>8 DEF Drop
  <2>9. CASE Permit(p)
    BY <2>9 DEF Permit
  <2>10. CASE \E s \in Slots : StartQuery(p, s)
    <3>1. PICK s \in Slots : StartQuery(p, s)
      BY <2>10
    <3>2. p \in Resolvers /\ pc[p] = "start" /\ slot[s] = "free" /\ s # NoSlot
      BY <3>1 DEF StartQuery, FreeSlots
    <3>3. \A r \in Resolvers : query[r] # s
      BY <3>2
    <3>4. /\ query' = [query EXCEPT ![p] = s] /\ slot' = [slot EXCEPT ![s] = "unsent"]
          /\ pc' = [pc EXCEPT ![p] = "ring"] /\ permits' = permits
      BY <3>1 DEF StartQuery
    <3>5. \A q \in Resolvers :
            /\ pc'[q] # "idle" => q \in permits'
            /\ pc'[q] \in {"try", "parked", "cancel"} => query'[q] # NoSlot
            /\ pc'[q] \in {"idle", "start", "release"} => query'[q] = NoSlot
      BY <3>2, <3>4
    <3>6. \A q \in Resolvers : query'[q] # NoSlot => slot'[query'[q]] # "free"
      BY <3>2, <3>3, <3>4
    <3>7. \A q, r \in Resolvers : query'[q] # NoSlot /\ query'[r] = query'[q] => r = q
      BY <3>2, <3>3, <3>4
    <3>8. \A x \in Slots : slot'[x] # "free" => \E q \in Resolvers : query'[q] = x
      <4>1. SUFFICES ASSUME NEW x \in Slots, slot'[x] # "free" PROVE \E q \in Resolvers : query'[q] = x
        OBVIOUS
      <4>2. CASE x = s
        BY <3>2, <3>4, <4>2
      <4>3. CASE x # s
        <5>1. PICK q \in Resolvers : query[q] = x
          BY <3>4, <4>1, <4>3
        <5>2. q # p
          BY <3>2, <5>1
        <5> QED
          BY <3>4, <5>1, <5>2
      <4> QED
        BY <4>2, <4>3
    <3> QED
      BY <3>5, <3>6, <3>7, <3>8
  <2>11. CASE BadName(p)
    BY <2>11 DEF BadName
  <2>12. CASE QueryResult(p)
    <3>1. CASE slot[query[p]] = "answered"
      <4>1. /\ p \in Resolvers /\ pc[p] = "try" /\ permits' = permits
            /\ slot' = [slot EXCEPT ![query[p]] = "free"]
            /\ query' = [query EXCEPT ![p] = NoSlot] /\ pc' = [pc EXCEPT ![p] = "release"]
        BY <2>12, <3>1 DEF QueryResult
      <4>2. query[p] \in Slots /\ \A r \in Resolvers : query[r] = query[p] => r = p
        BY <4>1
      <4>3. \A q \in Resolvers :
              /\ pc'[q] # "idle" => q \in permits'
              /\ pc'[q] \in {"try", "parked", "cancel"} => query'[q] # NoSlot
              /\ pc'[q] \in {"idle", "start", "release"} => query'[q] = NoSlot
        BY <4>1
      <4>4. \A q \in Resolvers : query'[q] # NoSlot => slot'[query'[q]] # "free"
        BY <4>1, <4>2
      <4>5. \A q, r \in Resolvers : query'[q] # NoSlot /\ query'[r] = query'[q] => r = q
        BY <4>1
      <4>6. \A x \in Slots : slot'[x] # "free" => \E q \in Resolvers : query'[q] = x
        <5> SUFFICES ASSUME NEW x \in Slots, slot'[x] # "free"
                     PROVE  \E q \in Resolvers : query'[q] = x
          OBVIOUS
        <5>1. x # query[p] /\ slot[x] # "free"
          BY <4>1, <4>2
        <5>2. PICK q \in Resolvers : query[q] = x
          BY <5>1
        <5> QED
          BY <4>1, <5>1, <5>2
      <4> QED
        BY <4>3, <4>4, <4>5, <4>6
    <3>2. CASE slot[query[p]] # "answered"
      BY <2>12, <3>2 DEF QueryResult, Park
    <3> QED
      BY <3>1, <3>2
  <2>13. CASE Deadline(p)
    BY <2>13 DEF Deadline, EarlyCancel
  <2>14. CASE CancelQuery(p)
    BY <2>14 DEF CancelQuery
  <2>15. CASE Release(p)
    BY <2>15 DEF Release
  <2> QED
    BY <1>1, <2>1, <2>2, <2>3, <2>4, <2>5, <2>6, <2>7, <2>8, <2>9, <2>10, <2>11, <2>12,
       <2>13, <2>14, <2>15 DEF TaskNext
<1>2. CASE PumpNext \/ LinkNext \/ UNCHANGED vars
  <2>1. \A s \in Slots : slot'[s] = "free" <=> slot[s] = "free"
    BY <1>2, PumpSlots
  <2> QED
    BY <1>2, <2>1, PumpKeeps DEF QueryInv, TypeOK, dnsVars
<1> QED
  BY <1>1, <1>2 DEF Next

\* No step gives out more permits than there are slots.
LEMMA PermitNext == TypeOK /\ PermitInv /\ [Next]_vars => PermitInv'
<1> SUFFICES ASSUME TypeOK, PermitInv, [Next]_vars PROVE PermitInv'
  OBVIOUS
<1>1. IsFiniteSet(permits)
  <2>1. permits \in SUBSET Tasks
    BY DEF TypeOK, Tasks
  <2> QED
    BY <2>1, FS_Subset, IoAssumption
<1>2. Cardinality(permits) \in Nat /\ Cardinality(Slots) \in Nat
  BY <1>1, FS_CardinalityType, IoAssumption
<1>3. ASSUME NEW q \in Resolvers, Permit(q) PROVE PermitInv'
  <2>1. permits' = permits \cup {q} /\ Cardinality(permits) < Cardinality(Slots)
    BY <1>3 DEF Permit
  <2>2. Cardinality(permits') <= Cardinality(permits) + 1
    <3>1. Cardinality(permits \cup {q}) = IF q \in permits THEN Cardinality(permits)
                                         ELSE Cardinality(permits) + 1
      BY <1>1, FS_AddElement
    <3>2. PICK c \in Nat : c = Cardinality(permits)
      BY <1>2
    <3> QED
      BY <2>1, <3>1, <3>2
  <2>3. Cardinality(permits') \in Nat
    BY <1>1, <2>1, FS_AddElement, FS_CardinalityType
  <2> QED
    BY <1>2, <2>1, <2>2, <2>3 DEF PermitInv
<1>4. ASSUME NEW q \in Resolvers, Release(q) PROVE PermitInv'
  <2>1. permits' \in SUBSET permits
    BY <1>4 DEF Release
  <2>2. Cardinality(permits') <= Cardinality(permits) /\ IsFiniteSet(permits')
    BY <1>1, <2>1, FS_Subset
  <2>3. Cardinality(permits') \in Nat
    BY <2>2, FS_CardinalityType
  <2> QED
    BY <1>2, <2>2, <2>3 DEF PermitInv
<1>5. CASE UNCHANGED permits
  BY <1>5 DEF PermitInv
<1>6. ASSUME NEW p \in Tasks, TaskNext(p)
      PROVE  UNCHANGED permits \/ (p \in Resolvers /\ (Permit(p) \/ Release(p)))
  BY <1>6 DEF TaskNext, LockSend, LockRecv, Repoll, Refuse, Send, Recv, RingPump, Drop, StartQuery,
     BadName, QueryResult, Deadline, EarlyCancel, CancelQuery, Permit, Release, dnsVars
<1> QED
  BY <1>3, <1>4, <1>5, <1>6, PumpKeeps DEF Next, dnsVars

\* The pump's end comes after the flag, which is never taken back.
LEMMA StopNext == StopInv /\ [Next]_vars => StopInv'
<1> SUFFICES ASSUME StopInv, [Next]_vars PROVE StopInv'
  OBVIOUS
<1>1. ASSUME NEW p \in Tasks, TaskNext(p) PROVE UNCHANGED <<pump, stopped>>
  BY <1>1 DEF TaskNext, LockSend, LockRecv, Repoll, Refuse, Send, Recv, RingPump, Drop, StartQuery,
     BadName, QueryResult, Deadline, CancelQuery, Permit, Release, pumpVars
<1>2. CASE PumpNext \/ LinkNext \/ UNCHANGED vars
  BY <1>2 DEF StopInv, PumpNext, LinkNext, Poll, Receive, Woken, Sleep, Leave, SetStopped, Sweep,
     DeviceTakes, DeviceSends, DeviceEnds, vars, pumpVars
<1> QED
  BY <1>1, <1>2 DEF Next, StopInv

\* What is queued for the pump is announced to it, or about to be.
LEMMA WorkNext == TypeOK /\ WorkSeen /\ [Next]_vars => WorkSeen'
<1> SUFFICES ASSUME TypeOK, WorkSeen, [Next]_vars PROVE WorkSeen'
  OBVIOUS
<1> USE DEF WorkSeen, Unsent
<1>1. ASSUME NEW p \in Tasks, TaskNext(p) PROVE WorkSeen'
  <2> USE IoAssumption DEF TypeOK, Goto, Tasks, sockVars, pumpVars
  <2>1. CASE \E z \in Sizes : LockSend(p, z)
    BY <2>1 DEF LockSend, MaySend
  <2>2. CASE LockRecv(p)
    BY <2>2 DEF LockRecv
  <2>3. CASE Repoll(p)
    BY <2>3 DEF Repoll
  <2>4. CASE Refuse(p)
    BY <2>4 DEF Refuse
  <2>5. CASE Send(p)
    BY <2>5 DEF Send, Park
  <2>6. CASE Recv(p)
    BY <2>6 DEF Recv, Park
  <2>7. CASE RingPump(p)
    BY <2>7 DEF RingPump, Ring
  <2>8. CASE Drop(p)
    BY <2>8 DEF Drop
  <2>9. CASE Permit(p)
    BY <2>9 DEF Permit
  <2>10. CASE \E s \in Slots : StartQuery(p, s)
    BY <2>10 DEF StartQuery
  <2>11. CASE BadName(p)
    BY <2>11 DEF BadName
  <2>12. CASE QueryResult(p)
    BY <2>12 DEF QueryResult, Park
  <2>13. CASE Deadline(p)
    BY <2>13 DEF Deadline, EarlyCancel
  <2>14. CASE CancelQuery(p)
    BY <2>14 DEF CancelQuery
  <2>15. CASE Release(p)
    BY <2>15 DEF Release
  <2> QED
    BY <1>1, <2>1, <2>2, <2>3, <2>4, <2>5, <2>6, <2>7, <2>8, <2>9, <2>10, <2>11, <2>12,
       <2>13, <2>14, <2>15 DEF TaskNext
<1>2. ASSUME NEW n \in 0 .. tx, NEW qs \in SUBSET Unsent, NEW done \in SUBSET Pending,
             Poll(n, qs, done)
      PROVE  WorkSeen'
  BY <1>2 DEF Poll, NextPoll
<1>3. CASE Receive \/ Woken \/ Sleep \/ Leave \/ SetStopped \/ Sweep
  BY <1>3 DEF Receive, Woken, Sleep, Leave, SetStopped, Sweep
<1>4. CASE LinkNext \/ UNCHANGED vars
  BY <1>4 DEF LinkNext, DeviceTakes, DeviceSends, DeviceEnds, vars, taskVars, lockVars, sockVars, pumpVars
<1> QED
  BY <1>1, <1>2, <1>3, <1>4 DEF Next, PumpNext

\* A poll calls the wakers of every task whose wait it ends.
LEMMA PollWakes ==
    ASSUME TypeOK, LockInv, QueryInv, StopInv, NoStrandedTask,
           NEW n \in 0 .. tx, NEW qs \in SUBSET Unsent, NEW done \in SUBSET Pending,
           Poll(n, qs, done)
    PROVE  NoStrandedTask'
<1> SUFFICES ASSUME NEW x \in Tasks, pc'[x] = "parked", x \notin woken'
             PROVE  waker'[Direction(x)'] = x /\ ~Ready(x)'
  BY DEF NoStrandedTask
<1> DEFINE ws == {"tx" : y \in 1 .. n} \cup {"rx" : y \in 1 .. rx' - rx} \cup done
<1>1. /\ woken' = woken \cup {y \in Tasks : pc[y] = "parked" /\ \E w \in ws : waker[w] = y}
      /\ waker' = [w \in Wakers |-> IF w \in ws THEN NoTask ELSE waker[w]]
      /\ pc' = pc /\ query' = query /\ pump' # "done" /\ pump # "done"
  BY DEF Poll, Wake, dnsVars
<1>2. pc[x] = "parked" /\ x \notin woken /\ waker[Direction(x)] = x /\ ~Ready(x)
  BY <1>1 DEF NoStrandedTask
<1>3. Direction(x) \notin ws
  BY <1>1, <1>2
<1>4. Direction(x) \in Wakers /\ Direction(x)' = Direction(x)
  BY <1>1, <1>2 DEF Direction, Wakers, QueryInv, TypeOK, Tasks
<1>5. waker'[Direction(x)'] = x
  BY <1>1, <1>2, <1>3, <1>4
<1>6. CASE x \in Senders
  <2>1. n = 0
    <3>1. Direction(x) = "tx"
      BY <1>6 DEF Direction
    <3>2. n \in Nat
      BY DEF TypeOK
    <3>3. n >= 1 => "tx" \in ws
      BY <3>2
    <3> QED
      BY <1>3, <3>1, <3>2, <3>3
  <2>2. tx' = tx /\ filled' = filled /\ size' = size
    BY <2>1 DEF Poll, TypeOK, lockVars
  <2>3. x \notin Receivers /\ x \notin Resolvers
    BY <1>6, IoAssumption
  <2> QED
    BY <1>1, <1>2, <1>5, <1>6, <2>2, <2>3 DEF Ready, Fits
<1>7. CASE x \in Receivers
  <2>1. x \notin Senders /\ x \notin Resolvers
    BY <1>7, IoAssumption
  <2>2. PICK c \in Nat : c = Count("udp")
    BY CountNat
  <2>3. rx' = Smaller(Room, rx + c)
    BY <2>2 DEF Poll
  <2>4. rx' \in Nat /\ rx' >= rx
    BY <2>3, IoAssumption DEF Smaller, TypeOK
  <2>5. ~(rx' > rx)
    <3>1. Direction(x) = "rx"
      BY <1>7, <2>1 DEF Direction
    <3>2. rx' > rx => "rx" \in ws
      <4>1. rx' > rx => 1 \in 1 .. rx' - rx
        <5>1. rx \in Nat
          BY IoAssumption DEF TypeOK
        <5>2. PICK a \in Nat, b \in Nat : a = rx' /\ b = rx
          BY <2>4, <5>1
        <5>3. a > b => 1 \in 1 .. a - b
          OBVIOUS
        <5> QED
          BY <5>2, <5>3
      <4> QED
        BY <4>1
    <3> QED
      BY <1>3, <3>1, <3>2
  <2>6. rx' = rx
    BY <2>4, <2>5 DEF TypeOK
  <2> QED
    BY <1>1, <1>2, <1>5, <1>7, <2>1, <2>6 DEF Ready
<1>8. CASE x \in Resolvers
  <2>1. x \notin Senders /\ x \notin Receivers
    BY <1>8, IoAssumption
  <2>2. query[x] \in Slots /\ query[x] \notin done /\ slot[query[x]] # "answered"
    BY <1>2, <1>3, <1>8, <2>1 DEF Direction, QueryInv, TypeOK, Ready
  <2>3. slot'[query[x]] # "answered"
    BY <2>2 DEF Poll
  <2> QED
    BY <1>1, <1>5, <1>8, <2>1, <2>3 DEF Ready
<1> QED
  BY <1>6, <1>7, <1>8 DEF Tasks

\* No step leaves a task parked beside what it waits for.
LEMMA StrandNext ==
    TypeOK /\ LockInv /\ QueryInv /\ StopInv /\ NoStrandedTask /\ [Next]_vars => NoStrandedTask'
<1> SUFFICES ASSUME TypeOK, LockInv, QueryInv, StopInv, NoStrandedTask, [Next]_vars
             PROVE  NoStrandedTask'
  OBVIOUS
<1>1. ASSUME NEW p \in Tasks, TaskNext(p) PROVE NoStrandedTask'
  <2> SUFFICES ASSUME NEW x \in Tasks, pc'[x] = "parked", x \notin woken'
               PROVE  waker'[Direction(x)'] = x /\ ~Ready(x)'
    BY DEF NoStrandedTask
  <2> USE IoAssumption DEF TypeOK, LockInv, QueryInv, StopInv, NoStrandedTask, Direction, Ready, Goto, Tasks,
      lockVars, sockVars, dnsVars, pumpVars
  <2>0. ASSUME x \in Senders, UNCHANGED <<tx, filled>>, size'[x] = size[x] PROVE Fits(x)' = Fits(x)
    BY <2>0 DEF Fits
  <2>1. CASE \E z \in Sizes : LockSend(p, z)
    BY <2>1 DEF LockSend, MaySend
  <2>2. CASE LockRecv(p)
    BY <2>0, <2>2 DEF LockRecv
  <2>3. CASE Repoll(p)
    BY <2>0, <2>3 DEF Repoll
  <2>4. CASE Refuse(p)
    BY <2>0, <2>4 DEF Refuse, Unlock
  <2>5. CASE Send(p)
    <3>1. CASE Fits(p)
      <4>1. x # p /\ x \notin Senders
        BY <2>5, <3>1 DEF Send
      <4> QED
        BY <2>5, <3>1, <4>1 DEF Send
    <3>2. CASE ~Fits(p) /\ x = p
      <4>1. waker'["tx"] = x /\ UNCHANGED <<tx, filled, size, pump>>
        BY <2>5, <3>2 DEF Send, Park, Wakers
      <4>2. ~Fits(x)' /\ x \in Senders /\ x \notin Receivers /\ x \notin Resolvers
        BY <2>0, <2>5, <3>2, <4>1 DEF Send
      <4>3. pump' # "done"
        BY <2>5, <4>1 DEF Send
      <4> QED
        BY <4>1, <4>2, <4>3
    <3>3. CASE ~Fits(p) /\ x # p
      <4>1. x \notin Senders
        BY <2>5, <3>3 DEF Send, Park
      <4> QED
        <5>1. pc[x] = "parked" /\ x \notin woken /\ waker[Direction(x)] = x /\ ~Ready(x)
          BY <2>5, <3>3 DEF Send, Park
        <5>2. Direction(x) \in Wakers /\ Direction(x) # "tx"
          BY <4>1, <5>1 DEF Wakers
        <5>3. waker'[Direction(x)] = x
          BY <2>5, <3>3, <5>1, <5>2 DEF Send, Park
        <5>4. UNCHANGED <<rx, slot, query, pump>>
          BY <2>5, <3>3 DEF Send
        <5> QED
          BY <4>1, <5>1, <5>3, <5>4
    <3> QED
      BY <3>1, <3>2, <3>3
  <2>6. CASE Recv(p)
    <3>1. CASE rx > 0
      <4>1. x # p /\ x \notin Receivers /\ pc[x] = "parked" /\ x \notin woken /\ waker' = waker
        BY <2>6, <3>1 DEF Recv
      <4>2. UNCHANGED <<tx, filled, slot, query, pump>> /\ (x \in Senders => size'[x] = size[x])
        BY <2>6, <3>1, <4>1 DEF Recv, Unlock
      <4> QED
        BY <2>0, <4>1, <4>2
    <3>2. CASE ~(rx > 0) /\ x = p
      BY <2>6, <3>2 DEF Recv, Park, Wakers
    <3>3. CASE ~(rx > 0) /\ x # p
      <4>1. x \notin Receivers
        BY <2>6, <3>3 DEF Recv, Park
      <4>2. pc[x] = "parked" /\ x \notin woken /\ waker[Direction(x)] = x /\ ~Ready(x)
        BY <2>6, <3>3 DEF Recv, Park
      <4>3. Direction(x) \in Wakers /\ Direction(x) # "rx"
        BY <4>1, <4>2 DEF Wakers
      <4>4. waker'[Direction(x)] = x
        BY <2>6, <3>3, <4>2, <4>3 DEF Recv, Park
      <4>5. UNCHANGED <<tx, filled, size, slot, query, pump>>
        BY <2>6, <3>3 DEF Recv
      <4> QED
        BY <2>0, <4>1, <4>2, <4>4, <4>5
    <3> QED
      BY <3>1, <3>2, <3>3
  <2>7. CASE RingPump(p)
    BY <2>0, <2>7 DEF RingPump, Ring, Unlock
  <2>8. CASE Drop(p)
    BY <2>0, <2>8 DEF Drop, Unlock
  <2>9. CASE Permit(p)
    BY <2>0, <2>9 DEF Permit
  <2>10. CASE \E s \in Slots : StartQuery(p, s)
    BY <2>0, <2>10 DEF StartQuery, FreeSlots, Wakers
  <2>11. CASE BadName(p)
    BY <2>0, <2>11 DEF BadName
  <2>12. CASE QueryResult(p)
    <3>1. CASE slot[query[p]] = "answered"
      <4>1. x # p /\ (x \in Resolvers => query[x] # query[p])
        BY <2>12, <3>1 DEF QueryResult
      <4>2. pc[x] = "parked" /\ x \notin woken /\ waker' = waker
        BY <2>12, <3>1, <4>1 DEF QueryResult
      <4> QED
        BY <2>0, <2>12, <3>1, <4>1, <4>2 DEF QueryResult
    <3>2. CASE slot[query[p]] # "answered" /\ x = p
      BY <2>12, <3>2 DEF QueryResult, Park, Wakers
    <3>3. CASE slot[query[p]] # "answered" /\ x # p
      <4>1. x \in Resolvers => query[x] # query[p]
        BY <2>12, <3>3 DEF QueryResult, Park
      <4> QED
        <5>1. pc[x] = "parked" /\ x \notin woken /\ waker[Direction(x)] = x /\ ~Ready(x)
          BY <2>12, <3>3 DEF QueryResult, Park
        <5>2. Direction(x) \in Wakers /\ Direction(x) # query[p]
          BY <2>12, <4>1, <5>1 DEF QueryResult, Wakers
        <5>3. waker'[Direction(x)] = x
          BY <2>12, <3>3, <5>1, <5>2 DEF QueryResult, Park
        <5>4. UNCHANGED <<tx, filled, size, rx, slot, query, pump>>
          BY <2>12, <3>3 DEF QueryResult
        <5> QED
          BY <2>0, <5>1, <5>3, <5>4
    <3> QED
      BY <3>1, <3>2, <3>3
  <2>13. CASE Deadline(p)
    BY <2>0, <2>13 DEF Deadline, EarlyCancel
  <2>14. CASE CancelQuery(p)
    BY <2>0, <2>14 DEF CancelQuery
  <2>15. CASE Release(p)
    BY <2>0, <2>15 DEF Release
  <2> QED
    BY <1>1, <2>1, <2>2, <2>3, <2>4, <2>5, <2>6, <2>7, <2>8, <2>9, <2>10, <2>11, <2>12,
       <2>13, <2>14, <2>15 DEF TaskNext
<1>2. CASE Sweep
  <2> SUFFICES ASSUME NEW x \in Tasks, pc'[x] = "parked", x \notin woken'
               PROVE  waker'[Direction(x)'] = x /\ ~Ready(x)'
    BY DEF NoStrandedTask
  <2> USE IoAssumption DEF Sweep, CloseSockets, Wake
  <2>1. pc[x] = "parked" /\ x \notin woken /\ waker[Direction(x)] = x /\ ~Ready(x)
    BY <1>2 DEF NoStrandedTask
  <2>2. Direction(x) \notin {"tx", "rx"}
    BY <1>2, <2>1
  <2>3. x \in Resolvers /\ x \notin Senders /\ x \notin Receivers /\ query[x] \in Slots
    BY <2>1, <2>2 DEF Direction, Tasks, QueryInv, TypeOK
  <2>4. query' = query /\ slot' = slot /\ waker'[query[x]] = waker[query[x]]
    BY <1>2, <2>2, <2>3 DEF dnsVars, Wakers
  <2> QED
    BY <2>1, <2>3, <2>4 DEF Direction, Ready
<1>3. CASE Receive \/ Woken \/ Sleep \/ Leave \/ SetStopped \/ LinkNext \/ UNCHANGED vars
  <2>1. UNCHANGED <<taskVars, sockVars, query>> /\ (pump' = "done" => pump = "done")
    BY <1>3 DEF Receive, Woken, Sleep, Leave, SetStopped, LinkNext, DeviceTakes, DeviceSends,
       DeviceEnds, vars, dnsVars, pumpVars
  <2> QED
    BY <2>1 DEF NoStrandedTask, Direction, Ready, Fits, taskVars, lockVars, sockVars
<1> QED
  BY <1>1, <1>2, <1>3, PollWakes DEF Next, PumpNext

\* Every step keeps the invariant.
LEMMA IoStep == IoInv /\ [Next]_vars => IoInv'
BY TypeNext, LockNext, QueryNext, PermitNext, StopNext, WorkNext, StrandNext DEF IoInv

(* The invariant holds for any number of tasks and slots: types, the locks   *)
(* of both directions, whose query a DNS slot is, the wakers, and what the   *)
(* pump has been told.                                                       *)
THEOREM IoInvariant == Spec => []IoInv
BY IoInit, IoStep, PTL DEF Spec

(* The state of the packet path keeps its types: no buffer and no channel    *)
(* grows past its depth.                                                     *)
THEOREM IoTypeCorrect == Spec => []TypeOK
<1>1. IoInv => TypeOK
  BY DEF IoInv
<1> QED
  BY <1>1, IoInvariant, PTL

(* No task that sends, receives or resolves is left parked beside what it    *)
(* waits for (udp.rs, WgUdpSocket::send_to and recv_from; stack.rs, query).  *)
THEOREM NobodyStranded == Spec => []NoStrandedTask
<1>1. IoInv => NoStrandedTask
  BY DEF IoInv
<1> QED
  BY <1>1, IoInvariant, PTL

(* The pump never sleeps past work it was not told of (stack.rs, pump).      *)
THEOREM PumpSeesWork == Spec => []WorkSeen
<1>1. IoInv => WorkSeen
  BY DEF IoInv
<1> QED
  BY <1>1, IoInvariant, PTL

\* If every slot were in use, each by a task with a permit, the permits would
\* be more than the slots.
LEMMA FreeSlotLeft ==
    ASSUME TypeOK, QueryInv, PermitInv, NEW q \in Resolvers, pc[q] = "start"
    PROVE  FreeSlots # {}
<1> SUFFICES ASSUME FreeSlots = {} PROVE FALSE
  OBVIOUS
<1>1. \A s \in Slots : \E r \in Resolvers : query[r] = s
  BY DEF FreeSlots, QueryInv
<1> DEFINE T == permits \ {q}
           owner == [s \in Slots |-> CHOOSE r \in Resolvers : query[r] = s]
<1>2. \A s \in Slots : owner[s] \in Resolvers /\ query[owner[s]] = s
  BY <1>1
<1>3. \A s \in Slots : owner[s] \in T
  <2> SUFFICES ASSUME NEW s \in Slots PROVE owner[s] \in T
    OBVIOUS
  <2>1. PICK r \in Resolvers : r = owner[s] /\ query[r] = s
    BY <1>2
  <2>2. query[r] # NoSlot
    BY <2>1, IoAssumption
  <2>3. r # q /\ r \in permits
    BY <2>2 DEF QueryInv
  <2> QED
    BY <2>1, <2>3
<1>4. owner \in Injection(Slots, T)
  <2> HIDE DEF T
  <2>1. owner \in [Slots -> T]
    BY <1>3
  <2>2. \A a, b \in Slots : owner[a] = owner[b] => a = b
    BY <1>2
  <2> HIDE DEF owner
  <2> QED
    BY <2>1, <2>2 DEF Injection, IsInjective
<1>5. IsFiniteSet(permits)
  <2>1. permits \in SUBSET Tasks
    BY DEF TypeOK, Tasks
  <2> QED
    BY <2>1, FS_Subset, IoAssumption
<1>6. q \in permits
  BY DEF QueryInv
<1>7. IsFiniteSet(T) /\ Cardinality(T) = Cardinality(permits) - 1
  BY <1>5, <1>6, FS_RemoveElement
<1>8. Cardinality(Slots) <= Cardinality(T)
  BY <1>4, <1>7, FS_Injection
<1>9. Cardinality(permits) \in Nat /\ Cardinality(Slots) \in Nat
  BY <1>5, IoAssumption, FS_CardinalityType
<1> HIDE DEF T
<1> QED
  BY <1>7, <1>8, <1>9 DEF PermitInv

(* Whoever holds a permit of dns_slots finds a slot of the DNS socket, and   *)
(* every slot in use is the query of one task that has its permit still.     *)
THEOREM PermitsSuffice == Spec => []PermitFindsSlot
<1>1. ASSUME IoInv PROVE PermitFindsSlot
  <2> USE <1>1 DEF IoInv
  <2>1. \A q \in Resolvers : pc[q] = "start" => FreeSlots # {}
    BY FreeSlotLeft
  <2>2. \A s \in Slots \ FreeSlots : \E q \in permits : query[q] = s
    <3> SUFFICES ASSUME NEW s \in Slots \ FreeSlots PROVE \E q \in permits : query[q] = s
      OBVIOUS
    <3>1. PICK q \in Resolvers : query[q] = s
      BY DEF FreeSlots, QueryInv
    <3>2. q \in permits
      BY <3>1, IoAssumption DEF QueryInv
    <3> QED
      BY <3>1, <3>2
  <2>3. \A q \in Resolvers : query[q] # NoSlot =>
            slot[query[q]] # "free" /\ \A r \in Resolvers \ {q} : query[r] # query[q]
    BY DEF QueryInv
  <2> QED
    BY <2>1, <2>2, <2>3 DEF PermitFindsSlot
<1> QED
  BY <1>1, IoInvariant, PTL

=============================================================================
