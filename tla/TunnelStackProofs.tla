------------------------- MODULE TunnelStackProofs -------------------------
(***************************************************************************)
(* Proofs about the tunnel's network stack, for every number of callers,   *)
(* listeners, sockets and slots.                                           *)
(***************************************************************************)
EXTENDS TunnelStack, FiniteSetTheorems, TLAPS

\* A task's handle and its place in the code stay in step.
LEMMA CarryingStep ==
    ASSUME StackInv, [Next]_vars
    PROVE  Carrying'
<1> USE DistinctAssumption DEF StackInv, TypeOK, Carrying, CarryingPcs, Tasks, Procs,
   CallerPcs, AcceptorPcs, PumpPcs, Goto, slotVars, ownVars, listVars, pumpVars
<1>1. ASSUME NEW t \in Tasks, ClaimLoad(t) PROVE Carrying'
  BY <1>1 DEF ClaimLoad
<1>2. ASSUME NEW t \in Tasks, ReclaimUnderPressure(t) PROVE Carrying'
  BY <1>2 DEF ReclaimUnderPressure
<1>3. ASSUME NEW t \in Tasks, ClaimSlot(t) PROVE Carrying'
  BY <1>3 DEF ClaimSlot, HasRoom
<1>4. ASSUME NEW t \in Callers, ReleaseSlot(t) PROVE Carrying'
  BY <1>4 DEF ReleaseSlot, Released
<1>5. ASSUME NEW t \in Callers, SignalFreed(t) PROVE Carrying'
  BY <1>5 DEF SignalFreed, RingAll
<1>6. ASSUME NEW p \in Procs, NEW h \in closing, ReclaimOne(p, h) PROVE Carrying'
  BY <1>6 DEF ReclaimOne, Reclaimable, Discard, Released, AfterRemoval
<1>7. ASSUME NEW p \in Procs, ReclaimRing(p) PROVE Carrying'
  BY <1>7 DEF ReclaimRing, RingAll
<1>8. ASSUME NEW p \in Procs, ReclaimDone(p) PROVE Carrying'
  BY <1>8 DEF ReclaimDone, RingPump
<1>9. ASSUME NEW t \in Callers, Dial(t) PROVE Carrying'
  BY <1>9 DEF Dial
<1>10. ASSUME NEW t \in Callers, BindUdp(t) PROVE Carrying'
  BY <1>10 DEF BindUdp
<1>11. ASSUME NEW t \in Callers, Redial(t) PROVE Carrying'
  BY <1>11 DEF Redial
<1>12. ASSUME NEW t \in Callers, GiveUp(t) PROVE Carrying'
  BY <1>12 DEF GiveUp
<1>13. ASSUME NEW t \in Callers, NEW h \in Handles, StartConnect(t, h) PROVE Carrying'
  BY <1>13 DEF StartConnect, FreeHandles, RingPump
<1>14. ASSUME NEW t \in Callers, PollConnect(t) PROVE Carrying'
  BY <1>14 DEF PollConnect, IsClosed
<1>15. ASSUME NEW t \in Callers, ConnectTimeout(t) PROVE Carrying'
  BY <1>15 DEF ConnectTimeout
<1>16. ASSUME NEW t \in Callers, DiscardFailed(t) PROVE Carrying'
  BY <1>16 DEF DiscardFailed, DiscardMine, Discard, RingPump
<1>17. ASSUME NEW t \in Callers, CancelConnect(t) PROVE Carrying'
  BY <1>17 DEF CancelConnect, DiscardMine, Discard, RingPump
<1>18. ASSUME NEW t \in Callers, NEW h \in Handles, BindSocket(t, h) PROVE Carrying'
  BY <1>18 DEF BindSocket, FreeHandles, RingPump
<1>19. ASSUME NEW t \in Callers, NEW h \in Handles, DropUdp(t, h) PROVE Carrying'
  BY <1>19 DEF DropUdp, Discard, RingPump
<1>20. ASSUME NEW h \in Handles, ShutdownStream(h) PROVE Carrying'
  BY <1>20 DEF ShutdownStream, Close, RingPump
<1>21. ASSUME NEW t \in Callers, NEW h \in Handles, DropStream(t, h) PROVE Carrying'
  BY <1>21 DEF DropStream, Close, RingPump
<1>22. ASSUME NEW t \in Callers, RetireStream(t) PROVE Carrying'
  BY <1>22 DEF RetireStream, Retire, RingPump
<1>23. ASSUME NEW a \in Acceptors, NEW p \in Ports, Listen(a, p) PROVE Carrying'
  BY <1>23 DEF Listen
<1>24. ASSUME NEW a \in Acceptors, BindListener(a) PROVE Carrying'
  BY <1>24 DEF BindListener
<1>25. ASSUME NEW a \in Acceptors, NEW h \in Handles, ListenOne(a, h) PROVE Carrying'
  BY <1>25 DEF ListenOne, FreeHandles, RingPump
<1>26. ASSUME NEW a \in Acceptors, NEW h \in Handles, AcceptReady(a, h) PROVE Carrying'
  BY <1>26 DEF AcceptReady, Take, IsClosed
<1>27. ASSUME NEW a \in Acceptors, AcceptPending(a) PROVE Carrying'
  BY <1>27 DEF AcceptPending, IsClosed
<1>28. ASSUME NEW a \in Acceptors, AcceptStopped(a) PROVE Carrying'
  BY <1>28 DEF AcceptStopped
<1>29. ASSUME NEW a \in Acceptors, KeepAccepted(a) PROVE Carrying'
  BY <1>29 DEF KeepAccepted
<1>30. ASSUME NEW a \in Acceptors, ResetAccepted(a) PROVE Carrying'
  BY <1>30 DEF ResetAccepted, Abort, Retire, RingPump
<1>31. ASSUME NEW a \in Acceptors, DropListener(a) PROVE Carrying'
  BY <1>31 DEF DropListener, RingPump
<1>32. ASSUME NEW h \in Handles, LingerExpires(h) PROVE Carrying'
  BY <1>32 DEF LingerExpires
<1>33. ASSUME NEW w \in Watchers, WatchEnable(w) PROVE Carrying'
  BY <1>33 DEF WatchEnable
<1>34. ASSUME NEW w \in Watchers, WatchCheck(w) PROVE Carrying'
  BY <1>34 DEF WatchCheck
<1>35. ASSUME PumpPoll PROVE Carrying'
  BY <1>35 DEF PumpPoll
<1>36. ASSUME NEW h \in Handles, NEW s \in SockStates, NetEvent(h, s) PROVE Carrying'
  BY <1>36 DEF NetEvent, WakeOwners, Parked, Unpark, SocketsOf, Segments
<1>37. ASSUME PumpReclaim PROVE Carrying'
  BY <1>37 DEF PumpReclaim
<1>38. ASSUME PumpWoken PROVE Carrying'
  BY <1>38 DEF PumpWoken
<1>39. ASSUME PumpInbound PROVE Carrying'
  BY <1>39 DEF PumpInbound
<1>40. ASSUME PumpExit PROVE Carrying'
  BY <1>40 DEF PumpExit
<1>41. ASSUME StopFlag PROVE Carrying'
  BY <1>41 DEF StopFlag
<1>42. ASSUME StopClose PROVE Carrying'
  BY <1>42 DEF StopClose, Abort, Parked, Unpark
<1>43. ASSUME StopNotify PROVE Carrying'
  BY <1>43 DEF StopNotify
<1>44. ASSUME UNCHANGED vars PROVE Carrying'
  BY <1>44 DEF vars
<1> HIDE DEF TypeOK
<1>q. QED
  BY <1>1, <1>2, <1>3, <1>4, <1>5, <1>6, <1>7, <1>8, <1>9, <1>10, <1>11, <1>12, <1>13,
     <1>14, <1>15, <1>16, <1>17, <1>18, <1>19, <1>20, <1>21, <1>22, <1>23, <1>24, <1>25,
     <1>26, <1>27, <1>28, <1>29, <1>30, <1>31, <1>32, <1>33, <1>34, <1>35, <1>36, <1>37,
     <1>38, <1>39, <1>40, <1>41, <1>42, <1>43, <1>44
     DEF Next, CallerStep, CallerChoice, AcceptorStep, AcceptorChoice, PumpStep, Environment

-----------------------------------------------------------------------------
(* Ownership of sockets.  Each step moves one handle from one owner to       *)
(* another, takes a free one or gives one back.                              *)

\* Nothing changes for the owners when no handle changes hands.
LEMMA OwnedQuiet ==
    ASSUME HandlesOwnedOnce, UNCHANGED <<mine, backlog, sock, streams, udps, closing>>
    PROVE  HandlesOwnedOnce'
  BY DEF HandlesOwnedOnce, OwnedBy, Held

\* No step gives a handle two owners, loses it, or removes it under its owner.
LEMMA OwnedStep ==
    ASSUME StackInv, [Next]_vars
    PROVE  HandlesOwnedOnce'
<1> USE DistinctAssumption DEF StackInv, TypeOK, Tasks, Procs, Goto, slotVars, ownVars,
   listVars, pumpVars
<1>1. ASSUME NEW t \in Tasks, ClaimLoad(t) PROVE HandlesOwnedOnce'
  BY <1>1, OwnedQuiet DEF ClaimLoad
<1>2. ASSUME NEW t \in Tasks, ReclaimUnderPressure(t) PROVE HandlesOwnedOnce'
  BY <1>2, OwnedQuiet DEF ReclaimUnderPressure
<1>3. ASSUME NEW t \in Tasks, ClaimSlot(t) PROVE HandlesOwnedOnce'
  BY <1>3, OwnedQuiet DEF ClaimSlot, HasRoom
<1>4. ASSUME NEW t \in Callers, ReleaseSlot(t) PROVE HandlesOwnedOnce'
  BY <1>4, OwnedQuiet DEF ReleaseSlot, Released
<1>5. ASSUME NEW t \in Callers, SignalFreed(t) PROVE HandlesOwnedOnce'
  BY <1>5, OwnedQuiet DEF SignalFreed, RingAll
<1>6. ASSUME NEW p \in Procs, NEW h \in closing, ReclaimOne(p, h) PROVE HandlesOwnedOnce'
  <2>1. \A u \in Tasks : OwnedBy(u)' = OwnedBy(u)
    BY <1>6 DEF OwnedBy, Held, ReclaimOne, Reclaimable, Discard, Released, AfterRemoval
  <2>q. QED
    BY <1>6, <2>1 DEF HandlesOwnedOnce, ReclaimOne, Reclaimable, Discard, Released,
       AfterRemoval
<1>7. ASSUME NEW p \in Procs, ReclaimRing(p) PROVE HandlesOwnedOnce'
  BY <1>7, OwnedQuiet DEF ReclaimRing, RingAll
<1>8. ASSUME NEW p \in Procs, ReclaimDone(p) PROVE HandlesOwnedOnce'
  BY <1>8, OwnedQuiet DEF ReclaimDone, RingPump
<1>9. ASSUME NEW t \in Callers, Dial(t) PROVE HandlesOwnedOnce'
  BY <1>9, OwnedQuiet DEF Dial
<1>10. ASSUME NEW t \in Callers, BindUdp(t) PROVE HandlesOwnedOnce'
  BY <1>10, OwnedQuiet DEF BindUdp
<1>11. ASSUME NEW t \in Callers, Redial(t) PROVE HandlesOwnedOnce'
  BY <1>11, OwnedQuiet DEF Redial
<1>12. ASSUME NEW t \in Callers, GiveUp(t) PROVE HandlesOwnedOnce'
  BY <1>12, OwnedQuiet DEF GiveUp
<1>13. ASSUME NEW t \in Callers, NEW h \in Handles, StartConnect(t, h) PROVE HandlesOwnedOnce'
  <2>1. \A u \in Tasks : OwnedBy(u)' = IF u = t THEN {h} ELSE OwnedBy(u)
    BY <1>13 DEF OwnedBy, Held, Carrying, CarryingPcs, HandlesOwnedOnce, StartConnect,
       FreeHandles, RingPump
  <2>3. h \notin streams \cup udps \cup closing /\ \A u \in Tasks : h \notin OwnedBy(u) /\ OwnedBy(t) = {}
    BY <1>13 DEF HandlesOwnedOnce, OwnedBy, Held, Carrying, CarryingPcs, StartConnect,
       FreeHandles, RingPump
  <2>9. \A g \in Handles : sock'[g] # "Free" <=> g = h \/ sock[g] # "Free"
    BY <1>13 DEF StartConnect, FreeHandles, RingPump
  <2>10. UNCHANGED <<streams, udps, closing>>
    BY <1>13 DEF StartConnect, FreeHandles, RingPump
  <2>4. \A g \in Handles : sock'[g] # "Free" <=>
            g \in (streams \cup udps \cup closing)' \/ \E u \in Tasks : g \in OwnedBy(u)'
    BY <2>1, <2>3, <2>9, <2>10 DEF HandlesOwnedOnce
  <2>5. \A u \in Tasks : OwnedBy(u)' \cap (streams \cup udps \cup closing)' = {}
    BY <1>13, <2>1, <2>3 DEF HandlesOwnedOnce, StartConnect, FreeHandles, RingPump
  <2>6. \A u \in Tasks : \A v \in Tasks \ {u} : OwnedBy(u)' \cap OwnedBy(v)' = {}
    BY <1>13, <2>1, <2>3 DEF HandlesOwnedOnce, StartConnect, FreeHandles, RingPump
  <2>7. \A u \in Acceptors : mine'[u] \notin backlog'[u]
    BY <1>13, <2>3 DEF HandlesOwnedOnce, OwnedBy, Held, Carrying, CarryingPcs, StartConnect,
       FreeHandles, RingPump
  <2>8. (streams \cap udps = {} /\ streams \cap closing = {} /\ udps \cap closing = {})'
    BY <1>13, <2>1, <2>3 DEF HandlesOwnedOnce, StartConnect, FreeHandles, RingPump
  <2>q. QED
    BY <2>8, <1>13, <2>3, <2>4, <2>5, <2>6, <2>7 DEF HandlesOwnedOnce, StartConnect,
       FreeHandles, RingPump
<1>14. ASSUME NEW t \in Callers, PollConnect(t) PROVE HandlesOwnedOnce'
  <2>1. CASE streams' = streams /\ mine' = mine
    <3>1. \A u \in Tasks : OwnedBy(u)' = OwnedBy(u)
      BY <1>14, <2>1 DEF OwnedBy, Held, PollConnect, IsClosed
    <3>q. QED
      BY <1>14, <2>1, <3>1 DEF HandlesOwnedOnce, PollConnect, IsClosed
  <2>2. CASE streams' = streams \cup {mine[t]} /\ mine' = [mine EXCEPT ![t] = NoHandle]
    <3>1. \A u \in Tasks : OwnedBy(u)' = IF u = t THEN {} ELSE OwnedBy(u)
      BY <1>14, <2>2 DEF OwnedBy, Held, PollConnect, IsClosed
    <3>2. OwnedBy(t) = {mine[t]} /\ mine[t] \in Handles
      BY <1>14 DEF OwnedBy, Held, Carrying, CarryingPcs, PollConnect, IsClosed
    <3>q. QED
      BY <1>14, <2>2, <3>1, <3>2 DEF HandlesOwnedOnce, PollConnect, IsClosed
  <2>q. QED
    BY <1>14, <2>1, <2>2 DEF PollConnect
<1>15. ASSUME NEW t \in Callers, ConnectTimeout(t) PROVE HandlesOwnedOnce'
  BY <1>15, OwnedQuiet DEF ConnectTimeout
<1>16. ASSUME NEW t \in Callers, DiscardFailed(t) PROVE HandlesOwnedOnce'
  <2>1. \A u \in Tasks : OwnedBy(u)' = IF u = t THEN {} ELSE OwnedBy(u)
    BY <1>16 DEF OwnedBy, Held, Carrying, CarryingPcs, HandlesOwnedOnce, DiscardFailed,
       DiscardMine, Discard, RingPump
  <2>2. OwnedBy(t) = {mine[t]} /\ mine[t] \in Handles
    BY <1>16 DEF OwnedBy, Held, Carrying, CarryingPcs, DiscardFailed, DiscardMine, Discard,
       RingPump
  <2>q. QED
    BY <1>16, <2>1, <2>2 DEF HandlesOwnedOnce, DiscardFailed, DiscardMine, Discard, RingPump
<1>17. ASSUME NEW t \in Callers, CancelConnect(t) PROVE HandlesOwnedOnce'
  <2>1. \A u \in Tasks : OwnedBy(u)' = IF u = t THEN {} ELSE OwnedBy(u)
    BY <1>17 DEF OwnedBy, Held, Carrying, CarryingPcs, HandlesOwnedOnce, CancelConnect,
       DiscardMine, Discard, RingPump
  <2>2. OwnedBy(t) = {mine[t]} /\ mine[t] \in Handles
    BY <1>17 DEF OwnedBy, Held, Carrying, CarryingPcs, CancelConnect, DiscardMine, Discard,
       RingPump
  <2>q. QED
    BY <1>17, <2>1, <2>2 DEF HandlesOwnedOnce, CancelConnect, DiscardMine, Discard, RingPump
<1>18. ASSUME NEW t \in Callers, NEW h \in Handles, BindSocket(t, h) PROVE HandlesOwnedOnce'
  <2>1. \A u \in Tasks : OwnedBy(u)' = OwnedBy(u)
    BY <1>18 DEF OwnedBy, Held, BindSocket, FreeHandles, RingPump
  <2>q. QED
    BY <1>18, <2>1 DEF HandlesOwnedOnce, BindSocket, FreeHandles, RingPump
<1>19. ASSUME NEW t \in Callers, NEW h \in Handles, DropUdp(t, h) PROVE HandlesOwnedOnce'
  <2>1. \A u \in Tasks : OwnedBy(u)' = OwnedBy(u)
    BY <1>19 DEF OwnedBy, Held, DropUdp, Discard, RingPump
  <2>q. QED
    BY <1>19, <2>1 DEF HandlesOwnedOnce, DropUdp, Discard, RingPump
<1>20. ASSUME NEW h \in Handles, ShutdownStream(h) PROVE HandlesOwnedOnce'
  <2>1. \A u \in Tasks : OwnedBy(u)' = OwnedBy(u)
    BY <1>20 DEF OwnedBy, Held, ShutdownStream, Close, RingPump
  <2>q. QED
    BY <1>20, <2>1 DEF HandlesOwnedOnce, ShutdownStream, Close, RingPump
<1>21. ASSUME NEW t \in Callers, NEW h \in Handles, DropStream(t, h) PROVE HandlesOwnedOnce'
  <2>1. \A u \in Tasks : OwnedBy(u)' = IF u = t THEN {h} ELSE OwnedBy(u)
    BY <1>21 DEF OwnedBy, Held, Carrying, CarryingPcs, HandlesOwnedOnce, DropStream, Close,
       RingPump
  <2>3. OwnedBy(t) = {} /\ \A u \in Tasks : h \notin OwnedBy(u)
    BY <1>21 DEF HandlesOwnedOnce, OwnedBy, Held, Carrying, CarryingPcs, DropStream, Close,
       RingPump
  <2>4. \A g \in Handles : sock'[g] # "Free" <=>
            g \in (streams \cup udps \cup closing)' \/ \E u \in Tasks : g \in OwnedBy(u)'
    BY <1>21, <2>1, <2>3 DEF HandlesOwnedOnce, DropStream, Close, RingPump
  <2>5. \A u \in Tasks : OwnedBy(u)' \cap (streams \cup udps \cup closing)' = {}
    BY <1>21, <2>1, <2>3 DEF HandlesOwnedOnce, DropStream, Close, RingPump
  <2>6. \A u \in Tasks : \A v \in Tasks \ {u} : OwnedBy(u)' \cap OwnedBy(v)' = {}
    BY <1>21, <2>1, <2>3 DEF HandlesOwnedOnce, DropStream, Close, RingPump
  <2>7. \A u \in Acceptors : mine'[u] \notin backlog'[u]
    BY <1>21, <2>3 DEF HandlesOwnedOnce, OwnedBy, Held, Carrying, CarryingPcs, DropStream,
       Close, RingPump
  <2>8. (streams \cap udps = {} /\ streams \cap closing = {} /\ udps \cap closing = {})'
    BY <1>21, <2>1, <2>3 DEF HandlesOwnedOnce, DropStream, Close, RingPump
  <2>q. QED
    BY <2>8, <1>21, <2>3, <2>4, <2>5, <2>6, <2>7 DEF HandlesOwnedOnce, DropStream, Close,
       RingPump
<1>22. ASSUME NEW t \in Callers, RetireStream(t) PROVE HandlesOwnedOnce'
  <2>1. \A u \in Tasks : OwnedBy(u)' = IF u = t THEN {} ELSE OwnedBy(u)
    BY <1>22 DEF OwnedBy, Held, Carrying, CarryingPcs, HandlesOwnedOnce, RetireStream,
       Retire, RingPump
  <2>2. OwnedBy(t) = {mine[t]} /\ mine[t] \in Handles
    BY <1>22 DEF OwnedBy, Held, Carrying, CarryingPcs, RetireStream, Retire, RingPump
  <2>4. \A g \in Handles : sock'[g] # "Free" <=>
            g \in (streams \cup udps \cup closing)' \/ \E u \in Tasks : g \in OwnedBy(u)'
    BY <1>22, <2>1, <2>2 DEF HandlesOwnedOnce, RetireStream, Retire, RingPump
  <2>5. \A u \in Tasks : OwnedBy(u)' \cap (streams \cup udps \cup closing)' = {}
    BY <1>22, <2>1, <2>2 DEF HandlesOwnedOnce, RetireStream, Retire, RingPump
  <2>6. \A u \in Tasks : \A v \in Tasks \ {u} : OwnedBy(u)' \cap OwnedBy(v)' = {}
    BY <1>22, <2>1, <2>2 DEF HandlesOwnedOnce, RetireStream, Retire, RingPump
  <2>7. \A u \in Acceptors : mine'[u] \notin backlog'[u]
    BY <1>22 DEF HandlesOwnedOnce, OwnedBy, Held, Carrying, CarryingPcs, RetireStream,
       Retire, RingPump
  <2>8. (streams \cap udps = {} /\ streams \cap closing = {} /\ udps \cap closing = {})'
    BY <1>22, <2>1, <2>2 DEF HandlesOwnedOnce, RetireStream, Retire, RingPump
  <2>q. QED
    BY <2>8, <1>22, <2>2, <2>4, <2>5, <2>6, <2>7 DEF HandlesOwnedOnce, RetireStream, Retire,
       RingPump
<1>23. ASSUME NEW a \in Acceptors, NEW p \in Ports, Listen(a, p) PROVE HandlesOwnedOnce'
  BY <1>23, OwnedQuiet DEF Listen
<1>24. ASSUME NEW a \in Acceptors, BindListener(a) PROVE HandlesOwnedOnce'
  BY <1>24, OwnedQuiet DEF BindListener
<1>25. ASSUME NEW a \in Acceptors, NEW h \in Handles, ListenOne(a, h) PROVE HandlesOwnedOnce'
  <2>1. \A u \in Tasks : OwnedBy(u)' = IF u = a THEN OwnedBy(u) \cup {h} ELSE OwnedBy(u)
    BY <1>25 DEF OwnedBy, Held, Carrying, CarryingPcs, HandlesOwnedOnce, ListenOne,
       FreeHandles, RingPump
  <2>3. h \notin streams \cup udps \cup closing /\ \A u \in Tasks : h \notin OwnedBy(u)
    BY <1>25 DEF HandlesOwnedOnce, OwnedBy, Held, Carrying, CarryingPcs, ListenOne,
       FreeHandles, RingPump
  <2>4. \A g \in Handles : sock'[g] # "Free" <=>
            g \in (streams \cup udps \cup closing)' \/ \E u \in Tasks : g \in OwnedBy(u)'
    BY <1>25, <2>1, <2>3 DEF HandlesOwnedOnce, ListenOne, FreeHandles, RingPump
  <2>5. \A u \in Tasks : OwnedBy(u)' \cap (streams \cup udps \cup closing)' = {}
    BY <1>25, <2>1, <2>3 DEF HandlesOwnedOnce, ListenOne, FreeHandles, RingPump
  <2>6. \A u \in Tasks : \A v \in Tasks \ {u} : OwnedBy(u)' \cap OwnedBy(v)' = {}
    BY <1>25, <2>1, <2>3 DEF HandlesOwnedOnce, ListenOne, FreeHandles, RingPump
  <2>7. \A u \in Acceptors : mine'[u] \notin backlog'[u]
    BY <1>25, <2>3 DEF HandlesOwnedOnce, OwnedBy, Held, Carrying, CarryingPcs, ListenOne,
       FreeHandles, RingPump
  <2>8. (streams \cap udps = {} /\ streams \cap closing = {} /\ udps \cap closing = {})'
    BY <1>25, <2>1, <2>3 DEF HandlesOwnedOnce, ListenOne, FreeHandles, RingPump
  <2>q. QED
    BY <2>8, <1>25, <2>3, <2>4, <2>5, <2>6, <2>7 DEF HandlesOwnedOnce, ListenOne,
       FreeHandles, RingPump
<1>26. ASSUME NEW a \in Acceptors, NEW h \in Handles, AcceptReady(a, h) PROVE HandlesOwnedOnce'
  <2>1. \A u \in Tasks : OwnedBy(u)' = OwnedBy(u)
    BY <1>26, SMTT(20) DEF OwnedBy, Held, Carrying, CarryingPcs, HandlesOwnedOnce, AcceptReady, Take,
       IsClosed
  <2>3. h \in OwnedBy(a)
    BY <1>26 DEF HandlesOwnedOnce, OwnedBy, Held, Carrying, CarryingPcs, AcceptReady, Take,
       IsClosed
  <2>4. \A g \in Handles : sock'[g] # "Free" <=>
            g \in (streams \cup udps \cup closing)' \/ \E u \in Tasks : g \in OwnedBy(u)'
    BY <1>26, <2>1, <2>3 DEF HandlesOwnedOnce, AcceptReady, Take, IsClosed
  <2>5. \A u \in Tasks : OwnedBy(u)' \cap (streams \cup udps \cup closing)' = {}
    BY <1>26, <2>1, <2>3 DEF HandlesOwnedOnce, AcceptReady, Take, IsClosed
  <2>6. \A u \in Tasks : \A v \in Tasks \ {u} : OwnedBy(u)' \cap OwnedBy(v)' = {}
    BY <1>26, <2>1, <2>3 DEF HandlesOwnedOnce, AcceptReady, Take, IsClosed
  <2>7. \A u \in Acceptors : mine'[u] \notin backlog'[u]
    BY <1>26, <2>3 DEF HandlesOwnedOnce, OwnedBy, Held, Carrying, CarryingPcs, AcceptReady,
       Take, IsClosed
  <2>8. (streams \cap udps = {} /\ streams \cap closing = {} /\ udps \cap closing = {})'
    BY <1>26, <2>1, <2>3 DEF HandlesOwnedOnce, AcceptReady, Take, IsClosed
  <2>q. QED
    BY <2>8, <1>26, <2>3, <2>4, <2>5, <2>6, <2>7 DEF HandlesOwnedOnce, AcceptReady, Take,
       IsClosed
<1>27. ASSUME NEW a \in Acceptors, AcceptPending(a) PROVE HandlesOwnedOnce'
  <2>1. \A u \in Tasks : OwnedBy(u)' = OwnedBy(u)
    BY <1>27 DEF OwnedBy, Held, AcceptPending, IsClosed
  <2>q. QED
    BY <1>27, <2>1 DEF HandlesOwnedOnce, AcceptPending, IsClosed
<1>28. ASSUME NEW a \in Acceptors, AcceptStopped(a) PROVE HandlesOwnedOnce'
  BY <1>28, OwnedQuiet DEF AcceptStopped
<1>29. ASSUME NEW a \in Acceptors, KeepAccepted(a) PROVE HandlesOwnedOnce'
  <2>1. \A u \in Tasks : OwnedBy(u)' = IF u = a THEN backlog[a] ELSE OwnedBy(u)
    BY <1>29 DEF OwnedBy, Held, Carrying, CarryingPcs, HandlesOwnedOnce, KeepAccepted
  <2>2. OwnedBy(a) = backlog[a] \cup {mine[a]} /\ mine[a] \in Handles
    BY <1>29 DEF OwnedBy, Held, Carrying, CarryingPcs, KeepAccepted
  <2>q. QED
    BY <1>29, <2>1, <2>2 DEF HandlesOwnedOnce, KeepAccepted
<1>30. ASSUME NEW a \in Acceptors, ResetAccepted(a) PROVE HandlesOwnedOnce'
  <2>1. \A u \in Tasks : OwnedBy(u)' = IF u = a THEN backlog[a] ELSE OwnedBy(u)
    BY <1>30 DEF OwnedBy, Held, Carrying, CarryingPcs, HandlesOwnedOnce, ResetAccepted,
       Abort, Retire, RingPump
  <2>2. OwnedBy(a) = backlog[a] \cup {mine[a]} /\ mine[a] \in Handles
    BY <1>30 DEF OwnedBy, Held, Carrying, CarryingPcs, ResetAccepted, Abort, Retire,
       RingPump
  <2>4. \A g \in Handles : sock'[g] # "Free" <=>
            g \in (streams \cup udps \cup closing)' \/ \E u \in Tasks : g \in OwnedBy(u)'
    BY <1>30, <2>1, <2>2 DEF HandlesOwnedOnce, ResetAccepted, Abort, Retire, RingPump
  <2>5. \A u \in Tasks : OwnedBy(u)' \cap (streams \cup udps \cup closing)' = {}
    BY <1>30, <2>1, <2>2 DEF HandlesOwnedOnce, ResetAccepted, Abort, Retire, RingPump
  <2>6. \A u \in Tasks : \A v \in Tasks \ {u} : OwnedBy(u)' \cap OwnedBy(v)' = {}
    BY <1>30, <2>1, <2>2 DEF HandlesOwnedOnce, ResetAccepted, Abort, Retire, RingPump
  <2>7. \A u \in Acceptors : mine'[u] \notin backlog'[u]
    BY <1>30 DEF HandlesOwnedOnce, OwnedBy, Held, Carrying, CarryingPcs, ResetAccepted,
       Abort, Retire, RingPump
  <2>8. (streams \cap udps = {} /\ streams \cap closing = {} /\ udps \cap closing = {})'
    BY <1>30, <2>1, <2>2 DEF HandlesOwnedOnce, ResetAccepted, Abort, Retire, RingPump
  <2>q. QED
    BY <2>8, <1>30, <2>2, <2>4, <2>5, <2>6, <2>7 DEF HandlesOwnedOnce, ResetAccepted, Abort,
       Retire, RingPump
<1>31. ASSUME NEW a \in Acceptors, DropListener(a) PROVE HandlesOwnedOnce'
  <2>1. \A u \in Tasks : OwnedBy(u)' = IF u = a THEN {} ELSE OwnedBy(u)
    BY <1>31, SMTT(20) DEF OwnedBy, Held, Carrying, CarryingPcs, HandlesOwnedOnce, DropListener,
       RingPump
  <2>2. OwnedBy(a) = backlog[a]
    BY <1>31 DEF OwnedBy, Held, Carrying, CarryingPcs, DropListener, RingPump
  <2>3. \A g \in Handles : sock'[g] # "Free" <=>
            g \in (streams \cup udps \cup closing)' \/ \E u \in Tasks : g \in OwnedBy(u)'
    BY <1>31, <2>1, <2>2 DEF HandlesOwnedOnce, DropListener, RingPump
  <2>4. \A u \in Tasks : OwnedBy(u)' \cap (streams \cup udps \cup closing)' = {}
    BY <1>31, <2>1, <2>2 DEF HandlesOwnedOnce, DropListener, RingPump
  <2>5. \A u \in Tasks : \A v \in Tasks \ {u} : OwnedBy(u)' \cap OwnedBy(v)' = {}
    BY <2>1 DEF HandlesOwnedOnce
  <2>6. \A u \in Acceptors : mine'[u] \notin backlog'[u]
    BY <1>31 DEF HandlesOwnedOnce, DropListener, RingPump
  <2>7. (streams \cap udps = {} /\ streams \cap closing = {} /\ udps \cap closing = {})'
    BY <1>31, <2>2 DEF HandlesOwnedOnce, DropListener, RingPump
  <2>q. QED
    BY <2>3, <2>4, <2>5, <2>6, <2>7 DEF HandlesOwnedOnce
<1>32. ASSUME NEW h \in Handles, LingerExpires(h) PROVE HandlesOwnedOnce'
  BY <1>32, OwnedQuiet DEF LingerExpires
<1>33. ASSUME NEW w \in Watchers, WatchEnable(w) PROVE HandlesOwnedOnce'
  BY <1>33, OwnedQuiet DEF WatchEnable
<1>34. ASSUME NEW w \in Watchers, WatchCheck(w) PROVE HandlesOwnedOnce'
  BY <1>34, OwnedQuiet DEF WatchCheck
<1>35. ASSUME PumpPoll PROVE HandlesOwnedOnce'
  BY <1>35, OwnedQuiet DEF PumpPoll
<1>36. ASSUME NEW h \in Handles, NEW s \in SockStates, NetEvent(h, s) PROVE HandlesOwnedOnce'
  <2>1. \A u \in Tasks : OwnedBy(u)' = OwnedBy(u)
    BY <1>36 DEF OwnedBy, Held, NetEvent, WakeOwners, Parked, Unpark, SocketsOf, Segments
  <2>q. QED
    BY <1>36, <2>1 DEF HandlesOwnedOnce, NetEvent, WakeOwners, Parked, Unpark, SocketsOf,
       Segments
<1>37. ASSUME PumpReclaim PROVE HandlesOwnedOnce'
  BY <1>37, OwnedQuiet DEF PumpReclaim
<1>38. ASSUME PumpWoken PROVE HandlesOwnedOnce'
  BY <1>38, OwnedQuiet DEF PumpWoken
<1>39. ASSUME PumpInbound PROVE HandlesOwnedOnce'
  BY <1>39, OwnedQuiet DEF PumpInbound
<1>40. ASSUME PumpExit PROVE HandlesOwnedOnce'
  BY <1>40, OwnedQuiet DEF PumpExit
<1>41. ASSUME StopFlag PROVE HandlesOwnedOnce'
  BY <1>41, OwnedQuiet DEF StopFlag
<1>42. ASSUME StopClose PROVE HandlesOwnedOnce'
  <2>1. \A u \in Tasks : OwnedBy(u)' = OwnedBy(u)
    BY <1>42 DEF OwnedBy, Held, StopClose, Abort, Parked, Unpark
  <2>q. QED
    BY <1>42, <2>1 DEF HandlesOwnedOnce, StopClose, Abort, Parked, Unpark
<1>43. ASSUME StopNotify PROVE HandlesOwnedOnce'
  BY <1>43, OwnedQuiet DEF StopNotify
<1>44. ASSUME UNCHANGED vars PROVE HandlesOwnedOnce'
  BY <1>44, OwnedQuiet DEF vars
<1> HIDE DEF TypeOK
<1>q. QED
  BY <1>1, <1>2, <1>3, <1>4, <1>5, <1>6, <1>7, <1>8, <1>9, <1>10, <1>11, <1>12, <1>13,
     <1>14, <1>15, <1>16, <1>17, <1>18, <1>19, <1>20, <1>21, <1>22, <1>23, <1>24, <1>25,
     <1>26, <1>27, <1>28, <1>29, <1>30, <1>31, <1>32, <1>33, <1>34, <1>35, <1>36, <1>37,
     <1>38, <1>39, <1>40, <1>41, <1>42, <1>43, <1>44
     DEF Next, CallerStep, CallerChoice, AcceptorStep, AcceptorChoice, PumpStep, Environment

-----------------------------------------------------------------------------
(* Slots: every step adds one owner, removes one, or moves a slot from one    *)
(* owner to another.                                                         *)

\* The owners of slots are finitely many.
LEMMA ChargedFinite ==
    ASSUME StackInv
    PROVE  IsFiniteSet(Charged)
<1>1. Charged \subseteq Tasks \cup Handles
  BY DEF StackInv, TypeOK, Charged, Holders
<1>q. QED
  BY <1>1, FiniteAssumption, FS_Union, FS_Subset

\* A slot that changes hands leaves the number of slots as it was.
LEMMA SlotMoved ==
    ASSUME NEW S, IsFiniteSet(S), NEW x \in S, NEW y, y \notin S
    PROVE  Cardinality((S \ {x}) \cup {y}) = Cardinality(S)
<1>1. IsFiniteSet(S \ {x}) /\ Cardinality(S \ {x}) = Cardinality(S) - 1
  BY FS_RemoveElement
<1>2. y \notin S \ {x}
  OBVIOUS
<1>3. Cardinality((S \ {x}) \cup {y}) = Cardinality(S \ {x}) + 1
  BY <1>1, <1>2, FS_AddElement
<1>4. Cardinality(S) \in Nat
  BY FS_CardinalityType
<1>q. QED
  BY <1>1, <1>3, <1>4

\* A slot given back is one less, and there was one to give back.
LEMMA SlotGiven ==
    ASSUME NEW S, IsFiniteSet(S), NEW x \in S
    PROVE  /\ Cardinality(S \ {x}) = Cardinality(S) - 1
           /\ Cardinality(S) - 1 \in Nat
<1>1. IsFiniteSet(S \ {x}) /\ Cardinality(S \ {x}) = Cardinality(S) - 1
  BY FS_RemoveElement
<1>2. Cardinality(S \ {x}) \in Nat
  BY <1>1, FS_CardinalityType
<1>q. QED
  BY <1>1, <1>2

\* No step lets the counter and the owners of slots disagree, or passes the cap.
LEMMA SlotsStep ==
    ASSUME StackInv, [Next]_vars
    PROVE  SlotsAccounted' /\ open' \in Nat
<1> USE DistinctAssumption DEF StackInv, TypeOK, Tasks, Procs, Goto, slotVars, ownVars,
   listVars, pumpVars
<1>1. ASSUME NEW t \in Tasks, ClaimLoad(t) PROVE SlotsAccounted' /\ open' \in Nat
  <2>1. Charged' = Charged
    BY <1>1 DEF Charged, Holders, HoldingPcs, CallerPcs, AcceptorPcs, PumpPcs, ClaimLoad
  <2>q. QED
    BY <1>1, <2>1 DEF SlotsAccounted, ClaimLoad
<1>2. ASSUME NEW t \in Tasks, ReclaimUnderPressure(t) PROVE SlotsAccounted' /\ open' \in Nat
  <2>1. Charged' = Charged
    BY <1>2 DEF Charged, Holders, HoldingPcs, CallerPcs, AcceptorPcs, PumpPcs,
       ReclaimUnderPressure
  <2>q. QED
    BY <1>2, <2>1 DEF SlotsAccounted, ReclaimUnderPressure
<1>3. ASSUME NEW t \in Tasks, ClaimSlot(t) PROVE SlotsAccounted' /\ open' \in Nat
  <2>1. CASE ~HasRoom
    <3>1. Charged' = Charged
      BY <1>3, <2>1 DEF Charged, Holders, HoldingPcs, ClaimSlot, HasRoom
    <3>q. QED
      BY <1>3, <2>1, <3>1 DEF SlotsAccounted, ClaimSlot, HasRoom
  <2>2. CASE HasRoom
    <3>1. t \notin Charged /\ Charged' = Charged \cup {t}
      BY <1>3, <2>2 DEF Charged, Holders, HoldingPcs, ClaimSlot, HasRoom
    <3>q. QED
      <4>1. Cardinality(Charged') = Cardinality(Charged) + 1
        BY <3>1, ChargedFinite, FS_AddElement
      <4>q. QED
        BY <1>3, <2>2, <4>1, CapAssumption DEF SlotsAccounted, ClaimSlot, HasRoom
  <2>q. QED
    BY <2>1, <2>2
<1>4. ASSUME NEW t \in Callers, ReleaseSlot(t) PROVE SlotsAccounted' /\ open' \in Nat
  <2>1. t \in Charged /\ Charged' = Charged \ {t}
    BY <1>4 DEF Charged, Holders, HoldingPcs, ReleaseSlot, Released
  <2>q. QED
    BY <1>4, <2>1, ChargedFinite, SlotGiven, CapAssumption DEF SlotsAccounted, ReleaseSlot,
       Released
<1>5. ASSUME NEW t \in Callers, SignalFreed(t) PROVE SlotsAccounted' /\ open' \in Nat
  <2>1. Charged' = Charged
    BY <1>5 DEF Charged, Holders, HoldingPcs, CallerPcs, AcceptorPcs, PumpPcs, SignalFreed,
       RingAll
  <2>q. QED
    BY <1>5, <2>1 DEF SlotsAccounted, SignalFreed, RingAll
<1>6. ASSUME NEW p \in Procs, NEW h \in closing, ReclaimOne(p, h) PROVE SlotsAccounted' /\ open' \in Nat
  <2>0. Holders' = Holders
    BY <1>6 DEF Holders, HoldingPcs, ReclaimOne, Reclaimable, Discard, Released,
       AfterRemoval
  <2>1. CASE h \in uncounted
    <3>1. Charged' = Charged
      BY <1>6, <2>0, <2>1 DEF Charged, ReclaimOne, Reclaimable, Discard, Released,
         AfterRemoval
    <3>q. QED
      BY <1>6, <2>1, <3>1 DEF SlotsAccounted, ReclaimOne, Reclaimable, Discard, Released,
         AfterRemoval
  <2>2. CASE h \notin uncounted
    <3>1. h \in Charged /\ Charged' = Charged \ {h}
      BY <1>6, <2>0, <2>2 DEF Charged, Holders, HoldingPcs, HandlesOwnedOnce, OwnedBy, Held,
         Carrying, CarryingPcs, ReclaimOne, Reclaimable, Discard, Released, AfterRemoval
    <3>q. QED
      <4>1. Cardinality(Charged') = open - 1 /\ open - 1 \in Nat
        BY <3>1, ChargedFinite, SlotGiven DEF SlotsAccounted
      <4>2. open' = open - 1
        BY <1>6, <2>2 DEF ReclaimOne, Released
      <4>q. QED
        BY <4>1, <4>2, CapAssumption DEF SlotsAccounted
  <2>q. QED
    BY <2>1, <2>2
<1>7. ASSUME NEW p \in Procs, ReclaimRing(p) PROVE SlotsAccounted' /\ open' \in Nat
  <2>1. Charged' = Charged
    BY <1>7 DEF Charged, Holders, HoldingPcs, CallerPcs, AcceptorPcs, PumpPcs, ReclaimRing,
       RingAll
  <2>q. QED
    BY <1>7, <2>1 DEF SlotsAccounted, ReclaimRing, RingAll
<1>8. ASSUME NEW p \in Procs, ReclaimDone(p) PROVE SlotsAccounted' /\ open' \in Nat
  <2>1. Charged' = Charged
    BY <1>8 DEF Charged, Holders, HoldingPcs, CallerPcs, AcceptorPcs, PumpPcs, ReclaimDone,
       RingPump
  <2>q. QED
    BY <1>8, <2>1 DEF SlotsAccounted, ReclaimDone, RingPump
<1>9. ASSUME NEW t \in Callers, Dial(t) PROVE SlotsAccounted' /\ open' \in Nat
  <2>1. Charged' = Charged
    BY <1>9 DEF Charged, Holders, HoldingPcs, CallerPcs, AcceptorPcs, PumpPcs, Dial
  <2>q. QED
    BY <1>9, <2>1 DEF SlotsAccounted, Dial
<1>10. ASSUME NEW t \in Callers, BindUdp(t) PROVE SlotsAccounted' /\ open' \in Nat
  <2>1. Charged' = Charged
    BY <1>10 DEF Charged, Holders, HoldingPcs, CallerPcs, AcceptorPcs, PumpPcs, BindUdp
  <2>q. QED
    BY <1>10, <2>1 DEF SlotsAccounted, BindUdp
<1>11. ASSUME NEW t \in Callers, Redial(t) PROVE SlotsAccounted' /\ open' \in Nat
  <2>1. Charged' = Charged
    BY <1>11 DEF Charged, Holders, HoldingPcs, CallerPcs, AcceptorPcs, PumpPcs, Redial
  <2>q. QED
    BY <1>11, <2>1 DEF SlotsAccounted, Redial
<1>12. ASSUME NEW t \in Callers, GiveUp(t) PROVE SlotsAccounted' /\ open' \in Nat
  <2>1. Charged' = Charged
    BY <1>12 DEF Charged, Holders, HoldingPcs, CallerPcs, AcceptorPcs, PumpPcs, GiveUp
  <2>q. QED
    BY <1>12, <2>1 DEF SlotsAccounted, GiveUp
<1>13. ASSUME NEW t \in Callers, NEW h \in Handles, StartConnect(t, h) PROVE SlotsAccounted' /\ open' \in Nat
  <2>1. Charged' = Charged
    BY <1>13 DEF Charged, Holders, HoldingPcs, CallerPcs, AcceptorPcs, PumpPcs,
       StartConnect, FreeHandles, RingPump
  <2>q. QED
    BY <1>13, <2>1 DEF SlotsAccounted, StartConnect, FreeHandles, RingPump
<1>14. ASSUME NEW t \in Callers, PollConnect(t) PROVE SlotsAccounted' /\ open' \in Nat
  <2>1. CASE sock[mine[t]] # "Open"
    <3>1. Charged' = Charged
      BY <1>14, <2>1 DEF Charged, Holders, HoldingPcs, PollConnect, IsClosed
    <3>q. QED
      BY <1>14, <3>1 DEF SlotsAccounted, PollConnect, IsClosed
  <2>2. CASE sock[mine[t]] = "Open"
    <3>1. t \in Charged /\ mine[t] \notin Charged
      BY <1>14 DEF Charged, Holders, HoldingPcs, HandlesOwnedOnce, OwnedBy, Held, Carrying,
         CarryingPcs, PollConnect, IsClosed
    <3>2. Charged' = (Charged \ {t}) \cup {mine[t]}
      BY <1>14, <2>2, <3>1 DEF Charged, Holders, HoldingPcs, PollConnect, IsClosed
    <3>q. QED
      BY <1>14, <3>1, <3>2, ChargedFinite, SlotMoved DEF SlotsAccounted, PollConnect,
         IsClosed
  <2>q. QED
    BY <2>1, <2>2
<1>15. ASSUME NEW t \in Callers, ConnectTimeout(t) PROVE SlotsAccounted' /\ open' \in Nat
  <2>1. Charged' = Charged
    BY <1>15 DEF Charged, Holders, HoldingPcs, CallerPcs, AcceptorPcs, PumpPcs,
       ConnectTimeout
  <2>q. QED
    BY <1>15, <2>1 DEF SlotsAccounted, ConnectTimeout
<1>16. ASSUME NEW t \in Callers, DiscardFailed(t) PROVE SlotsAccounted' /\ open' \in Nat
  <2>1. Charged' = Charged
    BY <1>16 DEF Charged, Holders, HoldingPcs, CallerPcs, AcceptorPcs, PumpPcs,
       DiscardFailed, DiscardMine, Discard, RingPump
  <2>q. QED
    BY <1>16, <2>1 DEF SlotsAccounted, DiscardFailed, DiscardMine, Discard, RingPump
<1>17. ASSUME NEW t \in Callers, CancelConnect(t) PROVE SlotsAccounted' /\ open' \in Nat
  <2>1. Charged' = Charged
    BY <1>17 DEF Charged, Holders, HoldingPcs, CallerPcs, AcceptorPcs, PumpPcs,
       CancelConnect, DiscardMine, Discard, RingPump
  <2>q. QED
    BY <1>17, <2>1 DEF SlotsAccounted, CancelConnect, DiscardMine, Discard, RingPump
<1>18. ASSUME NEW t \in Callers, NEW h \in Handles, BindSocket(t, h) PROVE SlotsAccounted' /\ open' \in Nat
  <2>1. t \in Charged /\ h \notin Charged
    BY <1>18 DEF Charged, Holders, HoldingPcs, HandlesOwnedOnce, OwnedBy, Held, Carrying,
       CarryingPcs, FreeHandles, BindSocket, RingPump
  <2>2. Charged' = (Charged \ {t}) \cup {h}
    BY <1>18, <2>1 DEF Charged, Holders, HoldingPcs, HandlesOwnedOnce, OwnedBy, Held,
       Carrying, CarryingPcs, FreeHandles, BindSocket, RingPump
  <2>q. QED
    BY <1>18, <2>1, <2>2, ChargedFinite, SlotMoved DEF SlotsAccounted, BindSocket,
       FreeHandles, RingPump
<1>19. ASSUME NEW t \in Callers, NEW h \in Handles, DropUdp(t, h) PROVE SlotsAccounted' /\ open' \in Nat
  <2>1. h \in Charged /\ t \notin Charged
    BY <1>19 DEF Charged, Holders, HoldingPcs, HandlesOwnedOnce, OwnedBy, Held, Carrying,
       CarryingPcs, DropUdp, Discard, RingPump
  <2>2. Charged' = (Charged \ {h}) \cup {t}
    BY <1>19, <2>1 DEF Charged, Holders, HoldingPcs, HandlesOwnedOnce, OwnedBy, Held,
       Carrying, CarryingPcs, DropUdp, Discard, RingPump
  <2>q. QED
    BY <1>19, <2>1, <2>2, ChargedFinite, SlotMoved DEF SlotsAccounted, DropUdp, Discard,
       RingPump
<1>20. ASSUME NEW h \in Handles, ShutdownStream(h) PROVE SlotsAccounted' /\ open' \in Nat
  <2>1. Charged' = Charged
    BY <1>20 DEF Charged, Holders, HoldingPcs, CallerPcs, AcceptorPcs, PumpPcs,
       ShutdownStream, Close, RingPump
  <2>q. QED
    BY <1>20, <2>1 DEF SlotsAccounted, ShutdownStream, Close, RingPump
<1>21. ASSUME NEW t \in Callers, NEW h \in Handles, DropStream(t, h) PROVE SlotsAccounted' /\ open' \in Nat
  <2>1. h \in Charged /\ t \notin Charged
    BY <1>21 DEF Charged, Holders, HoldingPcs, HandlesOwnedOnce, OwnedBy, Held, Carrying,
       CarryingPcs, DropStream, Close, RingPump
  <2>2. Charged' = (Charged \ {h}) \cup {t}
    BY <1>21, <2>1 DEF Charged, Holders, HoldingPcs, HandlesOwnedOnce, OwnedBy, Held,
       Carrying, CarryingPcs, DropStream, Close, RingPump
  <2>q. QED
    BY <1>21, <2>1, <2>2, ChargedFinite, SlotMoved DEF SlotsAccounted, DropStream, Close,
       RingPump
<1>22. ASSUME NEW t \in Callers, RetireStream(t) PROVE SlotsAccounted' /\ open' \in Nat
  <2>1. t \in Charged /\ mine[t] \notin Charged
    BY <1>22 DEF Charged, Holders, HoldingPcs, HandlesOwnedOnce, OwnedBy, Held, Carrying,
       CarryingPcs, RetireStream, Retire, RingPump
  <2>2. Charged' = (Charged \ {t}) \cup {mine[t]}
    BY <1>22, <2>1 DEF Charged, Holders, HoldingPcs, HandlesOwnedOnce, OwnedBy, Held,
       Carrying, CarryingPcs, RetireStream, Retire, RingPump
  <2>q. QED
    BY <1>22, <2>1, <2>2, ChargedFinite, SlotMoved DEF SlotsAccounted, RetireStream, Retire,
       RingPump
<1>23. ASSUME NEW a \in Acceptors, NEW p \in Ports, Listen(a, p) PROVE SlotsAccounted' /\ open' \in Nat
  <2>1. Charged' = Charged
    BY <1>23 DEF Charged, Holders, HoldingPcs, CallerPcs, AcceptorPcs, PumpPcs, Listen
  <2>q. QED
    BY <1>23, <2>1 DEF SlotsAccounted, Listen
<1>24. ASSUME NEW a \in Acceptors, BindListener(a) PROVE SlotsAccounted' /\ open' \in Nat
  <2>1. Charged' = Charged
    BY <1>24 DEF Charged, Holders, HoldingPcs, CallerPcs, AcceptorPcs, PumpPcs, BindListener
  <2>q. QED
    BY <1>24, <2>1 DEF SlotsAccounted, BindListener
<1>25. ASSUME NEW a \in Acceptors, NEW h \in Handles, ListenOne(a, h) PROVE SlotsAccounted' /\ open' \in Nat
  <2>1. Charged' = Charged
    BY <1>25 DEF Charged, Holders, HoldingPcs, CallerPcs, AcceptorPcs, PumpPcs, ListenOne,
       FreeHandles, RingPump
  <2>q. QED
    BY <1>25, <2>1 DEF SlotsAccounted, ListenOne, FreeHandles, RingPump
<1>26. ASSUME NEW a \in Acceptors, NEW h \in Handles, AcceptReady(a, h) PROVE SlotsAccounted' /\ open' \in Nat
  <2>1. Charged' = Charged
    BY <1>26 DEF Charged, Holders, HoldingPcs, CallerPcs, AcceptorPcs, PumpPcs, AcceptReady,
       Take, IsClosed
  <2>q. QED
    BY <1>26, <2>1 DEF SlotsAccounted, AcceptReady, Take, IsClosed
<1>27. ASSUME NEW a \in Acceptors, AcceptPending(a) PROVE SlotsAccounted' /\ open' \in Nat
  <2>1. Charged' = Charged
    BY <1>27 DEF Charged, Holders, HoldingPcs, CallerPcs, AcceptorPcs, PumpPcs,
       AcceptPending, IsClosed
  <2>q. QED
    BY <1>27, <2>1 DEF SlotsAccounted, AcceptPending, IsClosed
<1>28. ASSUME NEW a \in Acceptors, AcceptStopped(a) PROVE SlotsAccounted' /\ open' \in Nat
  <2>1. Charged' = Charged
    BY <1>28 DEF Charged, Holders, HoldingPcs, CallerPcs, AcceptorPcs, PumpPcs,
       AcceptStopped
  <2>q. QED
    BY <1>28, <2>1 DEF SlotsAccounted, AcceptStopped
<1>29. ASSUME NEW a \in Acceptors, KeepAccepted(a) PROVE SlotsAccounted' /\ open' \in Nat
  <2>1. a \in Charged /\ mine[a] \notin Charged
    BY <1>29 DEF Charged, Holders, HoldingPcs, HandlesOwnedOnce, OwnedBy, Held, Carrying,
       CarryingPcs, KeepAccepted
  <2>2. Charged' = (Charged \ {a}) \cup {mine[a]}
    BY <1>29, <2>1 DEF Charged, Holders, HoldingPcs, HandlesOwnedOnce, OwnedBy, Held,
       Carrying, CarryingPcs, KeepAccepted
  <2>q. QED
    BY <1>29, <2>1, <2>2, ChargedFinite, SlotMoved DEF SlotsAccounted, KeepAccepted
<1>30. ASSUME NEW a \in Acceptors, ResetAccepted(a) PROVE SlotsAccounted' /\ open' \in Nat
  <2>1. Charged' = Charged
    BY <1>30 DEF Charged, Holders, HoldingPcs, HandlesOwnedOnce, OwnedBy, Held, Carrying,
       CarryingPcs, ResetAccepted, Abort, Retire, RingPump
  <2>q. QED
    BY <1>30, <2>1 DEF SlotsAccounted, ResetAccepted, Abort, Retire, RingPump
<1>31. ASSUME NEW a \in Acceptors, DropListener(a) PROVE SlotsAccounted' /\ open' \in Nat
  <2>1. Charged' = Charged
    BY <1>31 DEF Charged, Holders, HoldingPcs, CallerPcs, AcceptorPcs, PumpPcs,
       DropListener, RingPump
  <2>q. QED
    BY <1>31, <2>1 DEF SlotsAccounted, DropListener, RingPump
<1>32. ASSUME NEW h \in Handles, LingerExpires(h) PROVE SlotsAccounted' /\ open' \in Nat
  <2>1. Charged' = Charged
    BY <1>32 DEF Charged, Holders, HoldingPcs, CallerPcs, AcceptorPcs, PumpPcs,
       LingerExpires
  <2>q. QED
    BY <1>32, <2>1 DEF SlotsAccounted, LingerExpires
<1>33. ASSUME NEW w \in Watchers, WatchEnable(w) PROVE SlotsAccounted' /\ open' \in Nat
  <2>1. Charged' = Charged
    BY <1>33 DEF Charged, Holders, HoldingPcs, CallerPcs, AcceptorPcs, PumpPcs, WatchEnable
  <2>q. QED
    BY <1>33, <2>1 DEF SlotsAccounted, WatchEnable
<1>34. ASSUME NEW w \in Watchers, WatchCheck(w) PROVE SlotsAccounted' /\ open' \in Nat
  <2>1. Charged' = Charged
    BY <1>34 DEF Charged, Holders, HoldingPcs, CallerPcs, AcceptorPcs, PumpPcs, WatchCheck
  <2>q. QED
    BY <1>34, <2>1 DEF SlotsAccounted, WatchCheck
<1>35. ASSUME PumpPoll PROVE SlotsAccounted' /\ open' \in Nat
  <2>1. Charged' = Charged
    BY <1>35 DEF Charged, Holders, HoldingPcs, CallerPcs, AcceptorPcs, PumpPcs, PumpPoll
  <2>q. QED
    BY <1>35, <2>1 DEF SlotsAccounted, PumpPoll
<1>36. ASSUME NEW h \in Handles, NEW s \in SockStates, NetEvent(h, s) PROVE SlotsAccounted' /\ open' \in Nat
  <2>1. Charged' = Charged
    BY <1>36 DEF Charged, Holders, HoldingPcs, CallerPcs, AcceptorPcs, PumpPcs, NetEvent,
       WakeOwners, Parked, Unpark, SocketsOf, Segments
  <2>q. QED
    BY <1>36, <2>1 DEF SlotsAccounted, NetEvent, WakeOwners, Parked, Unpark, SocketsOf,
       Segments
<1>37. ASSUME PumpReclaim PROVE SlotsAccounted' /\ open' \in Nat
  <2>1. Charged' = Charged
    BY <1>37 DEF Charged, Holders, HoldingPcs, CallerPcs, AcceptorPcs, PumpPcs, PumpReclaim
  <2>q. QED
    BY <1>37, <2>1 DEF SlotsAccounted, PumpReclaim
<1>38. ASSUME PumpWoken PROVE SlotsAccounted' /\ open' \in Nat
  <2>1. Charged' = Charged
    BY <1>38 DEF Charged, Holders, HoldingPcs, CallerPcs, AcceptorPcs, PumpPcs, PumpWoken
  <2>q. QED
    BY <1>38, <2>1 DEF SlotsAccounted, PumpWoken
<1>39. ASSUME PumpInbound PROVE SlotsAccounted' /\ open' \in Nat
  <2>1. Charged' = Charged
    BY <1>39 DEF Charged, Holders, HoldingPcs, CallerPcs, AcceptorPcs, PumpPcs, PumpInbound
  <2>q. QED
    BY <1>39, <2>1 DEF SlotsAccounted, PumpInbound
<1>40. ASSUME PumpExit PROVE SlotsAccounted' /\ open' \in Nat
  <2>1. Charged' = Charged
    BY <1>40 DEF Charged, Holders, HoldingPcs, CallerPcs, AcceptorPcs, PumpPcs, PumpExit
  <2>q. QED
    BY <1>40, <2>1 DEF SlotsAccounted, PumpExit
<1>41. ASSUME StopFlag PROVE SlotsAccounted' /\ open' \in Nat
  <2>1. Charged' = Charged
    BY <1>41 DEF Charged, Holders, HoldingPcs, CallerPcs, AcceptorPcs, PumpPcs, StopFlag
  <2>q. QED
    BY <1>41, <2>1 DEF SlotsAccounted, StopFlag
<1>42. ASSUME StopClose PROVE SlotsAccounted' /\ open' \in Nat
  <2>1. Charged' = Charged
    BY <1>42 DEF Charged, Holders, HoldingPcs, CallerPcs, AcceptorPcs, PumpPcs, StopClose,
       Abort, Parked, Unpark
  <2>q. QED
    BY <1>42, <2>1 DEF SlotsAccounted, StopClose, Abort, Parked, Unpark
<1>43. ASSUME StopNotify PROVE SlotsAccounted' /\ open' \in Nat
  <2>1. Charged' = Charged
    BY <1>43 DEF Charged, Holders, HoldingPcs, CallerPcs, AcceptorPcs, PumpPcs, StopNotify
  <2>q. QED
    BY <1>43, <2>1 DEF SlotsAccounted, StopNotify
<1>44. ASSUME UNCHANGED vars PROVE SlotsAccounted' /\ open' \in Nat
  <2>1. Charged' = Charged
    BY <1>44 DEF Charged, Holders, HoldingPcs, CallerPcs, AcceptorPcs, PumpPcs, vars
  <2>q. QED
    BY <1>44, <2>1 DEF SlotsAccounted, vars
<1> HIDE DEF TypeOK
<1>q. QED
  BY <1>1, <1>2, <1>3, <1>4, <1>5, <1>6, <1>7, <1>8, <1>9, <1>10, <1>11, <1>12, <1>13,
     <1>14, <1>15, <1>16, <1>17, <1>18, <1>19, <1>20, <1>21, <1>22, <1>23, <1>24, <1>25,
     <1>26, <1>27, <1>28, <1>29, <1>30, <1>31, <1>32, <1>33, <1>34, <1>35, <1>36, <1>37,
     <1>38, <1>39, <1>40, <1>41, <1>42, <1>43, <1>44
     DEF Next, CallerStep, CallerChoice, AcceptorStep, AcceptorChoice, PumpStep, Environment

-----------------------------------------------------------------------------
(* Types, signals and the stop.                                              *)

\* Types are kept; that the counter stays natural is SlotsStep's.
LEMMA TypeStep ==
    ASSUME StackInv, [Next]_vars, open' \in Nat
    PROVE  TypeOK'
<1> USE DistinctAssumption DEF StackInv, TypeOK, Carrying, CarryingPcs, SockStates, Tasks,
   Procs, CallerPcs, AcceptorPcs, PumpPcs, Goto, slotVars, ownVars, listVars, pumpVars
<1>1. ASSUME NEW t \in Tasks, ClaimLoad(t) PROVE TypeOK'
  BY <1>1 DEF ClaimLoad
<1>2. ASSUME NEW t \in Tasks, ReclaimUnderPressure(t) PROVE TypeOK'
  BY <1>2 DEF ReclaimUnderPressure
<1>3. ASSUME NEW t \in Tasks, ClaimSlot(t) PROVE TypeOK'
  BY <1>3 DEF ClaimSlot, HasRoom
<1>4. ASSUME NEW t \in Callers, ReleaseSlot(t) PROVE TypeOK'
  BY <1>4 DEF ReleaseSlot, Released
<1>5. ASSUME NEW t \in Callers, SignalFreed(t) PROVE TypeOK'
  BY <1>5 DEF SignalFreed, RingAll
<1>6. ASSUME NEW p \in Procs, NEW h \in closing, ReclaimOne(p, h) PROVE TypeOK'
  BY <1>6 DEF ReclaimOne, Reclaimable, Discard, Released, AfterRemoval
<1>7. ASSUME NEW p \in Procs, ReclaimRing(p) PROVE TypeOK'
  BY <1>7 DEF ReclaimRing, RingAll
<1>8. ASSUME NEW p \in Procs, ReclaimDone(p) PROVE TypeOK'
  <2>1. CASE p = Pump
    BY <1>8, <2>1 DEF ReclaimDone, RingPump
  <2>2. CASE p \in Tasks
    <3>1. /\ pc' = [pc EXCEPT ![p] = "claim"] /\ lock' = NoProc /\ wake' = TRUE
          /\ UNCHANGED <<mine, want, bell, sock, open, closing, uncounted, expired, streams, udps,
                         backlog, port, timed, stopped, watch>>
      BY <1>8, <2>2 DEF ReclaimDone, RingPump
    <3>q. QED
      BY <2>2, <3>1
  <2>q. QED
    BY <2>1, <2>2
<1>9. ASSUME NEW t \in Callers, Dial(t) PROVE TypeOK'
  BY <1>9 DEF Dial
<1>10. ASSUME NEW t \in Callers, BindUdp(t) PROVE TypeOK'
  BY <1>10 DEF BindUdp
<1>11. ASSUME NEW t \in Callers, Redial(t) PROVE TypeOK'
  BY <1>11 DEF Redial
<1>12. ASSUME NEW t \in Callers, GiveUp(t) PROVE TypeOK'
  BY <1>12 DEF GiveUp
<1>13. ASSUME NEW t \in Callers, NEW h \in Handles, StartConnect(t, h) PROVE TypeOK'
  BY <1>13 DEF StartConnect, FreeHandles, RingPump
<1>14. ASSUME NEW t \in Callers, PollConnect(t) PROVE TypeOK'
  BY <1>14 DEF PollConnect, IsClosed
<1>15. ASSUME NEW t \in Callers, ConnectTimeout(t) PROVE TypeOK'
  BY <1>15 DEF ConnectTimeout
<1>16. ASSUME NEW t \in Callers, DiscardFailed(t) PROVE TypeOK'
  BY <1>16 DEF DiscardFailed, DiscardMine, Discard, RingPump
<1>17. ASSUME NEW t \in Callers, CancelConnect(t) PROVE TypeOK'
  BY <1>17 DEF CancelConnect, DiscardMine, Discard, RingPump
<1>18. ASSUME NEW t \in Callers, NEW h \in Handles, BindSocket(t, h) PROVE TypeOK'
  BY <1>18 DEF BindSocket, FreeHandles, RingPump
<1>19. ASSUME NEW t \in Callers, NEW h \in Handles, DropUdp(t, h) PROVE TypeOK'
  BY <1>19 DEF DropUdp, Discard, RingPump
<1>20. ASSUME NEW h \in Handles, ShutdownStream(h) PROVE TypeOK'
  BY <1>20 DEF ShutdownStream, Close, RingPump
<1>21. ASSUME NEW t \in Callers, NEW h \in Handles, DropStream(t, h) PROVE TypeOK'
  BY <1>21 DEF DropStream, Close, RingPump
<1>22. ASSUME NEW t \in Callers, RetireStream(t) PROVE TypeOK'
  BY <1>22 DEF RetireStream, Retire, RingPump
<1>23. ASSUME NEW a \in Acceptors, NEW p \in Ports, Listen(a, p) PROVE TypeOK'
  BY <1>23 DEF Listen
<1>24. ASSUME NEW a \in Acceptors, BindListener(a) PROVE TypeOK'
  BY <1>24 DEF BindListener
<1>25. ASSUME NEW a \in Acceptors, NEW h \in Handles, ListenOne(a, h) PROVE TypeOK'
  BY <1>25 DEF ListenOne, FreeHandles, RingPump
<1>26. ASSUME NEW a \in Acceptors, NEW h \in Handles, AcceptReady(a, h) PROVE TypeOK'
  BY <1>26 DEF AcceptReady, Take, IsClosed
<1>27. ASSUME NEW a \in Acceptors, AcceptPending(a) PROVE TypeOK'
  BY <1>27 DEF AcceptPending, IsClosed
<1>28. ASSUME NEW a \in Acceptors, AcceptStopped(a) PROVE TypeOK'
  BY <1>28 DEF AcceptStopped
<1>29. ASSUME NEW a \in Acceptors, KeepAccepted(a) PROVE TypeOK'
  BY <1>29 DEF KeepAccepted
<1>30. ASSUME NEW a \in Acceptors, ResetAccepted(a) PROVE TypeOK'
  BY <1>30 DEF ResetAccepted, Abort, Retire, RingPump
<1>31. ASSUME NEW a \in Acceptors, DropListener(a) PROVE TypeOK'
  BY <1>31 DEF DropListener, RingPump
<1>32. ASSUME NEW h \in Handles, LingerExpires(h) PROVE TypeOK'
  BY <1>32 DEF LingerExpires
<1>33. ASSUME NEW w \in Watchers, WatchEnable(w) PROVE TypeOK'
  BY <1>33 DEF WatchEnable
<1>34. ASSUME NEW w \in Watchers, WatchCheck(w) PROVE TypeOK'
  BY <1>34 DEF WatchCheck
<1>35. ASSUME PumpPoll PROVE TypeOK'
  BY <1>35 DEF PumpPoll
<1>36. ASSUME NEW h \in Handles, NEW s \in SockStates, NetEvent(h, s) PROVE TypeOK'
  BY <1>36 DEF NetEvent, WakeOwners, Parked, Unpark, SocketsOf, Segments
<1>37. ASSUME PumpReclaim PROVE TypeOK'
  BY <1>37 DEF PumpReclaim
<1>38. ASSUME PumpWoken PROVE TypeOK'
  BY <1>38 DEF PumpWoken
<1>39. ASSUME PumpInbound PROVE TypeOK'
  BY <1>39 DEF PumpInbound
<1>40. ASSUME PumpExit PROVE TypeOK'
  BY <1>40 DEF PumpExit
<1>41. ASSUME StopFlag PROVE TypeOK'
  BY <1>41 DEF StopFlag
<1>42. ASSUME StopClose PROVE TypeOK'
  BY <1>42 DEF StopClose, Abort, Parked, Unpark
<1>43. ASSUME StopNotify PROVE TypeOK'
  BY <1>43 DEF StopNotify
<1>44. ASSUME UNCHANGED vars PROVE TypeOK'
  BY <1>44 DEF vars
<1> HIDE DEF TypeOK
<1>q. QED
  BY <1>1, <1>2, <1>3, <1>4, <1>5, <1>6, <1>7, <1>8, <1>9, <1>10, <1>11, <1>12, <1>13,
     <1>14, <1>15, <1>16, <1>17, <1>18, <1>19, <1>20, <1>21, <1>22, <1>23, <1>24, <1>25,
     <1>26, <1>27, <1>28, <1>29, <1>30, <1>31, <1>32, <1>33, <1>34, <1>35, <1>36, <1>37,
     <1>38, <1>39, <1>40, <1>41, <1>42, <1>43, <1>44
     DEF Next, CallerStep, CallerChoice, AcceptorStep, AcceptorChoice, PumpStep, Environment

\* A decrement is followed by a signal, and only a signal ends RingPending.
LEMMA FreedStep ==
    ASSUME StackInv, [Next]_vars
    PROVE  FreedNotMissed'
<1> USE DistinctAssumption DEF StackInv, TypeOK, FreedNotMissed, RingPending, Tasks, Procs,
   CallerPcs, AcceptorPcs, PumpPcs, Goto, slotVars, ownVars, listVars, pumpVars
<1>1. ASSUME NEW t \in Tasks, ClaimLoad(t) PROVE FreedNotMissed'
  BY <1>1 DEF ClaimLoad
<1>2. ASSUME NEW t \in Tasks, ReclaimUnderPressure(t) PROVE FreedNotMissed'
  BY <1>2 DEF ReclaimUnderPressure
<1>3. ASSUME NEW t \in Tasks, ClaimSlot(t) PROVE FreedNotMissed'
  BY <1>3 DEF ClaimSlot, HasRoom
<1>4. ASSUME NEW t \in Callers, ReleaseSlot(t) PROVE FreedNotMissed'
  BY <1>4 DEF ReleaseSlot, Released
<1>5. ASSUME NEW t \in Callers, SignalFreed(t) PROVE FreedNotMissed'
  BY <1>5 DEF SignalFreed, RingAll
<1>6. ASSUME NEW p \in Procs, NEW h \in closing, ReclaimOne(p, h) PROVE FreedNotMissed'
  BY <1>6 DEF ReclaimOne, Reclaimable, Discard, Released, AfterRemoval
<1>7. ASSUME NEW p \in Procs, ReclaimRing(p) PROVE FreedNotMissed'
  BY <1>7 DEF ReclaimRing, RingAll
<1>8. ASSUME NEW p \in Procs, ReclaimDone(p) PROVE FreedNotMissed'
  BY <1>8 DEF ReclaimDone, RingPump
<1>9. ASSUME NEW t \in Callers, Dial(t) PROVE FreedNotMissed'
  BY <1>9 DEF Dial
<1>10. ASSUME NEW t \in Callers, BindUdp(t) PROVE FreedNotMissed'
  BY <1>10 DEF BindUdp
<1>11. ASSUME NEW t \in Callers, Redial(t) PROVE FreedNotMissed'
  BY <1>11 DEF Redial
<1>12. ASSUME NEW t \in Callers, GiveUp(t) PROVE FreedNotMissed'
  BY <1>12 DEF GiveUp
<1>13. ASSUME NEW t \in Callers, NEW h \in Handles, StartConnect(t, h) PROVE FreedNotMissed'
  BY <1>13 DEF StartConnect, FreeHandles, RingPump
<1>14. ASSUME NEW t \in Callers, PollConnect(t) PROVE FreedNotMissed'
  BY <1>14 DEF PollConnect, IsClosed
<1>15. ASSUME NEW t \in Callers, ConnectTimeout(t) PROVE FreedNotMissed'
  BY <1>15 DEF ConnectTimeout
<1>16. ASSUME NEW t \in Callers, DiscardFailed(t) PROVE FreedNotMissed'
  BY <1>16 DEF DiscardFailed, DiscardMine, Discard, RingPump
<1>17. ASSUME NEW t \in Callers, CancelConnect(t) PROVE FreedNotMissed'
  BY <1>17 DEF CancelConnect, DiscardMine, Discard, RingPump
<1>18. ASSUME NEW t \in Callers, NEW h \in Handles, BindSocket(t, h) PROVE FreedNotMissed'
  BY <1>18 DEF BindSocket, FreeHandles, RingPump
<1>19. ASSUME NEW t \in Callers, NEW h \in Handles, DropUdp(t, h) PROVE FreedNotMissed'
  BY <1>19 DEF DropUdp, Discard, RingPump
<1>20. ASSUME NEW h \in Handles, ShutdownStream(h) PROVE FreedNotMissed'
  BY <1>20 DEF ShutdownStream, Close, RingPump
<1>21. ASSUME NEW t \in Callers, NEW h \in Handles, DropStream(t, h) PROVE FreedNotMissed'
  BY <1>21 DEF DropStream, Close, RingPump
<1>22. ASSUME NEW t \in Callers, RetireStream(t) PROVE FreedNotMissed'
  BY <1>22 DEF RetireStream, Retire, RingPump
<1>23. ASSUME NEW a \in Acceptors, NEW p \in Ports, Listen(a, p) PROVE FreedNotMissed'
  BY <1>23 DEF Listen
<1>24. ASSUME NEW a \in Acceptors, BindListener(a) PROVE FreedNotMissed'
  BY <1>24 DEF BindListener
<1>25. ASSUME NEW a \in Acceptors, NEW h \in Handles, ListenOne(a, h) PROVE FreedNotMissed'
  BY <1>25 DEF ListenOne, FreeHandles, RingPump
<1>26. ASSUME NEW a \in Acceptors, NEW h \in Handles, AcceptReady(a, h) PROVE FreedNotMissed'
  BY <1>26 DEF AcceptReady, Take, IsClosed
<1>27. ASSUME NEW a \in Acceptors, AcceptPending(a) PROVE FreedNotMissed'
  BY <1>27 DEF AcceptPending, IsClosed
<1>28. ASSUME NEW a \in Acceptors, AcceptStopped(a) PROVE FreedNotMissed'
  BY <1>28 DEF AcceptStopped
<1>29. ASSUME NEW a \in Acceptors, KeepAccepted(a) PROVE FreedNotMissed'
  BY <1>29 DEF KeepAccepted
<1>30. ASSUME NEW a \in Acceptors, ResetAccepted(a) PROVE FreedNotMissed'
  BY <1>30 DEF ResetAccepted, Abort, Retire, RingPump
<1>31. ASSUME NEW a \in Acceptors, DropListener(a) PROVE FreedNotMissed'
  BY <1>31 DEF DropListener, RingPump
<1>32. ASSUME NEW h \in Handles, LingerExpires(h) PROVE FreedNotMissed'
  BY <1>32 DEF LingerExpires
<1>33. ASSUME NEW w \in Watchers, WatchEnable(w) PROVE FreedNotMissed'
  BY <1>33 DEF WatchEnable
<1>34. ASSUME NEW w \in Watchers, WatchCheck(w) PROVE FreedNotMissed'
  BY <1>34 DEF WatchCheck
<1>35. ASSUME PumpPoll PROVE FreedNotMissed'
  BY <1>35 DEF PumpPoll
<1>36. ASSUME NEW h \in Handles, NEW s \in SockStates, NetEvent(h, s) PROVE FreedNotMissed'
  BY <1>36 DEF NetEvent, WakeOwners, Parked, Unpark, SocketsOf, Segments
<1>37. ASSUME PumpReclaim PROVE FreedNotMissed'
  BY <1>37 DEF PumpReclaim
<1>38. ASSUME PumpWoken PROVE FreedNotMissed'
  BY <1>38 DEF PumpWoken
<1>39. ASSUME PumpInbound PROVE FreedNotMissed'
  BY <1>39 DEF PumpInbound
<1>40. ASSUME PumpExit PROVE FreedNotMissed'
  BY <1>40 DEF PumpExit
<1>41. ASSUME StopFlag PROVE FreedNotMissed'
  BY <1>41 DEF StopFlag
<1>42. ASSUME StopClose PROVE FreedNotMissed'
  BY <1>42 DEF StopClose, Abort, Parked, Unpark
<1>43. ASSUME StopNotify PROVE FreedNotMissed'
  BY <1>43 DEF StopNotify
<1>44. ASSUME UNCHANGED vars PROVE FreedNotMissed'
  BY <1>44 DEF vars
<1> HIDE DEF TypeOK
<1>q. QED
  BY <1>1, <1>2, <1>3, <1>4, <1>5, <1>6, <1>7, <1>8, <1>9, <1>10, <1>11, <1>12, <1>13,
     <1>14, <1>15, <1>16, <1>17, <1>18, <1>19, <1>20, <1>21, <1>22, <1>23, <1>24, <1>25,
     <1>26, <1>27, <1>28, <1>29, <1>30, <1>31, <1>32, <1>33, <1>34, <1>35, <1>36, <1>37,
     <1>38, <1>39, <1>40, <1>41, <1>42, <1>43, <1>44
     DEF Next, CallerStep, CallerChoice, AcceptorStep, AcceptorChoice, PumpStep, Environment

\* Whatever retires a socket leaves the pump a permit.
LEMMA SeenStep ==
    ASSUME StackInv, [Next]_vars
    PROVE  RetiredSocketSeen'
<1> USE DistinctAssumption DEF StackInv, TypeOK, RetiredSocketSeen, Tasks, Procs, CallerPcs,
   AcceptorPcs, PumpPcs, Goto, slotVars, ownVars, listVars, pumpVars
<1>1. ASSUME NEW t \in Tasks, ClaimLoad(t) PROVE RetiredSocketSeen'
  BY <1>1 DEF ClaimLoad
<1>2. ASSUME NEW t \in Tasks, ReclaimUnderPressure(t) PROVE RetiredSocketSeen'
  BY <1>2 DEF ReclaimUnderPressure
<1>3. ASSUME NEW t \in Tasks, ClaimSlot(t) PROVE RetiredSocketSeen'
  BY <1>3 DEF ClaimSlot, HasRoom
<1>4. ASSUME NEW t \in Callers, ReleaseSlot(t) PROVE RetiredSocketSeen'
  BY <1>4 DEF ReleaseSlot, Released
<1>5. ASSUME NEW t \in Callers, SignalFreed(t) PROVE RetiredSocketSeen'
  BY <1>5 DEF SignalFreed, RingAll
<1>6. ASSUME NEW p \in Procs, NEW h \in closing, ReclaimOne(p, h) PROVE RetiredSocketSeen'
  BY <1>6 DEF ReclaimOne, Reclaimable, Discard, Released, AfterRemoval
<1>7. ASSUME NEW p \in Procs, ReclaimRing(p) PROVE RetiredSocketSeen'
  BY <1>7 DEF ReclaimRing, RingAll
<1>8. ASSUME NEW p \in Procs, ReclaimDone(p) PROVE RetiredSocketSeen'
  BY <1>8 DEF ReclaimDone, RingPump
<1>9. ASSUME NEW t \in Callers, Dial(t) PROVE RetiredSocketSeen'
  BY <1>9 DEF Dial
<1>10. ASSUME NEW t \in Callers, BindUdp(t) PROVE RetiredSocketSeen'
  BY <1>10 DEF BindUdp
<1>11. ASSUME NEW t \in Callers, Redial(t) PROVE RetiredSocketSeen'
  BY <1>11 DEF Redial
<1>12. ASSUME NEW t \in Callers, GiveUp(t) PROVE RetiredSocketSeen'
  BY <1>12 DEF GiveUp
<1>13. ASSUME NEW t \in Callers, NEW h \in Handles, StartConnect(t, h) PROVE RetiredSocketSeen'
  BY <1>13 DEF StartConnect, FreeHandles, RingPump
<1>14. ASSUME NEW t \in Callers, PollConnect(t) PROVE RetiredSocketSeen'
  BY <1>14 DEF PollConnect, IsClosed
<1>15. ASSUME NEW t \in Callers, ConnectTimeout(t) PROVE RetiredSocketSeen'
  BY <1>15 DEF ConnectTimeout
<1>16. ASSUME NEW t \in Callers, DiscardFailed(t) PROVE RetiredSocketSeen'
  BY <1>16 DEF DiscardFailed, DiscardMine, Discard, RingPump
<1>17. ASSUME NEW t \in Callers, CancelConnect(t) PROVE RetiredSocketSeen'
  BY <1>17 DEF CancelConnect, DiscardMine, Discard, RingPump
<1>18. ASSUME NEW t \in Callers, NEW h \in Handles, BindSocket(t, h) PROVE RetiredSocketSeen'
  BY <1>18 DEF BindSocket, FreeHandles, RingPump
<1>19. ASSUME NEW t \in Callers, NEW h \in Handles, DropUdp(t, h) PROVE RetiredSocketSeen'
  BY <1>19 DEF DropUdp, Discard, RingPump
<1>20. ASSUME NEW h \in Handles, ShutdownStream(h) PROVE RetiredSocketSeen'
  BY <1>20 DEF ShutdownStream, Close, RingPump
<1>21. ASSUME NEW t \in Callers, NEW h \in Handles, DropStream(t, h) PROVE RetiredSocketSeen'
  BY <1>21 DEF DropStream, Close, RingPump
<1>22. ASSUME NEW t \in Callers, RetireStream(t) PROVE RetiredSocketSeen'
  BY <1>22 DEF RetireStream, Retire, RingPump
<1>23. ASSUME NEW a \in Acceptors, NEW p \in Ports, Listen(a, p) PROVE RetiredSocketSeen'
  BY <1>23 DEF Listen
<1>24. ASSUME NEW a \in Acceptors, BindListener(a) PROVE RetiredSocketSeen'
  BY <1>24 DEF BindListener
<1>25. ASSUME NEW a \in Acceptors, NEW h \in Handles, ListenOne(a, h) PROVE RetiredSocketSeen'
  BY <1>25 DEF ListenOne, FreeHandles, RingPump
<1>26. ASSUME NEW a \in Acceptors, NEW h \in Handles, AcceptReady(a, h) PROVE RetiredSocketSeen'
  BY <1>26 DEF AcceptReady, Take, IsClosed
<1>27. ASSUME NEW a \in Acceptors, AcceptPending(a) PROVE RetiredSocketSeen'
  BY <1>27 DEF AcceptPending, IsClosed
<1>28. ASSUME NEW a \in Acceptors, AcceptStopped(a) PROVE RetiredSocketSeen'
  BY <1>28 DEF AcceptStopped
<1>29. ASSUME NEW a \in Acceptors, KeepAccepted(a) PROVE RetiredSocketSeen'
  BY <1>29 DEF KeepAccepted
<1>30. ASSUME NEW a \in Acceptors, ResetAccepted(a) PROVE RetiredSocketSeen'
  BY <1>30 DEF ResetAccepted, Abort, Retire, RingPump
<1>31. ASSUME NEW a \in Acceptors, DropListener(a) PROVE RetiredSocketSeen'
  BY <1>31 DEF DropListener, RingPump
<1>32. ASSUME NEW h \in Handles, LingerExpires(h) PROVE RetiredSocketSeen'
  BY <1>32 DEF LingerExpires
<1>33. ASSUME NEW w \in Watchers, WatchEnable(w) PROVE RetiredSocketSeen'
  BY <1>33 DEF WatchEnable
<1>34. ASSUME NEW w \in Watchers, WatchCheck(w) PROVE RetiredSocketSeen'
  BY <1>34 DEF WatchCheck
<1>35. ASSUME PumpPoll PROVE RetiredSocketSeen'
  BY <1>35 DEF PumpPoll
<1>36. ASSUME NEW h \in Handles, NEW s \in SockStates, NetEvent(h, s) PROVE RetiredSocketSeen'
  BY <1>36 DEF NetEvent, WakeOwners, Parked, Unpark, SocketsOf, Segments
<1>37. ASSUME PumpReclaim PROVE RetiredSocketSeen'
  BY <1>37 DEF PumpReclaim
<1>38. ASSUME PumpWoken PROVE RetiredSocketSeen'
  BY <1>38 DEF PumpWoken
<1>39. ASSUME PumpInbound PROVE RetiredSocketSeen'
  BY <1>39 DEF PumpInbound
<1>40. ASSUME PumpExit PROVE RetiredSocketSeen'
  BY <1>40 DEF PumpExit
<1>41. ASSUME StopFlag PROVE RetiredSocketSeen'
  BY <1>41 DEF StopFlag
<1>42. ASSUME StopClose PROVE RetiredSocketSeen'
  BY <1>42 DEF StopClose, Abort, Parked, Unpark
<1>43. ASSUME StopNotify PROVE RetiredSocketSeen'
  BY <1>43 DEF StopNotify
<1>44. ASSUME UNCHANGED vars PROVE RetiredSocketSeen'
  BY <1>44 DEF vars
<1> HIDE DEF TypeOK
<1>q. QED
  BY <1>1, <1>2, <1>3, <1>4, <1>5, <1>6, <1>7, <1>8, <1>9, <1>10, <1>11, <1>12, <1>13,
     <1>14, <1>15, <1>16, <1>17, <1>18, <1>19, <1>20, <1>21, <1>22, <1>23, <1>24, <1>25,
     <1>26, <1>27, <1>28, <1>29, <1>30, <1>31, <1>32, <1>33, <1>34, <1>35, <1>36, <1>37,
     <1>38, <1>39, <1>40, <1>41, <1>42, <1>43, <1>44
     DEF Next, CallerStep, CallerChoice, AcceptorStep, AcceptorChoice, PumpStep, Environment

\* After the close, the flag is up and nobody parks again.
LEMMA StopStep ==
    ASSUME StackInv, [Next]_vars
    PROVE  StopOrder'
<1> USE DistinctAssumption DEF StackInv, TypeOK, StopOrder, Tasks, Procs, CallerPcs,
   AcceptorPcs, PumpPcs, Goto, slotVars, ownVars, listVars, pumpVars
<1>1. ASSUME NEW t \in Tasks, ClaimLoad(t) PROVE StopOrder'
  BY <1>1 DEF ClaimLoad
<1>2. ASSUME NEW t \in Tasks, ReclaimUnderPressure(t) PROVE StopOrder'
  BY <1>2 DEF ReclaimUnderPressure
<1>3. ASSUME NEW t \in Tasks, ClaimSlot(t) PROVE StopOrder'
  BY <1>3 DEF ClaimSlot, HasRoom
<1>4. ASSUME NEW t \in Callers, ReleaseSlot(t) PROVE StopOrder'
  BY <1>4 DEF ReleaseSlot, Released
<1>5. ASSUME NEW t \in Callers, SignalFreed(t) PROVE StopOrder'
  BY <1>5 DEF SignalFreed, RingAll
<1>6. ASSUME NEW p \in Procs, NEW h \in closing, ReclaimOne(p, h) PROVE StopOrder'
  BY <1>6 DEF ReclaimOne, Reclaimable, Discard, Released, AfterRemoval
<1>7. ASSUME NEW p \in Procs, ReclaimRing(p) PROVE StopOrder'
  BY <1>7 DEF ReclaimRing, RingAll
<1>8. ASSUME NEW p \in Procs, ReclaimDone(p) PROVE StopOrder'
  BY <1>8 DEF ReclaimDone, RingPump
<1>9. ASSUME NEW t \in Callers, Dial(t) PROVE StopOrder'
  BY <1>9 DEF Dial
<1>10. ASSUME NEW t \in Callers, BindUdp(t) PROVE StopOrder'
  BY <1>10 DEF BindUdp
<1>11. ASSUME NEW t \in Callers, Redial(t) PROVE StopOrder'
  BY <1>11 DEF Redial
<1>12. ASSUME NEW t \in Callers, GiveUp(t) PROVE StopOrder'
  BY <1>12 DEF GiveUp
<1>13. ASSUME NEW t \in Callers, NEW h \in Handles, StartConnect(t, h) PROVE StopOrder'
  BY <1>13 DEF StartConnect, FreeHandles, RingPump
<1>14. ASSUME NEW t \in Callers, PollConnect(t) PROVE StopOrder'
  BY <1>14 DEF PollConnect, IsClosed
<1>15. ASSUME NEW t \in Callers, ConnectTimeout(t) PROVE StopOrder'
  BY <1>15 DEF ConnectTimeout
<1>16. ASSUME NEW t \in Callers, DiscardFailed(t) PROVE StopOrder'
  BY <1>16 DEF DiscardFailed, DiscardMine, Discard, RingPump
<1>17. ASSUME NEW t \in Callers, CancelConnect(t) PROVE StopOrder'
  BY <1>17 DEF CancelConnect, DiscardMine, Discard, RingPump
<1>18. ASSUME NEW t \in Callers, NEW h \in Handles, BindSocket(t, h) PROVE StopOrder'
  BY <1>18 DEF BindSocket, FreeHandles, RingPump
<1>19. ASSUME NEW t \in Callers, NEW h \in Handles, DropUdp(t, h) PROVE StopOrder'
  BY <1>19 DEF DropUdp, Discard, RingPump
<1>20. ASSUME NEW h \in Handles, ShutdownStream(h) PROVE StopOrder'
  BY <1>20 DEF ShutdownStream, Close, RingPump
<1>21. ASSUME NEW t \in Callers, NEW h \in Handles, DropStream(t, h) PROVE StopOrder'
  BY <1>21 DEF DropStream, Close, RingPump
<1>22. ASSUME NEW t \in Callers, RetireStream(t) PROVE StopOrder'
  BY <1>22 DEF RetireStream, Retire, RingPump
<1>23. ASSUME NEW a \in Acceptors, NEW p \in Ports, Listen(a, p) PROVE StopOrder'
  BY <1>23 DEF Listen
<1>24. ASSUME NEW a \in Acceptors, BindListener(a) PROVE StopOrder'
  BY <1>24 DEF BindListener
<1>25. ASSUME NEW a \in Acceptors, NEW h \in Handles, ListenOne(a, h) PROVE StopOrder'
  BY <1>25 DEF ListenOne, FreeHandles, RingPump
<1>26. ASSUME NEW a \in Acceptors, NEW h \in Handles, AcceptReady(a, h) PROVE StopOrder'
  BY <1>26 DEF AcceptReady, Take, IsClosed
<1>27. ASSUME NEW a \in Acceptors, AcceptPending(a) PROVE StopOrder'
  BY <1>27 DEF AcceptPending, IsClosed
<1>28. ASSUME NEW a \in Acceptors, AcceptStopped(a) PROVE StopOrder'
  BY <1>28 DEF AcceptStopped
<1>29. ASSUME NEW a \in Acceptors, KeepAccepted(a) PROVE StopOrder'
  BY <1>29 DEF KeepAccepted
<1>30. ASSUME NEW a \in Acceptors, ResetAccepted(a) PROVE StopOrder'
  BY <1>30 DEF ResetAccepted, Abort, Retire, RingPump
<1>31. ASSUME NEW a \in Acceptors, DropListener(a) PROVE StopOrder'
  BY <1>31 DEF DropListener, RingPump
<1>32. ASSUME NEW h \in Handles, LingerExpires(h) PROVE StopOrder'
  BY <1>32 DEF LingerExpires
<1>33. ASSUME NEW w \in Watchers, WatchEnable(w) PROVE StopOrder'
  BY <1>33 DEF WatchEnable
<1>34. ASSUME NEW w \in Watchers, WatchCheck(w) PROVE StopOrder'
  BY <1>34 DEF WatchCheck
<1>35. ASSUME PumpPoll PROVE StopOrder'
  BY <1>35 DEF PumpPoll
<1>36. ASSUME NEW h \in Handles, NEW s \in SockStates, NetEvent(h, s) PROVE StopOrder'
  BY <1>36 DEF NetEvent, WakeOwners, Parked, Unpark, SocketsOf, Segments
<1>37. ASSUME PumpReclaim PROVE StopOrder'
  BY <1>37 DEF PumpReclaim
<1>38. ASSUME PumpWoken PROVE StopOrder'
  BY <1>38 DEF PumpWoken
<1>39. ASSUME PumpInbound PROVE StopOrder'
  BY <1>39 DEF PumpInbound
<1>40. ASSUME PumpExit PROVE StopOrder'
  BY <1>40 DEF PumpExit
<1>41. ASSUME StopFlag PROVE StopOrder'
  BY <1>41 DEF StopFlag
<1>42. ASSUME StopClose PROVE StopOrder'
  BY <1>42 DEF StopClose, Abort, Parked, Unpark
<1>43. ASSUME StopNotify PROVE StopOrder'
  BY <1>43 DEF StopNotify
<1>44. ASSUME UNCHANGED vars PROVE StopOrder'
  BY <1>44 DEF vars
<1> HIDE DEF TypeOK
<1>q. QED
  BY <1>1, <1>2, <1>3, <1>4, <1>5, <1>6, <1>7, <1>8, <1>9, <1>10, <1>11, <1>12, <1>13,
     <1>14, <1>15, <1>16, <1>17, <1>18, <1>19, <1>20, <1>21, <1>22, <1>23, <1>24, <1>25,
     <1>26, <1>27, <1>28, <1>29, <1>30, <1>31, <1>32, <1>33, <1>34, <1>35, <1>36, <1>37,
     <1>38, <1>39, <1>40, <1>41, <1>42, <1>43, <1>44
     DEF Next, CallerStep, CallerChoice, AcceptorStep, AcceptorChoice, PumpStep, Environment

-----------------------------------------------------------------------------
\* A stack that has just started satisfies the invariant.
LEMMA StackInvInit == Init => StackInv
<1> SUFFICES ASSUME Init PROVE StackInv
  OBVIOUS
<1> USE DistinctAssumption, CapAssumption DEF Init
<1>1. TypeOK
  BY DEF TypeOK, Tasks, Procs, CallerPcs, AcceptorPcs, PumpPcs, SockStates
<1>2. Carrying /\ HandlesOwnedOnce
  BY DEF Carrying, CarryingPcs, HandlesOwnedOnce, OwnedBy, Held, Tasks, Procs
<1>3. Charged = {}
  BY DEF Charged, Holders, HoldingPcs, Tasks, Procs
<1>4. SlotsAccounted
  BY <1>3, FS_EmptySet DEF SlotsAccounted
<1>5. FreedNotMissed /\ RetiredSocketSeen /\ StopOrder
  BY DEF FreedNotMissed, RetiredSocketSeen, StopOrder, Tasks, Procs
<1>q. QED
  BY <1>1, <1>2, <1>4, <1>5 DEF StackInv

\* StackInv is inductive, so it holds of every state of the stack.
THEOREM StackInvariant == Spec => []StackInv
<1>1. StackInv /\ [Next]_vars => StackInv'
  <2> SUFFICES ASSUME StackInv, [Next]_vars PROVE StackInv'
    OBVIOUS
  <2>1. SlotsAccounted' /\ open' \in Nat
    BY SlotsStep
  <2>2. TypeOK'
    BY <2>1, TypeStep
  <2>q. QED
    BY <2>1, <2>2, CarryingStep, OwnedStep, FreedStep, SeenStep, StopStep DEF StackInv
<1>q. QED
  BY <1>1, StackInvInit, PTL DEF Spec

\* Every variable of the stack always has its type.
THEOREM StackTypeCorrect == Spec => []TypeOK
<1>1. StackInv => TypeOK
  BY DEF StackInv
<1>q. QED
  BY <1>1, StackInvariant, PTL

\* The slot counter always equals the number of slot owners and never passes
\* MAX_SOCKETS, whatever callers, listeners, the pump and the stop do.
THEOREM SlotsCorrect == Spec => []SlotsAccounted
<1>1. StackInv => SlotsAccounted
  BY DEF StackInv
<1>q. QED
  BY <1>1, StackInvariant, PTL

\* Every handle always has exactly one owner: no leak, no use after removal.
THEOREM HandlesCorrect == Spec => []HandlesOwnedOnce
<1>1. StackInv => HandlesOwnedOnce
  BY DEF StackInv
<1>q. QED
  BY <1>1, StackInvariant, PTL

\* A caller asleep on SlotFreed never misses the slot that is free.
THEOREM FreedCorrect == Spec => []FreedNotMissed
<1>1. StackInv => FreedNotMissed
  BY DEF StackInv
<1>q. QED
  BY <1>1, StackInvariant, PTL

\* The pump never sleeps past a retired socket.
THEOREM PumpSeesRetired == Spec => []RetiredSocketSeen
<1>1. StackInv => RetiredSocketSeen
  BY DEF StackInv
<1>q. QED
  BY <1>1, StackInvariant, PTL

\* Once stop() is over, no accept and no wait_stopped is left waiting.
THEOREM StopCorrect == Spec => []StopReleasesWaiters
<1>1. StackInv => StopReleasesWaiters
  BY DEF StackInv, StopOrder, StopReleasesWaiters
<1>q. QED
  BY <1>1, StackInvariant, PTL

-----------------------------------------------------------------------------
(* The socket set: how many entries callers, listeners and resets own.       *)

\* Sockets in the set: what UDP sockets there are, and that resets are closed.
LEMMA KindsStep ==
    ASSUME StackInv, BoundInv, [Next]_vars
    PROVE  SocketKinds'
<1> USE DistinctAssumption DEF StackInv, BoundInv, TypeOK, Tasks, Goto, slotVars, ownVars, listVars, pumpVars,
   SocketKinds, IsClosed
<1>0. ASSUME UNCHANGED <<sock, udps, uncounted>> PROVE SocketKinds'
  BY <1>0
<1>1. ASSUME NEW t \in Tasks, ClaimLoad(t) \/ ReclaimUnderPressure(t) \/ ClaimSlot(t) PROVE SocketKinds'
  BY <1>0, <1>1 DEF ClaimLoad, ReclaimUnderPressure, ClaimSlot
<1>2. ASSUME NEW t \in Callers, ReleaseSlot(t) \/ SignalFreed(t) \/ Dial(t) \/ BindUdp(t) \/ Redial(t) \/ GiveUp(t)
                                \/ PollConnect(t) \/ ConnectTimeout(t)
      PROVE  SocketKinds'
  BY <1>0, <1>2 DEF ReleaseSlot, SignalFreed, Dial, BindUdp, Redial, GiveUp, PollConnect, ConnectTimeout
<1>3. ASSUME NEW p \in Procs, NEW h \in closing, ReclaimOne(p, h) PROVE SocketKinds'
  BY <1>3 DEF ReclaimOne, Discard
<1>4. ASSUME NEW p \in Procs, ReclaimRing(p) \/ ReclaimDone(p) PROVE SocketKinds'
  BY <1>0, <1>4 DEF ReclaimRing, ReclaimDone
<1>5. ASSUME NEW t \in Callers, NEW h \in Handles, StartConnect(t, h) \/ BindSocket(t, h) PROVE SocketKinds'
  <2>1. h \notin uncounted
    BY <1>5 DEF StartConnect, BindSocket, FreeHandles
  <2> QED
    BY <1>5, <2>1 DEF StartConnect, BindSocket
<1>6. ASSUME NEW t \in Callers, DiscardFailed(t) \/ CancelConnect(t) PROVE SocketKinds'
  <2>1. mine[t] \in Handles
    BY <1>6 DEF DiscardFailed, CancelConnect, Carrying, CarryingPcs
  <2>2. mine[t] \notin uncounted
    BY <2>1 DEF HandlesOwnedOnce, OwnedBy, Held
  <2> QED
    BY <1>6, <2>1, <2>2 DEF DiscardFailed, CancelConnect, DiscardMine, Discard
<1>7. ASSUME NEW t \in Callers, NEW h \in Handles, DropUdp(t, h) PROVE SocketKinds'
  <2>1. h \notin uncounted
    BY <1>7 DEF DropUdp, HandlesOwnedOnce
  <2> QED
    BY <1>7, <2>1 DEF DropUdp, Discard
<1>8. ASSUME NEW h \in Handles, ShutdownStream(h) \/ \E t \in Callers : DropStream(t, h) PROVE SocketKinds'
  <2>1. sock' = [sock EXCEPT ![h] = Close(@)] /\ UNCHANGED <<udps, uncounted>>
    BY <1>8 DEF ShutdownStream, DropStream
  <2> QED
    BY <2>1 DEF Close
<1>9. ASSUME NEW t \in Callers, RetireStream(t) PROVE SocketKinds'
  BY <1>0, <1>9 DEF RetireStream, Retire
<1>10. ASSUME NEW a \in Acceptors, NEW p \in Ports, Listen(a, p) PROVE SocketKinds'
  BY <1>0, <1>10 DEF Listen
<1>11. ASSUME NEW a \in Acceptors, BindListener(a) \/ AcceptStopped(a) \/ KeepAccepted(a) PROVE SocketKinds'
  BY <1>0, <1>11 DEF BindListener, AcceptStopped, KeepAccepted
<1>12. ASSUME NEW a \in Acceptors, NEW h \in Handles, ListenOne(a, h) PROVE SocketKinds'
  BY <1>12 DEF ListenOne, FreeHandles
<1>13. ASSUME NEW a \in Acceptors, NEW S \in SUBSET backlog[a], UNCHANGED <<udps, uncounted>>,
              NEW l \in {"Listen", "Free"}, sock' = [g \in Handles |-> IF g \in S THEN l ELSE sock[g]]
       PROVE  SocketKinds'
  <2>1. S \cap uncounted = {}
    BY <1>13 DEF HandlesOwnedOnce, OwnedBy
  <2> QED
    BY <1>13, <2>1
<1>14. ASSUME NEW a \in Acceptors, NEW h \in Handles, AcceptReady(a, h) PROVE SocketKinds'
  <2>1. PICK S \in SUBSET {g \in backlog[a] : IsClosed(sock[g])} :
            sock' = [g \in Handles |-> IF g \in S THEN "Listen" ELSE sock[g]]
    BY <1>14 DEF AcceptReady
  <2>2. UNCHANGED <<udps, uncounted>> /\ S \in SUBSET backlog[a]
    BY <1>14 DEF AcceptReady
  <2> HIDE DEF SocketKinds, TypeOK, StackInv, BoundInv
  <2> QED
    BY <1>13, <2>1, <2>2
<1>15. ASSUME NEW a \in Acceptors, AcceptPending(a) PROVE SocketKinds'
  <2> DEFINE S == {g \in backlog[a] : IsClosed(sock[g])}
  <2>1. UNCHANGED <<udps, uncounted>> /\ sock' = [g \in Handles |-> IF g \in S THEN "Listen" ELSE sock[g]]
    BY <1>15 DEF AcceptPending
  <2>2. S \in SUBSET backlog[a]
    OBVIOUS
  <2> HIDE DEF S
  <2> QED
    BY <1>13, <2>1, <2>2
<1>16. ASSUME NEW a \in Acceptors, DropListener(a) PROVE SocketKinds'
  <2>1. backlog[a] \in SUBSET backlog[a] /\ UNCHANGED <<udps, uncounted>>
        /\ sock' = [g \in Handles |-> IF g \in backlog[a] THEN "Free" ELSE sock[g]]
    BY <1>16 DEF DropListener
  <2> QED
    BY <1>13, <2>1
<1>17. ASSUME NEW a \in Acceptors, ResetAccepted(a) PROVE SocketKinds'
  <2>1. mine[a] \in Handles
    BY <1>17 DEF ResetAccepted, Carrying, CarryingPcs
  <2>2. mine[a] \notin udps /\ sock[mine[a]] # "Free"
    BY <2>1 DEF HandlesOwnedOnce, OwnedBy, Held
  <2>3. Abort(sock[mine[a]]) \in {"Closed", "Aborted"}
    BY <2>1, <2>2 DEF Abort
  <2>4. sock' = [sock EXCEPT ![mine[a]] = Abort(sock[mine[a]])] /\ uncounted' = uncounted \cup {mine[a]} /\ udps' = udps
    BY <1>17 DEF ResetAccepted, Retire
  <2> HIDE DEF Abort
  <2> QED
    BY <2>1, <2>3, <2>4
<1>18. ASSUME NEW h \in Handles, LingerExpires(h) PROVE SocketKinds'
  BY <1>0, <1>18 DEF LingerExpires
<1>19. ASSUME NEW w \in Watchers, WatchEnable(w) \/ WatchCheck(w) PROVE SocketKinds'
  BY <1>0, <1>19 DEF WatchEnable, WatchCheck
<1>20. CASE PumpPoll \/ PumpReclaim \/ PumpWoken \/ PumpInbound \/ PumpExit \/ StopFlag \/ StopNotify
  BY <1>0, <1>20 DEF PumpPoll, PumpReclaim, PumpWoken, PumpInbound, PumpExit, StopFlag, StopNotify
<1>21. ASSUME NEW h \in Handles, NEW s \in SockStates, NetEvent(h, s) PROVE SocketKinds'
  <2>1. sock[h] \notin {"Closed", "Aborted", "Udp"} /\ s # "Udp" /\ sock' = [sock EXCEPT ![h] = s]
        /\ UNCHANGED <<udps, uncounted>>
    BY <1>21 DEF NetEvent, Segments
  <2> QED
    BY <2>1
<1>22. CASE StopClose
  BY <1>22 DEF StopClose, Abort
<1>23. CASE UNCHANGED vars
  BY <1>0, <1>23 DEF vars
<1> HIDE DEF TypeOK, SocketKinds
<1> QED
  BY <1>1, <1>2, <1>3, <1>4, <1>5, <1>6, <1>7, <1>8, <1>9, <1>10, <1>11, <1>12, <1>14, <1>15, <1>16, <1>17,
     <1>18, <1>19, <1>20, <1>21, <1>22, <1>23
     DEF Next, CallerStep, CallerChoice, AcceptorStep, AcceptorChoice, PumpStep, Environment, Procs

\* The lock is the pump's from its poll to the end of the reclaim, and a
\* task's while it reclaims.
LEMMA LockStep ==
    ASSUME StackInv, BoundInv, [Next]_vars
    PROVE  LockHeld'
<1> USE DistinctAssumption DEF StackInv, BoundInv, TypeOK, Tasks, Procs, Goto, slotVars, ownVars, listVars, pumpVars,
   LockHeld, Polling
<1>1. ASSUME NEW t \in Tasks, ClaimLoad(t) \/ ReclaimUnderPressure(t) \/ ClaimSlot(t) PROVE LockHeld'
  BY <1>1 DEF ClaimLoad, ReclaimUnderPressure, ClaimSlot
<1>2. ASSUME NEW t \in Callers, ReleaseSlot(t) \/ SignalFreed(t) \/ Dial(t) \/ BindUdp(t) \/ Redial(t) \/ GiveUp(t)
      PROVE  LockHeld'
  BY <1>2 DEF ReleaseSlot, SignalFreed, Dial, BindUdp, Redial, GiveUp
<1>3. ASSUME NEW p \in Procs, NEW h \in closing, ReclaimOne(p, h) PROVE LockHeld'
  BY <1>3 DEF ReclaimOne, AfterRemoval
<1>4. ASSUME NEW p \in Procs, ReclaimRing(p) \/ ReclaimDone(p) PROVE LockHeld'
  BY <1>4 DEF ReclaimRing, ReclaimDone
<1>5. ASSUME NEW t \in Callers, NEW h \in Handles,
             StartConnect(t, h) \/ BindSocket(t, h) \/ DropUdp(t, h) \/ DropStream(t, h)
      PROVE  LockHeld'
  BY <1>5 DEF StartConnect, BindSocket, DropUdp, DropStream
<1>6. ASSUME NEW t \in Callers, DiscardFailed(t) \/ CancelConnect(t) \/ PollConnect(t) \/ ConnectTimeout(t)
                                \/ RetireStream(t)
      PROVE  LockHeld'
  <2>1. lock' = lock
        /\ \E l \in {"syn", "refused", "timedout", "unclaim", "idle"} : pc' = [pc EXCEPT ![t] = l]
    BY <1>6 DEF DiscardFailed, CancelConnect, DiscardMine, PollConnect, ConnectTimeout, RetireStream
  <2> QED
    BY <2>1
<1>7. ASSUME NEW h \in Handles, ShutdownStream(h) \/ LingerExpires(h) PROVE LockHeld'
  BY <1>7 DEF ShutdownStream, LingerExpires
<1>8. ASSUME NEW a \in Acceptors, NEW p \in Ports, Listen(a, p) PROVE LockHeld'
  BY <1>8 DEF Listen
<1>9. ASSUME NEW a \in Acceptors, BindListener(a) \/ AcceptStopped(a) \/ KeepAccepted(a) \/ AcceptPending(a)
                                  \/ ResetAccepted(a) \/ DropListener(a)
      PROVE  LockHeld'
  <2>1. lock' = lock /\ \E l \in {"binding", "failed", "accept", "parked", "idle"} : pc' = [pc EXCEPT ![a] = l]
    BY <1>9 DEF BindListener, AcceptStopped, KeepAccepted, AcceptPending, ResetAccepted, DropListener
  <2> QED
    BY <2>1
<1>10. ASSUME NEW a \in Acceptors, NEW h \in Handles, ListenOne(a, h) \/ AcceptReady(a, h) PROVE LockHeld'
  BY <1>10 DEF ListenOne, AcceptReady
<1>11. ASSUME NEW w \in Watchers, WatchEnable(w) \/ WatchCheck(w) PROVE LockHeld'
  BY <1>11 DEF WatchEnable, WatchCheck
<1>12. CASE PumpPoll \/ PumpReclaim \/ PumpWoken \/ PumpInbound \/ PumpExit \/ StopFlag \/ StopNotify
  BY <1>12 DEF PumpPoll, PumpReclaim, PumpWoken, PumpInbound, PumpExit, StopFlag, StopNotify
<1>13. ASSUME NEW h \in Handles, NEW s \in SockStates, NetEvent(h, s) PROVE LockHeld'
  BY <1>13 DEF NetEvent, WakeOwners, Unpark
<1>14. CASE StopClose
  BY <1>14 DEF StopClose, Unpark
<1>15. CASE UNCHANGED vars
  BY <1>15 DEF vars
<1> HIDE DEF TypeOK, LockHeld
<1> QED
  BY <1>1, <1>2, <1>3, <1>4, <1>5, <1>6, <1>7, <1>8, <1>9, <1>10, <1>11, <1>12, <1>13, <1>14, <1>15
     DEF Next, CallerStep, CallerChoice, AcceptorStep, AcceptorChoice, PumpStep, Environment

\* No step of a listener gives it more sockets than its backlog.
LEMMA BacklogStep ==
    ASSUME StackInv, BoundInv, [Next]_vars
    PROVE  BacklogKept'
<1> USE DistinctAssumption, CapAssumption DEF StackInv, BoundInv, TypeOK, Tasks, Goto, slotVars, ownVars, listVars,
   pumpVars
<1> DEFINE Growing == {"idle", "bind", "binding", "relist"}
<1>0. ASSUME UNCHANGED backlog, \A a \in Acceptors : pc'[a] \in Growing => pc[a] = pc'[a] PROVE BacklogKept'
  BY <1>0 DEF BacklogKept
<1>f. \A a \in Acceptors : IsFiniteSet(backlog[a]) /\ Cardinality(backlog[a]) \in Nat
  BY FiniteAssumption, FS_Subset, FS_CardinalityType
<1>1. ASSUME NEW t \in Tasks, ClaimLoad(t) \/ ReclaimUnderPressure(t) \/ ClaimSlot(t) PROVE BacklogKept'
  BY <1>0, <1>1 DEF ClaimLoad, ReclaimUnderPressure, ClaimSlot, Procs
<1>2. ASSUME NEW t \in Callers, UNCHANGED backlog, NEW l, pc' = [pc EXCEPT ![t] = l] PROVE BacklogKept'
  BY <1>0, <1>2 DEF Procs
<1>3. ASSUME NEW t \in Callers, ReleaseSlot(t) \/ SignalFreed(t) \/ Dial(t) \/ BindUdp(t) \/ Redial(t) \/ GiveUp(t)
                                \/ DiscardFailed(t) \/ CancelConnect(t) \/ PollConnect(t) \/ ConnectTimeout(t)
                                \/ RetireStream(t)
      PROVE  BacklogKept'
  <2>1. UNCHANGED backlog /\ \E l : pc' = [pc EXCEPT ![t] = l]
    BY <1>3 DEF ReleaseSlot, SignalFreed, Dial, BindUdp, Redial, GiveUp, DiscardFailed, CancelConnect, DiscardMine,
       PollConnect, ConnectTimeout, RetireStream
  <2> QED
    BY <1>2, <2>1
<1>4. ASSUME NEW t \in Callers, NEW h \in Handles,
             StartConnect(t, h) \/ BindSocket(t, h) \/ DropUdp(t, h) \/ DropStream(t, h)
      PROVE  BacklogKept'
  <2>1. UNCHANGED backlog /\ \E l : pc' = [pc EXCEPT ![t] = l]
    BY <1>4 DEF StartConnect, BindSocket, DropUdp, DropStream
  <2> QED
    BY <1>2, <2>1
<1>5. ASSUME NEW p \in Procs, NEW h \in closing, ReclaimOne(p, h) PROVE BacklogKept'
  BY <1>0, <1>5 DEF ReclaimOne, AfterRemoval
<1>6. ASSUME NEW p \in Procs, ReclaimRing(p) \/ ReclaimDone(p) PROVE BacklogKept'
  <2>1. UNCHANGED backlog /\ \E l \in {"reclaim", "asleep", "claim"} : pc' = [pc EXCEPT ![p] = l]
    BY <1>6 DEF ReclaimRing, ReclaimDone
  <2> QED
    BY <1>0, <2>1
<1>7. ASSUME NEW h \in Handles, ShutdownStream(h) \/ LingerExpires(h) PROVE BacklogKept'
  BY <1>0, <1>7 DEF ShutdownStream, LingerExpires
<1>8. ASSUME NEW a \in Acceptors, NEW p \in Ports, Listen(a, p) PROVE BacklogKept'
  BY <1>8 DEF Listen, BacklogKept, Procs
<1>9. ASSUME NEW a \in Acceptors, BindListener(a) PROVE BacklogKept'
  <2>1. backlog[a] = {} /\ UNCHANGED backlog /\ \E l : pc' = [pc EXCEPT ![a] = l]
    BY <1>9 DEF BindListener, BacklogKept
  <2>2. Cardinality(backlog[a]) = 0
    BY <2>1, FS_EmptySet
  <2>3. Cardinality(backlog[a]) <= Backlog /\ Cardinality(backlog[a]) < Backlog
    BY <2>2
  <2>4. \A b \in Acceptors \ {a} : pc'[b] = pc[b]
    BY <2>1 DEF Procs
  <2> QED
    BY <2>1, <2>3, <2>4 DEF BacklogKept
<1>10. ASSUME NEW a \in Acceptors, AcceptStopped(a) \/ KeepAccepted(a) \/ AcceptPending(a) \/ ResetAccepted(a)
       PROVE  BacklogKept'
  BY <1>0, <1>10 DEF AcceptStopped, KeepAccepted, AcceptPending, ResetAccepted, Procs
<1>11. ASSUME NEW a \in Acceptors, NEW h \in Handles, ListenOne(a, h) PROVE BacklogKept'
  <2>0. Cardinality(backlog[a] \cup {h}) = IF h \in backlog[a] THEN Cardinality(backlog[a]) ELSE Cardinality(backlog[a]) + 1
    <3> HIDE DEF StackInv, BoundInv, TypeOK
    <3> QED
      BY <1>f, FS_AddElement
  <2>1. Cardinality(backlog[a] \cup {h}) <= Cardinality(backlog[a]) + 1
    BY <1>f, <2>0
  <2>2. /\ backlog' = [backlog EXCEPT ![a] = @ \cup {h}]
        /\ pc[a] \in {"binding", "relist"}
        /\ \E l \in {"accept", "binding", "load"} : pc' = [pc EXCEPT ![a] = l]
        /\ pc'[a] = "binding" => Cardinality(backlog[a]) + 1 # Backlog
    BY <1>11 DEF ListenOne, Procs
  <2>3. Cardinality(backlog[a] \cup {h}) \in Nat
    BY <1>f, FS_AddElement, FS_CardinalityType
  <2>4. Cardinality(backlog[a]) < Backlog
    BY <2>2 DEF BacklogKept
  <2>5. Cardinality(backlog'[a]) <= Backlog /\ (pc'[a] = "binding" => Cardinality(backlog'[a]) < Backlog)
    BY <1>f, <2>1, <2>2, <2>3, <2>4
  <2> QED
    BY <2>2, <2>5 DEF BacklogKept, Procs
<1>12. ASSUME NEW a \in Acceptors, NEW h \in Handles, AcceptReady(a, h) PROVE BacklogKept'
  <2>1. h \in backlog[a] /\ backlog' = [backlog EXCEPT ![a] = @ \ {h}] /\ pc' = [pc EXCEPT ![a] = "relist"]
    BY <1>12 DEF AcceptReady, Take
  <2>2. Cardinality(backlog[a] \ {h}) = Cardinality(backlog[a]) - 1
    <3> HIDE DEF StackInv, BoundInv, TypeOK
    <3> QED
      BY <1>f, <2>1, FS_RemoveElement
  <2>3. Cardinality(backlog'[a]) <= Backlog /\ Cardinality(backlog'[a]) < Backlog
    BY <1>f, <2>1, <2>2 DEF BacklogKept
  <2> QED
    BY <2>1, <2>3 DEF BacklogKept, Procs
<1>13. ASSUME NEW a \in Acceptors, DropListener(a) PROVE BacklogKept'
  BY <1>13, FS_EmptySet DEF DropListener, BacklogKept, Procs
<1>14. ASSUME NEW w \in Watchers, WatchEnable(w) \/ WatchCheck(w) PROVE BacklogKept'
  BY <1>0, <1>14 DEF WatchEnable, WatchCheck
<1>15. CASE PumpPoll \/ PumpReclaim \/ PumpWoken \/ PumpInbound \/ PumpExit \/ StopFlag \/ StopNotify
  BY <1>0, <1>15 DEF PumpPoll, PumpReclaim, PumpWoken, PumpInbound, PumpExit, StopFlag, StopNotify, Procs
<1>16. ASSUME NEW h \in Handles, NEW s \in SockStates, NetEvent(h, s) PROVE BacklogKept'
  BY <1>0, <1>16 DEF NetEvent, WakeOwners, Unpark, Procs
<1>17. CASE StopClose
  BY <1>0, <1>17 DEF StopClose, Unpark, Procs
<1>18. CASE UNCHANGED vars
  BY <1>0, <1>18 DEF vars
<1> HIDE DEF TypeOK
<1> QED
  BY <1>1, <1>3, <1>4, <1>5, <1>6, <1>7, <1>8, <1>9, <1>10, <1>11, <1>12, <1>13, <1>14, <1>15, <1>16, <1>17, <1>18
     DEF Next, CallerStep, CallerChoice, AcceptorStep, AcceptorChoice, PumpStep, Environment, Procs

\* Finitely many sets of at most n elements have at most n times as many
\* elements: their elements are counted by pairs of a set and a number.
LEMMA UnionBounded ==
    ASSUME NEW A, IsFiniteSet(A), NEW n \in Nat, NEW F,
           \A a \in A : IsFiniteSet(F[a]) /\ Cardinality(F[a]) <= n
    PROVE  /\ IsFiniteSet(UNION {F[a] : a \in A})
           /\ Cardinality(UNION {F[a] : a \in A}) <= n * Cardinality(A)
<1> DEFINE U == UNION {F[a] : a \in A}
           P == {x \in A \X (1 .. n) : x[2] <= Cardinality(F[x[1]])}
           g == [a \in A |-> CHOOSE b : b \in Bijection(1 .. Cardinality(F[a]), F[a])]
           f == [x \in P |-> g[x[1]][x[2]]]
<1>1. \A a \in A : Cardinality(F[a]) \in Nat /\ g[a] \in Bijection(1 .. Cardinality(F[a]), F[a])
  BY FS_CardinalityType DEF ExistsBijection
<1> HIDE DEF g
<1>2. \A a \in A : g[a] \in [1 .. Cardinality(F[a]) -> F[a]] /\ \A y \in F[a] : \E i \in 1 .. Cardinality(F[a]) : g[a][i] = y
  BY <1>1 DEF Bijection, Surjection, Injection
<1>3. f \in [P -> U]
  <2> SUFFICES ASSUME NEW x \in P PROVE g[x[1]][x[2]] \in U
    OBVIOUS
  <2>1. PICK a \in A, i \in 1 .. n : x = <<a, i>>
    OBVIOUS
  <2>2. i \in 1 .. Cardinality(F[a])
    BY <1>1, <2>1
  <2>3. g[a][i] \in F[a]
    BY <1>2, <2>2
  <2> QED
    BY <2>1, <2>3
<1>4. ASSUME NEW y \in U PROVE \E x \in P : f[x] = y
  <2>1. PICK a \in A : y \in F[a]
    OBVIOUS
  <2>2. PICK i \in 1 .. Cardinality(F[a]) : g[a][i] = y
    BY <1>2, <2>1
  <2>3. i \in 1 .. n
    BY <1>1, <2>2
  <2>4. <<a, i>> \in P
    BY <1>1, <2>2, <2>3
  <2> QED
    BY <2>2, <2>4
<1>5. f \in Surjection(P, U)
  BY <1>3, <1>4 DEF Surjection
<1>6. IsFiniteSet(1 .. n) /\ Cardinality(1 .. n) = n
  BY FS_Interval
<1>7. IsFiniteSet(A \X (1 .. n)) /\ Cardinality(A \X (1 .. n)) = Cardinality(A) * n
  BY <1>6, FS_Product
<1>8. P \in SUBSET (A \X (1 .. n))
  OBVIOUS
<1> HIDE DEF f, P, U
<1>9. IsFiniteSet(P) /\ Cardinality(P) <= Cardinality(A) * n
  BY <1>7, <1>8, FS_Subset
<1>10. IsFiniteSet(U) /\ Cardinality(U) <= Cardinality(P)
  BY <1>5, <1>9, FS_Surjection
<1>11. Cardinality(U) \in Nat /\ Cardinality(P) \in Nat /\ Cardinality(A) \in Nat
  BY <1>9, <1>10, FS_CardinalityType
<1> QED
  BY <1>9, <1>10, <1>11 DEF U

\* The sets that are counted are finite.
LEMMA ResetsFinite ==
    ASSUME TypeOK
    PROVE  Resets \subseteq Handles /\ IsFiniteSet(Resets) /\ IsFiniteSet(Resets \cup Ready)
<1>1. Resets \subseteq Handles /\ Resets \cup Ready \subseteq Handles
  BY DEF TypeOK, Tasks, Resets, InHand, Ready
<1> QED
  BY <1>1, FiniteAssumption, FS_Subset

\* Connections that are reset, or ready and then in hand, are counted already.
LEMMA ResetsKept ==
    ASSUME TypeOK, ResetsBounded, Polling => Polling' /\ Resets' \subseteq Resets,
           ~Polling => (Resets \cup Ready)' \subseteq Resets \cup Ready
    PROVE  ResetsBounded'
<1> DEFINE bound == (Backlog + 1) * Cardinality(Acceptors)
           Fewer(S, T) == IsFiniteSet(T) /\ S \subseteq T /\ Cardinality(T) <= bound
<1>0. bound \in Int
  <2>1. Acceptors \subseteq Tasks
    BY DEF Tasks
  <2>2. Cardinality(Acceptors) \in Nat
    BY <2>1, FiniteAssumption, FS_Subset, FS_CardinalityType
  <2> QED
    BY <2>2, CapAssumption
<1> HIDE DEF bound
<1>1. ASSUME NEW S, NEW T, Fewer(S, T) PROVE Cardinality(S) <= bound
  <2>1. IsFiniteSet(S) /\ Cardinality(S) <= Cardinality(T)
    BY <1>1, FS_Subset
  <2>2. Cardinality(S) \in Nat /\ Cardinality(T) \in Nat
    BY <1>1, <2>1, FS_CardinalityType
  <2> QED
    BY <1>0, <1>1, <2>1, <2>2
<1>2. CASE Polling
  <2>1. Fewer(Resets', Resets)
    BY <1>2, ResetsFinite DEF ResetsBounded, bound
  <2>2. Cardinality(Resets') <= bound
    BY <1>1, <2>1
  <2> QED
    BY <1>2, <2>2 DEF ResetsBounded, bound
<1>3. CASE ~Polling
  <2>1. Fewer((Resets \cup Ready)', Resets \cup Ready) /\ Fewer(Resets', Resets \cup Ready)
    BY <1>3, ResetsFinite DEF ResetsBounded, bound
  <2>2. Cardinality(Resets') <= bound /\ Cardinality((Resets \cup Ready)') <= bound
    BY <1>1, <2>1
  <2> QED
    BY <2>2 DEF ResetsBounded, bound
<1> QED
  BY <1>2, <1>3

\* So it is when nothing is accepted and nothing becomes ready.
LEMMA ResetsQuiet ==
    ASSUME TypeOK, ResetsBounded, Polling => Polling', uncounted' \subseteq uncounted, UNCHANGED backlog,
           \A a \in Acceptors : mine'[a] \in {mine[a], NoHandle} /\ \A h \in backlog[a] : sock'[h] = "Open" => sock[h] = "Open"
    PROVE  ResetsBounded'
<1>1. Resets' \subseteq Resets
  BY DEF Resets, InHand
<1>2. Ready' \subseteq Ready
  BY DEF Ready
<1> QED
  BY <1>1, <1>2, ResetsKept

\* A poll ends without resets: what is left is what listeners have in hand and
\* what is ready in their backlogs.
LEMMA PollLeaves ==
    ASSUME StackInv, BoundInv, uncounted = {}
    PROVE  Cardinality(Resets \cup Ready) <= (Backlog + 1) * Cardinality(Acceptors)
<1> DEFINE F == [a \in Acceptors |-> backlog[a] \cup {mine[a]}]
           U == UNION {F[a] : a \in Acceptors}
<1>1. IsFiniteSet(Acceptors) /\ Backlog + 1 \in Nat
  BY FiniteAssumption, FS_Subset, CapAssumption DEF Tasks
<1>2. ASSUME NEW a \in Acceptors PROVE IsFiniteSet(F[a]) /\ Cardinality(F[a]) <= Backlog + 1
  <2>1. IsFiniteSet(backlog[a]) /\ backlog[a] \subseteq Handles
    BY FiniteAssumption, FS_Subset DEF StackInv, TypeOK
  <2>2. Cardinality(backlog[a]) \in Nat /\ Cardinality(backlog[a]) <= Backlog
    BY <2>1, FS_CardinalityType DEF BoundInv, BacklogKept
  <2>3. /\ IsFiniteSet(backlog[a] \cup {mine[a]})
        /\ Cardinality(backlog[a] \cup {mine[a]})
             = IF mine[a] \in backlog[a] THEN Cardinality(backlog[a]) ELSE Cardinality(backlog[a]) + 1
    BY <2>1, FS_AddElement
  <2> QED
    BY <2>2, <2>3, CapAssumption
<1>3. Resets \cup Ready \subseteq U
  BY DEF Resets, InHand, Ready
<1> HIDE DEF F
<1>4. IsFiniteSet(U) /\ Cardinality(U) <= (Backlog + 1) * Cardinality(Acceptors)
  BY <1>1, <1>2, UnionBounded
<1> HIDE DEF U
<1>5. IsFiniteSet(Resets \cup Ready) /\ Cardinality(Resets \cup Ready) <= Cardinality(U)
  BY <1>3, <1>4, FS_Subset
<1>6. Cardinality(Resets \cup Ready) \in Nat /\ Cardinality(U) \in Nat /\ Cardinality(Acceptors) \in Nat
  BY <1>1, <1>4, <1>5, FS_CardinalityType
<1>7. (Backlog + 1) * Cardinality(Acceptors) \in Nat
  BY <1>1, <1>6
<1> QED
  BY <1>4, <1>5, <1>6, <1>7

\* Between two polls the resets, the connections in hand and the ready ones do
\* not grow in number.
LEMMA ResetsStep ==
    ASSUME StackInv, BoundInv, [Next]_vars
    PROVE  ResetsBounded'
<1> USE DistinctAssumption DEF StackInv, BoundInv, TypeOK, Tasks, Procs, Goto, slotVars, ownVars, listVars,
   pumpVars, Polling
<1>1. ASSUME NEW t \in Tasks, ClaimLoad(t) \/ ReclaimUnderPressure(t) \/ ClaimSlot(t) PROVE ResetsBounded'
  BY <1>1, ResetsQuiet DEF ClaimLoad, ReclaimUnderPressure, ClaimSlot
<1>2. ASSUME NEW t \in Callers, ReleaseSlot(t) \/ SignalFreed(t) \/ Dial(t) \/ BindUdp(t) \/ Redial(t) \/ GiveUp(t)
                                \/ PollConnect(t) \/ ConnectTimeout(t) \/ RetireStream(t)
      PROVE  ResetsBounded'
  <2>1. UNCHANGED <<backlog, sock, uncounted>> /\ \E l : pc' = [pc EXCEPT ![t] = l]
    BY <1>2 DEF ReleaseSlot, SignalFreed, Dial, BindUdp, Redial, GiveUp, PollConnect, ConnectTimeout, RetireStream,
       Retire
  <2>2. \A a \in Acceptors : mine'[a] = mine[a]
    <3>1. mine' = mine \/ mine' = [mine EXCEPT ![t] = NoHandle]
      BY <1>2 DEF ReleaseSlot, SignalFreed, Dial, BindUdp, Redial, GiveUp, PollConnect, ConnectTimeout, RetireStream
    <3> QED
      BY <3>1
  <2> QED
    BY <2>1, <2>2, ResetsQuiet
<1>3. ASSUME NEW p \in Procs, NEW h \in closing, ReclaimOne(p, h) PROVE ResetsBounded'
  <2>1. UNCHANGED <<backlog, mine>> /\ uncounted' \subseteq uncounted /\ sock' = [sock EXCEPT ![h] = "Free"]
        /\ \E l \in {"reclaim", "reclaimRing"} : pc' = [pc EXCEPT ![p] = l]
    BY <1>3 DEF ReclaimOne, Discard, AfterRemoval
  <2> QED
    BY <2>1, ResetsQuiet
<1>4. ASSUME NEW p \in Procs, ReclaimRing(p) PROVE ResetsBounded'
  BY <1>4, ResetsQuiet DEF ReclaimRing
<1>5. ASSUME NEW p \in Tasks, ReclaimDone(p) PROVE ResetsBounded'
  BY <1>5, ResetsQuiet DEF ReclaimDone
<1>6. CASE ReclaimDone(Pump)
  <2>1. UNCHANGED <<mine, sock, uncounted, backlog>> /\ Reclaimable(Pump) = {}
    BY <1>6 DEF ReclaimDone
  <2>2. uncounted = {}
    BY <2>1 DEF Reclaimable, Finished, SocketKinds
  <2>3. Resets' = Resets /\ Ready' = Ready
    BY <2>1 DEF Resets, InHand, Ready
  <2> HIDE DEF StackInv, BoundInv, TypeOK
  <2>4. Cardinality((Resets \cup Ready)') <= (Backlog + 1) * Cardinality(Acceptors)
    BY <2>2, <2>3, PollLeaves
  <2>5. Cardinality(Resets') <= (Backlog + 1) * Cardinality(Acceptors)
    BY <2>3 DEF BoundInv, ResetsBounded
  <2> QED
    BY <2>4, <2>5 DEF ResetsBounded
<1>7. ASSUME NEW t \in Callers, NEW h \in Handles,
             StartConnect(t, h) \/ BindSocket(t, h) \/ DropUdp(t, h) \/ DropStream(t, h)
      PROVE  ResetsBounded'
  <2>1. UNCHANGED <<backlog, uncounted>> /\ \E l : pc' = [pc EXCEPT ![t] = l]
    BY <1>7 DEF StartConnect, BindSocket, DropUdp, DropStream
  <2>2. \A a \in Acceptors : mine'[a] = mine[a]
    BY <1>7 DEF StartConnect, BindSocket, DropUdp, DropStream
  <2>3. \E l \in {"SynSent", "Closed", "Udp", "Free", Close(sock[h])} : sock' = [sock EXCEPT ![h] = l]
    BY <1>7 DEF StartConnect, BindSocket, DropUdp, DropStream, Discard
  <2>4. \A g \in Handles : sock'[g] = "Open" => sock[g] = "Open"
    BY <2>3 DEF Close
  <2> QED
    BY <2>1, <2>2, <2>4, ResetsQuiet
<1>8. ASSUME NEW t \in Callers, DiscardFailed(t) \/ CancelConnect(t) PROVE ResetsBounded'
  <2>1. UNCHANGED <<backlog, uncounted>> /\ \E l : pc' = [pc EXCEPT ![t] = l]
    BY <1>8 DEF DiscardFailed, CancelConnect, DiscardMine
  <2>2. \A a \in Acceptors : mine'[a] = mine[a]
    BY <1>8 DEF DiscardFailed, CancelConnect, DiscardMine
  <2>3. \A g \in Handles : sock'[g] = "Open" => sock[g] = "Open"
    BY <1>8 DEF DiscardFailed, CancelConnect, DiscardMine, Discard
  <2> QED
    BY <2>1, <2>2, <2>3, ResetsQuiet
<1>9. ASSUME NEW h \in Handles, ShutdownStream(h) \/ LingerExpires(h) PROVE ResetsBounded'
  <2>1. UNCHANGED <<pc, mine, backlog, uncounted>> /\ \A g \in Handles : sock'[g] = "Open" => sock[g] = "Open"
    BY <1>9 DEF ShutdownStream, LingerExpires, Close
  <2> QED
    BY <2>1, ResetsQuiet
<1>10. ASSUME NEW a \in Acceptors, NEW p \in Ports, Listen(a, p) PROVE ResetsBounded'
  BY <1>10, ResetsQuiet DEF Listen
<1>11. ASSUME NEW a \in Acceptors, BindListener(a) \/ AcceptStopped(a) \/ KeepAccepted(a) \/ AcceptPending(a)
       PROVE  ResetsBounded'
  <2>1. UNCHANGED <<backlog, uncounted>> /\ \E l : pc' = [pc EXCEPT ![a] = l]
    BY <1>11 DEF BindListener, AcceptStopped, KeepAccepted, AcceptPending
  <2>2. \A b \in Acceptors : mine'[b] \in {mine[b], NoHandle}
    BY <1>11 DEF BindListener, AcceptStopped, KeepAccepted, AcceptPending
  <2>3. \A g \in Handles : sock'[g] = "Open" => sock[g] = "Open"
    BY <1>11 DEF BindListener, AcceptStopped, KeepAccepted, AcceptPending
  <2> QED
    BY <2>1, <2>2, <2>3, ResetsQuiet
<1>12. ASSUME NEW a \in Acceptors, NEW h \in Handles, ListenOne(a, h) PROVE ResetsBounded'
  <2>1. ~Polling /\ UNCHANGED <<mine, uncounted>> /\ sock[h] = "Free" /\ sock' = [sock EXCEPT ![h] = "Listen"]
        /\ backlog' = [backlog EXCEPT ![a] = @ \cup {h}]
    BY <1>12 DEF ListenOne, FreeHandles, LockHeld
  <2>2. Resets' = Resets /\ Ready' \subseteq Ready
    BY <2>1 DEF Resets, InHand, Ready
  <2> QED
    BY <2>1, <2>2, ResetsKept
<1>13. ASSUME NEW a \in Acceptors, NEW h \in Handles, AcceptReady(a, h) PROVE ResetsBounded'
  <2>1. ~Polling /\ UNCHANGED uncounted /\ h \in backlog[a] /\ sock[h] = "Open" /\ mine' = [mine EXCEPT ![a] = h]
        /\ backlog' = [backlog EXCEPT ![a] = @ \ {h}]
    BY <1>13 DEF AcceptReady, LockHeld, Take
  <2>2. \A g \in Handles : sock'[g] = "Open" => sock[g] = "Open"
    BY <1>13 DEF AcceptReady
  <2>3. h \in Ready /\ Ready' \subseteq Ready /\ Resets' \subseteq Resets \cup {h}
    BY <2>1, <2>2 DEF Resets, InHand, Ready
  <2> QED
    BY <2>1, <2>3, ResetsKept
<1>14. ASSUME NEW a \in Acceptors, ResetAccepted(a) PROVE ResetsBounded'
  <2>1. ~Polling /\ UNCHANGED backlog /\ mine[a] \in Handles /\ uncounted' = uncounted \cup {mine[a]}
        /\ mine' = [mine EXCEPT ![a] = NoHandle] /\ sock' = [sock EXCEPT ![mine[a]] = Abort(@)]
    BY <1>14 DEF ResetAccepted, LockHeld, Retire, Carrying, CarryingPcs
  <2>2. \A g \in Handles : sock'[g] = "Open" => sock[g] = "Open"
    BY <2>1 DEF Abort
  <2>3. Ready' \subseteq Ready /\ Resets' \subseteq Resets
    BY <2>1, <2>2 DEF Resets, InHand, Ready
  <2> QED
    BY <2>1, <2>3, ResetsKept
<1>15. ASSUME NEW a \in Acceptors, DropListener(a) PROVE ResetsBounded'
  <2>1. ~Polling /\ UNCHANGED <<mine, uncounted>> /\ backlog' = [backlog EXCEPT ![a] = {}]
        /\ \A g \in Handles : sock'[g] = "Open" => sock[g] = "Open"
    BY <1>15 DEF DropListener, LockHeld
  <2>2. Resets' = Resets /\ Ready' \subseteq Ready
    BY <2>1 DEF Resets, InHand, Ready
  <2> QED
    BY <2>1, <2>2, ResetsKept
<1>16. ASSUME NEW w \in Watchers, WatchEnable(w) \/ WatchCheck(w) PROVE ResetsBounded'
  BY <1>16, ResetsQuiet DEF WatchEnable, WatchCheck
<1>17. CASE PumpPoll \/ PumpReclaim \/ PumpWoken \/ PumpInbound \/ PumpExit \/ StopFlag \/ StopNotify
  BY <1>17, ResetsQuiet DEF PumpPoll, PumpReclaim, PumpWoken, PumpInbound, PumpExit, StopFlag, StopNotify
<1>18. ASSUME NEW h \in Handles, NEW s \in SockStates, NetEvent(h, s) PROVE ResetsBounded'
  <2>1. Polling /\ Polling' /\ UNCHANGED <<mine, uncounted>>
    BY <1>18 DEF NetEvent, WakeOwners
  <2>2. Resets' = Resets
    BY <2>1 DEF Resets, InHand
  <2> QED
    BY <2>1, <2>2, ResetsKept
<1>19. CASE StopClose
  <2>1. ~Polling /\ UNCHANGED <<mine, backlog, uncounted>> /\ \A g \in Handles : sock'[g] = "Open" => sock[g] = "Open"
    BY <1>19 DEF StopClose, Abort
  <2> QED
    BY <2>1, ResetsQuiet
<1>20. CASE UNCHANGED vars
  BY <1>20, ResetsQuiet DEF vars
<1> HIDE DEF TypeOK
<1> QED
  BY <1>1, <1>2, <1>3, <1>4, <1>5, <1>6, <1>7, <1>8, <1>9, <1>10, <1>11, <1>12, <1>13, <1>14, <1>15, <1>16, <1>17,
     <1>18, <1>19, <1>20
     DEF Next, CallerStep, CallerChoice, AcceptorStep, AcceptorChoice, PumpStep, Environment

\* A stack that has just started has no sockets to count.
LEMMA BoundInvInit == Init => BoundInv
<1> SUFFICES ASSUME Init PROVE BoundInv
  OBVIOUS
<1>1. SocketKinds /\ LockHeld
  BY DistinctAssumption DEF Init, SocketKinds, LockHeld, Polling, Procs
<1>2. BacklogKept
  BY DistinctAssumption, CapAssumption, FS_EmptySet DEF Init, BacklogKept, Procs, Tasks
<1>3. Resets = {} /\ Resets \cup Ready = {}
  BY DEF Init, Resets, InHand, Ready, Tasks
<1>4. Cardinality(Acceptors) \in Nat
  BY FiniteAssumption, FS_Subset, FS_CardinalityType DEF Tasks
<1>5. 0 <= (Backlog + 1) * Cardinality(Acceptors)
  BY <1>4, CapAssumption
<1>6. ResetsBounded
  BY <1>3, <1>5, FS_EmptySet DEF ResetsBounded
<1> QED
  BY <1>1, <1>2, <1>6 DEF BoundInv

\* BoundInv holds of every state, together with StackInv.
LEMMA BoundInvariant == Spec => []BoundInv
<1>1. StackInv /\ BoundInv /\ [Next]_vars => BoundInv'
  BY KindsStep, LockStep, BacklogStep, ResetsStep DEF BoundInv
<1> QED
  BY <1>1, BoundInvInit, StackInvariant, PTL DEF Spec

\* The sockets that slots are charged for: those of callers at work, the live
\* ones and the retired ones are no more than the slots.
LEMMA ChargedSockets ==
    ASSUME StackInv, NEW C, C = {h \in Handles : h \in streams \cup udps \cup (closing \ uncounted)
                                                 \/ \E t \in Callers : mine[t] = h}
    PROVE  IsFiniteSet(C) /\ Cardinality(C) <= MaxSockets
<1> DEFINE Live == streams \cup udps \cup (closing \ uncounted)
           f == [h \in C |-> IF h \in Live THEN h ELSE CHOOSE t \in Callers : mine[t] = h]
<1>1. \A h \in C : (h \in Live /\ f[h] = h) \/ (h \notin Live /\ f[h] \in Callers /\ mine[f[h]] = h)
  OBVIOUS
<1>2. \A h \in C : h \in Handles
  OBVIOUS
<1> HIDE DEF f
<1>3. \A h \in C : f[h] \in Charged
  BY <1>1, <1>2, DistinctAssumption
     DEF StackInv, Carrying, CarryingPcs, Charged, Holders, HoldingPcs, Tasks
<1>4. \A h, g \in C : f[h] = f[g] => h = g
  BY <1>1, <1>2, DistinctAssumption DEF Tasks
<1>5. f \in Injection(C, Charged)
  BY <1>3, <1>4 DEF f, Injection, IsInjective
<1>6. IsFiniteSet(C) /\ Cardinality(C) <= Cardinality(Charged)
  BY <1>5, ChargedFinite, FS_Injection
<1>7. Cardinality(C) \in Nat /\ Cardinality(Charged) = open /\ open <= MaxSockets /\ open \in Nat
  BY <1>6, FS_CardinalityType DEF StackInv, SlotsAccounted, TypeOK
<1> QED
  BY <1>6, <1>7, CapAssumption

\* Every entry of the socket set is charged a slot, in a listener's backlog, in
\* its hand or a reset: adding up the four gives the bound.
LEMMA SocketsCounted ==
    ASSUME StackInv, BoundInv
    PROVE  SocketsBounded
<1> DEFINE C == {h \in Handles : h \in streams \cup udps \cup (closing \ uncounted) \/ \E t \in Callers : mine[t] = h}
           L == UNION {backlog[a] : a \in Acceptors}
           S == {h \in Handles : sock[h] # "Free"}
           n == Cardinality(Acceptors)
<1>1. IsFiniteSet(C) /\ Cardinality(C) <= MaxSockets
  BY ChargedSockets
<1>2. IsFiniteSet(Acceptors)
  BY FiniteAssumption, FS_Subset DEF Tasks
<1>3. \A a \in Acceptors : IsFiniteSet(backlog[a]) /\ Cardinality(backlog[a]) <= Backlog
  BY FiniteAssumption, FS_Subset DEF StackInv, TypeOK, BoundInv, BacklogKept
<1>4. IsFiniteSet(L) /\ Cardinality(L) <= Backlog * n
  BY <1>2, <1>3, UnionBounded, CapAssumption
<1>5. IsFiniteSet(Resets) /\ Cardinality(Resets) <= (Backlog + 1) * n
  BY ResetsFinite DEF StackInv, BoundInv, ResetsBounded
<1>6. S \subseteq (C \cup L) \cup Resets
  <2> SUFFICES ASSUME NEW h \in S PROVE h \in (C \cup L) \cup Resets
    OBVIOUS
  <2>1. h \in streams \cup udps \cup closing \/ \E t \in Tasks : h \in OwnedBy(t)
    BY DEF StackInv, HandlesOwnedOnce
  <2>2. CASE h \in streams \cup udps \cup closing
    BY <2>2 DEF Resets
  <2>3. ASSUME NEW t \in Tasks, h \in OwnedBy(t) PROVE h \in (C \cup L) \cup Resets
    BY <2>3 DEF OwnedBy, Held, Tasks, Resets, InHand
  <2> QED
    BY <2>1, <2>2, <2>3
<1> HIDE DEF C, L, S
<1>7. ASSUME NEW X, NEW Y, IsFiniteSet(X), IsFiniteSet(Y)
      PROVE  IsFiniteSet(X \cup Y) /\ Cardinality(X \cup Y) <= Cardinality(X) + Cardinality(Y)
             /\ Cardinality(X \cup Y) \in Nat /\ Cardinality(X) \in Nat /\ Cardinality(Y) \in Nat
  <2>1. IsFiniteSet(X \cup Y) /\ Cardinality(X \cup Y) = Cardinality(X) + Cardinality(Y) - Cardinality(X \cap Y)
        /\ IsFiniteSet(X \cap Y)
    BY <1>7, FS_Union, FS_Intersection
  <2>2. Cardinality(X \cup Y) \in Nat /\ Cardinality(X) \in Nat /\ Cardinality(Y) \in Nat /\ Cardinality(X \cap Y) \in Nat
    BY <1>7, <2>1, FS_CardinalityType
  <2> QED
    BY <2>1, <2>2
<1>8. IsFiniteSet(C \cup L) /\ Cardinality(C \cup L) <= Cardinality(C) + Cardinality(L)
  BY <1>1, <1>4, <1>7
<1>9. IsFiniteSet((C \cup L) \cup Resets)
      /\ Cardinality((C \cup L) \cup Resets) <= Cardinality(C \cup L) + Cardinality(Resets)
  BY <1>5, <1>7, <1>8
<1>10. IsFiniteSet(S) /\ Cardinality(S) <= Cardinality((C \cup L) \cup Resets)
  BY <1>6, <1>9, FS_Subset
<1>11. /\ Cardinality(C) \in Nat /\ Cardinality(L) \in Nat /\ Cardinality(Resets) \in Nat /\ Cardinality(S) \in Nat
       /\ Cardinality(C \cup L) \in Nat /\ Cardinality((C \cup L) \cup Resets) \in Nat /\ n \in Nat
  BY <1>1, <1>2, <1>4, <1>5, <1>8, <1>9, <1>10, FS_CardinalityType
<1> HIDE DEF n
<1>12. Backlog * n \in Nat /\ (Backlog + 1) * n \in Nat /\ (2 * Backlog + 1) * n = Backlog * n + (Backlog + 1) * n
  BY <1>11, CapAssumption
<1>13. Cardinality(S) <= MaxSockets + (2 * Backlog + 1) * n
  BY <1>1, <1>4, <1>5, <1>8, <1>9, <1>10, <1>11, <1>12, CapAssumption
<1> QED
  BY <1>13 DEF SocketsBounded, S, n

\* The socket set never has more entries than the capped sockets and, for each
\* listener, its backlog, a connection in hand and a backlog of resets: what a
\* flood of inbound connections can make the tunnel hold is fixed beforehand.
THEOREM SocketsCorrect == Spec => []SocketsBounded
<1>1. StackInv /\ BoundInv => SocketsBounded
  BY SocketsCounted
<1> QED
  BY <1>1, StackInvariant, BoundInvariant, PTL

=============================================================================
