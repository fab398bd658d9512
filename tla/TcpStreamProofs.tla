------------------------- MODULE TcpStreamProofs -------------------------
(* Proofs about TcpStream, for buffers of any size and any number of bytes:  *)
(* no call is stranded, the pump is told, and the answers are true.          *)
EXTENDS TcpStream, TLAPS

\* What the writer has handed over is in the buffer or acknowledged; what has
\* arrived is in the buffer, handed out, or lost with the end of TimeWait, which
\* follows a half-close only; and the peer was never offered more than the receive
\* buffer has room for.
CountInv ==
    /\ accepted = acked + tx /\ arrived = given + rx + lost
    /\ rx + window <= Room
    /\ mine # "open" => shutDown
    /\ ~dead => lost = 0
    /\ lost > 0 => mine = "acked" /\ theirs = "last"

\* A segment on its way still fits the socket it is for.
LinkInv ==
    /\ link = "data" => window > 0 /\ theirs = "open" /\ arrived < MaxBytes
    /\ link = "ack" => tx > unsent \/ mine = "sent"

\* The end was reported with an empty buffer that nothing fills any more.
EndInv == (eof => rx = 0 /\ (theirs # "open" \/ dead)) /\ flushed <= acked

\* As PumpTold, also while a segment waits for the pump.
ToldInv == pump = "select" /\ delay = "none" /\ ~rung /\ HasWork => "ring" \in {reader, writer}

TcpInv == TypeOK /\ CountInv /\ LinkInv /\ EndInv /\ NoStrandedHalf /\ ToldInv

\* A fresh connection satisfies the invariant.
LEMMA TcpInit == Init => TcpInv
<1> SUFFICES ASSUME Init PROVE TcpInv
  OBVIOUS
<1> USE TcpAssumption DEF Init
<1>1. TypeOK
  <2>1. /\ dead \in BOOLEAN /\ owed \in BOOLEAN /\ eof \in BOOLEAN
        /\ rung \in BOOLEAN /\ shutDown \in BOOLEAN
    OBVIOUS
  <2> QED
    BY <2>1 DEF TypeOK
<1>2. CountInv /\ LinkInv /\ EndInv
  BY DEF CountInv, LinkInv, EndInv
<1>3. NoStrandedHalf /\ ToldInv
  BY DEF NoStrandedHalf, ToldInv
<1> QED
  BY <1>1, <1>2, <1>3 DEF TcpInv

\* Every step keeps the types.
LEMMA TypeNext == TypeOK /\ CountInv /\ LinkInv /\ [Next]_vars => TypeOK'
<1> SUFFICES ASSUME TypeOK, CountInv, LinkInv, [Next]_vars PROVE TypeOK'
  OBVIOUS
<1> USE TcpAssumption DEF callVars, sockVars, histVars, pumpVars, TypeOK, CountInv, LinkInv
<1>1. CASE ReadEnd
  BY <1>1 DEF ReadEnd, AtEnd, MayRecv
<1>2. ASSUME NEW n \in 1 .. Room, ReadSome(n) PROVE TypeOK'
  BY <1>2 DEF ReadSome, AtEnd, MayRecv
<1>3. CASE ReadParks
  BY <1>3 DEF ReadParks, AtEnd, MayRecv
<1>4. CASE ReadRings
  BY <1>4 DEF ReadRings, RingRead
<1>5. CASE ReadDropped
  BY <1>5 DEF ReadDropped
<1>6. CASE WriteFails
  BY <1>6 DEF WriteFails, WriteFree, Leaves, MaySend
<1>7. ASSUME NEW n \in 1 .. Room, WriteSome(n) PROVE TypeOK'
  BY <1>7 DEF WriteSome, WriteFree, Leaves, MaySend
<1>8. CASE WriteParks
  BY <1>8 DEF WriteParks, WriteFree, Leaves, MaySend, RegisterSend
<1>9. CASE FlushDone
  BY <1>9 DEF FlushDone, WriteFree, Leaves
<1>10. CASE FlushFails
  BY <1>10 DEF FlushFails, WriteFree, Leaves
<1>11. CASE FlushParks
  BY <1>11 DEF FlushParks, WriteFree, Leaves, RegisterSend
<1>12. CASE Shutdown
  <2>1. /\ dead' \in BOOLEAN /\ owed' \in BOOLEAN /\ eof' \in BOOLEAN
        /\ rung' \in BOOLEAN /\ shutDown' \in BOOLEAN
    BY <1>12 DEF Shutdown, WriteFree, MaySend
  <2> QED
    BY <2>1, <1>12 DEF Shutdown, WriteFree, MaySend
<1>13. CASE WriteRings
  BY <1>13 DEF WriteRings
<1>14. CASE WriteDropped
  BY <1>14 DEF WriteDropped, Leaves
<1>15. CASE Receive
  <2>1. /\ dead' \in BOOLEAN /\ owed' \in BOOLEAN /\ eof' \in BOOLEAN
        /\ rung' \in BOOLEAN /\ shutDown' \in BOOLEAN
    BY <1>15 DEF Receive, Process, Wake
  <2>2. woken' \subseteq {"tx", "rx"} /\ waker' \subseteq {"tx", "rx"}
    BY <1>15 DEF Receive, Process, Wake
  <2>3. CASE ~dead /\ link = "data"
    <3>1. /\ rx' = rx + 1 /\ arrived' = arrived + 1 /\ window' = window - 1
          /\ UNCHANGED <<mine, theirs, tx, unsent, accepted, acked, flushed, given>>
      BY <1>15, <2>3 DEF Receive, Process
    <3> QED
      BY <1>15, <2>1, <2>2, <2>3, <3>1 DEF Receive
  <2>4. CASE ~dead /\ link = "ack"
    BY <1>15, <2>1, <2>2, <2>4 DEF Receive, Process
  <2>5. CASE dead \/ link \notin {"data", "ack"}
    BY <1>15, <2>1, <2>2, <2>5 DEF Receive, Process
  <2> QED
    BY <2>3, <2>4, <2>5
<1>16. ASSUME NEW full \in BOOLEAN, NEW late \in BOOLEAN, Transmit(full, late) PROVE TypeOK'
  <2>1. /\ dead' \in BOOLEAN /\ owed' \in BOOLEAN /\ eof' \in BOOLEAN
        /\ rung' \in BOOLEAN /\ shutDown' \in BOOLEAN
    BY <1>16 DEF Transmit, NextPoll, TimeWait
  <2> QED
    BY <2>1, <1>16 DEF Transmit, NextPoll, TimeWait
<1>17. CASE Select
  <2>1. /\ dead' \in BOOLEAN /\ owed' \in BOOLEAN /\ eof' \in BOOLEAN
        /\ rung' \in BOOLEAN /\ shutDown' \in BOOLEAN
    BY <1>17 DEF Select
  <2> QED
    BY <2>1, <1>17 DEF Select
<1>18. CASE Stop
  <2>1. /\ dead' \in BOOLEAN /\ owed' \in BOOLEAN /\ eof' \in BOOLEAN
        /\ rung' \in BOOLEAN /\ shutDown' \in BOOLEAN
    BY <1>18 DEF Stop, Wake
  <2> QED
    BY <2>1, <1>18 DEF Stop, Wake
<1>19. ASSUME NEW k \in {"data", "ack", "fin", "reset"}, PeerSends(k) PROVE TypeOK'
  BY <1>19 DEF PeerSends
<1>20. CASE UNCHANGED vars
  BY <1>20 DEF vars
<1>21. CASE TimeWaitExpires
  BY <1>21 DEF TimeWaitExpires, TimeWait, Wake
<1> QED
  BY <1>1, <1>2, <1>3, <1>4, <1>5, <1>6, <1>7, <1>8, <1>9, <1>10, <1>11, <1>12, <1>13, <1>14,
     <1>15, <1>16, <1>17, <1>18, <1>19, <1>20, <1>21 DEF Next, StreamNext, PumpNext

\* Every step keeps the counts.
LEMMA CountNext == TypeOK /\ CountInv /\ LinkInv /\ [Next]_vars => CountInv'
<1> SUFFICES ASSUME TypeOK, CountInv, LinkInv, [Next]_vars PROVE CountInv'
  OBVIOUS
<1> USE TcpAssumption DEF callVars, sockVars, histVars, pumpVars, TypeOK, CountInv, LinkInv
<1>1. CASE ReadEnd
  BY <1>1 DEF ReadEnd, AtEnd, MayRecv
<1>2. ASSUME NEW n \in 1 .. Room, ReadSome(n) PROVE CountInv'
  BY <1>2 DEF ReadSome, AtEnd, MayRecv
<1>3. CASE ReadParks
  BY <1>3 DEF ReadParks, AtEnd, MayRecv
<1>4. CASE ReadRings
  BY <1>4 DEF ReadRings, RingRead
<1>5. CASE ReadDropped
  BY <1>5 DEF ReadDropped
<1>6. CASE WriteFails
  BY <1>6 DEF WriteFails, WriteFree, Leaves, MaySend
<1>7. ASSUME NEW n \in 1 .. Room, WriteSome(n) PROVE CountInv'
  BY <1>7 DEF WriteSome, WriteFree, Leaves, MaySend
<1>8. CASE WriteParks
  BY <1>8 DEF WriteParks, WriteFree, Leaves, MaySend, RegisterSend
<1>9. CASE FlushDone
  BY <1>9 DEF FlushDone, WriteFree, Leaves
<1>10. CASE FlushFails
  BY <1>10 DEF FlushFails, WriteFree, Leaves
<1>11. CASE FlushParks
  BY <1>11 DEF FlushParks, WriteFree, Leaves, RegisterSend
<1>12. CASE Shutdown
  BY <1>12 DEF Shutdown, WriteFree, MaySend
<1>13. CASE WriteRings
  BY <1>13 DEF WriteRings
<1>14. CASE WriteDropped
  BY <1>14 DEF WriteDropped, Leaves
<1>15. CASE Receive
  <2>1. CASE ~dead /\ link = "data"
    <3>1. /\ rx' = rx + 1 /\ arrived' = arrived + 1 /\ window' = window - 1
          /\ UNCHANGED <<accepted, acked, tx, given, lost, mine, theirs, dead, shutDown>>
      BY <1>15, <2>1 DEF Receive, Process
    <3> QED
      BY <2>1, <3>1
  <2>2. CASE ~dead /\ link = "ack"
    BY <1>15, <2>2 DEF Receive, Process
  <2>3. CASE dead \/ link \notin {"data", "ack"}
    BY <1>15, <2>3 DEF Receive, Process
  <2> QED
    BY <2>1, <2>2, <2>3
<1>16. ASSUME NEW full \in BOOLEAN, NEW late \in BOOLEAN, Transmit(full, late) PROVE CountInv'
  BY <1>16 DEF Transmit, NextPoll, TimeWait
<1>17. CASE Select
  BY <1>17 DEF Select
<1>18. CASE Stop
  BY <1>18 DEF Stop, Wake
<1>19. ASSUME NEW k \in {"data", "ack", "fin", "reset"}, PeerSends(k) PROVE CountInv'
  BY <1>19 DEF PeerSends
<1>20. CASE UNCHANGED vars
  BY <1>20 DEF vars
<1>21. CASE TimeWaitExpires
  BY <1>21 DEF TimeWaitExpires, TimeWait, Wake
<1> QED
  BY <1>1, <1>2, <1>3, <1>4, <1>5, <1>6, <1>7, <1>8, <1>9, <1>10, <1>11, <1>12, <1>13, <1>14,
     <1>15, <1>16, <1>17, <1>18, <1>19, <1>20, <1>21 DEF Next, StreamNext, PumpNext

\* Every step leaves the segment on its way deliverable.
LEMMA LinkNext == TypeOK /\ CountInv /\ LinkInv /\ [Next]_vars => LinkInv'
<1> SUFFICES ASSUME TypeOK, CountInv, LinkInv, [Next]_vars PROVE LinkInv'
  OBVIOUS
<1> USE TcpAssumption DEF callVars, sockVars, histVars, pumpVars, TypeOK, CountInv, LinkInv
<1>1. CASE ReadEnd
  BY <1>1 DEF ReadEnd, AtEnd, MayRecv
<1>2. ASSUME NEW n \in 1 .. Room, ReadSome(n) PROVE LinkInv'
  BY <1>2 DEF ReadSome, AtEnd, MayRecv
<1>3. CASE ReadParks
  BY <1>3 DEF ReadParks, AtEnd, MayRecv
<1>4. CASE ReadRings
  BY <1>4 DEF ReadRings, RingRead
<1>5. CASE ReadDropped
  BY <1>5 DEF ReadDropped
<1>6. CASE WriteFails
  BY <1>6 DEF WriteFails, WriteFree, Leaves, MaySend
<1>7. ASSUME NEW n \in 1 .. Room, WriteSome(n) PROVE LinkInv'
  BY <1>7 DEF WriteSome, WriteFree, Leaves, MaySend
<1>8. CASE WriteParks
  BY <1>8 DEF WriteParks, WriteFree, Leaves, MaySend, RegisterSend
<1>9. CASE FlushDone
  BY <1>9 DEF FlushDone, WriteFree, Leaves
<1>10. CASE FlushFails
  BY <1>10 DEF FlushFails, WriteFree, Leaves
<1>11. CASE FlushParks
  BY <1>11 DEF FlushParks, WriteFree, Leaves, RegisterSend
<1>12. CASE Shutdown
  BY <1>12 DEF Shutdown, WriteFree, MaySend
<1>13. CASE WriteRings
  BY <1>13 DEF WriteRings
<1>14. CASE WriteDropped
  BY <1>14 DEF WriteDropped, Leaves
<1>15. CASE Receive
  BY <1>15 DEF Receive, Process, Wake
<1>16. ASSUME NEW full \in BOOLEAN, NEW late \in BOOLEAN, Transmit(full, late) PROVE LinkInv'
  BY <1>16 DEF Transmit, NextPoll, TimeWait
<1>17. CASE Select
  BY <1>17 DEF Select
<1>18. CASE Stop
  BY <1>18 DEF Stop, Wake
<1>19. ASSUME NEW k \in {"data", "ack", "fin", "reset"}, PeerSends(k) PROVE LinkInv'
  BY <1>19 DEF PeerSends
<1>20. CASE UNCHANGED vars
  BY <1>20 DEF vars
<1>21. CASE TimeWaitExpires
  BY <1>21 DEF TimeWaitExpires, TimeWait, Wake
<1> QED
  BY <1>1, <1>2, <1>3, <1>4, <1>5, <1>6, <1>7, <1>8, <1>9, <1>10, <1>11, <1>12, <1>13, <1>14,
     <1>15, <1>16, <1>17, <1>18, <1>19, <1>20, <1>21 DEF Next, StreamNext, PumpNext

\* Every step keeps the end final and the flushes true.
LEMMA EndNext == TypeOK /\ CountInv /\ LinkInv /\ EndInv /\ [Next]_vars => EndInv'
<1> SUFFICES ASSUME TypeOK, CountInv, LinkInv, EndInv, [Next]_vars PROVE EndInv'
  OBVIOUS
<1> USE TcpAssumption DEF callVars, sockVars, histVars, pumpVars, TypeOK, CountInv, LinkInv,
        EndInv
<1>1. CASE ReadEnd
  BY <1>1 DEF ReadEnd, AtEnd, MayRecv
<1>2. ASSUME NEW n \in 1 .. Room, ReadSome(n) PROVE EndInv'
  BY <1>2 DEF ReadSome, AtEnd, MayRecv
<1>3. CASE ReadParks
  BY <1>3 DEF ReadParks, AtEnd, MayRecv
<1>4. CASE ReadRings
  BY <1>4 DEF ReadRings, RingRead
<1>5. CASE ReadDropped
  BY <1>5 DEF ReadDropped
<1>6. CASE WriteFails
  BY <1>6 DEF WriteFails, WriteFree, Leaves, MaySend
<1>7. ASSUME NEW n \in 1 .. Room, WriteSome(n) PROVE EndInv'
  BY <1>7 DEF WriteSome, WriteFree, Leaves, MaySend
<1>8. CASE WriteParks
  BY <1>8 DEF WriteParks, WriteFree, Leaves, MaySend, RegisterSend
<1>9. CASE FlushDone
  BY <1>9 DEF FlushDone, WriteFree, Leaves
<1>10. CASE FlushFails
  BY <1>10 DEF FlushFails, WriteFree, Leaves
<1>11. CASE FlushParks
  BY <1>11 DEF FlushParks, WriteFree, Leaves, RegisterSend
<1>12. CASE Shutdown
  BY <1>12 DEF Shutdown, WriteFree, MaySend
<1>13. CASE WriteRings
  BY <1>13 DEF WriteRings
<1>14. CASE WriteDropped
  BY <1>14 DEF WriteDropped, Leaves
<1>15. CASE Receive
  BY <1>15 DEF Receive, Process, Wake
<1>16. ASSUME NEW full \in BOOLEAN, NEW late \in BOOLEAN, Transmit(full, late) PROVE EndInv'
  BY <1>16 DEF Transmit, NextPoll, TimeWait
<1>17. CASE Select
  BY <1>17 DEF Select
<1>18. CASE Stop
  BY <1>18 DEF Stop, Wake
<1>19. ASSUME NEW k \in {"data", "ack", "fin", "reset"}, PeerSends(k) PROVE EndInv'
  BY <1>19 DEF PeerSends
<1>20. CASE UNCHANGED vars
  BY <1>20 DEF vars
<1>21. CASE TimeWaitExpires
  BY <1>21 DEF TimeWaitExpires, TimeWait, Wake
<1> QED
  BY <1>1, <1>2, <1>3, <1>4, <1>5, <1>6, <1>7, <1>8, <1>9, <1>10, <1>11, <1>12, <1>13, <1>14,
     <1>15, <1>16, <1>17, <1>18, <1>19, <1>20, <1>21 DEF Next, StreamNext, PumpNext

\* Every step leaves each parked call with its waker.
LEMMA StrandedNext == TypeOK /\ NoStrandedHalf /\ [Next]_vars => NoStrandedHalf'
<1> SUFFICES ASSUME TypeOK, NoStrandedHalf, [Next]_vars PROVE NoStrandedHalf'
  OBVIOUS
<1> USE TcpAssumption DEF callVars, sockVars, histVars, pumpVars, TypeOK, NoStrandedHalf
<1>1. CASE ReadEnd
  BY <1>1 DEF ReadEnd, AtEnd, MayRecv
<1>2. ASSUME NEW n \in 1 .. Room, ReadSome(n) PROVE NoStrandedHalf'
  BY <1>2 DEF ReadSome, AtEnd, MayRecv
<1>3. CASE ReadParks
  BY <1>3 DEF ReadParks, AtEnd, MayRecv
<1>4. CASE ReadRings
  BY <1>4 DEF ReadRings, RingRead
<1>5. CASE ReadDropped
  BY <1>5 DEF ReadDropped
<1>6. CASE WriteFails
  BY <1>6 DEF WriteFails, WriteFree, Leaves, MaySend
<1>7. ASSUME NEW n \in 1 .. Room, WriteSome(n) PROVE NoStrandedHalf'
  BY <1>7 DEF WriteSome, WriteFree, Leaves, MaySend
<1>8. CASE WriteParks
  BY <1>8 DEF WriteParks, WriteFree, Leaves, MaySend, RegisterSend
<1>9. CASE FlushDone
  BY <1>9 DEF FlushDone, WriteFree, Leaves
<1>10. CASE FlushFails
  BY <1>10 DEF FlushFails, WriteFree, Leaves
<1>11. CASE FlushParks
  BY <1>11 DEF FlushParks, WriteFree, Leaves, RegisterSend
<1>12. CASE Shutdown
  BY <1>12 DEF Shutdown, WriteFree, MaySend
<1>13. CASE WriteRings
  BY <1>13 DEF WriteRings
<1>14. CASE WriteDropped
  BY <1>14 DEF WriteDropped, Leaves
<1>15. CASE Receive
  BY <1>15 DEF Receive, Process, Wake
<1>16. ASSUME NEW full \in BOOLEAN, NEW late \in BOOLEAN, Transmit(full,
              late) PROVE NoStrandedHalf'
  BY <1>16 DEF Transmit, NextPoll, TimeWait
<1>17. CASE Select
  BY <1>17 DEF Select
<1>18. CASE Stop
  BY <1>18 DEF Stop, Wake
<1>19. ASSUME NEW k \in {"data", "ack", "fin", "reset"}, PeerSends(k) PROVE NoStrandedHalf'
  BY <1>19 DEF PeerSends
<1>20. CASE UNCHANGED vars
  BY <1>20 DEF vars
<1>21. CASE TimeWaitExpires
  BY <1>21 DEF TimeWaitExpires, TimeWait, Wake
<1> QED
  BY <1>1, <1>2, <1>3, <1>4, <1>5, <1>6, <1>7, <1>8, <1>9, <1>10, <1>11, <1>12, <1>13, <1>14,
     <1>15, <1>16, <1>17, <1>18, <1>19, <1>20, <1>21 DEF Next, StreamNext, PumpNext

\* Whatever gives the pump work is about to ring it.
LEMMA ToldNext == TypeOK /\ ToldInv /\ [Next]_vars => ToldInv'
<1> SUFFICES ASSUME TypeOK, ToldInv, [Next]_vars PROVE ToldInv'
  OBVIOUS
<1> USE TcpAssumption DEF callVars, sockVars, histVars, pumpVars, TypeOK, ToldInv, HasWork,
        WindowToUpdate
<1>1. CASE ReadEnd
  BY <1>1 DEF ReadEnd, AtEnd, MayRecv
<1>2. ASSUME NEW n \in 1 .. Room, ReadSome(n) PROVE ToldInv'
  BY <1>2 DEF ReadSome, AtEnd, MayRecv
<1>3. CASE ReadParks
  BY <1>3 DEF ReadParks, AtEnd, MayRecv
<1>4. CASE ReadRings
  BY <1>4 DEF ReadRings, RingRead
<1>5. CASE ReadDropped
  BY <1>5 DEF ReadDropped
<1>6. CASE WriteFails
  BY <1>6 DEF WriteFails, WriteFree, Leaves, MaySend
<1>7. ASSUME NEW n \in 1 .. Room, WriteSome(n) PROVE ToldInv'
  BY <1>7 DEF WriteSome, WriteFree, Leaves, MaySend
<1>8. CASE WriteParks
  BY <1>8 DEF WriteParks, WriteFree, Leaves, MaySend, RegisterSend
<1>9. CASE FlushDone
  BY <1>9 DEF FlushDone, WriteFree, Leaves
<1>10. CASE FlushFails
  BY <1>10 DEF FlushFails, WriteFree, Leaves
<1>11. CASE FlushParks
  BY <1>11 DEF FlushParks, WriteFree, Leaves, RegisterSend
<1>12. CASE Shutdown
  BY <1>12 DEF Shutdown, WriteFree, MaySend
<1>13. CASE WriteRings
  BY <1>13 DEF WriteRings
<1>14. CASE WriteDropped
  BY <1>14 DEF WriteDropped, Leaves
<1>15. CASE Receive
  BY <1>15 DEF Receive, Process, Wake
<1>16. ASSUME NEW full \in BOOLEAN, NEW late \in BOOLEAN, Transmit(full, late) PROVE ToldInv'
  BY <1>16 DEF Transmit, NextPoll, TimeWait
<1>17. CASE Select
  BY <1>17 DEF Select
<1>18. CASE Stop
  BY <1>18 DEF Stop, Wake
<1>19. ASSUME NEW k \in {"data", "ack", "fin", "reset"}, PeerSends(k) PROVE ToldInv'
  BY <1>19 DEF PeerSends
<1>20. CASE UNCHANGED vars
  BY <1>20 DEF vars
<1>21. CASE TimeWaitExpires
  BY <1>21 DEF TimeWaitExpires, TimeWait, Wake
<1> QED
  BY <1>1, <1>2, <1>3, <1>4, <1>5, <1>6, <1>7, <1>8, <1>9, <1>10, <1>11, <1>12, <1>13, <1>14,
     <1>15, <1>16, <1>17, <1>18, <1>19, <1>20, <1>21 DEF Next, StreamNext, PumpNext

\* The inductive invariant: types, counts, the segment on its way, the end that
\* was reported, the wakers of parked calls and the pump's permit.
THEOREM TcpInvariant == Spec => []TcpInv
<1>1. TcpInv /\ [Next]_vars => TcpInv'
  BY TypeNext, CountNext, LinkNext, EndNext, StrandedNext, ToldNext DEF TcpInv
<1> QED
  BY <1>1, TcpInit, PTL DEF Spec

\* The stream's, the socket's and the pump's state keeps its type: the buffers
\* and the window the peer was offered never exceed Room.
THEOREM TcpTypeCorrect == Spec => []TypeOK
<1>1. TcpInv => TypeOK
  BY DEF TcpInv
<1> QED
  BY <1>1, TcpInvariant, PTL

\* No parked read, write or flush is left without a waker (poll_read,
\* poll_write, poll_flush), whatever calls were dropped before it.
THEOREM NoHalfStranded == Spec => []NoStrandedHalf
<1>1. TcpInv => NoStrandedHalf
  BY DEF TcpInv
<1> QED
  BY <1>1, TcpInvariant, PTL

\* The pump never sleeps without a timer on bytes, a FIN or a window it was not
\* told of (the calls of StackShared::wake in tcp.rs).
THEOREM PumpIsTold == Spec => []PumpTold
<1>1. TcpInv => PumpTold
  BY DEF TcpInv, ToldInv, PumpTold
<1> QED
  BY <1>1, TcpInvariant, PTL

\* End of file and a successful flush mean what they say.
THEOREM TcpAnswersHonest == Spec => []AnswersHonest
<1>1. TcpInv => AnswersHonest
  BY DEF TcpInv, TypeOK, CountInv, EndInv, AnswersHonest
<1> QED
  BY <1>1, TcpInvariant, PTL

=============================================================================
