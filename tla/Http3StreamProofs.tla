------------------------- MODULE Http3StreamProofs -------------------------
(* Proofs about Http3Stream, for any number of writes, frames and bytes: its *)
(* types, that its write side implements SendSpec, and that its read side    *)
(* reports end of file only at the end.                                      *)
EXTENDS Http3Stream, SequenceTheorems, TLAPS

\* One call at a time, which passes the checks at its top before it goes on.
CallInv ==
    /\ call = "none" => at = "none"
    /\ call = "write" /\ at # "top" => ~finishing /\ ~finished
    /\ at \in {"reserve", "reservation"} => ack = "none"

\* The channel holds one command at most, and what was accepted is on the
\* wire, with the task or in the channel.
ChannelInv ==
    /\ commands \in {<<>>, <<Data(accepted)>>, <<Flush>>, <<Finish>>}
    /\ writer \in {"finish", "done"} => commands = <<>>
    /\ writer = "data" => chunk = Len(wire) + 1
    /\ end = "open" => accepted = Len(wire) + (IF writer = "data" THEN 1 ELSE 0)
                                  + (IF commands = <<Data(accepted)>> THEN 1 ELSE 0)

\* An acknowledgment is awaited while its command is under way, and it was
\* given when all that had been accepted was on the wire.
AckInv ==
    /\ ack = "waiting" <=> commands \in {<<Flush>>, <<Finish>>} \/ writer = "finish"
    /\ ack = "sent" => Len(wire) = accepted
    /\ ack = "dropped" => writer = "done"

\* Nothing is sent behind the FIN, and its acknowledgment is no other's.
FinInv ==
    /\ commands = <<Finish>> \/ writer = "finish" => finishing
    /\ finishing => commands \in {<<>>, <<Finish>>}
    /\ finishing /\ ack = "none" => writer = "done"
    /\ finishing /\ ack = "sent" => end = "fin"
    /\ finished => end = "fin"
    /\ end = "fin" => Len(wire) = accepted
    /\ writer = "done" <=> end # "open"

WriteInv == TypeOK /\ CallInv /\ ChannelInv /\ AckInv /\ FinInv

\* The three commands and an empty channel are told apart.
LEMMA CommandsDiffer ==
    \A n \in Nat : /\ <<Data(n)>> # <<>> /\ <<Flush>> # <<>> /\ <<Finish>> # <<>>
                   /\ <<Data(n)>> # <<Flush>> /\ <<Data(n)>> # <<Finish>>
                   /\ <<Flush>> # <<Finish>>
<1>1. ASSUME NEW n \in Nat PROVE Data(n) # Flush /\ Data(n) # Finish /\ Flush # Finish
  BY DEF Data, Flush, Finish
<1>2. \A a, b : a # b => <<a>> # <<b>>
  OBVIOUS
<1>3. \A a : <<a>> # <<>>
  OBVIOUS
<1> QED
  BY <1>1, <1>2, <1>3

\* The commands have the channel's type.
LEMMA CommandTypes ==
    ASSUME NEW n \in Nat
    PROVE  {<<Data(n)>>, <<Flush>>, <<Finish>>} \subseteq
                Seq([kind : {"data", "flush", "finish"}, chunk : Nat])
BY DEF Data, Flush, Finish

\* A new stream satisfies the invariant.
LEMMA WriteInit == Init => WriteInv
<1> SUFFICES ASSUME Init PROVE WriteInv
  OBVIOUS
<1> USE DEF Init
<1>1. TypeOK
  <2>1. commands \in Seq([kind : {"data", "flush", "finish"}, chunk : Nat])
    OBVIOUS
  <2>2. wire \in Seq(Nat) /\ frames \in Seq(FrameTypes)
    OBVIOUS
  <2>3. chunk \in Nat /\ accepted \in Nat /\ came \in Nat /\ bytes \in Nat /\ buffered \in Nat /\ given \in Nat
    OBVIOUS
  <2> QED
    BY <2>1, <2>2, <2>3 DEF TypeOK, Kinds
<1>2. CallInv /\ FinInv
  BY CommandsDiffer DEF CallInv, FinInv
<1>3. ChannelInv
  BY CommandsDiffer DEF ChannelInv
<1>4. AckInv
  BY CommandsDiffer DEF AckInv
<1> QED
  BY <1>1, <1>2, <1>3, <1>4 DEF WriteInv

\* Every step keeps the types.
LEMMA TypeNext == TypeOK /\ CallInv /\ [Next]_vars => TypeOK'
<1> SUFFICES ASSUME TypeOK, CallInv, [Next]_vars PROVE TypeOK'
  OBVIOUS
<1> USE DEF TypeOK, Return, Goto, Kinds, sessVars, taskVars, readVars
<1>1. ASSUME NEW k \in Kinds, Call(k) PROVE TypeOK'
  BY <1>1 DEF Call
<1>2. CASE Top
  BY <1>2 DEF Top, WriteTop, AckTop
<1>3. CASE ReserveFails \/ ReserveParks \/ WriteEmpty \/ AckParks \/ AckLost \/ Repoll \/ Spurious \/ Abandon
  BY <1>3, SMTT(20) DEF ReserveFails, ReserveParks, WriteEmpty, AckParks, AckLost, Repoll, Spurious, Abandon
<1>4. CASE SendData
  <2>1. commands' \in Seq([kind : {"data", "flush", "finish"}, chunk : Nat]) /\ accepted' \in Nat
    BY <1>4, CommandTypes DEF SendData
  <2> QED
    BY <1>4, <2>1 DEF SendData, Reserved
<1>5. CASE SendFlush \/ SendFinish
  <2>1. commands' \in Seq([kind : {"data", "flush", "finish"}, chunk : Nat])
    BY <1>5, CommandTypes DEF SendFlush, SendFinish
  <2> QED
    BY <1>5, <2>1 DEF SendFlush, SendFinish, Reserved
<1>6. CASE AckTaken
  <2>1. finished' \in BOOLEAN
    BY <1>6 DEF AckTaken, FinAcknowledged
  <2>2. CASE call = "write"
    BY <1>6, <2>1, <2>2 DEF AckTaken
  <2>3. CASE call = "flush"
    BY <1>6, <2>1, <2>3 DEF AckTaken
  <2>4. CASE call = "shutdown"
    <3>1. CASE finished'
      BY <1>6, <2>1, <2>4, <3>1 DEF AckTaken
    <3>2. CASE ~finished'
      BY <1>6, <2>1, <2>4, <3>2 DEF AckTaken
    <3> QED
      BY <3>1, <3>2
  <2>5. call # "none"
    BY <1>6 DEF AckTaken, CallInv
  <2> QED
    BY <2>2, <2>3, <2>4, <2>5
<1>7. CASE Receive
  <2>1. Head(commands) \in [kind : {"data", "flush", "finish"}, chunk : Nat]
        /\ Tail(commands) \in Seq([kind : {"data", "flush", "finish"}, chunk : Nat])
    BY <1>7, HeadTailProperties DEF Receive
  <2> QED
    BY <1>7, <2>1 DEF Receive, Acknowledge
<1>8. CASE DataSent
  <2>1. Append(wire, chunk) \in Seq(Nat)
    BY AppendProperties
  <2> QED
    BY <1>8, <2>1 DEF DataSent, callVars
<1>9. CASE FinSent \/ SendFails \/ WriterStops
  <2>1. commands' \in Seq([kind : {"data", "flush", "finish"}, chunk : Nat])
    <3>1. commands' = <<>>
      BY <1>9 DEF FinSent, SendFails, WriterStops, EndWriter
    <3> QED
      BY <3>1
  <2>2. ack' \in {"none", "waiting", "sent", "dropped"}
    BY <1>9 DEF FinSent, SendFails, WriterStops, EndWriter, Acknowledge, DropAck
  <2>3. CASE FinSent
    BY <2>1, <2>2, <2>3 DEF FinSent
  <2>4. CASE EndWriter
    BY <2>1, <2>2, <2>4 DEF EndWriter
  <2> QED
    BY <1>9, <2>3, <2>4 DEF SendFails, WriterStops
<1>10. ASSUME NEW f \in FrameTypes, Arrives(f) PROVE TypeOK'
  <2>1. Append(frames, f) \in Seq(FrameTypes)
    BY AppendProperties
  <2>2. f.size \in Nat
    BY StreamAssumption DEF FrameTypes
  <2>3. came' \in Nat /\ bytes' \in Nat
    BY <1>10, <2>2 DEF Arrives
  <2> QED
    BY <1>10, <2>1, <2>3 DEF Arrives, writeVars, callVars
<1>11. CASE Read \/ ReadWoken \/ ReadTop \/ ReadEnd \/ ReadUnexpected \/ ReadFails \/ ReadParks
  <2>1. CASE Read \/ ReadWoken \/ ReadTop \/ ReadFails \/ ReadParks
    BY <2>1 DEF Read, ReadWoken, ReadTop, ReadFails, ReadParks, writeVars, callVars
  <2>2. CASE ReadEnd
    BY <2>2 DEF ReadEnd, writeVars, callVars
  <2>3. CASE ReadUnexpected
    BY <2>3 DEF ReadUnexpected, writeVars, callVars
  <2> QED
    BY <1>11, <2>1, <2>2, <2>3
<1>12. ASSUME NEW n \in 1 .. MaxChunk, ReadBuffered(n) PROVE TypeOK'
  BY <1>12, StreamAssumption DEF ReadBuffered, writeVars, callVars
<1>13. CASE ReadData \/ ReadTrailers
  <2>1. frames # <<>>
    BY <1>13 DEF ReadData, ReadTrailers, NextFrame
  <2>2. Head(frames) \in FrameTypes /\ Tail(frames) \in Seq(FrameTypes)
    BY <2>1, HeadTailProperties
  <2>3. Head(frames).size \in Nat
    BY <2>2, StreamAssumption DEF FrameTypes
  <2> QED
    BY <1>13, <2>2, <2>3 DEF ReadData, ReadTrailers, writeVars, callVars
<1>14. CASE SessionNext
  <2>1. CASE SetStopped
    BY <2>1 DEF SetStopped, callVars
  <2>2. CASE CloseConnection
    BY <2>2 DEF CloseConnection, callVars
  <2>3. CASE AbortWriters
    BY <2>3 DEF AbortWriters, callVars
  <2>4. CASE ConnectionLost
    BY <2>4 DEF ConnectionLost, callVars
  <2>5. CASE Drop
    BY <2>5 DEF Drop
  <2> QED
    BY <1>14, <2>1, <2>2, <2>3, <2>4, <2>5 DEF SessionNext
<1>15. CASE UNCHANGED vars
  BY <1>15 DEF vars, callVars
<1> QED
  BY <1>1, <1>2, <1>3, <1>4, <1>5, <1>6, <1>7, <1>8, <1>9, <1>10, <1>11, <1>12, <1>13, <1>14, <1>15
  DEF Next, CallNext, WriterNext, ReadNext

\* What the reads, the session and the peer leave alone.
LEMMA ReadKeeps == ReadNext => UNCHANGED <<callVars, commands, taskVars>>
BY DEF ReadNext, Arrives, Read, ReadWoken, ReadTop, ReadBuffered, ReadData, ReadTrailers, ReadEnd,
       ReadUnexpected, ReadFails, ReadParks, writeVars

\* A stop of the session or a drop of the stream at most ends the call.
LEMMA SessionKeeps ==
    SessionNext => \/ UNCHANGED <<callVars, commands, taskVars>>
                   \/ Return("none") /\ UNCHANGED <<ack, finishing, finished, accepted, commands, taskVars>>
BY DEF SessionNext, SetStopped, CloseConnection, AbortWriters, ConnectionLost, Drop

\* Every step of a call, of the task and of the session keeps the invariant.
LEMMA InvNext == WriteInv /\ [Next]_vars => CallInv' /\ ChannelInv' /\ AckInv' /\ FinInv'
<1> SUFFICES ASSUME WriteInv, [Next]_vars PROVE CallInv' /\ ChannelInv' /\ AckInv' /\ FinInv'
  OBVIOUS
<1> USE DEF WriteInv
<1>0. accepted \in Nat /\ Len(wire) \in Nat /\ finishing \in BOOLEAN /\ finished \in BOOLEAN
      /\ call \in Kinds \cup {"none"} /\ ack \in {"none", "waiting", "sent", "dropped"}
      /\ at \in {"none", "top", "flag", "reserve", "ack", "reservation", "acknowledgment"}
      /\ writer \in {"recv", "data", "finish", "done"}
      /\ end \in {"open", "fin", "reset"}
  BY DEF TypeOK
<1>1. ASSUME UNCHANGED <<ack, finishing, finished, accepted, commands, taskVars>>, CallInv'
      PROVE  CallInv' /\ ChannelInv' /\ AckInv' /\ FinInv'
  BY <1>1 DEF ChannelInv, AckInv, FinInv, taskVars
<1>2. ASSUME NEW k \in Kinds, Call(k) PROVE CallInv'
  BY <1>0, <1>2 DEF Call, CallInv, Kinds
<1>3. ASSUME Top PROVE CallInv'
  <2>1. UNCHANGED <<ack, finishing, finished>>
    BY <1>3 DEF Top
  <2>2. CASE WriteTop
    BY <1>0, <2>1, <2>2 DEF WriteTop, Return, Goto, CallInv
  <2>3. CASE AckTop
    <3>1. CASE stopped \/ finished
      BY <2>1, <2>3, <3>1 DEF AckTop, Return, CallInv
    <3>2. CASE ~stopped /\ ~finished
      BY <1>0, <2>1, <2>3, <3>2 DEF AckTop, Goto, CallInv
    <3> QED
      BY <3>1, <3>2
  <2> QED
    BY <1>3, <2>2, <2>3 DEF Top
<1>4. ASSUME ReserveFails \/ ReserveParks \/ WriteEmpty \/ AckParks \/ Repoll \/ Spurious \/ Abandon
      PROVE  CallInv'
  BY <1>0, <1>4 DEF ReserveFails, ReserveParks, WriteEmpty, AckParks, Repoll, Spurious, Abandon, Parked,
     Return, Goto, CallInv
<1>5. CASE AckLost
  <2>1. CallInv'
    BY <1>0, <1>5 DEF AckLost, Return, CallInv
  <2>2. ChannelInv'
    BY <1>5 DEF AckLost, ChannelInv, taskVars
  <2>3. AckInv' /\ FinInv'
    BY <1>5, CommandsDiffer DEF AckLost, AckInv, FinInv, ChannelInv, taskVars
  <2> QED
    BY <2>1, <2>2, <2>3
<1>6. CASE SendData
  <2>1. /\ at = "reserve" /\ ack = "none" /\ writer # "done" /\ commands = <<>> /\ call = "write"
        /\ accepted' = accepted + 1 /\ commands' = <<Data(accepted')>>
        /\ call' = "none" /\ at' = "none"
        /\ UNCHANGED <<ack, finishing, finished, writer, chunk, wire, end>>
    BY <1>6 DEF SendData, Reserved, Return, CallInv, taskVars
  <2>2. ~finishing /\ ~finished /\ end = "open" /\ writer \in {"recv", "data"}
    BY <1>0, <2>1 DEF FinInv, AckInv
  <2>3. CallInv'
    BY <2>1 DEF CallInv
  <2>4. commands # <<Data(accepted)>> /\ commands' # <<Flush>> /\ commands' # <<Finish>> /\ commands' # <<>>
    BY <1>0, <2>1, CommandsDiffer
  <2>5. ChannelInv'
    BY <1>0, <2>1, <2>2, <2>4 DEF ChannelInv
  <2>6. AckInv'
    BY <2>1, <2>2, <2>4 DEF AckInv
  <2>7. FinInv'
    BY <2>1, <2>2, <2>4 DEF FinInv
  <2> QED
    BY <2>3, <2>5, <2>6, <2>7
<1>7. CASE SendFlush \/ SendFinish
  <2>1. /\ at = "reserve" /\ ack = "none" /\ writer # "done" /\ commands = <<>> /\ call # "write"
        /\ ack' = "waiting" /\ at' = "ack" /\ call' = call
        /\ UNCHANGED <<accepted, finished, writer, chunk, wire, end>>
    BY <1>7 DEF SendFlush, SendFinish, Reserved, Goto, CallInv, taskVars
  <2>2. (commands' = <<Flush>> /\ finishing' = finishing) \/ (commands' = <<Finish>> /\ finishing' = TRUE)
    BY <1>7 DEF SendFlush, SendFinish
  <2>3. ~finishing /\ ~finished /\ end = "open" /\ writer \in {"recv", "data"}
    BY <1>0, <2>1 DEF FinInv, AckInv
  <2>4. CallInv'
    BY <2>1 DEF CallInv
  <2>5. commands # <<Data(accepted)>> /\ commands' # <<Data(accepted)>>
    BY <1>0, <2>1, <2>2, CommandsDiffer
  <2>6. ChannelInv'
    BY <1>0, <2>1, <2>2, <2>3, <2>5 DEF ChannelInv
  <2>7. AckInv' /\ FinInv'
    BY <1>0, <2>1, <2>2, <2>3, CommandsDiffer DEF AckInv, FinInv
  <2> QED
    BY <2>4, <2>6, <2>7
<1>8. CASE AckTaken
  <2>1. /\ at = "ack" /\ ack = "sent" /\ ack' = "none" /\ finished' = (finished \/ finishing)
        /\ UNCHANGED <<finishing, accepted, commands, writer, chunk, wire, end>>
    BY <1>8 DEF AckTaken, FinAcknowledged, taskVars
  <2>2. finishing => end = "fin" /\ writer = "done"
    BY <2>1 DEF FinInv
  <2>3. CallInv'
    <3>1. call # "none"
      BY <2>1 DEF CallInv
    <3>2. CASE call = "write"
      <4>1. ~finishing /\ ~finished
        BY <2>1, <3>2 DEF CallInv
      <4>2. ~finishing' /\ ~finished'
        BY <2>1, <4>1
      <4>3. at' = "reserve" /\ call' = call
        BY <1>8, <3>2 DEF AckTaken, Goto
      <4> QED
        BY <2>1, <3>2, <4>2, <4>3 DEF CallInv
    <3>3. CASE call = "flush"
      BY <1>8, <2>1, <3>3 DEF AckTaken, Return, CallInv
    <3>4. CASE call = "shutdown"
      BY <1>8, <2>1, <3>4 DEF AckTaken, Return, Goto, CallInv
    <3> QED
      BY <1>0, <3>1, <3>2, <3>3, <3>4 DEF Kinds
  <2>4. ChannelInv'
    BY <2>1 DEF ChannelInv
  <2>5. AckInv' /\ FinInv'
    BY <2>1, <2>2 DEF AckInv, FinInv
  <2> QED
    BY <2>3, <2>4, <2>5
<1>9. CASE Receive
  <2>1. /\ writer = "recv" /\ commands # <<>> /\ end = "open"
        /\ UNCHANGED <<wire, end, call, at, finishing, finished, accepted>>
    BY <1>9 DEF Receive, FinInv
  <2>2. CASE commands = <<Data(accepted)>>
    <3>1. writer' = "data" /\ chunk' = accepted /\ ack' = ack /\ commands' = <<>>
      BY <1>9, <2>2 DEF Receive, Data
    <3>2. accepted = Len(wire) + 1
      BY <1>0, <2>1, <2>2 DEF ChannelInv
    <3>3. ack # "waiting" /\ ~finishing
      BY <1>0, <2>1, <2>2, CommandsDiffer DEF AckInv, FinInv
    <3>4. CallInv' /\ AckInv' /\ FinInv'
      BY <1>0, <2>1, <3>1, <3>2, <3>3, CommandsDiffer DEF CallInv, AckInv, FinInv
    <3>5. ChannelInv'
      BY <1>0, <2>1, <3>1, <3>2, CommandsDiffer DEF ChannelInv
    <3> QED
      BY <3>4, <3>5
  <2>3. CASE commands = <<Flush>>
    <3>1. ack = "waiting" /\ ~finishing
      BY <1>0, <2>3, CommandsDiffer DEF AckInv, FinInv
    <3>2. writer' = "recv" /\ ack' = "sent" /\ commands' = <<>>
      BY <1>9, <2>3, <3>1 DEF Receive, Flush, Acknowledge
    <3>3. accepted = Len(wire)
      BY <1>0, <2>1, <2>3, CommandsDiffer DEF ChannelInv
    <3>4. CallInv' /\ AckInv' /\ FinInv'
      BY <1>0, <2>1, <3>1, <3>2, <3>3, CommandsDiffer DEF CallInv, AckInv, FinInv
    <3>5. ChannelInv'
      BY <1>0, <2>1, <3>2, <3>3, CommandsDiffer DEF ChannelInv
    <3> QED
      BY <3>4, <3>5
  <2>4. CASE commands = <<Finish>>
    <3>1. ack = "waiting" /\ finishing
      BY <1>0, <2>4, CommandsDiffer DEF AckInv, FinInv
    <3>2. writer' = "finish" /\ ack' = ack /\ commands' = <<>>
      BY <1>9, <2>4 DEF Receive, Finish
    <3>3. accepted = Len(wire)
      BY <1>0, <2>1, <2>4, CommandsDiffer DEF ChannelInv
    <3>4. CallInv' /\ AckInv' /\ FinInv'
      BY <1>0, <2>1, <3>1, <3>2, <3>3, CommandsDiffer DEF CallInv, AckInv, FinInv
    <3>5. ChannelInv'
      BY <1>0, <2>1, <3>2, <3>3, CommandsDiffer DEF ChannelInv
    <3> QED
      BY <3>4, <3>5
  <2> QED
    BY <2>1, <2>2, <2>3, <2>4 DEF ChannelInv
<1>10. CASE DataSent
  <2>1. /\ writer = "data" /\ wire' = Append(wire, chunk) /\ writer' = "recv" /\ end = "open"
        /\ UNCHANGED <<end, call, at, ack, finishing, finished, accepted, commands>>
    BY <1>10 DEF DataSent, callVars, FinInv
  <2>2. Len(wire') = Len(wire) + 1
    BY <2>1, AppendProperties DEF TypeOK
  <2>3. CallInv'
    BY <2>1 DEF CallInv
  <2>4. ChannelInv'
    BY <1>0, <2>1, <2>2 DEF ChannelInv
  <2>5. ack # "sent" /\ Len(wire) # accepted
    BY <1>0, <2>1 DEF AckInv, ChannelInv
  <2>6. AckInv' /\ FinInv'
    BY <1>0, <2>1, <2>5 DEF AckInv, FinInv
  <2> QED
    BY <2>3, <2>4, <2>6
<1>11. CASE FinSent
  <2>1. /\ writer = "finish" /\ end' = "fin" /\ writer' = "done" /\ commands' = <<>> /\ end = "open"
        /\ UNCHANGED <<wire, call, at, finishing, finished, accepted>>
    BY <1>11 DEF FinSent, FinInv
  <2>2. ack = "waiting" /\ ack' = "sent" /\ commands = <<>>
    BY <1>11, <2>1 DEF FinSent, Acknowledge, AckInv, ChannelInv
  <2>3. Len(wire) = accepted
    BY <1>0, <2>1, <2>2, CommandsDiffer DEF ChannelInv
  <2>4. CallInv'
    BY <2>1, <2>2 DEF CallInv
  <2>5. ChannelInv' /\ AckInv' /\ FinInv'
    BY <1>0, <2>1, <2>2, <2>3, CommandsDiffer DEF ChannelInv, AckInv, FinInv
  <2> QED
    BY <2>4, <2>5
<1>12. CASE EndWriter /\ writer # "done"
  <2>1. /\ end' = "reset" /\ writer' = "done" /\ commands' = <<>> /\ end = "open"
        /\ ack' = (IF ack = "waiting" THEN "dropped" ELSE ack)
        /\ UNCHANGED <<wire, call, at, finishing, finished, accepted>>
    BY <1>12 DEF EndWriter, DropAck, FinInv
  <2>2. ~finished /\ ~(finishing /\ ack = "sent")
    BY <2>1 DEF FinInv
  <2>3. CallInv'
    BY <1>0, <2>1 DEF CallInv
  <2>4. ChannelInv' /\ AckInv' /\ FinInv'
    BY <1>0, <2>1, <2>2, CommandsDiffer DEF ChannelInv, AckInv, FinInv
  <2> QED
    BY <2>3, <2>4
<1>13. CASE ReadNext \/ SessionNext \/ UNCHANGED vars
  <2>1. UNCHANGED <<ack, finishing, finished, accepted, commands, taskVars>>
    BY <1>13, ReadKeeps, SessionKeeps DEF vars, callVars
  <2>2. UNCHANGED <<call, at>> \/ (call' = "none" /\ at' = "none")
    BY <1>13, ReadKeeps, SessionKeeps DEF vars, callVars, Return
  <2>3. CallInv'
    BY <2>1, <2>2 DEF CallInv
  <2> QED
    BY <1>1, <2>1, <2>3
<1>14. CASE \E k \in Kinds : Call(k)
  BY <1>1, <1>2, <1>14 DEF Call
<1>15. CASE Top \/ ReserveFails \/ ReserveParks \/ WriteEmpty \/ AckParks \/ Repoll \/ Spurious \/ Abandon
  <2>1. UNCHANGED <<ack, finishing, finished, accepted, commands, taskVars>>
    BY <1>15 DEF Top, ReserveFails, ReserveParks, WriteEmpty, AckParks, Repoll, Spurious, Abandon
  <2> QED
    BY <1>1, <1>3, <1>4, <1>15, <2>1
<1> QED
  BY <1>5, <1>6, <1>7, <1>8, <1>9, <1>10, <1>11, <1>12, <1>13, <1>14, <1>15
  DEF Next, CallNext, WriterNext, SendFails, WriterStops

(* The invariant of the write side: one call, one command, one               *)
(* acknowledgment, and nothing behind the FIN.                               *)
THEOREM WriteInvariant == Spec => []WriteInv
<1>1. WriteInv /\ [Next]_vars => WriteInv'
  BY TypeNext, InvNext DEF WriteInv
<1> QED
  BY <1>1, WriteInit, PTL DEF Spec

(* The state of Http3Stream, of its writer task and of the session keeps its *)
(* types.                                                                    *)
THEOREM StreamTypeCorrect == Spec => []TypeOK
<1>1. WriteInv => TypeOK
  BY DEF WriteInv
<1> QED
  BY <1>1, WriteInvariant, PTL

\* A step that changes no more than the answer, to one without a promise.
LEMMA SilentStep ==
    ASSUME UNCHANGED <<accepted, wire, end>>, answer' \in {answer, "none", "empty", "error"}
    PROVE  [Send!SNext]_Send!vars
BY DEF Send!SNext, Send!AnswerOther, Send!vars

\* Every step of the stream is one of SendSpec, or none.
LEMMA SendStep == WriteInv /\ [Next]_vars => [Send!SNext]_Send!vars
<1> SUFFICES ASSUME WriteInv, [Next]_vars PROVE [Send!SNext]_Send!vars
  OBVIOUS
<1> USE DEF WriteInv
<1>1. accepted \in Nat /\ Len(wire) \in Nat /\ call \in Kinds \cup {"none"} /\ finished \in BOOLEAN
  BY DEF TypeOK
<1>2. CASE \E k \in Kinds : Call(k)
  BY <1>2, SilentStep DEF Call, taskVars
<1>3. CASE Top
  <2>1. UNCHANGED <<accepted, wire, end>>
    BY <1>3 DEF Top, taskVars
  <2>2. CASE answer' = "flushed" /\ answer' # answer
    <3>1. finished
      BY <1>3, <2>2 DEF Top, WriteTop, AckTop, Return, Goto
    <3>2. Len(wire) = accepted
      BY <3>1 DEF FinInv
    <3> QED
      BY <2>1, <2>2, <3>2 DEF Send!SNext, Send!AnswerFlushed
  <2>3. CASE answer' = "closed" /\ answer' # answer
    <3>1. finished
      BY <1>3, <2>3 DEF Top, WriteTop, AckTop, Return, Goto
    <3>2. Len(wire) = accepted /\ end = "fin"
      BY <3>1 DEF FinInv
    <3> QED
      BY <2>1, <2>3, <3>2 DEF Send!SNext, Send!AnswerClosed
  <2>4. answer' \in {answer, "error", "flushed", "closed"}
    BY <1>3 DEF Top, WriteTop, AckTop, Return, Goto
  <2> QED
    BY <2>1, <2>2, <2>3, <2>4, SilentStep
<1>4. CASE ReserveFails \/ ReserveParks \/ WriteEmpty \/ AckParks \/ AckLost \/ Repoll \/ Spurious
           \/ Abandon \/ SendFlush \/ SendFinish
  <2>1. UNCHANGED <<accepted, wire, end>> /\ answer' \in {answer, "none", "empty", "error"}
    BY <1>4 DEF ReserveFails, ReserveParks, WriteEmpty, AckParks, AckLost, Repoll, Spurious, Abandon,
       SendFlush, SendFinish, Reserved, Return, Goto, taskVars
  <2> QED
    BY <2>1, SilentStep
<1>5. CASE SendData
  <2>1. end = "open"
    BY <1>5 DEF SendData, Reserved, FinInv
  <2> QED
    BY <1>5, <2>1 DEF SendData, Reserved, Return, taskVars, Send!SNext, Send!Accept
<1>6. CASE AckTaken
  <2>1. /\ ack = "sent" /\ finished' = (finished \/ finishing) /\ UNCHANGED <<accepted, wire, end>>
        /\ call # "none"
    BY <1>6 DEF AckTaken, FinAcknowledged, taskVars, CallInv
  <2>2. Len(wire) = accepted
    BY <2>1 DEF AckInv
  <2>3. CASE call = "write"
    BY <1>6, <2>1, <2>3, SilentStep DEF AckTaken, Goto
  <2>4. CASE call = "flush"
    BY <1>6, <2>1, <2>2, <2>4 DEF AckTaken, Return, Send!SNext, Send!AnswerFlushed
  <2>5. CASE call = "shutdown" /\ finished'
    <3>1. end = "fin"
      BY <2>1, <2>5 DEF FinInv
    <3> QED
      BY <1>6, <2>1, <2>2, <2>5, <3>1 DEF AckTaken, Return, Send!SNext, Send!AnswerClosed
  <2>6. CASE call = "shutdown" /\ ~finished'
    BY <1>6, <2>1, <2>6, SilentStep DEF AckTaken, Goto
  <2> QED
    BY <1>1, <2>1, <2>3, <2>4, <2>5, <2>6 DEF Kinds
<1>7. CASE Receive
  BY <1>7, SilentStep DEF Receive
<1>8. CASE DataSent
  <2>1. end = "open" /\ chunk = Len(wire) + 1 /\ Len(wire) < accepted
    BY <1>1, <1>8 DEF DataSent, FinInv, ChannelInv
  <2> QED
    BY <1>8, <2>1 DEF DataSent, callVars, Send!SNext, Send!Transmit
<1>9. CASE FinSent
  <2>1. end = "open" /\ Len(wire) = accepted
    BY <1>1, <1>9, CommandsDiffer DEF FinSent, FinInv, ChannelInv
  <2> QED
    BY <1>9, <2>1 DEF FinSent, Send!SNext, Send!Finish
<1>10. CASE EndWriter /\ writer # "done"
  <2>1. end = "open"
    BY <1>10 DEF FinInv
  <2> QED
    BY <1>10, <2>1 DEF EndWriter, Send!SNext, Send!Reset
<1>11. CASE ReadNext \/ SessionNext \/ UNCHANGED vars
  <2>1. UNCHANGED <<accepted, wire, end>> /\ answer' \in {answer, "none"}
    BY <1>11, ReadKeeps, SessionKeeps DEF vars, callVars, taskVars, Return
  <2> QED
    BY <2>1, SilentStep
<1> QED
  BY <1>2, <1>3, <1>4, <1>5, <1>6, <1>7, <1>8, <1>9, <1>10, <1>11
  DEF Next, CallNext, WriterNext, SendFails, WriterStops

(* The write side of Http3Stream implements SendSpec, whatever calls are     *)
(* dropped half way: chunks go out once and in order, FIN behind the last,   *)
(* and the answers to flush and shutdown are true.                           *)
THEOREM StreamImplementsSend == Spec => ImplementsSend
<1>1. Init => Send!SInit
  BY DEF Init, Send!SInit
<1> QED
  BY <1>1, WriteInvariant, SendStep, PTL DEF Spec, ImplementsSend, Send!SSpec

-----------------------------------------------------------------------------
(* The read side.  A sum over the queued frames would need an induction; a   *)
(* function that adds them up one by one does not.                           *)

\* f adds the sizes of the frames in s to a, and arrives at b.
Sums(f, s, a, b) ==
    /\ f \in [0 .. Len(s) -> Nat] /\ f[0] = a /\ f[Len(s)] = b
    /\ \A i \in 1 .. Len(s) : f[i] = f[i - 1] + s[i].size

\* Every byte that came was handed over, is in the buffer or is in a frame not
\* taken yet; FIN is the last frame; and nothing is read behind it.
ReadInv ==
    /\ \A i \in 1 .. Len(frames) : frames[i].kind = "fin" => i = Len(frames)
    /\ \E f : Sums(f, frames, given + buffered, bytes)
    /\ eof => NextFrame("fin") /\ reading # "loop" /\ buffered = 0

\* A frame has a size, and only DATA has bytes.
LEMMA FrameSizes == \A x \in FrameTypes : x.size \in Nat /\ (x.kind # "data" => x.size = 0)
BY StreamAssumption DEF FrameTypes

\* A frame that arrives adds its bytes behind the others'.
LEMMA SumsAppend ==
    ASSUME NEW s \in Seq(FrameTypes), NEW x \in FrameTypes, NEW a \in Nat, NEW b \in Nat, NEW f, Sums(f, s, a, b)
    PROVE  \E g : Sums(g, Append(s, x), a, b + x.size)
<1> DEFINE n == Len(s)
           g == [i \in 0 .. n + 1 |-> IF i <= n THEN f[i] ELSE b + x.size]
<1>1. n \in Nat /\ x.size \in Nat
  BY FrameSizes
<1>2. /\ Append(s, x) \in Seq(FrameTypes) /\ Len(Append(s, x)) = n + 1 /\ Append(s, x)[n + 1] = x
      /\ \A i \in 1 .. n : Append(s, x)[i] = s[i]
  BY AppendProperties
<1>3. f \in [0 .. n -> Nat] /\ f[0] = a /\ f[n] = b /\ \A i \in 1 .. n : f[i] = f[i - 1] + s[i].size
  BY DEF Sums
<1>4. g \in [0 .. n + 1 -> Nat] /\ g[0] = a /\ g[n + 1] = b + x.size
  BY <1>1, <1>3
<1>5. ASSUME NEW i \in 1 .. n + 1 PROVE g[i] = g[i - 1] + Append(s, x)[i].size
  <2>1. CASE i = n + 1
    BY <1>1, <1>2, <1>3, <2>1
  <2>2. CASE i # n + 1
    <3>1. i \in 1 .. n
      BY <1>1, <2>2
    <3>2. g[i] = f[i] /\ g[i - 1] = f[i - 1]
      BY <1>1, <3>1
    <3> QED
      BY <1>2, <1>3, <3>1, <3>2
  <2> QED
    BY <2>1, <2>2
<1> HIDE DEF g
<1> QED
  BY <1>2, <1>4, <1>5 DEF Sums

\* A frame that is taken has its bytes counted first.
LEMMA SumsTail ==
    ASSUME NEW s \in Seq(FrameTypes), s # <<>>, NEW a \in Nat, NEW b \in Nat, NEW f, Sums(f, s, a, b)
    PROVE  \E g : Sums(g, Tail(s), a + Head(s).size, b)
<1> DEFINE n == Len(s)
           g == [i \in 0 .. n - 1 |-> f[i + 1]]
<1>1. /\ n \in Nat /\ n # 0 /\ Head(s) = s[1]
      /\ Tail(s) \in Seq(FrameTypes) /\ Len(Tail(s)) = n - 1 /\ \A i \in 1 .. n - 1 : Tail(s)[i] = s[i + 1]
  BY HeadTailProperties, EmptySeq
<1>2. f \in [0 .. n -> Nat] /\ f[0] = a /\ f[n] = b /\ \A i \in 1 .. n : f[i] = f[i - 1] + s[i].size
  BY DEF Sums
<1>3. f[1] = a + Head(s).size
  BY <1>1, <1>2
<1>4. g \in [0 .. n - 1 -> Nat] /\ g[0] = a + Head(s).size /\ g[n - 1] = b
  BY <1>1, <1>2, <1>3
<1>5. ASSUME NEW i \in 1 .. n - 1 PROVE g[i] = g[i - 1] + Tail(s)[i].size
  <2>1. i + 1 \in 1 .. n /\ i + 1 - 1 = i /\ i - 1 + 1 = i
    BY <1>1
  <2>2. f[i + 1] = f[i] + s[i + 1].size
    BY <1>2, <2>1
  <2>3. g[i] = f[i + 1] /\ g[i - 1] = f[i]
    BY <1>1, <2>1
  <2> QED
    BY <1>1, <2>2, <2>3
<1> HIDE DEF g
<1> QED
  BY <1>1, <1>4, <1>5 DEF Sums

\* Every step of a read, of the peer and of the session keeps the account.
LEMMA ReadStepInv == TypeOK /\ ReadInv /\ [Next]_vars => ReadInv'
<1> SUFFICES ASSUME TypeOK, ReadInv, [Next]_vars PROVE ReadInv'
  OBVIOUS
<1>0. frames \in Seq(FrameTypes) /\ bytes \in Nat /\ buffered \in Nat /\ given \in Nat /\ Len(frames) \in Nat
  BY DEF TypeOK
<1>1. PICK f : Sums(f, frames, given + buffered, bytes)
  BY DEF ReadInv
<1>2. ASSUME UNCHANGED <<frames, given, buffered, bytes, eof>>, eof => reading' # "loop" PROVE ReadInv'
  BY <1>2 DEF ReadInv, NextFrame
<1>3. ASSUME frames # <<>>, frames' = Tail(frames), ~eof, eof' = eof
      PROVE  \A i \in 1 .. Len(frames') : frames'[i].kind = "fin" => i = Len(frames')
  <2>1. Len(Tail(frames)) = Len(frames) - 1 /\ \A i \in 1 .. Len(frames) - 1 : Tail(frames)[i] = frames[i + 1]
    BY <1>0, <1>3, HeadTailProperties, EmptySeq
  <2> SUFFICES ASSUME NEW i \in 1 .. Len(frames'), frames'[i].kind = "fin" PROVE i = Len(frames')
    OBVIOUS
  <2>2. Len(frames') = Len(frames) - 1 /\ i + 1 \in 1 .. Len(frames) /\ frames'[i] = frames[i + 1]
    BY <1>0, <1>3, <2>1
  <2>3. i + 1 = Len(frames)
    BY <2>2 DEF ReadInv
  <2> QED
    BY <1>0, <2>2, <2>3
<1>4. ASSUME NEW x \in FrameTypes, Arrives(x) PROVE ReadInv'
  <2>1. frames' = Append(frames, x) /\ bytes' = bytes + x.size /\ UNCHANGED <<buffered, given, eof>>
        /\ \A i \in 1 .. Len(frames) : frames[i].kind # "fin"
    BY <1>4 DEF Arrives
  <2>2. /\ Len(Append(frames, x)) = Len(frames) + 1
        /\ \A i \in 1 .. Len(frames) : Append(frames, x)[i] = frames[i]
    BY <1>0, AppendProperties
  <2>3. ~eof
    <3>1. frames # <<>> => Len(frames) >= 1 /\ Head(frames) = frames[1]
      BY <1>0, HeadTailProperties, EmptySeq
    <3> QED
      BY <1>0, <2>1, <3>1 DEF ReadInv, NextFrame
  <2>4. \E g : Sums(g, Append(frames, x), given + buffered, bytes + x.size)
    <3>1. given + buffered \in Nat
      BY <1>0
    <3> QED
      BY <1>0, <1>1, <3>1, SumsAppend
  <2>5. \A i \in 1 .. Len(frames') : frames'[i].kind = "fin" => i = Len(frames')
    BY <1>0, <2>1, <2>2
  <2> QED
    BY <2>1, <2>3, <2>4, <2>5 DEF ReadInv
<1>5. CASE Read \/ ReadWoken \/ ReadTop \/ ReadFails \/ ReadParks \/ ReadUnexpected
  BY <1>2, <1>5 DEF Read, ReadWoken, ReadTop, ReadFails, ReadParks, ReadUnexpected
<1>6. ASSUME NEW n \in 1 .. MaxChunk, ReadBuffered(n) PROVE ReadInv'
  <2>1. ~eof /\ eof' = eof /\ UNCHANGED <<frames, bytes>> /\ given' = given + n /\ buffered' = buffered - n /\ n <= buffered
    BY <1>6 DEF ReadBuffered, ReadInv
  <2>2. given' + buffered' = given + buffered
    BY <1>0, <2>1
  <2> QED
    BY <1>1, <2>1, <2>2 DEF ReadInv
<1>7. CASE ReadData
  <2>1. ~eof /\ eof' = eof /\ frames # <<>> /\ buffered = 0 /\ UNCHANGED <<given, bytes>>
        /\ buffered' = Head(frames).size /\ frames' = IF Head(frames).kind = "data" THEN Tail(frames) ELSE frames
    BY <1>7 DEF ReadData, ReadInv
  <2>2. Head(frames) \in FrameTypes
    BY <1>0, <2>1, HeadTailProperties
  <2>3. CASE Head(frames).kind = "data"
    <3>1. given + buffered \in Nat /\ (given + buffered) + Head(frames).size = given' + buffered'
      BY <1>0, <2>1, <2>2, FrameSizes
    <3>2. \E g : Sums(g, Tail(frames), (given + buffered) + Head(frames).size, bytes)
      BY <1>0, <1>1, <2>1, <3>1, SumsTail
    <3> QED
      BY <1>3, <2>1, <2>3, <3>1, <3>2 DEF ReadInv
  <2>4. CASE Head(frames).kind # "data"
    <3>1. frames' = frames /\ given' + buffered' = given + buffered
      BY <1>0, <2>1, <2>2, <2>4, FrameSizes
    <3> QED
      BY <1>1, <2>1, <3>1 DEF ReadInv
  <2> QED
    BY <2>3, <2>4
<1>8. CASE ReadTrailers
  <2>1. ~eof /\ eof' = eof /\ frames # <<>> /\ UNCHANGED <<given, bytes, buffered>> /\ frames' = Tail(frames)
        /\ Head(frames).kind = "trailers"
    BY <1>8 DEF ReadTrailers, NextFrame, ReadInv
  <2>2. Head(frames).size = 0
    BY <1>0, <2>1, HeadTailProperties, FrameSizes
  <2>3. given + buffered \in Nat /\ (given + buffered) + Head(frames).size = given' + buffered'
    BY <1>0, <2>1, <2>2
  <2>4. \E g : Sums(g, Tail(frames), (given + buffered) + Head(frames).size, bytes)
    BY <1>0, <1>1, <2>1, <2>3, SumsTail
  <2> QED
    BY <1>3, <2>1, <2>3, <2>4 DEF ReadInv
<1>9. CASE ReadEnd
  BY <1>1, <1>9 DEF ReadEnd, AtEnd, NextFrame, ReadInv
<1>10. CASE SessionNext
  BY <1>2, <1>10 DEF SessionNext, SetStopped, CloseConnection, AbortWriters, ConnectionLost, Drop, ReadInv, readVars
<1>11. CASE CallNext \/ WriterNext
  <2>1. UNCHANGED readVars
    BY <1>11 DEF CallNext, WriterNext, Call, Top, ReserveFails, ReserveParks, SendData, WriteEmpty, SendFlush,
       SendFinish, Reserved, AckParks, AckLost, AckTaken, Repoll, Spurious, Abandon, Receive, DataSent, FinSent,
       SendFails, WriterStops, EndWriter
  <2> QED
    BY <1>2, <2>1 DEF readVars, ReadInv
<1>12. CASE UNCHANGED vars
  BY <1>2, <1>12 DEF vars, readVars, ReadInv
<1> QED
  BY <1>4, <1>5, <1>6, <1>7, <1>8, <1>9, <1>10, <1>11, <1>12 DEF Next, ReadNext

(* poll_read: end of file is the peer's FIN, and every byte of DATA that     *)
(* came before it has been handed over, whatever the sizes of the frames and *)
(* of the owner's buffers.                                                   *)
THEOREM StreamEofHonest == Spec => []EofHonest
<1>1. Init => ReadInv
  <2> SUFFICES ASSUME Init PROVE ReadInv
    OBVIOUS
  <2>1. frames = <<>> /\ Len(frames) = 0 /\ given = 0 /\ buffered = 0 /\ bytes = 0 /\ ~eof
    BY DEF Init
  <2>2. Sums([i \in 0 .. 0 |-> 0], frames, given + buffered, bytes)
    BY <2>1 DEF Sums
  <2> QED
    BY <2>1, <2>2 DEF ReadInv
<1>2. TypeOK /\ ReadInv => EofHonest
  <2> SUFFICES ASSUME TypeOK, ReadInv, eof PROVE frames # <<>> /\ Head(frames).kind = "fin" /\ given = bytes
    BY DEF EofHonest
  <2>1. frames # <<>> /\ Head(frames).kind = "fin" /\ buffered = 0
    BY DEF ReadInv, NextFrame
  <2>2. frames \in Seq(FrameTypes) /\ Len(frames) \in Nat /\ Len(frames) >= 1 /\ Head(frames) = frames[1]
        /\ Head(frames) \in FrameTypes
    BY <2>1, HeadTailProperties, EmptySeq DEF TypeOK
  <2>3. Len(frames) = 1 /\ frames[1].size = 0
    <3>1. 1 \in 1 .. Len(frames) /\ frames[1].kind = "fin"
      BY <2>1, <2>2
    <3>2. 1 = Len(frames)
      BY <3>1 DEF ReadInv
    <3> QED
      BY <2>2, <3>1, <3>2, FrameSizes
  <2>4. PICK f : Sums(f, frames, given + buffered, bytes)
    BY DEF ReadInv
  <2>5. given \in Nat /\ f[0] = given /\ f[1] = bytes /\ f[1] = f[0] + frames[1].size
    BY <2>1, <2>3, <2>4 DEF Sums, TypeOK
  <2> QED
    BY <2>1, <2>3, <2>5
<1> QED
  BY <1>1, <1>2, ReadStepInv, StreamTypeCorrect, PTL DEF Spec

=============================================================================
