---------------------------- MODULE Http3Stream ----------------------------
(***************************************************************************)
(* Http3Stream (src/http3/stream.rs): the byte stream of one CONNECT       *)
(* request.  Reads go to the h3 stream directly.  Writes go through a      *)
(* channel of one command to a writer task, which hands them to h3; flush  *)
(* and shutdown wait for the task's acknowledgment.                        *)
(*                                                                         *)
(* The owner's calls are polls, taken apart where another thread can come  *)
(* between: at the session's flag, at the channel, at the acknowledgment.  *)
(* A poll that returns Pending parks the call; the owner may drop the call *)
(* there and make another, and what the first one left behind (the place   *)
(* in the channel's queue, the acknowledgment) is the second one's.        *)
(***************************************************************************)
EXTENDS Integers, Sequences

CONSTANTS
    MaxWrites,  \* bound on the writes that are accepted
    MaxFrames,  \* bound on the frames the peer sends
    MaxChunk    \* bytes of its largest DATA frame

ASSUME StreamAssumption == MaxWrites \in Nat /\ MaxFrames \in Nat /\ MaxChunk \in Nat

VARIABLES
    stopped,    \* Session::stopped
    closed,     \* the QUIC connection is closed
    cancelled,  \* the writer task is aborted
    dropped,    \* the stream was dropped
    call,       \* the owner's call on the write side
    at,         \* where its poll is, or what it is parked on
    commands,   \* the channel
    ack,        \* Http3Stream::acknowledgment
    finishing,  \* Http3Stream::finishing
    finished,   \* Http3Stream::finished
    writer,     \* the writer task: "recv", "data", "finish" or "done"
    chunk,      \* the chunk it sends
    accepted,   \* history: chunks accepted
    wire,       \* history: chunks h3 has taken
    end,        \* "open", "fin" (SenderGuard::finished) or "reset"
    answer,     \* the answer to the last call on the write side
    frames,     \* frames of the peer the stream has not taken yet
    came,       \* history: how many frames came
    bytes,      \* history: and how many bytes of DATA in them
    buffered,   \* Http3Stream::buffered, in bytes
    trailers,   \* Http3Stream::trailers
    eof,        \* Http3Stream::eof
    reading,    \* the owner's call on the read side
    given       \* history: bytes handed to the owner

sessVars == <<stopped, closed, cancelled, dropped>>
callVars == <<call, at, ack, finishing, finished, accepted, answer>>
taskVars == <<writer, chunk, wire, end>>
readVars == <<frames, came, bytes, buffered, trailers, eof, reading, given>>
vars == <<sessVars, callVars, commands, taskVars, readVars>>

Init ==
    /\ stopped = FALSE /\ closed = FALSE /\ cancelled = FALSE /\ dropped = FALSE
    /\ call = "none" /\ at = "none" /\ answer = "none"
    /\ commands = <<>> /\ ack = "none" /\ finishing = FALSE /\ finished = FALSE
    /\ writer = "recv" /\ chunk = 0 /\ accepted = 0 /\ wire = <<>> /\ end = "open"
    /\ frames = <<>> /\ came = 0 /\ bytes = 0 /\ buffered = 0
    /\ trailers = FALSE /\ eof = FALSE /\ reading = "none" /\ given = 0

-----------------------------------------------------------------------------
(* The write side: poll_write, poll_flush, poll_shutdown.                    *)

Data(n) == [kind |-> "data", chunk |-> n]
Flush == [kind |-> "flush", chunk |-> 0]
Finish == [kind |-> "finish", chunk |-> 0]

Call(k) ==
    /\ call = "none" /\ ~dropped /\ (k = "write" => accepted < MaxWrites)
    /\ call' = k /\ at' = "top" /\ answer' = "none"
    /\ UNCHANGED <<ack, finishing, finished, accepted, sessVars, commands, taskVars, readVars>>

\* The poll returns Ready.
Return(a) == call' = "none" /\ at' = "none" /\ answer' = a
Goto(l) == at' = l /\ UNCHANGED <<call, answer>>

\* poll_write: the write side is closed, or an acknowledgment comes first.
WriteTop ==
    /\ call = "write" /\ at = "top"
    /\ IF finishing \/ finished THEN Return("error")
       ELSE Goto(IF ack # "none" THEN "flag" ELSE "reserve")

\* poll_ack, which the three calls share.
AckTop ==
    /\ at = "flag" \/ (at = "top" /\ call # "write")
    /\ CASE stopped -> Return("error")
         [] ~stopped /\ finished -> Return(IF call = "shutdown" THEN "closed" ELSE "flushed")
         [] OTHER -> Goto(IF ack # "none" THEN "ack" ELSE "reserve")

Top ==
    /\ WriteTop \/ AckTop
    /\ UNCHANGED <<ack, finishing, finished, accepted, sessVars, commands, taskVars, readVars>>

\* reserve: an error, or the poll parks behind the command in the channel.
ReserveFails ==
    /\ at = "reserve" /\ (stopped \/ writer = "done")
    /\ Return("error")
    /\ UNCHANGED <<ack, finishing, finished, accepted, sessVars, commands, taskVars, readVars>>

ReserveParks ==
    /\ at = "reserve" /\ ~stopped /\ writer # "done" /\ commands # <<>>
    /\ Goto("reservation")
    /\ UNCHANGED <<ack, finishing, finished, accepted, sessVars, commands, taskVars, readVars>>

\* reserve has its permit, and the command is sent.
Reserved ==
    /\ at = "reserve" /\ ~stopped /\ writer # "done" /\ commands = <<>>
    /\ UNCHANGED <<finished, sessVars, taskVars, readVars>>

SendData ==
    /\ Reserved /\ call = "write"
    /\ accepted' = accepted + 1
    /\ commands' = <<Data(accepted + 1)>>
    /\ Return("written")
    /\ UNCHANGED <<ack, finishing>>

\* A write of nothing returns before it reserves.
WriteEmpty ==
    /\ at = "reserve" /\ call = "write"
    /\ Return("empty")
    /\ UNCHANGED <<ack, finishing, finished, accepted, sessVars, commands, taskVars, readVars>>

SendFlush ==
    /\ Reserved /\ call = "flush"
    /\ commands' = <<Flush>> /\ ack' = "waiting"
    /\ Goto("ack")
    /\ UNCHANGED <<finishing, accepted>>

SendFinish ==
    /\ Reserved /\ call = "shutdown"
    /\ commands' = <<Finish>> /\ ack' = "waiting" /\ finishing' = TRUE
    /\ Goto("ack")
    /\ UNCHANGED accepted

AckParks ==
    /\ at = "ack" /\ ack = "waiting"
    /\ Goto("acknowledgment")
    /\ UNCHANGED <<ack, finishing, finished, accepted, sessVars, commands, taskVars, readVars>>

AckLost ==
    /\ at = "ack" /\ ack = "dropped"
    /\ ack' = "none"
    /\ Return("error")
    /\ UNCHANGED <<finishing, finished, accepted, sessVars, commands, taskVars, readVars>>

\* Faulty variant: any acknowledgment ends a shutdown.
FlushIsFin(k) == finishing \/ k = "shutdown"
FinAcknowledged(k) == finishing

\* The acknowledgment may be an earlier call's: a write goes on, and a
\* shutdown that has seen a flush through starts over to send FIN.
AckTaken ==
    /\ at = "ack" /\ ack = "sent"
    /\ ack' = "none"
    /\ finished' = (finished \/ FinAcknowledged(call))
    /\ CASE call = "write" -> Goto("reserve")
         [] call = "flush" -> Return("flushed")
         [] call = "shutdown" -> IF finished' THEN Return("closed") ELSE Goto("top")
    /\ UNCHANGED <<finishing, accepted, sessVars, commands, taskVars, readVars>>

Parked == at \in {"reservation", "acknowledgment"}

\* What a parked poll registered its waker with has something for it.
Woken ==
    \/ at = "reservation" /\ (commands = <<>> \/ writer = "done")
    \/ at = "acknowledgment" /\ ack # "waiting"

Repoll ==
    /\ Parked /\ Woken
    /\ Goto("top")
    /\ UNCHANGED <<ack, finishing, finished, accepted, sessVars, commands, taskVars, readVars>>

\* The owner's task is polled for another reason.
Spurious ==
    /\ Parked /\ ~Woken
    /\ Goto("top")
    /\ UNCHANGED <<ack, finishing, finished, accepted, sessVars, commands, taskVars, readVars>>

\* The owner drops the call it waited for.
Abandon ==
    /\ Parked
    /\ Return("none")
    /\ UNCHANGED <<ack, finishing, finished, accepted, sessVars, commands, taskVars, readVars>>

-----------------------------------------------------------------------------
(* The writer task.                                                          *)

Acknowledge == ack' = IF ack = "waiting" THEN "sent" ELSE ack

\* Dropping a command drops the sender of its acknowledgment.
DropAck == ack' = IF ack = "waiting" THEN "dropped" ELSE ack

Receive ==
    /\ writer = "recv" /\ commands # <<>>
    /\ LET c == Head(commands) IN
        /\ writer' = CASE c.kind = "flush" -> "recv" [] OTHER -> c.kind
        /\ chunk' = c.chunk
        /\ IF c.kind = "flush" THEN Acknowledge ELSE UNCHANGED ack
    /\ commands' = Tail(commands)
    /\ UNCHANGED <<wire, end, call, at, finishing, finished, accepted, answer, sessVars,
                   readVars>>

DataSent ==
    /\ writer = "data"
    /\ wire' = Append(wire, chunk) /\ chunk' = 0
    /\ writer' = "recv"
    /\ UNCHANGED <<end, callVars, commands, sessVars, readVars>>

\* finish() returned: the guard is disarmed, the acknowledgment sent, and the
\* task ends.  A command sent behind Finish would be dropped with the channel.
FinSent ==
    /\ writer = "finish"
    /\ end' = "fin" /\ writer' = "done" /\ commands' = <<>>
    /\ Acknowledge
    /\ UNCHANGED <<chunk, wire, call, at, finishing, finished, accepted, answer, sessVars,
                   readVars>>

\* The task ends early and SenderGuard resets the stream.
EndWriter ==
    /\ writer' = "done" /\ end' = "reset" /\ commands' = <<>>
    /\ DropAck
    /\ UNCHANGED <<chunk, wire, call, at, finishing, finished, accepted, answer, sessVars,
                   readVars>>

\* h3 refuses the chunk or the FIN.
SendFails == writer \in {"data", "finish"} /\ EndWriter

\* Faulty variant: nothing but the abort ends a task that waits for h3.
AbortOnly == cancelled
\* connection.closed() is ready, or the task was aborted.
StopReady == closed \/ cancelled

WriterStops == writer # "done" /\ StopReady /\ EndWriter

-----------------------------------------------------------------------------
(* The read side: poll_read, one action per turn of its loop.                *)

writeVars == <<callVars, commands, taskVars>>

\* The peer's frames, as h3 decodes them.
FrameTypes == [kind : {"data"}, size : 0 .. MaxChunk] \cup [kind : {"trailers", "fin"}, size : {0}]

Arrives(f) ==
    /\ came < MaxFrames /\ ~closed /\ ~dropped
    /\ \A i \in 1 .. Len(frames) : frames[i].kind # "fin"
    /\ frames' = Append(frames, f)
    /\ came' = came + 1 /\ bytes' = bytes + f.size
    /\ UNCHANGED <<buffered, trailers, eof, reading, given, sessVars, writeVars>>

NextFrame(k) == frames # <<>> /\ Head(frames).kind = k

\* A call, and each later poll of it.
Read ==
    /\ reading = "none" /\ ~dropped
    /\ reading' = "top"
    /\ UNCHANGED <<frames, came, bytes, buffered, trailers, eof, given, sessVars, writeVars>>

ReadWoken ==
    /\ reading = "parked" /\ (frames # <<>> \/ closed)
    /\ reading' = "top"
    /\ UNCHANGED <<frames, came, bytes, buffered, trailers, eof, given, sessVars, writeVars>>

ReadTop ==
    /\ reading = "top"
    /\ reading' = IF stopped \/ eof THEN "none" ELSE "loop"
    /\ UNCHANGED <<frames, came, bytes, buffered, trailers, eof, given, sessVars, writeVars>>

\* The owner's buffer may be smaller than the chunk.
ReadBuffered(n) ==
    /\ reading = "loop" /\ n <= buffered
    /\ given' = given + n /\ buffered' = buffered - n
    /\ reading' = "none"
    /\ UNCHANGED <<frames, came, bytes, trailers, eof, sessVars, writeVars>>

\* poll_recv_data: a chunk, or, at trailers and at the end, None; it returns
\* None for a DATA frame of no bytes as well.
ReadData ==
    /\ reading = "loop" /\ buffered = 0 /\ ~trailers /\ frames # <<>>
    /\ LET f == Head(frames) IN
        /\ buffered' = f.size
        /\ trailers' = (f.size = 0)
        /\ frames' = IF f.kind = "data" THEN Tail(frames) ELSE frames
    /\ UNCHANGED <<came, bytes, eof, reading, given, sessVars, writeVars>>

\* poll_recv_trailers: trailers are refused, the end is the end, and DATA is
\* unexpected here: h3 closes the connection.
ReadTrailers ==
    /\ reading = "loop" /\ trailers /\ NextFrame("trailers")
    /\ frames' = Tail(frames) /\ reading' = "none"
    /\ UNCHANGED <<came, bytes, buffered, trailers, eof, given, sessVars, writeVars>>

\* Faulty variant: no more DATA is taken for the end.
NoMoreData == frames = <<>> \/ NextFrame("fin")
AtEnd == NextFrame("fin")

ReadEnd ==
    /\ reading = "loop" /\ buffered = 0 /\ trailers /\ AtEnd
    /\ eof' = TRUE /\ reading' = "none"
    /\ UNCHANGED <<frames, came, bytes, buffered, trailers, given, sessVars, writeVars>>

ReadUnexpected ==
    /\ reading = "loop" /\ trailers /\ NextFrame("data")
    /\ closed' = TRUE /\ reading' = "none"
    /\ UNCHANGED <<stopped, cancelled, dropped, frames, came, bytes, buffered, trailers, eof,
                   given, writeVars>>

ReadFails ==
    /\ reading = "loop" /\ buffered = 0 /\ closed
    /\ reading' = "none"
    /\ UNCHANGED <<frames, came, bytes, buffered, trailers, eof, given, sessVars, writeVars>>

ReadParks ==
    /\ reading = "loop" /\ buffered = 0 /\ frames = <<>> /\ ~closed
    /\ reading' = "parked"
    /\ UNCHANGED <<frames, came, bytes, buffered, trailers, eof, given, sessVars, writeVars>>

-----------------------------------------------------------------------------
(* The session and the stream's owner.                                       *)

\* Session::stop sets the flag, closes the connection, aborts the writers.
SetStopped ==
    /\ ~stopped /\ stopped' = TRUE
    /\ UNCHANGED <<closed, cancelled, dropped, callVars, commands, taskVars, readVars>>

CloseConnection ==
    /\ stopped /\ ~closed /\ closed' = TRUE
    /\ UNCHANGED <<stopped, cancelled, dropped, callVars, commands, taskVars, readVars>>

AbortWriters ==
    /\ stopped /\ closed /\ ~cancelled /\ cancelled' = TRUE
    /\ UNCHANGED <<stopped, closed, dropped, callVars, commands, taskVars, readVars>>

\* The peer closes the connection, or QUIC gives it up.
ConnectionLost ==
    /\ ~closed /\ closed' = TRUE
    /\ UNCHANGED <<stopped, cancelled, dropped, callVars, commands, taskVars, readVars>>

\* The owner drops the stream, which it cannot do in the middle of a poll.
Drop ==
    /\ ~dropped /\ (call = "none" \/ Parked) /\ reading \in {"none", "parked"}
    /\ dropped' = TRUE /\ cancelled' = TRUE
    /\ Return("none") /\ reading' = "none"
    /\ UNCHANGED <<stopped, closed, ack, finishing, finished, accepted, commands, taskVars,
                   frames, came, bytes, buffered, trailers, eof, given>>

-----------------------------------------------------------------------------
Kinds == {"write", "flush", "shutdown"}

CallNext ==
    \/ \E k \in Kinds : Call(k)
    \/ Top
    \/ ReserveFails
    \/ ReserveParks
    \/ SendData
    \/ WriteEmpty
    \/ SendFlush
    \/ SendFinish
    \/ AckParks
    \/ AckLost
    \/ AckTaken
    \/ Repoll
    \/ Spurious
    \/ Abandon

WriterNext == Receive \/ DataSent \/ FinSent \/ SendFails \/ WriterStops

ReadNext ==
    \/ \E f \in FrameTypes : Arrives(f)
    \/ Read
    \/ ReadWoken
    \/ ReadTop
    \/ \E n \in 1 .. MaxChunk : ReadBuffered(n)
    \/ ReadData
    \/ ReadTrailers
    \/ ReadEnd
    \/ ReadUnexpected
    \/ ReadFails
    \/ ReadParks

SessionNext == SetStopped \/ CloseConnection \/ AbortWriters \/ ConnectionLost \/ Drop

Next == CallNext \/ WriterNext \/ ReadNext \/ SessionNext

Spec == Init /\ [][Next]_vars

\* A poll runs to its end, a woken call is polled again, Session::stop runs to
\* its end, and a task whose select is ready, or that is aborted, is run.  That
\* h3 takes a chunk, or that the peer sends anything, is not assumed.
PollStep ==
    \/ Top \/ ReserveFails \/ ReserveParks \/ SendData \/ SendFlush \/ SendFinish
    \/ AckParks \/ AckLost \/ AckTaken \/ Repoll

ReadStep ==
    \/ ReadWoken \/ ReadTop \/ ReadData \/ ReadTrailers \/ ReadEnd \/ ReadUnexpected
    \/ ReadFails \/ ReadParks \/ \E n \in 1 .. MaxChunk : ReadBuffered(n)

FairSpec ==
    /\ Spec
    /\ WF_vars(PollStep) /\ WF_vars(ReadStep)
    /\ WF_vars(CloseConnection) /\ WF_vars(AbortWriters) /\ WF_vars(WriterStops)

-----------------------------------------------------------------------------
\* The types of the stream's, the task's and the session's state.
TypeOK ==
    /\ stopped \in BOOLEAN /\ closed \in BOOLEAN /\ cancelled \in BOOLEAN
    /\ dropped \in BOOLEAN /\ finishing \in BOOLEAN /\ finished \in BOOLEAN
    /\ call \in Kinds \cup {"none"}
    /\ at \in {"none", "top", "flag", "reserve", "ack", "reservation", "acknowledgment"}
    /\ ack \in {"none", "waiting", "sent", "dropped"}
    /\ commands \in Seq([kind : {"data", "flush", "finish"}, chunk : Nat])
    /\ writer \in {"recv", "data", "finish", "done"} /\ chunk \in Nat
    /\ accepted \in Nat /\ wire \in Seq(Nat) /\ end \in {"open", "fin", "reset"}
    /\ answer \in {"none", "written", "empty", "flushed", "closed", "error"}
    /\ frames \in Seq(FrameTypes) /\ came \in Nat /\ bytes \in Nat
    /\ buffered \in Nat /\ given \in Nat
    /\ trailers \in BOOLEAN /\ eof \in BOOLEAN
    /\ reading \in {"none", "top", "loop", "parked"}

(* The write side keeps the promises of SendSpec, whatever calls the owner   *)
(* drops half way and whenever the task, the session or the stream ends: a   *)
(* flush that was pending when a shutdown began is not taken for its FIN, a  *)
(* flush answers only for chunks h3 has really taken, and a stream that was  *)
(* finished is not reset by the end of its task.                             *)
Send == INSTANCE SendSpec
ImplementsSend == Send!SSpec

(* End of file is the peer's: it is reported only when the peer ended the    *)
(* stream and every byte of DATA that came before has been handed over.      *)
EofHonest == eof => frames # <<>> /\ Head(frames).kind = "fin" /\ given = bytes

(* No call hangs on a dead session: once the session is stopped or its       *)
(* connection is gone, a call that waits for the channel, for an             *)
(* acknowledgment or for the peer ends, although nothing of the stream       *)
(* itself watches the session's flag.                                        *)
CallsEnd ==
    /\ (call # "none" /\ (stopped \/ closed)) ~> call = "none"
    /\ (reading # "none" /\ (stopped \/ closed)) ~> reading = "none"

=============================================================================
