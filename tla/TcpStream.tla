----------------------------- MODULE TcpStream -----------------------------
(***************************************************************************)
(* The data of one WgTcpStream (src/wireguard/tcp.rs): poll_read,          *)
(* poll_write, poll_flush and poll_shutdown over a smoltcp socket that     *)
(* only the pump moves along.  How the socket came to be connected, and    *)
(* what becomes of it when the stream is dropped, is TunnelStack's.        *)
(*                                                                         *)
(* Every step takes the stack's mutex once.  The TCP state is kept as its  *)
(* two halves: Established is open/open, CloseWait open/first, FinWait1    *)
(* queued or sent/open, FinWait2 acked/open, LastAck queued or sent/first, *)
(* Closing queued or sent/last, TimeWait acked/last, and acked/first is    *)
(* Closed; `dead` is a Closed that a reset, the stop of the stack or the   *)
(* end of TimeWait has brought about.  Loss and order of segments are      *)
(* smoltcp's business: what is counted here is in sequence.                *)
(***************************************************************************)
EXTENDS Integers

CONSTANTS
    Room,      \* bytes a socket buffers each way (TCP_BUFFER_BYTES)
    MaxBytes   \* bound on the bytes of each direction

ASSUME TcpAssumption == Room \in Nat \ {0} /\ MaxBytes \in Nat

VARIABLES
    reader,    \* the read call: "idle", "ring" or "parked"
    writer,    \* the write side: "idle", "ring", or parked in "write" or "flush"
    woken,     \* the halves whose waker was called while they were parked
    waker,     \* the halves whose waker is registered with the socket
    shutDown,  \* WgTcpStream::shut_down
    mine,      \* our FIN: "open" (not asked for), "queued", "sent" or "acked"
    theirs,    \* the peer's half: "open", or its FIN came "first" or "last" of the two
    dead,      \* the connection was reset or aborted, or its TimeWait is over
    tx,        \* bytes in the send buffer: not yet acknowledged
    unsent,    \* those of them that no segment has carried yet
    rx,        \* bytes in the receive buffer
    window,    \* what the peer may still send, as it was told last
    owed,      \* an acknowledgment is owed to the peer
    accepted,  \* history: bytes accepted from the writer
    acked,     \* history: bytes the peer has acknowledged
    arrived,   \* history: bytes the socket has received
    given,     \* history: bytes handed to the reader
    flushed,   \* history: what was accepted when the last flush succeeded
    eof,       \* history: the reader was told the end
    lost,      \* history: bytes that were in the receive buffer when TimeWait ended
    link,      \* the segment on its way to the stack, or "none"
    pump,      \* "poll", "transmit" (the second half of a poll), "select" or "done"
    delay,     \* what the last poll said about the next: "now", "later", "none"
    rung       \* the permit of StackShared::wake

callVars == <<reader, writer, woken, waker, shutDown>>
sockVars == <<mine, theirs, dead, tx, unsent, rx, window, owed>>
histVars == <<accepted, acked, arrived, given, flushed, eof, lost>>
pumpVars == <<link, pump, delay, rung>>
vars == <<callVars, sockVars, histVars, pumpVars>>

Init ==
    /\ reader = "idle" /\ writer = "idle" /\ woken = {} /\ waker = {} /\ shutDown = FALSE
    /\ mine = "open" /\ theirs = "open" /\ dead = FALSE
    /\ tx = 0 /\ unsent = 0 /\ rx = 0 /\ window = Room /\ owed = FALSE
    /\ accepted = 0 /\ acked = 0 /\ arrived = 0 /\ given = 0 /\ flushed = 0 /\ eof = FALSE
    /\ lost = 0
    /\ link = "none" /\ pump = "poll" /\ delay = "none" /\ rung = FALSE

MaySend == mine = "open" /\ ~dead
MayRecv == (theirs = "open" /\ ~dead) \/ rx > 0

\* smoltcp calls and takes out the wakers of the halves hs.
Wake(hs) ==
    /\ woken' = woken \cup {h \in hs \cap waker :
                    IF h = "rx" THEN reader = "parked" ELSE writer \in {"write", "flush"}}
    /\ waker' = waker \ hs

-----------------------------------------------------------------------------
(* poll_read.  A parked call may be polled again at any time.                *)

\* Faulty variant: the reader is told the end as soon as the connection is gone.
GoneIsEnd == dead \/ ~MayRecv
AtEnd == ~MayRecv

ReadEnd ==
    /\ reader \in {"idle", "parked"} /\ AtEnd
    /\ eof' = TRUE
    /\ reader' = "idle" /\ woken' = woken \ {"rx"}
    /\ UNCHANGED <<writer, waker, shutDown, sockVars, accepted, acked, arrived, given, flushed,
                   lost, pumpVars>>

\* The owner's buffer may be smaller than what is there.
ReadSome(n) ==
    /\ reader \in {"idle", "parked"} /\ ~AtEnd /\ n <= rx
    /\ rx' = rx - n /\ given' = given + n
    /\ reader' = "ring" /\ woken' = woken \ {"rx"}
    /\ UNCHANGED <<writer, waker, shutDown, mine, theirs, dead, tx, unsent, window, owed,
                   accepted, acked, arrived, flushed, eof, lost, pumpVars>>

ReadParks ==
    /\ reader \in {"idle", "parked"} /\ ~AtEnd /\ rx = 0
    /\ waker' = waker \cup {"rx"}
    /\ reader' = "parked" /\ woken' = woken \ {"rx"}
    /\ UNCHANGED <<writer, shutDown, sockVars, histVars, pumpVars>>

\* Faulty variant: the window that opened is not announced.
WindowQuiet == UNCHANGED rung
RingRead == rung' = TRUE

ReadRings ==
    /\ reader = "ring"
    /\ RingRead
    /\ reader' = "idle"
    /\ UNCHANGED <<writer, woken, waker, shutDown, sockVars, histVars, link, pump, delay>>

ReadDropped ==
    /\ reader = "parked"
    /\ reader' = "idle" /\ woken' = woken \ {"rx"}
    /\ UNCHANGED <<writer, waker, shutDown, sockVars, histVars, pumpVars>>

-----------------------------------------------------------------------------
(* poll_write, poll_flush, poll_shutdown: one call at a time.                *)

\* A call may begin where the last one has returned or was dropped.
WriteFree == writer # "ring"

Leaves(l) == writer' = l /\ woken' = woken \ {"tx"}

WriteFails ==
    /\ WriteFree /\ (shutDown \/ ~MaySend)
    /\ Leaves("idle")
    /\ UNCHANGED <<reader, waker, shutDown, sockVars, histVars, pumpVars>>

WriteSome(n) ==
    /\ WriteFree /\ ~shutDown /\ MaySend
    /\ n <= Room - tx /\ accepted + n <= MaxBytes
    /\ tx' = tx + n /\ unsent' = unsent + n /\ accepted' = accepted + n
    /\ Leaves("ring")
    /\ UNCHANGED <<reader, waker, shutDown, mine, theirs, dead, rx, window, owed, acked, arrived,
                   given, flushed, eof, lost, pumpVars>>

\* Faulty variant: the waker is not registered.
ForgetWaker == UNCHANGED waker
RegisterSend == waker' = waker \cup {"tx"}

WriteParks ==
    /\ WriteFree /\ ~shutDown /\ MaySend /\ tx = Room
    /\ RegisterSend
    /\ Leaves("write")
    /\ UNCHANGED <<reader, shutDown, sockVars, histVars, pumpVars>>

FlushDone ==
    /\ WriteFree /\ tx = 0
    /\ flushed' = accepted
    /\ Leaves("idle")
    /\ UNCHANGED <<reader, waker, shutDown, sockVars, accepted, acked, arrived, given, eof,
                   lost, pumpVars>>

FlushFails ==
    /\ WriteFree /\ tx > 0 /\ dead
    /\ Leaves("idle")
    /\ UNCHANGED <<reader, waker, shutDown, sockVars, histVars, pumpVars>>

FlushParks ==
    /\ WriteFree /\ tx > 0 /\ ~dead
    /\ RegisterSend
    /\ Leaves("flush")
    /\ UNCHANGED <<reader, shutDown, sockVars, histVars, pumpVars>>

\* close_half: closing an open half changes the state, which calls both wakers.
Shutdown ==
    /\ WriteFree /\ ~shutDown
    /\ shutDown' = TRUE
    /\ writer' = "ring"
    /\ mine' = IF MaySend THEN "queued" ELSE mine
    /\ waker' = IF MaySend THEN {} ELSE waker
    /\ woken' = (woken \ {"tx"}) \cup {h \in {"rx"} \cap waker : MaySend /\ reader = "parked"}
    /\ UNCHANGED <<reader, theirs, dead, tx, unsent, rx, window, owed, histVars, pumpVars>>

WriteRings ==
    /\ writer = "ring"
    /\ rung' = TRUE
    /\ writer' = "idle"
    /\ UNCHANGED <<reader, woken, waker, shutDown, sockVars, histVars, link, pump, delay>>

WriteDropped ==
    /\ writer \in {"write", "flush"}
    /\ Leaves("idle")
    /\ UNCHANGED <<reader, waker, shutDown, sockVars, histVars, pumpVars>>

-----------------------------------------------------------------------------
(* The pump: what one Interface::poll does to the socket.                    *)

\* window_to_update: the peer is told once the window has at least doubled.
WindowToUpdate ==
    /\ theirs = "open" /\ ~dead
    /\ Room - rx > 0 /\ (Room - rx) \div 2 >= window

HasWork == ~dead /\ (unsent > 0 \/ mine = "queued" \/ WindowToUpdate)

\* The segment that came in, if the connection is there still.
Process ==
    \/ /\ dead \/ link = "none"
       /\ UNCHANGED <<mine, theirs, dead, tx, rx, owed, acked, arrived, woken, waker>>
    \/ /\ ~dead /\ link = "data"
       /\ rx' = rx + 1 /\ arrived' = arrived + 1 /\ owed' = TRUE
       /\ Wake({"rx"})
       /\ UNCHANGED <<mine, theirs, dead, tx, acked>>
    \/ /\ ~dead /\ link = "ack" /\ tx > unsent
       /\ tx' = tx - 1 /\ acked' = acked + 1
       /\ Wake({"tx"})
       /\ UNCHANGED <<mine, theirs, dead, rx, owed, arrived>>
    \/ /\ ~dead /\ link = "ack" /\ tx = unsent
       /\ mine' = "acked"
       /\ Wake({"tx", "rx"})
       /\ UNCHANGED <<theirs, dead, tx, rx, owed, acked, arrived>>
    \/ /\ ~dead /\ link = "fin"
       /\ theirs' = (IF mine = "open" THEN "first" ELSE "last") /\ owed' = TRUE
       /\ Wake({"tx", "rx"})
       /\ UNCHANGED <<mine, dead, tx, rx, acked, arrived>>
    \/ /\ ~dead /\ link = "reset"
       /\ dead' = TRUE
       /\ Wake({"tx", "rx"})
       /\ UNCHANGED <<mine, theirs, tx, rx, owed, acked, arrived>>

TimeWait == mine = "acked" /\ theirs = "last" /\ ~dead

\* poll_delay: at once while something waits for a place in the channel to the
\* device; later while a retransmission, a delayed acknowledgment or the end of
\* TimeWait is due.
NextPoll == IF dead THEN "none" ELSE IF HasWork THEN "now"
            ELSE IF tx > 0 \/ mine = "sent" \/ owed \/ TimeWait THEN "later" ELSE "none"

\* Receives: the segment is taken in.  The rest of the same poll follows with
\* the mutex held.
Receive ==
    /\ pump = "poll"
    /\ Process
    /\ window' = IF link = "data" /\ ~dead THEN window - 1 ELSE window
    /\ link' = "none" /\ pump' = "transmit"
    /\ UNCHANGED <<reader, writer, shutDown, unsent, accepted, given, flushed, eof, lost, delay,
                   rung>>

\* Transmits: all there is, or nothing while the channel to the device is full.
\* A segment carries the window and the acknowledgment; one that is only owed
\* may be delayed.
Transmit(full, late) ==
    /\ pump = "transmit"
    /\ IF full \/ dead \/ ~(HasWork \/ (owed /\ ~late))
       THEN UNCHANGED <<unsent, mine, window, owed>>
       ELSE /\ unsent' = 0 /\ window' = Room - rx /\ owed' = FALSE
            /\ mine' = IF mine = "queued" THEN "sent" ELSE mine
    /\ pump' = "select"
    /\ UNCHANGED <<callVars, theirs, dead, tx, rx, histVars, link, rung>>
    /\ delay' = NextPoll'

\* A later poll finds the timer of TimeWait over, with nothing come in and nothing
\* left to acknowledge: smoltcp resets the socket, and its receive buffer with it.
TimeWaitExpires ==
    /\ pump = "poll" /\ link = "none" /\ TimeWait /\ ~owed
    /\ dead' = TRUE /\ rx' = 0 /\ lost' = rx
    /\ Wake({"tx", "rx"})
    /\ pump' = "select" /\ delay' = "none"
    /\ UNCHANGED <<reader, writer, shutDown, mine, theirs, tx, unsent, window, owed, accepted, acked,
                   arrived, given, flushed, eof, link, rung>>

\* The select: a packet, the permit, or the delay.
Select ==
    /\ pump = "select"
    /\ \/ link # "none" /\ UNCHANGED rung
       \/ link = "none" /\ rung /\ rung' = FALSE
       \/ link = "none" /\ ~rung /\ delay # "none" /\ UNCHANGED rung
    /\ pump' = "poll"
    /\ UNCHANGED <<callVars, sockVars, histVars, link, delay>>

\* The pump ends, and StopOnExit aborts the socket.
Stop ==
    /\ pump = "select"
    /\ pump' = "done" /\ dead' = TRUE /\ link' = "none"
    /\ Wake({"tx", "rx"})
    /\ UNCHANGED <<reader, writer, shutDown, mine, theirs, tx, unsent, rx, window, owed, histVars,
                   delay, rung>>

-----------------------------------------------------------------------------
\* The peer: in sequence, within the window, one segment on its way at a time.
\* One that comes while the pump polls waits in the channel for the next select.
PeerSends(k) ==
    /\ link = "none" /\ pump = "select" /\ ~dead
    /\ k = "data" => theirs = "open" /\ window > 0 /\ arrived < MaxBytes
    /\ k = "fin" => theirs = "open"
    /\ k = "ack" => tx > unsent \/ mine = "sent"
    /\ link' = k
    /\ UNCHANGED <<callVars, sockVars, histVars, pump, delay, rung>>

-----------------------------------------------------------------------------
\* Interface::poll holds the mutex from Receive to Transmit.
StreamNext ==
    /\ pump # "transmit"
    /\ \/ ReadEnd
       \/ \E n \in 1 .. Room : ReadSome(n)
       \/ ReadParks
       \/ ReadRings
       \/ ReadDropped
       \/ WriteFails
       \/ \E n \in 1 .. Room : WriteSome(n)
       \/ WriteParks
       \/ FlushDone
       \/ FlushFails
       \/ FlushParks
       \/ Shutdown
       \/ WriteRings
       \/ WriteDropped

PumpNext ==
    \/ Receive
    \/ \E full, late \in BOOLEAN : Transmit(full, late)
    \/ TimeWaitExpires
    \/ Select
    \/ Stop

Next ==
    \/ StreamNext
    \/ PumpNext
    \/ \E k \in {"data", "ack", "fin", "reset"} : PeerSends(k)

Spec == Init /\ [][Next]_vars

-----------------------------------------------------------------------------
\* The types of the calls', the socket's and the pump's state.
TypeOK ==
    /\ reader \in {"idle", "ring", "parked"} /\ writer \in {"idle", "ring", "write", "flush"}
    /\ woken \subseteq {"tx", "rx"} /\ waker \subseteq {"tx", "rx"} /\ shutDown \in BOOLEAN
    /\ mine \in {"open", "queued", "sent", "acked"} /\ theirs \in {"open", "first", "last"}
    /\ dead \in BOOLEAN /\ owed \in BOOLEAN /\ eof \in BOOLEAN /\ rung \in BOOLEAN
    /\ tx \in 0 .. Room /\ unsent \in 0 .. tx /\ rx \in 0 .. Room /\ window \in 0 .. Room
    /\ accepted \in 0 .. MaxBytes /\ acked \in 0 .. accepted /\ flushed \in 0 .. accepted
    /\ arrived \in 0 .. MaxBytes /\ given \in 0 .. arrived /\ lost \in 0 .. Room
    /\ link \in {"none", "data", "ack", "fin", "reset"}
    /\ pump \in {"poll", "transmit", "select", "done"} /\ delay \in {"now", "later", "none"}

(* A read, a write or a flush that is parked and was not woken has its waker *)
(* registered and nothing to go on with: data, room, an acknowledgment, the  *)
(* peer's FIN, a reset and the stop of the stack all reach it, also when the *)
(* call before it was dropped or was of another kind.                        *)
NoStrandedHalf ==
    /\ reader = "parked" /\ "rx" \notin woken =>
        "rx" \in waker /\ rx = 0 /\ theirs = "open" /\ ~dead
    /\ writer = "write" /\ "tx" \notin woken =>
        "tx" \in waker /\ tx = Room /\ mine = "open" /\ ~dead
    /\ writer = "flush" /\ "tx" \notin woken => "tx" \in waker /\ tx > 0 /\ ~dead

(* tcp.rs: "Consuming bytes opened the receive window; the peer only learns  *)
(* that when the stack next polls".  While the pump sleeps without a timer   *)
(* there are no bytes, no FIN and no window it has not sent, unless its      *)
(* permit is there or a call is about to leave one.                          *)
PumpTold ==
    pump = "select" /\ delay = "none" /\ ~rung /\ link = "none" /\ HasWork =>
        "ring" \in {reader, writer}

(* What the owner is told is true: at the end of file every byte that        *)
(* reached the socket has been handed over, whether the peer, a reset or the *)
(* stop of the stack brought the end, and bytes are lost only to the end of  *)
(* TimeWait, of a connection the owner itself closed before the peer did;    *)
(* and a flush that succeeded leaves no byte the peer has not acknowledged.  *)
AnswersHonest ==
    /\ eof => given + lost = arrived
    /\ lost > 0 => shutDown /\ theirs = "last" /\ dead
    /\ flushed <= acked

=============================================================================
