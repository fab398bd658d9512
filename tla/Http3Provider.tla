--------------------------- MODULE Http3Provider ---------------------------
(***************************************************************************)
(* Http3TunnelProvider (src/http3/mod.rs): CONNECT streams on a shared     *)
(* QUIC session, which dials replace when it retires or breaks; older      *)
(* sessions live on while their streams do, up to a limit.  Sessions are   *)
(* reference counted: the provider's `current', the dials and the streams  *)
(* hold them, `all' refers to them weakly, and the last holder's drop      *)
(* stops the session and signals that a place is free.                     *)
(*                                                                         *)
(* One action is what a task does between two awaits, or one critical      *)
(* section of the sessions or of the writers mutex.                        *)
(***************************************************************************)
EXTENDS Integers, FiniteSets

CONSTANTS
    Dialers,      \* tasks in prepare or dial, and then owners of a stream
    Closers,      \* tasks in shutdown
    Retirers,     \* tasks in retire
    Jobs,         \* what dialers call: "dial", "prepare" or both
    Sessions,     \* identities of sessions, free for reuse once one is gone
    NoSession,
    NoProc,
    MaxSessions,  \* MAX_SESSIONS
    MaxStreams    \* MAX_STREAMS

Procs == Dialers \cup Closers \cup Retirers

ASSUME Http3Assumption ==
    /\ MaxSessions \in Nat \ {0} /\ MaxStreams \in Nat \ {0}
    /\ IsFiniteSet(Procs) /\ IsFiniteSet(Sessions)
    /\ NoProc \notin Procs /\ NoSession \notin Sessions
    /\ Dialers \cap Closers = {} /\ Dialers \cap Retirers = {} /\ Closers \cap Retirers = {}
    /\ Jobs \subseteq {"dial", "prepare"}

VARIABLES
    pc,        \* where each task is
    job,       \* what a dialer was asked for
    bell,      \* a dialer's Notified future on `freed'
    holds,     \* the sessions a task, or its stream, holds an Arc of
    ending,    \* the session a closing task is in the middle of stopping
    lock,      \* who holds connect_lock
    current,   \* Sessions::current
    all,       \* Sessions::all
    opened,    \* published sessions not stopped yet
    stopped,   \* Session::stopped
    unusable,  \* sessions that are retiring or broken
    dropping,  \* sessions whose destructor is running
    writers,   \* Session::writers: the streams whose writer task runs
    stop,      \* the value of Http3TunnelProvider::stop; permits close with it
    down,      \* history: a shutdown has returned
    strays     \* history: sessions a retire that was dropped had still to stop

sessVars == <<current, all, opened, stopped, unusable, dropping, writers>>
histVars == <<down, strays>>
vars == <<pc, job, bell, holds, ending, lock, sessVars, stop, histVars>>

Goto(p, l) == pc' = [pc EXCEPT ![p] = l]

Live(h, cur) == {s \in Sessions : s = cur \/ \E p \in Procs : s \in h[p]}

\* The Arcs after a step; the sessions nobody holds any more are dropped.
Hold(h, cur) ==
    /\ holds' = h
    /\ current' = cur
    /\ dropping' = dropping \cup (Live(holds, current) \ Live(h, cur))

Permits == {d \in Dialers : job[d] = "dial" /\ pc[d] \in {"lock", "connect", "request", "stream"}}

Init ==
    /\ pc = [p \in Procs |-> "idle"]
    /\ job = [d \in Dialers |-> "dial"] /\ bell = [d \in Dialers |-> "none"]
    /\ holds = [p \in Procs |-> {}] /\ ending = [p \in Procs |-> NoSession]
    /\ lock = NoProc /\ current = NoSession /\ all = {}
    /\ opened = {} /\ stopped = {} /\ unusable = {} /\ dropping = {}
    /\ writers = [s \in Sessions |-> {}]
    /\ stop = FALSE /\ down = FALSE /\ strays = {}

-----------------------------------------------------------------------------
(* dial and prepare up to a session.                                         *)

\* dial looks at the stop flag and takes a permit; prepare does neither.
Start(d, j) ==
    /\ pc[d] = "idle" /\ bell[d] = "none" /\ j \in Jobs
    /\ j = "dial" => ~stop
    /\ job' = [job EXCEPT ![d] = j]
    /\ Goto(d, IF j = "dial" THEN "permit" ELSE "lock")
    /\ UNCHANGED <<bell, holds, ending, lock, sessVars, stop, histVars>>

AcquirePermit(d) ==
    /\ pc[d] = "permit" /\ ~stop /\ Cardinality(Permits) < MaxStreams
    /\ Goto(d, "lock")
    /\ UNCHANGED <<job, bell, holds, ending, lock, sessVars, stop, histVars>>

Usable(s) == s # NoSession /\ s \notin unusable /\ s \notin stopped

\* Faulty variant: sessions that drain after GOAWAY are not counted.
CountedUsable(as) == {s \in as : Usable(s)}
Counted(as) == as

\* session(): connect_lock is won; what the sessions mutex protects follows.
\* connect_lock is kept across the connection attempt.
WithSession(d) ==
    /\ Usable(current)
    /\ IF job[d] = "dial"
       THEN Goto(d, "request") /\ Hold([holds EXCEPT ![d] = {current}], current)
       ELSE Goto(d, "idle") /\ UNCHANGED <<holds, current, dropping>>
    /\ bell' = [bell EXCEPT ![d] = "none"]
    /\ UNCHANGED <<lock, all>>

WithoutSession(d) ==
    /\ ~Usable(current)
    /\ Hold(holds, NoSession)
    /\ all' = all \cap Live(holds, NoSession)
    /\ IF Cardinality(Counted(all')) >= MaxSessions
       THEN Goto(d, "full") /\ UNCHANGED <<lock, bell>>
       ELSE /\ Goto(d, "connect") /\ lock' = d
            /\ bell' = [bell EXCEPT ![d] = "none"]

TakeLock(d) ==
    /\ pc[d] = "lock" /\ lock = NoProc
    /\ WithSession(d) \/ WithoutSession(d)
    /\ UNCHANGED <<job, ending, opened, stopped, unusable, writers, stop, histVars>>

\* AtCapacity: the caller enables a Notified on `freed' and tries again; if
\* the tunnel is full still, it waits until that Notified is rung and repeats.
Redial(d) ==
    /\ pc[d] = "full" /\ bell[d] # "armed" /\ (job[d] = "dial" => ~stop)
    /\ bell' = [bell EXCEPT ![d] = "armed"]
    /\ Goto(d, IF job[d] = "dial" THEN "permit" ELSE "lock")
    /\ UNCHANGED <<job, holds, ending, lock, sessVars, stop, histVars>>

GiveUp(d) ==
    /\ pc[d] = "full"
    /\ bell' = [bell EXCEPT ![d] = "none"]
    /\ Goto(d, "idle")
    /\ UNCHANGED <<job, holds, ending, lock, sessVars, stop, histVars>>

\* A dial or prepare ends without a stream: an error, the deadline, the stop
\* flag (dial only), or the future is dropped.
Abandon(d) ==
    /\ Goto(d, "idle")
    /\ bell' = [bell EXCEPT ![d] = "none"]
    /\ Hold([holds EXCEPT ![d] = {}], current)
    /\ lock' = IF lock = d THEN NoProc ELSE lock
    /\ UNCHANGED <<job, ending, all, opened, stopped, writers, stop, histVars>>

DialEnds(d) ==
    /\ pc[d] \in {"permit", "lock", "connect", "request"}
    /\ Abandon(d) /\ UNCHANGED unusable

\* send_request fails, as it does after GOAWAY: the session retires.
RequestRefused(d) ==
    /\ pc[d] = "request"
    /\ unusable' = unusable \cup holds[d]
    /\ Abandon(d)

FreshSessions ==
    Sessions \ (Live(holds, current) \cup all \cup opened \cup dropping)

\* Faulty variant: the stop flag is not looked at under the mutex.
PublishAlways == TRUE
MayPublish == ~stop

RingAll == [d \in Dialers |-> IF bell[d] = "armed" THEN "rung" ELSE bell[d]]

\* connect_addresses: a connection is up.  Under the sessions mutex it becomes
\* the current session, or, if the provider stopped meanwhile, is dropped.
Connected(d, s) ==
    /\ pc[d] = "connect" /\ s \in FreshSessions
    /\ lock' = NoProc
    /\ IF MayPublish
       THEN /\ all' = all \cup {s} /\ opened' = opened \cup {s}
            /\ stopped' = stopped \ {s} /\ unusable' = unusable \ {s}
            /\ Hold([holds EXCEPT ![d] = IF job[d] = "dial" THEN {s} ELSE {}], s)
            /\ Goto(d, IF job[d] = "dial" THEN "request" ELSE "idle")
            /\ UNCHANGED bell
       ELSE /\ Goto(d, "idle")
            /\ bell' = RingAll
            /\ UNCHANGED <<all, opened, stopped, unusable, holds, current, dropping>>
    /\ UNCHANGED <<job, ending, writers, stop, histVars>>

-----------------------------------------------------------------------------
(* A stream.                                                                 *)

\* Http3Stream::new checks `stopped' under the writers mutex.
WriterAlways(s) == TRUE  \* faulty variant
MayWrite(s) == s \notin stopped

OpenStream(d) ==
    /\ pc[d] = "request"
    /\ \A s \in holds[d] :
        /\ MayWrite(s)
        /\ writers' = [writers EXCEPT ![s] = @ \cup {d}]
    /\ Goto(d, "stream")
    /\ UNCHANGED <<job, bell, holds, ending, lock, current, all, opened, stopped,
                   unusable, dropping, stop, histVars>>

\* Drop for Http3Stream aborts the writer task.
DropStream(d) ==
    /\ pc[d] = "stream"
    /\ Goto(d, "idle")
    /\ Hold([holds EXCEPT ![d] = {}], current)
    /\ writers' = [s \in Sessions |-> writers[s] \ {d}]
    /\ UNCHANGED <<job, bell, ending, lock, all, opened, stopped, unusable, stop, histVars>>

\* The peer goes away, or the driver task ends.
Break(s) ==
    /\ s \in opened \ unusable
    /\ unusable' = unusable \cup {s}
    /\ UNCHANGED <<pc, job, bell, holds, ending, lock, current, all, opened, stopped,
                   dropping, writers, stop, histVars>>

\* Drop for Session: stop, then SlotFreed::signal.
Silent == bell  \* faulty variant: nobody is told
Signal == RingAll

Destroy(s) ==
    /\ s \in dropping
    /\ dropping' = dropping \ {s}
    /\ opened' = opened \ {s}
    /\ stopped' = stopped \ {s} /\ unusable' = unusable \ {s}
    /\ writers' = [writers EXCEPT ![s] = {}]
    /\ bell' = Signal
    /\ strays' = strays \ {s}
    /\ UNCHANGED <<pc, job, holds, ending, lock, current, all, stop, down>>

-----------------------------------------------------------------------------
(* retire and shutdown.                                                      *)

Retire(c) ==
    /\ pc[c] = "idle" /\ c \in Retirers
    /\ Goto(c, "retire")
    /\ UNCHANGED <<job, bell, holds, ending, lock, sessVars, stop, histVars>>

\* stop_sessions: the flag first.
Shutdown(c) ==
    /\ pc[c] = "idle" /\ c \in Closers
    /\ stop' = TRUE
    /\ Goto(c, "shutdown")
    /\ UNCHANGED <<job, bell, holds, ending, lock, sessVars, histVars>>

\* Faulty variant: shutdown waits for connect_lock as retire does.
MayDrainLocked(c) == lock = NoProc
MayDrain(c) == pc[c] = "retire" => lock = NoProc

\* Both then drain `all' under the sessions mutex; retire keeps connect_lock.
Drain(c) ==
    /\ pc[c] \in {"retire", "shutdown"} /\ MayDrain(c)
    /\ lock' = IF pc[c] = "retire" THEN c ELSE lock
    /\ Hold([holds EXCEPT ![c] = all \cap Live(holds, current)], NoSession)
    /\ all' = {}
    /\ Goto(c, IF pc[c] = "retire" THEN "retiring" ELSE "stopping")
    /\ UNCHANGED <<job, bell, ending, opened, stopped, unusable, writers, stop, histVars>>

\* Session::stop: the flag and the close, then the writers mutex.
StopSession(c, s) ==
    /\ pc[c] \in {"retiring", "stopping"} /\ ending[c] = NoSession
    /\ s \in holds[c] \ stopped
    /\ stopped' = stopped \cup {s} /\ opened' = opened \ {s}
    /\ ending' = [ending EXCEPT ![c] = s]
    /\ UNCHANGED <<pc, job, bell, holds, lock, current, all, unusable, dropping, writers,
                   stop, histVars>>

CollectWriters(c) ==
    /\ pc[c] \in {"retiring", "stopping"} /\ ending[c] # NoSession
    /\ writers' = [writers EXCEPT ![ending[c]] = {}]
    /\ IF pc[c] = "retiring"
       THEN Goto(c, "joining") /\ UNCHANGED ending
       ELSE ending' = [ending EXCEPT ![c] = NoSession] /\ UNCHANGED pc
    /\ UNCHANGED <<job, bell, holds, lock, current, all, opened, stopped, unusable,
                   dropping, stop, histVars>>

\* retire waits for one session's tasks and endpoint before it stops the next.
Joined(c) ==
    /\ pc[c] = "joining"
    /\ Hold([holds EXCEPT ![c] = @ \ {ending[c]}], current)
    /\ ending' = [ending EXCEPT ![c] = NoSession]
    /\ Goto(c, "retiring")
    /\ UNCHANGED <<job, bell, lock, all, opened, stopped, unusable, writers, stop, histVars>>

\* shutdown stops them all, lets go of them, and waits for all of them.
AllStopped(c) ==
    /\ pc[c] = "stopping" /\ ending[c] = NoSession /\ holds[c] \subseteq stopped
    /\ Hold([holds EXCEPT ![c] = {}], current)
    /\ Goto(c, "waiting")
    /\ UNCHANGED <<job, bell, ending, lock, all, opened, stopped, unusable, writers, stop,
                   histVars>>

Return(c) ==
    /\ pc[c] = "waiting" \/ (pc[c] = "retiring" /\ holds[c] = {})
    /\ lock' = IF lock = c THEN NoProc ELSE lock
    /\ down' = (down \/ pc[c] = "waiting")
    /\ Goto(c, "idle")
    /\ UNCHANGED <<job, bell, holds, ending, sessVars, stop, strays>>

\* The caller drops retire where it waits for connect_lock, or for a session's
\* tasks and endpoint, or it drops shutdown where it waits for those.  The sessions
\* a retire had not come to are neither stopped nor put back into `all'.
CancelClose(c) ==
    /\ pc[c] \in {"retire", "joining", "waiting"}
    /\ Hold([holds EXCEPT ![c] = {}], current)
    /\ strays' = strays \cup ((holds[c] \cap opened) \ dropping')
    /\ ending' = [ending EXCEPT ![c] = NoSession]
    /\ lock' = IF lock = c THEN NoProc ELSE lock
    /\ Goto(c, "idle")
    /\ UNCHANGED <<job, bell, all, opened, stopped, unusable, writers, stop, down>>

-----------------------------------------------------------------------------
DialerNext(d) ==
    \/ \E j \in Jobs : Start(d, j)
    \/ AcquirePermit(d)
    \/ TakeLock(d)
    \/ Redial(d)
    \/ GiveUp(d)
    \/ DialEnds(d)
    \/ RequestRefused(d)
    \/ \E s \in Sessions : Connected(d, s)
    \/ OpenStream(d)
    \/ DropStream(d)

CloserNext(c) ==
    \/ Retire(c)
    \/ Shutdown(c)
    \/ Drain(c)
    \/ \E s \in Sessions : StopSession(c, s)
    \/ CollectWriters(c)
    \/ Joined(c)
    \/ AllStopped(c)
    \/ Return(c)
    \/ CancelClose(c)

Next ==
    \/ \E d \in Dialers : DialerNext(d)
    \/ \E c \in Closers \cup Retirers : CloserNext(c)
    \/ \E s \in Sessions : Break(s) \/ Destroy(s)

Spec == Init /\ [][Next]_vars

\* shutdown waits for nothing but aborted tasks and, five seconds at most, each
\* endpoint: its steps are always taken.  Nothing is assumed of the dialers.
FairSpec ==
    /\ Spec
    /\ \A c \in Closers :
        /\ WF_vars(Drain(c)) /\ WF_vars(CollectWriters(c)) /\ WF_vars(AllStopped(c))
        /\ WF_vars(Return(c)) /\ WF_vars(\E s \in Sessions : StopSession(c, s))

-----------------------------------------------------------------------------
\* The types of the provider's fields and of the tasks' local state.
TypeOK ==
    /\ pc \in [Procs -> {"idle", "permit", "lock", "connect", "request", "stream", "full",
                         "retire", "shutdown", "retiring", "stopping", "joining", "waiting"}]
    /\ job \in [Dialers -> {"dial", "prepare"}]
    /\ bell \in [Dialers -> {"none", "armed", "rung"}]
    /\ holds \in [Procs -> SUBSET Sessions]
    /\ ending \in [Procs -> Sessions \cup {NoSession}]
    /\ lock \in Procs \cup {NoProc}
    /\ current \in Sessions \cup {NoSession}
    /\ all \subseteq Sessions /\ opened \subseteq Sessions /\ stopped \subseteq Sessions
    /\ unusable \subseteq Sessions /\ dropping \subseteq Sessions
    /\ writers \in [Sessions -> SUBSET Dialers]
    /\ stop \in BOOLEAN /\ down \in BOOLEAN /\ strays \subseteq Sessions

(* docs/http3.md: "Each provider admits at most 128 live streams and four    *)
(* QUIC sessions, including sessions draining after GOAWAY."  A session      *)
(* whose destructor is running no longer counts; one that only streams hold, *)
(* or that retire has taken out of `all', still does.  Only what a dropped   *)
(* retire left running comes on top.                                         *)
LimitsKept ==
    /\ Cardinality((opened \ dropping) \ strays) <= MaxSessions
    /\ Cardinality({d \in Dialers : pc[d] = "stream"}) <= MaxStreams

Closed(s) == s \notin opened \ dropping /\ writers[s] = {}

(* docs/http3.md: shutdown "closes all sessions and streams, aborts and      *)
(* joins owned driver/writer tasks": once it has returned no published       *)
(* session is open and no writer task is registered, whatever dials were     *)
(* between their response and the registration of their writer.  There are   *)
(* two exceptions, what another retire or shutdown that is not done yet had  *)
(* taken out of `all' (it stops one session after the other, and shutdown    *)
(* does not wait for it), and what a retire that was dropped left behind.    *)
ShutdownClosesAll ==
    LET inHand == UNION {holds[c] : c \in Closers \cup Retirers}
    IN  down => \A s \in Sessions \ (inHand \cup strays) : Closed(s)

(* The sentence of docs/http3.md as it stands: once shutdown has returned,   *)
(* all sessions and streams are closed.                                      *)
ShutdownClosesEverything == down => \A s \in Sessions : Closed(s)

(* error.rs, SlotFreed: "Signalled each time the full tunnel frees a socket  *)
(* slot".  A dial that waits for the signal, on a provider that was not shut *)
(* down, still finds as many sessions alive as there may be, or the          *)
(* destructor that signals is running.                                       *)
FreedNotMissed ==
    \A d \in Dialers : pc[d] = "full" /\ bell[d] = "armed" /\ ~stop =>
        Cardinality(Live(holds, current)) >= MaxSessions \/ dropping # {}

(* The provider implements ProviderSpec: after shutdown has returned no      *)
(* session is published, not even by a prepare, which shutdown neither       *)
(* cancels nor waits for.                                                    *)
Phase == IF down THEN "closed" ELSE IF stop THEN "closing" ELSE "open"
Provider == INSTANCE ProviderSpec WITH phase <- Phase
ImplementsProvider == Provider!PSpec

(* shutdown returns whatever the dialers do: it does not queue behind a      *)
(* connection attempt that holds connect_lock.                               *)
ShutdownReturns == \A c \in Closers : pc[c] = "shutdown" ~> pc[c] = "idle"

=============================================================================
