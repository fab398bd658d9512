---------------------------- MODULE SshProvider ----------------------------
(***************************************************************************)
(* SshTunnelProvider (src/ssh.rs): one SSH session shared by every dial,   *)
(* kept behind an asynchronous mutex, established lazily, replaced once by *)
(* a dial that finds it dead, released by retire and for good by shutdown; *)
(* and the trust-on-first-use state of the server's host key, which the    *)
(* russh handler writes in the middle of a handshake.                      *)
(*                                                                         *)
(* One action is what a task does between two awaits.  Dropping a future   *)
(* at an await (a front's timeout, an aborted task) is Cancel or           *)
(* CancelClose.                                                            *)
(***************************************************************************)
EXTENDS Integers, Sequences, FiniteSets

CONSTANTS
    Dialers,     \* tasks in dial or prepare
    Closers,     \* tasks in retire or shutdown
    Jobs,        \* what dialers call: "dial", "prepare" or both
    Keys,        \* fingerprints a server may present
    NoKey,
    Pin,         \* TunnelSpec::pinned_host_key, NoKey if there is none
    Sessions,    \* identities of sessions, free for reuse once nothing refers to them
    NoSession,
    NoProc

Procs == Dialers \cup Closers

ASSUME SshAssumption ==
    /\ Dialers \cap Closers = {} /\ NoProc \notin Procs
    /\ NoKey \notin Keys /\ Pin \in Keys \cup {NoKey}
    /\ NoSession \notin Sessions /\ Jobs \subseteq {"dial", "prepare"}

VARIABLES
    pc,         \* where each task is
    job,        \* what a dialer was asked for
    held,       \* the Arc of the session a task holds
    retried,    \* the dial is on its second session
    shown,      \* the key the server showed in a dialer's handshake
    lock,       \* who holds SshTunnelProvider::session
    slot,       \* the session in it
    closed,     \* SshTunnelProvider::closed
    learned,    \* HostKeyState::fingerprint
    newly,      \* HostKeyState::newly_pinned
    reported,   \* HostKeyState::reported
    alive,      \* sessions that still answer
    keyOf,      \* the host key a session was established under
    pins,       \* history: the host_key_pinned calls
    authed,     \* history: keys whose servers accepted our credentials
    suspect,    \* history: sessions on which a channel failed to open
    down        \* history: a shutdown has returned

taskVars == <<pc, job, held, retried, shown>>
keyVars  == <<learned, newly, reported, pins, authed>>
sessVars == <<alive, keyOf, suspect>>
vars == <<taskVars, lock, slot, closed, keyVars, sessVars, down>>

Goto(p, l) == pc' = [pc EXCEPT ![p] = l]

Init ==
    /\ pc = [p \in Procs |-> "idle"]
    /\ job = [d \in Dialers |-> "dial"]
    /\ held = [p \in Procs |-> NoSession]
    /\ retried = [d \in Dialers |-> FALSE]
    /\ shown = [d \in Dialers |-> NoKey]
    /\ lock = NoProc /\ slot = NoSession /\ closed = FALSE
    /\ learned = NoKey /\ newly = FALSE /\ reported = FALSE
    /\ alive = {} /\ keyOf = [s \in Sessions |-> NoKey]
    /\ pins = <<>> /\ authed = {} /\ suspect = {} /\ down = FALSE

-----------------------------------------------------------------------------
(* session() and replace_session(): what is decided when the mutex is won.   *)

\* dial and prepare both begin with session().
Start(d, j) ==
    /\ pc[d] = "idle" /\ j \in Jobs
    /\ job' = [job EXCEPT ![d] = j]
    /\ retried' = [retried EXCEPT ![d] = FALSE]
    /\ held' = [held EXCEPT ![d] = NoSession]
    /\ Goto(d, "session")
    /\ UNCHANGED <<shown, lock, slot, closed, keyVars, sessVars, down>>

\* The task has its session s: prepare is done with it, dial opens a channel.
Proceed(d, s) ==
    /\ Goto(d, IF job[d] = "dial" THEN "open" ELSE "idle")
    /\ held' = [held EXCEPT ![d] = IF job[d] = "dial" THEN s ELSE NoSession]

\* The future ends: whatever Arc it held is dropped.
Finish(d) ==
    /\ Goto(d, "idle")
    /\ held' = [held EXCEPT ![d] = NoSession]

\* replace_session reconnects over its own stale session or an empty slot.
StaleAlways(d) == TRUE  \* faulty variant: no Arc::ptr_eq
Stale(d) == slot \in {NoSession, held[d]}

MustConnect(d) ==
    IF pc[d] = "replace" THEN Stale(d) ELSE slot = NoSession

\* Faulty variant: the flag is not looked at once the mutex is won.
ClosedUnseen == FALSE
ClosedSeen == closed

Acquire(d) ==
    /\ pc[d] \in {"session", "replace"} /\ lock = NoProc
    /\ retried' = [retried EXCEPT ![d] = pc[d] = "replace"]
    /\ \/ /\ ClosedSeen
          /\ Finish(d) /\ UNCHANGED <<lock, slot>>
       \/ /\ ~ClosedSeen /\ ~MustConnect(d)
          /\ Proceed(d, slot) /\ UNCHANGED <<lock, slot>>
       \/ /\ ~ClosedSeen /\ MustConnect(d)
          /\ slot' = NoSession
          /\ lock' = d
          /\ Goto(d, "connect") /\ UNCHANGED held
    /\ UNCHANGED <<job, shown, closed, keyVars, sessVars, down>>

-----------------------------------------------------------------------------
(* connect(), run with the mutex held.                                       *)

\* Faulty variant: the transport is awaited without a timeout.
ConnectFailsNever(d) == pc[d] = "connect" /\ FALSE

\* A bad key file, an unreachable server, a failed or late handshake.
ConnectFails(d) ==
    /\ pc[d] = "connect"
    /\ lock' = NoProc
    /\ Finish(d)
    /\ UNCHANGED <<job, retried, shown, slot, closed, keyVars, sessVars, down>>

\* check_server_key: the pin, or else what this provider learned before.
ExpectedPinOnly == Pin          \* faulty variant: what was learned is not a pin
Expected == IF Pin # NoKey THEN Pin ELSE learned

LearnNot(k) == UNCHANGED learned  \* faulty variant: the state is never filled in
Learn(k) == learned' = k

NewlyPinned ==
    IF Pin # NoKey THEN FALSE ELSE IF learned = NoKey THEN TRUE ELSE newly

CheckServerKey(d, k) ==
    /\ pc[d] = "connect"
    /\ IF Expected \notin {NoKey, k}
       THEN /\ lock' = NoProc
            /\ Finish(d)
            /\ UNCHANGED <<learned, newly, shown>>
       ELSE /\ Learn(k)
            /\ newly' = NewlyPinned
            /\ shown' = [shown EXCEPT ![d] = k]
            /\ Goto(d, "auth")
            /\ UNCHANGED <<lock, held>>
    /\ UNCHANGED <<job, retried, slot, closed, reported, pins, authed, sessVars, down>>

\* The rest of the handshake fails, or the server rejects the credentials.
AuthFails(d) ==
    /\ pc[d] = "auth"
    /\ lock' = NoProc
    /\ Finish(d)
    /\ UNCHANGED <<job, retried, shown, slot, closed, keyVars, sessVars, down>>

\* The credentials are accepted and the observer refuses the fingerprint.
Unauthorized(d) ==
    /\ pc[d] = "auth"
    /\ authed' = authed \cup {shown[d]}
    /\ lock' = NoProc
    /\ Finish(d)
    /\ UNCHANGED <<job, retried, shown, slot, closed, learned, newly, reported, pins,
                   sessVars, down>>

FreeSessions ==
    Sessions \ (alive \cup {slot} \cup {held[p] : p \in Procs})

ReportPinAgain == newly  \* faulty variant: `reported' is not consulted
ReportPin == newly /\ ~reported

\* Accepted and authorized: the pin is reported and the session shared.
Authenticated(d, s) ==
    /\ pc[d] = "auth" /\ s \in FreeSessions
    /\ authed' = authed \cup {shown[d]}
    /\ pins' = IF ReportPin THEN Append(pins, learned) ELSE pins
    /\ reported' = TRUE
    /\ slot' = s
    /\ alive' = alive \cup {s}
    /\ keyOf' = [keyOf EXCEPT ![s] = shown[d]]
    /\ suspect' = suspect \ {s}
    /\ lock' = NoProc
    /\ Proceed(d, s)
    /\ UNCHANGED <<job, retried, shown, closed, learned, newly, down>>

-----------------------------------------------------------------------------
(* open_channel() on the session a dial holds, and the one reconnect.        *)

ChannelOpened(d) ==
    /\ pc[d] = "open" /\ held[d] \in alive
    /\ Finish(d)
    /\ UNCHANGED <<job, retried, shown, lock, slot, closed, keyVars, sessVars, down>>

\* The server refuses the destination, or the observer the host key.
DestinationFails(d) ==
    /\ pc[d] = "open"
    /\ Finish(d)
    /\ UNCHANGED <<job, retried, shown, lock, slot, closed, keyVars, sessVars, down>>

\* No answer in time, or the session is gone.
SessionFails(d) ==
    /\ pc[d] = "open"
    /\ suspect' = suspect \cup {held[d]}
    /\ IF retried[d] THEN Finish(d) ELSE Goto(d, "replace") /\ UNCHANGED held
    /\ UNCHANGED <<job, retried, shown, lock, slot, closed, keyVars, alive, keyOf, down>>

\* The future of a dial or prepare is dropped at an await.
Cancel(d) ==
    /\ pc[d] # "idle"
    /\ lock' = IF lock = d THEN NoProc ELSE lock
    /\ Finish(d)
    /\ UNCHANGED <<job, retried, shown, slot, closed, keyVars, sessVars, down>>

-----------------------------------------------------------------------------
(* The server and the network: a session dies, or the server rekeys and      *)
(* check_server_key judges the key it shows.                                 *)

SessionDies(s) ==
    /\ s \in alive
    /\ alive' = alive \ {s}
    /\ UNCHANGED <<taskVars, lock, slot, closed, keyVars, keyOf, suspect, down>>

Rekey(s, k) ==
    /\ s \in alive
    /\ alive' = IF Expected = k THEN alive ELSE alive \ {s}
    /\ learned' = IF Expected = k THEN k ELSE learned
    /\ UNCHANGED <<taskVars, lock, slot, closed, newly, reported, pins, authed, keyOf,
                   suspect, down>>

-----------------------------------------------------------------------------
(* retire() and shutdown().                                                  *)

Retire(c) ==
    /\ pc[c] = "idle"
    /\ Goto(c, "retire")
    /\ UNCHANGED <<job, held, retried, shown, lock, slot, closed, keyVars, sessVars, down>>

Shutdown(c) ==
    /\ pc[c] = "idle"
    /\ closed' = TRUE
    /\ Goto(c, "shutdown")
    /\ UNCHANGED <<job, held, retried, shown, lock, slot, keyVars, sessVars, down>>

\* The mutex is won: take the session, and keep the mutex while disconnecting.
TakeSession(c) ==
    /\ pc[c] \in {"retire", "shutdown"} /\ lock = NoProc
    /\ slot # NoSession
    /\ held' = [held EXCEPT ![c] = slot]
    /\ slot' = NoSession
    /\ lock' = c
    /\ Goto(c, IF pc[c] = "retire" THEN "retiring" ELSE "stopping")
    /\ UNCHANGED <<job, retried, shown, closed, keyVars, sessVars, down>>

\* disconnect is queued ahead of any later request on that session; the task
\* is awaited only if no dial shares the session.
Disconnect(c) ==
    /\ pc[c] \in {"retiring", "stopping"}
    /\ alive' = alive \ {held[c]}
    /\ lock' = NoProc
    /\ down' = (down \/ pc[c] = "stopping")
    /\ Finish(c)
    /\ UNCHANGED <<job, retried, shown, slot, closed, keyVars, keyOf, suspect>>

NothingToRetire(c) ==
    /\ pc[c] \in {"retire", "shutdown"} /\ lock = NoProc
    /\ slot = NoSession
    /\ down' = (down \/ pc[c] = "shutdown")
    /\ Goto(c, "idle")
    /\ UNCHANGED <<job, held, retried, shown, lock, slot, closed, keyVars, sessVars>>

\* The future of a retire or shutdown is dropped where it waits for the mutex, or
\* for the disconnect and the end of the session's task.  The session is out of the
\* provider already; whether the disconnect was sent depends on the moment.
CancelClose(c, sent) ==
    /\ pc[c] # "idle"
    /\ alive' = IF sent THEN alive \ {held[c]} ELSE alive
    /\ lock' = IF lock = c THEN NoProc ELSE lock
    /\ Finish(c)
    /\ UNCHANGED <<job, retried, shown, slot, closed, keyVars, keyOf, suspect, down>>

-----------------------------------------------------------------------------
DialerNext(d) ==
    \/ \E j \in Jobs : Start(d, j)
    \/ Acquire(d)
    \/ ConnectFails(d)
    \/ \E k \in Keys : CheckServerKey(d, k)
    \/ AuthFails(d)
    \/ Unauthorized(d)
    \/ \E s \in Sessions : Authenticated(d, s)
    \/ ChannelOpened(d)
    \/ DestinationFails(d)
    \/ SessionFails(d)
    \/ Cancel(d)

CloserNext(c) ==
    \/ Retire(c)
    \/ Shutdown(c)
    \/ TakeSession(c)
    \/ Disconnect(c)
    \/ NothingToRetire(c)
    \/ \E sent \in BOOLEAN : CancelClose(c, sent)

ServerNext ==
    \E s \in Sessions : SessionDies(s) \/ \E k \in Keys : Rekey(s, k)

Next ==
    \/ \E d \in Dialers : DialerNext(d)
    \/ \E c \in Closers : CloserNext(c)
    \/ ServerNext

Spec == Init /\ [][Next]_vars

\* What the code itself bounds: request_timeout around the transport and the
\* key exchange, and around a channel open; the mutex hands itself on in order
\* of arrival, so nobody who waits for it is passed over for ever.  Nothing bounds
\* authenticate_publickey, or the disconnect and the join of retire, all of them
\* awaited with the mutex held: that they end is not assumed.
CodeFairness ==
    /\ \A d \in Dialers :
        /\ SF_vars(Acquire(d))
        /\ WF_vars(ConnectFails(d))
        /\ WF_vars(SessionFails(d))
    /\ \A c \in Closers :
        SF_vars(TakeSession(c)) /\ SF_vars(NothingToRetire(c))

FairSpec == Spec /\ CodeFairness

-----------------------------------------------------------------------------
DialerPcs == {"idle", "session", "replace", "connect", "auth", "open"}
CloserPcs == {"idle", "retire", "shutdown", "retiring", "stopping"}

\* The types of the provider's fields and of the tasks' local state.
TypeOK ==
    /\ pc \in [Procs -> DialerPcs \cup CloserPcs]
    /\ \A d \in Dialers : pc[d] \in DialerPcs
    /\ \A c \in Closers : pc[c] \in CloserPcs
    /\ job \in [Dialers -> {"dial", "prepare"}]
    /\ held \in [Procs -> Sessions \cup {NoSession}]
    /\ retried \in [Dialers -> BOOLEAN]
    /\ shown \in [Dialers -> Keys \cup {NoKey}]
    /\ lock \in Procs \cup {NoProc}
    /\ slot \in Sessions \cup {NoSession}
    /\ closed \in BOOLEAN /\ newly \in BOOLEAN /\ reported \in BOOLEAN /\ down \in BOOLEAN
    /\ learned \in Keys \cup {NoKey}
    /\ alive \subseteq Sessions /\ suspect \subseteq Sessions
    /\ keyOf \in [Sessions -> Keys \cup {NoKey}]
    /\ pins \in Seq(Keys) /\ authed \subseteq Keys

(* "A reconnect on the same provider must not accept a different key merely  *)
(* because the repository has not persisted the first one yet" (ssh.rs):     *)
(* all sessions that answer, replaced ones included, are under one host key, *)
(* the configured pin where there is one.                                    *)
KeyContinuity ==
    \A s \in alive : keyOf[s] = learned /\ Pin \in {NoKey, keyOf[s]}

(* Trust on first use is reported exactly once: as soon as there is a        *)
(* session, the observer has been told its key if none was configured, and   *)
(* neither a reconnect nor a rekey tells it again.  "A server that will not  *)
(* accept the configured credentials has not proven itself worth trusting":  *)
(* what the observer is told to pin is the key of a server that did.         *)
PinnedOnce ==
    /\ Len(pins) <= 1 /\ \A i \in 1 .. Len(pins) : pins[i] \in authed
    /\ Pin # NoKey => pins = <<>>
    /\ alive # {} /\ Pin = NoKey => pins = <<learned>>

(* The session the provider shares is replaced only after a channel failed   *)
(* to open on that very session, or by retire or shutdown: of several dials  *)
(* that fail on one dead session, the first reconnects and the others use    *)
(* the session it brought ("another dial already reconnected; use theirs").  *)
OnlySuspectReplaced ==
    [][slot # NoSession /\ slot' # slot =>
        \/ slot \in suspect
        \/ \E c \in Closers : pc[c] \in {"retire", "shutdown"} /\ lock' = c]_vars

(* shutdown is final: the provider implements ProviderSpec, in which no      *)
(* session is established once a shutdown has returned, even by a dial that  *)
(* was waiting for the mutex, or connecting, when shutdown was called.       *)
Phase == IF down THEN "closed" ELSE IF closed THEN "closing" ELSE "open"
Provider == INSTANCE ProviderSpec WITH current <- slot, phase <- Phase
ImplementsProvider == Provider!PSpec

\* Some task stays for ever in one of the awaits on the server without a timeout.
Unanswered == \E p \in Procs : <>[](pc[p] \in {"auth", "retiring", "stopping"})

(* A dial that waits for the mutex, the transport, the key exchange or a     *)
(* channel, on either of its two attempts, ends.  The one thing that can     *)
(* hold it up for ever is a server that leaves an authentication or a        *)
(* disconnect unanswered, its own or that of the task which has the mutex:   *)
(* these two are awaited without a timeout.                                  *)
DialsEnd == Unanswered \/ \A d \in Dialers : pc[d] # "idle" ~> pc[d] = "idle"

(* shutdown returns, however many dials are queued for the mutex and         *)
(* whatever they wait for with it held, unless an authentication or a        *)
(* disconnect is left unanswered for ever.                                   *)
ShutdownReturns ==
    Unanswered \/ \A c \in Closers : pc[c] = "shutdown" ~> pc[c] = "idle"

=============================================================================
