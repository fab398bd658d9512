--------------------------- MODULE TunnelRegistry ---------------------------
(***************************************************************************)
(* The tunnel registry and the SOCKS5 fronts it runs (src/registry.rs,     *)
(* src/socks5.rs): one entry per proxy configuration, each with an accept  *)
(* loop of its own; a connection task per accepted peer, charged to the    *)
(* front's and to the registry's budget; and the ways a front ends, with   *)
(* its connections still at work.                                          *)
(*                                                                         *)
(* The registry's calls run on caller threads, the accept loops and the    *)
(* connections on the tunnel runtime.  A task that is aborted ends when it *)
(* next gives up the thread: until then it may take further steps.         *)
(***************************************************************************)
EXTENDS Integers, FiniteSets

CONSTANTS
    Callers,      \* threads that call the registry
    Ids,          \* proxy configuration ids
    Revs,         \* configuration revisions
    Fronts,       \* incarnations of a front
    NoFront,
    Ports,        \* loopback ports the system hands out
    Secrets,      \* values of Socks5Credentials, which the owner supplies
    NoAnswer,     \* no TunnelFront
    Conns,        \* connections of local clients
    MaxFront,     \* MAX_FRONT_CONNECTIONS
    MaxRegistry   \* MAX_REGISTRY_CONNECTIONS

ASSUME RegistryAssumption ==
    /\ MaxFront \in Nat \ {0} /\ MaxRegistry \in Nat \ {0}
    /\ IsFiniteSet(Conns) /\ Revs # {} /\ NoFront \notin Fronts

\* What a TunnelFront tells a caller, the address and the credentials to present,
\* with the configuration and the revision the caller asked for.
Answers == [id : Ids, rev : Revs, port : Ports, secret : Secrets]

ASSUME AnswerAssumption == NoAnswer \notin Answers

VARIABLES
    entries,  \* TunnelRegistry::entries
    taken,    \* entries a caller has removed and not stopped yet
    made,     \* what each front was started with: its configuration and revision,
              \* and the port and the credentials of TunnelEntry::front
    loop,     \* the accept task: "none"; "spawned"; "body", while it is polled;
              \* "select", parked; "done"
    rung,     \* the loop's pending shutdown.notified() has been notified
    told,     \* TunnelEntry::stop has been called
    conn,     \* where each connection is
    at,       \* the front a connection reached
    kept,     \* the TunnelFront its client was given, and for what
    doomed,   \* connection tasks aborted with their front's JoinSet
    local,    \* permits taken from Socks5Front::connections
    global    \* permits taken from TunnelRegistry::connections

frontVars == <<made, loop, rung, told>>
connVars  == <<conn, at, kept, doomed, local, global>>
vars == <<entries, taken, frontVars, connVars>>

Active == {"negotiate", "dial", "pump"}
ActiveAt(f) == {c \in Conns : conn[c] \in Active /\ at[c] = f}
QueuedAt(f) == {c \in Conns : conn[c] = "queued" /\ at[c] = f}
Listening(f) == loop[f] \in {"spawned", "body", "select"}
Accepting(f) == loop[f] \in {"body", "select"} /\ ~rung[f]

Init ==
    /\ entries = [i \in Ids |-> NoFront]
    /\ taken = [t \in Callers |-> {}]
    /\ made = [f \in Fronts |-> NoAnswer]
    /\ loop = [f \in Fronts |-> "none"]
    /\ rung = [f \in Fronts |-> FALSE] /\ told = [f \in Fronts |-> FALSE]
    /\ conn = [c \in Conns |-> "none"]
    /\ at = [c \in Conns |-> NoFront] /\ kept = [c \in Conns |-> NoAnswer]
    /\ doomed = {}
    /\ local = [f \in Fronts |-> 0] /\ global = 0

-----------------------------------------------------------------------------
(* The registry's calls.  The entries mutex makes each section atomic.       *)

\* TunnelEntry::stop on the entries fs: notify_waiters reaches the loop only if
\* it is parked in its select.  The names in `new' stand for fronts that start.
StopEntries(fs, new) ==
    /\ told' = [f \in Fronts |-> f \notin new /\ (told[f] \/ f \in fs)]
    /\ rung' = [f \in Fronts |-> /\ f \notin new
                                 /\ rung[f] \/ (f \in fs /\ loop[f] = "select")]

\* It aborts the accept task as well, which ends it when it next yields.
CancelledNot(f) == FALSE  \* faulty variant: only the notification
Cancelled(f) == told[f]

\* A front nothing refers to any more; its name stands for a new one.
FreeFronts ==
    {f \in Fronts : /\ ~Listening(f) /\ ActiveAt(f) = {} /\ QueuedAt(f) = {}
                    /\ \A i \in Ids : entries[i] # f
                    /\ \A t \in Callers : f \notin taken[t]}

FreePorts == Ports \ {made[f].port : f \in {g \in Fronts : Listening(g)}}

\* The owner supplies random tokens: new ones are nobody else's.  The registry
\* compares them and never checks that they differ.
FreshSecrets ==
    Secrets \ ({made[f].secret : f \in Fronts \ FreeFronts}
               \cup {kept[c].secret : c \in {d \in Conns : kept[d] # NoAnswer}})

\* The clients in `who', idle until now, are given the answer a.
Give(who, a) ==
    /\ \A c \in who : conn[c] = "none"
    /\ kept' = [c \in Conns |-> IF c \in who THEN a ELSE kept[c]]
    /\ UNCHANGED <<conn, at, doomed, local, global>>

\* Faulty variant: an entry of another revision will do.
ReusableAny(i, r) == entries[i] # NoFront /\ loop[entries[i]] # "done"
Reusable(i, r) ==
    /\ entries[i] # NoFront /\ made[entries[i]].rev = r
    /\ loop[entries[i]] # "done"

\* ensure_tunnel_with, when the entry serves: the caller gets its front, and not
\* the credentials it came with.
ReuseFront(i, r, who) ==
    /\ Reusable(i, r)
    /\ Give(who, [id |-> i, rev |-> r, port |-> made[entries[i]].port,
                  secret |-> made[entries[i]].secret])
    /\ UNCHANGED <<entries, taken, frontVars>>

\* The entry to replace is removed and stopped.
StaleLeft(i) == {}  \* faulty variant: replaced in the map, never stopped
StaleOf(i) == {entries[i]} \ {NoFront}

\* ensure_tunnel_with, when the entry cannot be reused and its replacement
\* starts.  The listener is bound here; the loop starts on the runtime.
StartFront(f, a, who) ==
    /\ ~Reusable(a.id, a.rev)
    /\ f \in FreeFronts /\ a.port \in FreePorts /\ a.secret \in FreshSecrets
    /\ entries' = [entries EXCEPT ![a.id] = f]
    /\ made' = [made EXCEPT ![f] = a]
    /\ loop' = [loop EXCEPT ![f] = "spawned"]
    /\ StopEntries(StaleOf(a.id), {f})
    /\ Give(who, a)
    /\ UNCHANGED taken

\* The factory or the bind fails: the stale entry is gone all the same.
StartFails(i, r) ==
    /\ ~Reusable(i, r)
    /\ entries' = [entries EXCEPT ![i] = NoFront]
    /\ StopEntries(StaleOf(i), {})
    /\ UNCHANGED <<taken, made, loop, connVars>>

\* stop_revision stops its entry before it releases the mutex.
StopRevision(i, r) ==
    /\ entries[i] # NoFront /\ made[entries[i]].rev = r
    /\ entries' = [entries EXCEPT ![i] = NoFront]
    /\ StopEntries({entries[i]}, {})
    /\ UNCHANGED <<taken, made, loop, connVars>>

\* stop and stop_all remove first and stop after they released the mutex.
TakeEntries(t, is) ==
    /\ taken[t] = {} /\ \E i \in is : entries[i] # NoFront
    /\ taken' = [taken EXCEPT ![t] = {entries[i] : i \in is} \ {NoFront}]
    /\ entries' = [i \in Ids |-> IF i \in is THEN NoFront ELSE entries[i]]
    /\ UNCHANGED <<frontVars, connVars>>

Stop(t, i) == TakeEntries(t, {i})
StopAll(t) == TakeEntries(t, Ids)

StopTaken(t, f) ==
    /\ f \in taken[t]
    /\ taken' = [taken EXCEPT ![t] = @ \ {f}]
    /\ StopEntries({f}, {})
    /\ UNCHANGED <<entries, made, loop, connVars>>

-----------------------------------------------------------------------------
(* Socks5Front::serve.                                                       *)

\* The sockets of these connections are closed.
Forget(cs) ==
    /\ conn' = [c \in Conns |-> IF c \in cs THEN "none" ELSE conn[c]]
    /\ at' = [c \in Conns |-> IF c \in cs THEN NoFront ELSE at[c]]
    /\ UNCHANGED kept

\* The serve future is dropped: the listener closes, connections it had not
\* accepted are reset, and the JoinSet aborts the connection tasks.
LeaveLoop(f) ==
    /\ loop' = [loop EXCEPT ![f] = "done"]
    /\ Forget(QueuedAt(f))
    /\ doomed' = doomed \cup ActiveAt(f)
    /\ UNCHANGED <<entries, taken, made, rung, told, local, global>>

\* The task is polled for the first time.
Poll(f) ==
    /\ loop[f] = "spawned" /\ ~Cancelled(f)
    /\ loop' = [loop EXCEPT ![f] = "body"]
    /\ UNCHANGED <<entries, taken, made, rung, told, connVars>>

\* One poll ends with nothing ready (or out of budget): an aborted task ends
\* here, another parks in the select with a fresh Notified.
Park(f) ==
    /\ loop[f] = "body"
    /\ IF Cancelled(f) THEN LeaveLoop(f)
       ELSE /\ loop' = [loop EXCEPT ![f] = "select"]
            /\ UNCHANGED <<entries, taken, made, rung, told, connVars>>

\* Woken by the notification or by the abort, when it is not being polled.
Wake(f) ==
    /\ loop[f] \in {"spawned", "select"} /\ (rung[f] \/ Cancelled(f))
    /\ LeaveLoop(f)

\* from_std or accept fails.
AcceptFails(f) == Accepting(f) /\ LeaveLoop(f)

Refused(f) == local[f] >= MaxFront \/ global >= MaxRegistry

\* Faulty variant: the front's permit is not given back if the registry is full.
ChargeLocal(f) ==
    /\ local' = IF local[f] >= MaxFront THEN local ELSE [local EXCEPT ![f] = @ + 1]
    /\ global' = IF Refused(f) THEN global ELSE global + 1
Charge(f) ==
    /\ local' = IF Refused(f) THEN local ELSE [local EXCEPT ![f] = @ + 1]
    /\ global' = IF Refused(f) THEN global ELSE global + 1

\* accept: one permit of each budget, or the peer is dropped.
Accept(f, c) ==
    /\ Accepting(f) /\ c \in QueuedAt(f)
    /\ loop' = [loop EXCEPT ![f] = "body"]
    /\ Charge(f)
    /\ IF Refused(f) THEN Forget({c})
       ELSE conn' = [conn EXCEPT ![c] = "negotiate"] /\ UNCHANGED <<at, kept>>
    /\ UNCHANGED <<entries, taken, made, rung, told, doomed>>

-----------------------------------------------------------------------------
(* A local client, and the task that serves it.                              *)

\* A client uses the address it was given, perhaps long after that front is gone,
\* and reaches whoever listens on that port now.  One that was given none may try
\* any port.
Connect(c, f) ==
    /\ conn[c] = "none" /\ Listening(f)
    /\ kept[c] # NoAnswer => made[f].port = kept[c].port
    /\ conn' = [conn EXCEPT ![c] = "queued"]
    /\ at' = [at EXCEPT ![c] = f]
    /\ UNCHANGED <<entries, taken, frontVars, kept, doomed, local, global>>

\* The task returns or is dropped, and with it both permits.
ReleaseBoth(c) ==
    /\ local' = [local EXCEPT ![at[c]] = @ - 1]
    /\ global' = global - 1

EndConnection(c) ==
    /\ ReleaseBoth(c)
    /\ Forget({c})
    /\ doomed' = doomed \ {c}
    /\ UNCHANGED <<entries, taken, frontVars>>

Advance(c, l) ==
    /\ conn' = [conn EXCEPT ![c] = l]
    /\ UNCHANGED <<entries, taken, frontVars, at, kept, doomed, local, global>>

\* negotiate: credentials and a CONNECT request, in time.
Authentic(c) == kept[c] # NoAnswer /\ kept[c].secret = made[at[c]].secret
Negotiated(c) == conn[c] = "negotiate" /\ Authentic(c) /\ Advance(c, "dial")
NegotiationFails(c) == conn[c] = "negotiate" /\ EndConnection(c)

\* The provider's dial, and what is relayed once it succeeded.
Dialled(c) == conn[c] = "dial" /\ Advance(c, "pump")
DialFails(c) == conn[c] = "dial" /\ EndConnection(c)
PumpEnds(c) == conn[c] = "pump" /\ EndConnection(c)

\* An aborted task reaches its next await.
Reap(c) == c \in doomed /\ EndConnection(c)

-----------------------------------------------------------------------------
CallerNext(t) ==
    \/ \E i \in Ids : Stop(t, i)
    \/ StopAll(t)
    \/ \E f \in Fronts : StopTaken(t, f)

EnsureNext ==
    \E i \in Ids, r \in Revs :
        \/ \E who \in (SUBSET Conns) \ {{}} : ReuseFront(i, r, who)
        \/ \E f \in Fronts, p \in FreePorts, x \in FreshSecrets, who \in SUBSET Conns :
              StartFront(f, [id |-> i, rev |-> r, port |-> p, secret |-> x], who)
        \/ StartFails(i, r)
        \/ StopRevision(i, r)

FrontNext(f) ==
    \/ Poll(f)
    \/ Park(f)
    \/ Wake(f)
    \/ AcceptFails(f)
    \/ \E c \in Conns : Accept(f, c)

ConnNext(c) ==
    \/ \E f \in Fronts : Connect(c, f)
    \/ Negotiated(c)
    \/ NegotiationFails(c)
    \/ Dialled(c)
    \/ DialFails(c)
    \/ PumpEnds(c)
    \/ Reap(c)

Next ==
    \/ \E t \in Callers : CallerNext(t)
    \/ EnsureNext
    \/ \E f \in Fronts : FrontNext(f)
    \/ \E c \in Conns : ConnNext(c)

Spec == Init /\ [][Next]_vars

\* The runtime polls every task that is ready, within tokio's budget per poll.
FairSpec ==
    /\ Spec
    /\ \A f \in Fronts : WF_vars(Poll(f)) /\ WF_vars(Park(f)) /\ WF_vars(Wake(f))
    /\ \A c \in Conns : WF_vars(Reap(c))
    /\ \A t \in Callers, f \in Fronts : WF_vars(StopTaken(t, f))

-----------------------------------------------------------------------------
\* The types of the registry's, the fronts' and the connections' state.
TypeOK ==
    /\ entries \in [Ids -> Fronts \cup {NoFront}]
    /\ taken \in [Callers -> SUBSET Fronts]
    /\ made \in [Fronts -> Answers \cup {NoAnswer}]
    /\ loop \in [Fronts -> {"none", "spawned", "body", "select", "done"}]
    /\ rung \in [Fronts -> BOOLEAN] /\ told \in [Fronts -> BOOLEAN]
    /\ conn \in [Conns -> {"none", "queued"} \cup Active]
    /\ at \in [Conns -> Fronts \cup {NoFront}]
    /\ kept \in [Conns -> Answers \cup {NoAnswer}]
    /\ doomed \subseteq Conns
    /\ local \in [Fronts -> Nat] /\ global \in Nat

(* Both budgets count exactly the connection tasks that exist: those of a    *)
(* front that was stopped or replaced stay charged to the registry until     *)
(* they are really gone, none is charged after, and neither limit is passed. *)
BudgetsExact ==
    /\ \A f \in Fronts : local[f] = Cardinality(ActiveAt(f)) /\ local[f] <= MaxFront
    /\ global = Cardinality({c \in Conns : conn[c] \in Active}) /\ global <= MaxRegistry

(* No front runs unowned: one that listens and was not told to stop is some  *)
(* id's entry, or a caller is about to stop it; and no entry, which ensure   *)
(* may hand out again, has been told to stop.                                *)
NoOrphanFront ==
    /\ \A f \in Fronts : Listening(f) /\ ~told[f] =>
        \/ \E i \in Ids : entries[i] = f
        \/ \E t \in Callers : f \in taken[t]
    /\ \A i \in Ids : entries[i] # NoFront => ~told[entries[i]]

(* A client dials only through a tunnel of the configuration, and of the     *)
(* revision of it, that was ensured for it: not through one that has taken   *)
(* over its port since, nor through a stale one that ensure handed out,      *)
(* however long the client kept its answer.  The owner's tokens are all      *)
(* distinct here, as Socks5Credentials asks (socks5.rs:55); two fronts given *)
(* the same ones could not be told apart.                                    *)
ReachesWhatWasEnsured ==
    \A c \in Conns : conn[c] \in {"dial", "pump"} =>
        /\ made[at[c]].id = kept[c].id
        /\ made[at[c]].rev = kept[c].rev

(* A stopped front drains: its listener closes and all its connection tasks  *)
(* end, so that its provider, and the session with it, is dropped, wherever  *)
(* the accept loop was when the notification was sent.                       *)
StoppedDrains ==
    \A f \in Fronts : told[f] ~> (loop[f] = "done" /\ ActiveAt(f) = {})

=============================================================================
