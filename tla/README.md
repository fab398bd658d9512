# A TLA+ model of proxy-tunnels

proxy-tunnels gives an application outbound connections through tunnels: an
in-process WireGuard device with a userspace TCP/IP stack (smoltcp), an SSH
session with `direct-tcpip` channels, or an HTTP/3 proxy with CONNECT streams.
Every tunnel is a `TunnelProvider`; a `TunnelRegistry` puts a loopback SOCKS5
front before each configured one. The crate is asynchronous Rust: any future may
be dropped at any `.await`, tasks run on several threads, and most of its state
is behind a mutex that is released between two steps. That is what the modules
here are about. `PROJECT.json` maps each definition to the lines it models.

## 1. Inventory

| Component (source) | State | Operations | What makes it hard |
|---|---|---|---|
| Network stack (`wireguard/stack.rs`, `tcp.rs`, `udp.rs`) | the smoltcp socket set, `SocketSlots::open`, the `closing` list, `stopped`, the pump's wake permit | connect, bind, listen, accept, read/write/shutdown, drop, the pump's poll and reclaim, stop, wait_stopped | a lock-free counter beside a locked socket set; drops at any await; a pump that sleeps; a stop from another thread |
| WireGuard provider (`wireguard/mod.rs`) | the current tunnel behind an async mutex, `closed`, per tunnel a device, a pump and perhaps a carrier watch | prepare, dial (one reconnect), probe, retire, shutdown, drop, bring_up | bring-up takes many awaits and holds resources; tunnels nest, so two mutexes are held; a carrier may disappear |
| Nested MTU (`wireguard/mod.rs`, `carried_mtu`) | none | one function, iterated over levels of nesting | saturating arithmetic, rounding, padding by a peer with another MTU |
| SSH provider (`ssh.rs`) | the session behind an async mutex, `closed`, the host-key state a callback writes during the handshake | prepare, dial (one reconnect), retire, shutdown, check_server_key | the callback and the task share state; late failures; drops between learning a key and reporting it |
| HTTP/3 provider (`http3/mod.rs`) | `Sessions {current, all}`, `connect_lock`, stream permits, per session its writers and `stopped` | prepare, dial, retire, shutdown, a session's destructor, a stream's drop | limits that count draining sessions through weak references; shutdown does not take `connect_lock` |
| HTTP/3 stream (`http3/stream.rs`) | a channel of one command to a writer task, an acknowledgment, `finishing`, `finished`; what was received and not read yet | poll_read, poll_write, poll_flush, poll_shutdown, the writer task, drop | a call may be dropped between its command and the acknowledgment, which the next call inherits |
| TCP stream (`wireguard/tcp.rs`) | a smoltcp socket's two buffers, its two wakers, the window the peer was told, `shut_down` | poll_read, poll_write, poll_flush, poll_shutdown, beside the pump's poll | only the pump moves packets, and it sleeps; one waker per half; a reset or a stop with bytes in the buffers |
| Packet path (`wireguard/stack.rs`, `udp.rs`, `phy.rs`, `adapter.rs`) | UDP buffers with one waker per direction, DNS query slots and permits, two bounded channels, the pump's delay and wake permit | send_to, recv_from, query, the pump's poll and select, the device's ends of the channels | wakers replace each other; a pump that sleeps on a computed delay; cancelled lookups |
| Registry and SOCKS5 front (`registry.rs`, `socks5.rs`) | entries by configuration id, two connection budgets, the accept loop, its connection tasks | ensure, stop_revision, stop, stop_all, drop, accept, authenticate, dial, end | stop does not wait; budgets outlive their front; the system reuses ports |
| Provider contract (`provider.rs`) | the session a provider shares | establish, lose, retire, shut down | must hold for all three technologies |
| Capacity signal (`error.rs`) | `SlotFreed` (a `Notify`) | signal, wait | a signal between a refusal and the wait |
| UDP transport, endpoints, configuration, vendored h3 | sockets, parsed values | bind, send, receive, parse | partly modelled, or not worth it (section 8) |

How they interact: the registry's connection tasks call `dial` of a provider; the
provider owns its session (a WireGuard tunnel owns device, stack and pump; the
stack calls nobody back but through wakers); a refused dial carries a `SlotFreed`
the caller waits on; a carried WireGuard provider calls `resolve` and `bind` of
its carrier and watches the carrier's stack stop.

What makes each correct, in short: slots and sockets are never leaked, never used
after removal and never exceed their cap; a signal or a stop is never missed; a
provider's session is torn down only by who has reason to, never comes back after
shutdown, and everything it owned ends; a task that waits for a packet, a
datagram's place or an answer is woken when it comes; what a stream says of its end, of flush
and of shutdown is true; the server behind an SSH tunnel keeps its
key; a client reaches only the tunnel it was given.

## 2. Modules

| Module | Models |
|---|---|
| `TunnelStack` | the network stack, one action per stretch between two lock releases or awaits |
| `TunnelStackProofs` | its inductive invariant and theorems |
| `ProviderSpec` | what the documentation of `TunnelProvider` promises about a session: one at a time, established only where there is none, and none after a shutdown has returned |
| `SshProvider`, `SshProviderProofs` | the SSH provider, and its proofs, refinement of `ProviderSpec` included |
| `WgProvider` | the WireGuard provider and one that it carries |
| `CarriedMtu` | `carried_mtu` iterated over a nesting |
| `WireGuardProofs` | the proofs about both, refinement of `ProviderSpec` included |
| `Http3Provider`, `Http3ProviderProofs` | the HTTP/3 provider and the life of a stream's writer task, and their proofs |
| `SendSpec` | what a stream's write side promises its owner: accepted chunks go out once and in order, FIN follows the last, the answers to flush and shutdown are true |
| `Http3Stream`, `Http3StreamProofs` | the byte stream of one CONNECT request and its writer task, and the proofs that it implements `SendSpec` and that its end of file is honest |
| `StackIo`, `StackIoProofs` | datagrams, lookups, the pump and the two packet channels, and their proofs |
| `TcpStream`, `TcpStreamProofs` | reads, writes, flushes and the half-close of one TCP stream beside the pump, and their proofs |
| `TunnelRegistry`, `TunnelRegistryProofs` | the registry and the SOCKS5 fronts, and their proofs |
| `MC*` | constants and symmetry sets for TLC |

`SshProvider`, `Http3Provider` and `WgProvider` each instantiate `ProviderSpec`
with a refinement mapping (`Phase`, and the shared session as `current`);
`Http3Stream` instantiates `SendSpec` with its history variables.

### How state and actions correspond to the code

*Atomicity.* In the providers and the registry an action is what a task does from
one await to the next; `Cancel` and its relatives drop a future at each await, with the
destructors that run then. In `TunnelStack` an action is one critical section of
`StackShared::inner`, or one operation on an atomic: `claim` is a load, perhaps
a reclaim under the lock, and a compare-and-exchange, so that two tasks may
interleave between them. The socket set is the function `sock` from handles to states; a task that
waits for a waker is a task whose action is guarded by what the waker announces.

*TunnelStack.* `open` is `SocketSlots::open`; `streams`, `udps`, `backlog` and
`mine` are the handles owned by the wrapper types and by tasks on their way;
`closing`, `uncounted` and `expired` are the entries of `StackInner::closing`, those
with `counted = false`, and those whose `LINGER` has passed. Callers follow the
protocol the documentation of `SlotFreed` prescribes: refused, enable a `Notified`,
dial again, wait. The pump polls, reclaims, computes the deadlines it will sleep for (`timed`),
sleeps until a deadline or the wake permit, and, when it is told to stop, sets the flag,
closes the sockets and notifies the watchers, in that order.

*WgProvider.* A caller walks through `tunnel()`: take the mutex, keep the current
tunnel if it is alive, otherwise resolve and bind through the carrier (which takes
the carrier's mutex while ours is held), start the stack, build the device, wait
for the handshake. `made` is the half-built tunnel a dropped future leaves to its
destructor. The stack of a tunnel is reduced here to whether its pump has ended; what the stack
does meanwhile is `TunnelStack`'s subject.

*SshProvider.* `learned`, `newly` and `reported` are the fields of `HostKeyState`,
written by `CheckServerKey` in the key exchange (and by a rekey at any time) and
read by the task after the authentication. `pins`, `authed`, `suspect` and `down` are history:
they record what happened for the properties and guard nothing. `CancelClose` drops a retire or a shutdown at its awaits,
with the disconnect sent or not.

*Http3Provider.* `holds` are the `Arc<Session>` each task or stream has; a session
is alive while somebody holds it, and its destructor (`dropping`, then `Destroy`)
runs concurrently with everything else. `writers` are the registered writer tasks
that a stop has to abort and join. `CancelClose` drops a retire or a shutdown at each of its awaits. What a dropped
retire had taken out of `all` and not stopped yet is recorded in `strays`, a history variable: such a session lives on,
uncounted, while a stream or a dial holds it.

*Http3Stream.* A call of the owner is a sequence of polls, each taken apart where the
session or the writer task, on another thread, may come between: the look at
`Session::stopped`, the reservation of the channel's one place, the acknowledgment.
`Abandon` drops a call that is parked; its acknowledgment stays in the stream for the next call.
There is a single sender, so the place in the channel needs no variable: it is
reserved exactly when the channel is empty, and reserving and sending are one step.
(A message sent on a permit after the receiver is gone is dropped, like one that was queued.) The
read side has one action per turn of `poll_read`'s loop. Its limit of 32 rounds, after which it wakes
itself, is not modelled: with the vendored h3 a turn that neither returns nor parks
happens at most twice in a row. `accepted`, `wire`, `came`, `bytes` and `given` are history.

*StackIo.* Every step takes the stack's mutex once. `waker` holds the one waker smoltcp keeps for each direction
of a socket and for each query, and `woken` the parked tasks whose waker was called;
a task may be polled for other reasons too. A datagram to send is small, or large (it fits only an empty
buffer and leaves no bytes for another), or larger than the whole buffer, for which smoltcp's answer is the same
`BufferFull` as for a full one. Waiting for `send_lock`,
`recv_lock` or a permit of `dns_slots` changes nothing and is no state. `Poll` is one
`Interface::poll` with any fair division of the transmit tokens; the steps after it follow the order
of the pump's `select!`, and `Leave` stands for the shutdown signal, the abort and the device's end.
The TCP sockets, which share the pump, are the subject of `TunnelStack` and `TcpStream`; smoltcp's retransmission
of a DNS query is left out.

*TcpStream.* One connected stream: every step takes the stack's mutex once, and the ring of the pump that follows a
read or a write is a step of its own. The TCP state is kept as its two halves (`mine`, `theirs`), with `dead` for a connection that
a reset or the stop has closed, and in `theirs` whether the peer's FIN came before or after ours. With both sides finished, ours first, the socket is in TIME-WAIT, and
`TimeWaitExpires` is its timer: smoltcp resets the socket and empties its receive buffer (`lost` counts the bytes). `Receive` and `Transmit` are the two parts of one `Interface::poll`, with the mutex
held between them; a full channel to the device keeps everything from leaving, and an acknowledgment
may be delayed. `window` is what the peer was told last, and the peer sends within it, one segment at a time
and in sequence: loss and reordering are smoltcp's business. A call that is parked may be dropped, and the
next one on the same half finds its waker still registered. Calls with an empty buffer are left out; how the stream came to be,
and its drop, are in `TunnelStack`.

*TunnelRegistry.* `loop` is where a front's accept task is, `body` meaning that it
is being polled, so that `notify_waiters` does not reach it; `doomed` are connection
tasks whose abort was requested. Ports are reused as soon as their listener is gone. `made` is what a front was started
with, and `kept` the `TunnelFront` a client was given, with the configuration and revision it was ensured for; the client
keeps it for as long as it likes. Credentials are values the owner supplies and the front compares (`Authentic`); the registry
never checks that they differ. `FreshSecrets` is the owner's obligation, "cryptographically random tokens" (`socks5.rs:55`).

Abstractions made everywhere: payloads, addresses and error texts are left out; a
time is a flag that may be set at any moment (a timeout may fire whenever it is armed);
session and handle identities are finite sets whose members are reused once
nothing refers to them. Lines labelled "faulty variant" are single-definition changes of the
kind a plausible bug would make; each property is shown to fail under one of them.

## 3. Runs

| Run | Instance | Shows |
|---|---|---|
| `stack_listen` | 1 caller with UDP sockets, 1 listener, backlog 1, 1 watcher, 1 slot, 5 handles | every socket has one owner and none is used after removal (`HandlesOwnedOnce`), with accepts, resets of connections that found no slot and a stop at any moment; the stop is not missed (`StopReleasesWaiters`); a bounded socket set (`SocketsBounded`: one handle more than the bound); a pump that never sleeps past a retired socket (`RetiredSocketSeen`) |
| `stack_live` | 2 callers that dial, 1 slot | the counter is exactly the number of slot owners and capped (`SlotsAccounted`); no waiter sleeps beside a free slot (`FreedNotMissed`); while the pump runs, retired sockets are reclaimed and dials end |
| `ssh_session` | 2 dialers, 1 closer, 2 keys, no pin, 2 sessions | one host key for all sessions; a pin is reported once and only for a key that was shown by a session that authenticated; a session is replaced only by who failed on it; refinement of `ProviderSpec`; dials end and shutdowns return, unless a call stays for ever in an authentication or a disconnect |
| `http3_session` | 2 dialers, 1 retire, 1 shutdown, 1 session of 2 identities, 1 stream | both limits hold with sessions that drain, those apart that a dropped retire left open; the signal of a session that goes is not missed; after shutdown nothing is open and no writer is registered, except what a retire, or another shutdown, is still stopping or left behind when it was dropped; refinement of `ProviderSpec`; shutdown returns whatever the dialers and the retire do |
| `http3_strays` | 2 dialers, 1 retire, 1 shutdown, 2 sessions, 2 streams | violated: `ShutdownClosesEverything`, the same without the exceptions (section 6) |
| `http3_stream` | 2 writes, 2 frames of up to 2 bytes | refinement of `SendSpec`, whatever calls are dropped; end of file only at the peer's FIN and after its last byte (`EofHonest`); no call hangs once the session is stopped or its connection gone |
| `stack_io` | 2 senders, 1 receiver, 2 resolvers, 1 query slot, buffers of 2, channels of 1 | no task is left parked beside what it waits for (`NoStrandedTask`); the pump does not sleep past queued work (`WorkSeen`); a permit is a free slot (`PermitFindsSlot`) |
| `tcp_stream` | buffers of 2 bytes, 3 bytes each way | no read, write or flush is left parked beside what it waits for (`NoStrandedHalf`); the pump does not sleep past bytes, a FIN or a window to announce (`PumpTold`); end of file comes after the last received byte, but for what TIME-WAIT drops, and a flush succeeds only when all is acknowledged (`AnswersHonest`) |
| `registry_fronts` | 1 id, 2 revisions, 2 fronts at a time, 2 ports, 2 tokens, 2 clients, budgets of 1 | no unowned front; a client dials only through a tunnel of the configuration and revision ensured for it; both budgets are exact; a stopped front drains |
| `wg_session` | 1 provider, 2 callers, 1 closer, 2 tunnels | the tunnel a provider hands out is its own, runs, and is not being torn down by a retire, a failed call or a destructor (`CurrentIntact`); only the suspect tunnel is replaced; refinement of `ProviderSpec` |
| `wg_nested` | provider carried by provider, 1 caller, 1 closer, 2 tunnels | device before pump on every path of teardown; the end of the carrier ends the carried tunnel; nothing half-built leaks; a retire returns although bring-ups hold two mutexes |
| `carried_mtu` | configured MTUs 1281 and 1420, nesting up to 15 | every packet, padded by either end, fits the link beneath |

*Why the bounds are enough.* A second caller is the one that competes; a third adds no
new order of steps that two, taking turns, do not have, since callers keep no
state when idle and start again without limit. One slot makes "the last slot"
the normal case. Two identities let a session be replaced while its predecessor
is still held. Two keys are one and another; a prepare, left out of `ssh_session`, is the first part of a dial.
In `http3_session` both limits are one: while a session drains under the only stream a dial finds no stream free and a
prepare no session, and both wait. A retire with a second session to come to, which a drop leaves behind, needs a limit of two: `http3_strays`
has it, and the theorems hold for every limit. The one configuration of `registry_fronts` has both its revisions, the outdated one still
draining, beside each other, as two configurations would be. `MaxWrites` and
`MaxFrames` of two put one write or frame before and one behind every other event, and a chunk of two bytes can be
read in parts. In `stack_io` a sender that waits has one that comes after it, and every buffer
is full with one or two packets (the receiving direction has the same lock and one task); in `tcp_stream` three bytes fill a buffer of two, empty it and go on, and
the window closes and opens again. For every invariant and action property the theorems of section 5 remove the
bounds altogether; a configured SSH pin, too, is covered by the theorems, which hold for every
`Pin`. No counter grows without limit in a model except the nesting, capped by
`MaxDepth`, at which every link is already too narrow for another level.

*Deadlock* is checked except for `TunnelStack`, `StackIo`, `TcpStream` and `Http3Stream`, which really may come to rest: once
the pump has ended and every task is idle or asleep, or the stream is dropped and its writer
has ended, nothing is left to happen.

## 4. Fairness

Only the liveness properties use it, and only for what the code bounds.

* `TunnelStack`: strong fairness of tasks and pump, because each step needs the
  lock, which others take and release for short critical sections, and a
  runtime polls every ready task; the timers (`LINGER`, the connect timeout) fire. Nothing is assumed of
  peers, nor that callers drop what they hold.
* `SshProvider`: strong fairness for acquiring the mutex (tokio's is FIFO), weak
  fairness for steps under `request_timeout`. Nothing is assumed of the authentication and of the disconnect, which no
  timeout of this crate bounds. `DialsEnd` and `ShutdownReturns` say instead what may hold a call up: somebody who stays in one of these two
  awaits for ever (`Unanswered`), and nothing else. The keepalives (`ssh.rs:146`) end it for a server that has gone silent, not for one that
  answers them.
* `Http3Provider`: weak fairness of the shutdown's own steps and nothing of the
  dialers, so that `ShutdownReturns` is independent of them.
* `Http3Stream`: a poll once begun ends, a woken call is polled again, the steps of `Session::stop` follow
  one another, and a writer task that is aborted or whose connection is closed is run. Nothing is assumed of the peer, nor
  that h3 ever takes a chunk.
* `WgProvider`: spawned tasks run; every await of bring_up and of retire ends by
  a timeout or by a device that stops; the mutex is FIFO.
* `TunnelRegistry`: a ready task is polled, and a poll ends.

## 5. Proofs

All proofs are checked by TLAPS, for arbitrary sets of tasks, handles,
sessions and keys and arbitrary limits, under the named assumptions of each module (disjoint
sets, distinguished null values, finiteness where cardinalities are taken).

* `TunnelStackProofs`. The slot counter alone is not inductive: a step that
  gives a slot back is right only if its owner was charged for it exactly once,
  which needs the ownership of handles, which in turn needs to know at which
  program points a task carries one (`Carrying`). `StackInv` is the conjunction
  of these with the announcement of freed slots, the pump's wake-ups and the
  order of the stop; `StackInvariant` proves it, and `StackTypeCorrect`, `SlotsCorrect`,
  `HandlesCorrect`, `FreedCorrect`, `PumpSeesRetired` and `StopCorrect` draw
  the conclusions. `SocketsCorrect`, that the socket set is bounded, needs a second invariant, `BoundInv`, because
  connections that are reset without a slot are counted nowhere in the code: what bounds them is that only a poll completes
  a handshake and that the poll, before it gives up the lock, removes every reset socket. So the connections reset,
  in hand or ready (`Resets`, `Ready`) only lose members between two polls, and at the end of one there are none reset. The bound
  on what the backlogs have ready is a count of pairs of a listener and a number (`UnionBounded`), which replaces
  an induction over the listeners.
* `SshProviderProofs`. `SshInv` adds to the types who may hold the mutex
  (`LockInv`), what `closed` implies about the slot once the closer has passed (`ClosedInv`), that every key shown in a
  handshake under way is the learned one (`KeyInv`), and that a dial that
  wants to replace a session has failed on it (`SuspectInv`). From it follow key continuity, the single report of
  a pin, the action property `OnlySuspectReplaced`, and the refinement of `ProviderSpec`.
* `StackIoProofs`. `IoInv` says who holds the lock of each direction, which makes a socket's one waker that of its
  one waiter; which query belongs to which task, from its start to its cancellation; that the flag is set before the
  sockets are closed; and what the pump's permit stands for. That a permit finds a slot is a count: queries in
  smoltcp are at most the permits out, because each belongs to another holder.
* `TcpStreamProofs`. `TcpInv` adds to the properties the byte counts (accepted bytes are buffered or acknowledged, arrived
  bytes buffered, handed out or, in a TIME-WAIT that has expired, lost, the offered window fits the buffer), that a segment on its way still
  applies when it arrives, and that an end once reported is final. `PumpTold` holds also while a
  segment waits for the pump, and only in that form is it inductive.
* `Http3StreamProofs`. `WriteInv` relates the call, the channel, the acknowledgment and the FIN: one command is under way at a time,
  an acknowledgment that is awaited belongs to it, and one that was given was given with everything on the wire. With it
  every step of the stream is a step of `SendSpec` or a stutter. For `EofHonest` the bytes of the frames not yet taken
  have to be added up; `ReadInv` says that a function of partial sums exists which leads from the bytes handed over and
  buffered to the bytes that came, and a frame that arrives or is taken extends or shortens it, so that no induction
  over the sequence is needed.
* `Http3ProviderProofs`. `SessInv` says who holds which session and where; that connect_lock is kept across a connection
  attempt, for which there is room in `all`, and by a retire; that an open session is in `all`, in the hands of a closing task, or
  left behind by one that was dropped;
  and that a writer task of a stopped session is about to be collected. The limits add two counts, and `FreedNotMissed`
  that whoever drops the last reference leaves the session to the destructor that signals.
* `TunnelRegistryProofs`. `RegistryInv` adds that a front has one owner, an entry or a caller that took it out, that
  the doomed are tasks, and that the credentials of the fronts anything still refers to are distinct and in the hands only of clients
  that asked for what these fronts are (`TokenInv`): a new front's are nobody's, and a reused entry is of the revision asked for. The budgets are the cardinalities of sets that gain or lose one task per step.
* `WireGuardProofs`. `WgInv` says where a task can be and what it has made there (`PlaceInv`); that a provider's mutex is held
  over an empty slot, by whoever brings up its tunnel or one carried by it and by whoever tears its tunnel down, except for
  probes, which bring up a tunnel of their own without it (`LockInv`); that a shutdown raises `closed` before it queues, so that
  once it has returned nobody is left who could establish a tunnel (`ClosedInv`); that a tunnel in the making is its maker's alone (`MakingInv`);
  and that a destructor runs only when no `Arc` is left (`DropInv`). `CurrentIntact` and `DeviceBeforePump` are part of it: that a tunnel may be torn down is
  known only because it is nobody's current one, and neither follows without the ownership of `Arc`s. `OnlySuspectReplaced` and the refinement
  of `ProviderSpec`, for each provider, follow step by step. Two liveness properties rest on facts that are proved as well: no tunnel that was started is left without
  a maker, a holder or a teardown under way (`WgNoOrphan`, for `NothingLeaks`), and the tunnel a carried provider hands out has
  the task that watches its carrier for as long as its pump runs (`WgCarriedWatched`, for `CarriedEnds`). The providers may be any number, each carried by none or by one that is not carried itself.
  `MtuCorrect` is about `CarriedMtu`, for any depth of nesting and any configured MTUs, from arithmetic lemmas about
  rounding and the headers.

Each of these invariants was checked by TLC on the runs' instances before it was proved. Every invariant, action property
and refinement of the runs has its theorem. Only model-checked is what needs fairness, which this prover does not reach:
`RetiredReclaimed`, `DialsEnd`, `ShutdownReturns`, `CallsEnd`, `StoppedDrains`, `CarriedEnds`, `NothingLeaks` and
`RetireReturns`.

## 6. Findings

One place where the code does something else than its documentation says has a run that shows it:

* `http3_strays`, `http3/mod.rs:406`: retire empties `all` and then stops the sessions one by one. A shutdown meanwhile, or after
  that retire was dropped, finds the list empty and returns with such sessions open, although `docs/http3.md:58` says that
  it "closes all sessions and streams". `ShutdownClosesAll` makes these exceptions and no other.

Observations met while reading and modelling, for which no run is kept. First, other places where the documentation says
something else than the code does:

* `http3/mod.rs:413`: retire waits for each session it stops without a limit. If its future is dropped there, the sessions
  it had not come to stay open while a stream holds them and are no longer counted, so that new ones exceed the
  "four QUIC sessions" of `docs/http3.md:40`. The model has this (`CancelClose`, `strays`); `LimitsKept` says, and its theorem proves, that the limit holds for all others.
* `wireguard/tcp.rs:202`: after a half-close "reads keep working" (`tcp.rs:299`). They do until the peer has
  finished too and TIME-WAIT expires: what had arrived by then and was not read is dropped with the socket's buffer, and
  the next read is a clean end of file, not an error. A relay whose other side is slow meets this. The model has this
  too (`TimeWaitExpires`, `lost`); `AnswersHonest` says that nothing else loses bytes.
* `ssh.rs:433`: `check_server_key` keeps the key it is shown, and a failed authentication leaves it there;
  `ssh.rs:10` says that "The first successful handshake *and authentication* learns the server's" fingerprint.
  What is reported as a pin does wait for the authentication (`PinnedOnce`).
* `wireguard/stack.rs:133` says every wrapper must fail rather than wait once the stack has stopped. A
  connect does not look at `stopped` (`tcp.rs:49`) and waits for its whole timeout; a lookup does not either, and
  the stop leaves the DNS socket alone, so that it lasts until its deadline.
* `wireguard/udp.rs:121`: "A datagram larger than `data` is truncated"; it is an `InvalidData` error, which
  `transport.rs` skips.
* The pump "never busy-loops", but while the channel to the device is full and something waits to be sent, its delay
  is zero and it polls again after each yield (`Sleep` with `delay = "now"`).

Others, each a short behaviour:

* `wireguard/tcp.rs:96`: a dial interrupted by the local stop is reported as refused by the
  destination, so that `dial_on` does not rebuild the tunnel.
* `wireguard/stack.rs:597`: a listener whose whole backlog is busy does not keep a second one off its port,
  although the documentation of `listen` says the port is refused.
* `wireguard/stack.rs:358`: a stream dropped after the pump has ended keeps its slot
  until a later claim finds the tunnel full.
* `ssh.rs:196`: the authentication is awaited without a timeout, with the mutex held: while a server answers keepalives and
  not the authentication, every dial and every shutdown of that provider waits. The same holds for the disconnect of a retire.
* `wireguard/udp.rs:100`: a datagram larger than the whole send buffer is answered with `BufferFull`, so that `send_to`
  waits for room that cannot come, with `send_lock` held against every other sender of the socket, until it is dropped or the stack stops.
* `http3/mod.rs:406`: retire frees places at once, but waiters are signalled only when the session's last `Arc`
  goes; `FreedNotMissed` is therefore about sessions alive, not about places in `all`.
* `wireguard/tcp.rs`: a read or write with an empty buffer is Pending; a reset or the local stop is
  reported to the reader as a clean end of file.
* `wireguard/stack.rs:344`: the ephemeral port counter does not look at ports in use.
* `http3/stream.rs:107`: the vendored h3 answers None to a DATA frame of no bytes, so that DATA behind it is
  unexpected and closes the connection (`ReadUnexpected`); a read after trailers were refused reports end of file
  once FIN has come.
* `wireguard/phy.rs:96`: the overrun of `inbound` cannot happen: each poll drains it, and a batch is smaller than its depth.
* `registry.rs:51`: a stop is not synchronous when the accept loop is being polled: it may still accept and dial
  after `stop` has returned. `StoppedDrains` shows that it ends all the same.

## 7. Hazards

`PROJECT.json` lists what tests of this code would hardly reach, each at its line, with the
properties that cover it. Those without one are the subject of section 8, or of the observations above.

## 8. Not modelled

* The choice of ephemeral ports; the rebind of a device's UDP socket; the retransmission of DNS queries.
* SOCKS5 messages byte by byte, parsing of configurations and keys, wording of errors: sequential and
  without state.
* smoltcp, boringtun, russh, quinn and h3 themselves: external; the modules model what the code uses of them.
* Chains of more than two WireGuard providers: the interaction is between
  neighbours. The assumption `WgAssumption` says so. `CarriedMtu` has no such limit.

## 9. Plan

Done first, because the most depends on it: the stack, then the three providers and their contract, the registry, the MTU.
Then the HTTP/3 stream, the packet path and the TCP stream, and proofs for all of these. Next: the ephemeral port counter with its
wrap, and the safety facts behind the other liveness properties (what a waiting dial or shutdown waits for).

## 10. Running

    tlc -workers 2 -config StackLive.cfg MCTunnelStack
    tlapm TunnelStackProofs.tla

Each run of `PROJECT.json` names its module and configuration.
