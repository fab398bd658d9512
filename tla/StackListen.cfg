\* One caller with UDP sockets, and one listener whose accepts compete with it for one slot,
\* while the stack stops under them.
CONSTANTS
    Callers = {c1}
    Acceptors = {a1}
    Watchers = {w1}
    Pump = pump
    NoProc = nobody
    Handles = {h1, h2, h3, h4, h5}
    NoHandle = nohandle
    Opens = {"udp"}
    Ports = {p1}
    NoPort = noport
    MaxSockets = 1
    Backlog = 1
SPECIFICATION Spec
SYMMETRY Symmetry
INVARIANTS HandlesOwnedOnce StopReleasesWaiters SocketsBounded RetiredSocketSeen
CHECK_DEADLOCK FALSE
