\* Two callers of TCP streams and one slot; liveness, so no symmetry.
CONSTANTS
    Callers = {c1, c2}
    Acceptors = {}
    Watchers = {}
    Pump = pump
    NoProc = nobody
    Handles = {h1}
    NoHandle = nohandle
    Opens = {"tcp"}
    Ports = {p1}
    NoPort = noport
    MaxSockets = 1
    Backlog = 1
SPECIFICATION FairSpec
INVARIANTS SlotsAccounted FreedNotMissed
PROPERTIES RetiredReclaimed DialsEnd
CHECK_DEADLOCK FALSE
