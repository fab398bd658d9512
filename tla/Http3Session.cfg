\* One place for a session and one for a stream: a dial finds no stream free, a prepare no session.
SPECIFICATION FairSpec
CONSTANTS
    Dialers = {d1, d2}
    Closers = {c1}
    Retirers = {x1}
    Jobs = {"dial", "prepare"}
    Sessions = {s1, s2}
    NoSession = NoSession
    NoProc = NoProc
    MaxSessions = 1
    MaxStreams = 1
INVARIANTS LimitsKept FreedNotMissed ShutdownClosesAll
PROPERTIES ImplementsProvider ShutdownReturns
