SPECIFICATION Spec
CONSTANTS
    Dialers = {d1, d2}
    Closers = {c1}
    Retirers = {x1}
    Jobs = {"dial"}
    Sessions = {s1, s2}
    NoSession = NoSession
    NoProc = NoProc
    MaxSessions = 2
    MaxStreams = 2
SYMMETRY Symmetry
INVARIANT ShutdownClosesEverything
