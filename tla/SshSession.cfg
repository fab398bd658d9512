\* Dials only: a prepare is the first part of a dial.
SPECIFICATION FairSpec
CONSTANTS
    Dialers = {d1, d2}
    Closers = {c1}
    Jobs = {"dial"}
    Keys = {k1, k2}
    NoKey = NoKey
    Pin = NoKey
    Sessions = {s1, s2}
    NoSession = NoSession
    NoProc = NoProc
INVARIANTS KeyContinuity PinnedOnce
PROPERTIES OnlySuspectReplaced ImplementsProvider DialsEnd ShutdownReturns
