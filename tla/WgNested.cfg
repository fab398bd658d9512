SPECIFICATION FairSpec
CONSTANTS
    Callers = {k1}
    Closers = {c1}
    Jobs = {"prepare", "retire"}
    Outer = Outer
    Inner = Inner
    Providers = {Outer, Inner}
    NoProvider = NoProvider
    Carrier <- Nested
    Tunnels = {t1, t2}
    NoTunnel = NoTunnel
    NoTask = NoTask
INVARIANT DeviceBeforePump
PROPERTIES CarriedEnds NothingLeaks RetireReturns
