SPECIFICATION Spec
CONSTANTS
    Callers = {k1, k2}
    Closers = {c1}
    Jobs = {"dial", "probe", "retire", "shutdown"}
    Outer = Outer
    Inner = Inner
    Providers = {Outer}
    NoProvider = NoProvider
    Carrier <- Alone
    Tunnels = {t1, t2}
    NoTunnel = NoTunnel
    NoTask = NoTask
INVARIANT CurrentIntact
PROPERTIES OnlySuspectReplaced ImplementsProvider
