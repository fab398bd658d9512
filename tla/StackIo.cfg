\* Two senders, a receiver, two lookups that share one DNS slot, and every buffer at its limit.
CONSTANTS
    Senders = {s1, s2}
    Receivers = {r1}
    Resolvers = {q1, q2}
    NoTask = nobody
    Slots = {d1}
    NoSlot = noslot
    Room = 2
    Depth = 1
    Batch = 1
SPECIFICATION Spec
SYMMETRY Symmetry
INVARIANTS NoStrandedTask WorkSeen PermitFindsSlot
CHECK_DEADLOCK FALSE
