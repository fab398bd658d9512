\* One configuration, replaced and stopped; liveness, so no symmetry.
SPECIFICATION FairSpec
CONSTANTS
    Callers = {t1}
    Ids = {i1}
    Revs = {r1, r2}
    Fronts = {f1, f2}
    NoFront = NoFront
    Ports = {p1, p2}
    Secrets = {x1, x2}
    NoAnswer = NoAnswer
    Conns = {c1, c2}
    MaxFront = 1
    MaxRegistry = 1
INVARIANTS NoOrphanFront ReachesWhatWasEnsured BudgetsExact
PROPERTY StoppedDrains
