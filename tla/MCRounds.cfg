\* Two miners, two heights, two seconds, and one event: a share, a further block
\* at a height, a crash or an orphaned block.
CONSTANTS
    m = m
    n = n
    Timer = Timer
    None = None
    Miners = {m, n}
    MaxTime = 2
    MaxHeight = 2
    MaxEvents = 1
    a = a
    b = b
    Addresses = {a, b}
    BlockRewards = {2, 5}
    Fee = 1
    FeeUnit = 10
SPECIFICATION Spec
INVARIANTS TypeOK CountedAtMostOnce CountedAtLeastOnce PaidInProportion
PROPERTIES EventuallyClosed
