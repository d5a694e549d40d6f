\* Two miners who find a block each, nothing else going wrong.
CONSTANTS
    m = m
    n = n
    Timer = Timer
    None = None
    Miners = {m, n}
    MaxTime = 2
    MaxHeight = 2
    MaxEvents = 0
    a = a
    b = b
    Addresses = {a, b}
    BlockRewards = {2, 5}
    Fee = 1
    FeeUnit = 10
SPECIFICATION Spec
PROPERTIES RoundKept
