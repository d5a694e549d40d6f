\* Two pool blocks at one height, a solo block above; two faults of any kind.
CONSTANTS
    x = x
    y = y
    z = z
    m = m
    n = n
    None = None
    Blocks = {x, y, z}
    HeightOf <- Heights3
    Solo = {z}
    Logins = {m, n}
    FinderOf <- Finders3
    Depth = 1
    MaxHeight = 3
    MaxFaults = 2
SPECIFICATION Spec
INVARIANTS TypeOK CreditedAtMostOnce CreditsComplete MaturedIsDeep OnePlace
PROPERTIES BlockTracked EventuallyMatured ImplementsRewards
