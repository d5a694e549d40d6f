\* One session, templates 1 and 2 of one height, two difficulties.
CONSTANTS
    timer = timer
    self = self
    p = p
    None = None
    Templates = {1, 2, 3}
    Height <- Heights
    Diffs = {1, 2}
    Default = 1
    Block = 3
    Nonces = {p}
    Kept = 2
    TrustedSharesCount = 1
    Ids = {1, 2, 3, 4, 5}
    MaxIncidents = 4
    Fetchers = {timer, self}
    Handler = self
SPECIFICATION Spec
INVARIANTS TypeOK WorkIsCurrent
PROPERTIES FairVerdicts TemplateCatchesUp
