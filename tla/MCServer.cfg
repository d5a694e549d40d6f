\* Two nodes, two clients, and a channel of one place.
CONSTANTS
    c1 = c1
    c2 = c2
    refresh = refresh
    retarget = retarget
    N = 2
    SickLimit = 2
    MaxFails = 2
    MaxPolls = 1
    Clients = {c1, c2}
    Starts <- Connections
    Broadcasters = {refresh}
    Retarget = retarget
    Slots = 1
    MaxIncidents = 2
SPECIFICATION MCSpec
INVARIANTS TypeOK OnlyCrowdsJam
PROPERTIES LoopsEnd SessionsServed WorkFromFirstAlive SicknessFollowsNodes
