CONSTANTS
    Githubs = {g1}
    Webs = {w1}
    Stocked = {g1}
    Bare = {}
    MaxExponent = 1
    MaxVersion = 2
    MaxCrashes = 1
SPECIFICATION FairSpec
INVARIANT TypeOK
INVARIANT EtagHasItsSnapshot
PROPERTY RemotesCatchUp
PROPERTY RefusalIsHeard
