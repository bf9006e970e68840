CONSTANTS
    Sources = {s1}
    Private = {s1}
    Paths = {p1, p2}
    Contents = {a, b, f}
    Big = {b}
    Foreign = {f}
    Garbled = garbled
    Job = job
    Ingesters = {}
    None = none
    MaxEdits = 2
    MaxFaults = 1
SPECIFICATION FairSpec
INVARIANT TypeOK
INVARIANT StampIsHonest
PROPERTY DocumentsOutliveTheirFiles
PROPERTY IndexCatchesUp
