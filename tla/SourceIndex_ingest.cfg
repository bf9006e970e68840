CONSTANTS
    Sources = {s1}
    Private = {s1}
    Paths = {p1}
    Contents = {a, b}
    Big = {b}
    Foreign = {}
    Garbled = garbled
    Job = job
    Ingesters = {i1}
    None = none
    MaxEdits = 2
    MaxFaults = 2
SPECIFICATION Spec
PROPERTY PartedByReindexOnly
PROPERTY RebuildMendsPairs
