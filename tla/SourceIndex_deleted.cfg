CONSTANTS
    Sources = {s1}
    Private = {}
    Paths = {p1}
    Contents = {a, b}
    Big = {}
    Foreign = {}
    Garbled = garbled
    Job = job
    Ingesters = {}
    None = none
    MaxEdits = 2
    MaxFaults = 0
SPECIFICATION Spec
INVARIANT DeletedSourceHasNoDocuments
SYMMETRY Symmetry
