CONSTANTS
    Requesters = {r1, r2}
    Writers = {ingest}
    Job = job
    Free = free
    Limit = 2
    MaxRequests = 2
    MaxWrites = 2
SPECIFICATION FairSpec
INVARIANT TypeOK
INVARIANT StartedMeansAlone
INVARIANT AtMostLimit
PROPERTY NobodyWaitsForEver
CHECK_DEADLOCK FALSE
