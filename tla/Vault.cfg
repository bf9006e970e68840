SPECIFICATION FairSpec
CONSTANTS
    Job = Job
    Requests = {r1}
    Pages = {"q1", "q2"}
    Summaries = {}
    Queries = {"q1", "q2"}
    Rank <- MCRank
    QueryLimit = 1
    Versions = {1, 2}
    First = {"q1"}
    NoCommit = NoCommit
    Identity = TRUE
    MaxRequests = 1
    MaxForeign = 1
    MaxFaults = 1
PROPERTIES
    VaultKeepsPages
    WikiFollowsVault
    IndexCatchesUp
