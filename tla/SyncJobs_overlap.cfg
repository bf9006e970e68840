CONSTANTS
    Workers = {w1, w2}
    Sched = sched
    Users = {u1}
    Nobody = nobody
    Pollers = {p1}
    AutoSyncAllowed = TRUE
    MaxJobs = 3
    MaxFaults = 0
    MaxRestarts = 0
SPECIFICATION Spec
INVARIANT MutualExclusion
