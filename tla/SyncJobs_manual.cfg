CONSTANTS
    Workers = {w1, w2}
    Sched = sched
    Users = {u1}
    Nobody = nobody
    Pollers = {p1}
    AutoSyncAllowed = FALSE
    MaxJobs = 3
    MaxFaults = 1
    MaxRestarts = 1
SPECIFICATION Spec
INVARIANT TypeOK
INVARIANT MutualExclusion
INVARIANT ResponsibleHoldsFlag
INVARIANT CachedSummaryIsDurable
INVARIANT IdleCountersAreRecorded
PROPERTY LeakLastsUntilRestart
SYMMETRY Symmetry
PROPERTY ImplementsService
