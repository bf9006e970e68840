\* Requested and scheduled jobs that end, raise or die.
CONSTANTS
    Workers = {w1}
    Sched = sched
    Users = {u1}
    Nobody = nobody
    Pollers = {}
    AutoSyncAllowed = TRUE
    MaxJobs = 2
    MaxFaults = 1
    MaxRestarts = 1
SPECIFICATION FairSpec
INVARIANT FlagHasOwner
PROPERTY FlagIsReturned
PROPERTY StartedJobIsRecorded
PROPERTY SchedulerReportsBack
