\* Two runners, each with its own way to commit, one of which may fail or crash.
SPECIFICATION FairSpec
CONSTANTS
    Runner = {r1, r2}
    MaxRuns = 2
    MaxUsage = 2
    MaxFaults = 1
INVARIANTS
    TypeOK
    SingleWorker
    RollupCoversCompleted
    ClosedMonthIsSummed
PROPERTIES
    YoungRunsAreSafe
    CompletedIsFinal
    JobGetsDone
CHECK_DEADLOCK FALSE
