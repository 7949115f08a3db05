CONSTANTS
    Jobs = {j1, j2}
    Workers = {w1, w2}
    NoJob = NoJob
    MaxAttempts = 3
    BaseDelay = 1
    MaxDelay = 2
    JobTTL = 4
    DlqLimit = 2
SPECIFICATION Spec
SYMMETRY QueueSymmetry
INVARIANTS TypeOK SingleOwner RetryBudget NothingLost
PROPERTIES ImplementsDeferred
