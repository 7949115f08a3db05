CONSTANTS
    Jobs = {j1, j2}
    Workers = {w1}
    NoJob = NoJob
    MaxAttempts = 2
    BaseDelay = 1
    MaxDelay = 2
    JobTTL = 2
    DlqLimit = 2
SPECIFICATION Spec
INVARIANT DeadLettersReadable
