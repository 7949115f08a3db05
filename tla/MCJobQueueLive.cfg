CONSTANTS
    Jobs = {j1, j2}
    Workers = {w1, w2}
    NoJob = NoJob
    MaxAttempts = 2
    BaseDelay = 1
    MaxDelay = 2
    JobTTL <- NoTime
    DlqLimit = 2
SPECIFICATION FairSpec
PROPERTY QueueDrains
