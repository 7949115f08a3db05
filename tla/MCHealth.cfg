CONSTANTS
    Results <- MCResults
    Window = 2
    MaxLag = 1
    Writers = {w1, w2}
    MaxSamples = 3
SPECIFICATION Spec
INVARIANTS TypeOK SnapshotExact QuietKeyExpires

