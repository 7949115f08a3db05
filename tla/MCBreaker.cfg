CONSTANTS
    Results <- OkFault
    Callers = {c1, c2}
    Window = 1
    MaxLag = 1
    Cooldown = 1
    CooldownMax = 2
    ProbesRequired = 2
    MinSamples = 2
    ErrorPercent = 50
    LatencyBudget = 5
    MaxSamples = 3
SPECIFICATION FairSpec
INVARIANTS TypeOK Recoverable
PROPERTIES OpenIsLeft Recovery
