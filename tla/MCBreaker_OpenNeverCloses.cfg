CONSTANTS
    Results <- FaultResults
    Callers = {c1, c2}
    Window = 2
    MaxLag = 1
    Cooldown = 1
    CooldownMax = 3
    ProbesRequired = 2
    MinSamples = 2
    ErrorPercent = 50
    LatencyBudget = 5
    MaxSamples = 3
SPECIFICATION Spec
PROPERTY OpenNeverCloses
