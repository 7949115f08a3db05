CONSTANTS
    Results <- AllResults
    Callers = {c1}
    Window = 2
    MaxLag = 1
    Cooldown = 1
    CooldownMax = 3
    ProbesRequired = 2
    MinSamples = 2
    ErrorPercent = 50
    LatencyBudget = 5
    MaxSamples = 4
SPECIFICATION Spec
INVARIANT OnlyProviderFaultsOpen
PROPERTIES TripNeedsEvidence ImplementsCircuit
