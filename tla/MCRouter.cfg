CONSTANTS
    LadderLength = 4
    Failures <- OneOfEachKind
    Experiments <- SecondRung
SPECIFICATION FairSpec
INVARIANTS TypeOK TrailTellsCalls NoRungForgotten CallsAdmitted InjectionExact StatusTellsTruth
PROPERTIES ImplementsLadder RequestEnds
CHECK_DEADLOCK FALSE
