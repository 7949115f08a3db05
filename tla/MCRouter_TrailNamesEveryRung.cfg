CONSTANTS
    LadderLength = 4
    Failures <- OneOfEachKind
    Experiments <- SecondRung
SPECIFICATION Spec
INVARIANT TrailNamesEveryRung
CHECK_DEADLOCK FALSE
