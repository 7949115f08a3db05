CONSTANTS
    LadderLength = 4
    Failures <- OneOfEachKind
    Experiments <- SecondRung
SPECIFICATION Spec
INVARIANT NoCallOutlivesRequest
CHECK_DEADLOCK FALSE
