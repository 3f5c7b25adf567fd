SPECIFICATION Spec
CONSTANTS
    Versions = {"C", "C++"}
    LateCall = FALSE
    Lengths = {0, 3, 4}
    ShortMax = 3
    MaxDatagrams = 3
INVARIANTS
    TypeOK
    AlarmOnlyInReceive
    ThrowsExplained
    DroppedExplained
PROPERTIES
    CtrlCEndsLoop
CHECK_DEADLOCK FALSE
