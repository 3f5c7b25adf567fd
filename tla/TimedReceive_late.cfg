SPECIFICATION Spec
CONSTANTS
    Versions = {"C"}
    LateCall = TRUE
    Lengths = {3}
    ShortMax = 3
    MaxDatagrams = 3
PROPERTIES
    CtrlCEndsLoop
CHECK_DEADLOCK FALSE
