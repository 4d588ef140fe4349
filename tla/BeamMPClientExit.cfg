\* The server closes before Enter is pressed.
SPECIFICATION Spec
CONSTANTS
    Codes = {"CHAT"}
    MaxWire = 1
CHECK_DEADLOCK FALSE
INVARIANT
    LeavesCleanly
