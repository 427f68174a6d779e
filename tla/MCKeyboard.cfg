CONSTANTS
    KB_BUFFER_SIZE = 3
    Codes <- MCCodes
    MaxWire = 1
SPECIFICATION MCSpec
INVARIANTS
    NoLostWakeup
    NoStuckKeyboard
    CaseAsTyped
PROPERTIES
    QueueSpec
    KeysReachShell
