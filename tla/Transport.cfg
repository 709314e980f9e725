SPECIFICATION Spec
CONSTANTS
    HeaderUnits = 2
    MaxPayload = 1
    RawForms = {"magic", "crc"}
    Capacity = 2
    MaxFrames = 2
CHECK_DEADLOCK FALSE
INVARIANT
    NeverGuesses
PROPERTIES
    ReceiveEnds
    LaunchEnds
