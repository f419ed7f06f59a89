SPECIFICATION Spec
CONSTANTS
    MAX_SETTINGS_ENTRIES = 5
    MAX_SETTINGS_PAYLOAD = 16
    MAX_FRAME_PAYLOAD = 64
    Frames <- MCFrames
    Locals <- MCLocals
    MaxSection = 10
    Chunks = {1, 6}
    MaxChunks = 3
    MaxSent = 3
    MaxInFlight = 2
CHECK_DEADLOCK FALSE
INVARIANTS
    FramesAsWritten
    SettingsAgree
