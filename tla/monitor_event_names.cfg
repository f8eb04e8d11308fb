SPECIFICATION Spec
CONSTANTS
    Chunks <- MCChunks
    Arguments <- MCArguments
    MaxForwarded = 3
    MAX_FRAME_BYTES = 2
INVARIANTS
    EventErrorsAreNamed
CHECK_DEADLOCK FALSE
