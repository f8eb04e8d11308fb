SPECIFICATION Spec
CONSTANTS
    Chunks <- MCChunks
    Arguments <- MCArguments
    MaxForwarded = 3
    MAX_FRAME_BYTES = 2
INVARIANTS
    TypeOK
    EachDirectionByItself
    EveryChunkIsShown
    RecordingIsComplete
    ReplayShowsTheSame
PROPERTIES
    SessionsEnd
CHECK_DEADLOCK FALSE
