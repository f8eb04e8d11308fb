SPECIFICATION Spec
CONSTANTS
    Requests <- MCRequests
    Interfaces <- MCInterfaces
    Payload <- MCPayload
    CallbackSets <- MCCallbackSets
    MaxFrame = 4
INVARIANTS
    TypeOK
    WholeFrames
    FramesNeverNest
    BusyWhileStreaming
    DeliveredIsUnderstood
    StreamIsUnderstood
