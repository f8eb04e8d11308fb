SPECIFICATION Spec
CONSTANTS
    Headers <- MCHeaders
    Payload <- MCPayload
    CallbackSets <- MCCallbackSets
    MaxFrame = 6
    MaxWrite = 2
INVARIANT
    RefusedStreamIsAborted
