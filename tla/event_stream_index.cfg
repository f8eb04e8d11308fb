SPECIFICATION Spec
CONSTANTS
    Headers <- MCHeaders
    Payload <- MCPayload
    CallbackSets <- MCNoStart
    MaxFrame = 4
    MaxWrite = 2
INVARIANT
    IndexWithinFrame
