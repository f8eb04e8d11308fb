SPECIFICATION Spec
CONSTANTS
    Headers <- MCHeaders
    Payload <- MCPayload
    CallbackSets <- MCCallbackSets
    MaxFrame = 5
    MaxWrite = 2
INVARIANTS
    TypeOK
    LogIsMeaning
    NoSilentLoss
PROPERTIES
    DeafForOneFrame
