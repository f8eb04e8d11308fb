SPECIFICATION LinkSpec
CONSTANTS
    Requests <- MCRequests
    Interfaces <- MCInterfaces
    Payload <- MCPayload
    CallbackSets <- MCCallbackSets
    MaxFrame = 2
    MaxCalls = 2
INVARIANTS
    LinkTypeOK
    OwedIsGranted
PROPERTIES
    ImplementsChannel
    OkIsCarriedOut
