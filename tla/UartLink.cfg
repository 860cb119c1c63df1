SPECIFICATION FairSpec
CONSTANT
    Operators <- MCOperators
INVARIANTS
    OwnReply
    LedConfirmed
    HeartbeatOwn
PROPERTIES
    RequestReturns
