SPECIFICATION FairSpec
CONSTANTS
    e1 = e1  w1 = w1  w2 = w2  k1 = k1
    None = None
    Effect <- MCEffect
    Worker <- MCWorker
    Key <- MCKey
    Limit <- MCLimit
    MaxAmount = 1
    EffectMaxAttempts = 3
    UninformedFailures = {}
INVARIANTS
    NoOverlappingDelivery
    PostsBounded
    OutcomeMatchesReceiver
PROPERTIES
    AcceptedSettles
    RevokedIsCancelled
    RevocationBeforeFence
    ImplementsContract
