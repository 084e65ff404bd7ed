SPECIFICATION FairSociety
CONSTANTS
    MAX_REQUEST_AGE_SECS = 3
    MAX_FUTURE_SKEW_SECS = 1
    MAX_REQUEST_TTL_SECS = 3
    q0 = q0
    q1 = q1
    q2 = q2
    q3 = q3
    Request = {q0, q1, q2, q3}
    OwnRequest <- MCOwnRequest
    Wire <- MCWire
    Slot = {s1, s2}
    Capacity = 2
    MaxProofs = 1
    None = None
    MaxDeliveries = 2
    MaxRestarts = 1
    MaxNow = 2
    PublishRetries = 0
    ProofRetries = 1
    MaxRetries = 1
    Skew <- MCSkew
CHECK_DEADLOCK FALSE
INVARIANTS
    VerifiedWasProved
    RefusedOnlyIfFarAhead
    OldAnswerOnlySameSecond
PROPERTY AnswerIsReceived
