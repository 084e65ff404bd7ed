SPECIFICATION Spec
CONSTANTS
    MAX_REQUEST_AGE_SECS = 1
    MAX_FUTURE_SKEW_SECS = 1
    MAX_REQUEST_TTL_SECS = 2
    r1 = r1
    r2 = r2
    r3 = r3
    Request = {r1, r2}
    Wire <- MCWire
    Slot = {s1, s2}
    Capacity = 1
    MaxProofs = 1
    None = None
    MaxDeliveries = 2
    MaxRestarts = 0
    MaxNow = 1
CHECK_DEADLOCK FALSE
INVARIANT ResultNotBeforeRequest
