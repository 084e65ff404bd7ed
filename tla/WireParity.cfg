SPECIFICATION Spec
CONSTANTS
    MAX_REQUEST_AGE_SECS = 2
    MAX_FUTURE_SKEW_SECS = 1
    MAX_REQUEST_TTL_SECS = 3
    MAX_SAFE_INTEGER = 6
    U64_MAX = 7
    MAX_ERROR_CHARS = 20
    fib = fib
    hash = hash
    Service = {fib, hash}
    Scenarios <- MCScenarios
    ForeignRequests <- MCForeignRequests
    ForeignResults <- MCForeignResults
    Bid = {0, 6, 7}
    ExpiresIn = {0, 1, 3, 4}
    Skew <- MCSkew
    None = None
    MaxNow = 2
    MaxStarts = 2
CHECK_DEADLOCK FALSE
INVARIANTS
    RequestParity
    SdkRequestAccepted
    ProviderResultUsable
    ResultParity
