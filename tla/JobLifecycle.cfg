SPECIFICATION FairFetchSpec
CONSTANTS
    PublishRetries = 1
    ProofRetries = 1
    None = None
    MaxRetries = 2
    ByteSize = 3
    Chunk = {0, 1, 2}
CHECK_DEADLOCK FALSE
INVARIANTS
    VerifiedIsSound
    SettledIsTerminal
    FetchTypeOK
    NothingOutlives
    CancelIsHeard
PROPERTIES
    MonotonicUnlessReentrant
    NoNewWorkAfterCancel
    RunSettles
    TerminalOnlyIfDeclined
    ImplementsJob
