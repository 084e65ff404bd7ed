SPECIFICATION FairSpec
CONSTANTS
    Prime = 11
    U64 = 8
    MAX_FIBONACCI_N = 6
    MAX_MERKLE_DEPTH = 2
    Poseidon <- MCPoseidon
    Job <- MCJob
    OtherWords <- MCOtherWords
    Salts = 2
    None = None
CHECK_DEADLOCK FALSE
INVARIANTS
    EngineInv
    AnswerIsTrue
    BoundsAgree
PROPERTY JobEnds
