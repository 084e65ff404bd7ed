SPECIFICATION ClientSpec
CONSTANTS
    Prime = 11
    U64 = 8
    MAX_FIBONACCI_N = 6
    MAX_MERKLE_DEPTH = 2
    Poseidon <- MCPoseidon
    Job <- MCJob
    Declared <- MCDeclared
    Word <- MCWord
    PrivateInput <- MCPrivateInput
    None = None
CHECK_DEADLOCK FALSE
INVARIANT VerifiedClaim
