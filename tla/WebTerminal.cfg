SPECIFICATION FairSpec
CONSTANTS
    Call = {c1, c2, c3}
    Job = {j1, j2}
    None = None
CHECK_DEADLOCK FALSE
INVARIANTS
    TerminalInv
    ReplacedOnlyIfOverlapped
PROPERTIES
    LoadOutcomeIsShown
    TerminalBecomesReady
