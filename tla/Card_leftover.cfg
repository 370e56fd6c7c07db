SPECIFICATION MatchSpec
CONSTANTS
    NRows = 5
    Period = 4
    Setups <- SecondCounts
    JournalError = 1
    Directories = {"card2"}
    MaxFlaws = 1
INVARIANT NoBodySwap
CHECK_DEADLOCK FALSE
