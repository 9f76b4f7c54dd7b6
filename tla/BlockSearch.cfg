CONSTANTS
    MaxBlock = 7
    Times <- MCTimes
    Window = 3
SPECIFICATION FairSpec
INVARIANTS TypeOK FindsBound FirstUnlessRepeated
PROPERTIES Terminates
