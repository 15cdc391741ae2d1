SPECIFICATION PSpec
CONSTANTS
    varx = varx
    vary = vary
    global = global
    none = none
    undef = undef
    MaxNodes = 4
    Statements = {"expr", "if", "while"}
    Payload <- PayloadTwo
    Indexing = {FALSE}
    Var <- TwoVars
    Cell <- Cells
    NoVar = none
    Access <- AccessTwo
    Undef = undef
INVARIANTS FailsOnlyUninitialised StackFollowsTree PhiPairsMatchPreds LoadsSeeMemory CopiesFollowPhis
CHECK_DEADLOCK FALSE
