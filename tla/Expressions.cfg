SPECIFICATION Spec
CONSTANTS
    Globals <- MCGlobals
    Locals <- MCLocals
    Functions <- MCFunctions
    Numbers <- MCNumbers
    Relations = {"lt"}
    Operators = {"add", "sub"}
    MaxGlobals = 1
    MaxLocals = 2
    MaxBlocks = 2
    MaxStatements = 1
    MaxLeaves = 3
    MaxSize = 4
    MaxDepth = 4
INVARIANTS NamesResolve ExpressionsAgree FailsOnlyOnComparisons
CHECK_DEADLOCK FALSE
