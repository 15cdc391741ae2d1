SPECIFICATION HSpec
CONSTANTS
    undef = undef
    MaxNodes = 3
    Statements = {"expr", "while"}
    Payload = {"load", "store"}
    Indexing = {FALSE}
    Kind <- MCKind
    Undef = undef
INVARIANT AllValuesSame
CHECK_DEADLOCK FALSE
