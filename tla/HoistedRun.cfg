SPECIFICATION HSpec
CONSTANTS
    undef = undef
    MaxNodes = 4
    Statements = {"expr", "while"}
    Payload <- AllPayload
    Indexing = {FALSE}
    Kind <- MCKind
    Undef = undef
INVARIANTS NothingInvariantLeft PhisFollowEdges PreheadersTransparent StableValuesSame
CHECK_DEADLOCK FALSE
