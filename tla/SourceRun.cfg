SPECIFICATION BoundedSpec
CONSTANTS
    MaxNodes = 4
    FewNodes = 3
    MaxChecks = 1
    Statements = {"expr", "empty", "{", "return", "if", "ifelse", "while"}
    Payload <- MCPayload
    Indexing = {TRUE, FALSE}
INVARIANTS GraphWellFormed GraphFollowsSource AbortsOnlyBehindReturn
CHECK_DEADLOCK FALSE
