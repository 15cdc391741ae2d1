SPECIFICATION LSpec
CONSTANTS
    MaxNodes = 3
    Statements = {"return", "if", "ifelse", "while"}
    Payload = {}
    Indexing = {FALSE}
INVARIANTS TreeCorrect FrontiersCorrect LostOnlyOnDeadPreds
INVARIANTS LoopsNatural NestingExact EntriesUnconditional LoopsReducible
PROPERTIES AnalysesEnd
CHECK_DEADLOCK FALSE
