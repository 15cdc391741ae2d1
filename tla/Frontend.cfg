SPECIFICATION Spec
CONSTANTS
    Words <- MCWords
    Numerals <- MCNumerals
    Recognised <- MCRecognised
    Arguments <- MCArguments
    MaxArguments = 5
    Pieces <- MCPieces
    Texts <- MCTexts
INVARIANTS AstFollowsText PrintShowsTree ArgumentOrderIrrelevant
CHECK_DEADLOCK FALSE
