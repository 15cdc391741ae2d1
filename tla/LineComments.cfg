SPECIFICATION Spec
CONSTANTS
    Words <- MCWords
    Numerals <- MCNumerals
    Recognised <- MCRecognised
    Arguments <- MCArguments
    MaxArguments = 2
    Pieces <- MCPieces
    Texts <- MCLineComments
INVARIANTS LineCommentHandled
CHECK_DEADLOCK FALSE
