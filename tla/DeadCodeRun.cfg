SPECIFICATION FairRun
CONSTANTS
    Ins = {1, 2}
    Blocks = {1, 2, 3}
    Funcs = {f, g, main}
    Main = main
    Shapes <- MCShapes
INVARIANTS MarkingComplete MarkingMinimal NothingDeadLeft PuritySound PurityComplete
PROPERTIES ErasedUnused EliminationEnds PropagationEnds
CHECK_DEADLOCK FALSE
