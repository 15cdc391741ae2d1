SPECIFICATION RunSpec
CONSTANTS
    ArgTypes = {"i32", "float", "i32*"}
    ResultTypes = {"i1", "i32", "float", "i32*", "float*", "array*"}
    Sizes <- MCSizes
    Areas = {4, 8, 2400}
    MaxValues = 3
    MaxFrame = 8000
    ArgRegisters = 2
    GlobalAt = 64
    Ops = {"sub", "fsub", "alloca", "load", "store", "icmp", "fcmp", "call", "gep", "zext", "fptosi", "sitofp"}
    Relations = {"eq", "ne", "le", "gt"}
    Lengths = {2, 600}
    Recent = 1
    MaxCode = 3
INVARIANTS FrameDisjoint CodeFollowsIR
CHECK_DEADLOCK FALSE
