SPECIFICATION FairSpec
CONSTANTS
    phi = phi
    ins = ins
    b1 = b1
    b2 = b2
    c = c
    nil = nil
    Inst <- MCInst
    Phi <- MCPhi
    Block <- MCBlock
    Leaf <- MCLeaf
    Null = nil
    MaxOperands = 4
    MaxCtorOperands = 2
INVARIANTS UseDefExact NoDanglingUse
PROPERTIES ReplaceTerminates ImplementsDefGraph
