---------------------------- MODULE PromotedRun ----------------------------
(***************************************************************************)
(* Mem2Reg on the functions CminusfBuilder builds, and three executions    *)
(* side by side: the original function keeps its variables in memory; the  *)
(* promoted one has a register for every value; the code that CodeGen      *)
(* makes of the promoted one has a slot for every value, and copies for    *)
(* phis in front of the branches.  All take the same branches and compute  *)
(* the same data, of which there are two kinds, and Undef.                 *)
(***************************************************************************)
EXTENDS Mem2Reg, SequencesExt

CONSTANT Undef

\* A function has finitely many allocas.
ASSUME VarAssumption == IsFiniteSet(Var)

VARIABLES pc,       \* <<block, instruction number>>, <<0, 0>> before the start
          memory,   \* what the variables of the original hold
          regs,     \* what the values of the promoted function hold
          slots,    \* what the stack slots of these values hold in its code
          order     \* the order of the phis of a block: by address of their variables

xvars == <<pc, memory, regs, slots, order>>
vars == <<program, nodes, cfg, cur, todo, outcome, mvars, xvars>>

Datum == {0, 1}

PhiValues == {Phi(b, v) : b \in Blocks(cfg), v \in Var}
RegNames == {Val(k) : k \in 1..nodes} \cup PhiValues

PInit == Init /\ Idle /\ pc = <<0, 0>> /\ memory = <<>> /\ regs = <<>>
    /\ slots = <<>> /\ order = <<>>

Build == BuildStep /\ UNCHANGED <<mvars, xvars>>

\* The dominator analysis has to get through before Mem2Reg starts.
Promote ==
    /\ outcome = "done" /\ CleanPreds(cfg)
    /\ PromoteStep
    /\ UNCHANGED <<program, nodes, cfg, cur, todo, outcome, xvars>>

Start ==
    /\ phase = "done" /\ pc = <<0, 0>>
    /\ pc' = <<Entry, 1>>
    /\ memory' = [v \in Var |-> Undef]
    /\ regs' = [r \in RegNames |-> Undef]
    /\ slots' = regs'
    /\ order' \in IF \E b \in Blocks(cfg) : Cardinality(phis[b]) > 1
                  THEN SetToSeqs(Var) ELSE {SetToSeq(Var)}
    /\ UNCHANGED <<program, nodes, cfg, cur, todo, outcome, mvars>>

Instr == cfg.code[pc[1]][pc[2]]

\* The call of neg_idx_except computes no value.
Computed(held, d) == IF Instr[1] \in Payload THEN [held EXCEPT ![Val(Instr[2])] = d] ELSE held

\* One instruction: d is the datum it computes, if it computes one.
Execute(d) ==
    /\ pc[1] # 0 /\ pc[2] <= Len(cfg.code[pc[1]])
    /\ LET l == LoadOf(Instr)
           s == StoreOf(Instr)
       IN  /\ memory' = IF s \in Var
                        THEN [memory EXCEPT ![s] = IF l \in Var THEN memory[l] ELSE d]
                        ELSE memory
           /\ regs' = Computed(regs, d)
           /\ slots' = Computed(slots, d)
    /\ pc' = <<pc[1], pc[2] + 1>>
    /\ UNCHANGED <<program, nodes, cfg, cur, todo, outcome, mvars, order>>

\* The operands that block b brings to phi v of c: one, or none for undef.
Incoming(b, c, v) == {x[1] : x \in {y \in Members(pairs[c][v]) : y[2] = b}}

Brings(b, c, v) == v \in phis[c] /\ Incoming(b, c, v) # {}

Operand(b, c, v) == CHOOSE r \in Incoming(b, c, v) : TRUE

\* At the end of block b, the operand for b is copied into the slot of phi v of c.
CopyPhi(held, b, c, v) ==
    IF Brings(b, c, v) THEN [held EXCEPT ![Phi(c, v)] = held[Operand(b, c, v)]] ELSE held

\* The phis of block c, one after the other.
CopyPhis(held, b, c) ==
    LET copied[i \in 0..Len(order)] ==
            IF i = 0 THEN held ELSE CopyPhi(copied[i - 1], b, c, order[i])
    IN  copied[Len(order)]

\* Mutant: the copies for the first successor only.
CopyStmtFirst(held, b) ==
    IF cfg.succs[b] = <<>> THEN held ELSE CopyPhis(held, b, cfg.succs[b][1])

\* CodeGen::copy_stmt: the copies for both successors, in front of the branch.
CopyStmt(held, b) ==
    LET copied[i \in 0..Len(cfg.succs[b])] ==
            IF i = 0 THEN held ELSE CopyPhis(copied[i - 1], b, cfg.succs[b][i])
    IN  copied[Len(cfg.succs[b])]

\* Along the edge to c the phis of c all change at once; in the code the copies
\* for both successors come first, and then gen_br branches.
Branch(c) ==
    /\ pc[1] # 0 /\ pc[2] = Len(cfg.code[pc[1]]) + 1
    /\ c \in Members(Targets(cfg, pc[1]))
    /\ LET incoming(v) == IF Incoming(pc[1], c, v) = {} THEN Undef
                          ELSE regs[Operand(pc[1], c, v)]
       IN  regs' = [r \in DOMAIN regs |->
                       IF r[1] = "phi" /\ r[2] = c /\ r[3] \in phis[c]
                       THEN incoming(r[3]) ELSE regs[r]]
    /\ slots' = CopyStmt(slots, pc[1])
    /\ pc' = <<c, 1>>
    /\ UNCHANGED <<program, nodes, cfg, cur, todo, outcome, mvars, memory, order>>

Run == \/ Start
       \/ \E d \in Datum : Execute(d)
       \/ \E c \in Blocks(cfg) : Branch(c)

PNext == Build \/ Promote \/ Run

PSpec == PInit /\ [][PNext]_vars

-----------------------------------------------------------------------------
\* Seen once, before the promoted function runs.
PhiPairsMatchPreds == pc = <<0, 0>> => PairsMatchPreds

\* Whenever a load of an initialised variable is executed, the value that
\* replaced it is the datum the variable holds: promotion preserves what the
\* function computes, around loops and through joins.
LoadsSeeMemory ==
    pc[1] # 0 /\ pc[2] <= Len(cfg.code[pc[1]]) =>
        LET l == LoadOf(Instr)
        IN  l \in Var /\ memory[l] # Undef =>
                Instr[2] \in DOMAIN repl /\ regs[repl[Instr[2]]] = memory[l]

\* A copy at the end of b for a phi of c reads another phi of c, whose slot has
\* the new value already: two variables that change places in a loop.
ReadsOverwritten(b, c) ==
    \E i, j \in DOMAIN order :
        /\ i < j /\ Brings(b, c, order[i]) /\ Brings(b, c, order[j])
        /\ Operand(b, c, order[j]) = Phi(c, order[i])

\* But for that, the code has the same data as the function before promotion:
\* copies made for the branch that is not taken harm nothing, and no slot is
\* overwritten while its value is still needed.
CopiesFollowPhis ==
    pc[1] # 0 /\ pc[2] <= Len(cfg.code[pc[1]])
    /\ ~(\E b, c \in Blocks(cfg) : ReadsOverwritten(b, c)) =>
        LET l == LoadOf(Instr)
        IN  l \in Var /\ memory[l] # Undef => slots[repl[Instr[2]]] = memory[l]
=============================================================================
