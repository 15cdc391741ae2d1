------------------------------ MODULE Mem2Reg ------------------------------
(***************************************************************************)
(* The promotion of local variables to SSA values (src/passes/Mem2Reg.cpp) *)
(* on the function cfg that BlockBuilder makes: phi insertion at iterated  *)
(* dominance frontiers, and the recursive renaming over the dominator      *)
(* tree.                                                                   *)
(*                                                                         *)
(* An instruction of cfg is <<what, id>>; Access says which variable it    *)
(* loads and which it stores, in this order.  What it stores is the value  *)
(* loaded if it loads a promoted variable, else the value Val(id) that it  *)
(* computes itself.  Erased loads and stores stay in cfg: erased is a      *)
(* matter of which blocks have been renamed.  The recursion of rename is   *)
(* path; at counts through the instructions of its innermost block and is  *)
(* 0 while the children are renamed.                                       *)
(***************************************************************************)
EXTENDS BlockBuilder

CONSTANTS
    Var,    \* allocas: the lvals is_valid_ptr accepts
    Cell,   \* globals and array elements: the lvals it refuses
    NoVar,
    Access  \* [kinds of instructions -> [load : ..., store : ...]]

\* Accesses are those of the instructions for expressions; the call that an
\* index check makes has none.
ASSUME AccessAssumption ==
    /\ NoVar \notin Var \cup Cell /\ Var \cap Cell = {}
    /\ DOMAIN Access \subseteq Payload /\ "neg_idx_except" \notin Payload
    /\ \A w \in DOMAIN Access :
          {Access[w].load, Access[w].store} \subseteq Var \cup Cell \cup {NoVar}

VARIABLES
    phase,  \* "idle", "rename", "done", or "lost": the compiler has failed
    tree,   \* dominators_: per block, its children in the dominator tree
    phis,   \* per block, the variables that have a phi in it
    pairs,  \* the operands of these phis, pairs <<value, block>>
    stack,  \* var_val_stack
    repl,   \* what each load's uses were replaced with
    path,   \* activations of rename, innermost first
    seen,   \* blocks rename has been called on
    at

mvars == <<phase, tree, phis, pairs, stack, repl, path, seen, at>>

\* Values.
Val(id) == <<"val", id>>
Phi(b, v) == <<"phi", b, v>>

LoadOf(instr) == IF instr[1] \in DOMAIN Access THEN Access[instr[1]].load ELSE NoVar
StoreOf(instr) == IF instr[1] \in DOMAIN Access THEN Access[instr[1]].store ELSE NoVar

\* Mem2Reg::is_valid_ptr.
IsValidPtr(l) == l \in Var

StoresIn(b, v) == Cardinality({i \in DOMAIN cfg.code[b] : StoreOf(cfg.code[b][i]) = v})
StoreBlocks(v) == {b \in Blocks(cfg) : StoresIn(b, v) > 0}

Top(s) == s[Len(s)]

Idle ==
    /\ phase = "idle" /\ tree = <<>> /\ phis = <<>> /\ pairs = <<>> /\ stack = <<>>
    /\ repl = <<>> /\ path = <<>> /\ seen = {} /\ at = 0

-----------------------------------------------------------------------------
\* Mutants: only the frontiers of the stores themselves; only variables with
\* stores in more than one block.
PhiBlocksOnce(v, frontier) == UNION {frontier[b] : b \in StoreBlocks(v)}

PhiBlocksShared(v, frontier) ==
    IF Cardinality(StoreBlocks(v)) > 1 THEN PhiBlocksOnce(v, frontier) ELSE {}

\* The work list of generate_phi: frontiers of stores, frontiers of phis.
PhiBlocks(v, frontier) ==
    UNION {frontier[b] : b \in Closure(cfg, StoreBlocks(v), frontier)}

\* The dominator analysis, by what BuildDominators shows it to compute, and
\* generate_phi.
GeneratePhi ==
    /\ phase = "idle"
    /\ phase' = "rename"
    /\ LET dom      == Dominance(cfg)
           frontier == [b \in Blocks(cfg) |-> DomFrontier(cfg, dom, b)]
           placed   == [v \in Var |-> PhiBlocks(v, frontier)]
       IN  /\ tree' = [b \in Blocks(cfg) |-> DomChildren(cfg, dom, b)]
           /\ phis' = [b \in Blocks(cfg) |-> {v \in Var : b \in placed[v]}]
    /\ pairs' = [b \in Blocks(cfg) |-> [v \in phis'[b] |-> <<>>]]
    /\ stack' = [v \in Var \cup Cell |-> <<>>]
    /\ UNCHANGED <<repl, path, seen, at>>

\* rename(b) is called and pushes the phis of b.
Rename(b) ==
    /\ path' = <<b>> \o path
    /\ seen' = seen \cup {b}
    /\ at' = 1
    /\ stack' = [v \in DOMAIN stack |->
                    IF v \in phis[b] THEN Append(stack[v], Phi(b, v)) ELSE stack[v]]
    /\ UNCHANGED <<phase, tree, phis, pairs, repl>>

RenameEntry == phase = "rename" /\ seen = {} /\ Rename(Entry)

\* A load takes the latest value, a store becomes the latest value.  With no
\* value there, map::at throws or back() reads outside the vector.
RenameInstruction ==
    /\ phase = "rename" /\ path # <<>> /\ at \in 1..Len(cfg.code[Head(path)])
    /\ LET instr == cfg.code[Head(path)][at]
           l     == LoadOf(instr)
           s     == StoreOf(instr)
           value == IF IsValidPtr(l) THEN Top(stack[l]) ELSE Val(instr[2])
       IN  IF IsValidPtr(l) /\ stack[l] = <<>>
           THEN phase' = "lost" /\ UNCHANGED <<repl, stack, at>>
           ELSE /\ repl' = IF IsValidPtr(l)
                           THEN [k \in DOMAIN repl \cup {instr[2]} |->
                                    IF k = instr[2] THEN value ELSE repl[k]]
                           ELSE repl
                /\ stack' = IF IsValidPtr(s)
                            THEN [stack EXCEPT ![s] = Append(@, value)] ELSE stack
                /\ at' = at + 1
                /\ UNCHANGED phase
    /\ UNCHANGED <<tree, phis, pairs, path, seen>>

\* Mutant: a phi is never an operand of a phi.
PairForDefs(b, v) ==
    IF stack[v] = <<>> \/ Top(stack[v])[1] = "phi" THEN <<>> ELSE <<<<Top(stack[v]), b>>>>

\* What block b adds to the operands of a phi for v in a successor.
PairFor(b, v) == IF stack[v] = <<>> THEN <<>> ELSE <<<<Top(stack[v]), b>>>>

FillSuccessors ==
    /\ phase = "rename" /\ path # <<>> /\ at = Len(cfg.code[Head(path)]) + 1
    /\ LET b == Head(path)
       IN  pairs' = [c \in Blocks(cfg) |->
                        [v \in phis[c] |->
                            IF c \in Members(cfg.succs[b])
                            THEN pairs[c][v] \o PairFor(b, v) ELSE pairs[c][v]]]
    /\ at' = 0
    /\ UNCHANGED <<phase, tree, phis, stack, repl, path, seen>>

\* rename calls itself on a child, in the order of a set of pointers.
RenameChild(c) ==
    /\ phase = "rename" /\ path # <<>> /\ at = 0
    /\ c \in tree[Head(path)] \ seen
    /\ Rename(c)

\* Mutant: the stack is left as it is.
PopsNone(b, v) == 0

\* How often block b pops the stack of v: once for every phi and every store,
\* those into cells too, which were never pushed.
Pops(b, v) == StoresIn(b, v) + (IF v \in phis[b] THEN 1 ELSE 0)

\* rename returns.  pop_back on an empty vector is undefined; the entries of
\* cells are not looked at again, so in this build nothing comes of it.
RenameReturns ==
    /\ phase = "rename" /\ path # <<>> /\ at = 0
    /\ tree[Head(path)] \subseteq seen
    /\ stack' = [v \in DOMAIN stack |->
                    SubSeq(stack[v], 1, Len(stack[v]) - Pops(Head(path), v))]
    /\ path' = Tail(path)
    /\ phase' = IF Len(path) = 1 THEN "done" ELSE "rename"
    /\ UNCHANGED <<tree, phis, pairs, repl, seen, at>>

PromoteStep ==
    \/ GeneratePhi
    \/ RenameEntry
    \/ RenameInstruction
    \/ FillSuccessors
    \/ \E c \in Blocks(cfg) : RenameChild(c)
    \/ RenameReturns

-----------------------------------------------------------------------------
\* The variables for which some path from the entry to the start of block b
\* has a store.
MaybeStored(b) ==
    {v \in Var : \E s \in Reachable(cfg) \cap StoreBlocks(v) :
        \E t \in Members(Targets(cfg, s)) : b \in ReachableAvoiding(cfg, {t}, {})}

StoredBefore(b, i, v) ==
    v \in MaybeStored(b) \/ \E j \in 1..(i - 1) : StoreOf(cfg.code[b][j]) = v

\* Renaming fails only on a load that no path brings a store to: with a store
\* on just one of the paths there is a phi on the stack.
FailsOnlyUninitialised ==
    phase = "lost" => ~StoredBefore(Head(path), at, LoadOf(cfg.code[Head(path)][at]))

\* At every moment the stack of a variable holds the definitions of the blocks
\* on the way down the dominator tree, in their order: what a subtree pushed is
\* popped before a sibling is renamed.
StackFollowsTree ==
    phase = "rename" =>
        \A v \in Var :
            LET done(b) == IF b = Head(path) /\ at # 0 THEN at - 1 ELSE Len(cfg.code[b])
                defs(b) == Cardinality({i \in 1..done(b) : StoreOf(cfg.code[b][i]) = v})
                             + (IF v \in phis[b] THEN 1 ELSE 0)
                upTo[i \in 0..Len(path)] ==
                    IF i = 0 THEN 0 ELSE upTo[i - 1] + defs(path[i])
            IN  Len(stack[v]) = upTo[Len(path)]

\* In the end a phi has at most one pair per predecessor, none for any other
\* block, and lacks only predecessors behind which no path has a store.
PairsMatchPreds ==
    phase = "done" =>
        \A b \in Reachable(cfg) : \A v \in phis[b] :
            LET from == [i \in DOMAIN pairs[b][v] |-> pairs[b][v][i][2]]
            IN  /\ Members(from) \subseteq Members(cfg.preds[b])
                /\ \A p \in Members(cfg.preds[b]) :
                      Occurrences(from, p) =
                          IF StoredBefore(p, Len(cfg.code[p]) + 1, v) THEN 1 ELSE 0
=============================================================================
