----------------------------- MODULE FlowGraph -----------------------------
(***************************************************************************)
(* Functions of lightir as control-flow graphs.  A graph is a record       *)
(*                                                                         *)
(*   n      number of basic blocks; block i is the i-th block created,     *)
(*          which is also its place in Function::basic_blocks_; 1 is entry *)
(*   code   per block, the instructions before the terminator              *)
(*   term   per block, its terminator, or Open                             *)
(*   succs  per block, succ_bbs_, in insertion order                       *)
(*   preds  per block, pre_bbs_, in insertion order                        *)
(*                                                                         *)
(* The edge lists are kept by the branch instructions (Instruction.cpp)    *)
(* next to the branch targets themselves: the same edge is stored three    *)
(* times.  The operators in the second half say what the graph means and   *)
(* read one of the copies only.                                            *)
(***************************************************************************)
EXTENDS Naturals, Sequences, FiniteSets

Entry == 1

\* Terminators: none yet, ret, br label, br i1 label label.
Open == [kind |-> "open"]
RetTerm == [kind |-> "ret"]
JumpTerm(b) == [kind |-> "br", to |-> b]
CondTerm(test, t, f) == [kind |-> "cond", test |-> test, yes |-> t, no |-> f]

Blocks(g) == 1..g.n

\* BasicBlock::is_terminated.
IsTerminated(g, b) == g.term[b] # Open

\* Function::Function and the entry block.
EmptyGraph == [n |-> 0, code |-> <<>>, term |-> <<>>, succs |-> <<>>, preds |-> <<>>]

\* BasicBlock::create: the block goes to the end of the function's list.
AddBlock(g) ==
    [n     |-> g.n + 1,
     code  |-> Append(g.code, <<>>),
     term  |-> Append(g.term, Open),
     succs |-> Append(g.succs, <<>>),
     preds |-> Append(g.preds, <<>>)]

\* BasicBlock::add_instruction for an instruction that is no terminator.
AddCode(g, b, instr) == [g EXCEPT !.code[b] = Append(@, instr)]

AddEdge(g, b, to) ==
    [g EXCEPT !.succs[b] = Append(@, to), !.preds[to] = Append(@, b)]

\* BranchInst::BranchInst and ReturnInst::ReturnInst.
AddJump(g, b, to) == AddEdge([g EXCEPT !.term[b] = JumpTerm(to)], b, to)

AddCondJump(g, b, test, t, f) ==
    AddEdge(AddEdge([g EXCEPT !.term[b] = CondTerm(test, t, f)], b, t), b, f)

AddReturn(g, b) == [g EXCEPT !.term[b] = RetTerm]

-----------------------------------------------------------------------------
\* Where the terminator of b may send control.
Targets(g, b) ==
    CASE g.term[b].kind = "br"   -> <<g.term[b].to>>
      [] g.term[b].kind = "cond" -> <<g.term[b].yes, g.term[b].no>>
      [] OTHER                   -> <<>>

Members(s) == {s[i] : i \in DOMAIN s}

Occurrences(s, x) == Cardinality({i \in DOMAIN s : s[i] = x})

\* What following next, a function from blocks to sets of blocks, reaches from
\* the set S, S included.
Closure(g, S, next) ==
    LET grow[T \in SUBSET Blocks(g)] ==
            LET more == T \cup UNION {next[b] : b \in T}
            IN  IF more = T THEN T ELSE grow[more]
    IN  grow[S]

\* Blocks reachable from the blocks of S without entering a block of avoid.
ReachableAvoiding(g, S, avoid) ==
    Closure(g, S \ avoid, [b \in Blocks(g) |-> Members(Targets(g, b)) \ avoid])

Reachable(g) == ReachableAvoiding(g, {Entry}, {})

\* The pairs <<a, b>> of reachable blocks such that a dominates b: every path
\* from the entry to b goes through a.
Dominance(g) ==
    LET live == Reachable(g)
    IN  UNION {{<<a, b>> : b \in live \ ReachableAvoiding(g, {Entry}, {a})} : a \in live}

\* With dom = Dominance(g): the children of a in the dominator tree.
DomChildren(g, dom, a) ==
    {c \in Blocks(g) \ {a} :
        /\ <<a, c>> \in dom
        /\ \A x \in Blocks(g) \ {c} : <<x, c>> \in dom => <<x, a>> \in dom}

\* The dominance frontier of a.  Between blocks that no path reaches there is
\* no dominance: the frontier is then the joins a leads to.
DomFrontier(g, dom, a) ==
    LET live(b) == <<b, b>> \in dom
    IN  IF live(a)
        THEN {b \in UNION {Members(Targets(g, p)) : p \in {q \in Blocks(g) : <<a, q>> \in dom}} :
                 <<a, b>> \notin dom \/ a = b}
        ELSE {b \in Members(Targets(g, a)) : ~live(b) /\ Len(g.preds[b]) > 1}

\* No block that control can reach has a predecessor that control cannot reach.
CleanPreds(g) == \A b \in Reachable(g) : Members(g.preds[b]) \subseteq Reachable(g)

\* The two edge lists say what the terminators say, each edge once per side.
EdgesMatchTerminators(g) ==
    \A b \in Blocks(g) :
        /\ g.succs[b] = Targets(g, b)
        /\ \A c \in Members(g.succs[b]) :
              Occurrences(g.preds[c], b) = Occurrences(g.succs[b], c)
        /\ \A p \in Members(g.preds[b]) : b \in Members(g.succs[p])
=============================================================================
