-------------------------------- MODULE LICM --------------------------------
(***************************************************************************)
(* Loop invariant code motion (src/passes/LICM.cpp) on one function: the   *)
(* loops are traversed from the inside; of each, the instructions that     *)
(* depend on nothing the loop computes are moved to a new block in front   *)
(* of its header, the preheader.                                           *)
(*                                                                         *)
(* An instruction of cfg is <<what, id>>, and Kind[what] says what it is.  *)
(* uses[id] holds its operands that are computed in the function, Val(id)  *)
(* of an instruction or Phi(b) of block b.  A block that starts a loop has *)
(* one phi, whose operands are the pairs phis[b].                          *)
(***************************************************************************)
EXTENDS FlowGraph

CONSTANTS
    Kind    \* what -> "load", "store", "calc", "pure" or "impure" (calls)

VARIABLES
    cfg,
    hphase,     \* "idle", "traverse", "identify" or "done"
    phis,       \* the pairs <<value, block>> of each block's phi
    uses,       \* operands per instruction id
    loops,      \* get_loops() of LoopDetection
    started,    \* loops for which is_loop_done_ is true
    path,       \* activations of traverse_loop, innermost first
    invariant   \* loop_invariant, instructions in the order they were found

hvars == <<hphase, phis, uses, loops, started, path, invariant>>

NoLoop == 0

Val(id) == <<"val", id>>
Phi(b) == <<"phi", b>>

HoistIdle ==
    /\ hphase = "idle" /\ phis = <<>> /\ uses = <<>> /\ loops = <<>>
    /\ started = {} /\ path = <<>> /\ invariant = <<>>

-----------------------------------------------------------------------------
(* The loop being run on: the one whose activation is innermost.           *)
This == Head(path)
Header == loops[This].header
InThis == Members(loops[This].blocks)

\* collect_loop_info.
CollectedBlocks(l) ==
    LET collect[k \in DOMAIN loops] ==
            Members(loops[k].blocks) \cup UNION {collect[j] : j \in Members(loops[k].subs)}
    IN  collect[l]

InstrsOf(B) == UNION {Members(cfg.code[b]) : b \in B}
LoopInstrs == InstrsOf(CollectedBlocks(This))
ContainsImpureCall == \E i \in LoopInstrs : Kind[i[1]] = "impure"

\* An operand that the loop computes and that is not known to be invariant.
Varies(x) ==
    \/ \E i \in LoopInstrs \ Members(invariant) : Val(i[2]) = x
    \/ \E b \in CollectedBlocks(This) : x = Phi(b)

\* Stores stay, and so does every call if one of them is impure.  Loads move
\* like any other instruction, whatever the loop stores.
MayMove(i) ==
    /\ Kind[i[1]] # "store"
    /\ Kind[i[1]] \in {"pure", "impure"} => ~ContainsImpureCall

IsInvariant(i) == \A x \in uses[i[2]] : ~Varies(x)

\* Mutant: the order found is not kept.
MarkInvariantFront(i) ==
    /\ hphase = "identify" /\ i \in LoopInstrs \ Members(invariant)
    /\ MayMove(i) /\ IsInvariant(i)
    /\ invariant' = <<i>> \o invariant
    /\ UNCHANGED <<cfg, hphase, phis, uses, loops, started, path>>

\* The iteration over the instructions, which are in a set ordered by address,
\* repeated until nothing changes: one is found after the other.
MarkInvariant(i) ==
    /\ hphase = "identify" /\ i \in LoopInstrs \ Members(invariant)
    /\ MayMove(i) /\ IsInvariant(i)
    /\ invariant' = Append(invariant, i)
    /\ UNCHANGED <<cfg, hphase, phis, uses, loops, started, path>>

-----------------------------------------------------------------------------
Outside(h, l) == SelectSeq(cfg.preds[h], LAMBDA p : p \notin loops[l].latches)

\* Mutant: pairs of all predecessors.
PhiThroughAll(pairs, q, l) == [i \in DOMAIN pairs |-> <<pairs[i][1], q>>]

\* The phi of the header: pairs of predecessors outside the loop now come from
\* the preheader q; remove and add puts them to the end.
PhiThrough(pairs, q, l) ==
    LET isOut(pair) == pair[2] \in Members(Outside(Header, l))
        out == SelectSeq(pairs, isOut)
    IN  SelectSeq(pairs, LAMBDA pair : ~isOut(pair)) \o [i \in DOMAIN out |-> <<out[i][1], q>>]

\* set_operand(0, q) on the terminator of a predecessor: the target of br, but
\* the condition of a conditional branch.
SetOperand0(term, q) ==
    IF term.kind = "br" THEN JumpTerm(q) ELSE [term EXCEPT !.test = q]

Without(s, x) == SelectSeq(s, LAMBDA y : y # x)

\* The edges from outside go to q, and q gets an edge to the header h.
Redirect(g, h, q, l) ==
    LET out == Members(Outside(h, l))
    IN  [g EXCEPT !.term = [b \in Blocks(g) |-> IF b \in out THEN SetOperand0(@[b], q) ELSE @[b]],
                  !.succs = [b \in Blocks(g) |->
                                IF b \in out THEN Append(Without(@[b], h), q)
                                ELSE IF b = q THEN Append(@[b], h) ELSE @[b]],
                  !.preds = [@ EXCEPT ![h] = SelectSeq(Append(@, q), LAMBDA p : p \notin out),
                                      ![q] = @ \o Outside(h, l)]]

\* Mutant: a copy stays behind.
MoveIntoCopy(g, q, instrs) == [g EXCEPT !.code[q] = instrs]

\* The instructions leave their blocks and go to q.
MoveInto(g, q, instrs) ==
    [g EXCEPT !.code = [b \in Blocks(g) |->
                           IF b = q THEN instrs
                           ELSE SelectSeq(@[b], LAMBDA i : i \notin Members(instrs))]]

\* Mutant: the loop around does not learn of the preheader.
EnclosingGetsNone(ls, l, q) == ls

EnclosingGets(ls, l, q) ==
    IF ls[l].parent = NoLoop THEN ls
    ELSE [ls EXCEPT ![ls[l].parent].blocks = Append(@, q)]

\* BranchInst::create_br enters the edge from the preheader to the header into
\* the lists a second time.
Connect(g, q, l) == AddJump(MoveInto(Redirect(g, Header, q, l), q, invariant), q, Header)

\* The rest of run_on_loop.  The preheader is created in any case, and not
\* connected if there is nothing to move.
Hoist ==
    /\ hphase = "identify"
    /\ \A i \in LoopInstrs \ Members(invariant) : ~(MayMove(i) /\ IsInvariant(i))
    /\ LET q == cfg.n + 1
           g == AddBlock(cfg)
       IN  IF invariant = <<>>
           THEN cfg' = g /\ UNCHANGED <<phis, loops>>
           ELSE /\ cfg' = Connect(g, q, This)
                /\ phis' = [phis EXCEPT ![Header] = PhiThrough(@, q, This)]
                /\ loops' = EnclosingGets(loops, This, q)
    /\ hphase' = "traverse"
    /\ path' = Tail(path)
    /\ invariant' = <<>>
    /\ UNCHANGED <<uses, started>>

-----------------------------------------------------------------------------
FirstOf(s, P(_)) == s[CHOOSE i \in DOMAIN s : P(s[i]) /\ \A j \in 1..(i - 1) : ~P(s[j])]
NotStarted(l) == l \notin started

\* run: the next loop that is not done.
TraverseNext ==
    /\ hphase = "traverse" /\ path = <<>> /\ started # DOMAIN loops
    /\ LET l == FirstOf([k \in DOMAIN loops |-> k], NotStarted)
       IN  path' = <<l>> /\ started' = started \cup {l}
    /\ UNCHANGED <<cfg, hphase, phis, uses, loops, invariant>>

\* traverse_loop: sub-loops first ...
TraverseSub ==
    /\ hphase = "traverse" /\ path # <<>>
    /\ \E k \in Members(loops[This].subs) : NotStarted(k)
    /\ LET l == FirstOf(loops[This].subs, NotStarted)
       IN  path' = <<l>> \o path /\ started' = started \cup {l}
    /\ UNCHANGED <<cfg, hphase, phis, uses, loops, invariant>>

\* ... then the loop itself.
RunOnLoop ==
    /\ hphase = "traverse" /\ path # <<>>
    /\ \A k \in Members(loops[This].subs) : k \in started
    /\ hphase' = "identify"
    /\ UNCHANGED <<cfg, phis, uses, loops, started, path, invariant>>

EndTraversal ==
    /\ hphase = "traverse" /\ path = <<>> /\ started = DOMAIN loops
    /\ hphase' = "done"
    /\ UNCHANGED <<cfg, phis, uses, loops, started, path, invariant>>

HoistStep ==
    \/ TraverseNext
    \/ TraverseSub
    \/ RunOnLoop
    \/ \E i \in InstrsOf(Blocks(cfg)) : MarkInvariant(i)
    \/ Hoist
    \/ EndTraversal

-----------------------------------------------------------------------------
\* The blocks of loop l, preheaders inside it included, by the branches.
BlocksNow(l) ==
    LET h == loops[l].header
        back == [b \in Blocks(cfg) |->
                    IF b = h THEN {} ELSE {p \in Blocks(cfg) : b \in Members(Targets(cfg, p))}]
    IN  {h} \cup Closure(cfg, loops[l].latches, back)

\* Nothing that could be moved is left in a loop, through all levels: what an
\* inner loop sends to its preheader is found again by the loop around it.
NothingInvariantLeft ==
    hphase = "done" =>
        \A l \in DOMAIN loops :
            LET inside == InstrsOf(BlocksNow(l))
                impure == \E i \in inside : Kind[i[1]] = "impure"
                movable(i) == /\ Kind[i[1]] # "store"
                              /\ Kind[i[1]] \in {"pure", "impure"} => ~impure
            IN  \A i \in inside :
                    movable(i) =>
                        \/ \E j \in inside : Val(j[2]) \in uses[i[2]]
                        \/ \E b \in BlocksNow(l) : Phi(b) \in uses[i[2]]

\* The phi of a header has one pair for each predecessor.
PhisFollowEdges ==
    hphase \in {"traverse", "done"} =>
        \A l \in DOMAIN loops :
            LET h == loops[l].header
                sources == {p \in Blocks(cfg) : h \in Members(Targets(cfg, p))}
            IN  /\ {pair[2] : pair \in Members(phis[h])} = sources
                /\ Len(phis[h]) = Cardinality(sources)
=============================================================================
