--------------------------- MODULE LoopDetection ---------------------------
(***************************************************************************)
(* The loops of one function (src/passes/LoopDetection.cpp, run_on_func):  *)
(* headers are found bottom up in the dominator tree, and the blocks of a  *)
(* loop by walking back from its latches, one block of the work list a     *)
(* step.  A loop that the walk runs into has been found before and becomes *)
(* a sub-loop.                                                             *)
(*                                                                         *)
(* A loop is known by its place in loops_; NoLoop stands for nullptr.      *)
(***************************************************************************)
EXTENDS FlowGraph

VARIABLES
    cfg,        \* the function
    lphase,     \* "idle", "headers", "discover" or "found"
    dom,        \* what is_dominate of dominators_ answers: pairs <<a, b>>
    rest,       \* blocks of dom_post_order_ that run_on_func has not reached yet
    loops,      \* loops_
    inLoop,     \* bb_to_loop_
    work        \* work_list of discover_loop_and_sub_loops

lvars == <<lphase, dom, rest, loops, inLoop, work>>

NoLoop == 0

LoopIdle ==
    /\ lphase = "idle" /\ dom = {} /\ rest = <<>>
    /\ loops = <<>> /\ inLoop = <<>> /\ work = <<>>

\* The loop being discovered, and Loop::Loop with the latches it is given.
This == Len(loops)
NewLoop(b, latches) ==
    [header |-> b, latches |-> latches, blocks |-> <<b>>, subs |-> <<>>, parent |-> NoLoop]

-----------------------------------------------------------------------------
\* The dominator analysis has answered: is_dominate and dom_post_order_.
StartDetection(isDominate, postOrder) ==
    /\ lphase = "idle"
    /\ lphase' = "headers"
    /\ dom' = isDominate
    /\ rest' = postOrder
    /\ inLoop' = [b \in Blocks(cfg) |-> NoLoop]
    /\ UNCHANGED <<loops, work>>

\* Predecessors that b dominates: the sources of back edges.
Latches(b) == {p \in Members(cfg.preds[b]) : <<b, p>> \in dom}

\* One block of the loop in run_on_func.  A set of blocks is iterated in the
\* order of addresses, which is any order.
VisitHeader ==
    /\ lphase = "headers" /\ rest # <<>>
    /\ rest' = Tail(rest)
    /\ LET b == Head(rest)
       IN  IF Latches(b) = {} THEN UNCHANGED <<lphase, loops, inLoop, work>>
           ELSE /\ loops' = Append(loops, NewLoop(b, Latches(b)))
                /\ inLoop' = [inLoop EXCEPT ![b] = Len(loops) + 1]
                /\ work' \in {s \in [1..Cardinality(Latches(b)) -> Latches(b)] :
                                 Members(s) = Latches(b)}
                /\ lphase' = "discover"
    /\ UNCHANGED dom

Popped == work[Len(work)]
Unpopped == SubSeq(work, 1, Len(work) - 1)

\* A block that is in no loop yet joins this one.
Join ==
    /\ lphase = "discover" /\ work # <<>>
    /\ inLoop[Popped] = NoLoop
    /\ loops' = [loops EXCEPT ![This].blocks = Append(@, Popped)]
    /\ inLoop' = [inLoop EXCEPT ![Popped] = This]
    /\ work' = Unpopped \o cfg.preds[Popped]
    /\ UNCHANGED <<lphase, dom, rest>>

\* Mutants: the blocks of a sub-loop are not passed on; the sub-loop is not
\* listed in its parent.
NestAlone(sub) ==
    /\ loops' = [loops EXCEPT ![This].subs = Append(@, sub), ![sub].parent = This]
    /\ work' = Unpopped \o cfg.preds[loops[sub].header]

NestUnlisted(sub) ==
    /\ loops' = [loops EXCEPT ![This].blocks = @ \o loops[sub].blocks,
                              ![sub].parent = This]
    /\ work' = Unpopped \o cfg.preds[loops[sub].header]

\* The loop sub, which the walk has met, becomes a sub-loop of this one.
Nest(sub) ==
    /\ loops' = [loops EXCEPT ![This].subs = Append(@, sub),
                              ![This].blocks = @ \o loops[sub].blocks,
                              ![sub].parent = This]
    /\ work' = Unpopped \o cfg.preds[loops[sub].header]

\* A block that is in a loop: in this one, in a sub-loop already known, or in
\* one that is new.  Its own parent is asked, not the top-most one.
Meet ==
    /\ lphase = "discover" /\ work # <<>>
    /\ inLoop[Popped] # NoLoop
    /\ IF inLoop[Popped] = This \/ loops[inLoop[Popped]].parent = This
       THEN work' = Unpopped /\ UNCHANGED loops
       ELSE Nest(inLoop[Popped])
    /\ UNCHANGED <<lphase, dom, rest, inLoop>>

EndDiscovery ==
    /\ lphase = "discover" /\ work = <<>>
    /\ lphase' = "headers"
    /\ UNCHANGED <<dom, rest, loops, inLoop, work>>

EndDetection ==
    /\ lphase = "headers" /\ rest = <<>>
    /\ lphase' = "found"
    /\ UNCHANGED <<dom, rest, loops, inLoop, work>>

Detect ==
    \/ VisitHeader
    \/ Join
    \/ Meet
    \/ EndDiscovery
    \/ EndDetection

-----------------------------------------------------------------------------
\* The natural loop of header h: the blocks from which a back edge to h can be
\* reached without going through h.
NaturalLoop(g, d, h) ==
    LET latches == {p \in Blocks(g) : h \in Members(Targets(g, p)) /\ <<h, p>> \in d}
        back == [b \in Blocks(g) |->
                    IF b = h THEN {} ELSE {p \in Blocks(g) : b \in Members(Targets(g, p))}]
    IN  IF latches = {} THEN {} ELSE {h} \cup Closure(g, latches, back)

\* The loops found are the natural loops of the function, each once, with each
\* of its blocks once, those of its sub-loops included.
LoopsNatural ==
    lphase = "found" =>
        LET d == Dominance(cfg)
        IN  /\ \A l \in DOMAIN loops :
                  /\ Members(loops[l].blocks) = NaturalLoop(cfg, d, loops[l].header)
                  /\ Len(loops[l].blocks) = Cardinality(Members(loops[l].blocks))
            /\ \A b \in Blocks(cfg) :
                  NaturalLoop(cfg, d, b) # {} =>
                      Cardinality({l \in DOMAIN loops : loops[l].header = b}) = 1

\* The parent of a loop is the smallest loop around it, and has it once among
\* its sub-loops: traverse_loop of LICM reaches each loop from its parent.
NestingExact ==
    lphase = "found" =>
        \A l \in DOMAIN loops :
            LET blocks(k) == Members(loops[k].blocks)
                around == {k \in DOMAIN loops : k # l /\ loops[l].header \in blocks(k)}
            IN  /\ loops[l].parent =
                      IF around = {} THEN NoLoop
                      ELSE CHOOSE k \in around : \A j \in around : blocks(k) \subseteq blocks(j)
                /\ \A k \in DOMAIN loops :
                      Occurrences(loops[k].subs, l) = IF loops[l].parent = k THEN 1 ELSE 0

\* What the walk can still claim: blocks in no loop, and loops it may yet meet
\* that have no parent.
Unclaimed ==
    Cardinality({b \in Blocks(cfg) : inLoop[b] = NoLoop})
      + Cardinality({l \in DOMAIN loops \ {This} : loops[l].parent = NoLoop})

\* The walk ends: a step that puts predecessors back on the work list claims a
\* block, or a loop that no other loop has claimed; every other step shortens
\* the list.  So asking a loop for its own parent instead of the top-most one,
\* as the comment at line 78 has it, neither moves a loop nor goes round.
WalkProgresses ==
    [][ lphase = "discover" /\ lphase' = "discover" =>
          \/ Unclaimed' < Unclaimed
          \/ Unclaimed' = Unclaimed /\ Len(work') < Len(work) ]_lvars
=============================================================================
