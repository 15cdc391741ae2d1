----------------------------- MODULE Dominators -----------------------------
(***************************************************************************)
(* The dominator analysis of one function (src/passes/Dominators.cpp,      *)
(* run_on_func): post order, immediate dominators by iteration, dominance  *)
(* frontiers, and the numbering of the dominator tree that answers         *)
(* is_dominate.  The function is the graph cfg, which the analysis reads.  *)
(*                                                                         *)
(* The loops over the blocks of the function are steps, one block each; a  *)
(* map lookup that fails (std::map::at throws, nothing catches it) ends    *)
(* the compiler: phase "lost".  None stands for nullptr.                  *)
(***************************************************************************)
EXTENDS FlowGraph

VARIABLES
    cfg,        \* the function
    phase,      \* which of the sub-analyses of run_on_func runs
    at,         \* the block the loop over basic_blocks_ is at
    changed,    \* create_idom: has this round changed anything?
    post,       \* post_order_ of each block, None if never visited
    idom,       \* idom_
    frontier,   \* dom_frontier_
    path,       \* create_dom_dfs_order: blocks being visited, innermost first
    left,       \* dom_tree_L_, None if absent
    right,      \* dom_tree_R_
    dfsOrder    \* dom_dfs_order_

dvars == <<phase, at, changed, post, idom, frontier, path, left, right, dfsOrder>>

None == 0

Idle ==
    /\ phase = "idle" /\ at = 1 /\ changed = FALSE
    /\ post = <<>> /\ idom = <<>> /\ frontier = <<>>
    /\ path = <<>> /\ left = <<>> /\ right = <<>> /\ dfsOrder = <<>>

-----------------------------------------------------------------------------
\* Dominators::dfs: blocks visited, and the successors of b still to visit.
Visited == {b \in Blocks(cfg) : post[b] # None} \cup Members(path)
Unvisited(b) == {i \in DOMAIN cfg.succs[b] : cfg.succs[b][i] \notin Visited}

\* The tree built so far.
Known == {b \in Blocks(cfg) : idom[b] # None}

\* Dominators::intersect: two fingers climb that tree, the one that is lower in
\* post order first, until they meet.
Intersect(b1, b2) ==
    LET meet[f \in Known \X Known] ==
            IF f[1] = f[2] THEN f[1]
            ELSE IF post[f[1]] < post[f[2]] THEN meet[<<idom[f[1]], f[2]>>]
            ELSE meet[<<f[1], idom[f[2]]>>]
    IN  meet[<<b1, b2>>]

\* Mutant: the first predecessor that has a dominator is taken for the answer.
HaveIdom(b) == SelectSeq(cfg.preds[b], LAMBDA p : idom[p] # None)
NewIdomFirst(b) == IF HaveIdom(b) = <<>> THEN None ELSE HaveIdom(b)[1]

\* One iteration of the loop in create_idom: predecessors that have no
\* dominator yet are skipped.
NewIdom(b) ==
    LET preds == cfg.preds[b]
        upTo[i \in 0..Len(preds)] ==
            IF i = 0 THEN None
            ELSE LET before == upTo[i - 1]
                 IN  IF idom[preds[i]] = None THEN before
                     ELSE IF before = None THEN preds[i]
                     ELSE Intersect(before, preds[i])
    IN  upTo[Len(preds)]

\* Mutant: only the predecessor itself.
WalkOne(p, top) == IF p = top THEN {} ELSE {p}

\* The blocks the runner of create_dominance_frontier passes on its way from
\* p to top, with None if it never meets top: it either leaves the tree and
\* looks up nullptr, or stays at the entry, which is its own dominator.
Walk(p, top) ==
    LET from[r \in Blocks(cfg) \cup {None}] ==
            IF r = top THEN {}
            ELSE IF r \in {None, Entry} THEN {r, None}
            ELSE {r} \cup from[idom[r]]
    IN  from[p]

Children(b) == {c \in Blocks(cfg) : idom[c] = b /\ c # b}

-----------------------------------------------------------------------------
\* run_on_func enters the blocks into the maps and starts the walk.
Enter ==
    /\ phase = "idle"
    /\ phase' = "order"
    /\ at' = 1
    /\ changed' = FALSE
    /\ post' = [b \in Blocks(cfg) |-> None]
    /\ idom' = [b \in Blocks(cfg) |-> None]
    /\ frontier' = [b \in Blocks(cfg) |-> {}]
    /\ path' = <<Entry>>
    /\ left' = [b \in Blocks(cfg) |-> None]
    /\ right' = [b \in Blocks(cfg) |-> None]
    /\ dfsOrder' = <<>>

\* dfs calls itself on the first successor it has not visited ...
OrderDown ==
    /\ phase = "order" /\ path # <<>>
    /\ \E i \in Unvisited(Head(path)) :
          /\ \A j \in Unvisited(Head(path)) : i <= j
          /\ path' = <<cfg.succs[Head(path)][i]>> \o path
    /\ UNCHANGED <<phase, at, changed, post, idom, frontier, left, right, dfsOrder>>

\* ... and numbers its block when there is none.
OrderUp ==
    /\ phase = "order" /\ path # <<>>
    /\ Unvisited(Head(path)) = {}
    /\ post' = [post EXCEPT ![Head(path)] =
                   Cardinality({b \in Blocks(cfg) : post[b] # None}) + 1]
    /\ path' = Tail(path)
    /\ UNCHANGED <<phase, at, changed, idom, frontier, left, right, dfsOrder>>

\* create_idom starts with the entry as its own dominator.
OrderEnds ==
    /\ phase = "order" /\ path = <<>>
    /\ phase' = "idom"
    /\ idom' = [idom EXCEPT ![Entry] = Entry]
    /\ UNCHANGED <<at, changed, post, frontier, path, left, right, dfsOrder>>

\* Mutant: the loop begins one block too late.
IdomOfBlockLate ==
    /\ phase = "idom" /\ at <= cfg.n
    /\ IF at > Entry + 1 /\ NewIdom(at) # idom[at]
       THEN idom' = [idom EXCEPT ![at] = NewIdom(at)] /\ changed' = TRUE
       ELSE UNCHANGED <<idom, changed>>
    /\ at' = at + 1
    /\ UNCHANGED <<phase, post, frontier, path, left, right, dfsOrder>>

\* create_idom, one block: record a dominator that differs from the last one.
IdomOfBlock ==
    /\ phase = "idom" /\ at <= cfg.n
    /\ IF at # Entry /\ NewIdom(at) # idom[at]
       THEN idom' = [idom EXCEPT ![at] = NewIdom(at)] /\ changed' = TRUE
       ELSE UNCHANGED <<idom, changed>>
    /\ at' = at + 1
    /\ UNCHANGED <<phase, post, frontier, path, left, right, dfsOrder>>

\* Mutant: changed is not reset.
IdomRoundEndsChanged ==
    /\ phase = "idom" /\ at > cfg.n
    /\ at' = 1
    /\ phase' = IF changed THEN "idom" ELSE "frontier"
    /\ UNCHANGED <<changed, post, idom, frontier, path, left, right, dfsOrder>>

\* The end of a round: again, until a round changes nothing.
IdomRoundEnds ==
    /\ phase = "idom" /\ at > cfg.n
    /\ at' = 1
    /\ changed' = FALSE
    /\ phase' = IF changed THEN "idom" ELSE "frontier"
    /\ UNCHANGED <<post, idom, frontier, path, left, right, dfsOrder>>

FrontierOfBlock ==
    /\ phase = "frontier" /\ at <= cfg.n
    /\ LET preds == Members(cfg.preds[at])
           walked == IF Len(cfg.preds[at]) > 1
                     THEN UNION {Walk(p, idom[at]) : p \in preds} ELSE {}
       IN  IF None \in walked
           THEN phase' = "lost" /\ UNCHANGED <<frontier, at>>
           ELSE /\ frontier' = [b \in Blocks(cfg) |->
                                   IF b \in walked THEN frontier[b] \cup {at}
                                   ELSE frontier[b]]
                /\ at' = at + 1
                /\ UNCHANGED phase
    /\ UNCHANGED <<changed, post, idom, path, left, right, dfsOrder>>

\* create_dom_dfs_order starts at the entry ...
FrontierEnds ==
    /\ phase = "frontier" /\ at > cfg.n
    /\ phase' = "number"
    /\ path' = <<Entry>>
    /\ left' = [left EXCEPT ![Entry] = 1]
    /\ dfsOrder' = <<Entry>>
    /\ UNCHANGED <<at, changed, post, idom, frontier, right>>

\* ... goes on with a child not yet visited, in the order of a set of pointers ...
NumberDown(c) ==
    /\ phase = "number" /\ path # <<>>
    /\ c \in Children(Head(path)) /\ left[c] = None
    /\ path' = <<c>> \o path
    /\ left' = [left EXCEPT ![c] = Len(dfsOrder) + 1]
    /\ dfsOrder' = Append(dfsOrder, c)
    /\ UNCHANGED <<phase, at, changed, post, idom, frontier, right>>

\* ... and returns when there is none.
NumberUp ==
    /\ phase = "number" /\ path # <<>>
    /\ \A c \in Children(Head(path)) : left[c] # None
    /\ right' = [right EXCEPT ![Head(path)] = Len(dfsOrder)]
    /\ path' = Tail(path)
    /\ phase' = IF Len(path) = 1 THEN "done" ELSE "number"
    /\ UNCHANGED <<at, changed, post, idom, frontier, left, dfsOrder>>

Analyse ==
    \/ Enter
    \/ OrderDown
    \/ OrderUp
    \/ OrderEnds
    \/ IdomOfBlock
    \/ IdomRoundEnds
    \/ FrontierOfBlock
    \/ FrontierEnds
    \/ \E c \in Blocks(cfg) : NumberDown(c)
    \/ NumberUp

\* Dominators::is_dominate, on blocks that have numbers.
IsDominate(a, b) == left[a] <= left[b] /\ right[a] >= left[b]

-----------------------------------------------------------------------------
\* While the iteration runs, a dominator is always later in post order than
\* the block it is recorded for: intersect climbs strictly and terminates,
\* also in rounds where half of the tree is still missing.
IdomClimbs ==
    phase = "idom" =>
        \A b \in Blocks(cfg) \ {Entry} :
            idom[b] # None => post[b] # None /\ post[idom[b]] > post[b]

\* idom is the immediate dominator in the sense of paths, and missing exactly
\* for the blocks no path reaches.
IdomCorrect ==
    phase \in {"done", "lost"} =>
        LET dom == Dominance(cfg)
            above(b) == {a \in Blocks(cfg) \ {b} : <<a, b>> \in dom}
        IN  \A b \in Blocks(cfg) \ {Entry} :
                IF <<b, b>> \in dom    \* b is reachable
                THEN /\ idom[b] \in above(b)
                     /\ \A a \in above(b) : <<a, idom[b]>> \in dom
                ELSE idom[b] = None

\* The frontier of a holds the blocks where the influence of a ends: a
\* dominates a predecessor but not the block itself.
FrontierCorrect ==
    phase = "done" =>
        LET dom == Dominance(cfg)
        IN  \A a \in Blocks(cfg) : frontier[a] = DomFrontier(cfg, dom, a)

\* The interval test of is_dominate answers dominance, whatever the order in
\* which the children of a node were numbered.
IsDominateCorrect ==
    phase = "done" =>
        LET dom == Dominance(cfg)
        IN  \A a, b \in Reachable(cfg) : IsDominate(a, b) <=> <<a, b>> \in dom
=============================================================================
