---------------------------- MODULE BlockBuilder ----------------------------
(***************************************************************************)
(* CminusfBuilder: the visitors that turn the statements of a function     *)
(* into basic blocks (src/cminusfc/cminusf_builder.cpp).                   *)
(*                                                                         *)
(* The source program is drawn while it is visited: whenever the visitor   *)
(* reaches the next element of a statement list, the element is chosen, so *)
(* a behaviour is one program with one run of the visitor over it, and     *)
(* program holds the tree.  The recursion of the visitors is the stack     *)
(* todo.  An expression is one abstract instruction; an access to an array *)
(* element is kept apart because ASTVar splits the block it is in.  A       *)
(* nested compound statement is its two brackets, between which its        *)
(* elements are visited where it stands.                                   *)
(*                                                                         *)
(* assert() is active in every build of this project: an instruction added *)
(* behind a terminator ends the compiler (outcome "abort").                *)
(***************************************************************************)
EXTENDS FlowGraph

CONSTANTS
    MaxNodes,   \* bound on the statements of a program
    Statements, \* the kinds of statements it is made of
    Payload,    \* what an expression statement may do
    Indexing    \* may an expression contain an array element? a set of answers

ASSUME BuilderAssumption ==
    /\ MaxNodes \in Nat
    /\ Statements \subseteq {"expr", "empty", "{", "return", "if", "ifelse", "while"}
    /\ Indexing \subseteq BOOLEAN /\ Indexing # {}

VARIABLES
    program,    \* statement lists visited so far, the body of the function first
    nodes,      \* statements drawn so far; statement k is the k-th drawn
    cfg,        \* the function under construction
    cur,        \* IRBuilder's insertion point
    todo,       \* what the active visitors still have to do, innermost first
    outcome     \* "running", "done" or "abort"

bvars == <<program, nodes, cfg, cur, todo, outcome>>

\* Entries of todo.
VisitList(l) == [do |-> "list", list |-> l]
ContinueAt(b) == [do |-> "insert", at |-> b]   \* set_insert_point

\* br unless already terminated
JumpTo(b) == [do |-> "jump", to |-> b]

\* BranchInst without an operand test: the checks on array indices and calls.
IndexTest(k) == <<"index", k>>
CondTest(k) == <<"cond", k>>
Effect(p, k) == <<p, k>>
IndexError(k) == <<"neg_idx_except", k>>

\* Mutant: the branches of the check are swapped.
SplitForIndexSwapped(g, b, k) ==
    LET error == g.n + 1
        end   == g.n + 2
        g1    == AddCondJump(AddBlock(AddBlock(g)), b, IndexTest(k), error, end)
    IN  AddJump(AddCode(g1, error, IndexError(k)), error, end)

\* ASTVar with an index, in block b: br i1 (index >= 0) end, error; the error
\* block calls neg_idx_except and falls through to end.
SplitForIndex(g, b, k) ==
    LET error == g.n + 1
        end   == g.n + 2
        g1    == AddCondJump(AddBlock(AddBlock(g)), b, IndexTest(k), end, error)
    IN  AddJump(AddCode(g1, error, IndexError(k)), error, end)

\* Visiting the expression of statement k, with one array element or none; an
\* element leaves the insertion point at the end block of its check.
Indexed(g, b, k, indexed) == IF indexed THEN SplitForIndex(g, b, k) ELSE g

BlockBehind(g, b, indexed) == IF indexed THEN g.n + 2 ELSE b

\* Mutant: an inverted loop, guarded in front, whose guard has the wrong exit.
EnterLoopInverted(g, b, judge) ==
    IF IsTerminated(g, b) THEN g
    ELSE AddCondJump(g, b, CondTest(0), judge + 1, judge)

\* Mutant: the guard in front is right, and br judge is gone.
EnterLoopGuarded(g, b, judge) ==
    IF IsTerminated(g, b) THEN g
    ELSE AddCondJump(g, b, CondTest(0), judge, judge + 2)

\* From block b into a loop: br judge, unless b is already terminated.
EnterLoop(g, b, judge) == IF IsTerminated(g, b) THEN g ELSE AddJump(g, b, judge)

Init ==
    /\ program = <<<<>>>>
    /\ nodes = 0
    /\ cfg = AddBlock(EmptyGraph)
    /\ cur = Entry
    /\ todo = <<VisitList(1)>>
    /\ outcome = "running"

-----------------------------------------------------------------------------
Visiting == outcome = "running" /\ todo # <<>> /\ Head(todo).do = "list"

\* The statement node is drawn as the next element of the list being visited.
Draw(node, kids) ==
    /\ Visiting
    /\ nodes < MaxNodes /\ node.is \in Statements
    /\ nodes' = nodes + 1
    /\ program' = [program EXCEPT ![Head(todo).list] = Append(@, node)]
                    \o [i \in 1..kids |-> <<>>]

\* assert(not is_terminated()) of BasicBlock::add_instruction fails.
Abort ==
    /\ outcome' = "abort"
    /\ todo' = <<>>
    /\ UNCHANGED <<cfg, cur>>

\* ASTExpressionStmt with an expression, or a declaration of a local variable.
VisitExpression(p, indexed) ==
    LET k  == nodes + 1
        g  == Indexed(cfg, cur, k, indexed)
        at == BlockBehind(cfg, cur, indexed)
    IN  /\ Draw([is |-> "expr", id |-> k, index |-> indexed, does |-> p], 0)
        /\ IF IsTerminated(cfg, cur) THEN Abort
           ELSE /\ cfg' = AddCode(g, at, Effect(p, k))
                /\ cur' = at
                /\ UNCHANGED <<todo, outcome>>

\* ASTExpressionStmt without an expression, or with one that is a constant or
\* the name of an array: no visitor adds an instruction.
VisitEmpty ==
    /\ Draw([is |-> "empty"], 0)
    /\ UNCHANGED <<cfg, cur, todo, outcome>>

\* ASTCompoundStmt among the statements of a list: scope.enter() ...
OpenCompound ==
    /\ Draw([is |-> "{"], 0)
    /\ UNCHANGED <<cfg, cur, todo, outcome>>

\* The elements of this kind in the list that is being visited.
Brackets(kind) ==
    {i \in DOMAIN program[Head(todo).list] : program[Head(todo).list][i].is = kind}

\* ... and, behind its elements, scope.exit().
CloseCompound ==
    /\ Visiting
    /\ Cardinality(Brackets("}")) < Cardinality(Brackets("{"))
    /\ program' = [program EXCEPT ![Head(todo).list] = Append(@, [is |-> "}"])]
    /\ UNCHANGED <<nodes, cfg, cur, todo, outcome>>

VisitReturn(indexed) ==
    LET k  == nodes + 1
        g  == Indexed(cfg, cur, k, indexed)
        at == BlockBehind(cfg, cur, indexed)
    IN  /\ Draw([is |-> "return", id |-> k, index |-> indexed], 0)
        /\ IF IsTerminated(cfg, cur) THEN Abort
           ELSE /\ cfg' = AddReturn(g, at)
                /\ cur' = at
                /\ UNCHANGED <<todo, outcome>>

\* ASTSelectionStmt without else.
VisitIf(indexed) ==
    LET k    == nodes + 1
        g    == Indexed(cfg, cur, k, indexed)
        at   == BlockBehind(cfg, cur, indexed)
        true == g.n + 1
        next == g.n + 2
    IN  /\ Draw([is |-> "if", id |-> k, index |-> indexed,
                 then |-> Len(program) + 1], 1)
        /\ IF IsTerminated(cfg, cur) THEN Abort
           ELSE /\ cfg' = AddCondJump(AddBlock(AddBlock(g)), at, CondTest(k), true, next)
                /\ cur' = true
                /\ todo' = <<VisitList(Len(program) + 1), JumpTo(next), ContinueAt(next)>>
                             \o todo
                /\ UNCHANGED outcome

\* ASTSelectionStmt with else: the else branch is visited first.
VisitIfElse(indexed) ==
    LET k     == nodes + 1
        g     == Indexed(cfg, cur, k, indexed)
        at    == BlockBehind(cfg, cur, indexed)
        true  == g.n + 1
        false == g.n + 2
        next  == g.n + 3
        else  == Len(program) + 1
    IN  /\ Draw([is |-> "ifelse", id |-> k, index |-> indexed,
                 then |-> else + 1, else |-> else], 2)
        /\ IF IsTerminated(cfg, cur) THEN Abort
           ELSE /\ cfg' = AddCondJump(AddBlock(AddBlock(AddBlock(g))),
                                      at, CondTest(k), true, false)
                /\ cur' = false
                /\ todo' = <<VisitList(else), JumpTo(next), ContinueAt(true),
                             VisitList(else + 1), JumpTo(next), ContinueAt(next)>>
                             \o todo
                /\ UNCHANGED outcome

\* ASTIterationStmt: the only visitor that accepts a terminated block, which
\* then simply does not enter the loop.
VisitWhile(indexed) ==
    LET k     == nodes + 1
        judge == cfg.n + 1
        body  == cfg.n + 2
        out   == cfg.n + 3
        g1    == AddBlock(AddBlock(AddBlock(cfg)))
        g2    == EnterLoop(g1, cur, judge)
        g3    == Indexed(g2, judge, k, indexed)
    IN  /\ Draw([is |-> "while", id |-> k, index |-> indexed,
                 do |-> Len(program) + 1], 1)
        /\ cfg' = AddCondJump(g3, BlockBehind(g2, judge, indexed), CondTest(k), body, out)
        /\ cur' = body
        /\ todo' = <<VisitList(Len(program) + 1), JumpTo(judge), ContinueAt(out)>> \o todo
        /\ UNCHANGED outcome

-----------------------------------------------------------------------------
\* The list ends: its visitor returns.
EndList ==
    /\ Visiting
    /\ Cardinality(Brackets("}")) = Cardinality(Brackets("{"))
    /\ todo' = Tail(todo)
    /\ UNCHANGED <<program, nodes, cfg, cur, outcome>>

\* Back in the visitor of the branch or loop the list belongs to.
CloseBranch ==
    /\ outcome = "running" /\ todo # <<>> /\ Head(todo).do = "jump"
    /\ cfg' = IF IsTerminated(cfg, cur) THEN cfg ELSE AddJump(cfg, cur, Head(todo).to)
    /\ todo' = Tail(todo)
    /\ UNCHANGED <<program, nodes, cur, outcome>>

\* Mutant: only an open block is left.
MoveInsertPointIfOpen ==
    /\ outcome = "running" /\ todo # <<>> /\ Head(todo).do = "insert"
    /\ cur' = IF IsTerminated(cfg, cur) THEN cur ELSE Head(todo).at
    /\ todo' = Tail(todo)
    /\ UNCHANGED <<program, nodes, cfg, outcome>>

MoveInsertPoint ==
    /\ outcome = "running" /\ todo # <<>> /\ Head(todo).do = "insert"
    /\ cur' = Head(todo).at
    /\ todo' = Tail(todo)
    /\ UNCHANGED <<program, nodes, cfg, outcome>>

\* Mutant: no default return.
EndFunctionOpen ==
    /\ outcome = "running" /\ todo = <<>>
    /\ outcome' = "done"
    /\ UNCHANGED <<program, nodes, cfg, cur, todo>>

\* The end of ASTFunDeclaration: a default return if control can fall off.
EndFunction ==
    /\ outcome = "running" /\ todo = <<>>
    /\ cfg' = IF IsTerminated(cfg, cur) THEN cfg ELSE AddReturn(cfg, cur)
    /\ outcome' = "done"
    /\ UNCHANGED <<program, nodes, cur, todo>>

BuildStep ==
    \/ \E p \in Payload, indexed \in Indexing : VisitExpression(p, indexed)
    \/ VisitEmpty
    \/ OpenCompound
    \/ CloseCompound
    \/ \E indexed \in Indexing : VisitReturn(indexed)
    \/ \E indexed \in Indexing : VisitIf(indexed)
    \/ \E indexed \in Indexing : VisitIfElse(indexed)
    \/ \E indexed \in Indexing : VisitWhile(indexed)
    \/ EndList
    \/ CloseBranch
    \/ MoveInsertPoint
    \/ EndFunction

Spec == Init /\ [][BuildStep]_bvars

-----------------------------------------------------------------------------
\* The edge lists and the terminators are three copies of one relation, edited
\* by BranchInst's constructor; the passes read whichever is at hand.
EdgesConsistent == EdgesMatchTerminators(cfg)

\* Once the function is built every block ends in a terminator, whatever
\* returns and empty branches the program has: get_terminator() of LICM and
\* the code generator assert it.
AllTerminated ==
    outcome = "done" => \A b \in Blocks(cfg) : IsTerminated(cfg, b)

\* At every moment of building the three copies of each edge agree, and the
\* finished function has a terminator in every block, whatever returns, empty
\* branches and index checks the program has; LICM and the code generator assert
\* the terminator.
GraphWellFormed == EdgesConsistent /\ AllTerminated

\* Every cycle of the reachable graph is entered through a block that dominates
\* it: without the edges that go back to a dominator no cycle is left.  These
\* are the only loops discover_loop_and_sub_loops can find.
CyclesThroughDominators ==
    outcome = "done" =>
        LET dom == Dominance(cfg)
            forward == [b \in Blocks(cfg) |->
                           {c \in Members(Targets(cfg, b)) : <<c, b>> \notin dom}]
        IN  \A b \in Reachable(cfg) : b \notin Closure(cfg, forward[b], forward)

\* Elements that leave the block inserted into as it is.
Silent == {"empty", "{", "}"}

\* The assertion of BasicBlock::add_instruction (BasicBlock.cpp:39) ends the
\* compiler on exactly the programs that have a return and behind it, with
\* nothing but silent elements between, a statement other than a loop: every
\* branch, loop and index check, however they nest around returns, leaves the
\* insertion point in a block still open, and no bracket does.
AbortsOnlyBehindReturn ==
    outcome = "abort" <=>
        \E l \in DOMAIN program : \E i, j \in DOMAIN program[l] :
            /\ i < j
            /\ program[l][i].is = "return"
            /\ program[l][j].is \notin Silent \cup {"while"}
            /\ \A m \in (i + 1)..(j - 1) : program[l][m].is \in Silent
=============================================================================
