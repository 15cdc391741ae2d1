# The cminusf compiler in TLA+

This directory holds TLA+ models of the C-minus-f compiler in this repository,
the TLC configurations that check them on small instances, and proofs for the
TLA+ proof system. Source paths below are relative to the repository root.

## 1. The system

`cminusfc` (`src/cminusfc/main.cpp`) turns a `.cminus` file into lightir text
or LoongArch assembly:

    lexer, parser -> syntax tree -> AST -> CminusfBuilder -> lightir Module
      -> [-mem2reg: Mem2Reg, DeadCode] -> [-licm: LoopInvariantCodeMotion, DeadCode]
      -> IR text, or CodeGen -> assembly

Everything runs in one thread. Nothing is retried and nothing is persisted:
there are no interleavings, messages or crashes with a restart. What is hard is
a large object graph that many passes edit by hand, long sequences of legal
calls, recursive visitors that share one insertion point, fixpoint iterations
over incomplete data, and containers ordered by address. `assert` is active in
every build (no target defines `NDEBUG`), and nothing catches exceptions: a
failed assertion or map lookup ends the compiler.

| Component | State it keeps | Operations | What makes it correct |
|---|---|---|---|
| Value / User (`src/lightir/{Value,User}.cpp`) | operand vectors, use lists | `set_operand`, `add_operand`, `remove_operand`, `remove_all_operands`, `replace_all_use_with`, destructors, phi pairs | the two directions agree; loops over use lists end; no pointer to a freed object |
| BasicBlock / BranchInst / Function | instruction lists, `pre_bbs_`, `succ_bbs_`, `basic_blocks_` | constructors, `~BranchInst`, `Function::remove` | each edge stored three times, always the same; one terminator per block |
| CminusfBuilder (`src/cminusfc/cminusf_builder.cpp`) | insertion point, scope stack, context | one visitor per AST node | the graph does what the structured source does; every block ends |
| Scope (`include/cminusfc/cminusf_builder.hpp`) | stack of maps | enter, exit, push, find | innermost binding |
| Dominators | post order, idom, frontiers, tree, intervals | `run_on_func` | the answers are dominance by paths |
| Mem2Reg | `var_val_stack`, `phi_lval` | `generate_phi`, `rename` | the promoted function computes what the original does |
| FuncInfo | `is_pure`, work list | `run` | a pure function neither writes nor reads beyond its frame, nor calls one that does |
| DeadCode | `marked`, work list | `clear_basic_blocks`, `mark`, `sweep` | nothing needed is removed, nothing is freed while it is used |
| LoopDetection | `bb_to_loop_`, loops, nesting | `run_on_func` | the natural loops and their nesting |
| LoopInvariantCodeMotion | preheaders, `is_loop_done_` | `traverse_loop`, `run_on_loop` | moved instructions compute the same |
| CodeGen | stack offsets, output | one generator per instruction | frame layout, phi copies, calling convention |
| Lexer, parser, AST (`src/parser`, `src/common`) | the lexeme, the parser's stack, `gt->root`, the depth of the printer | token rules, reductions, `transform_node_iter`, `ASTPrinter` | the tree is the one the text means, elements of lists in their order; the printed lines show it |
| Driver (`src/cminusfc/main.cpp`) | `Config`, the list of passes | `parse_cmd_line`, `check`, `main` | what is produced does not depend on the order of the options |
| Types, constants, printing of lightir; runtime library | interned types | | pure construction and I/O |

Components interact by calls only. CminusfBuilder makes the graph through
IRBuilder; each pass reads and edits the same Module; Mem2Reg, LoopDetection
and LICM call Dominators and FuncInfo first and use their answers after they
have begun to edit the graph.

## 2. Plan and how the modules hang together

The order is by what everything else stands on: the object graph first, then
the graph of blocks and the visitors that build it, then the analyses and
transformations in the order in which the driver runs them.

| Step | Modules | State |
|---|---|---|
| 1. Use-def chains, against an abstract graph of definitions | `UseDef`, `DefGraph`, `UseDefProofs` | checked, proved |
| 2. Blocks and edges; statements to blocks; source against graph | `FlowGraph`, `BlockBuilder`, `SourceRun`, `BlockBuilderProofs` | checked, proved |
| 3. Dominators on the functions built | `Dominators`, `BuildDominators`, `BuildLoopsProofs` | checked, proved |
| 4. Promotion to SSA, original against promoted function | `Mem2Reg`, `PromotedRun`, `PromotedRunProofs` | checked, proved |
| 5. Purity and dead code | `FuncInfo`, `DeadCode`, `DeadCodeRun`, `DeadCodeProofs`, `FuncInfoProofs` | checked, proved |
| 6. Loops and code motion, original against new function | `LoopDetection`, `BuildLoops`, `LICM`, `HoistedRun`, `BuildLoopsProofs` | checked, proved but for `LICM` |
| 7. Code of a function without branches, against lightir | `StackFrame`, `Machine`, `CodeGen`, `FunctionRun`, `FunctionRunProofs` | checked, proved |
| 8. Expressions: typing and conversion of operands, calls, assignments; `Scope` | `TypedValue`, `Expressions`, `ExpressionsProofs` | checked, proved |
| 9. Branches and phi copies of `CodeGen`, on the functions `PromotedRun` makes | `PromotedRun`, `PromotedRunProofs` | checked, proved |
| 10. Text to tree: scanner, automaton, transformation, printer; command line | `Lexer`, `Grammar`, `SyntaxTree`, `Reading`, `Driver`, `Frontend` | checked |
| To come | names that `set_instr_name` gives and the text of lightir; `DeadCode` on what `LICM` leaves behind | |
| Proofs to come | code motion, from the loops of `BuildLoopsProofs` (6) | |

    DefGraph <--implements-- UseDef <-- UseDefProofs
    FlowGraph <-- BlockBuilder <-- SourceRun
    FlowGraph <-- BlockBuilder <-- BlockBuilderProofs <-- BuildLoopsProofs --> BuildLoops
        ^              ^--- BuildDominators --INSTANCE--> Dominators --> FlowGraph
        |                      ^--- BuildLoops ------INSTANCE--> LoopDetection --> FlowGraph
        |              ^--- Mem2Reg <-- PromotedRun <-- PromotedRunProofs --> BlockBuilderProofs
        |              ^--- HoistedRun ------INSTANCE--> LICM --> FlowGraph
    DeadCode <-- DeadCodeProofs        FuncInfo <-- FuncInfoProofs
    DeadCode, FuncInfo <-- DeadCodeRun
    StackFrame, Machine <-- CodeGen <-- FunctionRun
    FunctionRun <-- FunctionRunProofs
    TypedValue <-- Expressions <-- ExpressionsProofs
    SyntaxTree, Lexer <-- Reading <-- Frontend --> Grammar, Driver

A pass is a module of its own with the function it works on as the variable
`cfg`. A composing module EXTENDS `BlockBuilder`, which draws a program and
builds its function, and INSTANCEs the pass, which then runs on that function
(`Mem2Reg` is extended instead, so that its definitions can be named in proofs);
so every pass is checked on exactly the graphs the compiler can hand it. Each
`MC` module only gives values to constants.

`LoopDetection` gets the answers that `Dominators` has computed for the same
function. `Mem2Reg` and `LICM` take the answers they need by their definition
(`Dominance`, `DomFrontier`, natural loops); that the analyses compute this is
what the run `analyses` checks. Both ask before they change anything, so the
answers are not stale.

## 3. What each module says

**UseDef.** `operands` is `User::operands_`, `uses` is `Value::use_list_`, as a
set: the code tests it for emptiness, takes its first element and removes all
equal elements, so neither order nor multiplicity can be seen. One action per
operation that edits either: `Create`, `CreateBlock`, `SetOperand`,
`AddPhiPairOperand`, `RemovePhiOperand`, `RemoveAllOperands`. The two loops that
walk a use list while they change it, `replace_all_use_with` and `~Value`, take
one step per iteration (`ReplaceOne`, `ReplaceDone`, with `job` as the
activation), so that what holds in the middle is visible. Addresses are reused:
a destroyed instruction may be created again, and a use that was left behind is
then a use of the new object.

**DefGraph** is what the passes rely on: operands only, with substitution and
destruction as one step each. `UseDef` implements it under the refinement
mapping of `ImplementsDefGraph`: while a job is running the abstract operands
are those in which the job has already been finished.

**FlowGraph** is a function as a record of blocks, with each edge in the branch,
in `succs` and in `preds` as the code has it. Its second half defines what the
graph means by paths: reachability, dominance, frontiers.

**BlockBuilder** is the visitors of `cminusf_builder.cpp` for statements. The
program is drawn while it is visited, so that a behaviour is one program and
one run of the visitors over it; `todo` is their recursion. `Abort` is the failed
assertion of `add_instruction`. An expression is one abstract instruction, but
an array element in it splits the block as `visit(ASTVar)` does. An expression
statement that adds no instruction (`;`, `5;`) is a kind of its own (`VisitEmpty`), and a
compound statement within a list is its two brackets (`OpenCompound`,
`CloseCompound`), since its elements are visited where it stands.

**TypedValue** has the constructors of `Instruction.cpp`: each checks what the
constructor asserts and computes what the instruction will. **Expressions** is the
visitors of declarations and expressions. The program is again drawn while it is
visited (`visits` is the recursion), and it is executed while it is built: `mem` is
memory as the instructions leave it, `store` as the source says, and each value that
a visitor returns (`ir`) stands next to what the expression means (`means`). `scope`
is the stack of maps; `vars` and `open` are what the source knows, from which
`Visible` takes the variable that C means by a name. An expression in parentheses and
the visitors that only hand a child through have no step. `BlockBuilder` leaves
expressions abstract, `Expressions` leaves control abstract: neither looks at what
the other is about, except for the index check, which is in both.

**SourceRun** executes the structured program and the graph side by side, with
the same answers to the tests.

**Dominators** is `run_on_func`, statement by statement where the order matters:
the post order, one step per block of each round of `create_idom`, one step per
block of the frontier computation, the numbering with the children of a node in
any order (they are in a set of pointers). A lookup of `nullptr` is phase `lost`.

**Mem2Reg** is `generate_phi` and the recursion of `rename`, one step per
instruction and per call and return. **PromotedRun** keeps the original function,
the promoted one and its code side by side: the first has `memory`, the second
`regs`, the third `slots`. `CopyStmt` is `CodeGen::copy_stmt`: in front of the branch of
a block, one after the other, the copies for the phis of both successors, those of
one block in the order of the addresses of their variables (`order`, any order).

**FuncInfo** is `trivial_mark` and `process` on any call graph; an address is
the chain of instructions it is computed through. **DeadCode** is one round after
the other of `clear_basic_blocks`, `mark` and `sweep` on any function; a null
operand is an operand that is no longer an instruction of the function. Both loops
of `sweep` take one step per instruction (`Unlink`, `Erase`), in any order, as
`wait_del` is a set of pointers. **DeadCodeRun** is `DeadCode::run`: `FuncInfo` on a module,
then the rounds on a function whose calls are critical or not by what it has found.

**LoopDetection** takes one step per block of the work list. **LICM** takes one
step per instruction found invariant, in any order (`loop_instructions` is a set
of pointers), and one for the end of `run_on_loop`, which rewires the graph.
**HoistedRun** runs the function from before next to the one from after.

**StackFrame** is `allocate`, one step per argument and per instruction, and the
address that `gen_alloca` computes for a variable on its own (`VariableAt`).
**Machine** is what `CodeGen` relies on in LoongArch. Memory is bytes, each of
which knows the datum it is a part of, so that a load of bytes that were not
stored together gives `Junk`; numbers wider than a byte are not split into
digits. **CodeGen** has one operator per generator, from an instruction of
lightir to a sequence of machine instructions. An instruction with a label in it
(`gen_fcmp`) is the sequence that its branches amount to. **FunctionRun** draws a
function while `allocate` lays it out, enters it as `gen_call` of a caller would
(arguments by position) and runs the code one lightir instruction per step;
`held` and `cells` are what lightir says values and variables are.

**Lexer** is the rules of `lexical_analyzer.l`: which pieces a lexeme may grow by, and
the token it is. **Grammar** is `syntax_analyzer.y` and what bison makes of it: item
sets, moves, a reduction by the tokens that may follow and the default reduction.
**SyntaxTree** is `node()` of `syntax_tree.c`, the transformation of `ast.cpp` with its
stacks, and `ASTPrinter`. **Reading** says the same without any of this, by splitting
the text. **Driver** is the command line, its checks and the order of the passes.
**Frontend** is `main`: the text is drawn piece by piece while the scanner reads it, and
every token goes to the parser at once. Three things follow from the code that are
easily missed. What `yyparse` answers is ignored: after an error `gt->root` is what the
rule of `program` left there, and bison reduces by that rule in front of any bad token
that stands behind a whole declaration, so that the declarations in front of it are
compiled; an error elsewhere leaves `gt->root` as `malloc` gave it (phase
`undefined`). The rule for `//` drops the two slashes and nothing behind them (part 4), and a
character of no rule is echoed and skipped. A variable of type `void` becomes a float.
A numeral is kept by its value, as `std::stoi` and `std::stof` give it, and six digits of a
float are printed.

Definitions named as mutants in a comment are plausible errors of the
definition that follows them. They are part of no specification; each is there
to see that the property it belongs to would notice.

## 4. What the runs check

| Run | Properties | What it shows | Bounds |
|---|---|---|---|
| `use_def` | `UseDefExact` `NoDanglingUse` `ReplaceTerminates` `ImplementsDefGraph` | both directions agree through every sequence of operations, no pointer to a freed object stays, the loops over use lists end, and all of it implements the abstract graph | a phi, an instruction, two blocks, a constant; 4 operands, two phi pairs: enough for a phi that uses itself, repeated operands and erasure in the middle |
| `source_run` | `GraphWellFormed` `GraphFollowsSource` `AbortsOnlyBehindReturn` | edges agree and blocks end; the graph does what the source does; an assertion fails on exactly the programs in which a statement that adds an instruction, and is no loop, stands behind a return with only empty statements and brackets between | every program of 3 statements, each with an index check or without, and of 4 with one check at most: a loop around an if-else with something in both branches, or `{ return; } ; x;`; a check in a condition and another one behind it |
| `analyses` | `TreeCorrect` `FrontiersCorrect` `LostOnlyOnDeadPreds` `LoopsNatural` `NestingExact` `EntriesUnconditional` `LoopsReducible` `AnalysesEnd` | the dominator analysis ends, and either has the answers by paths or fails on a live block with a dead predecessor; from these answers come all loops, as the definitions have them, rightly nested | 3 statements: three loops in each other, or two in one; up to 11 blocks; any order of a set of pointers |
| `mem2reg` | `FailsOnlyUninitialised` `StackFollowsTree` `PhiPairsMatchPreds` `LoadsSeeMemory` `CopiesFollowPhis` | loads are replaced by the right values, and so are they in the code with copies for phis, unless a phi reads another one of its block | 4 statements of definitions, copies between two variables, stores to a global, if, while |
| `dead_code` | `PuritySound` `PurityComplete` `PropagationEnds` `MarkingComplete` `MarkingMinimal` `NothingDeadLeft` `ErasedUnused` `EliminationEnds` | the impure functions are those with a reason to be and their callers; what critical instructions need survives, nothing else, and nothing is freed while it is used | three functions, every call graph, five shapes; two instructions in three blocks, every use graph, every block graph: two rounds of `clear_basic_blocks`, two instructions that use each other deleted in either order |
| `hoisting` | `NothingInvariantLeft` `PhisFollowEdges` `PreheadersTransparent` `StableValuesSame` | all that is invariant leaves the loops and computes the same, except for stale loads | 4 statements of loads, stores, calculations, pure and impure calls, while |
| `function_run` | `FrameDisjoint` `CodeFollowsIR` | slots and variables have bytes of their own; the code computes what lightir says, and a function that returns gives back what it must, except where the property names the exception | three values, arguments among them, and three instructions; four of the six comparisons; arrays of 2 and of 600 |
| `expressions` | `NamesResolve` `ExpressionsAgree` `FailsOnlyOnComparisons` | names mean what C means; what is built computes what the source says; constructors fail only on results of comparisons | three operands, or fewer with locals and nested blocks; integers and floats, arrays of both as global, parameter and local, an array of length 0; a callee that writes a global integer, one that writes the array passed |
| `frontend` | `AstFollowsText` `PrintShowsTree` `ArgumentOrderIrrelevant` | the tree of an accepted text is the one found by splitting it, that of a text with an error the one of the declarations in front; the printed lines determine the tree up to types and six digits of a float; options may stand in any order | eight openings of a text and up to seven pieces behind them: two ifs and an else, calls with two arguments, parameters, comments, numerals with leading zeros and of seven digits and more; every command line of five arguments |
| `stale_loads` | `AllValuesSame` | **violated**: a load of a global leaves a loop that stores it | 3 statements |
| `line_comments` | `LineCommentHandled` | **violated**: `//` is neither refused nor a comment up to the end of the line | one opening, two pieces behind `//` |
| `frame_pointer` | `FramePointerRestored` | **violated**: a comparison of floats stores four bytes into a slot of one, in the first slot over the saved `$fp` | as `function_run` |

In `source_run` a bracket pair or an empty statement counts as a statement. An index check
splits the block it is in and moves the insertion point, so that a check in a
condition and one in what the condition guards is the most that two checks can have to do
with each other; these fit into the 3 statements.

Three loops in each other is the first depth at which a loop has both a parent
and a sub-loop, an if-else in a loop the first shape with a join inside a cycle:
the bounds are chosen to have these.

In `function_run` an array of 600 takes a frame beyond the 12 bits of an
immediate. Such functions are never assembled, since the epilogue does not look
at the size; they are run up to the instruction that is rejected, so that the far
loads and stores are checked. `ArgRegisters` is 2 instead of 8: three arguments
then show what a ninth does. `Recent` is 1: an operand is the last value of its
type or a constant. An address outside the variables ends the run, as lightir
does not say what happens. Of the comparisons `lt` and `ge` are left out: they
are the code of `gt` and `le` with the operands the other way round.

`CodeFollowsIR` names where the code differs from lightir and holds everywhere
else: `Wrong` (equal floats are unequal, conversion to integers rounds to the
nearest), `Damaged` (bytes next to the result of a comparison of floats) and
arguments that `gen_prologue` takes from another register than `gen_call` has put
them into, which happens as soon as a function mixes floats with others.

`LostOnlyOnDeadPreds` also says what goes wrong: behind an if-else whose branches
both return there is a block that nothing reaches, and if a live block follows it,
the frontier walk leaves the tree and `-mem2reg` ends in an exception
(`Dominators.cpp:165`). The property holds because it happens nowhere else.

`FailsOnlyOnComparisons` names the four places where the result of a comparison is
not a number for the visitors: as an operand of an addition or multiplication of
integers, as an index and as the value that an int function returns it fails an
assertion (`(a < b) + 1`, `x[a < b]`, `return a < b;`); as an operand next to a float,
or returned by a float function, it goes through `sitofp` as an `i1`, whose 1 is -1
in LLVM, to which the text output goes (`signed`). Assignments, arguments, conditions
and comparisons extend it first. `MaxSize` bounds locals, blocks and operands together: three operands
show a value that is read, overwritten by the next operand and used, the depth of 4
an index computed by a call. Floats are counted in sixteenths and are exact here.

The domains hold the cases in which properties have content: undefined values
are data of their own (`Undef`), allocations in code nothing reaches are kept,
and programs with dead code behind a return take part in every run whose
statements include `return`.

`CopiesFollowPhis` names the one case in which the copies are wrong: two phis of a
block of which one reads the other (variables that change places in a loop). The second
copy then reads what the first has just written. That copies for the branch not
taken do no harm is part of what it shows, and depends on the shape of the graph (part 5).

`AbortsOnlyBehindReturn` is about the visitors' lack of a check: `return; x;` ends
the compiler with a failed assertion, and so does `{ return; } ; x;`, for leaving a block
scope does not leave the basic block. What adds no instruction may stand there:
`return; ;`, `return; 5;` and `return; { }` are built, and so is a `while` behind a `return`,
into blocks that nothing enters.

`ErasedUnused` is why `sweep` goes through its set twice: deleted instructions use each
other, and were each unlinked and freed at once (the mutant), the destructor of the first would
find a use by one that is still to come.

`PurityComplete` is written against `FuncInfo.hpp:12`, by which a function is pure unless it
writes a global variable, modifies an array passed to it or calls an impure one
(`WritesOutside`). The code is stricter, and the property names where (`StricterThanSaid`):
declarations and `main`, functions that take an array even if they only read it, and
functions that load from a global or from an address that was loaded. Such a function has
no side effect and is called impure all the same. `PuritySound` asks for the stricter notion,
because `LICM` moves calls of pure functions in front of a loop, which is only right if they
do not read what the loop writes.

`AstFollowsText` says nothing of texts that leave no tree, and nothing of texts with `//`, on
which the repository disagrees with itself: the rule's comment says that it matches a
single-line comment (`lexical_analyzer.l:66`), the test `FAIL_comment2.cminus` that there is no such
comment in the language, and the code drops the two characters and compiles the rest of the
line. `LineCommentHandled` allows either of the first two, and `line_comments` shows that
neither holds. Of a text with an error it claims less than the tests, which have an empty tree
for these (`tests/1-parser/output_standard/easy/FAIL_*`): `main` does not look at what `yyparse`
returns, and `RestIsDropped` only says that what is then compiled is the
declarations in front of the error, each of them as it stands in the text.

`PrintShowsTree` is up to `Shown`: the printer shows no types but those of numbers, and of a
float the six digits that `operator<<` writes, so that `1234567.` and `1234568.` differ and are
printed as `1.23457e+06` both.

`MaxArguments` is 5: an input, an output with its name, and two options that depend on each
other. The texts are chosen so that each construct of the grammar is drawn at least in one.

**Terminating runs.** All behaviours end (the compiler does), so deadlock is not
checked in runs of passes; `ReplaceTerminates`, `AnalysesEnd`, `PropagationEnds`
and `EliminationEnds` say that they end where they should.

**Fairness.** `WF_vars` of the whole next-state relation, nothing stronger: there
is one thread, and as long as it can take a step it does. Which step it takes
where the code leaves a choice (an order of addresses) is never assumed.

## 5. What is proved

The theorems hold for every value of the constants that meets the named
assumption of the module: any number of instructions, blocks, functions, and
any use graph, block graph and call graph.

**UseDefProofs** (`UseDefAssumption`: the kinds of values are disjoint, `Null` is
none of them). `TypeCorrect`, `UseListsExact`, `NoUseAfterFree`, `PhiLayout` and
`Refinement`. Exactness alone is not inductive. `remove_operand` renumbers the
uses behind the erased operand before it unregisters the operand itself, and a
neighbour that is the same value would be lost; the invariant therefore includes
that phi operands alternate between values and blocks (`PhiAlternates`), and
instructions whose operands are erased one by one are phis. And a stale use may
only mention the object whose destructor is running (`RefsOK`, `DeadBare`). The
lemmas `AppendExact`, `SetExact`, `EraseExact`, `ClearExact` say of each edit of
a vector that the use lists follow it, `OneUserStep` puts them together user by
user. The refinement shows that each step of a running job is a stutter of
`DefGraph` and its first step the substitution.

**BlockBuilderProofs** (`BuilderAssumption`): for programs of any
size and nesting, `GraphsWellFormed` and `AbortsBehindReturn`. A graph is `Sound` when its
lists have the right lengths and members, each edge is as often in the one list as in
the other (`ListsMatch`), and successors are the targets of the branch; one lemma for
each constructor (`AddBlockSound`, `AddJumpSound`, ...) says that it stays so and what
becomes of the open blocks. Neither theorem is inductive: whether a block is left
open is decided by what the visitors around still do. `BuilderInv` therefore says that
the entries of `todo` are in order, each block waited for being open, another one than
that inserted into, and waited for once (`Orderly`); that each open block is inserted
into or waited for (`Covered`); and that at the head of a list the block is open unless
the list ends in a return and elements that add nothing (`Building`). `EnterBranch` and `EnterBranches` show that the visitors
of branches and loops keep this, `CarryOrderly` that everything that waits is untouched.

The module goes on with a theory of paths, for any graph whose branches stay in it. `Closure` is a recursive function on sets; `ClosureIsAround` shows
that it is the least closed set, from the fact that of finitely many sets one is
smallest (`HasSmallest`), which stands for induction wherever a cycle has to be cut.
From it follow: dominance is an order in which the dominators of a block are a chain
(`DominatorsChain`), each live block but the entry has exactly one parent in the tree
(`HasParent`, `OneParent`), a walk over the tree comes to every live block
(`TreeReachesAll`, `TreeWalk`), and the theorem phi insertion stands on: a
block of S or of the iterated frontier of S is above a live block exactly if some path
brings one of S to it (`LaterIsAbove`, `AboveIsLater`), and where an edge ends
without a phi, nothing is defined between (`NothingBetween`, `NothingBefore`).

Its third part is about the shape of what the builder builds, which **BuildLoopsProofs**
carries to `LoopsReducible`. There is an order of the blocks, a number for each, in
which every edge goes forward, but those that go back to a block that dominates their
source (`Ranked`): it follows that a block of a cycle with the least number dominates
the rest (`OrderedCycles`). The order is not that of creation: what is inserted by
a nested statement belongs before the blocks its visitors will go on in. Each
constructor therefore makes room for the new blocks behind the one inserted into
(`ExtendRanked`, by `InOrder`: which new block comes first), and `Ahead` says of the
entries of `todo` that what they go on in comes later in the order than all that is open
before them, or, for the end of a loop, that its condition is on every path to the
blocks in between. A branch back then never adds a path around a dominator (`JumpAvoiding`).
`Ranked` also says that nothing goes back to the entry, and that the head of a loop is
reached by unconditional branches only (`Plain`).

An order says where control goes back, not where it stays. So each block that a loop is
tested in has a `Zone`, the blocks made for the loop: they are entered at that
block only, from one block outside, they are left only where the condition fails, and
the part made for the body is entered only where it holds. `Structured` puts order
and zones together with the visitors that are still active: a nested statement grows
the zones that its block is in and no others (`ZoneGrows`), and a jump of a visitor that
waits stays in each zone or goes back to its first block (`Fits`).

**BuildLoopsProofs** (`BuilderAssumption`) goes on to the dominator analysis as it is
computed: `DominatorTree`, `DominanceFrontiers` and `LostRunner`, from one invariant,
`DomInv`, which says for each sub-analysis what it has found out when it is interrupted.

- `dfs` (`Ordering`): the blocks being visited are a path from the entry with all their
  dominators on it. What comes out is a post order in which every edge goes to a lower
  number, or to a block that dominates its source (`PostOrder`): here reducibility
  comes in, without which the first answers need not climb in post order and `intersect`
  might never end.
- `create_idom` (`Iterating`): that each recorded answer is right is not inductive, for the
  first answers are wrong. What every round keeps is that the tree climbs in post order,
  that each block in it came behind one that branches to it, and that all that
  strictly dominates a block dominates what it hangs from (`Climbing`): answers are
  only too low. A round that changes nothing leaves each block where all its
  predecessors in the tree have a common block (`Settled`), and such a tree is
  that of the immediate dominators (`AllSettled`). `intersect` returns the lowest
  block on both ways to the root (`Meeting`), `NewIdom` the lowest on all (`NewIdomMeets`).
- `create_dominance_frontier` (`Framing`): the runner passes exactly the dominators of a
  predecessor that do not dominate the join, or is lost (`WalkIs`, `WalkFromDead`).
- `create_dom_dfs_order` (`Numbering`): a block that has been left has the numbers of all
  that it dominates between its two, one that is being visited dominates whatever was entered after it.

The recursive functions of the model, the climbing and the walks, are unfolded by `Recursion`:
a function that recurs on smaller arguments, by a measure in Nat, meets its own equation.

From there it goes on to `LoopDetection`: `NaturalLoops`, `ExactNesting`,
`UnconditionalEntries`, and the termination argument `WalkEnds`. That `preds` may name dead
blocks would spoil the loops; but an analysis that has ended has been to every
predecessor of a join, and a dead one would have lost the runner (`CleanStep`): what the loop
detection is run on is `Clean`. A natural loop is the least set that is closed under going
back (`NaturalLeast`), two of them are apart or one holds the other (`LoopsShare`), and, by the
zones, control leaves a loop that is inside another one only for a block of that other
one (`InnerFirst`). `Finding` says what is right between any two steps of the walk:

- headers come bottom up, each with all its latches, and all that are missing are still in
  the list (`Headed`);
- a block is claimed by the first loop that holds it, a loop by the first other one that
  holds its header (`Claimed`, `Nested`), which lists it once (`Listed`);
- all loops but the last are complete (`Whole`); the last holds only blocks of its own loop,
  holds a loop that it meets entirely, and whatever branches into what it holds is in it or in
  the work list (`Walking`).

The question the code comments on, whether the loop that is met should be asked for the
outermost one around it, is `MetIsTop`: the loop that was first to claim a block of the work
list is the one being discovered, or one of its sub-loops, or has no parent. A loop with
another parent would have been left into that parent, which the walk has then met first. Then a step that finds neither a free block nor a free loop shortens the
list (`PassKeeps`), and the others use one up (`Free`).

**PromotedRunProofs** (`BuilderAssumption`, `VarAssumption`: a function has finitely many
variables, and `AccessAssumption`: what the abstract instructions load and store) proves
promotion correct for functions of any shape and size: `RenamingFailure`, `PhiOperands`,
`RenameStack`, `PromotionPreservesLoads` and `CopiesPreserveLoads`. What these
state is about moments at which the stacks they depend on are gone: `rename` pops them,
and the function runs only when all of them are empty. `PInv` therefore speaks of a ghost
`W`: `W[b][i][v]` is the stack of `v` at instruction `i` of block `b`, and is kept. Of each
point that `rename` has been at it says that the stack is that of the point before with
what has been added (`Steps`) and as high as what the blocks above have pushed (`Grown`),
that it is empty exactly where nothing above defines `v` (`Filled`), and that the value on
top is defined on every path to the point (`Known`). `Walking` is the recursion itself
(path, blocks entered, instruction), `Paired` the operands that phis have from the blocks
that are finished. While the function runs, `Executing` says that the register on top of
`W[b][i][v]` holds the datum of `v`. Execution follows branches and not the tree: along
an edge to a block with a phi for `v` the phi takes the value from the operand of that
edge, and without one the stack at the end of the edge is the one the block was entered
with (`StackPasses`, by `NothingBetween`). An instruction overwrites no register that is
still needed because each number is that of one instruction (`Numbered`) and `Known` holds.

`Copying` says the same of the slots in the code that `CodeGen` makes, provided that no copy
reads what another has overwritten (`NoneOverwritten`). In front of a branch there are copies
for both successors, one by one, and that they do what the phis of the one taken
do at once takes three arguments. Among the copies for one block, each reads a slot that
those before it have not changed (`AllAtOnce`). What the copies for the first successor
change, those for the second do not read: an operand that is a phi of the
first successor would be defined in a block on all paths to this one, which then branches back
(`CopiesAre`). And a value from above that is still needed has a slot of its own for the same
reason (`BranchCopies`). Both rest on the shape of what the builder builds: a block that
branches back to a dominator has no second successor (`Successors`, from `Structured`). In
other graphs of blocks the copies for an edge that is not taken can destroy a value.

**DeadCodeProofs** (`DeadCodeAssumption`: blocks are numbered). `DeadCodeInv` adds
four facts to the types: operands of marked instructions that have left the
queue are marked (`Marking`), everything marked is in every set that is closed
under operands and has the critical instructions (`Needed`), a round that has
changed nothing so far found no block to erase (`QuietRound`), and while the loops of `sweep`
run (`Unlinking`), what is to be deleted is not used by what is kept, and the instructions that the first
loop has been through have no operands left. From these:
`MarkingIsComplete`, `MarkingIsMinimal`, `SweepIsSafe`, `NothingDeadIsLeft`.

**FuncInfoProofs** (`FuncInfoAssumption`: addresses end where they start).
`FuncInfoInv` says that only callers of queued functions may still be wrong
(`CallersKnown`), that a function with a reason of its own is known at once (`ReasonsKnown`), and that
every impure function is in each set closed under callers (`Justified`). From
these: `PurityIsSound`, `PurityIsComplete`, `FunctionsQueuedOnce`.

**FunctionRunProofs** (`StackFrameAssumption`: sizes are positive; `FunctionRunAssumption`:
the types and areas that are drawn are among those of `StackFrame`). `FrameIsDisjoint`
needs that values lie below each other in the order they were entered, and that none of
them reaches below the offset (`Descending`): a new slot begins where the offset ends.
The rounding of the frame is the only fact about division. `RunFrameIsDisjoint` carries it over to the run: every step
of `FunctionRun` is a step of `StackFrame` or leaves the frame alone.

**ExpressionsProofs** (`ExpressionsAssumption`: what the declarations and functions of a
well-typed program are) is about programs of any length and expressions of any
depth: `NamesResolved`, `BuiltAgrees` and `FailureExplained`. Names come first, and on
their own. `Scoped` says that blocks are numbered as they are opened (`Opened`), that the
map of an open block has exactly the variables declared in it (`Bindings`), and that
those of an inner block were declared later (`InnerLater`): then the innermost entry
that `find` returns is the latest declaration in an open block (`ScopedResolves`).

The other two are one invariant, `AgreeInv`. That values agree is inductive only together
with what each visitor may hold while it waits for a child: `KidsAt` gives for every child
of every kind of visitor the values that it can be, with the source's meaning next to
them (an address where the term loads only when it is turned, an array where a call
passes one, a converted argument behind `ready`), `StackOK` puts this together along the
recursion, and `Visiting` adds what the flag is for: `inCall` is set exactly when the next
thing to come is an array for a call (`ArrayNext`). `Stored` is why loads find something:
both memories are the same and have every cell of every variable. Each action ends in
one of three ways, and has its lemma from one of the three: it hands a value to the
visitor above (`DeliverAgrees`), turns a child in place (`ReadyAgrees`) or stops
the program (`StoppedAgrees`).

## 6. What is only checked

- The code motion of `hoisting`. (The library's induction theorems cannot be used with the
  installed provers; that a set of numbers, or of finite sets, has a least element
  can (`HasLeast`, `HasSmallest`), and stands for induction where a proof above needs it.)
- Liveness under fairness: that the analyses end, of which `WalkEnds` proves the measure, and
  the other properties with `~>`.
- `CodeFollowsIR`: its proof would be one of a compiler, instruction by instruction.
- `SourceRun` and the modules of the frontend have RECURSIVE operators and are for TLC
  only: that transformation and reading agree is an induction over trees.

## 7. What is left out

- Names, types and constants in the models of passes: an instruction is what it
  loads, stores, uses or calls.
- Memory of arrays: a global and an array element are one cell that `Mem2Reg`
  does not promote.
- The insertion of the edge from a preheader to its header, which the header
  lists twice, is modelled, but no property speaks of the lists behind `LICM`:
  the passes that follow read the branches or tolerate a repeated predecessor.
- Of expressions: division (built like multiplication), programs that are not well
  typed, the limits of `int` and the rounding of `float`.
- Of `CodeGen`: the code that `run` puts behind a
  function for its phis and that nothing reaches, NaN, division, the digits of
  constants (`load_large_int32`), and frames beyond `MaxFrame`, where `unsigned`
  and `int` would differ.
- The text output of lightir and the names in it, the interning of types and
  constants, and the runtime library: nothing they keep changes after construction.
- Of the frontend: lines and columns, which only messages show (`float` counts four
  columns); names of thirty letters and more, which `strncpy` leaves unterminated;
  numerals of ten digits that fit into `int`, floats of 39 digits, and those too small for one; that a
  float is binary, which can be seen from the eighth digit on; help and error
  texts (the help lists `-dump-json`, which is no option); the programs `lexer` and `parser`.
- `DeadCode::sweep_globally` and `replace_use_with_if`, which nothing calls.
