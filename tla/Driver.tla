------------------------------ MODULE Driver ------------------------------
(***************************************************************************)
(* The command line of cminusfc and what main does by it                   *)
(* (src/cminusfc/main.cpp).  No argument is the empty string.              *)
(***************************************************************************)
EXTENDS Naturals, SequencesExt, FiniteSetsExt

CONSTANT Recognised     \* the file names that end in .cminus

None == ""

FreshConfig ==
    [input |-> None, output |-> None, emitast |-> FALSE, emitasm |-> FALSE, emitllvm |-> FALSE,
     mem2reg |-> FALSE, licm |-> FALSE, exit |-> "no"]

\* -o needs a name behind it, and there is one -o.
SetOutput(c, args) ==
    IF c.output = None /\ Len(args) > 1 THEN [c EXCEPT !.output = args[2]]
    ELSE [c EXCEPT !.exit = "error"]

\* Mutant: what -licm needs is looked for before all arguments are read.
LicmChecked(c) == IF c.mem2reg THEN [c EXCEPT !.licm = TRUE] ELSE [c EXCEPT !.exit = "error"]

Licm(c) == [c EXCEPT !.licm = TRUE]

Argument(c, args) ==
    CASE args[1] \in {"-h", "--help"} -> [c EXCEPT !.exit = "help"]
      [] args[1] = "-o"         -> SetOutput(c, args)
      [] args[1] = "-emit-ast"  -> [c EXCEPT !.emitast = TRUE]
      [] args[1] = "-S"         -> [c EXCEPT !.emitasm = TRUE]
      [] args[1] = "-emit-llvm" -> [c EXCEPT !.emitllvm = TRUE]
      [] args[1] = "-mem2reg"   -> [c EXCEPT !.mem2reg = TRUE]
      [] args[1] = "-licm"      -> Licm(c)
      [] OTHER -> IF c.input = None THEN [c EXCEPT !.input = args[1]]
                  ELSE [c EXCEPT !.exit = "error"]

Width(args) == IF args[1] = "-o" THEN 2 ELSE 1

\* Config::parse_cmd_line; print_help and print_err leave the program.
RECURSIVE ParseCmdLine(_, _)
ParseCmdLine(c, args) ==
    IF args = <<>> \/ c.exit # "no" THEN c
    ELSE ParseCmdLine(Argument(c, args), SubSeq(args, Width(args) + 1, Len(args)))

\* Config::check; the default output has the name of the input, and an ending.
Check(c) ==
    IF c.exit # "no" THEN c
    ELSE IF \/ c.input \notin Recognised
            \/ c.emitllvm /\ c.emitasm
            \/ ~c.emitllvm /\ ~c.emitasm /\ ~c.emitast
            \/ c.licm /\ ~c.mem2reg
         THEN [c EXCEPT !.exit = "error"]
    ELSE IF c.output = None
         THEN [c EXCEPT !.output = IF c.emitllvm THEN ".ll" ELSE IF c.emitasm THEN ".s" ELSE "stem"]
    ELSE c

Config(args) == Check(ParseCmdLine(FreshConfig, args))

Accepted(args) == Config(args).exit = "no"

\* The passes main adds, in the order they run.
Passes(c) ==
    (IF c.mem2reg THEN <<"Mem2Reg", "DeadCode">> ELSE <<>>)
      \o (IF c.licm THEN <<"LoopInvariantCodeMotion", "DeadCode">> ELSE <<>>)

\* What goes to the output file; -emit-ast goes to the standard output and
\* leaves every other wish alone.
Product(c) ==
    IF c.emitast THEN "ast" ELSE IF c.emitllvm THEN "module" ELSE "assembly"

-----------------------------------------------------------------------------
\* The arguments as an options table would group them.
RECURSIVE Units(_)
Units(args) ==
    IF args = <<>> THEN <<>>
    ELSE <<SubSeq(args, 1, Width(args))>> \o Units(SubSeq(args, Width(args) + 1, Len(args)))

\* A command line that is accepted in one order is accepted in every order of
\* its options, and means the same.
OrderIrrelevant(args) ==
    Accepted(args) =>
        \A order \in Permutations(DOMAIN Units(args)) :
            Config(FlattenSeq([i \in DOMAIN Units(args) |-> Units(args)[order[i]]])) = Config(args)
=============================================================================
