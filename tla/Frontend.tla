------------------------------ MODULE Frontend ------------------------------
(***************************************************************************)
(* cminusfc from its arguments to the syntax tree: the command line is     *)
(* typed and checked; the text is drawn piece by piece while the scanner   *)
(* reads it, and every token goes to the parser at once; then AST          *)
(* transforms the tree, and -emit-ast prints it.  For the other products   *)
(* whether the text is one the parser accepts is left open, and the passes *)
(* main has added run one after the other; what they do is for the other   *)
(* modules.                                                                *)
(*                                                                         *)
(* yyparse's answer is ignored.  The tree is what the rule of program left *)
(* in gt->root; bison reduces by that rule in front of any token that      *)
(* cannot go on behind a declaration, so an error there leaves the         *)
(* declarations in front of it.  An error anywhere else leaves gt->root as *)
(* malloc gave it, and what then happens is undefined.                     *)
(***************************************************************************)
EXTENDS Grammar, Lexer, Reading, Driver

CONSTANTS
    Arguments, MaxArguments,    \* what is typed, and how much
    Pieces,                     \* what texts are made of
    Texts                       \* records: pieces that open a text, a set to
                                \* draw from, how often, and pieces that close it

VARIABLES
    phase,
    argv,       \* the command line so far
    config,
    passes,     \* the passes still to run
    source,     \* the text still to come
    text,       \* the pieces read
    lexeme,     \* the pieces of the lexeme being scanned
    comment,    \* "no", or in a comment: behind a "star" or "not"
    parser,     \* stack of states and nodes, root, answer, tokens shifted
    ast, out

drvars == <<argv, config, passes>>
scvars == <<source, text, lexeme, comment, parser>>
vars == <<phase, drvars, scvars, ast, out>>

FreshParser ==
    [stack |-> <<[state |-> 1, node |-> Leaf("")]>>, root |-> <<>>, answer |-> "more", shifted |-> 0]

Init ==
    /\ phase = "command" /\ argv = <<>> /\ config = FreshConfig /\ passes = <<>>
    /\ source = [open |-> <<>>, draw |-> {}, most |-> 0, close |-> <<>>]
    /\ text = <<>> /\ lexeme = Nothing /\ comment = "no" /\ parser = FreshParser
    /\ ast = <<>> /\ out = <<>>

-----------------------------------------------------------------------------
Type ==
    /\ phase = "command" /\ Len(argv) < MaxArguments
    /\ \E a \in Arguments : argv' = Append(argv, a)
    /\ UNCHANGED <<phase, config, passes, scvars, ast, out>>

\* Config's constructor.
Configure ==
    /\ phase = "command"
    /\ config' = Config(argv)
    /\ phase' = IF config'.exit = "no" THEN "configured" ELSE config'.exit
    /\ UNCHANGED <<argv, passes, scvars, ast, out>>

\* parse() opens the file and starts scanner and parser.
Open ==
    /\ phase = "configured" /\ config.emitast
    /\ phase' = "scan"
    /\ argv' = <<>> /\ config' = FreshConfig
    /\ source' \in Texts
    /\ UNCHANGED <<passes, text, lexeme, comment, parser, ast, out>>

\* The other products: the tree, if there is one, becomes a module.
Build ==
    /\ phase = "configured" /\ ~config.emitast
    /\ \/ phase' = "passes" /\ passes' = Passes(config)
       \/ phase' = "undefined" /\ UNCHANGED passes
    /\ UNCHANGED <<argv, config, scvars, ast, out>>

RunPass ==
    /\ phase = "passes" /\ passes # <<>>
    /\ passes' = Tail(passes)
    /\ UNCHANGED <<phase, argv, config, scvars, ast, out>>

Write ==
    /\ phase = "passes" /\ passes = <<>>
    /\ phase' = "written" /\ out' = <<config.output, Product(config)>>
    /\ UNCHANGED <<drvars, scvars, ast>>

-----------------------------------------------------------------------------
\* One reduction: the nodes of the right side become the children of a node.
Reduced(p, prod) ==
    LET n     == Len(Right(prod))
        base  == SubSeq(p.stack, 1, Len(p.stack) - n)
        kids  == [i \in 1..n |-> p.stack[Len(base) + i].node]
        node  == Node(Left(prod), kids)
    IN  IF Left(prod) = "program" THEN [p EXCEPT !.root = <<node>>]
        ELSE [p EXCEPT !.stack = Append(base, [state |-> Moves[Last(base).state][Left(prod)],
                                               node  |-> node])]

\* yyparse, given one more token.
RECURSIVE Parsed(_, _)
Parsed(p, token) ==
    LET k == Last(p.stack).state
    IN  IF p.root # <<>> THEN [p EXCEPT !.answer = IF token.kind = EndOfText THEN "yes" ELSE "error"]
        ELSE IF Shifts(k, token.kind)
        THEN [p EXCEPT !.stack = Append(@, [state |-> Moves[k][token.kind], node |-> Leaf(token.text)]),
                       !.shifted = @ + 1]
        ELSE IF Ready(k) = {} THEN [p EXCEPT !.answer = "error"]
        ELSE Parsed(Reduced(p, Reduction(k, token.kind)), token)

ParsedAll(p, tokens) ==
    FoldLeft(LAMBDA q, t : IF q.answer = "more" THEN Parsed(q, t) ELSE q, p, tokens)

\* The piece comes next in the text.
Comes(piece) ==
    \/ /\ source.open # <<>> /\ piece = Head(source.open)
       /\ source' = [source EXCEPT !.open = Tail(@)]
    \/ /\ source.open = <<>> /\ source.most > 0 /\ piece \in source.draw
       /\ source' = [source EXCEPT !.most = @ - 1]
    \/ /\ source.open = <<>> /\ source.close # <<>> /\ piece = Head(source.close)
       /\ source' = [source EXCEPT !.open = Tail(source.close), !.close = <<>>, !.most = 0]

\* In a comment only its end counts.
ScanComment(piece) ==
    /\ comment' = CASE piece = "*" -> "star"
                    [] piece = "/" /\ comment = "star" -> "no"
                    [] OTHER -> "not"
    /\ UNCHANGED <<lexeme, parser>>

\* The lexeme grows, or it is complete and its token goes to the parser.
ScanLexeme(piece) ==
    LET longer == Joined(lexeme, piece)
    IN  /\ comment' = IF longer.text = OpenComment THEN "not" ELSE "no"
        /\ lexeme' = CASE longer.text = OpenComment -> Nothing
                       [] longer = Nothing -> Begun(piece)
                       [] OTHER -> longer
        /\ parser' = IF longer = Nothing THEN ParsedAll(parser, TokensOf(lexeme)) ELSE parser

Scan ==
    /\ phase = "scan" /\ parser.answer = "more"
    /\ \E piece \in Pieces :
        /\ Comes(piece)
        /\ text' = Append(text, piece)
        /\ IF comment = "no" THEN ScanLexeme(piece) ELSE ScanComment(piece)
    /\ UNCHANGED <<phase, drvars, ast, out>>

EndText ==
    /\ phase = "scan" /\ parser.answer = "more"
    /\ source.open = <<>> /\ source.close = <<>>
    /\ parser' = ParsedAll(parser, Append(TokensOf(lexeme), [kind |-> EndOfText, text |-> ""]))
    /\ lexeme' = Nothing
    /\ UNCHANGED <<phase, drvars, source, text, comment, ast, out>>

-----------------------------------------------------------------------------
\* AST's constructor: transform_node_iter on gt->root.
MakeAst ==
    /\ phase = "scan" /\ parser.answer # "more"
    /\ IF parser.root = <<>> THEN phase' = "undefined" /\ UNCHANGED ast
       ELSE IF \E n \in NumbersIn(Transform(parser.root[1])) : OutOfRange(n)
       THEN phase' = "terminated" /\ UNCHANGED ast
       ELSE phase' = "ast" /\ ast' = Transform(parser.root[1])
    /\ UNCHANGED <<drvars, scvars, out>>

PrintAst ==
    /\ phase = "ast"
    /\ phase' = "printed"
    /\ out' = Visit(FreshPrinter, ast).out
    /\ UNCHANGED <<drvars, scvars, ast>>

Next ==
    \/ Type \/ Configure \/ Open \/ Build \/ RunPass \/ Write
    \/ Scan \/ EndText \/ MakeAst \/ PrintAst

Spec == Init /\ [][Next]_vars

-----------------------------------------------------------------------------
\* // stands outside of comments.  What it means is disputed, see LineCommentHandled.
HasLineComment(tokens) == \E i \in DOMAIN tokens : tokens[i].kind = "LINECOMMENT"

\* Of a text the parser accepts the tree is that of the whole text.
AcceptedIsRead(tokens) == parser.answer = "yes" => ast = ReadProgram(tokens)

\* Of a text it does not accept there should be no tree: the trees that
\* tests/1-parser/output_standard/easy has for FAIL_*.cminus are empty.  main goes on
\* all the same, with the declarations in front of the error if they end there
\* (syntax_analyzer.y:101, main.cpp:52); these at least are read as they stand.
RestIsDropped(tokens) ==
    parser.answer = "error" => ast = ReadProgram(UpTo(tokens, parser.shifted))

\* The syntax tree says what the text says: operators bind and associate, lists
\* keep their order, an else goes to the nearest if, numerals keep their value,
\* comments are gaps, lexemes are as long as they can be.
AstFollowsText ==
    phase \in {"ast", "printed"} =>
        LET tokens == Lexemes(text, FALSE)
        IN  ~HasLineComment(tokens) => AcceptedIsRead(tokens) /\ RestIsDropped(tokens)

\* With // in a text there is no tree, as FAIL_comment2.cminus:1 has it ("cminus dont
\* support comment like that"), or the rest of its line is a comment, as
\* lexical_analyzer.l:66 has it ("matches a single-line comment").
LineCommentHandled ==
    phase \in {"ast", "printed"} /\ HasLineComment(Lexemes(text, FALSE))
        => ast = ReadProgram(Lexemes(text, TRUE))

\* What is printed can be read back: depth and words of the lines determine the
\* tree, but for the types and what six digits leave out of a float.
PrintShowsTree == phase = "printed" => ReadLines(out, 0) = <<Shown(ast)>>

\* The order of the options is irrelevant to a command line that is accepted.
ArgumentOrderIrrelevant == phase = "configured" => OrderIrrelevant(argv)
=============================================================================
