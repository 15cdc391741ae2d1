------------------------------ MODULE Reading ------------------------------
(***************************************************************************)
(* What a text of C-minus means as a tree, said by splitting: an           *)
(* expression is split at the operator that binds loosest, a list where a  *)
(* declaration or statement ends, an if at the else that is nearest.  It   *)
(* is read from tokens and knows neither items nor stacks.                 *)
(***************************************************************************)
EXTENDS SyntaxTree, Lexer, FiniteSetsExt

From(ts, i) == SubSeq(ts, i, Len(ts))
UpTo(ts, i) == SubSeq(ts, 1, i)
Kinds(ts) == [i \in DOMAIN ts |-> ts[i].kind]

\* Is this one word, number, operator of two characters or blank?
IsWord(ps) == \A i \in DOMAIN ps : ps[i] \in Words
IsInteger(ps) == \A i \in DOMAIN ps : ps[i] \in Numerals
IsFloat(ps) ==
    /\ Len(ps) > 1 /\ Cardinality({i \in DOMAIN ps : ps[i] = "."}) = 1
    /\ \A i \in DOMAIN ps : ps[i] \in Numerals \cup {"."}
IsPair(ps) == Len(ps) = 2 /\ ps[1] \o ps[2] \in Pairs
IsBlank(ps) == \A i \in DOMAIN ps : ps[i] = Blank

\* The tokens of a text: comments are gaps, and from the left each lexeme is as
\* long as it can be.  Does // open a comment that goes on to the end of the line?
\* If not it is a token no grammar has.
RECURSIVE Lexemes(_, _)
Lexemes(ps, lines) ==
    IF ps = <<>> THEN <<>>
    ELSE IF Len(ps) > 1 /\ ps[1] \o ps[2] = OpenComment
    THEN LET ends == {i \in 4..Len(ps) : ps[i - 1] = "*" /\ ps[i] = "/"}
         IN  IF ends = {} THEN <<>> ELSE Lexemes(From(ps, Min(ends) + 1), lines)
    ELSE IF lines /\ Len(ps) > 1 /\ ps[1] \o ps[2] = LineComment
    THEN LET ends == {i \in DOMAIN ps : ps[i] = Newline}
         IN  IF ends = {} THEN <<>> ELSE Lexemes(From(ps, Min(ends)), lines)
    ELSE LET whole(w) == IsWord(w) \/ IsInteger(w) \/ IsFloat(w) \/ IsPair(w) \/ IsBlank(w)
             n == Max({1} \cup {j \in DOMAIN ps : whole(UpTo(ps, j))})
             w == UpTo(ps, n)
             text == FoldLeft(LAMBDA t, p : t \o p, "", w)
             token(kind) == <<[kind |-> kind, text |-> text]>>
         IN  (IF \E l \in Literal : l[2] = text THEN token((CHOOSE l \in Literal : l[2] = text)[1])
              ELSE CASE text = LineComment -> token("LINECOMMENT")
                     [] IsWord(w)    -> token("IDENTIFIER")
                     [] IsInteger(w) -> token("INTEGER")
                     [] IsFloat(w)   -> token("FLOATPOINT")
                     [] OTHER        -> <<>>)
             \o Lexemes(From(ps, n + 1), lines)

Openers == {"LPARENTHESE", "LBRACKET", "LBRACE"}
Closers == {"RPARENTHESE", "RBRACKET", "RBRACE"}

\* How many brackets are open behind token i.
Depth(ts, i) ==
    Cardinality({j \in 1..i : ts[j].kind \in Openers})
      - Cardinality({j \in 1..i : ts[j].kind \in Closers})

\* Where a token of these kinds stands outside of all brackets.
Outside(ts, kinds) == {i \in DOMAIN ts : ts[i].kind \in kinds /\ Depth(ts, i) = 0}

\* The bracket that closes the one at i.
Matching(ts, i) == Min({j \in i..Len(ts) : Depth(ts, j) = Depth(ts, i) - 1})

\* The parts of a list, each ended by End of what is left; and those between commas.
RECURSIVE Parts(_, _), End(_)
Parts(ts, top) ==
    IF ts = <<>> THEN <<>>
    ELSE LET e == IF top THEN Min(Outside(ts, {"SEMICOLON", "RBRACE"})) ELSE End(ts)
         IN  <<UpTo(ts, e)>> \o Parts(From(ts, e + 1), top)

End(ts) ==
    CASE ts[1].kind = "LBRACE" -> Matching(ts, 1)
      [] ts[1].kind \in {"IF", "WHILE"} ->
            LET head == Matching(ts, 2)
                body == head + End(From(ts, head + 1))
            IN  IF ts[1].kind = "IF" /\ body < Len(ts) /\ ts[body + 1].kind = "ELSE"
                THEN body + 1 + End(From(ts, body + 2)) ELSE body
      [] OTHER -> Min(Outside(ts, {"SEMICOLON"}))

RECURSIVE Items(_)
Items(ts) ==
    IF ts = <<>> THEN <<>>
    ELSE LET commas == Outside(ts, {"COMMA"})
         IN  IF commas = {} THEN <<ts>>
             ELSE <<UpTo(ts, Min(commas) - 1)>> \o Items(From(ts, Min(commas) + 1))

ReadAll(parts, Read(_)) == [i \in DOMAIN parts |-> Read(parts[i])]

-----------------------------------------------------------------------------
RECURSIVE ReadExpression(_)

ReadVar(ts) ==
    [Ast("var", IF Len(ts) = 1 THEN <<>> ELSE <<ReadExpression(SubSeq(ts, 3, Len(ts) - 1))>>)
        EXCEPT !.id = ts[1].text]

ReadFactor(ts) ==
    CASE ts[1].kind = "LPARENTHESE" -> ReadExpression(SubSeq(ts, 2, Len(ts) - 1))
      [] ts[1].kind = "INTEGER"     -> Num("TYPE_INT", ts[1].text)
      [] ts[1].kind = "FLOATPOINT"  -> Num("TYPE_FLOAT", ts[1].text)
      [] Len(ts) > 1 /\ ts[2].kind = "LPARENTHESE" ->
            [Ast("call", ReadAll(Items(SubSeq(ts, 3, Len(ts) - 1)), ReadExpression))
                EXCEPT !.id = ts[1].text]
      [] OTHER -> ReadVar(ts)

\* Operators of one level are taken from the left: the last one splits.
RECURSIVE ReadTerm(_), ReadSum(_)
Split(is, ts, at, Left(_), Right(_)) ==
    IF at = {} THEN Ast(is, <<Right(ts)>>)
    ELSE [Ast(is, <<Left(UpTo(ts, Max(at) - 1)), Right(From(ts, Max(at) + 1))>>)
             EXCEPT !.op = ts[Max(at)].text]

ReadTerm(ts) == Split("term", ts, Outside(ts, {"MUL", "DIV"}), ReadTerm, ReadFactor)
ReadSum(ts) == Split("additive-expression", ts, Outside(ts, {"ADD", "SUB"}), ReadSum, ReadTerm)

Relational == {"LTE", "LT", "GT", "GTE", "EQ", "NEQ"}

\* An assignment is taken from the right: the first one splits.
ReadExpression(ts) ==
    LET assign == Outside(ts, {"ASSIGN"})
    IN  IF assign = {} THEN Split("simple-expression", ts, Outside(ts, Relational), ReadSum, ReadSum)
        ELSE Ast("assign-expression", <<ReadVar(UpTo(ts, Min(assign) - 1)),
                                        ReadExpression(From(ts, Min(assign) + 1))>>)

-----------------------------------------------------------------------------
RECURSIVE ReadStatement(_)

TypeNamed(t) == CASE t.kind = "INT" -> "TYPE_INT" [] t.kind = "FLOAT" -> "TYPE_FLOAT"
                  [] t.kind = "VOID" -> "TYPE_VOID"

\* A variable or parameter declared void is taken for a float, as AST takes it.
TypeOfVariable(t) == IF TypeNamed(t) = "TYPE_VOID" THEN "TYPE_FLOAT" ELSE TypeNamed(t)

ReadVariable(ts) ==
    [Ast("var-declaration", IF Len(ts) = 3 THEN <<>> ELSE <<Num("TYPE_INT", ts[4].text)>>)
        EXCEPT !.type = TypeOfVariable(ts[1]), !.id = ts[2].text]

ReadParam(ts) ==
    [Ast("param", <<>>) EXCEPT !.type = TypeOfVariable(ts[1]), !.id = ts[2].text,
                               !.isarray = Len(ts) = 4]

ReadStatement(ts) ==
    CASE ts[1].kind = "LBRACE" ->
            Ast("compound-stmt", ReadAll(Parts(SubSeq(ts, 2, Len(ts) - 1), FALSE), ReadStatement))
      [] ts[1].kind \in {"INT", "FLOAT", "VOID"} -> ReadVariable(ts)
      [] ts[1].kind = "IF" ->
            LET head == Matching(ts, 2)
                body == head + End(From(ts, head + 1))
            IN  Ast("selection-stmt",
                    <<ReadExpression(SubSeq(ts, 3, head - 1)), ReadStatement(SubSeq(ts, head + 1, body))>>
                      \o IF body = Len(ts) THEN <<>> ELSE <<ReadStatement(From(ts, body + 2))>>)
      [] ts[1].kind = "WHILE" ->
            LET head == Matching(ts, 2)
            IN  Ast("iteration-stmt", <<ReadExpression(SubSeq(ts, 3, head - 1)),
                                        ReadStatement(From(ts, head + 1))>>)
      [] ts[1].kind = "RETURN" ->
            Ast("return-stmt", IF Len(ts) = 2 THEN <<>>
                               ELSE <<ReadExpression(SubSeq(ts, 2, Len(ts) - 1))>>)
      [] OTHER ->
            Ast("expression-stmt", IF Len(ts) = 1 THEN <<>> ELSE <<ReadExpression(UpTo(ts, Len(ts) - 1))>>)

ReadDeclaration(ts) ==
    IF ts[3].kind # "LPARENTHESE" THEN ReadVariable(ts)
    ELSE LET close == Matching(ts, 3)
             params == SubSeq(ts, 4, close - 1)
         IN  [Ast("fun-declaration",
                  (IF Kinds(params) = <<"VOID">> THEN <<>> ELSE ReadAll(Items(params), ReadParam))
                     \o <<ReadStatement(From(ts, close + 1))>>)
                 EXCEPT !.type = TypeNamed(ts[1]), !.id = ts[2].text]

ReadProgram(ts) == Ast("program", ReadAll(Parts(ts, TRUE), ReadDeclaration))

-----------------------------------------------------------------------------
\* What the printer shows of a tree: no types but those of numbers, and of a float
\* six digits.
RECURSIVE Shown(_)
Shown(n) == [n EXCEPT !.type = IF n.is = "num" THEN @ ELSE "",
                      !.val = IF n.is = "num" /\ n.type = "TYPE_FLOAT" THEN SixDigits(@) ELSE @,
                      !.kids = [i \in DOMAIN n.kids |-> Shown(n.kids[i])]]

\* What printed lines say: the children of a line are the lines two deeper, up to
\* the next that is not deeper.
RECURSIVE ReadLines(_, _)
ReadLines(lines, depth) ==
    IF lines = <<>> THEN <<>>
    ELSE LET next == {i \in 2..Len(lines) : lines[i][1] <= depth}
             end == IF next = {} THEN Len(lines) ELSE Min(next) - 1
             said == lines[1][2]
             kids == ReadLines(SubSeq(lines, 2, end), depth + 2)
             node == CASE said[1] = "num" ->
                             [Ast("num", <<>>) EXCEPT !.type = said[2], !.val = said[3]]
                       [] said[1] \in {"var", "var-declaration", "fun-declaration", "call"} ->
                             [Ast(said[1], kids) EXCEPT !.id = said[2]]
                       [] said[1] = "param" ->
                             [Ast(said[1], kids) EXCEPT !.id = said[2], !.isarray = said[3]]
                       [] said[1] \in {"simple-expression", "additive-expression", "term"}
                          /\ Len(said) = 2 -> [Ast(said[1], kids) EXCEPT !.op = said[2]]
                       [] OTHER -> Ast(said[1], kids)
         IN  IF lines[1][1] # depth THEN <<>> ELSE <<node>> \o ReadLines(From(lines, end + 1), depth)
=============================================================================
