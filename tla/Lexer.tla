------------------------------- MODULE Lexer -------------------------------
(***************************************************************************)
(* The scanner that flex makes of src/parser/lexical_analyzer.l.  A text   *)
(* is a sequence of pieces: a word of letters, a digit group, or a single  *)
(* character.  The scanner holds the pieces of the lexeme it is in and     *)
(* takes the longest match: it goes on while some rule matches what it     *)
(* holds with one piece more.  No rule needs to go back, because of all    *)
(* beginnings of a match only that of != matches no rule itself.           *)
(* Lines and columns, which only messages use, are left out.               *)
(***************************************************************************)
EXTENDS Naturals, Sequences

CONSTANTS Words, Numerals   \* the pieces made of letters, and of digits

\* What stands for itself.
Literal == {
    <<"ADD", "+">>, <<"SUB", "-">>, <<"MUL", "*">>, <<"DIV", "/">>, <<"LT", "<">>,
    <<"LTE", "<=">>, <<"GT", ">">>, <<"GTE", ">=">>, <<"EQ", "==">>, <<"NEQ", "!=">>,
    <<"ASSIGN", "=">>, <<"SEMICOLON", ";">>, <<"COMMA", ",">>, <<"LPARENTHESE", "(">>,
    <<"RPARENTHESE", ")">>, <<"LBRACKET", "[">>, <<"RBRACKET", "]">>, <<"LBRACE", "{">>,
    <<"RBRACE", "}">>, <<"IF", "if">>, <<"ELSE", "else">>, <<"WHILE", "while">>,
    <<"RETURN", "return">>, <<"INT", "int">>, <<"VOID", "void">>, <<"FLOAT", "float">>,
    <<"ERROR", ".">> }

Blank == " "
Newline == "\n"
OpenComment == "/*"
LineComment == "//"
Pairs == {"<=", ">=", "==", "!=", OpenComment, LineComment}

Nothing == [text |-> "", class |-> "none"]

ClassOf(piece) ==
    CASE piece \in Words    -> "word"
      [] piece \in Numerals -> "digits"
      [] piece = "."        -> "point"
      [] piece = Blank      -> "blank"
      [] OTHER              -> "sign"

\* The classes of lexemes that grow: what is held, the next piece, the result.
Joins == {
    <<"word", "word", "word">>, <<"digits", "digits", "digits">>, <<"blank", "blank", "blank">>,
    <<"digits", "point", "decimal">>, <<"decimal", "digits", "fraction">>,
    <<"point", "digits", "fraction">>, <<"fraction", "digits", "fraction">> }

\* What is held with one piece more, Nothing if no rule matches it.
Joined(held, piece) ==
    LET joins == {j \in Joins : j[1] = held.class /\ j[2] = ClassOf(piece)}
        longer == held.text \o piece
    IN  IF joins # {} THEN [text |-> longer, class |-> (CHOOSE j \in joins : TRUE)[3]]
        ELSE IF longer \in Pairs THEN [text |-> longer, class |-> "sign"]
        ELSE Nothing

Begun(piece) == [text |-> piece, class |-> ClassOf(piece)]

\* The token held, or none: blanks, newlines and // are dropped, and what no rule
\* matches goes to the standard output.
TokensOf(held) ==
    LET token(kind) == <<[kind |-> kind, text |-> held.text]>>
        literal == {l \in Literal : l[2] = held.text}
    IN  IF literal # {} THEN token((CHOOSE l \in literal : TRUE)[1])
        ELSE CASE held.class = "word"                    -> token("IDENTIFIER")
               [] held.class = "digits"                  -> token("INTEGER")
               [] held.class \in {"decimal", "fraction"} -> token("FLOATPOINT")
               [] OTHER                                  -> <<>>
=============================================================================
