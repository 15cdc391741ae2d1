---------------------------- MODULE MCFrontend ----------------------------
(* Texts around the body of a function, a condition, and whole programs.   *)
EXTENDS Frontend

MCArguments == {"-h", "-o", "-emit-ast", "-S", "-emit-llvm", "-mem2reg", "-licm", "a.cminus"}
MCRecognised == {"a.cminus"}
MCWords == {"int", "void", "float", "if", "else", "while", "return", "a", "f"}
MCNumerals == {"1", "01", "1234567", "1234568", "9999999999"}

Main == <<"int", " ", "f", "(", "void", ")", "{">>

Text(open, draw, most, close) == [open |-> open, draw |-> draw, most |-> most, close |-> close]

MCTexts == {
    \* expressions
    Text(Main \o <<"a">>, {"a", "-", "*", "<", "=", "(", ")", "!", "@"}, 5, <<";", "}">>),
    \* calls, array elements and numbers, one of them too large
    Text(Main \o <<"a", "=", "f", "(">>, {"f", "1", "9999999999", ".", "[", "]", "(", ")", ","}, 5, <<";", "}">>),
    \* statements behind two conditions
    Text(Main \o <<"if", "(", "a", ")", "if", "(", "a", ")">>,
         {"while", "(", "a", ")", "else", ";", "{", "}", "return"}, 6, <<";", "}">>),
    \* declarations, and what stands behind the last of them
    Text(<<>>, {"int", " ", "void", "a", "(", ")", "[", "]", "1", ";", "float"}, 5, <<"{", "}">>),
    \* parameters, behind another declaration
    Text(<<"float", " ", "a", ";", "void", " ", "f", "(">>,
         {"int", " ", "void", "a", ",", "[", "]", ")"}, 7, <<")", "{", "}">>),
    \* declarations and statements of a body
    Text(Main \o <<"int", " ", "a", ";">>, {"int", " ", "f", ";", "[", "1", "]", "+"}, 6, <<"}">>),
    \* numerals: leading zeros, and more than six digits
    Text(Main \o <<"a", "=">>, {"01", "1234567", "1234568", "."}, 3, <<";", "}">>),
    \* comments
    Text(Main, {"/", "*", "a", ";"}, 6, <<"/", "}">>)
}

\* What stands behind // in the line.
MCLineComments == {Text(Main \o <<"a", ";", "/", "/">>, {"a", ";"}, 2, <<"\n", "}">>)}

MCPieces == MCWords \cup MCNumerals \cup
    {" ", ".", "+", "-", "*", "/", "<", ">", "=", "!", "@", ";", ",", "(", ")", "[", "]", "{", "}",
     "\n"}
=============================================================================
