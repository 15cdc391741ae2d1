----------------------------- MODULE SyntaxTree -----------------------------
(***************************************************************************)
(* The tree the parser builds (src/common/syntax_tree.c), the abstract     *)
(* syntax that AST makes of it and what ASTPrinter prints                  *)
(* (src/common/ast.cpp).  A node of the abstract syntax has its children   *)
(* in the order the members are visited; a member that is nullptr is no    *)
(* child.  A numeral is kept by its value, an exact decimal: that a float  *)
(* is binary, which can be seen from the eighth digit on, is left out.     *)
(***************************************************************************)
EXTENDS Integers, SequencesExt

Leaf(name) == [name |-> name, kids |-> <<>>]

\* node(): a node without children gets one, named epsilon.
Node(name, kids) == [name |-> name, kids |-> IF kids = <<>> THEN <<Leaf("epsilon")>> ELSE kids]

Ast(is, kids) ==
    [is |-> is, type |-> "", id |-> "", op |-> "", val |-> <<>>, isarray |-> FALSE, kids |-> kids]

-----------------------------------------------------------------------------
\* The value 0.d1d2... * 10^e of a numeral, as <<digits, e>>.
Normal(digits, e) ==
    LET tellers == {i \in DOMAIN digits : digits[i] # 0}
        first == CHOOSE i \in tellers : \A j \in tellers : i <= j
        last  == CHOOSE i \in tellers : \A j \in tellers : i >= j
    IN  IF tellers = {} THEN <<<<>>, 0>> ELSE <<SubSeq(digits, first, last), e - (first - 1)>>

DigitOf(c) == CHOOSE d \in 0..9 : ToString(d) = c
DigitsOf(text) == [i \in 1..Len(text) |-> DigitOf(SubSeq(text, i, i))]

\* std::stoi and std::stof of what the scanner takes for a numeral.
ValueOf(text) ==
    LET points == {i \in 1..Len(text) : SubSeq(text, i, i) = "."}
        point == IF points = {} THEN Len(text) + 1 ELSE CHOOSE i \in points : TRUE
    IN  Normal(DigitsOf(SubSeq(text, 1, point - 1)) \o DigitsOf(SubSeq(text, point + 1, Len(text))),
               point - 1)

\* operator<< writes six digits of a float: the decimal nearest to its value.
SixDigits(val) ==
    LET digits == val[1]
        head == FoldLeft(LAMBDA n, d : 10 * n + d, 0, SubSeq(digits, 1, 6))
        rounded == DigitsOf(ToString(IF digits[7] >= 5 THEN head + 1 ELSE head))
    IN  IF Len(digits) <= 6 THEN val ELSE Normal(rounded, val[2] + Len(rounded) - 6)

-----------------------------------------------------------------------------
\* transform_node_iter.  The lists of the grammar are left-recursive: the walk
\* down a list meets the last element first, and the stack turns them round.
RECURSIVE Transform(_)

\* What is pushed: a list goes on where a node has all the children of its rule.
RECURSIVE Pushed(_, _)
Pushed(list, all) ==
    IF Len(list.kids) = all THEN <<list.kids[all]>> \o Pushed(list.kids[1], all)
    ELSE IF list.kids[1].name = "epsilon" THEN <<>> ELSE <<list.kids[1]>>

\* Mutant: a queue in place of the stack.
FlattenedQueue(list, all) ==
    LET popped == Pushed(list, all) IN [i \in DOMAIN popped |-> Transform(popped[i])]

Flattened(list, all) ==
    LET popped == Reverse(Pushed(list, all)) IN [i \in DOMAIN popped |-> Transform(popped[i])]

\* The type a type-specifier names; a variable that is not int is float.
VariableType(n) == IF n.kids[1].kids[1].name = "int" THEN "TYPE_INT" ELSE "TYPE_FLOAT"
FunctionType(n) ==
    CASE n.kids[1].kids[1].name = "int"   -> "TYPE_INT"
      [] n.kids[1].kids[1].name = "float" -> "TYPE_FLOAT"
      [] OTHER                            -> "TYPE_VOID"

Num(type, text) == [Ast("num", <<>>) EXCEPT !.type = type, !.val = ValueOf(text)]

Program(n) == Ast("program", Flattened(n.kids[1], 2))

VarDeclaration(n) ==
    [Ast("var-declaration", IF Len(n.kids) = 6 THEN <<Num("TYPE_INT", n.kids[4].name)>> ELSE <<>>)
        EXCEPT !.type = VariableType(n), !.id = n.kids[2].name]

FunDeclaration(n) ==
    LET first == n.kids[4].kids[1]
        params == IF first.name = "void" THEN <<>> ELSE Flattened(first, 3)
    IN  [Ast("fun-declaration", Append(params, Transform(n.kids[6])))
            EXCEPT !.type = FunctionType(n), !.id = n.kids[2].name]

Param(n) ==
    [Ast("param", <<>>) EXCEPT !.type = VariableType(n), !.id = n.kids[2].name,
                               !.isarray = Len(n.kids) > 2]

CompoundStmt(n) == Ast("compound-stmt", Flattened(n.kids[2], 2) \o Flattened(n.kids[3], 2))

-----------------------------------------------------------------------------
ExpressionStmt(n) ==
    Ast("expression-stmt", IF Len(n.kids) = 2 THEN <<Transform(n.kids[1])>> ELSE <<>>)

SelectionStmt(n) ==
    Ast("selection-stmt", <<Transform(n.kids[3]), Transform(n.kids[5])>>
                            \o IF Len(n.kids) = 7 THEN <<Transform(n.kids[7])>> ELSE <<>>)

IterationStmt(n) == Ast("iteration-stmt", <<Transform(n.kids[3]), Transform(n.kids[5])>>)

ReturnStmt(n) == Ast("return-stmt", IF Len(n.kids) = 3 THEN <<Transform(n.kids[2])>> ELSE <<>>)

Expression(n) ==
    IF Len(n.kids) = 1 THEN Transform(n.kids[1])
    ELSE Ast("assign-expression", <<Transform(n.kids[1]), Transform(n.kids[3])>>)

Var(n) ==
    [Ast("var", IF Len(n.kids) = 4 THEN <<Transform(n.kids[3])>> ELSE <<>>)
        EXCEPT !.id = n.kids[1].name]

\* Simple expressions, additive expressions and terms have one form.
Operation(is, n) ==
    IF Len(n.kids) = 3
    THEN [Ast(is, <<Transform(n.kids[1]), Transform(n.kids[3])>>) EXCEPT !.op = n.kids[2].kids[1].name]
    ELSE Ast(is, <<Transform(n.kids[1])>>)

Factor(n) ==
    LET inner == n.kids[IF Len(n.kids) = 3 THEN 2 ELSE 1]
    IN  CASE inner.name \in {"expression", "var", "call"} -> Transform(inner)
          [] inner.name = "integer" -> Num("TYPE_INT", inner.kids[1].name)
          [] inner.name = "float"   -> Num("TYPE_FLOAT", inner.kids[1].name)

Call(n) ==
    LET list == n.kids[3].kids[1]
    IN  [Ast("call", IF list.name = "arg-list" THEN Flattened(list, 3) ELSE <<>>)
            EXCEPT !.id = n.kids[1].name]

Transform(n) ==
    CASE n.name = "program"         -> Program(n)
      [] n.name \in {"declaration", "statement"} -> Transform(n.kids[1])
      [] n.name = "var-declaration" -> VarDeclaration(n)
      [] n.name = "fun-declaration" -> FunDeclaration(n)
      [] n.name = "param"           -> Param(n)
      [] n.name = "compound-stmt"   -> CompoundStmt(n)
      [] n.name = "expression-stmt" -> ExpressionStmt(n)
      [] n.name = "selection-stmt"  -> SelectionStmt(n)
      [] n.name = "iteration-stmt"  -> IterationStmt(n)
      [] n.name = "return-stmt"     -> ReturnStmt(n)
      [] n.name = "expression"      -> Expression(n)
      [] n.name = "var"             -> Var(n)
      [] n.name \in {"simple-expression", "additive-expression", "term"} -> Operation(n.name, n)
      [] n.name = "factor"          -> Factor(n)
      [] n.name = "call"            -> Call(n)

\* The numbers of a tree: each went through std::stoi or std::stof.
RECURSIVE NumbersIn(_)
NumbersIn(n) ==
    (IF n.is = "num" THEN {n} ELSE {}) \cup UNION {NumbersIn(n.kids[i]) : i \in DOMAIN n.kids}

\* It throws.  Integers of ten digits that still fit, and floats of 39, are left
\* out, and floats too small.
OutOfRange(num) == num.val[2] > IF num.type = "TYPE_INT" THEN 9 ELSE 38

-----------------------------------------------------------------------------
\* ASTPrinter: the depth it is at and the lines it has written; a line is its
\* depth and what it says of the node.
FreshPrinter == [depth |-> 0, out |-> <<>>]
AddDepth(p) == [p EXCEPT !.depth = @ + 2]
RemoveDepth(p) == [p EXCEPT !.depth = @ - 2]

SaysDeclaration(n) ==
    CASE n.is = "num"             -> <<"num", n.type,
                                       IF n.type = "TYPE_INT" THEN n.val ELSE SixDigits(n.val)>>
      [] n.is = "var-declaration" -> <<n.is, n.id, n.kids # <<>> >>
      [] n.is = "fun-declaration" -> <<n.is, n.id>>
      [] n.is = "param"           -> <<n.is, n.id, n.isarray>>
      [] n.is \in {"program", "compound-stmt"} -> <<n.is>>

SaysStatement(n) == IF n.is = "return-stmt" THEN <<n.is, n.kids = <<>> >> ELSE <<n.is>>

SaysExpression(n) ==
    CASE n.is = "assign-expression" -> <<n.is>>
      [] n.is = "var"               -> <<n.is, n.id, n.kids # <<>> >>
      [] n.is = "call"              -> <<n.is, n.id>>
      [] OTHER                      -> IF Len(n.kids) = 1 THEN <<n.is>> ELSE <<n.is, n.op>>

Says(n) ==
    IF n.is \in {"num", "var-declaration", "fun-declaration", "param", "program", "compound-stmt"}
    THEN SaysDeclaration(n)
    ELSE IF n.is \in {"expression-stmt", "selection-stmt", "iteration-stmt", "return-stmt"}
    THEN SaysStatement(n)
    ELSE SaysExpression(n)

\* Mutant: an array element returns without remove_depth.
LeaveUnlessElement(p, n) == IF n.is = "var" /\ n.kids # <<>> THEN p ELSE RemoveDepth(p)

Leave(p, n) == RemoveDepth(p)

\* Every visitor writes its line and visits its children two deeper.
RECURSIVE Visit(_, _)
Visit(p, n) ==
    LET said == [p EXCEPT !.out = Append(@, <<p.depth, Says(n)>>)]
    IN  Leave(FoldLeft(Visit, AddDepth(said), n.kids), n)
=============================================================================
