------------------------------ MODULE Grammar ------------------------------
(***************************************************************************)
(* The grammar of C-minus (src/parser/syntax_analyzer.y) and the parser    *)
(* bison makes of it: the automaton of its items, with reductions by the   *)
(* tokens that may follow.  The grammar is ambiguous in one place, an else *)
(* behind two ifs; bison then shifts.                                      *)
(***************************************************************************)
EXTENDS Naturals, SequencesExt

\* A production is its left side followed by its right side.
Productions == <<
    <<"program", "declaration-list">>,
    <<"declaration-list", "declaration-list", "declaration">>,
    <<"declaration-list", "declaration">>,
    <<"declaration", "var-declaration">>,
    <<"declaration", "fun-declaration">>,
    <<"var-declaration", "type-specifier", "IDENTIFIER", "SEMICOLON">>,
    <<"var-declaration", "type-specifier", "IDENTIFIER", "LBRACKET", "INTEGER",
      "RBRACKET", "SEMICOLON">>,
    <<"type-specifier", "INT">>, <<"type-specifier", "FLOAT">>, <<"type-specifier", "VOID">>,
    <<"fun-declaration", "type-specifier", "IDENTIFIER", "LPARENTHESE", "params",
      "RPARENTHESE", "compound-stmt">>,
    <<"params", "param-list">>, <<"params", "VOID">>,
    <<"param-list", "param-list", "COMMA", "param">>, <<"param-list", "param">>,
    <<"param", "type-specifier", "IDENTIFIER">>,
    <<"param", "type-specifier", "IDENTIFIER", "LBRACKET", "RBRACKET">>,
    <<"compound-stmt", "LBRACE", "local-declarations", "statement-list", "RBRACE">>,
    <<"local-declarations", "local-declarations", "var-declaration">>,
    <<"local-declarations">>,
    <<"statement-list", "statement-list", "statement">>, <<"statement-list">>,
    <<"statement", "expression-stmt">>, <<"statement", "compound-stmt">>,
    <<"statement", "selection-stmt">>, <<"statement", "iteration-stmt">>,
    <<"statement", "return-stmt">>,
    <<"expression-stmt", "expression", "SEMICOLON">>, <<"expression-stmt", "SEMICOLON">>,
    <<"selection-stmt", "IF", "LPARENTHESE", "expression", "RPARENTHESE", "statement">>,
    <<"selection-stmt", "IF", "LPARENTHESE", "expression", "RPARENTHESE", "statement",
      "ELSE", "statement">>,
    <<"iteration-stmt", "WHILE", "LPARENTHESE", "expression", "RPARENTHESE", "statement">>,
    <<"return-stmt", "RETURN", "SEMICOLON">>,
    <<"return-stmt", "RETURN", "expression", "SEMICOLON">>,
    <<"expression", "var", "ASSIGN", "expression">>, <<"expression", "simple-expression">>,
    <<"var", "IDENTIFIER">>, <<"var", "IDENTIFIER", "LBRACKET", "expression", "RBRACKET">>,
    <<"simple-expression", "additive-expression", "relop", "additive-expression">>,
    <<"simple-expression", "additive-expression">>,
    <<"relop", "LTE">>, <<"relop", "LT">>, <<"relop", "GT">>, <<"relop", "GTE">>,
    <<"relop", "EQ">>, <<"relop", "NEQ">>,
    <<"additive-expression", "additive-expression", "addop", "term">>,
    <<"additive-expression", "term">>,
    <<"addop", "ADD">>, <<"addop", "SUB">>,
    <<"term", "term", "mulop", "factor">>, <<"term", "factor">>,
    <<"mulop", "MUL">>, <<"mulop", "DIV">>,
    <<"factor", "LPARENTHESE", "expression", "RPARENTHESE">>,
    <<"factor", "var">>, <<"factor", "call">>, <<"factor", "integer">>, <<"factor", "float">>,
    <<"integer", "INTEGER">>, <<"float", "FLOATPOINT">>,
    <<"call", "IDENTIFIER", "LPARENTHESE", "args", "RPARENTHESE">>,
    <<"args", "arg-list">>, <<"args">>,
    <<"arg-list", "arg-list", "COMMA", "expression">>, <<"arg-list", "expression">> >>

EndOfText == "EOF"

Left(p) == Head(Productions[p])
Right(p) == Tail(Productions[p])

NonTerminals == {Left(p) : p \in DOMAIN Productions}
Tokens == (UNION {ToSet(Right(p)) : p \in DOMAIN Productions} \ NonTerminals) \cup {EndOfText}

-----------------------------------------------------------------------------
Nullable == {Left(p) : p \in {q \in DOMAIN Productions : Right(q) = <<>>}}

\* Symbols a right side can begin with, of those behind position i.
Openings(rhs, i) == {rhs[j] : j \in {k \in (i + 1)..Len(rhs) :
                                       \A h \in (i + 1)..(k - 1) : rhs[h] \in Nullable}}

\* Reflexive and transitive closure of steps, as far as found.
RECURSIVE Closure(_, _)
Closure(found, steps) ==
    LET more == found \cup UNION {{<<x[1], d[2]>> : d \in {e \in steps : e[1] = x[2]}} : x \in found}
    IN  IF more = found THEN found ELSE Closure(more, steps)

Itself == {<<a, a>> : a \in NonTerminals}

\* <<a, s>>: a right side of a, or of what it begins with, has s at its head.
Corners == Closure(Itself, {<<Left(p), Right(p)[1]>> : p \in {q \in DOMAIN Productions : Right(q) # <<>>}})

\* The tokens symbol s can begin with, also behind what derives nothing.
Beginnings == Closure(Itself, UNION {{<<Left(p), s>> : s \in Openings(Right(p), 0)} : p \in DOMAIN Productions})
FirstOf(s) == {c[2] : c \in {d \in Beginnings : d[1] = s /\ d[2] \notin NonTerminals}}
                \cup ({s} \ NonTerminals)

\* <<a, t>>: token t may follow nonterminal a; it is among the tokens behind a,
\* or a is last in what t may follow.
Follow ==
    LET places == {<<p, i>> \in (DOMAIN Productions) \X (1..7) :
                      i <= Len(Right(p)) /\ Right(p)[i] \in NonTerminals}
        symbol(q) == Right(q[1])[q[2]]
        last == {q \in places : \A j \in (q[2] + 1)..Len(Right(q[1])) : Right(q[1])[j] \in Nullable}
        above == Closure(Itself, {<<symbol(q), Left(q[1])>> : q \in last})
        behind(a) == UNION {UNION {FirstOf(s) : s \in Openings(Right(q[1]), q[2])} :
                               q \in {r \in places : symbol(r) = a}}
                       \cup IF a = "program" THEN {EndOfText} ELSE {}
    IN  UNION {{<<x[1], t>> : t \in behind(x[2])} : x \in above}

MayFollow(t, p) == <<Left(p), t>> \in Follow

-----------------------------------------------------------------------------
\* An item is a production with the number of symbols already read; a state of
\* the automaton is a set of items, closed.
Awaited(item) == IF item[2] < Len(Right(item[1])) THEN {Right(item[1])[item[2] + 1]} ELSE {}

Closed(items) ==
    items \cup {<<p, 0>> : p \in {q \in DOMAIN Productions :
        \E i \in items : \E a \in Awaited(i) \cap NonTerminals : <<a, Left(q)>> \in Corners}}

Advanced(items, s) == Closed({<<i[1], i[2] + 1>> : i \in {j \in items : s \in Awaited(j)}})

RECURSIVE Listed(_, _)
Listed(found, set) ==
    IF set = {} THEN found
    ELSE LET x == CHOOSE y \in set : TRUE IN Listed(Append(found, x), set \ {x})

RECURSIVE Explored(_, _)
Explored(found, i) ==
    IF i > Len(found) THEN found
    ELSE LET next == {Advanced(found[i], s) : s \in UNION {Awaited(j) : j \in found[i]}}
         IN  Explored(Listed(found, next \ ToSet(found)), i + 1)

States == Explored(<<Closed({<<1, 0>>})>>, 1)

\* For each state, the state each symbol leads to.
Moves == [k \in DOMAIN States |->
    [s \in UNION {Awaited(j) : j \in States[k]} |->
        LET target == Advanced(States[k], s) IN CHOOSE m \in DOMAIN States : States[m] = target]]

Ready(k) == {i[1] : i \in {j \in States[k] : Awaited(j) = {}}}

\* For each state, the production to reduce by in front of each token that may
\* follow; bison reduces in front of any other token too, by the first one.
Reducible == [k \in DOMAIN States |->
    [t \in {u \in Tokens : \E p \in Ready(k) : MayFollow(u, p)} |->
        CHOOSE p \in Ready(k) : MayFollow(t, p)]]
Default == [k \in {j \in DOMAIN States : Ready(j) # {}} |->
               CHOOSE p \in Ready(k) : \A q \in Ready(k) : p <= q]

\* To shift comes first.
Shifts(k, t) == t \in DOMAIN Moves[k]

Reduction(k, t) == IF t \in DOMAIN Reducible[k] THEN Reducible[k][t] ELSE Default[k]
=============================================================================
