---------------------------- MODULE Expressions -----------------------------
(***************************************************************************)
(* CminusfBuilder on declarations and expressions                          *)
(* (src/cminusfc/cminusf_builder.cpp): scopes, the loads and conversions   *)
(* that the visitors insert, calls, and the flag inCall by which a call    *)
(* tells the visitor of a term not to load.                                *)
(*                                                                         *)
(* The program is drawn while it is visited, and executed while it is      *)
(* built: a value is what its instruction computes.  Next to it goes what  *)
(* the source says, with the types and conversions of C and operands taken *)
(* from left to right.  Only well-typed programs are drawn: arrays are     *)
(* indexed or passed, and nothing else.                                    *)
(*                                                                         *)
(* visits is the recursion of the visitors.  A visitor that only hands its *)
(* child through (an ASTSimpleExpression without operator, parentheses)    *)
(* has no entry.                                                           *)
(***************************************************************************)
EXTENDS TypedValue, Sequences, FiniteSets

CONSTANTS
    Globals, Locals, \* what may be declared: [name, type, kind, length]
    Functions,      \* [returns, params], params a sequence of declarations
    Numbers,        \* constants, as values
    Relations, Operators,
    MaxGlobals, MaxLocals, \* bounds on variables
    MaxBlocks,      \* bound on compound statements
    MaxStatements,  \* bound on statements
    MaxLeaves,      \* bound on operands of a statement
    MaxSize,        \* bound on locals, blocks and operands together
    MaxDepth        \* bound on nested visitors

\* Array parameters point to variable 0, an array of the caller; the others
\* are given this number.
PassedLength == 2
Given == 20

\* A scalar is one cell; parameters have names of their own; every function
\* drawn returns a number.
ASSUME ExpressionsAssumption ==
    /\ \A d \in Globals \cup Locals :
          /\ d.type \in Types /\ d.kind \in {"var", "array"} /\ d.length \in Nat
          /\ d.kind = "var" => d.length = 1
    /\ \A f \in Functions :
          /\ f.returns \in Types
          /\ f.params \in Seq({f.params[n] : n \in DOMAIN f.params})
          /\ \A n \in DOMAIN f.params :
                /\ f.params[n].type \in Types /\ f.params[n].kind \in {"var", "passed"}
                /\ f.params[n].length = IF f.params[n].kind = "passed" THEN PassedLength ELSE 1
                /\ \A m \in DOMAIN f.params : f.params[m].name = f.params[n].name => m = n
    /\ \A v \in Numbers : v \in [type : Types, d : Int]
    /\ Relations \subseteq {"eq", "ne", "lt", "le", "gt", "ge"} /\ Operators \subseteq {"add", "sub"}

VARIABLES
    scope,      \* Scope::inner: names to variables, innermost last
    vars,       \* the variables declared so far
    open,       \* the blocks being visited, innermost last; 0 is the program
    blocks,     \* blocks opened so far
    function,   \* return type of the function, "none" before there is one
    declaring,  \* is the next thing in the block still a declaration?
    statements, \* statements visited so far
    visits,     \* active visitors of expressions, innermost last
    inCall,
    mem,        \* memory, as the instructions leave it
    store,      \* memory, as the source says
    outcome     \* "running", "built"; "aborted": an assertion failed; "exited",
                \* "undefined": so ends the program; "signed": see Signed

svars == <<scope, vars, open, blocks, function, declaring, statements>>
evars == <<svars, visits, inCall, mem, store, outcome>>

-----------------------------------------------------------------------------
\* All entries of f, and those of g that f does not have.
Joined(f, g) == [x \in DOMAIN f \cup DOMAIN g |-> IF x \in DOMAIN f THEN f[x] ELSE g[x]]

(* Scope.                                                                  *)
\* Scope::find, 0 if there is none: the innermost binding.
Find(name) ==
    LET at == {n \in DOMAIN scope : name \in DOMAIN scope[n]}
    IN  IF at = {} THEN 0 ELSE scope[CHOOSE n \in at : \A k \in at : k <= n][name]

\* Scope::push: insert into the innermost map does not replace what is there.
Push(s, name, n) == [s EXCEPT ![Len(s)] = Joined(@, [x \in {name} |-> n])]

InGlobal == Len(scope) = 1

\* A variable is what is declared, and the block that is in.
Variable(decl, block) ==
    [name |-> decl.name, type |-> decl.type, kind |-> decl.kind, length |-> decl.length, block |-> block]

Names == {d.name : d \in Globals \cup Locals}

Cells(n, length, d) == [c \in {n} \X (0..(length - 1)) |-> d]

Declared(global) == {n \in DOMAIN vars : vars[n].block # 1 /\ (vars[n].block = 0 <=> global)}

\* What an alloca finds: some number, here a different one for each variable.
Garbage(n) == 3 * n

Init ==
    /\ scope = <<<<>>>> /\ vars = <<>> /\ open = <<0>> /\ blocks = 0
    /\ function = "none" /\ declaring = TRUE /\ statements = 0
    /\ visits = <<>> /\ inCall = FALSE
    /\ mem = Cells(0, PassedLength, Given) /\ store = mem
    /\ outcome = "running"

-----------------------------------------------------------------------------
(* Declarations and blocks.                                                *)
Idle == outcome = "running" /\ visits = <<>>

\* The source does not declare a name twice in a block.
Fresh(name) == \A n \in DOMAIN vars : vars[n].name = name => vars[n].block # open[Len(open)]

\* visit(ASTVarDeclaration): globals are zero.  An array of length 0 calls
\* neg_idx_except, which ends the program if there is code around the call.
Declare(decl) ==
    LET n == Len(vars) + 1
        d == IF InGlobal THEN 0 ELSE Garbage(n)
        bound == IF InGlobal THEN MaxGlobals ELSE MaxLocals
    IN  /\ Idle /\ declaring /\ Fresh(decl.name)
        /\ Cardinality(Declared(InGlobal)) < bound
        /\ vars' = Append(vars, Variable(decl, open[Len(open)]))
        /\ scope' = Push(scope, decl.name, n)
        /\ mem' = Joined(mem, Cells(n, decl.length, d))
        /\ store' = Joined(store, Cells(n, decl.length, d))
        /\ outcome' = IF decl.length = 0 /\ ~InGlobal THEN "exited" ELSE outcome
        /\ UNCHANGED <<open, blocks, function, declaring, statements, visits, inCall>>

\* visit(ASTParam): the names of the parameters are bound to the variables
\* behind the first ones.
PushParams(s, params, first) ==
    LET pushed[n \in 0..Len(params)] ==
            IF n = 0 THEN s ELSE Push(pushed[n - 1], params[n].name, first + n)
    IN  pushed[Len(params)]

\* visit(ASTFunDeclaration) up to the body: a scope for the parameters,
\* scalars stored into an alloca, arrays bound as they come.
StartFunction(fun) ==
    LET first == Len(vars)
        scalars == {n \in DOMAIN fun.params : fun.params[n].kind = "var"}
        stored == [c \in {first + n : n \in scalars} \X {0} |-> Given]
    IN  /\ Idle /\ function = "none"
        /\ function' = fun.returns
        /\ vars' = vars \o [n \in DOMAIN fun.params |-> Variable(fun.params[n], 1)]
        /\ scope' = PushParams(Append(scope, <<>>), fun.params, first)
        /\ mem' = Joined(mem, stored) /\ store' = Joined(store, stored)
        /\ open' = Append(open, 1) /\ blocks' = 1
        /\ declaring' = FALSE
        /\ UNCHANGED <<statements, visits, inCall, outcome>>

\* visit(ASTCompoundStmt): scope.enter, ...
OpenBlock ==
    /\ Idle /\ function # "none" /\ blocks <= MaxBlocks
    /\ Len(open) = 2 => blocks = 1
    /\ scope' = Append(scope, <<>>)
    /\ open' = Append(open, blocks + 1) /\ blocks' = blocks + 1
    /\ declaring' = TRUE
    /\ UNCHANGED <<vars, function, statements, visits, inCall, mem, store, outcome>>

\* Mutant: the scope is left open.
CloseBlockOnly ==
    /\ Idle /\ Len(open) > 2
    /\ open' = SubSeq(open, 1, Len(open) - 1)
    /\ declaring' = FALSE
    /\ UNCHANGED <<scope, vars, blocks, function, statements, visits, inCall, mem, store, outcome>>

\* ... the declarations and statements, and scope.exit.
CloseBlock ==
    /\ Idle /\ Len(open) > 2
    /\ scope' = SubSeq(scope, 1, Len(scope) - 1)
    /\ open' = SubSeq(open, 1, Len(open) - 1)
    /\ declaring' = FALSE
    /\ UNCHANGED <<vars, blocks, function, statements, visits, inCall, mem, store, outcome>>

\* The end of visit(ASTFunDeclaration): a return of zero, and scope.exit.
EndFunction ==
    /\ Idle /\ Len(open) = 2 /\ blocks > 1
    /\ scope' = SubSeq(scope, 1, Len(scope) - 1)
    /\ open' = SubSeq(open, 1, Len(open) - 1)
    /\ outcome' = "built"
    /\ UNCHANGED <<vars, blocks, function, declaring, statements, visits, inCall, mem, store>>

-----------------------------------------------------------------------------
(* What the source says.  A meaning is a number, or the place of a variable*)
(* or an array.                                                            *)
Means(t, n) == [t |-> t, n |-> n]
Num(n) == Means("int", n)
Float(n) == Means("float", n)
Place(type, cell) == Means(IF type = "i32" THEN "int*" ELSE "float*", cell)

\* The value of an expression: what the place holds.
Evaluated(m) ==
    CASE m.t = "int*" -> Num(store[m.n])
      [] m.t = "float*" -> Float(store[m.n])
      [] OTHER -> m

AsFloat(m) == IF m.t = "int" THEN Unit * m.n ELSE m.n
AsInt(m) == IF m.t = "float" THEN ToZero(m.n) ELSE m.n

PlaceType(m) == IF m.t = "int*" THEN "i32" ELSE "float"

\* Converted to the type of a variable, a parameter or a result.
Converted(m, type) == IF type = "i32" THEN Num(AsInt(m)) ELSE Float(AsFloat(m))

Arithmetic(op, m, n) ==
    IF "float" \in {m.t, n.t} THEN Float(FloatCalculate(op, AsFloat(m), AsFloat(n)))
    ELSE Num(Calculate(op, m.n, n.n))

Comparison(rel, m, n) ==
    IF "float" \in {m.t, n.t} THEN Num(Bit(Compare(rel, AsFloat(m), AsFloat(n))))
    ELSE Num(Bit(Compare(rel, m.n, n.n)))

\* The variable a name means: the last one declared of those in open blocks.
Visible(name) ==
    LET of == {n \in DOMAIN vars : vars[n].name = name /\ \E k \in DOMAIN open : open[k] = vars[n].block}
    IN  IF of = {} THEN 0 ELSE CHOOSE n \in of : \A k \in of : k <= n

-----------------------------------------------------------------------------
(* Functions that are called, from another file: f stores its argument into*)
(* the global integers, k into the first element of an array.              *)
Callee == [f |-> [params |-> <<"i32">>, returns |-> "i32"],
           k |-> [params |-> <<"i32*", "float">>, returns |-> "float"]]

Effect(m, f, args) ==
    LET written == IF f = "k" THEN {args[1]}
                   ELSE {<<n, 0>> : n \in {v \in DOMAIN vars :
                            vars[v].block = 0 /\ vars[v].kind = "var" /\ vars[v].type = "i32"}}
    IN  [c \in DOMAIN m |-> IF c \notin written THEN m[c]
                            ELSE IF f = "f" THEN args[1] ELSE ToZero(args[2])]

Result(f, args) == IF f = "f" THEN args[1] - 1 ELSE args[2] + Unit

-----------------------------------------------------------------------------
(* The visitors of expressions.  An entry of visits has the values of the  *)
(* children visited so far; ready counts those that are converted, by the  *)
(* visitors that convert them one by one.                                  *)
Frame(node, op) == [node |-> node, op |-> op, kids |-> <<>>, ready |-> 0]
Kid(ir, means) == [ir |-> ir, means |-> means]

Depth == Len(visits)
Top == visits[Depth]
IR(n) == Top.kids[n].ir
Meaning(n) == Top.kids[n].means

Arity(frame) ==
    CASE frame.node \in {"assign", "simple", "additive", "mul"} -> 2
      [] frame.node = "call" -> Len(Callee[frame.op].params)
      [] OTHER -> 1

\* Is argument n of the call an array?
PassesArray(frame, n) ==
    frame.node = "call" /\ n <= Arity(frame) /\ Callee[frame.op].params[n] = "i32*"

\* What the children are.  "single" is a term of a single variable.
Operand == {"single", "num", "call", "assign", "simple", "additive", "mul"}
PlaceNodes == {"var", "index"}

Wanted(frame, n) ==
    CASE PassesArray(frame, n) -> {"single"}
      [] frame.node = "single" \/ (frame.node = "assign" /\ n = 1) -> PlaceNodes
      [] frame.node = "mul" /\ n = 2 -> (Operand \ {"single"}) \cup PlaceNodes
      [] OTHER -> Operand

Wants(node) ==
    /\ outcome = "running" /\ Depth > 0
    /\ Len(Top.kids) < Arity(Top)
    /\ Top.node \in {"call", "mul"} => Top.ready = Len(Top.kids)
    /\ node \in Wanted(Top, Len(Top.kids) + 1)

Complete(node) == outcome = "running" /\ Depth > 0 /\ Top.node = node /\ Len(Top.kids) = Arity(Top)

\* Operands visited or still to come.
Leaves ==
    LET sum[n \in 0..Depth] ==
            IF n = 0 THEN 0
            ELSE sum[n - 1] + Arity(visits[n]) - (IF n < Depth THEN 1 ELSE 0)
    IN  sum[Depth]

\* A visitor of an expression begins.  A call whose first parameter is an
\* array sets inCall.
Enter(node, op) ==
    /\ Wants(node) /\ Depth < MaxDepth
    /\ visits' = Append(visits, Frame(node, op))
    /\ LET leaves == Leaves + Arity(Frame(node, op)) - 1
       IN  leaves <= MaxLeaves /\ leaves + (blocks - 1) + Cardinality(Declared(FALSE)) <= MaxSize
    /\ inCall' = (inCall \/ PassesArray(Frame(node, op), 1))
    /\ UNCHANGED <<svars, mem, store, outcome>>

\* A statement begins with its expression.  Which statement it is, is drawn
\* when the expression is done.
Start ==
    /\ Idle /\ Len(open) > 2 /\ statements < MaxStatements
    /\ statements' = statements + 1
    /\ declaring' = FALSE
    /\ visits' = <<Frame("statement", "")>>
    /\ UNCHANGED <<scope, vars, open, blocks, function, inCall, mem, store, outcome>>

\* The value v of a visit that ends goes to the visitor below, level 1 being
\* the top; if a constructor failed, that is all.
Deliver(level, v, means) ==
    IF v = Failed
    THEN outcome' = "aborted" /\ UNCHANGED visits
    ELSE /\ visits' = [SubSeq(visits, 1, Depth + 1 - level) EXCEPT
                        ![Depth + 1 - level].kids = Append(@, Kid(v, means))]
         /\ UNCHANGED outcome

\* A value of the visitor itself is converted.
Ready(n, v, means) ==
    IF v = Failed
    THEN outcome' = "aborted" /\ UNCHANGED visits
    ELSE /\ visits' = [visits EXCEPT ![Depth].kids[n] = Kid(v, means), ![Depth].ready = n]
         /\ UNCHANGED outcome

-----------------------------------------------------------------------------
(* Leaves.                                                                 *)
VisitNum(value) ==
    /\ Wants("num")
    /\ Deliver(1, value, IF IsFloat(value) THEN Float(value.d) ELSE Num(value.d))
    /\ UNCHANGED <<svars, inCall, mem, store>>

\* What the name of variable n is bound to; find fails if there is none.
Address(n) ==
    IF n = 0 THEN Failed
    ELSE CASE vars[n].kind = "var" -> Value(PointerTo(vars[n].type), <<n, 0>>)
           [] vars[n].kind = "array" -> Value(ArrayOf(vars[n].type), <<n, 0>>)
           [] vars[n].kind = "passed" -> Value(PointerTo(vars[n].type), <<0, 0>>)

\* Its first cell, in the source.
First(n) == IF vars[n].kind = "passed" THEN <<0, 0>> ELSE <<n, 0>>

ScalarWanted == ~(Top.node = "single" /\ PassesArray(visits[Depth - 1], Len(visits[Depth - 1].kids) + 1))

\* visit(ASTVar) without an index.
VisitVar(name) ==
    LET n == Visible(name)
    IN  /\ Wants("var") /\ n # 0
        /\ IF ScalarWanted THEN vars[n].kind = "var"
           ELSE vars[n].kind # "var" /\ vars[n].type = "i32" /\ vars[n].length > 0
        /\ Deliver(1, Address(Find(name)), Place(vars[n].type, First(n)))
        /\ UNCHANGED <<svars, inCall, mem, store>>

\* visit(ASTVar) with one, up to the index.
EnterIndex(name) ==
    /\ Visible(name) # 0 /\ vars[Visible(name)].kind # "var"
    /\ Wants("index") /\ ScalarWanted
    /\ Enter("index", name)

-----------------------------------------------------------------------------
(* Conversions.                                                            *)
\* Mutant: the result of a comparison is not extended first.
ConvertSigned(v, type) ==
    IF v.type = type THEN v
    ELSE CASE v.type = "i1" -> IF type = "i32" THEN ZExt(v) ELSE SIToFP(v)
           [] v.type = "i32" -> SIToFP(v)
           [] v.type = "float" -> FPToSI(v, type)
           [] OTHER -> v

\* To the type of a variable or a parameter.
Convert(v, type) ==
    IF v.type = type THEN v
    ELSE CASE v.type = "i1" -> IF type = "i32" THEN ZExt(v) ELSE SIToFP(ZExt(v))
           [] v.type = "i32" -> SIToFP(v)
           [] v.type = "float" -> FPToSI(v, type)
           [] OTHER -> v

\* Of an operand, to float, in an addition or multiplication ...
Promoted(v) == IF IsInteger(v) THEN SIToFP(v) ELSE v

\* ... and in a comparison.
Compared(v) == Convert(v, "float")

\* Of a condition.
Test(v) ==
    CASE IsFloat(v) -> FCmp("ne", v, Value("float", 0))
      [] v.type = "i32" -> ICmp("ne", v, Int32(0))
      [] OTHER -> v

\* Of what a function returns.
Returned(v) ==
    LET w == CASE function = "i32" -> IF IsFloat(v) THEN FPToSI(v, "i32") ELSE v
               [] function = "float" -> IF IsFloat(v) THEN v ELSE SIToFP(v)
    IN  IF w.type = function THEN w ELSE Failed

\* A comparison is made a float as it is: 1 becomes -1.
Signed(values) == \E v \in values : v.type = "i1"

-----------------------------------------------------------------------------
(* The visitors after their children.                                      *)
\* Mutant: inCall is not looked at.
FactorAlways(v) == IF IsScalarPointer(v) THEN Load(mem, v) ELSE v

Factor(v) == IF IsScalarPointer(v) /\ ~inCall THEN Load(mem, v) ELSE v

\* visit(ASTTerm) of a single variable.
FinishSingle ==
    /\ Complete("single")
    /\ Deliver(2, Factor(IR(1)), IF ScalarWanted THEN Evaluated(Meaning(1)) ELSE Meaning(1))
    /\ UNCHANGED <<svars, inCall, mem, store>>

\* visit(ASTTerm) of a product: what a place holds is loaded after its visit.
LoadOperand ==
    /\ outcome = "running" /\ Depth > 0 /\ Top.node = "mul"
    /\ LET n == Len(Top.kids)
       IN  /\ n > Top.ready
           /\ Ready(n, IF IsPointer(IR(n)) THEN Load(mem, IR(n)) ELSE IR(n), Evaluated(Meaning(n)))
    /\ UNCHANGED <<svars, inCall, mem, store>>

\* visit(ASTAdditiveExpression), visit(ASTTerm)
FinishArithmetic(node) ==
    /\ Complete(node)
    /\ node = "mul" => Top.ready = 2
    /\ LET v == IR(1)
           w == IR(2)
           means == Arithmetic(Top.op, Meaning(1), Meaning(2))
       IN  IF ~(IsFloat(v) \/ IsFloat(w)) THEN Deliver(2, IBinary(Top.op, v, w), means)
           ELSE IF Signed({v, w}) THEN outcome' = "signed" /\ UNCHANGED visits
           ELSE Deliver(2, FBinary(Top.op, Promoted(v), Promoted(w)), means)
    /\ UNCHANGED <<svars, inCall, mem, store>>

\* visit(ASTSimpleExpression)
FinishSimple ==
    /\ Complete("simple")
    /\ LET v == IR(1)
           w == IR(2)
           compared == IF v.type = "i32" /\ w.type = "i32" THEN ICmp(Top.op, v, w)
                       ELSE FCmp(Top.op, Compared(v), Compared(w))
       IN  Deliver(2, compared, Comparison(Top.op, Meaning(1), Meaning(2)))
    /\ UNCHANGED <<svars, inCall, mem, store>>

\* visit(ASTAssignExpression)
FinishAssign ==
    /\ Complete("assign")
    /\ LET v == Convert(IR(2), Pointee(IR(1)))
           means == Converted(Meaning(2), PlaceType(Meaning(1)))
       IN  IF StoreTypesMatch(v, IR(1))
           THEN /\ mem' = [mem EXCEPT ![IR(1).d] = v.d]
                /\ store' = [store EXCEPT ![Meaning(1).n] = means.n]
                /\ Deliver(2, v, means)
           ELSE /\ outcome' = "aborted"
                /\ UNCHANGED <<visits, mem, store>>
    /\ UNCHANGED <<svars, inCall>>

\* visit(ASTVar) after the index.  A negative one calls neg_idx_except.
FinishIndex ==
    LET i == IF IsFloat(IR(1)) THEN FPToSI(IR(1), "i32") ELSE IR(1)
        nonNegative == ICmp("ge", i, Int32(0))
        base == Address(Find(Top.op))
        array == Visible(Top.op)
        index == AsInt(Meaning(1))
        ends == IF Failed \in {base, nonNegative} THEN "aborted"
                ELSE IF nonNegative = Value("i1", 0) THEN "exited"
                ELSE IF index >= vars[array].length THEN "undefined"
                ELSE "running"
    IN  /\ Complete("index")
        /\ IF ends = "running"
           THEN Deliver(2, GetElementPtr(base, i), Place(vars[array].type, <<First(array)[1], index>>))
           ELSE outcome' = ends /\ UNCHANGED visits
        /\ UNCHANGED <<svars, inCall, mem, store>>

\* visit(ASTCall), an argument: it is converted, and inCall is set for the
\* next one.
FinishArgument ==
    /\ outcome = "running" /\ Depth > 0 /\ Top.node = "call"
    /\ LET n == Len(Top.kids)
           type == Callee[Top.op].params[n]
       IN  /\ n > Top.ready
           /\ IF type = "i32*"
              THEN Ready(n, IF IsPointer(IR(n)) THEN GetElementPtr(IR(n), Int32(0)) ELSE IR(n), Meaning(n))
              ELSE Ready(n, Convert(IF IsPointer(IR(n)) THEN Load(mem, IR(n)) ELSE IR(n), type),
                         Converted(Meaning(n), type))
           /\ inCall' = PassesArray(Top, n + 1)
    /\ UNCHANGED <<svars, mem, store>>

\* ... and the call, which checks the types of the arguments.
FinishCall ==
    LET f == Top.op
        params == Callee[f].params
        passed == [n \in DOMAIN params |-> IR(n).d]
        meant == [n \in DOMAIN params |-> Meaning(n).n]
        returns == Callee[f].returns
    IN  /\ Complete("call") /\ Top.ready = Len(params)
        /\ IF \A n \in DOMAIN params : IR(n).type = params[n]
           THEN /\ mem' = Effect(mem, f, passed)
                /\ store' = Effect(store, f, meant)
                /\ Deliver(2, Value(returns, Result(f, passed)),
                           IF returns = "i32" THEN Num(Result(f, meant)) ELSE Float(Result(f, meant)))
           ELSE outcome' = "aborted" /\ UNCHANGED <<visits, mem, store>>
        /\ UNCHANGED <<svars, inCall>>

Expressed == Complete("statement") /\ Top.ready = 0

\* visit(ASTExpressionStmt)
FinishStatement ==
    /\ Expressed
    /\ visits' = <<>>
    /\ UNCHANGED <<svars, inCall, mem, store, outcome>>

\* visit(ASTSelectionStmt), visit(ASTIterationStmt): the condition.
FinishCondition ==
    /\ Expressed
    /\ Ready(1, Test(IR(1)), Comparison("ne", Meaning(1), Num(0)))
    /\ UNCHANGED <<svars, inCall, mem, store>>

\* Nothing is executed after a branch or a return drawn here.
\* visit(ASTReturnStmt)
FinishReturn ==
    /\ Expressed
    /\ IF function = "float" /\ Signed({IR(1)}) THEN outcome' = "signed" /\ UNCHANGED visits
       ELSE Ready(1, Returned(IR(1)), Converted(Meaning(1), function))
    /\ UNCHANGED <<svars, inCall, mem, store>>

-----------------------------------------------------------------------------
Next ==
    \/ \E decl \in IF InGlobal THEN Globals ELSE Locals : Declare(decl)
    \/ \E fun \in Functions : StartFunction(fun)
    \/ OpenBlock \/ CloseBlock \/ EndFunction
    \/ Start
    \/ \E value \in Numbers : VisitNum(value)
    \/ \E name \in Names : VisitVar(name) \/ EnterIndex(name)
    \/ Enter("single", "") \/ Enter("assign", "")
    \/ \E rel \in Relations : Enter("simple", rel)
    \/ \E op \in Operators : Enter("additive", op)
    \/ Enter("mul", "mul")
    \/ \E f \in DOMAIN Callee : Enter("call", f)
    \/ FinishSingle \/ LoadOperand \/ FinishArithmetic("additive") \/ FinishArithmetic("mul")
    \/ FinishSimple \/ FinishAssign \/ FinishIndex \/ FinishArgument \/ FinishCall
    \/ FinishCondition \/ FinishReturn \/ FinishStatement

Spec == Init /\ [][Next]_evars

-----------------------------------------------------------------------------
\* Scope: a name is bound to the variable that C means by it.
NamesResolve ==
    outcome = "running" => \A name \in Names : Find(name) = Visible(name)

\* An instruction's value is the source's.
Agrees(kid) ==
    CASE kid.ir.type \in {"i1", "i32"} -> kid.means = Num(kid.ir.d)
      [] kid.ir.type = "float" -> kid.means = Float(kid.ir.d)
      [] OTHER -> kid.means = Place(Pointee(kid.ir), kid.ir.d) /\ kid.ir.d \in DOMAIN store

\* What is built computes what the source says: memory and values agree, and
\* the program exits only where an index is negative or an array empty.
ExpressionsAgree ==
    /\ mem = store
    /\ \A n \in 1..Depth : \A k \in DOMAIN visits[n].kids : Agrees(visits[n].kids[k])
    /\ outcome = "exited" =>
         IF Depth = 0 THEN vars[Len(vars)].length = 0 ELSE AsInt(Meaning(1)) < 0

\* No constructor fails, and no sign is taken for a 1, unless the result of
\* a comparison is an operand, an index or returned.
FailsOnlyOnComparisons ==
    outcome \in {"aborted", "signed"} =>
        /\ Depth > 0
        /\ Top.node \in {"additive", "mul", "index", "statement"}
        /\ \E k \in DOMAIN Top.kids : IR(k).type = "i1"
=============================================================================
