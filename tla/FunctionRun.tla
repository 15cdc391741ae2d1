---------------------------- MODULE FunctionRun -----------------------------
(***************************************************************************)
(* One function without branches: allocate lays out its frame, CodeGen     *)
(* emits code for each of its instructions, and the code is run next to    *)
(* what lightir says.  The function is drawn while it is laid out; it is   *)
(* called as gen_call calls a function.                                    *)
(***************************************************************************)
EXTENDS CodeGen

CONSTANTS
    Ops,            \* operations the function may have
    Relations,      \* of comparisons
    Lengths,        \* of arrays
    Recent,         \* how many values of a type an operand may be chosen from
    MaxCode         \* bound on instructions

ASSUME FunctionRunAssumption ==
    /\ ResultTypes = {"i1", "i32", "float"} \cup PointerTypes
    /\ {4} \cup {4 * n : n \in Lengths} \subseteq Areas

VARIABLES
    code,           \* the instructions
    pc,             \* the number of the next one, 0 before the call
    outcome,        \* "running", "returned", "aborted", "rejected" or "undefined"
    machine,        \* registers and memory
    held,           \* per value, what lightir computed; Junk if nothing yet
    cells,          \* what was stored where, by lightir
    suspect         \* values that the code is known to get wrong

rvars == <<pc, outcome, machine, held, cells, suspect>>
vars == <<fvars, code, rvars>>

Registers == {Sp, Fp, Ra, Zero, Fcc}
             \cup {A(n) : n \in 0..(ArgRegisters - 1)} \cup {FA(n) : n \in 0..(ArgRegisters - 1)}
             \cup {T(n) : n \in {0, 1, 2, 8}} \cup {FT(n) : n \in 0..2}

\* The global holds two numbers; pointers that are passed point to it.
GlobalCells == (GlobalAt :> Num(5)) @@ (GlobalAt + 4 :> Num(6))
GlobalBytes == [a \in GlobalAt..(GlobalAt + 7) |->
                   [of |-> IF a < GlobalAt + 4 THEN Num(5) ELSE Num(6), k |-> (a - GlobalAt) % 4]]

RunInit ==
    /\ FrameInit
    /\ code = <<>> /\ pc = 0 /\ outcome = "running" /\ held = <<>>
    /\ cells = GlobalCells /\ suspect = {}
    /\ machine = [regs |-> <<>>, mem |-> <<>>]

-----------------------------------------------------------------------------
(* Drawing the function.  Operands are constants, the global and the       *)
(* Recent values of the type that were computed last.                      *)
Latest(types) ==
    LET of == {n \in DOMAIN values : values[n].type \in types}
    IN  {n \in of : Cardinality({k \in of : k > n}) < Recent}

Constants(types) ==
    {x \in {Operand("int", 1), Operand("float", 3), Operand("global", 0)} : TypeOf(x) \in types}

Operands(types) == {Val(n) : n \in Latest(types)} \cup Constants(types)
Pointers == Operands({"i32*", "float*"})

\* The left operand of an operator is a value if there is one of the type.
Left(type) ==
    IF Latest({type}) = {} THEN Constants({type}) ELSE {Val(n) : n \in Latest({type})}

Instr(op, args, dest) == [op |-> op, args |-> args, dest |-> dest, rel |-> "", returns |-> Junk]
New(op, args) == Instr(op, args, Len(values) + 1)

DrawArg(type) == AllocateArg(type) /\ UNCHANGED <<code, rvars>>

Draw(instr, type, area) ==
    /\ instr.op \in Ops
    /\ AllocateResult(type, area)
    /\ code' = Append(code, instr)
    /\ UNCHANGED rvars

DrawWithoutResult(instr) ==
    /\ instr.op \in Ops
    /\ AllocateNothing
    /\ code' = Append(code, instr)
    /\ UNCHANGED rvars

DrawArithmetic ==
    \/ \E x \in Left("i32"), y \in Operands({"i32"}) : Draw(New("sub", <<x, y>>), "i32", 0)
    \/ \E x \in Left("float"), y \in Operands({"float"}) : Draw(New("fsub", <<x, y>>), "float", 0)
    \/ \E x \in Operands({"i1"}) : Draw(New("zext", <<x>>), "i32", 0)
    \/ \E x \in Operands({"i32"}) : Draw(New("sitofp", <<x>>), "float", 0)
    \/ \E x \in Operands({"float"}) : Draw(New("fptosi", <<x>>), "i32", 0)
    \/ \E rel \in Relations, x \in Left("i32"), y \in Constants({"i32"}) :
          Draw([New("icmp", <<x, y>>) EXCEPT !.rel = rel], "i1", 0)
    \/ \E rel \in Relations, x \in Left("float"), y \in Constants({"float"}) :
          Draw([New("fcmp", <<x, y>>) EXCEPT !.rel = rel], "i1", 0)

DrawMemory ==
    \/ \E type \in {"i32*", "float*"} : Draw(New("alloca", <<>>), type, 4)
    \/ \E n \in Lengths : Draw(New("alloca", <<>>), "array*", 4 * n)
    \/ \E p \in Pointers : Draw(New("load", <<p>>), Pointee(TypeOf(p)), 0)
    \/ \E p \in Pointers, x \in Operands({"i32", "float"}) :
          TypeOf(x) = Pointee(TypeOf(p)) /\ DrawWithoutResult(Instr("store", <<x, p>>, 0))
    \/ \E p \in Operands({"i32*"}), x \in Operands({"i32"}) : Draw(New("gep", <<p, x>>), "i32*", 0)
    \/ \E p \in Operands({"array*"}) :
          \E x \in Operands({"i32"}) \cup {Operand("int", values[p.n].area \div 4 - 1)} :
             Draw(New("gep", <<p, Operand("int", 0), x>>), "i32*", 0)

\* Nothing, a value, or an integer and a float in either order.
Arguments ==
    {<<>>}
    \cup {<<Val(n)>> : n \in Latest({"i32", "float", "i32*"})}
    \cup {<<Val(n), Val(k)>> : n \in Latest({"i32"}), k \in Latest({"float"})}
    \cup {<<Val(n), Val(k)>> : n \in Latest({"float"}), k \in Latest({"i32"})}

DrawCall ==
    \E args \in Arguments :
       \/ DrawWithoutResult(Instr("call", args, 0))
       \/ Draw([New("call", args) EXCEPT !.returns = Num(7)], "i32", 0)
       \/ Draw([New("call", args) EXCEPT !.returns = Float(7)], "float", 0)

DrawReturn ==
    /\ EndAllocate
    /\ \E args \in {<<>>} \cup {<<Val(n)>> : n \in Latest({"i32", "float"})} :
          code' = Append(code, Instr("ret", args, 0))
    /\ UNCHANGED rvars

Drawing == stage = "results" /\ Len(code) < MaxCode

DrawFunction ==
    \/ \E type \in ArgTypes : DrawArg(type)
    \/ EndArgs /\ UNCHANGED <<code, rvars>>
    \/ Drawing /\ (DrawArithmetic \/ DrawMemory \/ DrawCall)
    \/ DrawReturn

-----------------------------------------------------------------------------
(* What lightir says.  An operand is what the machine finds in its slot,   *)
(* so that a wrong value is counted once, where it arises.                 *)
Found(x) == IF x.k = "val"
            THEN Loaded(machine.mem, values[x.n].at, WidthOf(values[x.n].type))
            ELSE ConstantOf(x)

Compare(rel, a, b) ==
    CASE rel = "eq" -> a = b [] rel = "ne" -> a # b [] rel = "lt" -> a < b
      [] rel = "le" -> a <= b [] rel = "gt" -> a > b [] rel = "ge" -> a >= b

TowardZero(h) == IF h < 0 THEN -((-h) \div 2) ELSE h \div 2

Meaning(i) ==
    LET x == Found(i.args[1])
        y == Found(i.args[Len(i.args)])
    IN  CASE i.op = "alloca" -> Addr(VariableAt(values[i.dest]))
          [] i.op = "call" -> i.returns
          [] OTHER ->
                IF Junk \in {x, y} THEN Junk
                ELSE CASE i.op = "sub" -> Num(x.n - y.n)
                       [] i.op = "fsub" -> Float(x.n - y.n)
                       [] i.op \in {"icmp", "fcmp"} -> Num(Bit(Compare(i.rel, x.n, y.n)))
                       [] i.op = "zext" -> x
                       [] i.op = "sitofp" -> Float(2 * x.n)
                       [] i.op = "fptosi" -> Num(TowardZero(x.n))
                       [] i.op = "gep" -> Addr(x.n + 4 * y.n)
                       [] i.op = "load" -> IF x.n \in DOMAIN cells THEN cells[x.n] ELSE Junk

-----------------------------------------------------------------------------
(* The call and the run.                                                   *)
\* Two instructions do not compute what lightir says: "ne" of equal floats, and
\* the conversion of a float that is not whole.
Wrong(i) ==
    \/ i.op = "fcmp" /\ i.rel = "ne" /\ Found(i.args[1]) = Found(i.args[2])
    \/ i.op = "fptosi" /\ Found(i.args[1]).n % 2 = 1

\* The values that are no results are the arguments.
NArgs == Len(values) - Cardinality({k \in DOMAIN code : code[k].dest # 0})
ArgList == [n \in 1..NArgs |-> values[n].type]

\* What is passed for argument n.
Passed(n) ==
    CASE ArgList[n] = "i32" -> Num(n) [] ArgList[n] = "float" -> Float(2 * n + 1)
      [] OTHER -> Addr(GlobalAt)

\* The registers as gen_call of the caller leaves them.
CallerRegs ==
    LET passing == {n \in 1..NArgs : n <= ArgRegisters}
    IN  [r \in Registers |->
            CASE r = Sp -> Addr(0) [] r = Fp -> Saved(1) [] r = Ra -> Saved(2) [] r = Zero -> Num(0)
              [] \E n \in passing : ByPosition(ArgList, n) = r ->
                    Passed(CHOOSE n \in passing : ByPosition(ArgList, n) = r)
              [] OTHER -> Junk]

Stop(why) == outcome' = why /\ UNCHANGED <<pc, machine, held, cells, suspect>>

\* The compiler fails if the prologue runs out of registers.
Enter ==
    /\ stage = "laid" /\ pc = 0 /\ outcome = "running"
    /\ IF PrologueAborts(ArgList)
       THEN Stop("aborted")
       ELSE /\ machine' = ExecuteAll([regs |-> CallerRegs, mem |-> GlobalBytes], GenPrologue(ArgList))
            /\ held' = [n \in DOMAIN values |-> IF n <= NArgs THEN Passed(n) ELSE Junk]
            /\ suspect' = {n \in 1..NArgs : ByPosition(ArgList, n) # ByClass(ArgList, n)}
            /\ pc' = 1
            /\ UNCHANGED <<outcome, cells>>
    /\ UNCHANGED <<fvars, code>>

This == code[pc]

\* The addresses lightir lets a function access.
Cells ==
    {GlobalAt, GlobalAt + 4}
    \cup UNION {{VariableAt(values[n]) + 4 * k : k \in 0..(values[n].area \div 4 - 1)} : n \in DOMAIN values}

\* Accesses elsewhere may do anything: the run ends.
Undefined ==
    \/ This.op = "load" /\ Found(This.args[1]) \notin {Addr(a) : a \in Cells}
    \/ This.op = "store" /\ Found(This.args[2]) \notin {Addr(a) : a \in Cells}

\* The assembler rejects an immediate that does not fit.  Code in front of it
\* is run all the same, so that it is checked too.
Step ==
    /\ pc > 0 /\ outcome = "running"
    /\ LET emitted == Generate(This)
           rejected == \E k \in DOMAIN emitted : ~Encodes(emitted[k])
       IN  CASE rejected -> Stop("rejected")
             [] ~rejected /\ Undefined -> Stop("undefined")
             [] OTHER ->
                /\ machine' = ExecuteAll(machine, emitted)
                /\ held' = IF This.dest = 0 THEN held ELSE [held EXCEPT ![This.dest] = Meaning(This)]
                /\ cells' = IF This.op = "store"
                            THEN (Found(This.args[2]).n :> Found(This.args[1])) @@ cells
                            ELSE cells
                /\ suspect' = suspect \cup (IF Wrong(This) THEN {This.dest} ELSE {})
                /\ IF This.op = "ret" THEN outcome' = "returned" /\ UNCHANGED pc
                   ELSE pc' = pc + 1 /\ UNCHANGED outcome
    /\ UNCHANGED <<fvars, code>>

RunNext == DrawFunction \/ Enter \/ Step

RunSpec == RunInit /\ [][RunNext]_vars

-----------------------------------------------------------------------------
\* Comparisons of floats store four bytes into a slot of one.
Damaged(a, n) ==
    \E k \in DOMAIN code :
        /\ k < pc /\ code[k].op = "fcmp"
        /\ values[code[k].dest].at # a
        /\ ~Apart(a, n, values[code[k].dest].at, 4)

\* The machine when the code of a call has come to the call itself.
AtCall ==
    LET emitted == Generate(This)
        to == CHOOSE k \in DOMAIN emitted : emitted[k].i = "call"
    IN  ExecuteAll(machine, SubSeq(emitted, 1, to - 1))

\* The code computes what lightir says: every value stays in its slot and every
\* variable keeps what was stored, a callee finds its arguments where gen_call
\* says, and on return the caller finds the result, its stack pointer and its
\* frame pointer.  The exceptions are exactly the
\* ones named in Wrong, Damaged and ByPosition.  Code that cannot be emitted
\* belongs to functions with a frame beyond 12 bits or too many arguments.
CodeFollowsIR ==
    /\ pc > 0 =>
          /\ \A n \in DOMAIN values :
                LET v == values[n]
                IN  held[n] # Junk /\ n \notin suspect /\ ~Damaged(v.at, v.size)
                    => Loaded(machine.mem, v.at, v.size) = held[n]
          /\ \A a \in DOMAIN cells :
                cells[a] # Junk /\ ~Damaged(a, 4) => Loaded(machine.mem, a, 4) = cells[a]
    /\ pc > 0 /\ outcome = "running" /\ This.op = "call" =>
          LET types == [n \in DOMAIN This.args |-> TypeOf(This.args[n])]
          IN  \A n \in DOMAIN types : AtCall.regs[ByPosition(types, n)] = Found(This.args[n])
    /\ outcome = "returned" =>
          /\ machine.regs[Sp] = Addr(0) /\ machine.regs[Ra] = Saved(2)
          /\ machine.regs[Fp] = Saved(1) \/ Damaged(-16, 8)
          /\ This.args # <<>> =>
                machine.regs[IF IsFloat(This.args[1]) THEN FA(0) ELSE A(0)] = Found(This.args[1])
    /\ outcome = "rejected" => frame_size > Max12
    /\ outcome = "aborted" =>
          \E class \in {"a", "fa"} :
             Cardinality({n \in 1..NArgs : ClassOf(ArgList[n]) = class}) > ArgRegisters

\* A function returns with the frame pointer of its caller, which allocate
\* and gen_epilogue say they save and restore.
FramePointerRestored == outcome = "returned" => machine.regs[Fp] = Saved(1)
=============================================================================
