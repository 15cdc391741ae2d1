------------------------------ MODULE CodeGen -------------------------------
(***************************************************************************)
(* What CodeGen emits for each instruction of a function without phis      *)
(* (src/codegen/CodeGen.cpp), as sequences of machine instructions over    *)
(* the frame that allocate has laid out.                                   *)
(*                                                                         *)
(* An instruction of lightir is [op, args, dest]: dest is the number of    *)
(* its result among values, or 0; an operand is the number of a value, a   *)
(* constant or the global variable, as a record.                           *)
(***************************************************************************)
EXTENDS StackFrame, Machine

CONSTANTS
    ArgRegisters,   \* registers for arguments of a class: 8
    GlobalAt        \* where the global variable is

Least(m, n) == IF m < n THEN m ELSE n

PointerTypes == {"i32*", "float*", "array*"}

\* Of a value, the constants and the global.
Operand(k, n) == [k |-> k, n |-> n]
Val(n) == Operand("val", n)
TypeOf(x) ==
    CASE x.k = "val" -> values[x.n].type
      [] x.k = "int" -> "i32"
      [] x.k = "float" -> "float"
      [] x.k = "global" -> "i32*"

\* Pointers to pointers do not occur: array parameters are used as they arrive.
Pointee(type) == IF type = "float*" THEN "float" ELSE "i32"

ConstantOf(x) ==
    CASE x.k = "int" -> Num(x.n)
      [] x.k = "float" -> Float(x.n)
      [] x.k = "global" -> Addr(GlobalAt)

WidthOf(type) == IF type = "i1" THEN 1 ELSE IF type \in PointerTypes THEN 8 ELSE 4
IsFloat(x) == TypeOf(x) = "float"

A(n) == R("a", n)
FA(n) == R("fa", n)
T(n) == R("t", n)
FT(n) == R("ft", n)
Fcc == R("fcc", 0)
Flip == Op("xori", T(0), T(0), T(0))

-----------------------------------------------------------------------------
\* load_from_stack_to_greg and the stack part of load_to_freg: far slots are
\* reached through the register itself, or $t8.
LoadSlot(n, r, through) ==
    LET v == values[n]
        width == WidthOf(v.type)
    IN  IF Near(v.at) THEN <<Ld(width, r, Fp, v.at)>>
        ELSE <<Li(through, Num(v.at)), Op("add", through, Fp, through), Ld(width, r, through, 0)>>

LoadToGreg(x, r) == IF x.k = "val" THEN LoadSlot(x.n, r, r) ELSE <<Li(r, ConstantOf(x))>>

LoadToFreg(x, r) ==
    IF x.k = "val" THEN LoadSlot(x.n, r, T(8)) ELSE <<Li(T(8), ConstantOf(x)), Move(r, T(8))>>

\* Mutant: every number is stored as a word.
StoreWords(n, r) == <<St(IF values[n].type \in PointerTypes THEN 8 ELSE 4, r, Fp, values[n].at)>>

\* store_from_greg and store_from_freg.
StoreFrom(n, r) ==
    LET v == values[n]
        width == WidthOf(v.type)
    IN  IF Near(v.at) THEN <<St(width, r, Fp, v.at)>>
        ELSE <<Li(T(8), Num(v.at)), Op("add", T(8), Fp, T(8)), St(width, r, T(8), 0)>>

-----------------------------------------------------------------------------
\* The next register of the class of argument n: the prologue counts floats
\* and all else separately.
ClassOf(type) == IF type = "float" THEN "fa" ELSE "a"
ByClass(types, n) ==
    R(ClassOf(types[n]), Cardinality({k \in 1..(n - 1) : ClassOf(types[k]) = ClassOf(types[n])}))

\* gen_call uses the position of the argument for either class.
ByPosition(types, n) == R(ClassOf(types[n]), n - 1)

\* Reg::a and FReg::fa assert that there is such a register.
PrologueAborts(types) == \E n \in DOMAIN types : ByClass(types, n)[2] >= ArgRegisters

GenPrologue(types) ==
    LET move == IF Near(-frame_size)
                THEN <<St(8, Ra, Sp, -8), St(8, Fp, Sp, -16), Addi(Fp, Sp, 0),
                       Addi(Sp, Sp, -frame_size)>>
                ELSE <<Li(T(0), Num(frame_size)), St(8, Ra, Sp, -8), St(8, Fp, Sp, -16),
                       Op("sub", Sp, Sp, T(0)), Op("add", Fp, Sp, T(0))>>
        save[n \in 0..Len(types)] ==
            IF n = 0 THEN <<>> ELSE save[n - 1] \o StoreFrom(n, ByClass(types, n))
    IN  move \o save[Len(types)]

\* The frame size is put into an addi here whatever it is.
GenEpilogue == <<Addi(Sp, Sp, frame_size), Ld(8, Ra, Sp, -8), Ld(8, Fp, Sp, -16)>>

GenRet(i) ==
    (IF i.args = <<>> THEN <<Li(A(0), Num(0))>>
     ELSE IF IsFloat(i.args[1]) THEN LoadToFreg(i.args[1], FA(0)) ELSE LoadToGreg(i.args[1], A(0)))
    \o GenEpilogue

GenBinary(i) ==
    LoadToGreg(i.args[1], T(0)) \o LoadToGreg(i.args[2], T(1))
    \o <<Op("sub", T(2), T(0), T(1))>> \o StoreFrom(i.dest, T(2))

GenFloatBinary(i) ==
    LoadToFreg(i.args[1], FT(0)) \o LoadToFreg(i.args[2], FT(1))
    \o <<Op("fsub", FT(2), FT(0), FT(1))>> \o StoreFrom(i.dest, FT(2))

GenAlloca(i) ==
    LET to == VariableAt(values[i.dest])
    IN  (IF Near(to) THEN <<Addi(T(0), Fp, to)>>
         ELSE <<Li(T(0), Num(to)), Op("add", T(0), Fp, T(0))>>)
        \o StoreFrom(i.dest, T(0))

\* All that is no float is loaded as a word.
GenLoad(i) ==
    LoadToGreg(i.args[1], T(0))
    \o (IF values[i.dest].type = "float"
        THEN <<Ld(4, FT(0), T(0), 0)>> \o StoreFrom(i.dest, FT(0))
        ELSE <<Ld(4, T(1), T(0), 0)>> \o StoreFrom(i.dest, T(1)))

GenStore(i) ==
    IF IsFloat(i.args[1])
    THEN LoadToFreg(i.args[1], FT(0)) \o LoadToGreg(i.args[2], T(0)) \o <<St(4, FT(0), T(0), 0)>>
    ELSE LoadToGreg(i.args[1], T(1)) \o LoadToGreg(i.args[2], T(0))
         \o <<St(WidthOf(TypeOf(i.args[1])), T(1), T(0), 0)>>

GenICmp(i) ==
    LoadToGreg(i.args[1], T(1)) \o LoadToGreg(i.args[2], T(2))
    \o (CASE i.rel = "eq" -> <<Op("xor", T(0), T(1), T(2)), Op("sltu", T(0), Zero, T(0)), Flip>>
          [] i.rel = "ne" -> <<Op("xor", T(0), T(1), T(2)), Op("sltu", T(0), Zero, T(0))>>
          [] i.rel = "lt" -> <<Op("slt", T(0), T(1), T(2))>>
          [] i.rel = "le" -> <<Op("slt", T(0), T(2), T(1)), Flip>>
          [] i.rel = "gt" -> <<Op("slt", T(0), T(2), T(1))>>
          [] i.rel = "ge" -> <<Op("slt", T(0), T(1), T(2)), Flip>>)
    \o StoreFrom(i.dest, T(0))

\* The flag decides whether 1 or 0 is stored.  Of "ne" both values of it lead
\* to label_true, by bceqz and by bcnez.  The bit is stored as a word.
GenFCmp(i) ==
    LoadToFreg(i.args[1], FT(0)) \o LoadToFreg(i.args[2], FT(1))
    \o (CASE i.rel = "eq" -> <<Op("ceq", Fcc, FT(0), FT(1)), Move(T(0), Fcc)>>
          [] i.rel = "ne" -> <<Op("ceq", Fcc, FT(0), FT(1)), Li(T(0), Num(1))>>
          [] i.rel = "lt" -> <<Op("fslt", Fcc, FT(0), FT(1)), Move(T(0), Fcc)>>
          [] i.rel = "le" -> <<Op("fsle", Fcc, FT(0), FT(1)), Move(T(0), Fcc)>>
          [] i.rel = "gt" -> <<Op("fslt", Fcc, FT(1), FT(0)), Move(T(0), Fcc)>>
          [] i.rel = "ge" -> <<Op("fsle", Fcc, FT(1), FT(0)), Move(T(0), Fcc)>>)
    \o <<St(4, T(0), Fp, values[i.dest].at)>>

\* The byte that was loaded is not negative, so that andi changes nothing.
GenZExt(i) == LoadToGreg(i.args[1], T(0)) \o <<St(4, T(0), Fp, values[i.dest].at)>>

\* i.returns is what the callee returns, in the register for its type.
GenCall(i) ==
    LET types == [n \in DOMAIN i.args |-> TypeOf(i.args[n])]
        load[n \in 0..Least(Len(types), ArgRegisters)] ==
            CASE n = 0 -> <<>>
              [] n > 0 /\ types[n] = "float" -> load[n - 1] \o LoadToFreg(i.args[n], ByPosition(types, n))
              [] OTHER -> load[n - 1] \o LoadToGreg(i.args[n], ByPosition(types, n))
        result == IF i.returns.t = "float" THEN FA(0) ELSE A(0)
    IN  load[Least(Len(types), ArgRegisters)] \o <<Call(result, i.returns)>>
        \o (IF i.dest = 0 THEN <<>> ELSE <<St(4, result, Fp, values[i.dest].at)>>)

\* args: the pointer, then the indices; a pointer that has no slot is global.
\* Offsets in bytes are put into an addi whatever they are.
GenGep(i) ==
    LET base == i.args[1]
        start == IF base.k = "val" THEN <<Ld(8, T(0), Fp, values[base.n].at)>>
                 ELSE <<Li(T(0), ConstantOf(base))>>
        index(x) == IF x.k = "int" THEN <<Addi(T(0), T(0), 4 * x.n)>>
                    ELSE <<Ld(4, T(1), Fp, values[x.n].at), Addi(T(2), Zero, 4),
                           Op("mul", T(1), T(1), T(2)), Op("add", T(0), T(0), T(1))>>
        indices[n \in 1..Len(i.args)] == IF n = 1 THEN <<>> ELSE indices[n - 1] \o index(i.args[n])
    IN  start \o indices[Len(i.args)]
        \o <<St(8, T(0), Fp, values[i.dest].at)>>

GenSIToFP(i) ==
    LoadToGreg(i.args[1], T(0)) \o <<Move(FT(0), T(0)), Op("ffint", FT(1), FT(0), FT(0))>>
    \o StoreFrom(i.dest, FT(1))

GenFPToSI(i) ==
    LoadToFreg(i.args[1], FT(1)) \o <<Op("ftint", FT(0), FT(1), FT(1)), Move(T(0), FT(0))>>
    \o StoreFrom(i.dest, T(0))

\* The switch of run.
Generate(i) ==
    CASE i.op = "ret" -> GenRet(i)
      [] i.op = "sub" -> GenBinary(i)
      [] i.op = "fsub" -> GenFloatBinary(i)
      [] i.op = "alloca" -> GenAlloca(i)
      [] i.op = "load" -> GenLoad(i)
      [] i.op = "store" -> GenStore(i)
      [] i.op = "icmp" -> GenICmp(i)
      [] i.op = "fcmp" -> GenFCmp(i)
      [] i.op = "call" -> GenCall(i)
      [] i.op = "gep" -> GenGep(i)
      [] i.op = "zext" -> GenZExt(i)
      [] i.op = "fptosi" -> GenFPToSI(i)
      [] i.op = "sitofp" -> GenSIToFP(i)
=============================================================================
