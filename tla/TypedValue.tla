----------------------------- MODULE TypedValue -----------------------------
(***************************************************************************)
(* Values of lightir while an expression is built, together with what they *)
(* are when it is executed: each constructor of src/lightir/Instruction.cpp*)
(* is an operator that checks the assertions of the constructor and        *)
(* computes the result.  A failed assertion ends the compiler.             *)
(*                                                                         *)
(* d is a number, counted in sixteenths if the type is float, or the cell  *)
(* a pointer points to.                                                    *)
(***************************************************************************)
EXTENDS Integers

Value(type, d) == [type |-> type, d |-> d]
Failed == Value("failed", 0)

Types == {"i32", "float"}

Unit == 16
Int32(n) == Value("i32", n)
ToZero(n) == IF n < 0 THEN -((-n) \div Unit) ELSE n \div Unit

IsFloat(v) == v.type = "float"
IsInteger(v) == v.type \in {"i1", "i32"}
IsScalarPointer(v) == v.type \in {"i32*", "float*"}
IsArrayPointer(v) == v.type \in {"[i32]*", "[float]*"}
IsPointer(v) == IsScalarPointer(v) \/ IsArrayPointer(v)

\* get_pointer_element_type, and of an array of that.
Pointee(v) == IF v.type \in {"i32*", "[i32]*"} THEN "i32" ELSE "float"
PointerTo(type) == IF type = "i32" THEN "i32*" ELSE "float*"
ArrayOf(type) == IF type = "i32" THEN "[i32]*" ELSE "[float]*"

Bit(b) == IF b THEN 1 ELSE 0

Compare(rel, m, n) ==
    CASE rel = "eq" -> m = n [] rel = "ne" -> m # n [] rel = "lt" -> m < n
      [] rel = "le" -> m <= n [] rel = "gt" -> m > n [] rel = "ge" -> m >= n

Calculate(op, m, n) ==
    CASE op = "add" -> m + n [] op = "sub" -> m - n [] op = "mul" -> m * n

FloatCalculate(op, m, n) == IF op = "mul" THEN (m * n) \div Unit ELSE Calculate(op, m, n)

-----------------------------------------------------------------------------
Load(mem, v) == IF IsScalarPointer(v) THEN Value(Pointee(v), mem[v.d]) ELSE Failed

ZExt(v) == IF v.type = "i1" THEN Int32(v.d) ELSE Failed

\* The only 1 an i1 has is its sign: as a signed number it is -1.
SIToFP(v) ==
    CASE v.type = "i32" -> Value("float", Unit * v.d)
      [] v.type = "i1" -> Value("float", -Unit * v.d)
      [] OTHER -> Failed

FPToSI(v, to) == IF IsFloat(v) /\ to = "i32" THEN Int32(ToZero(v.d)) ELSE Failed

IBinary(op, v, w) ==
    IF v.type = "i32" /\ w.type = "i32" THEN Int32(Calculate(op, v.d, w.d)) ELSE Failed

FBinary(op, v, w) ==
    IF IsFloat(v) /\ IsFloat(w) THEN Value("float", FloatCalculate(op, v.d, w.d)) ELSE Failed

ICmp(rel, v, w) ==
    IF v.type = "i32" /\ w.type = "i32" THEN Value("i1", Bit(Compare(rel, v.d, w.d))) ELSE Failed

FCmp(rel, v, w) ==
    IF IsFloat(v) /\ IsFloat(w) THEN Value("i1", Bit(Compare(rel, v.d, w.d))) ELSE Failed

\* Element i of an array, or behind a pointer.
GetElementPtr(v, i) ==
    IF IsPointer(v) /\ IsInteger(i)
    THEN Value(PointerTo(Pointee(v)), <<v.d[1], v.d[2] + i.d>>) ELSE Failed

StoreTypesMatch(v, ptr) == IsScalarPointer(ptr) /\ Pointee(ptr) = v.type
=============================================================================
