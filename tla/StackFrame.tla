----------------------------- MODULE StackFrame -----------------------------
(***************************************************************************)
(* The stack frame of one function: CodeGen::allocate, and the address     *)
(* that gen_alloca computes (src/codegen/CodeGen.cpp).                     *)
(*                                                                         *)
(* Every argument and every result has a slot for its whole life, below    *)
(* the saved $ra and $fp; an alloca has the variable itself below its      *)
(* slot.  The function is drawn while it is allocated: a step is one       *)
(* iteration of the loops of allocate.  Addresses are relative to $fp;     *)
(* offsets of 2^31 and more, where unsigned and int differ, are beyond     *)
(* MaxFrame.                                                               *)
(***************************************************************************)
EXTENDS Integers, Sequences

CONSTANTS
    ArgTypes,       \* types of the arguments a function may have
    ResultTypes,    \* types of the results instructions may have
    Sizes,          \* get_size() of each of these types
    Areas,          \* sizes of the variables that an alloca may reserve
    MaxValues,      \* bound on arguments and results
    MaxFrame        \* bound on the frame, in bytes

ASSUME StackFrameAssumption ==
    /\ Sizes \in [ArgTypes \cup ResultTypes -> Nat \ {0}]
    /\ Areas \subseteq Nat
    /\ MaxValues \in Nat /\ MaxFrame \in Nat

VARIABLES
    stage,      \* "args", "results" or "laid"
    values,     \* arguments, then results: type, slot, bytes of the variable
    offset,     \* bytes given away
    frame_size

fvars == <<stage, values, offset, frame_size>>

\* PROLOGUE_OFFSET_BASE and ALIGN.
SavedBytes == 16
Align(x, a) == ((x + (a - 1)) \div a) * a

FrameInit ==
    /\ stage = "args"
    /\ values = <<>>
    /\ offset = SavedBytes
    /\ frame_size = 0

\* Mutant: the slot begins where the bytes given away end.
SlotAtEnd(given, size) == -given

\* context.offset_map of a value of this size.
SlotAt(given, size) == -(given + size)

Entered(type, area) ==
    [type |-> type, at |-> SlotAt(offset, Sizes[type]), size |-> Sizes[type], area |-> area]

AllocateArg(type) ==
    /\ stage = "args" /\ Len(values) < MaxValues
    /\ offset + Sizes[type] <= MaxFrame
    /\ offset' = offset + Sizes[type]
    /\ values' = Append(values, Entered(type, 0))
    /\ UNCHANGED <<stage, frame_size>>

EndArgs ==
    /\ stage = "args"
    /\ stage' = "results"
    /\ UNCHANGED <<values, offset, frame_size>>

\* A slot for the result and, of an alloca, area bytes for the variable.
AllocateResult(type, area) ==
    /\ stage = "results" /\ Len(values) < MaxValues
    /\ offset + Sizes[type] + area <= MaxFrame
    /\ offset' = offset + Sizes[type] + area
    /\ values' = Append(values, Entered(type, area))
    /\ UNCHANGED <<stage, frame_size>>

\* Store, return and calls without a result.
AllocateNothing == stage = "results" /\ UNCHANGED fvars

EndAllocate ==
    /\ stage = "results"
    /\ stage' = "laid"
    /\ frame_size' = Align(offset, 16)
    /\ UNCHANGED <<values, offset>>

Allocate ==
    \/ \E type \in ArgTypes : AllocateArg(type)
    \/ EndArgs
    \/ \E type \in ResultTypes, area \in Areas \cup {0} : AllocateResult(type, area)
    \/ AllocateNothing
    \/ EndAllocate

FrameSpec == FrameInit /\ [][Allocate]_fvars

\* gen_alloca: the address of the variable is the slot's minus its size.
VariableAt(v) == v.at - v.area

-----------------------------------------------------------------------------
\* n bytes from a on and m bytes from b on have none in common.
Apart(a, n, b, m) == a + n <= b \/ b + m <= a

ValueRecord == [type : ArgTypes \cup ResultTypes, at : Int, size : Nat \ {0}, area : Nat]

FrameTypeOK ==
    /\ stage \in {"args", "results", "laid"}
    /\ offset \in Nat /\ frame_size \in Nat
    /\ values \in Seq(ValueRecord)

\* allocate computes where slots are, gen_alloca separately where variables
\* are.  No two of them share a byte, none reaches into the saved registers,
\* and none lies below the stack pointer, where the frames of callees begin.
FrameDisjoint ==
    /\ \A i \in DOMAIN values :
          LET v == values[i]
          IN  /\ Apart(v.at, v.size, VariableAt(v), v.area)
              /\ v.at + v.size <= -SavedBytes
              /\ VariableAt(v) + v.area <= -SavedBytes
              /\ \A j \in DOMAIN values \ {i} :
                    LET w == values[j]
                    IN  /\ Apart(v.at, v.size, w.at, w.size)
                        /\ Apart(v.at, v.size, VariableAt(w), w.area)
                        /\ Apart(VariableAt(v), v.area, VariableAt(w), w.area)
    /\ stage = "laid" =>
          /\ frame_size % 16 = 0
          /\ \A i \in DOMAIN values : -frame_size <= VariableAt(values[i])
=============================================================================
