------------------------- MODULE FunctionRunProofs --------------------------
(***************************************************************************)
(* The frame that StackFrame lays out, for any number of values of any     *)
(* size, and the run of FunctionRun, which lays its frame out by allocate  *)
(* and gen_alloca alone.                                                   *)
(***************************************************************************)
EXTENDS FunctionRun, TLAPS

\* Slots and variables follow each other downwards.
Below(v, w) == w.at + w.size <= VariableAt(v)

Descending ==
    /\ \A i \in DOMAIN values :
          /\ values[i].at + values[i].size <= -SavedBytes
          /\ -offset <= VariableAt(values[i])
    /\ \A i, j \in DOMAIN values : i < j => Below(values[i], values[j])

Enough == stage = "laid" => frame_size % 16 = 0 /\ offset <= frame_size

FrameInv == FrameTypeOK /\ offset >= SavedBytes /\ Descending /\ Enough

-----------------------------------------------------------------------------
LEMMA InitOK == FrameInit => FrameInv
  BY DEF FrameInit, FrameInv, FrameTypeOK, Descending, Enough, SavedBytes

\* Rounding up to a multiple of 16.
LEMMA AlignUp ==
  ASSUME NEW x \in Nat
  PROVE  Align(x, 16) \in Nat /\ Align(x, 16) % 16 = 0 /\ x <= Align(x, 16)
  BY DEF Align

\* A value entered below everything given away so far.
LEMMA EnteredBelow ==
  ASSUME StackFrameAssumption, FrameInv, stage # "laid",
         NEW type \in ArgTypes \cup ResultTypes, NEW area \in Nat,
         stage' \in {"args", "results"},
         offset' = offset + Sizes[type] + area,
         values' = Append(values, Entered(type, area)),
         frame_size' = frame_size
  PROVE  FrameInv'
<1> DEFINE v == Entered(type, area)
<1>1. Sizes[type] \in Nat \ {0}
  BY DEF StackFrameAssumption
<1>2. offset \in Nat /\ offset >= 16 /\ frame_size \in Nat
  BY DEF FrameInv, FrameTypeOK, SavedBytes
<1>3. /\ v \in ValueRecord
      /\ v.at = -(offset + Sizes[type]) /\ v.size = Sizes[type] /\ v.area = area
  BY <1>1, <1>2 DEF v, Entered, SlotAt, ValueRecord
<1>10. values' = Append(values, v)
  BY DEF v
<1> HIDE DEF v
<1>4. values \in Seq(ValueRecord)
  BY DEF FrameInv, FrameTypeOK
<1>5. FrameTypeOK'
  BY <1>1, <1>2, <1>3, <1>4, <1>10 DEF FrameTypeOK
<1>6. /\ DOMAIN values' = DOMAIN values \cup {Len(values) + 1}
      /\ \A i \in DOMAIN values : values'[i] = values[i] /\ i < Len(values) + 1
      /\ values'[Len(values) + 1] = v
  BY <1>3, <1>4, <1>10
<1>7. \A i \in DOMAIN values : /\ values[i].at \in Int /\ values[i].size \in Nat
                               /\ values[i].area \in Nat
  <2>1. \A i \in DOMAIN values : values[i] \in ValueRecord
    BY <1>4
  <2> QED
    BY <2>1 DEF ValueRecord
<1>8. Descending'
  <2>1. \A i \in DOMAIN values : /\ values[i].at + values[i].size <= -16
                                 /\ -offset <= values[i].at - values[i].area
    BY DEF FrameInv, Descending, SavedBytes, VariableAt
  <2>2. ASSUME NEW i \in DOMAIN values'
        PROVE  /\ values'[i].at + values'[i].size <= -16
               /\ -offset' <= values'[i].at - values'[i].area
    <3>1. CASE i \in DOMAIN values
      BY <3>1, <2>1, <1>1, <1>2, <1>6, <1>7
    <3>2. CASE i = Len(values) + 1
      BY <3>2, <1>1, <1>2, <1>3, <1>6
    <3> QED
      BY <3>1, <3>2, <1>6
  <2>3. ASSUME NEW i \in DOMAIN values', NEW j \in DOMAIN values', i < j
        PROVE  values'[j].at + values'[j].size <= values'[i].at - values'[i].area
    <3>1. i \in DOMAIN values
      BY <2>3, <1>4, <1>6
    <3>2. CASE j \in DOMAIN values
      BY <3>1, <3>2, <2>3, <1>6 DEF FrameInv, Descending, Below, VariableAt
    <3>3. CASE j = Len(values) + 1
      BY <3>1, <3>3, <2>1, <1>1, <1>2, <1>3, <1>6, <1>7
    <3> QED
      BY <3>2, <3>3, <1>6
  <2> QED
    BY <2>2, <2>3 DEF Descending, Below, VariableAt, SavedBytes
<1>9. Enough' /\ offset' >= SavedBytes
  BY <1>1, <1>2 DEF Enough, SavedBytes
<1> QED
  BY <1>5, <1>8, <1>9 DEF FrameInv

LEMMA StepOK ==
  ASSUME StackFrameAssumption, FrameInv, [Allocate]_fvars
  PROVE  FrameInv'
<1>1. ASSUME NEW type \in ArgTypes, AllocateArg(type)
      PROVE  FrameInv'
  <2>1. type \in ArgTypes \cup ResultTypes /\ 0 \in Nat
    OBVIOUS
  <2>2. offset \in Nat /\ Sizes[type] \in Nat
    BY DEF StackFrameAssumption, FrameInv, FrameTypeOK
  <2>3. offset' = offset + Sizes[type] + 0
    BY <1>1, <2>2 DEF AllocateArg
  <2>4. /\ stage # "laid" /\ stage' \in {"args", "results"}
        /\ values' = Append(values, Entered(type, 0)) /\ frame_size' = frame_size
    BY <1>1 DEF AllocateArg
  <2> QED
    BY <2>1, <2>3, <2>4, EnteredBelow
<1>2. CASE EndArgs
  BY <1>2 DEF EndArgs, FrameInv, FrameTypeOK, Descending, Below, Enough, VariableAt
<1>3. ASSUME NEW type \in ResultTypes, NEW area \in Areas \cup {0}, AllocateResult(type, area)
      PROVE  FrameInv'
  <2>1. type \in ArgTypes \cup ResultTypes /\ area \in Nat
    BY <1>3 DEF StackFrameAssumption
  <2>2. /\ stage # "laid" /\ stage' \in {"args", "results"}
        /\ offset' = offset + Sizes[type] + area
        /\ values' = Append(values, Entered(type, area)) /\ frame_size' = frame_size
    BY <1>3 DEF AllocateResult
  <2> QED
    BY <2>1, <2>2, EnteredBelow
<1>4. CASE AllocateNothing \/ UNCHANGED fvars
  BY <1>4 DEF AllocateNothing, fvars, FrameInv, FrameTypeOK, Descending, Below, Enough, VariableAt
<1>5. CASE EndAllocate
  <2>1. offset \in Nat /\ frame_size' = Align(offset, 16)
    BY <1>5 DEF EndAllocate, FrameInv, FrameTypeOK
  <2>2. frame_size' \in Nat /\ frame_size' % 16 = 0 /\ offset <= frame_size'
    BY <2>1, AlignUp
  <2> QED
    BY <1>5, <2>2 DEF EndAllocate, FrameInv, FrameTypeOK, Descending, Below, Enough, VariableAt
<1> QED
  BY <1>1, <1>2, <1>3, <1>4, <1>5 DEF Allocate

LEMMA FrameInvHolds == FrameSpec => []FrameInv
<1>1. FrameInv /\ [Allocate]_fvars => FrameInv'
  BY StepOK, StackFrameAssumption
<1> QED
  BY InitOK, <1>1, PTL DEF FrameSpec

-----------------------------------------------------------------------------
\* The types of what allocate computes, for frames of any size.
THEOREM FrameTypes == FrameSpec => []FrameTypeOK
  BY FrameInvHolds, PTL DEF FrameInv

\* Whatever a function has for arguments, results and variables: allocate and
\* gen_alloca give each bytes of its own, between the saved registers and the
\* stack pointer.
THEOREM FrameIsDisjoint == FrameSpec => []FrameDisjoint
<1>1. FrameInv => FrameDisjoint
  <2> SUFFICES ASSUME FrameInv PROVE FrameDisjoint
    OBVIOUS
  <2>1. \A i \in DOMAIN values : /\ values[i].at \in Int /\ values[i].size \in Nat \ {0}
                                 /\ values[i].area \in Nat
    <3>1. \A i \in DOMAIN values : values[i] \in ValueRecord
      BY DEF FrameInv, FrameTypeOK
    <3> QED
      BY <3>1 DEF ValueRecord
  <2>2. DOMAIN values \subseteq Nat
    BY DEF FrameInv, FrameTypeOK
  <2>3. \A i \in DOMAIN values :
          LET v == values[i]
          IN  /\ v.at + v.size <= -16 /\ v.at - v.area + v.area <= -16
              /\ Apart(v.at, v.size, v.at - v.area, v.area)
    BY <2>1 DEF FrameInv, Descending, SavedBytes, Apart
  <2>4. \A i, j \in DOMAIN values :
          i < j => values[j].at + values[j].size <= values[i].at - values[i].area
    BY DEF FrameInv, Descending, Below, VariableAt
  <2>5. ASSUME NEW i \in DOMAIN values, NEW j \in DOMAIN values \ {i}
        PROVE  LET v == values[i]
                   w == values[j]
               IN  /\ Apart(v.at, v.size, w.at, w.size)
                   /\ Apart(v.at, v.size, w.at - w.area, w.area)
                   /\ Apart(v.at - v.area, v.area, w.at - w.area, w.area)
    <3>1. CASE i < j
      BY <3>1, <2>1, <2>4 DEF Apart
    <3>2. CASE j < i
      BY <3>2, <2>1, <2>4 DEF Apart
    <3> QED
      BY <3>1, <3>2, <2>2
  <2>6. stage = "laid" =>
          frame_size % 16 = 0 /\ \A i \in DOMAIN values : -frame_size <= values[i].at - values[i].area
    BY <2>1 DEF FrameInv, FrameTypeOK, Descending, Enough, VariableAt
  <2> QED
    BY <2>3, <2>5, <2>6 DEF FrameDisjoint, VariableAt, SavedBytes
<1> QED
  BY <1>1, FrameInvHolds, PTL

-----------------------------------------------------------------------------
(* The run.                                                                *)

LEMMA DrawAllocates ==
  ASSUME NEW instr, NEW type \in ResultTypes, NEW area \in Areas \cup {0},
         Draw(instr, type, area)
  PROVE  Allocate
  BY DEF Draw, Allocate

LEMMA VoidAllocates ==
  ASSUME NEW instr, DrawWithoutResult(instr)
  PROVE  Allocate
  BY DEF DrawWithoutResult, Allocate

LEMMA TypesAreResults ==
  /\ "i1" \in ResultTypes /\ "i32" \in ResultTypes /\ "float" \in ResultTypes
  /\ "i32*" \in ResultTypes /\ "float*" \in ResultTypes /\ "array*" \in ResultTypes
  BY FunctionRunAssumption DEF PointerTypes

LEMMA AreasReserved ==
  4 \in Areas \cup {0} /\ \A n \in Lengths : 4 * n \in Areas \cup {0}
  BY FunctionRunAssumption

LEMMA RunStepAllocates ==
  ASSUME [RunNext]_vars
  PROVE  [Allocate]_fvars
<1>1. CASE DrawArithmetic
  BY <1>1, DrawAllocates, TypesAreResults DEF DrawArithmetic
<1>2. CASE DrawMemory
  <2>1. \A p : Pointee(TypeOf(p)) \in ResultTypes
    BY TypesAreResults DEF Pointee
  <2> QED
    BY <1>2, <2>1, DrawAllocates, VoidAllocates, TypesAreResults, AreasReserved DEF DrawMemory
<1>3. CASE DrawCall
  BY <1>3, DrawAllocates, VoidAllocates, TypesAreResults DEF DrawCall
<1>4. CASE DrawReturn
  BY <1>4 DEF DrawReturn, Allocate
<1>5. CASE \E type \in ArgTypes : DrawArg(type)
  BY <1>5 DEF DrawArg, Allocate
<1>6. CASE EndArgs /\ UNCHANGED <<code, rvars>>
  BY <1>6 DEF Allocate
<1>7. CASE Enter \/ Step \/ UNCHANGED vars
  BY <1>7 DEF Enter, Step, vars
<1> QED
  BY <1>1, <1>2, <1>3, <1>4, <1>5, <1>6, <1>7 DEF RunNext, DrawFunction

\* In every run of a function that is compiled, its values and variables have
\* bytes of their own: FrameIsDisjoint for the programs that are executed.
THEOREM RunFrameIsDisjoint == RunSpec => []FrameDisjoint
<1>1. RunInit => FrameInit
  BY DEF RunInit
<1>2. [RunNext]_vars => [Allocate]_fvars
  BY RunStepAllocates
<1>3. RunSpec => FrameSpec
  BY <1>1, <1>2, PTL DEF RunSpec, FrameSpec
<1> QED
  BY <1>3, FrameIsDisjoint
=============================================================================
