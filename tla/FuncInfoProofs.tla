--------------------------- MODULE FuncInfoProofs ---------------------------
(***************************************************************************)
(* Proofs about FuncInfo, for any set of functions and any call graph.     *)
(* When the worklist runs empty the impure functions are the least set     *)
(* that has those with a reason of their own and is closed under callers.  *)
(* That it runs empty is model-checked.                                    *)
(***************************************************************************)
EXTENDS FuncInfo, TLAPS

\* A reason in the function itself.
HasReason(f) == WritesOutside(f) \/ StricterThanSaid(f)

\* Impure, as far as is known.
Impure == {f \in Funcs \ unmarked : ~is_pure[f]}

\* A set of functions that contains every impure one.
Upper(S) ==
    /\ \A f \in Funcs : HasReason(f) => f \in S
    /\ \A f, g \in Funcs : <<f, g>> \in calls /\ g \in S => f \in S

\* Each function that has a reason is known as soon as it was looked at.
ReasonsKnown == \A f \in Funcs \ unmarked : HasReason(f) => f \in Impure

\* Only the callers of queued functions may still be taken for pure.
CallersKnown ==
    /\ unmarked # {} => worklist = Impure
    /\ unmarked = {} =>
          \A f, g \in Funcs : <<f, g>> \in calls /\ g \in Impure \ worklist => f \in Impure

\* None is impure without a reason.
Justified == \A S \in SUBSET Funcs : Upper(S) => Impure \subseteq S

FuncInfoInv ==
    /\ FuncInfoTypeOK /\ worklist \subseteq Impure
    /\ ReasonsKnown /\ CallersKnown /\ Justified

-----------------------------------------------------------------------------
\* get_first_addr ends at an alloca exactly for the addresses in the frame.
LEMMA LocalIsOwnFrame ==
    ASSUME NEW a, Address(a)
    PROVE  IsLocal(a) <=> InOwnFrame(a)
<1>1. Len(a) \in Nat /\ Len(a) \in DOMAIN a /\ DOMAIN a = 1..Len(a)
  BY DEF Address
<1>2. ASSUME IsLocal(a) PROVE InOwnFrame(a)
  <2>1. PICK i \in DOMAIN a : a[i] = "alloca" /\ \A j \in 1..(i - 1) : a[j] = "gep"
    BY <1>2 DEF IsLocal
  <2>2. i = Len(a)
    BY <2>1 DEF Address, Leaf
  <2> QED BY <2>1, <2>2 DEF InOwnFrame
<1>3. ASSUME InOwnFrame(a) PROVE IsLocal(a)
  BY <1>1, <1>3 DEF InOwnFrame, IsLocal
<1> QED BY <1>2, <1>3

LEMMA TrivialHasNoReason ==
    ASSUME FuncInfoTypeOK, NEW f \in Funcs
    PROVE  TriviallyPure(f) <=> ~HasReason(f)
<1>1. \A a \in shape[f].loads \cup shape[f].stores : IsLocal(a) <=> InOwnFrame(a)
  BY FuncInfoAssumption, LocalIsOwnFrame DEF FuncInfoTypeOK
<1> QED BY <1>1 DEF TriviallyPure, HasReason, WritesOutside, StricterThanSaid

LEMMA InitInv == InfoInit => FuncInfoInv
BY DEF InfoInit, FuncInfoInv, FuncInfoTypeOK, Impure, ReasonsKnown, CallersKnown, Justified

\* What a step leaves alone.
LEMMA ProgramFixed ==
    ASSUME [InfoNext]_fvars
    PROVE  /\ shape' = shape /\ calls' = calls
           /\ \A f \in Funcs : HasReason(f)' <=> HasReason(f)
           /\ \A S : Upper(S)' <=> Upper(S)
<1>1. shape' = shape /\ calls' = calls
  BY DEF InfoNext, TrivialMark, Process, fvars
<1> QED BY <1>1 DEF HasReason, WritesOutside, StricterThanSaid, Upper

LEMMA MarkStep ==
    ASSUME FuncInfoInv, NEW f \in Funcs, TrivialMark(f)
    PROVE  FuncInfoInv'
<1>1. /\ shape' = shape /\ calls' = calls /\ unmarked' = unmarked \ {f}
      /\ f \in unmarked /\ unmarked # {} /\ worklist = Impure
      /\ is_pure' = [is_pure EXCEPT ![f] = TriviallyPure(f)]
  BY DEF TrivialMark, FuncInfoInv, CallersKnown
<1>2. TriviallyPure(f) <=> ~HasReason(f)
  BY TrivialHasNoReason DEF FuncInfoInv
<1>3. /\ is_pure' \in [Funcs -> BOOLEAN] /\ is_pure'[f] = TriviallyPure(f)
      /\ \A g \in Funcs \ {f} : is_pure'[g] = is_pure[g]
  <2>1. TriviallyPure(f) \in BOOLEAN
    BY DEF TriviallyPure
  <2> QED BY <1>1, <2>1 DEF FuncInfoInv, FuncInfoTypeOK
<1>4. Impure' = IF TriviallyPure(f) THEN Impure ELSE Impure \cup {f}
  BY <1>1, <1>3 DEF Impure, FuncInfoInv, FuncInfoTypeOK
<1>5. worklist' = Impure'
  BY <1>1, <1>4 DEF TrivialMark
<1>6. FuncInfoTypeOK'
  BY <1>1, <1>3, <1>5 DEF FuncInfoInv, FuncInfoTypeOK, Impure
<1>7. ReasonsKnown'
  BY <1>1, <1>2, <1>4 DEF FuncInfoInv, ReasonsKnown, HasReason, WritesOutside, StricterThanSaid
<1>8. CallersKnown'
  BY <1>5 DEF CallersKnown
<1>9. Justified'
  <2>1. ASSUME NEW S \in SUBSET Funcs, Upper(S) PROVE Impure' \subseteq S
    BY <1>2, <1>4, <2>1 DEF FuncInfoInv, Justified, Upper
  <2> QED BY <1>1, <2>1 DEF Justified, Upper, HasReason, WritesOutside, StricterThanSaid
<1> QED BY <1>5, <1>6, <1>7, <1>8, <1>9 DEF FuncInfoInv

LEMMA ProcessStep ==
    ASSUME FuncInfoInv, NEW f \in Funcs, Process(f)
    PROVE  FuncInfoInv'
<1>1. /\ shape' = shape /\ calls' = calls /\ unmarked' = {} /\ unmarked = {}
      /\ is_pure' = [g \in Funcs |-> is_pure[g] /\ g \notin PureCallers(f)]
      /\ worklist' = (worklist \ {f}) \cup PureCallers(f)
      /\ f \in Impure
  BY DEF Process, FuncInfoInv
<1>2. Impure' = Impure \cup PureCallers(f)
  BY <1>1 DEF Impure, PureCallers
<1>3. is_pure' \in [Funcs -> BOOLEAN]
  <2>1. \A g \in Funcs : (is_pure[g] /\ g \notin PureCallers(f)) \in BOOLEAN
    OBVIOUS
  <2> QED BY <1>1, <2>1
<1>4. worklist' \subseteq Impure'
  BY <1>1, <1>2 DEF FuncInfoInv
<1>5. FuncInfoTypeOK'
  BY <1>1, <1>3, <1>4 DEF FuncInfoInv, FuncInfoTypeOK, Impure
<1>6. ReasonsKnown'
  BY <1>1, <1>2 DEF FuncInfoInv, ReasonsKnown, HasReason, WritesOutside, StricterThanSaid
<1>7. CallersKnown'
  <2>1. ASSUME NEW g \in Funcs, NEW h \in Funcs, <<g, h>> \in calls,
               h \in Impure' \ worklist'
        PROVE  g \in Impure'
    <3>1. CASE h = f
      BY <1>1, <1>2, <2>1, <3>1 DEF Impure, PureCallers
    <3>2. CASE h # f
      BY <1>1, <1>2, <2>1, <3>2 DEF FuncInfoInv, CallersKnown
    <3> QED BY <3>1, <3>2
  <2> QED BY <1>1, <2>1 DEF CallersKnown
<1>8. Justified'
  <2>1. ASSUME NEW S \in SUBSET Funcs, Upper(S) PROVE Impure' \subseteq S
    BY <1>1, <1>2, <2>1 DEF FuncInfoInv, Justified, Upper, PureCallers
  <2> QED BY <1>1, <2>1 DEF Justified, Upper, HasReason, WritesOutside, StricterThanSaid
<1> QED BY <1>4, <1>5, <1>6, <1>7, <1>8 DEF FuncInfoInv

LEMMA Invariance == InfoSpec => []FuncInfoInv
<1>1. FuncInfoInv /\ [InfoNext]_fvars => FuncInfoInv'
  <2>1. ASSUME FuncInfoInv, UNCHANGED fvars PROVE FuncInfoInv'
    BY <2>1 DEF fvars, FuncInfoInv, FuncInfoTypeOK, Impure, ReasonsKnown, CallersKnown,
                Justified, Upper, HasReason, WritesOutside, StricterThanSaid
  <2> QED BY MarkStep, ProcessStep, <2>1 DEF InfoNext
<1> QED BY InitInv, <1>1, PTL DEF InfoSpec

-----------------------------------------------------------------------------
\* Whatever is queued is impure, for any module.
THEOREM FuncInfoTypes == InfoSpec => []FuncInfoTypeOK
<1>1. FuncInfoInv => FuncInfoTypeOK
  BY DEF FuncInfoInv
<1> QED BY Invariance, <1>1, PTL

\* is_pure_function never answers yes for a function that could write or read
\* beyond its frame, at any depth of calls, recursion included.
THEOREM PurityIsSound == InfoSpec => []PuritySound
<1>1. ASSUME FuncInfoInv, Done, NEW f \in Funcs, is_pure[f]
      PROVE  /\ ~HasReason(f)
             /\ \A g \in Funcs : <<f, g>> \in calls => is_pure[g]
  BY <1>1 DEF FuncInfoInv, Done, ReasonsKnown, CallersKnown, Impure
<1>2. FuncInfoInv => PuritySound
  BY <1>1 DEF PuritySound, HasReason
<1> QED BY Invariance, <1>2, PTL

\* It answers no for no others.
THEOREM PurityIsComplete == InfoSpec => []PurityComplete
<1>1. ASSUME FuncInfoInv, Done, NEW S \in SUBSET Funcs, Upper(S), NEW f \in Funcs
      PROVE  is_pure[f] \/ f \in S
  BY <1>1 DEF FuncInfoInv, Done, Justified, Impure
<1>2. FuncInfoInv => PurityComplete
  BY <1>1 DEF PurityComplete, Upper, HasReason
<1> QED BY Invariance, <1>2, PTL

\* No function enters the worklist again after it has left it.
THEOREM FunctionsQueuedOnce == InfoSpec => QueuedOnce
<1>1. FuncInfoInv /\ [InfoNext]_fvars =>
        [ \A f \in Funcs : unmarked = {} /\ f \notin worklist /\ ~is_pure[f]
                              => f \notin worklist' ]_fvars
  BY DEF InfoNext, TrivialMark, Process, PureCallers, FuncInfoInv, FuncInfoTypeOK, fvars
<1> QED BY Invariance, <1>1, PTL DEF InfoSpec, QueuedOnce
=============================================================================
