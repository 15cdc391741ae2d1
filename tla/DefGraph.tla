------------------------------ MODULE DefGraph ------------------------------
(***************************************************************************)
(* What lightir promises the passes about operands: a graph of values in   *)
(* which an edit of an operand, the substitution of a value by another and *)
(* the destruction of a value are single steps.  There are no use lists    *)
(* here; UseDef implements this module with them.                          *)
(***************************************************************************)
EXTENDS Naturals, Sequences

CONSTANTS Inst, Phi, Block, Leaf, Null, MaxOperands, MaxCtorOperands

VARIABLES
    alive,      \* Values that exist
    operands    \* operand vector of every instruction

vars == <<alive, operands>>

Datum == Inst \cup Leaf

Subst(s, old, new) == [i \in DOMAIN s |-> IF s[i] = old THEN new ELSE s[i]]

SubstEverywhere(ops, old, new) == [u \in Inst |-> Subst(ops[u], old, new)]

Init ==
    /\ alive = Leaf
    /\ operands = [u \in Inst |-> <<>>]

\* A new instruction refers to existing values only.
NewInst(u) ==
    /\ u \notin alive
    /\ alive' = alive \cup {u}
    /\ \E n \in 0..MaxCtorOperands : \E ops \in [1..n -> alive] :
          operands' = [operands EXCEPT ![u] = ops]

NewBlock(b) ==
    /\ b \notin alive
    /\ alive' = alive \cup {b}
    /\ UNCHANGED operands

\* A phi gains a pair at its end ...
GainPair(u) ==
    /\ u \in alive
    /\ \E val \in alive \cap Datum, bb \in alive \cap Block :
          operands' = [operands EXCEPT ![u] = @ \o <<val, bb>>]
    /\ UNCHANGED alive

\* ... or loses the pair that starts at some position i.
LosePair(u) ==
    /\ u \in alive
    /\ \E i \in 1..(Len(operands[u]) - 1) :
          operands' = [operands EXCEPT ![u] =
              [j \in 1..(Len(operands[u]) - 2) |->
                  IF j < i THEN operands[u][j] ELSE operands[u][j + 2]]]
    /\ UNCHANGED alive

Retarget(u) ==
    /\ u \in alive
    /\ \E i \in DOMAIN operands[u], bb \in alive \cap Block :
          operands' = [operands EXCEPT ![u][i] = bb]
    /\ UNCHANGED alive

Forget(u) ==
    /\ u \in alive
    /\ operands' = [operands EXCEPT ![u] = <<>>]
    /\ UNCHANGED alive

\* All occurrences of old become new at once.
Substitute(old, new) ==
    /\ old \in alive /\ new \in alive
    /\ operands' = SubstEverywhere(operands, old, new)
    /\ UNCHANGED alive

\* A value that disappears leaves Null behind wherever it was used.
Destroy(v) ==
    /\ v \in alive
    /\ alive' = alive \ {v}
    /\ operands' = [u \in Inst |->
                      IF u = v THEN <<>> ELSE Subst(operands[u], v, Null)]

Next ==
    \/ \E u \in Inst : NewInst(u) \/ GainPair(u) \/ LosePair(u)
                         \/ Retarget(u) \/ Forget(u)
    \/ \E b \in Block : NewBlock(b) \/ Destroy(b)
    \/ \E old \in Inst, new \in Datum : Substitute(old, new)
    \/ \E u \in Inst : Destroy(u)

Spec == Init /\ [][Next]_vars
=============================================================================
