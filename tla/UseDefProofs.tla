---------------------------- MODULE UseDefProofs ----------------------------
(***************************************************************************)
(* Proofs about UseDef: the use lists and the operand vectors agree in     *)
(* every reachable state, no pointer to a destroyed object is followed,    *)
(* and UseDef implements DefGraph.                                         *)
(*                                                                         *)
(* The argument goes user by user.  ExactFor says that the use lists are   *)
(* right about one user, SameElsewhere that an update touched no other;    *)
(* one lemma per operation of User shows both, and the invariant follows.  *)
(***************************************************************************)
EXTENDS UseDef, SequenceTheorems, TLAPS

UseLists == [Value -> SUBSET Use]
Vectors == {s \in Seq(Value \cup {Null}) : Len(s) <= MaxOperands}

ExactFor(us, u, s) ==
    \A v \in Value, i \in 1..MaxOperands :
        <<u, i>> \in us[v] <=> i \in 1..Len(s) /\ s[i] = v

SameElsewhere(us, us2, u) ==
    \A v \in Value, w \in Inst \ {u}, i \in 1..MaxOperands :
        <<w, i>> \in us2[v] <=> <<w, i>> \in us[v]

-----------------------------------------------------------------------------
\* A sequence has one length.
LEMMA SameRange ==
    ASSUME NEW m \in Nat, NEW n \in Nat, 1..m = 1..n
    PROVE  m = n
<1>1. m = 0 \/ m \in 1..n
  OBVIOUS
<1>2. n = 0 \/ n \in 1..m
  OBVIOUS
<1> QED BY <1>1, <1>2

\* Positions of values and blocks alternate.
LEMMA Parity ==
    ASSUME NEW n \in Nat
    PROVE  /\ n % 2 = 0 => (n + 1) % 2 = 1
           /\ n % 2 # 0 => (n + 1) % 2 = 0
           /\ n % 2 = 0 <=> (n + 2) % 2 = 0
           /\ n % 2 = 1 <=> (n + 2) % 2 = 1
OBVIOUS

-----------------------------------------------------------------------------
(* One lemma per operation of User.                                        *)

\* add_operand registers each new operand under its own number.
LEMMA AppendExact ==
    ASSUME NEW us \in UseLists, NEW u \in Inst, NEW s \in Vectors,
           NEW more \in Seq(Value), Len(s) + Len(more) <= MaxOperands,
           ExactFor(us, u, s)
    PROVE  /\ s \o more \in Vectors
           /\ UsesAfterAppend(us, u, s, more) \in UseLists
           /\ ExactFor(UsesAfterAppend(us, u, s, more), u, s \o more)
           /\ SameElsewhere(us, UsesAfterAppend(us, u, s, more), u)
<1> DEFINE us2 == UsesAfterAppend(us, u, s, more)
<1>0. MaxOperands \in Nat /\ Len(s) \in Nat /\ Len(more) \in Nat
  BY UseDefAssumption DEF Vectors
<1>1. s \o more \in Vectors
  BY <1>0 DEF Vectors
<1>2. us2 \in UseLists
  <2>1. ASSUME NEW v \in Value, NEW i \in At(more, v)
        PROVE  <<u, Len(s) + i>> \in Use
    BY <1>0 DEF At, Use
  <2> QED BY <2>1 DEF UsesAfterAppend, UseLists
<1>3. ExactFor(us2, u, s \o more)
  <2> SUFFICES ASSUME NEW v \in Value, NEW i \in 1..MaxOperands
               PROVE  <<u, i>> \in us2[v]
                        <=> i \in 1..Len(s \o more) /\ (s \o more)[i] = v
    BY DEF ExactFor
  <2>1. <<u, i>> \in us2[v] <=>
            (i \in 1..Len(s) /\ s[i] = v) \/ (\E j \in At(more, v) : i = Len(s) + j)
    BY DEF ExactFor, UsesAfterAppend
  <2>2. (\E j \in At(more, v) : i = Len(s) + j)
            <=> i - Len(s) \in 1..Len(more) /\ more[i - Len(s)] = v
    BY <1>0 DEF At
  <2> QED BY <2>1, <2>2, <1>0 DEF Vectors
<1>4. SameElsewhere(us, us2, u)
  BY DEF SameElsewhere, UsesAfterAppend
<1> QED BY <1>1, <1>2, <1>3, <1>4

\* remove_all_operands takes the user off every use list.
LEMMA ClearExact ==
    ASSUME NEW us \in UseLists, NEW u \in Inst, NEW s \in Vectors,
           ExactFor(us, u, s)
    PROVE  /\ UsesAfterClear(us, u, s) \in UseLists
           /\ ExactFor(UsesAfterClear(us, u, s), u, <<>>)
           /\ SameElsewhere(us, UsesAfterClear(us, u, s), u)
<1> DEFINE us2 == UsesAfterClear(us, u, s)
<1>1. us2 \in UseLists
  BY DEF UseLists, UsesAfterClear
<1>2. ASSUME NEW v \in Value, NEW i \in 1..MaxOperands
      PROVE  <<u, i>> \notin us2[v]
  BY DEF ExactFor, UsesAfterClear, At, Vectors
<1>3. ExactFor(us2, u, <<>>)
  BY <1>2 DEF ExactFor
<1>4. SameElsewhere(us, us2, u)
  BY DEF SameElsewhere, UsesAfterClear
<1> QED BY <1>1, <1>3, <1>4

\* set_operand moves one use from the old operand to the new one.
LEMMA SetExact ==
    ASSUME NEW us \in UseLists, NEW u \in Inst, NEW s \in Vectors,
           NEW i \in 1..Len(s), NEW new \in Value \cup {Null},
           ExactFor(us, u, s)
    PROVE  /\ [s EXCEPT ![i] = new] \in Vectors
           /\ UsesAfterSet(us, u, s, i, new) \in UseLists
           /\ ExactFor(UsesAfterSet(us, u, s, i, new), u, [s EXCEPT ![i] = new])
           /\ SameElsewhere(us, UsesAfterSet(us, u, s, i, new), u)
<1> DEFINE us2 == UsesAfterSet(us, u, s, i, new)
           t   == [s EXCEPT ![i] = new]
<1>0. MaxOperands \in Nat /\ Null \notin Value
  BY UseDefAssumption DEF Value
<1>1. t \in Vectors /\ Len(t) = Len(s)
  BY DEF Vectors
<1>2. <<u, i>> \in Use
  BY <1>0 DEF Use, Vectors
<1>3. s[i] \in Value \cup {Null}
  BY DEF Vectors
<1>4. /\ us2 \in UseLists
      /\ \A v \in Value, use \in Use :
            use \in us2[v] <=>
                IF use = <<u, i>> /\ v = new THEN TRUE
                ELSE IF use = <<u, i>> /\ v = s[i] THEN FALSE
                ELSE use \in us[v]
  BY <1>0, <1>2, <1>3 DEF UsesAfterSet, AddUse, RemoveUse, UseLists
<1>5. ExactFor(us2, u, t)
  <2> SUFFICES ASSUME NEW v \in Value, NEW j \in 1..MaxOperands
               PROVE  <<u, j>> \in us2[v] <=> j \in 1..Len(t) /\ t[j] = v
    BY DEF ExactFor
  <2>1. <<u, j>> \in us[v] <=> j \in 1..Len(s) /\ s[j] = v
    BY DEF ExactFor
  <2>2. <<u, j>> \in us2[v] <=>
            IF j = i /\ v = new THEN TRUE
            ELSE IF j = i /\ v = s[i] THEN FALSE ELSE <<u, j>> \in us[v]
    BY <1>4 DEF Use
  <2>3. j \in 1..Len(s) => t[j] = IF j = i THEN new ELSE s[j]
    BY DEF Vectors
  <2> QED BY <2>1, <2>2, <2>3, <1>1
<1>6. SameElsewhere(us, us2, u)
  BY <1>4 DEF SameElsewhere, Use
<1> QED BY <1>1, <1>4, <1>5, <1>6

\* remove_operand keeps the lists right provided the next operand differs.
LEMMA EraseExact ==
    ASSUME NEW us \in UseLists, NEW u \in Inst, NEW s \in Vectors,
           NEW k \in 1..Len(s), k < Len(s) => s[k + 1] # s[k],
           ExactFor(us, u, s)
    PROVE  /\ Erase(s, k) \in Vectors
           /\ Len(Erase(s, k)) = Len(s) - 1
           /\ UsesAfterErase(us, u, s, k) \in UseLists
           /\ ExactFor(UsesAfterErase(us, u, s, k), u, Erase(s, k))
           /\ SameElsewhere(us, UsesAfterErase(us, u, s, k), u)
<1> DEFINE us2 == UsesAfterErase(us, u, s, k)
           t   == Erase(s, k)
           Behind(v) == {i \in At(s, v) : i > k}
<1>0. /\ MaxOperands \in Nat /\ Len(s) \in Nat /\ Len(s) <= MaxOperands
      /\ s \in Seq(Value \cup {Null}) /\ DOMAIN s = 1..Len(s)
      /\ k \in Nat \ {0}
  BY UseDefAssumption DEF Vectors
<1>1. t \in Seq(Value \cup {Null}) /\ Len(t) = Len(s) - 1
  <2>1. t \in [1..(Len(s) - 1) -> Value \cup {Null}]
    BY <1>0 DEF Erase
  <2>2. t \in Seq(Value \cup {Null})
    BY <2>1, <1>0, SeqDef
  <2>3. DOMAIN t = 1..Len(t) /\ Len(t) \in Nat
    BY <2>2, LenProperties
  <2>4. 1..Len(t) = 1..(Len(s) - 1)
    BY <2>1, <2>3
  <2>5. Len(s) - 1 \in Nat
    BY <1>0
  <2> QED BY <2>2, <2>3, <2>4, <2>5, SameRange
<1>2. ASSUME NEW v \in Value
      PROVE  us2[v] \in SUBSET Use
  <2>1. ASSUME NEW i \in Behind(v)
        PROVE  <<u, i - 1>> \in Use
    BY <1>0 DEF At, Use
  <2>2. us[v] \in SUBSET Use
    BY DEF UseLists
  <2> QED BY <2>1, <2>2 DEF UsesAfterErase
<1>3. us2 \in UseLists
  BY <1>2 DEF UseLists, UsesAfterErase
<1>4. ExactFor(us2, u, t)
  <2> SUFFICES ASSUME NEW v \in Value, NEW j \in 1..MaxOperands
               PROVE  <<u, j>> \in us2[v] <=> j \in 1..Len(t) /\ t[j] = v
    BY DEF ExactFor
  <2>1. \A i \in 1..MaxOperands :
            <<u, i>> \in us[v] <=> i \in 1..Len(s) /\ s[i] = v
    BY DEF ExactFor
  <2>2. /\ j \in Behind(v) <=> j \in 1..Len(s) /\ s[j] = v /\ j > k
        /\ j + 1 \in Behind(v) <=> j + 1 \in 1..Len(s) /\ s[j + 1] = v /\ j + 1 > k
    BY <1>0 DEF At
  <2>3. <<u, j>> \in us2[v] <=>
            /\ \/ <<u, j>> \in us[v] /\ j \notin Behind(v)
               \/ j + 1 \in Behind(v)
            /\ ~ (s[k] = v /\ j = k)
    <3>1. (\E i \in Behind(v) : <<u, j>> = <<u, i - 1>>) <=> j + 1 \in Behind(v)
      BY <1>0 DEF At
    <3>2. (\E i \in Behind(v) : <<u, j>> = <<u, i>>) <=> j \in Behind(v)
      OBVIOUS
    <3> QED BY <3>1, <3>2 DEF UsesAfterErase
  <2>4. j \in 1..(Len(s) - 1) => t[j] = IF j < k THEN s[j] ELSE s[j + 1]
    BY DEF Erase
  <2> HIDE DEF us2, t, Behind
  <2>5. CASE j < k
    BY <2>1, <2>2, <2>3, <2>4, <2>5, <1>0, <1>1
  <2>6. CASE j = k
    BY <2>1, <2>2, <2>3, <2>4, <2>6, <1>0, <1>1
  <2>7. CASE j > k
    BY <2>1, <2>2, <2>3, <2>4, <2>7, <1>0, <1>1
  <2> QED BY <2>5, <2>6, <2>7, <1>0
<1>5. SameElsewhere(us, us2, u)
  BY DEF SameElsewhere, UsesAfterErase
<1> QED BY <1>0, <1>1, <1>3, <1>4, <1>5 DEF Vectors

\* Two erasures at the same place remove a pair.
LEMMA EraseTwice ==
    ASSUME NEW s \in Vectors, NEW i \in 1..(Len(s) - 1)
    PROVE  Erase(Erase(s, i), i) =
             [j \in 1..(Len(s) - 2) |-> IF j < i THEN s[j] ELSE s[j + 2]]
<1> DEFINE one == Erase(s, i)
<1>1. Len(s) \in Nat /\ i \in Nat /\ i < Len(s)
  BY DEF Vectors
<1>2. one = [j \in 1..(Len(s) - 1) |-> IF j < i THEN s[j] ELSE s[j + 1]]
  BY DEF Erase
<1>3. Len(one) = Len(s) - 1
  <2>1. \A j \in 1..(Len(s) - 1) : s[j] \in Value \cup {Null}
                                  /\ s[j + 1] \in Value \cup {Null}
    BY <1>1 DEF Vectors
  <2>2. one \in [1..(Len(s) - 1) -> Value \cup {Null}] /\ Len(s) - 1 \in Nat
    BY <1>1, <1>2, <2>1
  <2>3. one \in Seq(Value \cup {Null})
    BY <2>2, SeqDef
  <2>4. Len(one) \in Nat /\ 1..Len(one) = 1..(Len(s) - 1)
    BY <2>2, <2>3, LenProperties
  <2> QED BY <2>2, <2>4, SameRange
<1>4. Erase(one, i) =
         [j \in 1..(Len(s) - 2) |-> IF j < i THEN one[j] ELSE one[j + 1]]
  <2>1. Len(one) - 1 = Len(s) - 2
    BY <1>1, <1>3
  <2> HIDE DEF one
  <2> QED BY <2>1 DEF Erase
<1>5. ASSUME NEW j \in 1..(Len(s) - 2)
      PROVE  (IF j < i THEN one[j] ELSE one[j + 1])
               = (IF j < i THEN s[j] ELSE s[j + 2])
  <2>1. j \in 1..(Len(s) - 1) /\ j + 1 \in 1..(Len(s) - 1) /\ (j + 1) + 1 = j + 2
        /\ (~ (j < i) => ~ (j + 1 < i))
    BY <1>1
  <2> HIDE DEF one
  <2> QED BY <2>1, <1>2
<1> HIDE DEF one
<1>6. Erase(one, i) =
         [j \in 1..(Len(s) - 2) |-> IF j < i THEN s[j] ELSE s[j + 2]]
  BY <1>4, <1>5
<1> QED BY <1>6 DEF one

-----------------------------------------------------------------------------
(* The invariant.                                                          *)

\* Agreement, user by user.
LEMMA AgreeByUser ==
    ASSUME NEW us \in UseLists, NEW ops \in [Inst -> Vectors]
    PROVE  Agree(us, ops) <=> \A u \in Inst : ExactFor(us, u, ops[u])
<1>1. Agree(us, ops) <=>
        \A v \in Value, u \in Inst, i \in 1..MaxOperands :
            <<u, i>> \in us[v] <=> i \in DOMAIN ops[u] /\ ops[u][i] = v
  BY DEF Agree, UseLists, Use
<1>2. \A u \in Inst : DOMAIN ops[u] = 1..Len(ops[u])
  BY DEF Vectors
<1> QED BY <1>1, <1>2 DEF ExactFor

\* TypeOK in terms of the sets the lemmas above speak of.
LEMMA TypeOKSets ==
    TypeOK <=> /\ alive \subseteq Value
               /\ operands \in [Inst -> Vectors]
               /\ uses \in UseLists
               /\ job \in Jobs
BY DEF TypeOK, Vectors, UseLists

\* An operation that edits one user and is right about it keeps the types and
\* the agreement of the two directions.
LEMMA OneUserStep ==
    ASSUME TypeOK, UseDefExact, NEW u \in Inst, NEW t \in Vectors,
           operands' = [operands EXCEPT ![u] = t],
           uses' \in UseLists, ExactFor(uses', u, t),
           SameElsewhere(uses, uses', u)
    PROVE  /\ operands' \in [Inst -> Vectors]
           /\ UseDefExact'
<1>1. operands \in [Inst -> Vectors] /\ uses \in UseLists
  BY TypeOKSets
<1>2. operands' \in [Inst -> Vectors]
  BY <1>1
<1>3. ASSUME NEW w \in Inst
      PROVE  ExactFor(uses', w, operands'[w])
  <2>1. CASE w = u
    BY <2>1, <1>1
  <2>2. CASE w # u
    <3>1. ExactFor(uses, w, operands[w])
      BY <1>1, AgreeByUser DEF UseDefExact
    <3>2. operands'[w] = operands[w]
      BY <2>2, <1>1
    <3> QED BY <3>1, <3>2, <2>2 DEF ExactFor, SameElsewhere
  <2> QED BY <2>1, <2>2
<1>4. UseDefExact'
  <2>1. Agree(uses', operands')
    BY <1>2, <1>3, AgreeByUser
  <2> QED BY <2>1 DEF UseDefExact, Agree
<1> QED BY <1>2, <1>4


\* NoDanglingUse in terms of the operand vectors alone: a destroyed user has
\* none, and what a vector refers to exists or is being destroyed.
DeadBare == \A u \in Inst \ alive : operands[u] = <<>>

Referable == alive \cup {Null} \cup (IF job.kind = "destroy" THEN {job.old} ELSE {})

RefsOK == \A u \in Inst : \A i \in DOMAIN operands[u] : operands[u][i] \in Referable

LEMMA NoDanglingByVectors ==
    TypeOK /\ UseDefExact => (NoDanglingUse <=> DeadBare /\ RefsOK)
<1> SUFFICES ASSUME TypeOK, UseDefExact
             PROVE  NoDanglingUse <=> DeadBare /\ RefsOK
  OBVIOUS
<1>0. /\ operands \in [Inst -> Vectors] /\ uses \in UseLists
      /\ alive \subseteq Value /\ job \in Jobs /\ MaxOperands \in Nat
      /\ Null \notin Value
  BY TypeOKSets, UseDefAssumption DEF Value
<1>1. \A v \in Value, u \in Inst, i \in 1..MaxOperands :
          <<u, i>> \in uses[v] <=> i \in 1..Len(operands[u]) /\ operands[u][i] = v
  BY <1>0, AgreeByUser DEF UseDefExact, ExactFor
<1>2. \A u \in Inst : /\ operands[u] \in Seq(Value \cup {Null})
                      /\ DOMAIN operands[u] = 1..Len(operands[u])
                      /\ Len(operands[u]) \in 0..MaxOperands
  BY <1>0 DEF Vectors
<1>3. ASSUME NoDanglingUse
      PROVE  DeadBare /\ RefsOK
  BY <1>3 DEF RefsOK, Referable, NoDanglingUse, DeadBare
<1>4. ASSUME DeadBare, RefsOK
      PROVE  NoDanglingUse
  <2>1. ASSUME NEW v \in Value, NEW use \in uses[v]
        PROVE  use[1] \in alive /\ v \in Referable
    <3>1. PICK u \in Inst, i \in 1..MaxOperands : use = <<u, i>>
      BY <1>0 DEF UseLists, Use
    <3>2. i \in 1..Len(operands[u]) /\ operands[u][i] = v
      BY <3>1, <1>1
    <3> QED BY <3>1, <3>2, <1>2, <1>4 DEF DeadBare, RefsOK
  <2> QED BY <2>1, <1>0, <1>4 DEF NoDanglingUse, DeadBare, RefsOK, Referable
<1> QED BY <1>3, <1>4


LEMMA IInvByVectors ==
    IInv <=> TypeOK /\ UseDefExact /\ PhiAlternates /\ DeadBare /\ RefsOK /\ JobOK
BY NoDanglingByVectors DEF IInv

\* The invariant survives an edit of one vector that is right about the use
\* lists, respects the phi layout and refers to what may be referred to.
LEMMA EditStep ==
    ASSUME IInv, NEW u \in Inst, NEW t \in Vectors,
           u \in Phi => Alternates(t),
           operands' = [operands EXCEPT ![u] = t],
           uses' \in UseLists, ExactFor(uses', u, t),
           SameElsewhere(uses, uses', u),
           alive' \subseteq Value, alive \ {u} \subseteq alive',
           t # <<>> => u \in alive',
           job' \in Jobs, JobOK', Referable \subseteq Referable',
           \A i \in DOMAIN t : t[i] \in Referable'
    PROVE  IInv'
<1>0. TypeOK /\ UseDefExact /\ PhiAlternates /\ DeadBare /\ RefsOK
  BY IInvByVectors
<1>1. operands' \in [Inst -> Vectors] /\ UseDefExact'
  BY <1>0, OneUserStep
<1>2. operands \in [Inst -> Vectors]
  BY <1>0, TypeOKSets
<1>3. \A w \in Inst : operands'[w] = IF w = u THEN t ELSE operands[w]
  BY <1>2
<1>4. TypeOK'
  BY <1>1 DEF TypeOK, UseLists, Vectors
<1>5. PhiAlternates'
  <2>1. \A w \in Phi : Alternates(operands'[w])
    BY <1>0, <1>3, UseDefAssumption DEF PhiAlternates
  <2> QED BY <2>1 DEF PhiAlternates, Alternates
<1>6. DeadBare'
  BY <1>0, <1>3 DEF DeadBare
<1>7. RefsOK'
  BY <1>0, <1>3 DEF RefsOK
<1>8. IInv' <=> TypeOK' /\ UseDefExact' /\ PhiAlternates' /\ DeadBare'
                /\ RefsOK' /\ JobOK'
  BY IInvByVectors, PTL
<1> QED BY <1>1, <1>4, <1>5, <1>6, <1>7, <1>8

\* The invariant survives a step that leaves the vectors and the lists alone.
LEMMA QuietStep ==
    ASSUME IInv, UNCHANGED <<operands, uses>>,
           alive' \subseteq Value, alive \cap Inst \subseteq alive',
           job' \in Jobs, JobOK',
           \A u \in Inst : \A i \in DOMAIN operands[u] : operands[u][i] \in Referable'
    PROVE  IInv'
<1>0. TypeOK /\ UseDefExact /\ PhiAlternates /\ DeadBare /\ RefsOK
  BY IInvByVectors
<1>1. TypeOK' /\ UseDefExact' /\ PhiAlternates' /\ DeadBare' /\ RefsOK'
  BY <1>0 DEF TypeOK, UseDefExact, Agree, PhiAlternates, Alternates,
              DeadBare, RefsOK
<1>2. IInv' <=> TypeOK' /\ UseDefExact' /\ PhiAlternates' /\ DeadBare'
                /\ RefsOK' /\ JobOK'
  BY IInvByVectors, PTL
<1> QED BY <1>1, <1>2

\* The facts every action starts from.
LEMMA InvFacts ==
    ASSUME IInv
    PROVE  /\ operands \in [Inst -> Vectors] /\ uses \in UseLists
           /\ alive \subseteq Value /\ job \in Jobs
           /\ MaxOperands \in Nat /\ Null \notin Value /\ Phi \subseteq Inst
           /\ \A u \in Inst : ExactFor(uses, u, operands[u])
           /\ \A u \in Phi : Alternates(operands[u])
           /\ DeadBare /\ RefsOK /\ JobOK
BY IInvByVectors, TypeOKSets, AgreeByUser, UseDefAssumption
   DEF UseDefExact, PhiAlternates, Value


-----------------------------------------------------------------------------
(* One lemma per action.                                                   *)

\* A constructor registers the operands of a user no list mentions yet.
LEMMA CreateStep ==
    ASSUME IInv, NEW u \in Inst, NEW ops \in CtorOperands, Create(u, ops)
    PROVE  IInv'
<1>0. /\ uses \in UseLists /\ operands \in [Inst -> Vectors] /\ JobOK
      /\ job \in Jobs /\ alive \subseteq Value /\ ExactFor(uses, u, <<>>)
      /\ MaxOperands \in Nat /\ DeadBare
  BY InvFacts DEF Create, DeadBare
<1>1. ops \in Seq(alive) /\ ops \in Seq(Value) /\ Len(ops) <= MaxOperands
      /\ ops \in Vectors
  <2>1. PICK n \in 0..MaxCtorOperands : ops \in [1..n -> alive]
    BY DEF CtorOperands
  <2>2. n \in Nat /\ n <= MaxOperands
    BY UseDefAssumption
  <2>3. ops \in Seq(alive)
    BY <2>1, <2>2, SeqDef
  <2>4. ops \in Seq(Value) /\ ops \in Seq(Value \cup {Null})
    BY <2>3, <1>0, SeqMonotonic
  <2>5. Len(ops) \in Nat /\ 1..Len(ops) = 1..n
    BY <2>1, <2>3, LenProperties
  <2>6. Len(ops) = n
    BY <2>2, <2>5, SameRange
  <2> QED BY <2>2, <2>3, <2>4, <2>6 DEF Vectors
<1>2. <<>> \in Vectors /\ Len(<<>>) = 0 /\ <<>> \o ops = ops
  BY <1>0, <1>1, EmptySeq, ConcatEmptySeq DEF Vectors
<1>3. /\ uses' \in UseLists /\ ExactFor(uses', u, ops)
      /\ SameElsewhere(uses, uses', u)
  <2>1. Len(<<>>) + Len(ops) <= MaxOperands
    BY <1>1, <1>2
  <2> QED BY <1>0, <1>1, <1>2, <2>1, AppendExact DEF Create
<1>4. JobOK' /\ Referable \subseteq Referable'
  BY <1>0 DEF Create, JobOK, Referable, Idle
<1>5. \A i \in DOMAIN ops : ops[i] \in Referable'
  BY <1>1 DEF Create, Referable
<1>6. u \in Phi => Alternates(ops)
  BY <1>2 DEF Create, Alternates
<1> QED
  BY <1>0, <1>1, <1>3, <1>4, <1>5, <1>6, EditStep DEF Create, Value

\* A new pair keeps the (value, block) layout.
LEMMA AddPhiPairStep ==
    ASSUME IInv, NEW u \in Inst, NEW val \in alive \cap Datum,
           NEW bb \in alive \cap Block, AddPhiPairOperand(u, val, bb)
    PROVE  IInv'
<1> DEFINE s == operands[u]
           t == s \o <<val, bb>>
<1>0. /\ uses \in UseLists /\ s \in Vectors /\ JobOK /\ operands \in [Inst -> Vectors]
      /\ job \in Jobs /\ alive \subseteq Value /\ ExactFor(uses, u, s)
      /\ MaxOperands \in Nat /\ RefsOK /\ Alternates(s)
  BY InvFacts DEF AddPhiPairOperand
<1>1. <<val, bb>> \in Seq(Value) /\ Len(<<val, bb>>) = 2
  BY DEF Value, Datum
<1>2. /\ t \in Vectors
      /\ uses' \in UseLists /\ ExactFor(uses', u, t)
      /\ SameElsewhere(uses, uses', u)
  <2>1. Len(s) + Len(<<val, bb>>) <= MaxOperands
    BY <1>0, <1>1 DEF AddPhiPairOperand
  <2> QED BY <1>0, <1>1, <2>1, AppendExact DEF AddPhiPairOperand
<1>3. /\ Len(s) \in Nat /\ DOMAIN s = 1..Len(s) /\ DOMAIN t = 1..Len(t)
      /\ Len(t) = Len(s) + 2
      /\ \A i \in 1..Len(t) :
            t[i] = IF i <= Len(s) THEN s[i] ELSE IF i = Len(s) + 1 THEN val ELSE bb
  BY <1>0, <1>1 DEF Vectors
<1>4. Alternates(t)
  <2>1. Len(s) % 2 = 0 /\ \A i \in 1..Len(s) :
           s[i] \in (IF i % 2 = 1 THEN Datum ELSE Block) \cup {Null}
    BY <1>0, <1>3 DEF Alternates
  <2>2. Len(t) % 2 = 0 /\ (Len(s) + 1) % 2 = 1 /\ (Len(s) + 2) % 2 = 0
    BY <2>1, <1>3, Parity
  <2> HIDE DEF t, s
  <2>3. ASSUME NEW i \in 1..Len(t)
        PROVE  t[i] \in (IF i % 2 = 1 THEN Datum ELSE Block) \cup {Null}
    <3>1. CASE i \in 1..Len(s)
      BY <3>1, <2>1, <1>3
    <3>2. CASE i = Len(s) + 1
      BY <3>2, <2>2, <1>3
    <3>3. CASE i = Len(s) + 2
      BY <3>3, <2>2, <1>3
    <3> QED BY <3>1, <3>2, <3>3, <1>3
  <2> QED BY <2>2, <2>3, <1>3 DEF Alternates
<1>5. JobOK' /\ Referable' = Referable
  BY <1>0 DEF AddPhiPairOperand, JobOK, Referable, Idle
<1>6. \A i \in DOMAIN t : t[i] \in Referable'
  BY <1>0, <1>3, <1>5 DEF RefsOK, Referable
<1> QED
  BY <1>0, <1>2, <1>4, <1>5, <1>6, EditStep DEF AddPhiPairOperand

\* Retargeting a branch.
LEMMA SetOperandStep ==
    ASSUME IInv, NEW u \in Inst, NEW i \in 1..MaxOperands,
           NEW bb \in alive \cap Block, SetOperand(u, i, bb)
    PROVE  IInv'
<1> DEFINE s == operands[u]
           t == [s EXCEPT ![i] = bb]
<1>0. /\ uses \in UseLists /\ s \in Vectors /\ JobOK /\ operands \in [Inst -> Vectors]
      /\ job \in Jobs /\ alive \subseteq Value /\ ExactFor(uses, u, s)
      /\ MaxOperands \in Nat /\ RefsOK
  BY InvFacts
<1>1. i \in 1..Len(s) /\ bb \in Value \cup {Null}
  BY <1>0 DEF SetOperand, Vectors, Value
<1>2. /\ t \in Vectors
      /\ uses' \in UseLists /\ ExactFor(uses', u, t)
      /\ SameElsewhere(uses, uses', u)
  BY <1>0, <1>1, SetExact DEF SetOperand
<1>3. operands' = [operands EXCEPT ![u] = t]
  BY DEF SetOperand
<1>4. JobOK' /\ Referable' = Referable
  BY <1>0 DEF SetOperand, JobOK, Referable, Idle
<1>5. \A j \in DOMAIN t : t[j] \in Referable'
  BY <1>0, <1>4 DEF RefsOK, Referable
<1> QED
  BY <1>0, <1>2, <1>3, <1>4, <1>5, EditStep DEF SetOperand

\* Clearing the operands of a user, alone or as the User part of a destructor.
LEMMA ClearStep ==
    ASSUME IInv, NEW u \in Inst, RemoveAllOperands(u) \/ BeginDestroyInst(u)
    PROVE  IInv'
<1>0. /\ uses \in UseLists /\ operands[u] \in Vectors /\ JobOK
      /\ operands \in [Inst -> Vectors] /\ MaxOperands \in Nat
      /\ job \in Jobs /\ alive \subseteq Value /\ ExactFor(uses, u, operands[u])
  BY InvFacts
<1>1. <<>> \in Vectors /\ DOMAIN <<>> = {} /\ Alternates(<<>>)
  BY <1>0, EmptySeq DEF Vectors, Alternates
<1>2. /\ uses' \in UseLists /\ ExactFor(uses', u, <<>>)
      /\ SameElsewhere(uses, uses', u)
  BY <1>0, ClearExact DEF RemoveAllOperands, BeginDestroyInst
<1>3. JobOK' /\ job' \in Jobs /\ Referable \subseteq Referable'
  BY <1>0 DEF RemoveAllOperands, BeginDestroyInst, JobOK, Referable, Idle, Jobs, Value
<1> QED
  BY <1>0, <1>1, <1>2, <1>3, EditStep DEF RemoveAllOperands, BeginDestroyInst


\* Erasing a pair: the block behind the value differs from it, and so does the
\* value behind the block, which is what EraseExact asks for, twice.
LEMMA RemovePhiStep ==
    ASSUME IInv, NEW u \in Inst, NEW bb \in Block, RemovePhiOperand(u, bb)
    PROVE  IInv'
<1> DEFINE s == operands[u]
<1>0. /\ uses \in UseLists /\ s \in Vectors /\ JobOK /\ operands \in [Inst -> Vectors]
      /\ job \in Jobs /\ alive \subseteq Value /\ ExactFor(uses, u, s)
      /\ MaxOperands \in Nat /\ RefsOK /\ Alternates(s)
  BY InvFacts DEF RemovePhiOperand
<1>1. PICK i \in 1..(Len(s) - 1) :
         /\ i % 2 = 1 /\ \A j \in i..Len(s) : s[j] # Null
         /\ operands' = [operands EXCEPT ![u] = Erase(Erase(s, i), i)]
         /\ uses' = UsesAfterErase(UsesAfterErase(uses, u, s, i), u, Erase(s, i), i)
  BY DEF RemovePhiOperand
<1> DEFINE one == Erase(s, i)
           two == Erase(one, i)
           us1 == UsesAfterErase(uses, u, s, i)
           us2 == UsesAfterErase(us1, u, one, i)
<1>2. Len(s) \in Nat /\ DOMAIN s = 1..Len(s) /\ i \in 1..Len(s) /\ i < Len(s)
  BY <1>0 DEF Vectors
<1>3. \A j \in i..Len(s) : s[j] \in (IF j % 2 = 1 THEN Datum ELSE Block)
  BY <1>0, <1>1, <1>2 DEF Alternates
<1>4. Datum \cap Block = {}
  BY UseDefAssumption DEF Datum
<1>5. s[i] \in Datum /\ s[i + 1] \in Block
      /\ (i + 2 <= Len(s) => s[i + 2] \in Datum)
  <2>0. i \in Nat /\ i % 2 = 1
    BY <1>1, <1>2
  <2>1. i \in Nat /\ i % 2 = 1 /\ (i + 1) % 2 = 0 /\ (i + 2) % 2 = 1
    BY <2>0, Parity
  <2>2. i \in i..Len(s) /\ i + 1 \in i..Len(s)
        /\ (i + 2 <= Len(s) => i + 2 \in i..Len(s))
    BY <1>2
  <2> HIDE DEF s
  <2> QED BY <2>1, <2>2, <1>3
<1>6. /\ one \in Vectors /\ Len(one) = Len(s) - 1 /\ us1 \in UseLists
      /\ ExactFor(us1, u, one) /\ SameElsewhere(uses, us1, u)
  <2>1. i < Len(s) => s[i + 1] # s[i]
    BY <1>4, <1>5
  <2> QED BY <1>0, <1>2, <2>1, EraseExact
<1>7. \A j \in 1..Len(one) : one[j] = IF j < i THEN s[j] ELSE s[j + 1]
  BY <1>6 DEF Erase
<1>8. /\ two \in Vectors /\ Len(two) = Len(s) - 2 /\ us2 \in UseLists
      /\ ExactFor(us2, u, two) /\ SameElsewhere(us1, us2, u)
  <2>1. i \in 1..Len(one)
    BY <1>2, <1>6
  <2>2. i < Len(one) => one[i + 1] # one[i]
    BY <1>2, <1>4, <1>5, <1>6, <1>7
  <2>3. Len(one) - 1 = Len(s) - 2
    BY <1>2, <1>6
  <2> QED BY <1>6, <2>1, <2>2, <2>3, EraseExact
<1>9. DOMAIN two = 1..(Len(s) - 2) /\
      \A j \in DOMAIN two : two[j] = IF j < i THEN s[j] ELSE s[j + 2]
  <2>1. DOMAIN two = 1..Len(two)
    BY <1>8 DEF Vectors
  <2>2. \A j \in 1..Len(two) : two[j] = IF j < i THEN one[j] ELSE one[j + 1]
    BY <1>6, <1>8, <1>2 DEF Erase
  <2> HIDE DEF one, two, s
  <2>3. DOMAIN two = 1..(Len(s) - 2)
    BY <2>1, <1>8
  <2>4. ASSUME NEW j \in 1..(Len(s) - 2)
        PROVE  two[j] = IF j < i THEN s[j] ELSE s[j + 2]
    <3>1. /\ j \in 1..Len(two) /\ j \in 1..Len(one) /\ j + 1 \in 1..Len(one)
          /\ (j + 1) + 1 = j + 2
      BY <1>2, <1>6, <1>8
    <3>2. CASE j < i
      BY <3>1, <3>2, <2>2, <1>7
    <3>3. CASE ~ (j < i)
      <4>1. ~ (j + 1 < i)
        BY <3>3, <1>2
      <4> QED BY <3>1, <3>3, <4>1, <2>2, <1>7
    <3> QED BY <3>2, <3>3
  <2> QED BY <2>3, <2>4
<1>10. SameElsewhere(uses, us2, u)
  BY <1>6, <1>8 DEF SameElsewhere
<1>11. Alternates(two)
  <2>1. Len(two) \in Nat /\ Len(two) + 2 = Len(s)
    BY <1>2, <1>8
  <2>2. Len(two) % 2 = 0
    BY <2>1, <1>0, Parity DEF Alternates
  <2>3. ASSUME NEW j \in DOMAIN two
        PROVE  two[j] \in (IF j % 2 = 1 THEN Datum ELSE Block) \cup {Null}
    <3>1. j \in 1..Len(s) /\ j + 2 \in 1..Len(s) /\ j \in Nat
      BY <1>2, <1>9
    <3>2. /\ s[j] \in (IF j % 2 = 1 THEN Datum ELSE Block) \cup {Null}
          /\ s[j + 2] \in (IF (j + 2) % 2 = 1 THEN Datum ELSE Block) \cup {Null}
      BY <3>1, <1>0, <1>2 DEF Alternates
    <3>3. (j + 2) % 2 = 1 <=> j % 2 = 1
      BY <3>1, Parity
    <3> HIDE DEF two, s
    <3> QED BY <3>2, <3>3, <1>9
  <2> QED BY <2>2, <2>3 DEF Alternates
<1>12. JobOK' /\ Referable' = Referable
  BY <1>0 DEF RemovePhiOperand, JobOK, Referable, Idle
<1>13. \A j \in DOMAIN two : two[j] \in Referable'
  <2>1. \A j \in DOMAIN two : j \in DOMAIN s /\ j + 2 \in DOMAIN s
    BY <1>2, <1>9
  <2> QED BY <2>1, <1>0, <1>9, <1>12 DEF RefsOK
<1> HIDE DEF two, us2
<1>14. operands' = [operands EXCEPT ![u] = two] /\ uses' = us2
  BY <1>1 DEF two, us2
<1> QED
  BY <1>0, <1>8, <1>10, <1>11, <1>12, <1>13, <1>14, EditStep DEF RemovePhiOperand

\* One iteration of replace_all_use_with.
LEMMA ReplaceOneStep ==
    ASSUME IInv, ReplaceOne
    PROVE  IInv'
<1>1. PICK use \in uses[job.old] :
         /\ use[2] \in DOMAIN operands[use[1]]
         /\ operands' = [operands EXCEPT ![use[1]][use[2]] = job.new]
         /\ uses' = UsesAfterSet(uses, use[1], operands[use[1]], use[2], job.new)
  BY DEF ReplaceOne
<1>0. /\ uses \in UseLists /\ JobOK /\ operands \in [Inst -> Vectors]
      /\ job \in Jobs /\ alive \subseteq Value /\ MaxOperands \in Nat
      /\ RefsOK /\ DeadBare /\ \A w \in Inst : ExactFor(uses, w, operands[w])
      /\ job.old \in Value /\ job.new \in Value \cup {Null}
      /\ \A w \in Phi : Alternates(operands[w])
  BY InvFacts DEF ReplaceOne, JobOK, Idle, Datum, Value
<1>2. PICK u \in Inst, i \in 1..MaxOperands : use = <<u, i>>
  BY <1>0, <1>1 DEF UseLists, Use
<1> DEFINE s == operands[u]
           t == [s EXCEPT ![i] = job.new]
<1>3. i \in 1..Len(s) /\ s[i] = job.old /\ s \in Vectors /\ ExactFor(uses, u, s)
      /\ DOMAIN s = 1..Len(s)
  BY <1>0, <1>1, <1>2 DEF ExactFor, Vectors
<1>4. /\ operands' = [operands EXCEPT ![u] = t]
      /\ uses' = UsesAfterSet(uses, u, s, i, job.new)
  BY <1>0, <1>1, <1>2
<1>5. /\ t \in Vectors /\ uses' \in UseLists /\ ExactFor(uses', u, t)
      /\ SameElsewhere(uses, uses', u)
  BY <1>0, <1>3, <1>4, SetExact
<1>6. DOMAIN t = DOMAIN s /\ Len(t) = Len(s)
      /\ \A j \in DOMAIN s : t[j] = IF j = i THEN job.new ELSE s[j]
  BY <1>3 DEF Vectors
<1>7. ASSUME u \in Phi
      PROVE  Alternates(t)
  <2>1. Alternates(s)
    BY <1>0, <1>7
  <2>2. job.old \in Datum => job.new \in Datum \cup {Null}
    BY <1>0 DEF ReplaceOne, JobOK, Datum, Idle
  <2>3. job.old \in Block => job.new = Null
    BY <1>0, UseDefAssumption DEF ReplaceOne, JobOK, Datum, Idle
  <2>4. Datum \cap Block = {} /\ Null \notin Datum \cup Block
    BY UseDefAssumption DEF Datum
  <2>5. job.old # Null
    BY <1>0, UseDefAssumption DEF Value
  <2> HIDE DEF t, s
  <2> QED BY <2>1, <2>2, <2>3, <2>4, <2>5, <1>3, <1>6 DEF Alternates
<1>8. JobOK' /\ Referable' = Referable /\ alive' = alive /\ job' = job
  BY <1>0 DEF ReplaceOne, JobOK, Referable
<1>9. \A j \in DOMAIN t : t[j] \in Referable'
  <2>1. job.new \in Referable
    BY <1>0 DEF ReplaceOne, JobOK, Referable, Idle
  <2> QED BY <2>1, <1>0, <1>6, <1>8 DEF RefsOK
<1>10. t # <<>> => u \in alive'
  BY <1>0, <1>3, <1>8 DEF DeadBare
<1> QED
  BY <1>0, <1>4, <1>5, <1>7, <1>8, <1>9, <1>10, EditStep

\* The end of the loop: an empty use list means that nothing refers to a
\* destroyed object any more.
LEMMA ReplaceDoneStep ==
    ASSUME IInv, ReplaceDone
    PROVE  IInv'
<1>0. /\ JobOK /\ operands \in [Inst -> Vectors] /\ alive \subseteq Value
      /\ RefsOK /\ \A w \in Inst : ExactFor(uses, w, operands[w])
      /\ job.old \in Value
  BY InvFacts DEF ReplaceDone, JobOK, Idle, Datum, Value
<1>1. ASSUME NEW w \in Inst, NEW i \in DOMAIN operands[w]
      PROVE  operands[w][i] # job.old
  <2>1. operands[w] \in Vectors /\ MaxOperands \in Nat
    BY <1>0, UseDefAssumption
  <2>2. i \in 1..Len(operands[w]) /\ i \in 1..MaxOperands
    BY <2>1 DEF Vectors
  <2>3. <<w, i>> \notin uses[job.old]
    BY DEF ReplaceDone
  <2> QED BY <2>2, <2>3, <1>0 DEF ExactFor
<1>2. \A w \in Inst : \A i \in DOMAIN operands[w] : operands[w][i] \in Referable'
  BY <1>0, <1>1 DEF RefsOK, Referable, ReplaceDone, Idle
<1> QED
  BY <1>0, <1>2, QuietStep DEF ReplaceDone, JobOK, Jobs, Idle

\* The calls that only enter a loop or make a block.
LEMMA QuietActions ==
    ASSUME IInv,
           \/ \E b \in Block : CreateBlock(b) \/ BeginDestroyBlock(b)
           \/ \E old \in alive \cap Inst, new \in alive \cap Datum :
                 BeginReplace(old, new)
    PROVE  IInv'
<1>0. JobOK /\ RefsOK /\ alive \subseteq Value /\ job \in Jobs
  BY InvFacts
<1>1. CASE \E b \in Block : CreateBlock(b)
  BY <1>0, <1>1, QuietStep DEF CreateBlock, JobOK, Value, RefsOK, Referable
<1>2. CASE \E b \in Block : BeginDestroyBlock(b)
  <2>1. PICK b \in Block : BeginDestroyBlock(b)
    BY <1>2
  <2>2. b \notin Inst
    BY UseDefAssumption
  <2>3. \A u \in Inst : \A i \in DOMAIN operands[u] : operands[u][i] \in Referable'
    BY <1>0, <2>1 DEF BeginDestroyBlock, RefsOK, Referable, Idle
  <2> QED BY <1>0, <2>1, <2>2, <2>3, QuietStep
          DEF BeginDestroyBlock, JobOK, Jobs, Value
<1>3. CASE \E old \in alive \cap Inst, new \in alive \cap Datum :
              BeginReplace(old, new)
  <2>1. \A u \in Inst : \A i \in DOMAIN operands[u] : operands[u][i] \in Referable'
    BY <1>0, <1>3 DEF BeginReplace, RefsOK, Referable, Idle
  <2> QED BY <1>0, <1>3, <2>1, QuietStep DEF BeginReplace, JobOK, Jobs, Value, Datum
<1> QED BY <1>1, <1>2, <1>3

-----------------------------------------------------------------------------
(* The theorems.                                                           *)

LEMMA InitInv == Init => IInv
<1> SUFFICES ASSUME Init
             PROVE  IInv
  OBVIOUS
<1>0. MaxOperands \in Nat
  BY UseDefAssumption
<1>1. TypeOK
  BY <1>0, EmptySeq DEF Init, TypeOK, Value, Jobs, Idle
<1>2. UseDefExact
  <2>1. \A use \in Use : operands[use[1]] = <<>>
    BY DEF Init, Use
  <2>2. \A v \in Value : uses[v] = {}
    BY DEF Init
  <2>3. DOMAIN <<>> = {}
    OBVIOUS
  <2> QED BY <2>1, <2>2, <2>3 DEF UseDefExact, Agree
<1>3. PhiAlternates
  <2>1. Alternates(<<>>)
    BY DEF Alternates
  <2> QED BY <2>1, UseDefAssumption DEF Init, PhiAlternates
<1>4. DeadBare /\ RefsOK /\ JobOK
  BY DEF Init, DeadBare, RefsOK, JobOK, Idle
<1> QED BY <1>1, <1>2, <1>3, <1>4, IInvByVectors

LEMMA NextInv == IInv /\ [Next]_vars => IInv'
<1> SUFFICES ASSUME IInv, [Next]_vars
             PROVE  IInv'
  OBVIOUS
<1>1. CASE UNCHANGED vars
  <2>1. JobOK /\ RefsOK /\ alive \subseteq Value /\ job \in Jobs
    BY InvFacts
  <2> QED BY <2>1, <1>1, QuietStep DEF vars, JobOK, RefsOK, Referable
<1>2. CASE \E u \in Inst, ops \in CtorOperands : Create(u, ops)
  BY <1>2, CreateStep
<1>3. CASE \E u \in Inst, val \in alive \cap Datum, bb \in alive \cap Block :
              AddPhiPairOperand(u, val, bb)
  BY <1>3, AddPhiPairStep
<1>4. CASE \E u \in Inst, bb \in Block : RemovePhiOperand(u, bb)
  BY <1>4, RemovePhiStep
<1>5. CASE \E u \in Inst, i \in 1..MaxOperands, bb \in alive \cap Block :
              SetOperand(u, i, bb)
  BY <1>5, SetOperandStep
<1>6. CASE \E u \in Inst : RemoveAllOperands(u) \/ BeginDestroyInst(u)
  BY <1>6, ClearStep
<1>7. CASE ReplaceOne
  BY <1>7, ReplaceOneStep
<1>8. CASE ReplaceDone
  BY <1>8, ReplaceDoneStep
<1>9. CASE \/ \E b \in Block : CreateBlock(b) \/ BeginDestroyBlock(b)
           \/ \E old \in alive \cap Inst, new \in alive \cap Datum :
                 BeginReplace(old, new)
  BY <1>9, QuietActions
<1> QED BY <1>1, <1>2, <1>3, <1>4, <1>5, <1>6, <1>7, <1>8, <1>9 DEF Next

\* The invariant holds in every state any sequence of calls can reach.
THEOREM Invariance == Spec => []IInv
BY InitInv, NextInv, PTL DEF Spec

\* Operand vectors and use lists keep their types.
THEOREM TypeCorrect == Spec => []TypeOK
BY Invariance, PTL DEF IInv

\* Use lists and operand vectors always describe the same edges.
THEOREM UseListsExact == Spec => []UseDefExact
BY Invariance, PTL DEF IInv

\* No operand and no use list ever names a destroyed object.
THEOREM NoUseAfterFree == Spec => []NoDanglingUse
BY Invariance, PTL DEF IInv

\* The operands of a phi are always (value, block) pairs.
THEOREM PhiLayout == Spec => []PhiAlternates
BY Invariance, PTL DEF IInv

-----------------------------------------------------------------------------
(* Refinement of DefGraph.                                                 *)

\* Substitution keeps a vector of operands that does not hold old as it is.
LEMMA SubstitutedSame ==
    ASSUME NEW s \in Vectors, NEW old, NEW new,
           \A i \in DOMAIN s : s[i] # old
    PROVE  Substituted(s, old, new) = s
<1>1. s = [i \in DOMAIN s |-> s[i]]
  BY LenProperties DEF Vectors
<1> QED BY <1>1 DEF Substituted

\* One iteration of the loop does not change what the loop will end with.
LEMMA SubstitutedOnce ==
    ASSUME NEW s \in Vectors, NEW old, NEW new, NEW i \in DOMAIN s, s[i] = old
    PROVE  Substituted([s EXCEPT ![i] = new], old, new) = Substituted(s, old, new)
<1>1. /\ DOMAIN [s EXCEPT ![i] = new] = DOMAIN s
      /\ \A j \in DOMAIN s :
            [s EXCEPT ![i] = new][j] = IF j = i THEN new ELSE s[j]
  BY LenProperties DEF Vectors
<1> HIDE DEF Vectors
<1> QED BY <1>1 DEF Substituted

LEMMA SubstitutedEmpty ==
    ASSUME NEW old, NEW new
    PROVE  Substituted(<<>>, old, new) = <<>>
BY DEF Substituted

\* The states of a loop in progress abstract to the state after it.
LEMMA IdleAbstract ==
    /\ job = Idle => AbstractOperands = operands
    /\ (job' = Idle) => AbstractOperands' = operands'
BY DEF AbstractOperands, Idle

LEMMA InitRefines == Init => Graph!Init
BY DEF Init, Graph!Init, AbstractOperands, Idle

\* Every call is one step of DefGraph: edits when they are made, replacement
\* and destruction when they begin; the iterations and the end change nothing.
LEMMA NextRefines == IInv /\ [Next]_vars => [Graph!Next]_(Graph!vars)
<1> SUFFICES ASSUME IInv, [Next]_vars
             PROVE  Graph!Next \/ UNCHANGED <<alive, AbstractOperands>>
  BY DEF Graph!vars
<1>0. /\ operands \in [Inst -> Vectors] /\ JobOK /\ alive \subseteq Value
      /\ \A w \in Inst : ExactFor(uses, w, operands[w])
      /\ MaxOperands \in Nat /\ uses \in UseLists
      /\ \A u \in Inst : DOMAIN operands[u] = 1..Len(operands[u])
  BY InvFacts DEF Vectors
<1>1. CASE UNCHANGED vars
  BY <1>1 DEF vars, AbstractOperands, Substituted
<1>2. ASSUME NEW u \in Inst, NEW ops \in CtorOperands, Create(u, ops)
      PROVE  Graph!NewInst(u)
  <2>1. \E n \in 0..MaxCtorOperands : ops \in [1..n -> alive]
    BY DEF CtorOperands
  <2>2. job = Idle /\ job' = Idle
    BY <1>2 DEF Create
  <2> QED BY <1>2, <2>1, <2>2, IdleAbstract DEF Create, Graph!NewInst
<1>3. ASSUME NEW b \in Block, CreateBlock(b)
      PROVE  Graph!NewBlock(b)
  <2>2. job = Idle /\ job' = Idle
    BY <1>3 DEF CreateBlock
  <2> QED BY <1>3, <2>2, IdleAbstract DEF CreateBlock, Graph!NewBlock
<1>4. ASSUME NEW u \in Inst, NEW val \in alive \cap Datum,
             NEW bb \in alive \cap Block, AddPhiPairOperand(u, val, bb)
      PROVE  Graph!GainPair(u)
  <2>2. job = Idle /\ job' = Idle
    BY <1>4 DEF AddPhiPairOperand
  <2> QED BY <1>4, <2>2, IdleAbstract
          DEF AddPhiPairOperand, Graph!GainPair, Datum, Graph!Datum
<1>5. ASSUME NEW u \in Inst, NEW bb \in Block, RemovePhiOperand(u, bb)
      PROVE  Graph!LosePair(u)
  <2>1. PICK i \in 1..(Len(operands[u]) - 1) :
           operands' = [operands EXCEPT ![u] = Erase(Erase(operands[u], i), i)]
    BY <1>5 DEF RemovePhiOperand
  <2>2. job = Idle /\ job' = Idle /\ u \in alive /\ alive' = alive
    BY <1>5 DEF RemovePhiOperand
  <2>3. Erase(Erase(operands[u], i), i) =
           [j \in 1..(Len(operands[u]) - 2) |->
               IF j < i THEN operands[u][j] ELSE operands[u][j + 2]]
    BY <1>0, EraseTwice
  <2> QED BY <2>1, <2>2, <2>3, IdleAbstract DEF Graph!LosePair
<1>6. ASSUME NEW u \in Inst, NEW i \in 1..MaxOperands,
             NEW bb \in alive \cap Block, SetOperand(u, i, bb)
      PROVE  Graph!Retarget(u)
  <2>1. job = Idle /\ job' = Idle
    BY <1>6 DEF SetOperand
  <2> QED BY <1>6, <2>1, IdleAbstract DEF SetOperand, Graph!Retarget
<1>7. ASSUME NEW u \in Inst, RemoveAllOperands(u)
      PROVE  Graph!Forget(u)
  <2>1. job = Idle /\ job' = Idle
    BY <1>7 DEF RemoveAllOperands
  <2> QED BY <1>7, <2>1, IdleAbstract DEF RemoveAllOperands, Graph!Forget
<1>8. ASSUME NEW old \in alive \cap Inst, NEW new \in alive \cap Datum,
             BeginReplace(old, new)
      PROVE  Graph!Substitute(old, new)
  <2>1. AbstractOperands = operands
    BY <1>8, IdleAbstract DEF BeginReplace
  <2>2. AbstractOperands' = [u \in Inst |-> Substituted(operands[u], old, new)]
    BY <1>8 DEF BeginReplace, AbstractOperands
  <2> QED BY <1>8, <2>1, <2>2
          DEF BeginReplace, Graph!Substitute, Graph!SubstEverywhere, Graph!Subst,
              Substituted
<1>9. ASSUME NEW u \in Inst, BeginDestroyInst(u)
      PROVE  Graph!Destroy(u)
  <2>1. AbstractOperands = operands
    BY <1>9, IdleAbstract DEF BeginDestroyInst
  <2>2. AbstractOperands' = [w \in Inst |-> Substituted(operands'[w], u, Null)]
    BY <1>9 DEF BeginDestroyInst, AbstractOperands
  <2>3. \A w \in Inst : operands'[w] = IF w = u THEN <<>> ELSE operands[w]
    BY <1>0, <1>9 DEF BeginDestroyInst
  <2>4. AbstractOperands' = [w \in Inst |->
            IF w = u THEN <<>> ELSE Substituted(operands[w], u, Null)]
    BY <2>2, <2>3, SubstitutedEmpty
  <2> QED BY <1>9, <2>1, <2>4
          DEF BeginDestroyInst, Graph!Destroy, Graph!Subst, Substituted
<1>10. ASSUME NEW b \in Block, BeginDestroyBlock(b)
       PROVE  Graph!Destroy(b)
  <2>1. AbstractOperands = operands
    BY <1>10, IdleAbstract DEF BeginDestroyBlock
  <2>2. AbstractOperands' = [w \in Inst |-> Substituted(operands[w], b, Null)]
    BY <1>10 DEF BeginDestroyBlock, AbstractOperands
  <2>3. \A w \in Inst : w # b
    BY UseDefAssumption
  <2> QED BY <1>10, <2>1, <2>2, <2>3
          DEF BeginDestroyBlock, Graph!Destroy, Graph!Subst, Substituted
<1>11. ASSUME ReplaceOne
       PROVE  UNCHANGED <<alive, AbstractOperands>>
  <2>1. PICK use \in uses[job.old] :
           operands' = [operands EXCEPT ![use[1]][use[2]] = job.new]
    BY <1>11 DEF ReplaceOne
  <2>2. job.old \in Value
    BY <1>0, <1>11 DEF ReplaceOne, JobOK, Idle, Value
  <2>3. PICK u \in Inst, i \in 1..MaxOperands : use = <<u, i>>
    BY <1>0, <2>1, <2>2 DEF UseLists, Use
  <2>4. i \in DOMAIN operands[u] /\ operands[u][i] = job.old
    BY <1>0, <2>1, <2>2, <2>3 DEF ExactFor
  <2>5. \A w \in Inst : Substituted(operands'[w], job.old, job.new)
                            = Substituted(operands[w], job.old, job.new)
    <3>1. operands[u] \in Vectors
      BY <1>0
    <3>2. Substituted([operands[u] EXCEPT ![i] = job.new], job.old, job.new)
             = Substituted(operands[u], job.old, job.new)
      BY <2>4, <3>1, SubstitutedOnce
    <3>3. \A w \in Inst : operands'[w] =
              IF w = u THEN [operands[u] EXCEPT ![i] = job.new] ELSE operands[w]
      BY <1>0, <2>1, <2>3
    <3> QED BY <3>2, <3>3
  <2> QED BY <1>11, <2>5 DEF ReplaceOne, AbstractOperands
<1>12. ASSUME ReplaceDone
       PROVE  UNCHANGED <<alive, AbstractOperands>>
  <2>1. job.old \in Value
    BY <1>0, <1>12 DEF ReplaceDone, JobOK, Idle, Value
  <2>2. ASSUME NEW w \in Inst, NEW i \in DOMAIN operands[w]
        PROVE  operands[w][i] # job.old
    <3>1. operands[w] \in Vectors
      BY <1>0
    <3>2. i \in 1..Len(operands[w]) /\ i \in 1..MaxOperands
      BY <1>0, <3>1 DEF Vectors
    <3>3. <<w, i>> \notin uses[job.old]
      BY <1>12 DEF ReplaceDone
    <3> QED BY <2>1, <3>2, <3>3, <1>0 DEF ExactFor
  <2>3. \A w \in Inst : Substituted(operands[w], job.old, job.new) = operands[w]
    BY <1>0, <2>2, SubstitutedSame
  <2>4. operands = [w \in Inst |-> operands[w]]
    BY <1>0
  <2>5. AbstractOperands = operands
    BY <1>12, <2>3, <2>4 DEF ReplaceDone, AbstractOperands
  <2> QED BY <1>12, <2>5, IdleAbstract DEF ReplaceDone
<1> QED
  BY <1>1, <1>2, <1>3, <1>4, <1>5, <1>6, <1>7, <1>8, <1>9, <1>10, <1>11, <1>12
     DEF Next, Graph!Next, Graph!Datum, Datum

\* The use-list machinery implements atomic substitution and destruction.
THEOREM Refinement == Spec => ImplementsDefGraph
<1>1. Spec => []IInv
  BY Invariance
<1>2. IInv /\ [Next]_vars => [Graph!Next]_(Graph!vars)
  BY NextRefines
<1> QED BY <1>1, <1>2, InitRefines, PTL DEF Spec, ImplementsDefGraph, Graph!Spec
=============================================================================
