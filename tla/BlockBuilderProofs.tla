------------------------- MODULE BlockBuilderProofs -------------------------
(***************************************************************************)
(* Proofs about FlowGraph and BlockBuilder, for programs of any size.      *)
(*                                                                         *)
(* At every moment the three copies of each edge agree, a finished         *)
(* function has no open block, and an assertion fails on exactly the       *)
(* programs with a statement behind a return, other than a loop, with      *)
(* nothing but brackets and empty statements between.                      *)
(* The argument is about the open blocks.  They are the block inserted     *)
(* into, if it is open, and those the active visitors will still go on in  *)
(* (Covered), each of which is waited for by one visitor and is not the    *)
(* block inserted into (Orderly).  A visitor goes on in another block only *)
(* when the old one is terminated, and at the head of a list the block is  *)
(* open unless the list ends in a return and what leaves it as it is       *)
(* (EndsInReturn).                                                         *)
(*                                                                         *)
(* Then a theory of the paths of a graph: what is reached, what dominates  *)
(* what, and where the iterated dominance frontier lies.                   *)
(*                                                                         *)
(* Then what the functions of the builder look like (Structured).  Their   *)
(* blocks have an order in which every branch goes forward, but those that *)
(* a loop ends with, and these go back to a block that dominates them      *)
(* (Ranked).  The blocks that the active visitors will go on in are ahead  *)
(* of the block inserted into in that order (Ahead).  And the blocks made  *)
(* for a loop are a zone, entered in one place and left in another (Zone). *)
(***************************************************************************)
EXTENDS BlockBuilder, FiniteSetTheorems, SequenceTheorems, WellFoundedInduction, TLAPS

-----------------------------------------------------------------------------
(* What each constructor does to the open blocks, and that it keeps the    *)
(* three copies of every edge in agreement.  A graph is Sound with respect *)
(* to a set of tests and a set of instructions.                            *)

Terms(T) ==
    {Open, RetTerm} \cup {JumpTerm(b) : b \in Nat}
      \cup {CondTerm(t, y, n) : t \in T, y \in Nat, n \in Nat}

Graphs(T, I) ==
    [n : Nat, code : Seq(Seq(I)), term : Seq(Terms(T)), succs : Seq(Seq(Nat)), preds : Seq(Seq(Nat))]

\* The lists of a graph are as long as it has blocks, and hold blocks.
Shaped(g, T, I) ==
    /\ g \in Graphs(T, I)
    /\ Len(g.code) = g.n /\ Len(g.term) = g.n /\ Len(g.succs) = g.n /\ Len(g.preds) = g.n
    /\ \A b \in Blocks(g) : Members(g.succs[b]) \subseteq Blocks(g)
    /\ \A b \in Blocks(g) : Members(g.preds[b]) \subseteq Blocks(g)

\* Each edge is as often in the one list as in the other.
ListsMatch(g) ==
    \A b, c \in Blocks(g) : Occurrences(g.preds[c], b) = Occurrences(g.succs[b], c)

SuccsAreTargets(g) == \A b \in Blocks(g) : g.succs[b] = Targets(g, b)

Sound(g, T, I) == Shaped(g, T, I) /\ ListsMatch(g) /\ SuccsAreTargets(g)

OpenBlocks(g) == {b \in Blocks(g) : g.term[b] = Open}

\* The blocks of S end in h as they do in g.
SameTerms(g, h, S) == \A b \in S : h.term[b] = g.term[b]

\* Block b of g, and it alone, has got the terminator x.
Ended(g, h, b, x) == SameTerms(g, h, Blocks(g) \ {b}) /\ h.term[b] = x

-----------------------------------------------------------------------------
\* How often an element occurs in a sequence made longer by one.
LEMMA OccurrencesAppend ==
    ASSUME NEW s \in Seq(Nat), NEW x \in Nat, NEW y \in Nat
    PROVE  /\ Occurrences(s, y) \in Nat
           /\ Occurrences(Append(s, x), y) = IF x = y THEN Occurrences(s, y) + 1 ELSE Occurrences(s, y)
<1> DEFINE at == {i \in DOMAIN s : s[i] = y}
<1>1. IsFiniteSet(at) /\ Len(s) \in Nat /\ DOMAIN s = 1..Len(s)
  <2>1. Len(s) \in Nat /\ DOMAIN s = 1..Len(s)
    OBVIOUS
  <2>2. IsFiniteSet(1..Len(s))
    BY <2>1, FS_Interval
  <2> QED BY <2>1, <2>2, FS_Subset
<1>2. Cardinality(at) \in Nat
  BY <1>1, FS_CardinalityType
<1>3. Len(s) + 1 \notin at
  BY <1>1
<1>4. {i \in DOMAIN Append(s, x) : Append(s, x)[i] = y}
        = IF x = y THEN at \cup {Len(s) + 1} ELSE at
  BY <1>1
<1>5. Cardinality(at \cup {Len(s) + 1}) = Cardinality(at) + 1
  BY <1>1, <1>3, FS_AddElement
<1> QED BY <1>2, <1>4, <1>5 DEF Occurrences

\* An element occurs in a sequence if it is a member.
LEMMA OccurrencesMember ==
    ASSUME NEW s \in Seq(Nat), NEW y \in Nat
    PROVE  Occurrences(s, y) = 0 <=> y \notin Members(s)
<1> DEFINE at == {i \in DOMAIN s : s[i] = y}
<1>1. IsFiniteSet(at)
  <2>1. Len(s) \in Nat /\ DOMAIN s = 1..Len(s)
    OBVIOUS
  <2>2. IsFiniteSet(1..Len(s))
    BY <2>1, FS_Interval
  <2> QED BY <2>1, <2>2, FS_Subset
<1>2. Cardinality(at) = 0 <=> at = {}
  BY <1>1, FS_EmptySet
<1>3. at = {} <=> y \notin Members(s)
  BY DEF Members
<1> QED BY <1>2, <1>3 DEF Occurrences

\* The edge lists of a block are sequences.
LEMMA BlockLists ==
    ASSUME NEW T, NEW I, NEW g, Shaped(g, T, I), NEW b \in Blocks(g)
    PROVE  /\ g.n \in Nat /\ b \in Nat /\ b \in 1..Len(g.term)
           /\ g.succs[b] \in Seq(Nat) /\ g.preds[b] \in Seq(Nat)
           /\ g.code[b] \in Seq(I) /\ g.term[b] \in Terms(T)
<1>1. g.n \in Nat /\ b \in 1..g.n
  BY DEF Shaped, Graphs, Blocks
<1>2. /\ g.succs \in Seq(Seq(Nat)) /\ g.preds \in Seq(Seq(Nat))
      /\ g.code \in Seq(Seq(I)) /\ g.term \in Seq(Terms(T))
      /\ Len(g.code) = g.n /\ Len(g.term) = g.n /\ Len(g.succs) = g.n /\ Len(g.preds) = g.n
  BY DEF Shaped, Graphs
<1>3. g.succs[b] \in Seq(Nat) /\ g.preds[b] \in Seq(Nat)
  BY <1>1, <1>2, ElementOfSeq
<1>4. g.code[b] \in Seq(I) /\ g.term[b] \in Terms(T)
  BY <1>1, <1>2, ElementOfSeq
<1> QED BY <1>1, <1>2, <1>3, <1>4

\* What a sound graph promises to the passes.
LEMMA SoundEdges ==
    ASSUME NEW T, NEW I, NEW g, Sound(g, T, I)
    PROVE  EdgesMatchTerminators(g)
<1> USE DEF Sound, Shaped, Graphs
<1>1. \A b \in Blocks(g) : g.succs[b] \in Seq(Nat) /\ g.preds[b] \in Seq(Nat)
  BY BlockLists
<1>2. ASSUME NEW b \in Blocks(g), NEW c \in Members(g.succs[b])
      PROVE  Occurrences(g.preds[c], b) = Occurrences(g.succs[b], c)
  BY <1>2 DEF ListsMatch
<1>3. ASSUME NEW b \in Blocks(g), NEW p \in Members(g.preds[b])
      PROVE  b \in Members(g.succs[p])
  <2>1. p \in Blocks(g) /\ p \in Nat /\ b \in Nat
    <3>1. p \in Blocks(g) /\ b \in Blocks(g)
      BY <1>3
    <3> QED BY <3>1 DEF Blocks
  <2>2. Occurrences(g.preds[b], p) # 0
    BY <1>1, <1>3, <2>1, OccurrencesMember
  <2>3. Occurrences(g.succs[p], b) # 0
    BY <2>1, <2>2 DEF ListsMatch
  <2> QED BY <1>1, <2>1, <2>3, OccurrencesMember
<1> QED BY <1>2, <1>3 DEF EdgesMatchTerminators, SuccsAreTargets

-----------------------------------------------------------------------------
\* A new block is open, and no edge touches it.
LEMMA AddBlockSound ==
    ASSUME NEW T, NEW I, NEW g, Sound(g, T, I)
    PROVE  /\ Sound(AddBlock(g), T, I)
           /\ AddBlock(g).n = g.n + 1
           /\ OpenBlocks(AddBlock(g)) = OpenBlocks(g) \cup {g.n + 1}
           /\ SameTerms(g, AddBlock(g), Blocks(g))
<1> DEFINE h == AddBlock(g)
<1>1. /\ h \in Graphs(T, I) /\ h.n = g.n + 1 /\ g.n \in Nat
      /\ Len(h.code) = h.n /\ Len(h.term) = h.n /\ Len(h.succs) = h.n /\ Len(h.preds) = h.n
      /\ \A b \in 1..g.n : h.term[b] = g.term[b] /\ h.succs[b] = g.succs[b] /\ h.preds[b] = g.preds[b]
      /\ h.term[h.n] = Open /\ h.succs[h.n] = <<>> /\ h.preds[h.n] = <<>>
  BY DEF Sound, Shaped, Graphs, AddBlock, Terms
<1>2. Blocks(h) = Blocks(g) \cup {h.n} /\ h.n \notin Blocks(g)
  BY <1>1 DEF Blocks
<1>3. Members(<<>>) = {}
  BY DEF Members
<1>4. Shaped(h, T, I)
  <2>1. ASSUME NEW b \in Blocks(h)
        PROVE  Members(h.succs[b]) \subseteq Blocks(h) /\ Members(h.preds[b]) \subseteq Blocks(h)
    <3>1. CASE b \in Blocks(g)
      <4>1. h.succs[b] = g.succs[b] /\ h.preds[b] = g.preds[b]
        BY <1>1, <3>1 DEF Blocks
      <4> QED BY <4>1, <3>1, <1>2 DEF Sound, Shaped
    <3>2. CASE b = h.n
      BY <3>2, <1>1, <1>3
    <3> QED BY <1>2, <3>1, <3>2
  <2> QED BY <1>1, <2>1 DEF Shaped
<1>5. SuccsAreTargets(h)
  <2>1. ASSUME NEW b \in Blocks(g) PROVE h.succs[b] = Targets(h, b)
    BY <1>1 DEF Blocks, Sound, SuccsAreTargets, Targets
  <2>2. h.succs[h.n] = Targets(h, h.n)
    BY <1>1 DEF Targets, Open
  <2> QED BY <1>2, <2>1, <2>2 DEF SuccsAreTargets
<1>6. ListsMatch(h)
  <2>1. ASSUME NEW b \in Blocks(g), NEW c \in Blocks(g)
        PROVE  Occurrences(h.preds[c], b) = Occurrences(h.succs[b], c)
    BY <1>1 DEF Blocks, Sound, ListsMatch
  <2>2. ASSUME NEW y \in Nat PROVE Occurrences(<<>>, y) = 0
    <3>1. <<>> \in Seq(Nat) /\ y \notin Members(<<>>)
      BY <1>3
    <3> QED BY ONLY <3>1, OccurrencesMember
  <2>3. ASSUME NEW b \in Blocks(g)
        PROVE  Occurrences(h.preds[b], h.n) = 0 /\ Occurrences(h.succs[b], h.n) = 0
    <3>1. h.succs[b] = g.succs[b] /\ h.preds[b] = g.preds[b] /\ h.n \in Nat
      BY <1>1 DEF Blocks
    <3>2. g.succs[b] \in Seq(Nat) /\ g.preds[b] \in Seq(Nat)
      BY BlockLists DEF Sound
    <3>3. h.n \notin Members(g.succs[b]) /\ h.n \notin Members(g.preds[b])
      BY <1>2 DEF Sound, Shaped
    <3> QED BY <3>1, <3>2, <3>3, OccurrencesMember
  <2>4. Blocks(h) \subseteq Nat
    BY <1>1 DEF Blocks
  <2> QED BY <1>1, <1>2, <2>1, <2>2, <2>3, <2>4 DEF ListsMatch
<1>7. OpenBlocks(h) = OpenBlocks(g) \cup {h.n}
  BY <1>1, <1>2 DEF OpenBlocks, Blocks
<1>8. SameTerms(g, h, Blocks(g))
  BY <1>1 DEF SameTerms, Blocks
<1> QED BY <1>1, <1>4, <1>5, <1>6, <1>7, <1>8 DEF Sound

\* Code leaves edges and terminators alone.
LEMMA AddCodeSound ==
    ASSUME NEW T, NEW I, NEW g, Sound(g, T, I), NEW b \in Blocks(g), NEW instr \in I
    PROVE  /\ Sound(AddCode(g, b, instr), T, I)
           /\ AddCode(g, b, instr).n = g.n
           /\ OpenBlocks(AddCode(g, b, instr)) = OpenBlocks(g)
           /\ SameTerms(g, AddCode(g, b, instr), Blocks(g))
<1> DEFINE h == AddCode(g, b, instr)
<1>1. /\ h \in Graphs(T, I) /\ Len(h.code) = h.n /\ h.n = g.n
      /\ h.term = g.term /\ h.succs = g.succs /\ h.preds = g.preds
  <2>1. Append(g.code[b], instr) \in Seq(I) /\ b \in DOMAIN g.code /\ g.code \in Seq(Seq(I))
    BY BlockLists DEF Sound, Shaped, Graphs, Blocks
  <2>2. LET c == [g.code EXCEPT ![b] = Append(g.code[b], instr)]
        IN  c \in Seq(Seq(I)) /\ Len(c) = Len(g.code) /\ h = [g EXCEPT !.code = c]
    BY <2>1, ExceptSeq DEF AddCode
  <2> QED BY <2>2 DEF Sound, Shaped, Graphs
<1>2. Shaped(h, T, I)
  BY <1>1 DEF Sound, Shaped, Blocks
<1>3. ListsMatch(h) /\ SuccsAreTargets(h)
  BY <1>1 DEF Sound, ListsMatch, SuccsAreTargets, Targets, Blocks
<1> QED BY <1>1, <1>2, <1>3 DEF Sound, OpenBlocks, Blocks, SameTerms

\* A terminator is set; the lists stay as they are.
LEMMA SetTerm ==
    ASSUME NEW T, NEW I, NEW g, Shaped(g, T, I), ListsMatch(g),
           NEW b \in Blocks(g), NEW x \in Terms(T)
    PROVE  LET h == [g EXCEPT !.term[b] = x]
           IN  /\ Shaped(h, T, I) /\ ListsMatch(h)
               /\ h.n = g.n /\ h.succs = g.succs /\ h.preds = g.preds
               /\ \A c \in Blocks(g) : h.term[c] = IF c = b THEN x ELSE g.term[c]
<1> DEFINE t == [g.term EXCEPT ![b] = x]
           h == [g EXCEPT !.term[b] = x]
<1>1. b \in 1..Len(g.term) /\ g.term \in Seq(Terms(T))
  BY BlockLists DEF Shaped, Graphs
<1>2. /\ t \in Seq(Terms(T)) /\ Len(t) = Len(g.term)
      /\ \A c \in 1..Len(g.term) : t[c] = IF c = b THEN x ELSE g.term[c]
  BY <1>1, ExceptSeq
<1>3. h = [g EXCEPT !.term = t]
  BY DEF Shaped, Graphs
<1> HIDE DEF t, h
<1>4. /\ h \in Graphs(T, I) /\ Len(h.term) = h.n /\ h.n = g.n
      /\ h.code = g.code /\ h.succs = g.succs /\ h.preds = g.preds
      /\ \A c \in Blocks(g) : h.term[c] = IF c = b THEN x ELSE g.term[c]
  BY <1>2, <1>3 DEF Shaped, Graphs, Blocks
<1>5. Shaped(h, T, I) /\ ListsMatch(h)
  BY <1>4 DEF Shaped, ListsMatch, Blocks
<1> QED BY <1>4, <1>5 DEF h

\* A list of blocks with one block more.
LEMMA MembersAppend ==
    ASSUME NEW s \in Seq(Nat), NEW x \in Nat
    PROVE  Members(Append(s, x)) = Members(s) \cup {x} /\ Append(s, x) \in Seq(Nat)
<1>1. /\ Append(s, x) \in Seq(Nat) /\ Len(s) \in Nat /\ DOMAIN s = 1..Len(s)
      /\ DOMAIN Append(s, x) = 1..(Len(s) + 1)
      /\ \A i \in 1..Len(s) : Append(s, x)[i] = s[i]
      /\ Append(s, x)[Len(s) + 1] = x
  OBVIOUS
<1>2. ASSUME NEW e \in Members(Append(s, x)) PROVE e \in Members(s) \cup {x}
  <2>1. PICK i \in 1..(Len(s) + 1) : e = Append(s, x)[i]
    BY <1>1 DEF Members
  <2>2. i \in 1..Len(s) \/ i = Len(s) + 1
    BY <1>1
  <2> QED BY <1>1, <2>1, <2>2 DEF Members
<1>3. ASSUME NEW e \in Members(s) \cup {x} PROVE e \in Members(Append(s, x))
  <2>1. CASE e = x
    <3>1. Len(s) + 1 \in DOMAIN Append(s, x)
      BY <1>1
    <3> QED BY <1>1, <2>1, <3>1 DEF Members
  <2>2. CASE e \in Members(s)
    <3>1. PICK i \in 1..Len(s) : e = s[i]
      BY <1>1, <2>2 DEF Members
    <3>2. i \in DOMAIN Append(s, x) /\ e = Append(s, x)[i]
      BY <1>1, <3>1
    <3> QED BY <3>2 DEF Members
  <2> QED BY <1>3, <2>1, <2>2
<1> QED BY <1>1, <1>2, <1>3

\* The target lists of branches.
LEMMA AppendShort ==
    ASSUME NEW x \in Nat, NEW y \in Nat
    PROVE  Append(<<>>, x) = <<x>> /\ Append(<<x>>, y) = <<x, y>>
<1>1. /\ Append(<<>>, x) \in Seq(Nat) /\ <<x>> \in Seq(Nat)
      /\ Len(Append(<<>>, x)) = 1 /\ Len(<<x>>) = 1
      /\ Append(<<>>, x)[1] = x /\ <<x>>[1] = x
  OBVIOUS
<1>2. /\ Append(<<x>>, y) \in Seq(Nat) /\ <<x, y>> \in Seq(Nat)
      /\ Len(Append(<<x>>, y)) = 2 /\ Len(<<x, y>>) = 2
      /\ Append(<<x>>, y)[1] = x /\ Append(<<x>>, y)[2] = y
      /\ <<x, y>>[1] = x /\ <<x, y>>[2] = y
  OBVIOUS
<1>3. Append(<<>>, x) = <<x>>
  BY <1>1, SeqEqual
<1>4. \A i \in 1..2 : Append(<<x>>, y)[i] = <<x, y>>[i]
  <2>1. \A i \in 1..2 : i = 1 \/ i = 2
    OBVIOUS
  <2> QED BY <1>2, <2>1
<1> QED BY <1>2, <1>3, <1>4, SeqEqual

\* An edge goes into one list at each end.
LEMMA AddEdgeMatches ==
    ASSUME NEW T, NEW I, NEW g, Shaped(g, T, I), ListsMatch(g),
           NEW b \in Blocks(g), NEW to \in Blocks(g)
    PROVE  LET h == AddEdge(g, b, to)
           IN  /\ Shaped(h, T, I) /\ ListsMatch(h)
               /\ h.n = g.n /\ h.term = g.term
               /\ \A c \in Blocks(g) :
                     h.succs[c] = IF c = b THEN Append(g.succs[b], to) ELSE g.succs[c]
<1> DEFINE s == [g.succs EXCEPT ![b] = Append(g.succs[b], to)]
           p == [g.preds EXCEPT ![to] = Append(g.preds[to], b)]
           h == AddEdge(g, b, to)
<1>1. /\ b \in 1..Len(g.succs) /\ to \in 1..Len(g.preds) /\ b \in Nat /\ to \in Nat
      /\ g.succs \in Seq(Seq(Nat)) /\ g.preds \in Seq(Seq(Nat))
  BY BlockLists DEF Shaped, Graphs, Blocks
<1>2. \A c \in Blocks(g) : c \in Nat /\ g.succs[c] \in Seq(Nat) /\ g.preds[c] \in Seq(Nat)
  BY BlockLists
<1>3. Append(g.succs[b], to) \in Seq(Nat) /\ Append(g.preds[to], b) \in Seq(Nat)
  BY <1>1, <1>2, MembersAppend
<1>4. /\ s \in Seq(Seq(Nat)) /\ Len(s) = Len(g.succs)
      /\ \A c \in 1..Len(g.succs) : s[c] = IF c = b THEN Append(g.succs[b], to) ELSE g.succs[c]
  BY <1>1, <1>3, ExceptSeq
<1>5. /\ p \in Seq(Seq(Nat)) /\ Len(p) = Len(g.preds)
      /\ \A c \in 1..Len(g.preds) : p[c] = IF c = to THEN Append(g.preds[to], b) ELSE g.preds[c]
  BY <1>1, <1>3, ExceptSeq
<1>6. h = [g EXCEPT !.succs = s, !.preds = p]
  BY DEF AddEdge, Shaped, Graphs
<1> HIDE DEF s, p, h
<1>7. /\ h \in Graphs(T, I) /\ h.n = g.n /\ h.term = g.term /\ h.code = g.code
      /\ Len(h.succs) = h.n /\ Len(h.preds) = h.n
      /\ \A c \in Blocks(g) :
            /\ h.succs[c] = IF c = b THEN Append(g.succs[b], to) ELSE g.succs[c]
            /\ h.preds[c] = IF c = to THEN Append(g.preds[to], b) ELSE g.preds[c]
  BY <1>4, <1>5, <1>6 DEF Shaped, Graphs, Blocks
<1>8. Blocks(h) = Blocks(g)
  BY <1>7 DEF Blocks
<1>9. Shaped(h, T, I)
  <2>1. ASSUME NEW c \in Blocks(g)
        PROVE  Members(h.succs[c]) \subseteq Blocks(g) /\ Members(h.preds[c]) \subseteq Blocks(g)
    <3>1. Members(Append(g.succs[b], to)) = Members(g.succs[b]) \cup {to}
      BY <1>1, <1>2, MembersAppend
    <3>2. Members(Append(g.preds[to], b)) = Members(g.preds[to]) \cup {b}
      BY <1>1, <1>2, MembersAppend
    <3>3. Members(g.succs[c]) \subseteq Blocks(g) /\ Members(g.preds[c]) \subseteq Blocks(g)
      BY DEF Shaped
    <3> QED BY <1>7, <3>1, <3>2, <3>3
  <2> QED BY <1>7, <1>8, <2>1 DEF Shaped
<1>10. ListsMatch(h)
  <2>1. ASSUME NEW c \in Blocks(g), NEW d \in Blocks(g)
        PROVE  Occurrences(h.preds[d], c) = Occurrences(h.succs[c], d)
    <3>1. Occurrences(g.preds[d], c) = Occurrences(g.succs[c], d)
      BY DEF ListsMatch
    <3>2. Occurrences(h.succs[c], d)
            = IF c = b /\ d = to THEN Occurrences(g.succs[c], d) + 1 ELSE Occurrences(g.succs[c], d)
      <4>1. CASE c = b
        <5>1. h.succs[c] = Append(g.succs[b], to)
          BY <1>7, <4>1
        <5>2. g.succs[b] \in Seq(Nat) /\ to \in Nat /\ d \in Nat
          BY <1>1, <1>2
        <5>3. Occurrences(Append(g.succs[b], to), d)
                = IF to = d THEN Occurrences(g.succs[b], d) + 1 ELSE Occurrences(g.succs[b], d)
          BY <5>2, OccurrencesAppend
        <5> QED BY <4>1, <5>1, <5>3
      <4>2. CASE c # b
        BY <1>7, <4>2
      <4> QED BY <4>1, <4>2
    <3>3. Occurrences(h.preds[d], c)
            = IF c = b /\ d = to THEN Occurrences(g.preds[d], c) + 1 ELSE Occurrences(g.preds[d], c)
      <4>1. CASE d = to
        <5>1. h.preds[d] = Append(g.preds[to], b)
          BY <1>7, <4>1
        <5>2. g.preds[to] \in Seq(Nat) /\ b \in Nat /\ c \in Nat
          BY <1>1, <1>2
        <5>3. Occurrences(Append(g.preds[to], b), c)
                = IF b = c THEN Occurrences(g.preds[to], c) + 1 ELSE Occurrences(g.preds[to], c)
          BY <5>2, OccurrencesAppend
        <5> QED BY <4>1, <5>1, <5>3
      <4>2. CASE d # to
        BY <1>7, <4>2
      <4> QED BY <4>1, <4>2
    <3> QED BY <3>1, <3>2, <3>3
  <2> QED BY <1>8, <2>1 DEF ListsMatch
<1> QED BY <1>7, <1>9, <1>10 DEF h

\* A jump from an open block.
LEMMA AddJumpSound ==
    ASSUME NEW T, NEW I, NEW g, Sound(g, T, I), NEW b \in OpenBlocks(g), NEW to \in Blocks(g)
    PROVE  /\ Sound(AddJump(g, b, to), T, I)
           /\ AddJump(g, b, to).n = g.n
           /\ OpenBlocks(AddJump(g, b, to)) = OpenBlocks(g) \ {b}
           /\ Ended(g, AddJump(g, b, to), b, JumpTerm(to))
<1> DEFINE h == [g EXCEPT !.term[b] = JumpTerm(to)]
           j == AddEdge(h, b, to)
<1>1. b \in Blocks(g) /\ g.term[b] = Open /\ JumpTerm(to) \in Terms(T) /\ to \in Nat
  <2>1. to \in Nat
    BY BlockLists DEF Sound
  <2> QED BY <2>1 DEF OpenBlocks, Terms
<1>2. /\ Shaped(h, T, I) /\ ListsMatch(h)
      /\ h.n = g.n /\ h.succs = g.succs /\ h.preds = g.preds
      /\ \A c \in Blocks(g) : h.term[c] = IF c = b THEN JumpTerm(to) ELSE g.term[c]
  BY <1>1, SetTerm DEF Sound
<1> HIDE DEF h
<1>3. Blocks(h) = Blocks(g)
  BY <1>2 DEF Blocks
<1>4. /\ Shaped(j, T, I) /\ ListsMatch(j) /\ j.n = g.n /\ j.term = h.term
      /\ \A c \in Blocks(g) : j.succs[c] = IF c = b THEN Append(g.succs[b], to) ELSE g.succs[c]
  <2>1. b \in Blocks(h) /\ to \in Blocks(h)
    BY <1>1, <1>3
  <2>2. /\ Shaped(j, T, I) /\ ListsMatch(j) /\ j.n = h.n /\ j.term = h.term
        /\ \A c \in Blocks(h) : j.succs[c] = IF c = b THEN Append(h.succs[b], to) ELSE h.succs[c]
    BY <1>2, <2>1, AddEdgeMatches
  <2> QED BY <1>2, <1>3, <2>2
<1> HIDE DEF j
<1>5. SuccsAreTargets(j)
  <2>1. ASSUME NEW c \in Blocks(g) PROVE j.succs[c] = Targets(j, c)
    <3>1. g.succs[c] = Targets(g, c)
      BY DEF Sound, SuccsAreTargets
    <3>2. CASE c = b
      <4>1. g.succs[b] = <<>>
        BY <1>1, <3>1, <3>2 DEF Targets, Open
      <4>2. j.succs[c] = <<to>>
        BY <1>1, <1>4, <3>2, <4>1, AppendShort
      <4>3. j.term[c] = JumpTerm(to)
        BY <1>1, <1>2, <1>4, <3>2
      <4>4. Targets(j, c) = <<to>>
        <5>1. j.term[c].kind = "br" /\ j.term[c].to = to
          BY <4>3 DEF JumpTerm
        <5> QED BY <5>1 DEF Targets
      <4> QED BY <4>2, <4>4
    <3>3. CASE c # b
      BY <1>2, <1>4, <3>1, <3>3 DEF Targets
    <3> QED BY <3>2, <3>3
  <2> QED BY <1>4, <2>1 DEF SuccsAreTargets, Blocks
<1>6. OpenBlocks(j) = OpenBlocks(g) \ {b}
  BY <1>1, <1>2, <1>4 DEF OpenBlocks, Blocks, Open, JumpTerm
<1>7. Ended(g, j, b, JumpTerm(to))
  BY <1>1, <1>2, <1>4 DEF Ended, SameTerms
<1> QED BY <1>4, <1>5, <1>6, <1>7 DEF Sound, AddJump, j, h

\* A conditional branch from an open block.
LEMMA AddCondJumpSound ==
    ASSUME NEW T, NEW I, NEW g, Sound(g, T, I), NEW b \in OpenBlocks(g),
           NEW test \in T, NEW y \in Blocks(g), NEW n \in Blocks(g)
    PROVE  /\ Sound(AddCondJump(g, b, test, y, n), T, I)
           /\ AddCondJump(g, b, test, y, n).n = g.n
           /\ OpenBlocks(AddCondJump(g, b, test, y, n)) = OpenBlocks(g) \ {b}
           /\ Ended(g, AddCondJump(g, b, test, y, n), b, CondTerm(test, y, n))
<1> DEFINE x == CondTerm(test, y, n)
           h == [g EXCEPT !.term[b] = x]
           i == AddEdge(h, b, y)
           j == AddEdge(i, b, n)
<1>1. b \in Blocks(g) /\ g.term[b] = Open /\ x \in Terms(T) /\ y \in Nat /\ n \in Nat
  <2>1. y \in Nat /\ n \in Nat
    BY BlockLists DEF Sound
  <2> QED BY <2>1 DEF OpenBlocks, Terms
<1>2. /\ Shaped(h, T, I) /\ ListsMatch(h)
      /\ h.n = g.n /\ h.succs = g.succs /\ h.preds = g.preds
      /\ \A c \in Blocks(g) : h.term[c] = IF c = b THEN x ELSE g.term[c]
  BY <1>1, SetTerm DEF Sound
<1> HIDE DEF h
<1>3. Blocks(h) = Blocks(g)
  BY <1>2 DEF Blocks
<1>4. /\ Shaped(i, T, I) /\ ListsMatch(i) /\ i.n = g.n /\ i.term = h.term
      /\ \A c \in Blocks(g) : i.succs[c] = IF c = b THEN Append(g.succs[b], y) ELSE g.succs[c]
  <2>1. b \in Blocks(h) /\ y \in Blocks(h)
    BY <1>1, <1>3
  <2>2. /\ Shaped(i, T, I) /\ ListsMatch(i) /\ i.n = h.n /\ i.term = h.term
        /\ \A c \in Blocks(h) : i.succs[c] = IF c = b THEN Append(h.succs[b], y) ELSE h.succs[c]
    BY <1>2, <2>1, AddEdgeMatches
  <2> QED BY <1>2, <1>3, <2>2
<1> HIDE DEF i
<1>5. Blocks(i) = Blocks(g)
  BY <1>4 DEF Blocks
<1>6. /\ Shaped(j, T, I) /\ ListsMatch(j) /\ j.n = g.n /\ j.term = h.term
      /\ \A c \in Blocks(g) : j.succs[c] = IF c = b THEN Append(i.succs[b], n) ELSE i.succs[c]
  <2>1. b \in Blocks(i) /\ n \in Blocks(i)
    BY <1>1, <1>5
  <2>2. /\ Shaped(j, T, I) /\ ListsMatch(j) /\ j.n = i.n /\ j.term = i.term
        /\ \A c \in Blocks(i) : j.succs[c] = IF c = b THEN Append(i.succs[b], n) ELSE i.succs[c]
    BY <1>4, <2>1, AddEdgeMatches
  <2> QED BY <1>4, <1>5, <2>2
<1> HIDE DEF j
<1>7. SuccsAreTargets(j)
  <2>1. ASSUME NEW c \in Blocks(g) PROVE j.succs[c] = Targets(j, c)
    <3>1. g.succs[c] = Targets(g, c)
      BY DEF Sound, SuccsAreTargets
    <3>2. CASE c = b
      <4>1. g.succs[b] = <<>>
        BY <1>1, <3>1, <3>2 DEF Targets, Open
      <4>2. i.succs[b] = <<y>>
        BY <1>1, <1>4, <4>1, AppendShort
      <4>3. j.succs[c] = <<y, n>>
        BY <1>1, <1>6, <3>2, <4>2, AppendShort
      <4>4. j.term[c] = CondTerm(test, y, n)
        BY <1>1, <1>2, <1>6, <3>2
      <4>5. Targets(j, c) = <<y, n>>
        <5>1. j.term[c].kind = "cond" /\ j.term[c].yes = y /\ j.term[c].no = n
          BY <4>4 DEF CondTerm
        <5>2. j.term[c].kind # "br"
          BY <5>1
        <5> QED BY <5>1, <5>2 DEF Targets
      <4> QED BY <4>3, <4>5
    <3>3. CASE c # b
      BY <1>2, <1>4, <1>6, <3>1, <3>3 DEF Targets
    <3> QED BY <3>2, <3>3
  <2> QED BY <1>6, <2>1 DEF SuccsAreTargets, Blocks
<1>8. OpenBlocks(j) = OpenBlocks(g) \ {b}
  BY <1>1, <1>2, <1>6 DEF OpenBlocks, Blocks, Open, CondTerm
<1>9. Ended(g, j, b, CondTerm(test, y, n))
  BY <1>1, <1>2, <1>6 DEF Ended, SameTerms
<1> QED BY <1>6, <1>7, <1>8, <1>9 DEF Sound, AddCondJump, j, i, h

\* A return has no targets.
LEMMA AddReturnSound ==
    ASSUME NEW T, NEW I, NEW g, Sound(g, T, I), NEW b \in OpenBlocks(g)
    PROVE  /\ Sound(AddReturn(g, b), T, I)
           /\ AddReturn(g, b).n = g.n
           /\ OpenBlocks(AddReturn(g, b)) = OpenBlocks(g) \ {b}
           /\ Ended(g, AddReturn(g, b), b, RetTerm)
<1> DEFINE h == AddReturn(g, b)
<1>1. /\ h \in Graphs(T, I) /\ Len(h.term) = h.n /\ h.n = g.n
      /\ h.code = g.code /\ h.succs = g.succs /\ h.preds = g.preds
      /\ \A c \in Blocks(g) : h.term[c] = IF c = b THEN RetTerm ELSE g.term[c]
  <2> DEFINE t == [g.term EXCEPT ![b] = RetTerm]
  <2>1. b \in 1..Len(g.term) /\ g.term \in Seq(Terms(T)) /\ RetTerm \in Terms(T)
    <3>1. b \in Blocks(g) /\ RetTerm \in Terms(T)
      BY DEF OpenBlocks, Terms
    <3> QED BY <3>1, BlockLists DEF Sound, Shaped, Graphs
  <2>2. /\ t \in Seq(Terms(T)) /\ Len(t) = Len(g.term)
        /\ \A c \in 1..Len(g.term) : t[c] = IF c = b THEN RetTerm ELSE g.term[c]
    BY <2>1, ExceptSeq
  <2>3. h = [g EXCEPT !.term = t]
    BY DEF AddReturn, Sound, Shaped, Graphs
  <2> HIDE DEF t, h
  <2> QED BY <2>2, <2>3 DEF Sound, Shaped, Graphs, Blocks
<1>2. Shaped(h, T, I) /\ ListsMatch(h)
  BY <1>1 DEF Sound, Shaped, ListsMatch, Blocks
<1>3. SuccsAreTargets(h)
  <2>1. ASSUME NEW c \in Blocks(g) PROVE h.succs[c] = Targets(h, c)
    <3>1. g.succs[c] = Targets(g, c)
      BY DEF Sound, SuccsAreTargets
    <3>2. CASE c = b
      BY <1>1, <3>1, <3>2 DEF Targets, OpenBlocks, Open, RetTerm
    <3>3. CASE c # b
      BY <1>1, <3>1, <3>3 DEF Targets
    <3> QED BY <3>2, <3>3
  <2> QED BY <1>1, <2>1 DEF SuccsAreTargets, Blocks
<1> QED BY <1>1, <1>2, <1>3 DEF Sound, OpenBlocks, Blocks, Open, RetTerm, SameTerms, Ended

-----------------------------------------------------------------------------
(* The builder.                                                            *)

Tests == {"index", "cond"} \X Nat
Instrs == (Payload \cup {"neg_idx_except"}) \X Nat
Entries == {VisitList(l) : l \in Nat} \cup {ContinueAt(b) : b \in Nat} \cup {JumpTo(b) : b \in Nat}

Nodes ==
    [is : {"expr"}, id : Nat, index : BOOLEAN, does : Payload]
      \cup [is : {"return"}, id : Nat, index : BOOLEAN]
      \cup [is : {"if"}, id : Nat, index : BOOLEAN, then : Nat]
      \cup [is : {"ifelse"}, id : Nat, index : BOOLEAN, then : Nat, else : Nat]
      \cup [is : {"while"}, id : Nat, index : BOOLEAN, do : Nat]
      \cup [is : Silent]

\* Behind the last element of the list the block inserted into is terminated.
EndsInReturn(l) ==
    \E i \in DOMAIN l :
        /\ l[i].is = "return"
        /\ \A m \in DOMAIN l : m > i => l[m].is \in Silent

\* An instruction of the list is added behind its return.
BehindReturn(l) ==
    \E i, j \in DOMAIN l :
        /\ i < j
        /\ l[i].is = "return"
        /\ l[j].is \notin Silent \cup {"while"}
        /\ \A m \in (i + 1)..(j - 1) : l[m].is \in Silent

\* What the visitors td still have to do is in order, in a function with n
\* blocks of which those in open are open, while at is inserted into: behind
\* each list comes the jump of its visitor, the block it goes on in, and the
\* list around it.
Orderly(td, open, n, at, pr) ==
    /\ td \in Seq(Entries)
    /\ \A i \in 1..Len(td) : td[i].do = "jump" =>
          /\ td[i].to \in 1..n
          /\ i < Len(td) /\ td[i + 1].do = "insert"
    /\ \A i \in 1..Len(td) : td[i].do = "insert" =>
          /\ td[i].at \in open \ {at}
          /\ i < Len(td) /\ td[i + 1].do = "list"
    /\ \A i \in 1..Len(td) : td[i].do = "list" =>
          /\ td[i].list \in 1..Len(pr)
          /\ i > 1 => ~EndsInReturn(pr[td[i].list])
          /\ i < Len(td) => td[i + 1].do = "jump"
    /\ \A i, j \in 1..Len(td) : i # j =>
          /\ td[i].do = "insert" /\ td[j].do = "insert" => td[i].at # td[j].at
          /\ td[i].do = "list" /\ td[j].do = "list" => td[i].list # td[j].list

\* What a visitor puts in front of what the others have to do.
InFront(x, y, z, td)             == <<x, y, z>> \o td
TwoInFront(a, b, c, d, e, f, td) == <<a, b, c, d, e, f>> \o td

\* The entries of such a list, and of the one behind.
Lined(t, x, y, z, td) ==
    /\ t \in Seq(Entries) /\ Len(td) \in Nat /\ Len(t) = Len(td) + 3
    /\ t[1] = x /\ t[2] = y /\ t[3] = z
    /\ \A i \in 1..Len(td) : t[i + 3] = td[i]
    /\ \A i \in 1..Len(t) : i = 1 \/ i = 2 \/ i = 3 \/ \E k \in 1..Len(td) : i = k + 3

\* Every open block is inserted into or waited for.
Covered(td, open, at) ==
    \A b \in open : b = at \/ \E i \in 1..Len(td) : td[i].do = "insert" /\ td[i].at = b

Typed ==
    /\ Sound(cfg, Tests, Instrs)
    /\ cur \in Blocks(cfg)
    /\ nodes \in Nat
    /\ program \in Seq(Seq(Nodes))
    /\ outcome \in {"running", "done", "abort"}

Building ==
    outcome = "running" =>
        /\ Orderly(todo, OpenBlocks(cfg), cfg.n, cur, program)
        /\ Covered(todo, OpenBlocks(cfg), cur)
        /\ todo # <<>> /\ todo[1].do = "list" =>
              (cur \in OpenBlocks(cfg) <=> ~EndsInReturn(program[todo[1].list]))
        /\ todo # <<>> /\ todo[1].do = "insert" => cur \notin OpenBlocks(cfg)

Built == outcome = "done" => OpenBlocks(cfg) = {}

BuilderInv == Typed /\ Building /\ Built /\ AbortsOnlyBehindReturn

-----------------------------------------------------------------------------
\* Taking the first entry leaves the rest in order.
LEMMA PopOrderly ==
    ASSUME NEW td, td # <<>>, NEW open, NEW n \in Nat, NEW at, NEW pr,
           Orderly(td, open, n, at, pr)
    PROVE  Orderly(Tail(td), open, n, at, pr)
<1>1. /\ td \in Seq(Entries) /\ Tail(td) \in Seq(Entries)
      /\ Len(td) \in Nat /\ Len(Tail(td)) \in Nat /\ Len(Tail(td)) = Len(td) - 1
      /\ \A i \in 1..Len(Tail(td)) : Tail(td)[i] = td[i + 1]
  BY HeadTailProperties, LenProperties DEF Orderly
<1> DEFINE t == Tail(td)
<1> HIDE DEF t
<1>2. /\ t \in Seq(Entries) /\ Len(t) = Len(td) - 1 /\ Len(td) \in Nat /\ Len(t) \in Nat
      /\ \A i \in 1..Len(t) : i + 1 \in 1..Len(td) /\ t[i] = td[i + 1]
  BY <1>1 DEF t
<1>3. ASSUME NEW i \in 1..Len(t), t[i].do = "jump"
      PROVE  t[i].to \in 1..n /\ i < Len(t) /\ t[i + 1].do = "insert"
  BY <1>2, <1>3 DEF Orderly
<1>4. ASSUME NEW i \in 1..Len(t), t[i].do = "insert"
      PROVE  t[i].at \in open \ {at} /\ i < Len(t) /\ t[i + 1].do = "list"
  BY <1>2, <1>4 DEF Orderly
<1>5. ASSUME NEW i \in 1..Len(t), t[i].do = "list"
      PROVE  /\ t[i].list \in 1..Len(pr)
             /\ ~EndsInReturn(pr[t[i].list])
             /\ i < Len(t) => t[i + 1].do = "jump"
  BY <1>2, <1>5 DEF Orderly
<1>6. ASSUME NEW i \in 1..Len(t), NEW j \in 1..Len(t), i # j
      PROVE  /\ t[i].do = "insert" /\ t[j].do = "insert" => t[i].at # t[j].at
             /\ t[i].do = "list" /\ t[j].do = "list" => t[i].list # t[j].list
  <2>1. i + 1 # j + 1
    BY <1>6
  <2>2. i + 1 \in 1..Len(td) /\ j + 1 \in 1..Len(td) /\ t[i] = td[i + 1] /\ t[j] = td[j + 1]
    BY <1>2
  <2> QED BY <2>1, <2>2 DEF Orderly
<1> QED BY <1>2, <1>3, <1>4, <1>5, <1>6 DEF Orderly, t

\* The head list of td grows, the block inserted into is left for a new one or
\* terminated, and blocks are added: what waits is still in order.
LEMMA CarryOrderly ==
    ASSUME NEW td, td # <<>>, td[1].do = "list",
           NEW n \in Nat, NEW n2 \in Nat, n <= n2,
           NEW open \in SUBSET (1..n), NEW open2, NEW at, NEW at2,
           open \ {at} \subseteq open2, at2 = at \/ at2 \notin 1..n,
           NEW pr, NEW pr2, Len(pr) \in Nat, Len(pr2) \in Nat, Len(pr) <= Len(pr2),
           \A m \in 1..Len(pr) : m # td[1].list => pr2[m] = pr[m],
           Orderly(td, open, n, at, pr)
    PROVE  Orderly(td, open2, n2, at2, pr2)
<1>1. td \in Seq(Entries) /\ Len(td) \in Nat /\ 1 \in 1..Len(td)
  BY EmptySeq, LenProperties DEF Orderly
<1>2. ASSUME NEW i \in 1..Len(td), td[i].do = "jump"
      PROVE  td[i].to \in 1..n2 /\ i < Len(td) /\ td[i + 1].do = "insert"
  <2>1. td[i].to \in 1..n /\ i < Len(td) /\ td[i + 1].do = "insert"
    BY <1>2 DEF Orderly
  <2> QED BY <2>1
<1>3. ASSUME NEW i \in 1..Len(td), td[i].do = "insert"
      PROVE  td[i].at \in open2 \ {at2} /\ i < Len(td) /\ td[i + 1].do = "list"
  <2>1. td[i].at \in open \ {at} /\ i < Len(td) /\ td[i + 1].do = "list"
    BY <1>3 DEF Orderly
  <2>2. td[i].at \in open2 /\ td[i].at \in 1..n
    BY <2>1
  <2>3. td[i].at # at2
    BY <2>1, <2>2
  <2> QED BY <2>1, <2>2, <2>3
<1>4. ASSUME NEW i \in 1..Len(td), td[i].do = "list"
      PROVE  /\ td[i].list \in 1..Len(pr2)
             /\ i > 1 => ~EndsInReturn(pr2[td[i].list])
             /\ i < Len(td) => td[i + 1].do = "jump"
  <2>1. /\ td[i].list \in 1..Len(pr) /\ (i > 1 => ~EndsInReturn(pr[td[i].list]))
        /\ i < Len(td) => td[i + 1].do = "jump"
    BY <1>4 DEF Orderly
  <2>2. i > 1 => td[i].list # td[1].list
    BY <1>1, <1>4 DEF Orderly
  <2>3. td[i].list \in 1..Len(pr2)
    BY <2>1
  <2>4. i > 1 => pr2[td[i].list] = pr[td[i].list]
    BY <2>1, <2>2
  <2> QED BY <2>1, <2>3, <2>4
<1>5. ASSUME NEW i \in 1..Len(td), NEW j \in 1..Len(td), i # j
      PROVE  /\ td[i].do = "insert" /\ td[j].do = "insert" => td[i].at # td[j].at
             /\ td[i].do = "list" /\ td[j].do = "list" => td[i].list # td[j].list
  BY <1>5 DEF Orderly
<1> QED BY <1>1, <1>2, <1>3, <1>4, <1>5 DEF Orderly

\* The entries a visitor puts in front, and the ones behind them.
LEMMA Pushed ==
    ASSUME NEW td \in Seq(Entries), NEW x \in Entries, NEW y \in Entries, NEW z \in Entries
    PROVE  Lined(InFront(x, y, z, td), x, y, z, td)
<1> DEFINE h == <<x, y, z>>
           t == h \o td
<1>1. Len(td) \in Nat /\ h \in Seq(Entries) /\ Len(h) = 3
  BY LenProperties
<1> HIDE DEF h
<1>2. /\ t \in Seq(Entries) /\ Len(t) = Len(h) + Len(td)
      /\ \A i \in 1..(Len(h) + Len(td)) : t[i] = IF i <= Len(h) THEN h[i] ELSE td[i - Len(h)]
  <2>1. h \in Seq(Entries) /\ td \in Seq(Entries)
    BY <1>1
  <2> QED BY ONLY <2>1, ConcatProperties
<1>3. /\ Len(t) = Len(td) + 3
      /\ \A i \in 1..Len(t) : t[i] = IF i <= 3 THEN h[i] ELSE td[i - 3]
  BY <1>1, <1>2
<1> HIDE DEF t
<1>4. t[1] = h[1] /\ t[2] = h[2] /\ t[3] = h[3]
  BY <1>1, <1>3
<1>5. \A i \in 1..Len(td) : i + 3 \in 1..Len(t) /\ ~(i + 3 <= 3) /\ (i + 3) - 3 = i
  BY <1>1, <1>3
<1>6. \A i \in 1..Len(td) : t[i + 3] = td[i]
  BY <1>3, <1>5
<1>7. \A i \in 1..Len(t) : i = 1 \/ i = 2 \/ i = 3 \/ \E k \in 1..Len(td) : i = k + 3
  <2>1. ASSUME NEW i \in 1..Len(t), i > 3 PROVE i - 3 \in 1..Len(td) /\ i = (i - 3) + 3
    BY <1>1, <1>3, <2>1
  <2>2. \A i \in 1..Len(t) : i = 1 \/ i = 2 \/ i = 3 \/ i > 3
    BY <1>1, <1>3
  <2> QED BY <2>1, <2>2
<1>8. h[1] = x /\ h[2] = y /\ h[3] = z
  BY DEF h
<1>9. t = InFront(x, y, z, td)
  BY Zenon DEF h, t, InFront
<1>10. Lined(t, x, y, z, td)
  BY <1>1, <1>2, <1>3, <1>4, <1>6, <1>7, <1>8 DEF Lined
<1> QED BY <1>9, <1>10

\* A visitor starts with its list.
LEMMA HeadOfPushed ==
    ASSUME NEW td \in Seq(Entries), NEW l \in Nat, NEW j \in Nat, NEW c \in Nat
    PROVE  LET t == InFront(VisitList(l), JumpTo(j), ContinueAt(c), td)
           IN  t \in Seq(Entries) /\ t # <<>> /\ t[1] = VisitList(l)
<1>1. VisitList(l) \in Entries /\ JumpTo(j) \in Entries /\ ContinueAt(c) \in Entries
  BY DEF Entries
<1> DEFINE t == InFront(VisitList(l), JumpTo(j), ContinueAt(c), td)
<1>2. Lined(t, VisitList(l), JumpTo(j), ContinueAt(c), td)
  BY <1>1, Pushed
<1> HIDE DEF t
<1>3. t \in Seq(Entries) /\ Len(t) = Len(td) + 3 /\ Len(td) \in Nat /\ t[1] = VisitList(l)
  BY <1>2 DEF Lined
<1>4. t # <<>>
  BY <1>3, EmptySeq
<1> QED BY <1>3, <1>4 DEF t

\* A visitor puts its list, its jump and the block it goes on in in front.
LEMMA PushOrderly ==
    ASSUME NEW td, td # <<>>, td[1].do = "list",
           NEW open, NEW n \in Nat, NEW at, NEW pr, n \in Nat, open \subseteq Nat, Len(pr) \in Nat,
           Orderly(td, open, n, at, pr),
           ~EndsInReturn(pr[td[1].list]),
           NEW l \in 1..Len(pr), NEW j \in 1..n, NEW c \in open \ {at},
           \A i \in 1..Len(td) : td[i].do = "list" => td[i].list # l,
           \A i \in 1..Len(td) : td[i].do = "insert" => td[i].at # c
    PROVE  Orderly(InFront(VisitList(l), JumpTo(j), ContinueAt(c), td), open, n, at, pr)
<1> DEFINE t == InFront(VisitList(l), JumpTo(j), ContinueAt(c), td)
<1>1. td \in Seq(Entries) /\ Len(td) \in Nat /\ 1 \in 1..Len(td)
  <2>1. td \in Seq(Entries)
    BY DEF Orderly
  <2> QED BY <2>1, EmptySeq, LenProperties
<1>2. /\ t \in Seq(Entries) /\ Len(t) = Len(td) + 3
      /\ t[1] = VisitList(l) /\ t[2] = JumpTo(j) /\ t[3] = ContinueAt(c)
      /\ \A i \in 1..Len(td) : t[i + 3] = td[i]
      /\ \A i \in 1..Len(t) : i = 1 \/ i = 2 \/ i = 3 \/ \E k \in 1..Len(td) : i = k + 3
  <2>1. VisitList(l) \in Entries /\ JumpTo(j) \in Entries /\ ContinueAt(c) \in Entries
    BY DEF Entries
  <2>2. Lined(t, VisitList(l), JumpTo(j), ContinueAt(c), td)
    BY <1>1, <2>1, Pushed
  <2> HIDE DEF t
  <2> QED BY <2>2 DEF Lined
<1> HIDE DEF t
<1>3. \A i \in 1..Len(t) : i = 1 \/ i = 2 \/ i = 3 \/ \E k \in 1..Len(td) : i = k + 3
  BY <1>2
<1>4. /\ t[1].do = "list" /\ t[1].list = l /\ t[2].do = "jump" /\ t[2].to = j
      /\ t[3].do = "insert" /\ t[3].at = c
  BY <1>2 DEF VisitList, JumpTo, ContinueAt
<1>5. t[4] = td[1] /\ t[4].do = "list" /\ 3 < Len(t)
  <2>1. t[1 + 3] = td[1] /\ 1 + 3 = 4
    BY <1>1, <1>2
  <2>2. Len(td) \in Nat /\ Len(td) >= 1 /\ Len(t) = Len(td) + 3
    BY <1>1, <1>2
  <2> QED BY <2>1, <2>2
<1>6. ASSUME NEW i \in 1..Len(t), t[i].do = "jump"
      PROVE  t[i].to \in 1..n /\ i < Len(t) /\ t[i + 1].do = "insert"
  <2>1. CASE \E k \in 1..Len(td) : i = k + 3
    <3>1. PICK k \in 1..Len(td) : i = k + 3
      BY <2>1
    <3>2. td[k].to \in 1..n /\ k < Len(td) /\ td[k + 1].do = "insert"
      BY <1>2, <1>6, <3>1 DEF Orderly
    <3>3. k + 1 \in 1..Len(td) /\ i + 1 = (k + 1) + 3
      <4>1. k \in Nat /\ k > 0 /\ Len(td) \in Nat /\ k < Len(td)
        BY <1>1, <3>2
      <4> QED BY <4>1, <3>1
    <3>4. t[i] = td[k] /\ t[i + 1] = td[k + 1]
      BY <1>2, <3>1, <3>3
    <3> QED BY <1>1, <1>2, <3>1, <3>2, <3>4
  <2>2. CASE i = 1 \/ i = 2 \/ i = 3
    BY <2>2, <1>4, <1>5, <1>6
  <2> QED BY <1>3, <2>1, <2>2
<1>7. ASSUME NEW i \in 1..Len(t), t[i].do = "insert"
      PROVE  t[i].at \in open \ {at} /\ i < Len(t) /\ t[i + 1].do = "list"
  <2>1. CASE \E k \in 1..Len(td) : i = k + 3
    <3>1. PICK k \in 1..Len(td) : i = k + 3
      BY <2>1
    <3>2. td[k].at \in open \ {at} /\ k < Len(td) /\ td[k + 1].do = "list"
      BY <1>2, <1>7, <3>1 DEF Orderly
    <3>3. k + 1 \in 1..Len(td) /\ i + 1 = (k + 1) + 3
      <4>1. k \in Nat /\ k > 0 /\ Len(td) \in Nat /\ k < Len(td)
        BY <1>1, <3>2
      <4> QED BY <4>1, <3>1
    <3>4. t[i] = td[k] /\ t[i + 1] = td[k + 1]
      BY <1>2, <3>1, <3>3
    <3> QED BY <1>1, <1>2, <3>1, <3>2, <3>4
  <2>2. CASE i = 1 \/ i = 2 \/ i = 3
    BY <2>2, <1>4, <1>5, <1>7
  <2> QED BY <1>3, <2>1, <2>2
<1>8. ASSUME NEW i \in 1..Len(t), t[i].do = "list"
      PROVE  /\ t[i].list \in 1..Len(pr)
             /\ i > 1 => ~EndsInReturn(pr[t[i].list])
             /\ i < Len(t) => t[i + 1].do = "jump"
  <2>1. CASE \E k \in 1..Len(td) : i = k + 3
    <3>1. PICK k \in 1..Len(td) : i = k + 3
      BY <2>1
    <3>2. t[i] = td[k]
      BY <1>2, <3>1
    <3>3. /\ td[k].list \in 1..Len(pr) /\ (k > 1 => ~EndsInReturn(pr[td[k].list]))
          /\ k < Len(td) => td[k + 1].do = "jump"
      BY <1>8, <3>2 DEF Orderly
    <3>4. ~EndsInReturn(pr[td[k].list])
      <4>1. k = 1 \/ k > 1
        BY <1>1
      <4> QED BY <3>3, <4>1
    <3>5. ASSUME i < Len(t) PROVE t[i + 1].do = "jump"
      <4>1. k < Len(td) /\ k + 1 \in 1..Len(td) /\ i + 1 = (k + 1) + 3
        <5>1. k \in Nat /\ k > 0 /\ Len(td) \in Nat /\ i = k + 3
          BY <1>1, <3>1
        <5>2. i < Len(td) + 3
          BY <1>2, <3>5
        <5> QED BY <5>1, <5>2
      <4>2. t[i + 1] = td[k + 1]
        BY <1>2, <4>1
      <4> QED BY <3>3, <4>1, <4>2
    <3> QED BY <3>2, <3>3, <3>4, <3>5
  <2>2. CASE i = 1 \/ i = 2 \/ i = 3
    BY <2>2, <1>4, <1>5, <1>8
  <2> QED BY <1>3, <2>1, <2>2
<1>9. ASSUME NEW i \in 1..Len(t), NEW k \in 1..Len(t), i # k
      PROVE  /\ t[i].do = "insert" /\ t[k].do = "insert" => t[i].at # t[k].at
             /\ t[i].do = "list" /\ t[k].do = "list" => t[i].list # t[k].list
  <2>1. CASE i > 3 /\ k > 3
    <3>1. PICK a \in 1..Len(td) : i = a + 3
      BY <2>1, <1>3
    <3>2. PICK b \in 1..Len(td) : k = b + 3
      BY <2>1, <1>3
    <3>3. a # b /\ t[i] = td[a] /\ t[k] = td[b]
      BY <1>2, <1>9, <3>1, <3>2
    <3> QED BY <3>3 DEF Orderly
  <2>2. CASE ~(i > 3) /\ k > 3
    <3>1. PICK b \in 1..Len(td) : k = b + 3
      BY <2>2, <1>3
    <3>2. t[k] = td[b]
      BY <1>2, <3>1
    <3>3. i = 1 \/ i = 2 \/ i = 3
      BY <2>2, <1>1, <1>2
    <3> QED BY <1>4, <3>2, <3>3
  <2>3. CASE i > 3 /\ ~(k > 3)
    <3>1. PICK a \in 1..Len(td) : i = a + 3
      BY <2>3, <1>3
    <3>2. t[i] = td[a]
      BY <1>2, <3>1
    <3>3. k = 1 \/ k = 2 \/ k = 3
      BY <2>3, <1>1, <1>2
    <3> QED BY <1>4, <3>2, <3>3
  <2>4. CASE ~(i > 3) /\ ~(k > 3)
    <3>1. (i = 1 \/ i = 2 \/ i = 3) /\ (k = 1 \/ k = 2 \/ k = 3)
      BY <2>4, <1>1, <1>2
    <3> QED BY <1>4, <1>9, <3>1
  <2> QED BY <2>1, <2>2, <2>3, <2>4
<1> QED BY <1>2, <1>6, <1>7, <1>8, <1>9 DEF Orderly, t

\* A list with one element more.
LEMMA ListGrows ==
    ASSUME NEW S, NEW s \in Seq(S), NEW x \in S
    PROVE  /\ EndsInReturn(Append(s, x))
                <=> x.is = "return" \/ (EndsInReturn(s) /\ x.is \in Silent)
           /\ BehindReturn(Append(s, x))
                <=> BehindReturn(s) \/ (EndsInReturn(s) /\ x.is \notin Silent \cup {"while"})
<1> DEFINE a == Append(s, x)
           n == Len(s)
<1>1. /\ a \in Seq(S) /\ Len(a) = n + 1 /\ n \in Nat /\ DOMAIN a = 1..(n + 1) /\ DOMAIN s = 1..n
      /\ a[n + 1] = x /\ \A i \in 1..n : a[i] = s[i]
  BY AppendProperties, LenProperties
<1> HIDE DEF a, n
<1>2. 1..n \subseteq DOMAIN a /\ n + 1 \in DOMAIN a
  BY <1>1
<1>3. ASSUME EndsInReturn(a) PROVE x.is = "return" \/ (EndsInReturn(s) /\ x.is \in Silent)
  <2>1. PICK i \in DOMAIN a : /\ a[i].is = "return"
                              /\ \A m \in DOMAIN a : m > i => a[m].is \in Silent
    BY <1>3 DEF EndsInReturn
  <2>2. CASE i = n + 1
    BY <1>1, <2>1, <2>2
  <2>3. CASE i # n + 1
    <3>1. i \in 1..n /\ n + 1 > i
      BY <1>1, <2>3
    <3>2. x.is \in Silent
      BY <1>1, <1>2, <2>1, <3>1
    <3>3. s[i].is = "return" /\ \A m \in DOMAIN s : m > i => s[m].is \in Silent
      BY <1>1, <1>2, <2>1, <3>1
    <3> QED BY <1>1, <3>1, <3>2, <3>3 DEF EndsInReturn
  <2> QED BY <2>2, <2>3
<1>4. ASSUME x.is = "return" PROVE EndsInReturn(a)
  <2>1. \A m \in DOMAIN a : ~(m > n + 1)
    BY <1>1
  <2> QED BY <1>1, <1>2, <1>4, <2>1 DEF EndsInReturn
<1>5. ASSUME EndsInReturn(s), x.is \in Silent PROVE EndsInReturn(a)
  <2>1. PICK i \in DOMAIN s : /\ s[i].is = "return"
                              /\ \A m \in DOMAIN s : m > i => s[m].is \in Silent
    BY <1>5 DEF EndsInReturn
  <2>2. ASSUME NEW m \in DOMAIN a, m > i PROVE a[m].is \in Silent
    <3>1. m = n + 1 \/ m \in 1..n
      BY <1>1
    <3> QED BY <1>1, <1>5, <2>1, <2>2, <3>1
  <2> QED BY <1>1, <1>2, <2>1, <2>2 DEF EndsInReturn
<1>6. ASSUME BehindReturn(a)
      PROVE BehindReturn(s) \/ (EndsInReturn(s) /\ x.is \notin Silent \cup {"while"})
  <2>1. PICK i \in DOMAIN a, j \in DOMAIN a :
            /\ i < j
            /\ a[i].is = "return"
            /\ a[j].is \notin Silent \cup {"while"}
            /\ \A m \in (i + 1)..(j - 1) : a[m].is \in Silent
    BY <1>6 DEF BehindReturn
  <2>2. i \in 1..n /\ i \in Nat /\ j \in Nat /\ s[i].is = "return"
    BY <1>1, <2>1
  <2>3. CASE j = n + 1
    <3>1. ASSUME NEW m \in DOMAIN s, m > i PROVE s[m].is \in Silent
      <4>1. m \in 1..n /\ m \in (i + 1)..(j - 1)
        BY <1>1, <2>2, <2>3, <3>1
      <4> QED BY <1>1, <2>1, <4>1
    <3> QED BY <1>1, <2>1, <2>2, <2>3, <3>1 DEF EndsInReturn
  <2>4. CASE j # n + 1
    <3>1. j \in 1..n
      BY <1>1, <2>4
    <3>2. ASSUME NEW m \in (i + 1)..(j - 1) PROVE s[m].is \in Silent
      <4>1. m \in 1..n
        BY <1>1, <2>2, <3>1
      <4> QED BY <1>1, <2>1, <4>1
    <3>3. s[j].is \notin Silent \cup {"while"}
      BY <1>1, <2>1, <3>1
    <3> QED BY <1>1, <2>1, <2>2, <3>1, <3>2, <3>3 DEF BehindReturn
  <2> QED BY <2>3, <2>4
<1>7. ASSUME BehindReturn(s) PROVE BehindReturn(a)
  <2>1. PICK i \in DOMAIN s, j \in DOMAIN s :
            /\ i < j
            /\ s[i].is = "return"
            /\ s[j].is \notin Silent \cup {"while"}
            /\ \A m \in (i + 1)..(j - 1) : s[m].is \in Silent
    BY <1>7 DEF BehindReturn
  <2>2. ASSUME NEW m \in (i + 1)..(j - 1) PROVE a[m].is \in Silent
    <3>1. m \in 1..n
      BY <1>1
    <3> QED BY <1>1, <2>1, <3>1
  <2>3. a[i].is = "return" /\ a[j].is \notin Silent \cup {"while"} /\ i \in DOMAIN a /\ j \in DOMAIN a
    BY <1>1, <1>2, <2>1
  <2> QED BY <2>1, <2>2, <2>3 DEF BehindReturn
<1>8. ASSUME EndsInReturn(s), x.is \notin Silent \cup {"while"} PROVE BehindReturn(a)
  <2>1. PICK i \in DOMAIN s : /\ s[i].is = "return"
                              /\ \A m \in DOMAIN s : m > i => s[m].is \in Silent
    BY <1>8 DEF EndsInReturn
  <2>2. i < n + 1 /\ a[i].is = "return" /\ i \in DOMAIN a
    BY <1>1, <1>2, <2>1
  <2>3. ASSUME NEW m \in (i + 1)..((n + 1) - 1) PROVE a[m].is \in Silent
    <3>1. m \in 1..n /\ m > i
      BY <1>1, <2>1
    <3> QED BY <1>1, <2>1, <3>1
  <2> QED BY <1>1, <1>2, <1>8, <2>2, <2>3 DEF BehindReturn
<1> QED BY <1>3, <1>4, <1>5, <1>6, <1>7, <1>8 DEF a

\* Drawing a statement: list l has it at its end, and its own lists are new
\* and empty.
LEMMA Drawn ==
    ASSUME NEW S, NEW pr \in Seq(Seq(S)), NEW l \in 1..Len(pr), NEW x \in S, NEW kids \in Nat
    PROVE  LET pr2 == [pr EXCEPT ![l] = Append(@, x)] \o [i \in 1..kids |-> <<>>]
           IN  /\ pr2 \in Seq(Seq(S)) /\ Len(pr) \in Nat /\ Len(pr2) = Len(pr) + kids
               /\ pr2[l] = Append(pr[l], x) /\ pr[l] \in Seq(S)
               /\ \A m \in 1..Len(pr) : m # l => pr2[m] = pr[m]
               /\ \A m \in (Len(pr) + 1)..(Len(pr) + kids) : pr2[m] = <<>>
<1> DEFINE p1 == [pr EXCEPT ![l] = Append(@, x)]
           p2 == [i \in 1..kids |-> <<>>]
<1>1. pr[l] \in Seq(S) /\ Len(pr) \in Nat
  BY ElementOfSeq, LenProperties
<1>2. Append(pr[l], x) \in Seq(S)
  BY <1>1, AppendProperties
<1>3. /\ p1 \in Seq(Seq(S)) /\ Len(p1) = Len(pr)
      /\ \A m \in 1..Len(pr) : p1[m] = IF m = l THEN Append(pr[l], x) ELSE pr[m]
  BY <1>2, ExceptSeq
<1>4. p2 \in Seq(Seq(S)) /\ Len(p2) = kids /\ \A m \in 1..kids : p2[m] = <<>>
  <2>1. <<>> \in Seq(S)
    OBVIOUS
  <2>2. p2 \in [1..kids -> Seq(S)]
    BY <2>1
  <2> QED BY <2>2
<1> HIDE DEF p1, p2
<1>5. /\ p1 \o p2 \in Seq(Seq(S)) /\ Len(p1 \o p2) = Len(pr) + kids
      /\ \A m \in 1..(Len(pr) + kids) :
            (p1 \o p2)[m] = IF m <= Len(pr) THEN p1[m] ELSE p2[m - Len(pr)]
  <2>1. /\ p1 \o p2 \in Seq(Seq(S)) /\ Len(p1 \o p2) = Len(p1) + Len(p2)
        /\ \A m \in 1..(Len(p1) + Len(p2)) :
              (p1 \o p2)[m] = IF m <= Len(p1) THEN p1[m] ELSE p2[m - Len(p1)]
    <3>1. p1 \in Seq(Seq(S)) /\ p2 \in Seq(Seq(S))
      BY <1>3, <1>4
    <3> QED BY ONLY <3>1, ConcatProperties
  <2>2. Len(p1) = Len(pr) /\ Len(p2) = kids
    BY <1>3, <1>4
  <2> QED BY ONLY <2>1, <2>2
<1>6. \A m \in 1..Len(pr) : (p1 \o p2)[m] = p1[m]
  BY <1>1, <1>5
<1>7. ASSUME NEW m \in (Len(pr) + 1)..(Len(pr) + kids) PROVE (p1 \o p2)[m] = <<>>
  <2>1. m \in 1..(Len(pr) + kids) /\ ~(m <= Len(pr)) /\ m - Len(pr) \in 1..kids
    BY <1>1
  <2> QED BY <1>4, <1>5, <2>1
<1> QED BY <1>1, <1>3, <1>5, <1>6, <1>7 DEF p1, p2

\* The block the visitor goes on in is waited for.
LEMMA PushCovered ==
    ASSUME NEW td \in Seq(Entries), NEW open, NEW open2, NEW at, NEW at2,
           NEW l \in Nat, NEW j \in Nat, NEW c \in Nat,
           Covered(td, open, at), open2 \subseteq (open \ {at}) \cup {at2, c}
    PROVE  Covered(InFront(VisitList(l), JumpTo(j), ContinueAt(c), td), open2, at2)
<1> DEFINE t == InFront(VisitList(l), JumpTo(j), ContinueAt(c), td)
<1>1. /\ Len(td) \in Nat /\ Len(t) = Len(td) + 3 /\ t[3] = ContinueAt(c)
      /\ \A i \in 1..Len(td) : t[i + 3] = td[i]
  <2>1. VisitList(l) \in Entries /\ JumpTo(j) \in Entries /\ ContinueAt(c) \in Entries
    BY DEF Entries
  <2>2. Lined(t, VisitList(l), JumpTo(j), ContinueAt(c), td)
    BY <2>1, Pushed
  <2> HIDE DEF t
  <2> QED BY <2>2 DEF Lined
<1> HIDE DEF t
<1>2. ASSUME NEW b \in open2, b # at2
      PROVE  \E i \in 1..Len(t) : t[i].do = "insert" /\ t[i].at = b
  <2>1. CASE b = c
    <3>1. 3 \in 1..Len(t) /\ t[3].do = "insert" /\ t[3].at = b
      BY <1>1, <2>1 DEF ContinueAt
    <3> QED BY <3>1
  <2>2. CASE b # c
    <3>1. PICK i \in 1..Len(td) : td[i].do = "insert" /\ td[i].at = b
      BY <1>2, <2>2 DEF Covered
    <3>2. i + 3 \in 1..Len(t) /\ t[i + 3] = td[i]
      BY <1>1
    <3> QED BY <3>1, <3>2
  <2> QED BY <2>1, <2>2
<1> QED BY <1>2 DEF Covered, t

\* A visitor starts on the list of its branch: the block of the branch and the
\* one behind the statement are new and open.
LEMMA EnterBranch ==
    ASSUME NEW td, td # <<>>, td[1].do = "list",
           NEW n \in Nat, NEW n2 \in Nat, n <= n2, NEW open \in SUBSET (1..n),
           NEW at, NEW at2 \in (n + 1)..n2, NEW c \in (n + 1)..n2, at2 # c, NEW j \in 1..n2,
           NEW open2, open2 = (open \ {at}) \cup {at2, c},
           NEW pr, NEW pr2, Len(pr) \in Nat, Len(pr2) \in Nat, Len(pr) <= Len(pr2),
           NEW l \in (Len(pr) + 1)..Len(pr2),
           \A m \in 1..Len(pr) : m # td[1].list => pr2[m] = pr[m],
           ~EndsInReturn(pr2[td[1].list]),
           Orderly(td, open, n, at, pr), Covered(td, open, at)
    PROVE  LET t == InFront(VisitList(l), JumpTo(j), ContinueAt(c), td)
           IN  Orderly(t, open2, n2, at2, pr2) /\ Covered(t, open2, at2)
<1>1. open \ {at} \subseteq open2 /\ at2 \notin 1..n /\ c \notin 1..n
  OBVIOUS
<1>2. Orderly(td, open2, n2, at2, pr2)
  BY <1>1, CarryOrderly
<1>3. \A i \in 1..Len(td) : td[i].do = "list" => td[i].list # l
  <2>1. \A i \in 1..Len(td) : td[i].do = "list" => td[i].list \in 1..Len(pr)
    BY DEF Orderly
  <2> QED BY <2>1
<1>4. \A i \in 1..Len(td) : td[i].do = "insert" => td[i].at # c
  <2>1. \A i \in 1..Len(td) : td[i].do = "insert" => td[i].at \in 1..n
    BY DEF Orderly
  <2> QED BY <1>1, <2>1
<1>5. open2 \subseteq Nat /\ c \in open2 \ {at2} /\ l \in 1..Len(pr2)
  OBVIOUS
<1>6. Orderly(InFront(VisitList(l), JumpTo(j), ContinueAt(c), td), open2, n2, at2, pr2)
  BY <1>2, <1>3, <1>4, <1>5, PushOrderly
<1>7. Covered(InFront(VisitList(l), JumpTo(j), ContinueAt(c), td), open2, at2)
  <2>1. td \in Seq(Entries) /\ l \in Nat /\ j \in Nat /\ c \in Nat
    BY DEF Orderly
  <2> QED BY <2>1, PushCovered
<1> QED BY <1>6, <1>7

\* Two visitors at once, as VisitIfElse has them.
LEMMA SixInFront ==
    ASSUME NEW td \in Seq(Entries), NEW a \in Entries, NEW b \in Entries, NEW c \in Entries,
           NEW d \in Entries, NEW e \in Entries, NEW f \in Entries
    PROVE  TwoInFront(a, b, c, d, e, f, td) = InFront(a, b, c, InFront(d, e, f, td))
<1> DEFINE p == <<a, b, c>>
           q == <<d, e, f>>
<1>1. p \in Seq(Entries) /\ q \in Seq(Entries)
  OBVIOUS
<1>2. <<a, b, c, d, e, f>> = p \o q
  OBVIOUS
<1>3. InFront(a, b, c, InFront(d, e, f, td)) = p \o (q \o td)
  BY Zenon DEF InFront
<1> HIDE DEF p, q
<1>4. (p \o q) \o td = p \o (q \o td)
  BY ONLY <1>1, td \in Seq(Entries), ConcatAssociative
<1>5. TwoInFront(a, b, c, d, e, f, td) = (p \o q) \o td
  BY <1>2, Zenon DEF TwoInFront
<1> QED BY ONLY <1>3, <1>4, <1>5

\* A visitor starts on the first of two branches: on its list l, and behind it
\* on list l2 in block c2, both of which end in block c.
LEMMA EnterBranches ==
    ASSUME NEW td, td # <<>>, td[1].do = "list",
           NEW n \in Nat, NEW n2 \in Nat, n <= n2, NEW open \in SUBSET (1..n),
           NEW at, NEW at2 \in (n + 1)..n2, NEW c \in (n + 1)..n2, NEW c2 \in (n + 1)..n2,
           at2 # c, at2 # c2, c # c2,
           NEW open2, open2 = (open \ {at}) \cup {at2, c, c2},
           NEW pr, NEW pr2, Len(pr) \in Nat, Len(pr2) \in Nat, Len(pr) <= Len(pr2),
           NEW l \in (Len(pr) + 1)..Len(pr2), NEW l2 \in (Len(pr) + 1)..Len(pr2), l # l2,
           pr2[l2] = <<>>,
           \A m \in 1..Len(pr) : m # td[1].list => pr2[m] = pr[m],
           ~EndsInReturn(pr2[td[1].list]),
           Orderly(td, open, n, at, pr), Covered(td, open, at)
    PROVE  LET t == InFront(VisitList(l), JumpTo(c), ContinueAt(c2),
                            InFront(VisitList(l2), JumpTo(c), ContinueAt(c), td))
           IN  Orderly(t, open2, n2, at2, pr2) /\ Covered(t, open2, at2)
<1> DEFINE open1 == (open \ {at}) \cup {at2, c}
           t1    == InFront(VisitList(l2), JumpTo(c), ContinueAt(c), td)
           t2    == InFront(VisitList(l), JumpTo(c), ContinueAt(c2), t1)
<1>1. /\ c \in 1..n2 /\ c2 \in 1..n2 /\ open1 \in SUBSET (1..n2) /\ open1 \ {at2} \subseteq open2
      /\ open2 \subseteq (open1 \ {at2}) \cup {at2, c2} /\ open2 \subseteq Nat /\ c2 \in open2 \ {at2}
      /\ l \in Nat /\ l2 \in Nat /\ c \in Nat /\ c2 \in Nat /\ l \in 1..Len(pr2)
  OBVIOUS
<1>2. Orderly(t1, open1, n2, at2, pr2) /\ Covered(t1, open1, at2)
  <2>1. open1 = (open \ {at}) \cup {at2, c}
    OBVIOUS
  <2> HIDE DEF open1
  <2> QED BY <1>1, <2>1, EnterBranch
<1>3. /\ td \in Seq(Entries) /\ t1 \in Seq(Entries) /\ t1 # <<>> /\ t1[1] = VisitList(l2)
  <2>1. td \in Seq(Entries)
    BY DEF Orderly
  <2> QED BY <1>1, <2>1, HeadOfPushed
<1>4. /\ Len(td) \in Nat
      /\ t1[1] = VisitList(l2) /\ t1[2] = JumpTo(c) /\ t1[3] = ContinueAt(c)
      /\ \A i \in 1..Len(td) : t1[i + 3] = td[i]
      /\ \A i \in 1..Len(t1) : i = 1 \/ i = 2 \/ i = 3 \/ \E k \in 1..Len(td) : i = k + 3
  <2>1. VisitList(l2) \in Entries /\ JumpTo(c) \in Entries /\ ContinueAt(c) \in Entries
    BY <1>1 DEF Entries
  <2>2. Lined(t1, VisitList(l2), JumpTo(c), ContinueAt(c), td)
    BY <1>3, <2>1, Pushed
  <2> HIDE DEF t1
  <2> QED BY <2>2 DEF Lined
<1>5. t1[1].do = "list" /\ t1[1].list = l2 /\ ~EndsInReturn(pr2[t1[1].list])
  <2>1. ~EndsInReturn(pr2[l2])
    BY DEF EndsInReturn
  <2> HIDE DEF t1
  <2>2. t1[1].do = "list" /\ t1[1].list = l2
    BY <1>3 DEF VisitList
  <2> QED BY <2>1, <2>2
<1> HIDE DEF t1, open1
<1>6. Orderly(t1, open2, n2, at2, pr2)
  <2>1. n2 <= n2 /\ Len(pr2) <= Len(pr2) /\ at2 = at2 /\ \A m \in 1..Len(pr2) : pr2[m] = pr2[m]
    OBVIOUS
  <2>2. Orderly(t1, open1, n2, at2, pr2) /\ t1 # <<>> /\ t1[1].do = "list"
    BY <1>2, <1>3, <1>5
  <2>3. open1 \in SUBSET (1..n2) /\ open1 \ {at2} \subseteq open2 /\ n2 \in Nat /\ Len(pr2) \in Nat
    BY <1>1
  <2> QED BY ONLY <2>1, <2>2, <2>3, CarryOrderly
<1>7. \A i \in 1..Len(t1) : t1[i].do = "list" => t1[i].list # l
  <2>1. \A i \in 1..Len(td) : td[i].do = "list" => td[i].list # l
    <3>1. \A i \in 1..Len(td) : td[i].do = "list" => td[i].list \in 1..Len(pr)
      BY DEF Orderly
    <3> QED BY <3>1
  <2>2. ASSUME NEW i \in 1..Len(t1), t1[i].do = "list" PROVE t1[i].list # l
    <3>1. CASE \E k \in 1..Len(td) : i = k + 3
      <4>1. PICK k \in 1..Len(td) : i = k + 3
        BY <3>1
      <4>2. t1[i] = td[k]
        BY <1>4, <4>1
      <4> QED BY <2>1, <2>2, <4>2
    <3>2. CASE i = 1 \/ i = 2 \/ i = 3
      BY <1>4, <2>2, <3>2 DEF VisitList, JumpTo, ContinueAt
    <3> QED BY <1>4, <3>1, <3>2
  <2> QED BY <2>2
<1>8. \A i \in 1..Len(t1) : t1[i].do = "insert" => t1[i].at # c2
  <2>1. \A i \in 1..Len(td) : td[i].do = "insert" => td[i].at # c2
    <3>1. \A i \in 1..Len(td) : td[i].do = "insert" => td[i].at \in 1..n
      BY DEF Orderly
    <3> QED BY <3>1
  <2>2. ASSUME NEW i \in 1..Len(t1), t1[i].do = "insert" PROVE t1[i].at # c2
    <3>1. CASE \E k \in 1..Len(td) : i = k + 3
      <4>1. PICK k \in 1..Len(td) : i = k + 3
        BY <3>1
      <4>2. t1[i] = td[k]
        BY <1>4, <4>1
      <4> QED BY <2>1, <2>2, <4>2
    <3>2. CASE i = 1 \/ i = 2 \/ i = 3
      BY <1>4, <2>2, <3>2 DEF VisitList, JumpTo, ContinueAt
    <3> QED BY <1>4, <3>1, <3>2
  <2> QED BY <2>2
<1>9. Orderly(t2, open2, n2, at2, pr2)
  BY <1>1, <1>3, <1>5, <1>6, <1>7, <1>8, PushOrderly
<1>10. Covered(t2, open2, at2)
  BY <1>1, <1>2, <1>3, PushCovered
<1> QED BY <1>9, <1>10 DEF t1
-----------------------------------------------------------------------------
\* h is g with an index check behind block b: block g.n + 1 is the error block,
\* block g.n + 2 the one the visitor goes on in.
Split(g, h, b, k) ==
    /\ h.n = g.n + 2
    /\ SameTerms(g, h, Blocks(g) \ {b})
    /\ h.term[b] = CondTerm(IndexTest(k), g.n + 2, g.n + 1)
    /\ h.term[g.n + 1] = JumpTerm(g.n + 2)

\* The check on an array element moves the insertion point to a new block, and
\* leaves no other block open.
LEMMA IndexedSound ==
    ASSUME NEW g, Sound(g, Tests, Instrs), NEW b \in OpenBlocks(g),
           NEW k \in Nat, NEW indexed \in BOOLEAN
    PROVE  LET h  == Indexed(g, b, k, indexed)
               at == BlockBehind(g, b, indexed)
           IN  /\ Sound(h, Tests, Instrs)
               /\ g.n \in Nat /\ h.n \in Nat /\ g.n <= h.n
               /\ at \in OpenBlocks(h) /\ OpenBlocks(h) = (OpenBlocks(g) \ {b}) \cup {at}
               /\ at = b \/ at \notin 1..g.n
               /\ indexed => Split(g, h, b, k)
<1>1. g.n \in Nat /\ b \in 1..g.n /\ OpenBlocks(g) \subseteq 1..g.n
  BY DEF Sound, Shaped, Graphs, OpenBlocks, Blocks
<1>2. CASE indexed
  <2> DEFINE error == g.n + 1
             end   == g.n + 2
             a1    == AddBlock(g)
             a2    == AddBlock(a1)
             a3    == AddCondJump(a2, b, IndexTest(k), end, error)
             a4    == AddCode(a3, error, IndexError(k))
             a5    == AddJump(a4, error, end)
  <2>1. /\ IndexTest(k) \in Tests /\ IndexError(k) \in Instrs
    BY DEF IndexTest, IndexError, Tests, Instrs
  <2>2. /\ Sound(a1, Tests, Instrs) /\ a1.n = g.n + 1
        /\ OpenBlocks(a1) = OpenBlocks(g) \cup {error}
        /\ SameTerms(g, a1, Blocks(g))
    BY AddBlockSound
  <2> HIDE DEF a1
  <2>3. /\ Sound(a2, Tests, Instrs) /\ a2.n = g.n + 2
        /\ OpenBlocks(a2) = OpenBlocks(g) \cup {error, end}
        /\ SameTerms(g, a2, Blocks(g))
    <3>1. /\ Sound(a2, Tests, Instrs) /\ a2.n = a1.n + 1
          /\ OpenBlocks(a2) = OpenBlocks(a1) \cup {a1.n + 1}
          /\ SameTerms(a1, a2, Blocks(a1))
      BY <2>2, AddBlockSound
    <3>2. a1.n + 1 = g.n + 2
      BY <1>1, <2>2
    <3>3. SameTerms(g, a2, Blocks(g))
      BY <1>1, <2>2, <3>1 DEF SameTerms, Blocks
    <3> QED BY <2>2, <3>1, <3>2, <3>3
  <2> HIDE DEF a2
  <2>4. /\ Sound(a3, Tests, Instrs) /\ a3.n = g.n + 2
        /\ OpenBlocks(a3) = (OpenBlocks(g) \ {b}) \cup {error, end}
        /\ Ended(a2, a3, b, CondTerm(IndexTest(k), end, error))
    <3>1. b \in OpenBlocks(a2) /\ error \in Blocks(a2) /\ end \in Blocks(a2)
      BY <1>1, <2>3 DEF Blocks
    <3>2. b # error /\ b # end
      BY <1>1
    <3>3. /\ Sound(a3, Tests, Instrs) /\ a3.n = a2.n
          /\ OpenBlocks(a3) = OpenBlocks(a2) \ {b}
          /\ Ended(a2, a3, b, CondTerm(IndexTest(k), end, error))
      BY <2>1, <2>3, <3>1, AddCondJumpSound
    <3> QED BY <2>3, <3>2, <3>3
  <2> HIDE DEF a3
  <2>5. /\ Sound(a4, Tests, Instrs) /\ a4.n = g.n + 2 /\ OpenBlocks(a4) = OpenBlocks(a3)
        /\ SameTerms(a3, a4, Blocks(a3))
    <3>1. error \in Blocks(a3)
      BY <1>1, <2>4 DEF Blocks
    <3> QED BY <2>1, <2>4, <3>1, AddCodeSound
  <2> HIDE DEF a4
  <2>6. /\ Sound(a5, Tests, Instrs) /\ a5.n = g.n + 2 /\ OpenBlocks(a5) = OpenBlocks(a4) \ {error}
        /\ Ended(a4, a5, error, JumpTerm(end))
    <3>1. error \in OpenBlocks(a4) /\ end \in Blocks(a4)
      BY <1>1, <2>4, <2>5 DEF Blocks
    <3> QED BY <2>5, <3>1, AddJumpSound
  <2>7. Indexed(g, b, k, indexed) = a5 /\ BlockBehind(g, b, indexed) = end
    BY <1>2 DEF Indexed, SplitForIndex, BlockBehind, a1, a2, a3, a4, a5
  <2> HIDE DEF a5
  <2>7a. Split(g, a5, b, k)
    <3>1. /\ Blocks(a2) = 1..(g.n + 2) /\ Blocks(a3) = 1..(g.n + 2) /\ Blocks(a4) = 1..(g.n + 2)
          /\ Blocks(g) = 1..g.n /\ Blocks(g) \subseteq Blocks(a2) /\ error \notin Blocks(g)
      BY <1>1, <2>3, <2>4, <2>5 DEF Blocks
    <3>2. SameTerms(g, a5, Blocks(g) \ {b})
      BY <2>3, <2>4, <2>5, <2>6, <3>1 DEF SameTerms, Ended
    <3>3. b \in Blocks(a4) /\ b \in Blocks(a3) /\ b # error
      BY <1>1, <3>1
    <3>4. a5.term[b] = CondTerm(IndexTest(k), end, error) /\ a5.term[error] = JumpTerm(end)
      BY <2>4, <2>5, <2>6, <3>3 DEF SameTerms, Ended
    <3> QED BY <2>6, <3>2, <3>4 DEF Split
  <2>8. error \notin OpenBlocks(g) /\ error # end /\ end \notin 1..g.n /\ g.n + 2 \in Nat /\ g.n <= g.n + 2
    BY <1>1
  <2>9. OpenBlocks(a5) = (OpenBlocks(g) \ {b}) \cup {end}
    BY <2>4, <2>5, <2>6, <2>8
  <2> HIDE DEF end, error
  <2>10. end \in OpenBlocks(a5)
    BY <2>9
  <2>11. a5.n \in Nat /\ g.n <= a5.n
    BY <2>6, <2>8
  <2> QED BY <1>1, <2>6, <2>7, <2>7a, <2>8, <2>9, <2>10, <2>11
<1>3. CASE ~indexed
  <2>1. Indexed(g, b, k, indexed) = g /\ BlockBehind(g, b, indexed) = b
    BY <1>3 DEF Indexed, BlockBehind
  <2> QED BY <1>1, <1>3, <2>1
<1> QED BY <1>2, <1>3
-----------------------------------------------------------------------------
\* Which blocks can be inserted into.
LEMMA OpenAndTerminated ==
    ASSUME NEW g, NEW b \in Blocks(g)
    PROVE  IsTerminated(g, b) <=> b \notin OpenBlocks(g)
BY DEF IsTerminated, OpenBlocks

\* The list being visited grows by an element ...
Grows(node, kids) ==
    program' = [program EXCEPT ![Head(todo).list] = Append(@, node)] \o [i \in 1..kids |-> <<>>]

\* ... what the program is then, and whether the element ends the compiler.
LEMMA GrowStep ==
    ASSUME BuilderInv, NEW node \in Nodes, NEW kids \in Nat, Visiting, Grows(node, kids)
    PROVE  LET l == todo[1].list
           IN  /\ outcome = "running" /\ todo # <<>> /\ todo[1].do = "list"
               /\ Orderly(todo, OpenBlocks(cfg), cfg.n, cur, program)
               /\ Covered(todo, OpenBlocks(cfg), cur)
               /\ program' \in Seq(Seq(Nodes))
               /\ Len(program) \in Nat /\ Len(program') = Len(program) + kids
               /\ \A m \in 1..Len(program) : m # l => program'[m] = program[m]
               /\ \A m \in (Len(program) + 1)..(Len(program) + kids) : program'[m] = <<>>
               /\ EndsInReturn(program'[l])
                     <=> node.is = "return" \/ (cur \notin OpenBlocks(cfg) /\ node.is \in Silent)
               /\ (\E m \in DOMAIN program' : BehindReturn(program'[m]))
                     <=> cur \notin OpenBlocks(cfg) /\ node.is \notin Silent \cup {"while"}
<1> DEFINE l == todo[1].list
<1>1. outcome = "running" /\ todo # <<>> /\ todo[1].do = "list" /\ Head(todo) = todo[1]
  BY DEF Visiting
<1>2. /\ Orderly(todo, OpenBlocks(cfg), cfg.n, cur, program)
      /\ Covered(todo, OpenBlocks(cfg), cur)
      /\ cur \in OpenBlocks(cfg) <=> ~EndsInReturn(program[l])
  BY <1>1 DEF BuilderInv, Building
<1>3. l \in 1..Len(program)
  <2>1. todo \in Seq(Entries)
    BY <1>2 DEF Orderly
  <2>2. 1 \in 1..Len(todo)
    BY <1>1, <2>1, EmptySeq, LenProperties
  <2> QED BY <1>1, <1>2, <2>2 DEF Orderly
<1>4. program' = [program EXCEPT ![l] = Append(@, node)] \o [i \in 1..kids |-> <<>>]
  BY <1>1 DEF Grows
<1>5. program \in Seq(Seq(Nodes))
  BY DEF BuilderInv, Typed
<1> HIDE DEF l
<1>6. /\ program' \in Seq(Seq(Nodes)) /\ Len(program) \in Nat
      /\ Len(program') = Len(program) + kids
      /\ program'[l] = Append(program[l], node) /\ program[l] \in Seq(Nodes)
      /\ \A m \in 1..Len(program) : m # l => program'[m] = program[m]
      /\ \A m \in (Len(program) + 1)..(Len(program) + kids) : program'[m] = <<>>
  <2> DEFINE pr2 == [program EXCEPT ![l] = Append(@, node)] \o [i \in 1..kids |-> <<>>]
  <2>1. /\ pr2 \in Seq(Seq(Nodes)) /\ Len(program) \in Nat /\ Len(pr2) = Len(program) + kids
        /\ pr2[l] = Append(program[l], node) /\ program[l] \in Seq(Nodes)
        /\ \A m \in 1..Len(program) : m # l => pr2[m] = program[m]
        /\ \A m \in (Len(program) + 1)..(Len(program) + kids) : pr2[m] = <<>>
    BY <1>3, <1>5, Drawn
  <2>2. program' = pr2
    BY <1>4
  <2> HIDE DEF pr2
  <2> QED BY <2>1, <2>2
<1>7. /\ EndsInReturn(program'[l])
           <=> node.is = "return" \/ (EndsInReturn(program[l]) /\ node.is \in Silent)
      /\ BehindReturn(program'[l])
           <=> \/ BehindReturn(program[l])
               \/ EndsInReturn(program[l]) /\ node.is \notin Silent \cup {"while"}
  BY <1>6, ListGrows
<1>8. \A m \in DOMAIN program : ~BehindReturn(program[m])
  BY <1>1 DEF BuilderInv, AbortsOnlyBehindReturn, BehindReturn
<1>9. DOMAIN program = 1..Len(program) /\ DOMAIN program' = 1..Len(program')
  BY <1>5, <1>6
<1>10. ~BehindReturn(<<>>)
  BY DEF BehindReturn
<1>11. ASSUME NEW m \in DOMAIN program', m # l PROVE ~BehindReturn(program'[m])
  <2>1. m \in 1..Len(program) \/ m \in (Len(program) + 1)..(Len(program) + kids)
    BY <1>6, <1>9
  <2>2. CASE m \in 1..Len(program)
    BY <1>6, <1>8, <1>9, <1>11, <2>2
  <2>3. CASE m \in (Len(program) + 1)..(Len(program) + kids)
    BY <1>6, <1>10, <2>3
  <2> QED BY <2>1, <2>2, <2>3
<1>12. l \in DOMAIN program' /\ ~BehindReturn(program[l])
  <2>1. l \in 1..Len(program')
    BY <1>3, <1>6
  <2> QED BY <1>3, <1>8, <1>9, <2>1
<1>13. (\E m \in DOMAIN program' : BehindReturn(program'[m]))
          <=> cur \notin OpenBlocks(cfg) /\ node.is \notin Silent \cup {"while"}
  BY <1>2, <1>7, <1>11, <1>12
<1> QED BY <1>1, <1>2, <1>5, <1>6, <1>7, <1>13 DEF l

\* A statement drawn that is not silent.
LEMMA DrawStep ==
    ASSUME BuilderInv, NEW node \in Nodes, NEW kids \in Nat, Draw(node, kids), node.is \notin Silent
    PROVE  LET l == todo[1].list
           IN  /\ outcome = "running" /\ todo # <<>> /\ todo[1].do = "list"
               /\ Orderly(todo, OpenBlocks(cfg), cfg.n, cur, program)
               /\ Covered(todo, OpenBlocks(cfg), cur)
               /\ program' \in Seq(Seq(Nodes)) /\ nodes' \in Nat /\ nodes \in Nat
               /\ Len(program) \in Nat /\ Len(program') = Len(program) + kids
               /\ \A m \in 1..Len(program) : m # l => program'[m] = program[m]
               /\ \A m \in (Len(program) + 1)..(Len(program) + kids) : program'[m] = <<>>
               /\ EndsInReturn(program'[l]) <=> node.is = "return"
               /\ (\E m \in DOMAIN program' : BehindReturn(program'[m]))
                     <=> cur \notin OpenBlocks(cfg) /\ node.is # "while"
<1>1. Visiting /\ nodes' = nodes + 1 /\ Grows(node, kids)
  BY DEF Draw, Grows
<1>2. nodes \in Nat /\ nodes' \in Nat
  BY <1>1 DEF BuilderInv, Typed
<1> QED BY <1>1, <1>2, GrowStep

\* The assertion fails: only behind a return.
LEMMA AbortStep ==
    ASSUME BuilderInv, NEW node \in Nodes, NEW kids \in Nat, Draw(node, kids),
           node.is \notin Silent, node.is # "while", IsTerminated(cfg, cur), Abort
    PROVE  BuilderInv'
<1>1. cur \notin OpenBlocks(cfg)
  BY OpenAndTerminated DEF BuilderInv, Typed
<1>2. /\ program' \in Seq(Seq(Nodes)) /\ nodes' \in Nat
      /\ \E m \in DOMAIN program' : BehindReturn(program'[m])
  BY <1>1, DrawStep
<1>3. outcome' = "abort" /\ cfg' = cfg /\ cur' = cur
  BY DEF Abort
<1>4. AbortsOnlyBehindReturn'
  BY <1>2, <1>3 DEF AbortsOnlyBehindReturn, BehindReturn
<1>5. Typed'
  BY <1>2, <1>3 DEF BuilderInv, Typed
<1> QED BY <1>3, <1>4, <1>5 DEF BuilderInv, Building, Built

\* The compiler goes on: what is left to show of the step.
LEMMA RunStep ==
    ASSUME BuilderInv, NEW node \in Nodes, NEW kids \in Nat, Draw(node, kids),
           node.is \notin Silent, node.is = "while" \/ cur \in OpenBlocks(cfg),
           outcome' = outcome, Sound(cfg', Tests, Instrs), cur' \in OpenBlocks(cfg)',
           Orderly(todo', OpenBlocks(cfg)', cfg'.n, cur', program'),
           Covered(todo', OpenBlocks(cfg)', cur'),
           todo' # <<>>, todo'[1].do = "list", ~EndsInReturn(program'[todo'[1].list])
    PROVE  BuilderInv'
<1>1. /\ outcome = "running" /\ program' \in Seq(Seq(Nodes)) /\ nodes' \in Nat
      /\ ~\E m \in DOMAIN program' : BehindReturn(program'[m])
  BY DrawStep
<1>2. AbortsOnlyBehindReturn'
  BY <1>1 DEF AbortsOnlyBehindReturn, BehindReturn
<1>3. Typed'
  BY <1>1 DEF Typed, OpenBlocks
<1>4. Building'
  BY <1>1 DEF Building
<1> QED BY <1>1, <1>2, <1>3, <1>4 DEF BuilderInv, Built

\* The program starts with an open entry block and the body to be visited.
LEMMA InitBuilderInv == Init => BuilderInv
<1> SUFFICES ASSUME Init PROVE BuilderInv
  OBVIOUS
<1>1. /\ Sound(EmptyGraph, Tests, Instrs) /\ EmptyGraph.n = 0 /\ OpenBlocks(EmptyGraph) = {}
  BY DEF Sound, Shaped, Graphs, EmptyGraph, Blocks, ListsMatch, SuccsAreTargets, OpenBlocks
<1>2. Sound(cfg, Tests, Instrs) /\ cfg.n = 1 /\ OpenBlocks(cfg) = {1}
  <2>1. /\ Sound(cfg, Tests, Instrs) /\ cfg.n = EmptyGraph.n + 1
        /\ OpenBlocks(cfg) = OpenBlocks(EmptyGraph) \cup {EmptyGraph.n + 1}
    BY <1>1, AddBlockSound DEF Init
  <2> QED BY <1>1, <2>1
<1>3. cur = 1 /\ nodes = 0 /\ program = <<<<>>>> /\ outcome = "running" /\ todo = <<VisitList(1)>>
  BY DEF Init, Entry
<1>4. /\ program \in Seq(Seq(Nodes)) /\ Len(program) = 1 /\ program[1] = <<>>
      /\ DOMAIN program = {1}
  BY <1>3
<1>5. /\ todo \in Seq(Entries) /\ Len(todo) = 1 /\ todo[1].do = "list" /\ todo[1].list = 1
      /\ todo # <<>>
  <2>1. VisitList(1) \in Entries
    BY DEF Entries
  <2> QED BY <1>3, <2>1 DEF VisitList
<1>6. ~EndsInReturn(<<>>) /\ ~BehindReturn(<<>>)
  BY DEF EndsInReturn, BehindReturn
<1>7. Orderly(todo, OpenBlocks(cfg), cfg.n, cur, program)
  BY <1>4, <1>5 DEF Orderly
<1>8. Building
  BY <1>2, <1>3, <1>4, <1>5, <1>6, <1>7 DEF Building, Covered
<1>9. Typed
  BY <1>2, <1>3, <1>4 DEF Typed, Blocks
<1>10. AbortsOnlyBehindReturn
  BY <1>3, <1>4, <1>6 DEF AbortsOnlyBehindReturn, BehindReturn
<1> QED BY <1>3, <1>8, <1>9, <1>10 DEF BuilderInv, Built
-----------------------------------------------------------------------------
\* Code goes behind the check of its array element.
LEMMA ExpressionStep ==
    ASSUME BuilderInv, NEW p \in Payload, NEW indexed \in Indexing, VisitExpression(p, indexed)
    PROVE  BuilderInv'
<1> DEFINE k    == nodes + 1
           node == [is |-> "expr", id |-> k, index |-> indexed, does |-> p]
           g    == Indexed(cfg, cur, k, indexed)
           at   == BlockBehind(cfg, cur, indexed)
<1>1. k \in Nat /\ indexed \in BOOLEAN /\ cur \in Blocks(cfg) /\ Sound(cfg, Tests, Instrs)
  <2>1. indexed \in BOOLEAN
    BY BuilderAssumption
  <2> QED BY <2>1 DEF BuilderInv, Typed
<1>2. node \in Nodes /\ node.is = "expr" /\ node.is \notin Silent /\ Draw(node, 0)
  BY <1>1 DEF Nodes, Silent, VisitExpression
<1>3. CASE IsTerminated(cfg, cur)
  <2>1. Abort
    BY <1>3 DEF VisitExpression
  <2> QED BY <1>2, <1>3, <2>1, AbortStep
<1>4. CASE ~IsTerminated(cfg, cur)
  <2>1. /\ cfg' = AddCode(g, at, Effect(p, k)) /\ cur' = at
        /\ todo' = todo /\ outcome' = outcome
    BY <1>4 DEF VisitExpression
  <2>2. cur \in OpenBlocks(cfg)
    BY <1>1, <1>4, OpenAndTerminated
  <2>3. /\ Sound(g, Tests, Instrs) /\ cfg.n \in Nat /\ g.n \in Nat /\ cfg.n <= g.n
        /\ at \in OpenBlocks(g) /\ OpenBlocks(g) = (OpenBlocks(cfg) \ {cur}) \cup {at}
        /\ at = cur \/ at \notin 1..cfg.n
    BY <1>1, <2>2, IndexedSound
  <2>4. Effect(p, k) \in Instrs /\ at \in Blocks(g) /\ OpenBlocks(cfg) \in SUBSET (1..cfg.n)
    BY <1>1, <2>3 DEF Effect, Instrs, OpenBlocks, Blocks
  <2> HIDE DEF g, at, node, k
  <2>5. Sound(cfg', Tests, Instrs) /\ cfg'.n = g.n /\ OpenBlocks(cfg)' = OpenBlocks(g)
    <3>1. /\ Sound(AddCode(g, at, Effect(p, k)), Tests, Instrs)
          /\ AddCode(g, at, Effect(p, k)).n = g.n
          /\ OpenBlocks(AddCode(g, at, Effect(p, k))) = OpenBlocks(g)
      BY <2>3, <2>4, AddCodeSound
    <3> QED BY <2>1, <3>1
  <2>6. /\ todo # <<>> /\ todo[1].do = "list"
        /\ Orderly(todo, OpenBlocks(cfg), cfg.n, cur, program)
        /\ Covered(todo, OpenBlocks(cfg), cur)
        /\ Len(program) \in Nat /\ Len(program') = Len(program) + 0
        /\ \A m \in 1..Len(program) : m # todo[1].list => program'[m] = program[m]
        /\ EndsInReturn(program'[todo[1].list]) <=> node.is = "return"
    BY <1>2, DrawStep
  <2>7. Len(program') \in Nat /\ Len(program) <= Len(program')
    BY <2>6
  <2>8. Orderly(todo, OpenBlocks(g), g.n, at, program')
    <3>1. OpenBlocks(cfg) \ {cur} \subseteq OpenBlocks(g)
      BY <2>3
    <3> QED BY <2>3, <2>4, <2>6, <2>7, <3>1, CarryOrderly
  <2>9. Covered(todo, OpenBlocks(g), at)
    BY <2>3, <2>6 DEF Covered
  <2> QED BY <1>2, <2>1, <2>2, <2>3, <2>5, <2>6, <2>8, <2>9, RunStep
<1> QED BY <1>3, <1>4

\* A return leaves the block inserted into terminated.
LEMMA ReturnStep ==
    ASSUME BuilderInv, NEW indexed \in Indexing, VisitReturn(indexed)
    PROVE  BuilderInv'
<1> DEFINE k    == nodes + 1
           node == [is |-> "return", id |-> k, index |-> indexed]
           g    == Indexed(cfg, cur, k, indexed)
           at   == BlockBehind(cfg, cur, indexed)
<1>1. k \in Nat /\ indexed \in BOOLEAN /\ cur \in Blocks(cfg) /\ Sound(cfg, Tests, Instrs)
  <2>1. indexed \in BOOLEAN
    BY BuilderAssumption
  <2> QED BY <2>1 DEF BuilderInv, Typed
<1>2. node \in Nodes /\ node.is = "return" /\ node.is \notin Silent /\ Draw(node, 0)
  BY <1>1 DEF Nodes, Silent, VisitReturn
<1>3. CASE IsTerminated(cfg, cur)
  <2>1. Abort
    BY <1>3 DEF VisitReturn
  <2> QED BY <1>2, <1>3, <2>1, AbortStep
<1>4. CASE ~IsTerminated(cfg, cur)
  <2>1. /\ cfg' = AddReturn(g, at) /\ cur' = at /\ todo' = todo /\ outcome' = outcome
    BY <1>4 DEF VisitReturn
  <2>2. cur \in OpenBlocks(cfg)
    BY <1>1, <1>4, OpenAndTerminated
  <2>3. /\ Sound(g, Tests, Instrs) /\ cfg.n \in Nat /\ g.n \in Nat /\ cfg.n <= g.n
        /\ at \in OpenBlocks(g) /\ OpenBlocks(g) = (OpenBlocks(cfg) \ {cur}) \cup {at}
        /\ at = cur \/ at \notin 1..cfg.n
    BY <1>1, <2>2, IndexedSound
  <2>4. at \in Blocks(g) /\ OpenBlocks(cfg) \in SUBSET (1..cfg.n)
    BY <2>3 DEF OpenBlocks, Blocks
  <2> HIDE DEF g, at, node, k
  <2>5. /\ Sound(cfg', Tests, Instrs) /\ cfg'.n = g.n
        /\ OpenBlocks(cfg)' = OpenBlocks(g) \ {at}
    <3>1. /\ Sound(AddReturn(g, at), Tests, Instrs) /\ AddReturn(g, at).n = g.n
          /\ OpenBlocks(AddReturn(g, at)) = OpenBlocks(g) \ {at}
      BY <2>3, AddReturnSound
    <3> QED BY <2>1, <3>1
  <2>6. /\ outcome = "running" /\ todo # <<>> /\ todo[1].do = "list"
        /\ Orderly(todo, OpenBlocks(cfg), cfg.n, cur, program)
        /\ Covered(todo, OpenBlocks(cfg), cur)
        /\ program' \in Seq(Seq(Nodes)) /\ nodes' \in Nat
        /\ Len(program) \in Nat /\ Len(program') = Len(program) + 0
        /\ \A m \in 1..Len(program) : m # todo[1].list => program'[m] = program[m]
        /\ EndsInReturn(program'[todo[1].list]) <=> node.is = "return"
        /\ (\E m \in DOMAIN program' : BehindReturn(program'[m]))
              <=> cur \notin OpenBlocks(cfg) /\ node.is # "while"
    BY <1>2, DrawStep
  <2>7. Len(program') \in Nat /\ Len(program) <= Len(program')
    BY <2>6
  <2>8. Orderly(todo, OpenBlocks(g) \ {at}, g.n, at, program')
    <3>1. OpenBlocks(cfg) \ {cur} \subseteq OpenBlocks(g) \ {at}
      BY <2>3, <2>4
    <3> QED BY <2>3, <2>4, <2>6, <2>7, <3>1, CarryOrderly
  <2>9. Covered(todo, OpenBlocks(g) \ {at}, at)
    BY <2>3, <2>6 DEF Covered
  <2>10. EndsInReturn(program'[todo[1].list])
    BY <1>2, <2>6
  <2>11. Building'
    BY <2>1, <2>5, <2>6, <2>8, <2>9, <2>10 DEF Building
  <2>12. Typed'
    <3>1. cur' \in Blocks(cfg)'
      BY <2>1, <2>4, <2>5 DEF Blocks
    <3> QED BY <2>1, <2>5, <2>6, <3>1 DEF Typed
  <2>13. AbortsOnlyBehindReturn'
    BY <2>1, <2>2, <2>6 DEF AbortsOnlyBehindReturn, BehindReturn
  <2> QED BY <2>1, <2>6, <2>11, <2>12, <2>13 DEF BuilderInv, Built
<1> QED BY <1>3, <1>4

\* Two blocks for a statement with one branch.
LEMMA TwoBlocks ==
    ASSUME NEW g, Sound(g, Tests, Instrs)
    PROVE  LET h == AddBlock(AddBlock(g))
           IN  /\ Sound(h, Tests, Instrs) /\ g.n \in Nat /\ h.n = g.n + 2
               /\ OpenBlocks(h) = OpenBlocks(g) \cup {g.n + 1, g.n + 2}
               /\ SameTerms(g, h, Blocks(g))
<1> DEFINE a == AddBlock(g)
<1>1. g.n \in Nat
  BY DEF Sound, Shaped, Graphs
<1>2. /\ Sound(a, Tests, Instrs) /\ a.n = g.n + 1 /\ OpenBlocks(a) = OpenBlocks(g) \cup {g.n + 1}
      /\ SameTerms(g, a, Blocks(g))
  BY AddBlockSound
<1> HIDE DEF a
<1>3. /\ Sound(AddBlock(a), Tests, Instrs) /\ AddBlock(a).n = a.n + 1
      /\ OpenBlocks(AddBlock(a)) = OpenBlocks(a) \cup {a.n + 1}
      /\ SameTerms(a, AddBlock(a), Blocks(a))
  BY <1>2, AddBlockSound
<1>4. a.n + 1 = g.n + 2
  BY <1>1, <1>2
<1>5. SameTerms(g, AddBlock(a), Blocks(g))
  <2>1. Blocks(g) \subseteq Blocks(a)
    BY <1>1, <1>2 DEF Blocks
  <2> QED BY <1>2, <1>3, <2>1 DEF SameTerms
<1> QED BY <1>1, <1>2, <1>3, <1>4, <1>5 DEF a

\* Three blocks for a statement with two branches, or a loop.
LEMMA ThreeBlocks ==
    ASSUME NEW g, Sound(g, Tests, Instrs)
    PROVE  LET h == AddBlock(AddBlock(AddBlock(g)))
           IN  /\ Sound(h, Tests, Instrs) /\ g.n \in Nat /\ h.n = g.n + 3
               /\ OpenBlocks(h) = OpenBlocks(g) \cup {g.n + 1, g.n + 2, g.n + 3}
               /\ SameTerms(g, h, Blocks(g))
<1> DEFINE a == AddBlock(AddBlock(g))
<1>1. /\ Sound(a, Tests, Instrs) /\ g.n \in Nat /\ a.n = g.n + 2
      /\ OpenBlocks(a) = OpenBlocks(g) \cup {g.n + 1, g.n + 2}
      /\ SameTerms(g, a, Blocks(g))
  BY TwoBlocks
<1> HIDE DEF a
<1>2. /\ Sound(AddBlock(a), Tests, Instrs) /\ AddBlock(a).n = a.n + 1
      /\ OpenBlocks(AddBlock(a)) = OpenBlocks(a) \cup {a.n + 1}
      /\ SameTerms(a, AddBlock(a), Blocks(a))
  BY <1>1, AddBlockSound
<1>3. a.n + 1 = g.n + 3
  BY <1>1
<1>4. SameTerms(g, AddBlock(a), Blocks(g))
  <2>1. Blocks(g) \subseteq Blocks(a)
    BY <1>1 DEF Blocks
  <2> QED BY <1>1, <1>2, <2>1 DEF SameTerms
<1> QED BY <1>1, <1>2, <1>3, <1>4 DEF a

\* The condition of an if goes behind its check; the branch is entered.
LEMMA IfStep ==
    ASSUME BuilderInv, NEW indexed \in Indexing, VisitIf(indexed)
    PROVE  BuilderInv'
<1> DEFINE k    == nodes + 1
           node == [is |-> "if", id |-> k, index |-> indexed, then |-> Len(program) + 1]
           g    == Indexed(cfg, cur, k, indexed)
           at   == BlockBehind(cfg, cur, indexed)
           h    == AddBlock(AddBlock(g))
           j    == AddCondJump(h, at, CondTest(k), g.n + 1, g.n + 2)
<1>1. k \in Nat /\ indexed \in BOOLEAN /\ cur \in Blocks(cfg) /\ Sound(cfg, Tests, Instrs)
  <2>1. indexed \in BOOLEAN
    BY BuilderAssumption
  <2> QED BY <2>1 DEF BuilderInv, Typed
<1>2. node \in Nodes /\ node.is = "if" /\ node.is \notin Silent /\ Draw(node, 1)
  <2>1. Len(program) \in Nat
    BY LenProperties DEF BuilderInv, Typed
  <2>2. Draw(node, 1)
    BY DEF VisitIf
  <2>3. node.is = "if" /\ node.is \notin Silent
    BY DEF Silent
  <2>4. node \in Nodes
    BY <1>1, <2>1 DEF Nodes
  <2> QED BY <2>2, <2>3, <2>4
<1>3. CASE IsTerminated(cfg, cur)
  <2>1. Abort
    BY <1>3 DEF VisitIf
  <2> QED BY <1>2, <1>3, <2>1, AbortStep
<1>4. CASE ~IsTerminated(cfg, cur)
  <2>1. /\ cfg' = j /\ cur' = g.n + 1 /\ outcome' = outcome
        /\ todo' = InFront(VisitList(Len(program) + 1), JumpTo(g.n + 2), ContinueAt(g.n + 2), todo)
    BY <1>4 DEF VisitIf, InFront
  <2>2. cur \in OpenBlocks(cfg)
    BY <1>1, <1>4, OpenAndTerminated
  <2>3. /\ Sound(g, Tests, Instrs) /\ cfg.n \in Nat /\ g.n \in Nat /\ cfg.n <= g.n
        /\ at \in OpenBlocks(g) /\ OpenBlocks(g) = (OpenBlocks(cfg) \ {cur}) \cup {at}
        /\ at = cur \/ at \notin 1..cfg.n
    BY <1>1, <2>2, IndexedSound
  <2>4. CondTest(k) \in Tests /\ OpenBlocks(cfg) \in SUBSET (1..cfg.n) /\ at \in 1..g.n
    BY <1>1, <2>3 DEF CondTest, Tests, OpenBlocks, Blocks
  <2> HIDE DEF g, at, node, k
  <2>5. /\ Sound(h, Tests, Instrs) /\ h.n = g.n + 2
        /\ OpenBlocks(h) = OpenBlocks(g) \cup {g.n + 1, g.n + 2}
    BY <2>3, TwoBlocks
  <2> HIDE DEF h
  <2>6. Sound(j, Tests, Instrs) /\ j.n = g.n + 2 /\ OpenBlocks(j) = OpenBlocks(h) \ {at}
    <3>1. at \in OpenBlocks(h) /\ g.n + 1 \in Blocks(h) /\ g.n + 2 \in Blocks(h)
      BY <2>3, <2>5 DEF Blocks
    <3> QED BY <2>4, <2>5, <3>1, AddCondJumpSound
  <2> HIDE DEF j
  <2>7. /\ OpenBlocks(j) = (OpenBlocks(cfg) \ {cur}) \cup {g.n + 1, g.n + 2}
        /\ g.n + 1 \in (cfg.n + 1)..j.n /\ g.n + 2 \in (cfg.n + 1)..j.n /\ g.n + 1 # g.n + 2
        /\ j.n \in Nat /\ cfg.n <= j.n /\ g.n + 2 \in 1..j.n
    <3>1. at # g.n + 1 /\ at # g.n + 2 /\ at \notin OpenBlocks(cfg) \ {cur}
      BY <2>3, <2>4
    <3> QED BY <2>3, <2>5, <2>6, <3>1
  <2>8. /\ todo # <<>> /\ todo[1].do = "list"
        /\ Orderly(todo, OpenBlocks(cfg), cfg.n, cur, program)
        /\ Covered(todo, OpenBlocks(cfg), cur)
        /\ Len(program) \in Nat /\ Len(program') = Len(program) + 1
        /\ \A m \in 1..Len(program) : m # todo[1].list => program'[m] = program[m]
        /\ \A m \in (Len(program) + 1)..(Len(program) + 1) : program'[m] = <<>>
        /\ EndsInReturn(program'[todo[1].list]) <=> node.is = "return"
    BY <1>2, DrawStep
  <2>9. /\ Len(program') \in Nat /\ Len(program) <= Len(program')
        /\ Len(program) + 1 \in (Len(program) + 1)..Len(program')
        /\ program'[Len(program) + 1] = <<>>
        /\ ~EndsInReturn(program'[todo[1].list])
    BY <1>2, <2>8
  <2>10. /\ Orderly(todo', OpenBlocks(j), j.n, g.n + 1, program')
         /\ Covered(todo', OpenBlocks(j), g.n + 1)
    <3> DEFINE true == g.n + 1
               next == g.n + 2
               l    == Len(program) + 1
               n    == cfg.n
               n2   == j.n
               open == OpenBlocks(cfg)
               pr   == program
               pr2  == program'
    <3>1. /\ n \in Nat /\ n2 \in Nat /\ n <= n2 /\ open \in SUBSET (1..n)
          /\ true \in (n + 1)..n2 /\ next \in (n + 1)..n2 /\ true # next /\ next \in 1..n2
          /\ OpenBlocks(j) = (open \ {cur}) \cup {true, next}
      BY <2>3, <2>4, <2>7
    <3>2. /\ todo # <<>> /\ todo[1].do = "list"
          /\ Len(pr) \in Nat /\ Len(pr2) \in Nat /\ Len(pr) <= Len(pr2)
          /\ l \in (Len(pr) + 1)..Len(pr2)
          /\ \A m \in 1..Len(pr) : m # todo[1].list => pr2[m] = pr[m]
          /\ ~EndsInReturn(pr2[todo[1].list])
          /\ Orderly(todo, open, n, cur, pr) /\ Covered(todo, open, cur)
      BY <2>8, <2>9
    <3> HIDE DEF true, next, l, n, n2, open, pr, pr2
    <3>3. LET t == InFront(VisitList(l), JumpTo(next), ContinueAt(next), todo)
          IN  Orderly(t, OpenBlocks(j), n2, true, pr2) /\ Covered(t, OpenBlocks(j), true)
      BY <3>1, <3>2, EnterBranch
    <3> QED BY <2>1, <3>3 DEF true, next, l, n2, pr2
  <2>11. todo' # <<>> /\ todo'[1] = VisitList(Len(program) + 1)
    <3>1. todo \in Seq(Entries) /\ Len(program) + 1 \in Nat /\ g.n + 2 \in Nat
      BY <2>3, <2>8 DEF Orderly
    <3> QED BY <2>1, <3>1, HeadOfPushed
  <2>12. ~EndsInReturn(program'[todo'[1].list]) /\ todo'[1].do = "list"
    BY <2>9, <2>11 DEF VisitList, EndsInReturn
  <2> QED BY <1>2, <2>1, <2>2, <2>6, <2>7, <2>10, <2>11, <2>12, RunStep
<1> QED BY <1>3, <1>4

\* An if with else: the else branch is entered, the other one waits.
LEMMA IfElseStep ==
    ASSUME BuilderInv, NEW indexed \in Indexing, VisitIfElse(indexed)
    PROVE  BuilderInv'
<1> DEFINE k    == nodes + 1
           else == Len(program) + 1
           node == [is |-> "ifelse", id |-> k, index |-> indexed, then |-> else + 1, else |-> else]
           g    == Indexed(cfg, cur, k, indexed)
           at   == BlockBehind(cfg, cur, indexed)
           h    == AddBlock(AddBlock(AddBlock(g)))
           j    == AddCondJump(h, at, CondTest(k), g.n + 1, g.n + 2)
<1>1. k \in Nat /\ indexed \in BOOLEAN /\ cur \in Blocks(cfg) /\ Sound(cfg, Tests, Instrs)
  <2>1. indexed \in BOOLEAN
    BY BuilderAssumption
  <2> QED BY <2>1 DEF BuilderInv, Typed
<1>2. node \in Nodes /\ node.is = "ifelse" /\ node.is \notin Silent /\ Draw(node, 2)
  <2>1. else \in Nat /\ else + 1 \in Nat
    BY LenProperties DEF BuilderInv, Typed
  <2>2. Draw(node, 2)
    BY DEF VisitIfElse
  <2> HIDE DEF k, else
  <2> QED BY <1>1, <2>1, <2>2 DEF Nodes, Silent
<1>3. CASE IsTerminated(cfg, cur)
  <2>1. Abort
    BY <1>3 DEF VisitIfElse
  <2> QED BY <1>2, <1>3, <2>1, AbortStep
<1>4. CASE ~IsTerminated(cfg, cur)
  <2>1. /\ cfg' = j /\ cur' = g.n + 2 /\ outcome' = outcome
        /\ todo' = TwoInFront(VisitList(else), JumpTo(g.n + 3), ContinueAt(g.n + 1),
                              VisitList(else + 1), JumpTo(g.n + 3), ContinueAt(g.n + 3), todo)
    BY <1>4 DEF VisitIfElse, TwoInFront
  <2>2. cur \in OpenBlocks(cfg)
    BY <1>1, <1>4, OpenAndTerminated
  <2>3. /\ Sound(g, Tests, Instrs) /\ cfg.n \in Nat /\ g.n \in Nat /\ cfg.n <= g.n
        /\ at \in OpenBlocks(g) /\ OpenBlocks(g) = (OpenBlocks(cfg) \ {cur}) \cup {at}
        /\ at = cur \/ at \notin 1..cfg.n
    BY <1>1, <2>2, IndexedSound
  <2>4. CondTest(k) \in Tests /\ OpenBlocks(cfg) \in SUBSET (1..cfg.n) /\ at \in 1..g.n
    BY <1>1, <2>3 DEF CondTest, Tests, OpenBlocks, Blocks
  <2> HIDE DEF g, at, node, k
  <2>5. /\ Sound(h, Tests, Instrs) /\ h.n = g.n + 3
        /\ OpenBlocks(h) = OpenBlocks(g) \cup {g.n + 1, g.n + 2, g.n + 3}
    BY <2>3, ThreeBlocks
  <2> HIDE DEF h
  <2>6. Sound(j, Tests, Instrs) /\ j.n = g.n + 3 /\ OpenBlocks(j) = OpenBlocks(h) \ {at}
    <3>1. at \in OpenBlocks(h) /\ g.n + 1 \in Blocks(h) /\ g.n + 2 \in Blocks(h)
      BY <2>3, <2>5 DEF Blocks
    <3> QED BY <2>4, <2>5, <3>1, AddCondJumpSound
  <2> HIDE DEF j
  <2>7. /\ OpenBlocks(j) = (OpenBlocks(cfg) \ {cur}) \cup {g.n + 2, g.n + 3, g.n + 1}
        /\ g.n + 1 \in (cfg.n + 1)..j.n /\ g.n + 2 \in (cfg.n + 1)..j.n /\ g.n + 3 \in (cfg.n + 1)..j.n
        /\ g.n + 2 # g.n + 3 /\ g.n + 2 # g.n + 1 /\ g.n + 3 # g.n + 1
        /\ j.n \in Nat /\ cfg.n <= j.n
    <3>1. at # g.n + 1 /\ at # g.n + 2 /\ at # g.n + 3 /\ at \notin OpenBlocks(cfg) \ {cur}
      BY <2>3, <2>4
    <3> QED BY <2>3, <2>5, <2>6, <3>1
  <2>8. /\ todo # <<>> /\ todo[1].do = "list"
        /\ Orderly(todo, OpenBlocks(cfg), cfg.n, cur, program)
        /\ Covered(todo, OpenBlocks(cfg), cur)
        /\ Len(program) \in Nat /\ Len(program') = Len(program) + 2
        /\ \A m \in 1..Len(program) : m # todo[1].list => program'[m] = program[m]
        /\ \A m \in (Len(program) + 1)..(Len(program) + 2) : program'[m] = <<>>
        /\ EndsInReturn(program'[todo[1].list]) <=> node.is = "return"
    BY <1>2, DrawStep
  <2>9. /\ Len(program') \in Nat /\ Len(program) <= Len(program')
        /\ else \in (Len(program) + 1)..Len(program') /\ else # else + 1
        /\ else + 1 \in (Len(program) + 1)..Len(program')
        /\ program'[else] = <<>> /\ program'[else + 1] = <<>>
        /\ ~EndsInReturn(program'[todo[1].list])
    <3>1. else \in (Len(program) + 1)..(Len(program) + 2) /\ else + 1 \in (Len(program) + 1)..(Len(program) + 2)
      BY <2>8
    <3> QED BY <1>2, <2>8, <3>1
  <2>10. /\ todo \in Seq(Entries) /\ else \in Nat /\ else + 1 \in Nat
         /\ g.n + 1 \in Nat /\ g.n + 3 \in Nat
    BY <2>3, <2>8 DEF Orderly
  <2>11. todo' = InFront(VisitList(else), JumpTo(g.n + 3), ContinueAt(g.n + 1),
                         InFront(VisitList(else + 1), JumpTo(g.n + 3), ContinueAt(g.n + 3), todo))
    <3>1. /\ VisitList(else) \in Entries /\ VisitList(else + 1) \in Entries
          /\ JumpTo(g.n + 3) \in Entries
          /\ ContinueAt(g.n + 1) \in Entries /\ ContinueAt(g.n + 3) \in Entries
      BY <2>10 DEF Entries
    <3> QED BY <2>1, <2>10, <3>1, SixInFront
  <2>12. /\ Orderly(todo', OpenBlocks(j), j.n, g.n + 2, program')
         /\ Covered(todo', OpenBlocks(j), g.n + 2)
    <3> DEFINE true  == g.n + 1
               false == g.n + 2
               next  == g.n + 3
               then  == else + 1
               n     == cfg.n
               n2    == j.n
               open  == OpenBlocks(cfg)
               pr    == program
               pr2   == program'
    <3>1. /\ n \in Nat /\ n2 \in Nat /\ n <= n2 /\ open \in SUBSET (1..n)
          /\ true \in (n + 1)..n2 /\ false \in (n + 1)..n2 /\ next \in (n + 1)..n2
          /\ false # next /\ false # true /\ next # true
          /\ OpenBlocks(j) = (open \ {cur}) \cup {false, next, true}
      BY <2>3, <2>4, <2>7
    <3>2. /\ todo # <<>> /\ todo[1].do = "list"
          /\ Len(pr) \in Nat /\ Len(pr2) \in Nat /\ Len(pr) <= Len(pr2)
          /\ else \in (Len(pr) + 1)..Len(pr2) /\ then \in (Len(pr) + 1)..Len(pr2) /\ else # then
          /\ pr2[then] = <<>>
          /\ \A m \in 1..Len(pr) : m # todo[1].list => pr2[m] = pr[m]
          /\ ~EndsInReturn(pr2[todo[1].list])
          /\ Orderly(todo, open, n, cur, pr) /\ Covered(todo, open, cur)
      BY <2>8, <2>9
    <3> HIDE DEF true, false, next, then, else, n, n2, open, pr, pr2
    <3>3. LET t == InFront(VisitList(else), JumpTo(next), ContinueAt(true),
                           InFront(VisitList(then), JumpTo(next), ContinueAt(next), todo))
          IN  Orderly(t, OpenBlocks(j), n2, false, pr2) /\ Covered(t, OpenBlocks(j), false)
      BY <3>1, <3>2, EnterBranches
    <3> QED BY <2>1, <2>11, <3>3 DEF true, false, next, then, n2, pr2
  <2>13. todo' # <<>> /\ todo'[1] = VisitList(else)
    <3>1. InFront(VisitList(else + 1), JumpTo(g.n + 3), ContinueAt(g.n + 3), todo) \in Seq(Entries)
      BY <2>10, HeadOfPushed
    <3> QED BY <2>11, <2>10, <3>1, HeadOfPushed
  <2>14. ~EndsInReturn(program'[todo'[1].list]) /\ todo'[1].do = "list"
    BY <2>9, <2>13 DEF VisitList, EndsInReturn
  <2>15. cur' \in OpenBlocks(j)
    BY <2>1, <2>7
  <2> QED BY <1>2, <2>1, <2>2, <2>6, <2>12, <2>13, <2>14, <2>15, RunStep
<1> QED BY <1>3, <1>4

\* h is g with a loop behind block p, whose condition has the check of an array
\* element or none: block g.n + 1 is the condition, block g.n + 2 the body, block
\* g.n + 3 the one behind the loop.
Looped(g, h, p, k, indexed) ==
    /\ SameTerms(g, h, Blocks(g) \ {p})
    /\ h.term[p] = IF p \in OpenBlocks(g) THEN JumpTerm(g.n + 1) ELSE g.term[p]
    /\ h.term[g.n + 2] = Open /\ h.term[g.n + 3] = Open
    /\ indexed =>
          /\ h.n = g.n + 5
          /\ h.term[g.n + 1] = CondTerm(IndexTest(k), g.n + 5, g.n + 4)
          /\ h.term[g.n + 4] = JumpTerm(g.n + 5)
          /\ h.term[g.n + 5] = CondTerm(CondTest(k), g.n + 2, g.n + 3)
    /\ ~indexed =>
          /\ h.n = g.n + 3
          /\ h.term[g.n + 1] = CondTerm(CondTest(k), g.n + 2, g.n + 3)

LEMMA LoopGraph ==
    ASSUME NEW g, Sound(g, Tests, Instrs), NEW p \in Blocks(g), NEW k \in Nat, NEW indexed \in BOOLEAN
    PROVE  LET judge == g.n + 1
               body  == g.n + 2
               out   == g.n + 3
               g2    == EnterLoop(AddBlock(AddBlock(AddBlock(g))), p, judge)
               at    == BlockBehind(g2, judge, indexed)
               h     == AddCondJump(Indexed(g2, judge, k, indexed), at, CondTest(k), body, out)
           IN  /\ Sound(h, Tests, Instrs) /\ g.n \in Nat /\ h.n \in Nat /\ out <= h.n
               /\ OpenBlocks(h) = (OpenBlocks(g) \ {p}) \cup {body, out}
               /\ Looped(g, h, p, k, indexed)
<1> DEFINE judge == g.n + 1
           body  == g.n + 2
           out   == g.n + 3
           g1    == AddBlock(AddBlock(AddBlock(g)))
           g2    == EnterLoop(g1, p, judge)
           g3    == Indexed(g2, judge, k, indexed)
           at    == BlockBehind(g2, judge, indexed)
           h     == AddCondJump(g3, at, CondTest(k), body, out)
<1>1. CondTest(k) \in Tests
  BY DEF CondTest, Tests
<1>2. /\ Sound(g1, Tests, Instrs) /\ g.n \in Nat /\ g1.n = out
      /\ OpenBlocks(g1) = OpenBlocks(g) \cup {judge, body, out}
      /\ OpenBlocks(g) \in SUBSET (1..g.n) /\ p \in 1..g.n
      /\ SameTerms(g, g1, Blocks(g))
  <2>1. /\ Sound(g1, Tests, Instrs) /\ g.n \in Nat /\ g1.n = out
        /\ OpenBlocks(g1) = OpenBlocks(g) \cup {judge, body, out}
        /\ SameTerms(g, g1, Blocks(g))
    BY ThreeBlocks
  <2> QED BY <2>1 DEF OpenBlocks, Blocks
<1>3. at = IF indexed THEN g2.n + 2 ELSE judge
  BY DEF BlockBehind
<1>4. ~indexed => g3 = g2
  BY DEF Indexed
<1> HIDE DEF g1
<1>5. /\ p \in Blocks(g1) /\ judge \in Blocks(g1) /\ p \notin {judge, body, out}
      /\ p \in OpenBlocks(g1) <=> p \in OpenBlocks(g)
  BY <1>2 DEF Blocks
<1>6. /\ Sound(g2, Tests, Instrs) /\ g2.n = out
      /\ OpenBlocks(g2) = (OpenBlocks(g) \ {p}) \cup {judge, body, out}
      /\ IF p \in OpenBlocks(g) THEN Ended(g1, g2, p, JumpTerm(judge)) ELSE g2 = g1
  <2>1. CASE p \notin OpenBlocks(g)
    <3>1. IsTerminated(g1, p)
      BY <1>5, <2>1, OpenAndTerminated
    <3>2. g2 = g1
      BY <3>1 DEF EnterLoop
    <3> HIDE DEF g2, judge, body, out
    <3> QED BY <1>2, <2>1, <3>2
  <2>2. CASE p \in OpenBlocks(g)
    <3>1. p \in OpenBlocks(g1) /\ ~IsTerminated(g1, p)
      BY <1>5, <2>2, OpenAndTerminated
    <3>2. g2 = AddJump(g1, p, judge)
      BY <3>1 DEF EnterLoop
    <3> HIDE DEF g2, judge, body, out
    <3>3. /\ Sound(g2, Tests, Instrs) /\ g2.n = g1.n /\ OpenBlocks(g2) = OpenBlocks(g1) \ {p}
          /\ Ended(g1, g2, p, JumpTerm(judge))
      BY <1>2, <1>5, <3>1, <3>2, AddJumpSound
    <3> QED BY <1>2, <1>5, <2>2, <3>3
  <2> QED BY <2>1, <2>2
<1> HIDE DEF g2
<1>7. /\ Sound(g3, Tests, Instrs) /\ g2.n \in Nat /\ g3.n \in Nat /\ g2.n <= g3.n
      /\ at \in OpenBlocks(g3) /\ OpenBlocks(g3) = (OpenBlocks(g2) \ {judge}) \cup {at}
      /\ at = judge \/ at \notin 1..g2.n
      /\ indexed => Split(g2, g3, judge, k)
  <2>1. judge \in OpenBlocks(g2) /\ Sound(g2, Tests, Instrs)
    BY <1>6
  <2> HIDE DEF judge, body, out, g3, at
  <2>2. /\ Sound(g3, Tests, Instrs) /\ g2.n \in Nat /\ g3.n \in Nat /\ g2.n <= g3.n
        /\ at \in OpenBlocks(g3) /\ OpenBlocks(g3) = (OpenBlocks(g2) \ {judge}) \cup {at}
        /\ at = judge \/ at \notin 1..g2.n
        /\ indexed => Split(g2, g3, judge, k)
    BY <2>1, IndexedSound, Zenon DEF g3, at
  <2> QED BY <2>2
<1> HIDE DEF g3, at
<1>8. /\ Sound(h, Tests, Instrs) /\ h.n = g3.n /\ OpenBlocks(h) = OpenBlocks(g3) \ {at}
      /\ Ended(g3, h, at, CondTerm(CondTest(k), body, out))
  <2>1. body \in Blocks(g3) /\ out \in Blocks(g3)
    BY <1>2, <1>6, <1>7 DEF Blocks
  <2> QED BY <1>1, <1>7, <2>1, AddCondJumpSound
<1> HIDE DEF h
<1>9. judge # body /\ judge # out /\ body # out /\ judge \notin OpenBlocks(g)
  BY <1>2
<1>10. at \notin OpenBlocks(g) /\ at # body /\ at # out
  BY <1>2, <1>6, <1>7
<1>11. OpenBlocks(h) = (OpenBlocks(g) \ {p}) \cup {body, out}
  <2> HIDE DEF judge, body, out
  <2> QED BY <1>5, <1>6, <1>7, <1>8, <1>9, <1>10
<1>12. Looped(g, h, p, k, indexed)
  <2>1. ASSUME NEW x \in Blocks(g)
        PROVE  /\ h.term[x] = g2.term[x] /\ x \in Blocks(g1) /\ g1.term[x] = g.term[x]
               /\ x # p => g2.term[x] = g.term[x]
    <3>1. /\ x \in Blocks(g1) /\ x \in Blocks(g2) /\ x \in Blocks(g3) /\ x # judge /\ x # at
      BY <1>2, <1>6, <1>7 DEF Blocks
    <3>2. g1.term[x] = g.term[x]
      BY <1>2 DEF SameTerms
    <3>3. g3.term[x] = g2.term[x]
      BY <1>4, <1>7, <3>1 DEF Split, SameTerms
    <3>4. h.term[x] = g3.term[x]
      BY <1>8, <3>1 DEF Ended, SameTerms
    <3>5. x # p => g2.term[x] = g1.term[x]
      BY <1>6, <3>1 DEF Ended, SameTerms
    <3> QED BY <3>1, <3>2, <3>3, <3>4, <3>5
  <2>2. h.term[p] = IF p \in OpenBlocks(g) THEN JumpTerm(judge) ELSE g.term[p]
    BY <1>6, <2>1 DEF Ended
  <2>3. h.term[body] = Open /\ h.term[out] = Open
    BY <1>11 DEF OpenBlocks
  <2>4. ASSUME indexed
        PROVE  /\ h.n = g.n + 5 /\ h.term[judge] = CondTerm(IndexTest(k), g.n + 5, g.n + 4)
               /\ h.term[g.n + 4] = JumpTerm(g.n + 5)
               /\ h.term[g.n + 5] = CondTerm(CondTest(k), body, out)
    <3>1. /\ g2.n + 2 = g.n + 5 /\ g2.n + 1 = g.n + 4 /\ at = g.n + 5 /\ g3.n = g.n + 5
          /\ g3.term[judge] = CondTerm(IndexTest(k), g.n + 5, g.n + 4)
          /\ g3.term[g.n + 4] = JumpTerm(g.n + 5)
      <4>1. g2.n + 2 = g.n + 5 /\ g2.n + 1 = g.n + 4
        BY <1>2, <1>6
      <4> QED BY <1>3, <1>7, <2>4, <4>1 DEF Split
    <3>2. judge \in Blocks(g3) \ {at} /\ g.n + 4 \in Blocks(g3) \ {at}
      BY <1>2, <3>1 DEF Blocks
    <3> QED BY <1>8, <3>1, <3>2 DEF Ended, SameTerms
  <2>5. ASSUME ~indexed
        PROVE  h.n = out /\ h.term[judge] = CondTerm(CondTest(k), body, out)
    BY <1>3, <1>4, <1>6, <1>8, <2>5 DEF Ended
  <2> QED BY <2>1, <2>2, <2>3, <2>4, <2>5 DEF Looped, SameTerms
<1>13. h.n \in Nat /\ out <= h.n
  BY <1>2, <1>6, <1>7, <1>8
<1> QED BY <1>2, <1>8, <1>11, <1>12, <1>13 DEF h, g3, g2, g1, at

\* A loop: the old block jumps to the condition if it is open; the condition
\* leaves for the body and the block behind.
LEMMA WhileStep ==
    ASSUME BuilderInv, NEW indexed \in Indexing, VisitWhile(indexed)
    PROVE  BuilderInv'
<1> DEFINE k    == nodes + 1
           node == [is |-> "while", id |-> k, index |-> indexed, do |-> Len(program) + 1]
           judge == cfg.n + 1
           body  == cfg.n + 2
           out   == cfg.n + 3
           g2    == EnterLoop(AddBlock(AddBlock(AddBlock(cfg))), cur, judge)
           at    == BlockBehind(g2, judge, indexed)
           j     == AddCondJump(Indexed(g2, judge, k, indexed), at, CondTest(k), body, out)
<1>1. k \in Nat /\ indexed \in BOOLEAN /\ cur \in Blocks(cfg) /\ Sound(cfg, Tests, Instrs)
  <2>1. indexed \in BOOLEAN
    BY BuilderAssumption
  <2> QED BY <2>1 DEF BuilderInv, Typed
<1>2. node \in Nodes /\ node.is = "while" /\ node.is \notin Silent /\ Draw(node, 1)
  <2>1. Len(program) + 1 \in Nat
    BY LenProperties DEF BuilderInv, Typed
  <2> QED BY <1>1, <2>1 DEF Nodes, Silent, VisitWhile
<1>3. /\ cfg' = j /\ cur' = body /\ outcome' = outcome
      /\ todo' = InFront(VisitList(Len(program) + 1), JumpTo(judge), ContinueAt(out), todo)
  BY DEF VisitWhile, InFront
<1>8. /\ Sound(j, Tests, Instrs) /\ cfg.n \in Nat /\ j.n \in Nat /\ out <= j.n
      /\ OpenBlocks(j) = (OpenBlocks(cfg) \ {cur}) \cup {body, out}
  <2> HIDE DEF node, k
  <2> QED BY <1>1, LoopGraph
<1> HIDE DEF node, k, j, g2, at
<1>9. /\ body \in (cfg.n + 1)..j.n /\ out \in (cfg.n + 1)..j.n /\ body # out
      /\ j.n \in Nat /\ cfg.n <= j.n /\ judge \in 1..j.n
  BY <1>8
<1>10. OpenBlocks(cfg) \in SUBSET (1..cfg.n) /\ OpenBlocks(j) = (OpenBlocks(cfg) \ {cur}) \cup {body, out}
  BY <1>8 DEF OpenBlocks, Blocks
<1>11. /\ todo # <<>> /\ todo[1].do = "list"
       /\ Orderly(todo, OpenBlocks(cfg), cfg.n, cur, program)
       /\ Covered(todo, OpenBlocks(cfg), cur)
       /\ Len(program) \in Nat /\ Len(program') = Len(program) + 1
       /\ \A m \in 1..Len(program) : m # todo[1].list => program'[m] = program[m]
       /\ \A m \in (Len(program) + 1)..(Len(program) + 1) : program'[m] = <<>>
       /\ EndsInReturn(program'[todo[1].list]) <=> node.is = "return"
  BY <1>2, DrawStep
<1>12. /\ Len(program') \in Nat /\ Len(program) <= Len(program')
       /\ Len(program) + 1 \in (Len(program) + 1)..Len(program')
       /\ program'[Len(program) + 1] = <<>>
       /\ ~EndsInReturn(program'[todo[1].list])
  BY <1>2, <1>11
<1>13. /\ Orderly(todo', OpenBlocks(j), j.n, body, program')
       /\ Covered(todo', OpenBlocks(j), body)
  <2> DEFINE l    == Len(program) + 1
             n    == cfg.n
             n2   == j.n
             open == OpenBlocks(cfg)
             pr   == program
             pr2  == program'
  <2>1. /\ n \in Nat /\ n2 \in Nat /\ n <= n2 /\ open \in SUBSET (1..n)
        /\ body \in (n + 1)..n2 /\ out \in (n + 1)..n2 /\ body # out /\ judge \in 1..n2
        /\ OpenBlocks(j) = (open \ {cur}) \cup {body, out}
    BY <1>8, <1>9, <1>10
  <2>2. /\ todo # <<>> /\ todo[1].do = "list"
        /\ Len(pr) \in Nat /\ Len(pr2) \in Nat /\ Len(pr) <= Len(pr2)
        /\ l \in (Len(pr) + 1)..Len(pr2)
        /\ \A m \in 1..Len(pr) : m # todo[1].list => pr2[m] = pr[m]
        /\ ~EndsInReturn(pr2[todo[1].list])
        /\ Orderly(todo, open, n, cur, pr) /\ Covered(todo, open, cur)
    BY <1>11, <1>12
  <2> HIDE DEF judge, body, out, l, n, n2, open, pr, pr2
  <2>3. LET t == InFront(VisitList(l), JumpTo(judge), ContinueAt(out), todo)
        IN  Orderly(t, OpenBlocks(j), n2, body, pr2) /\ Covered(t, OpenBlocks(j), body)
    BY <2>1, <2>2, EnterBranch
  <2> QED BY <1>3, <2>3 DEF l, n2, pr2
<1>14. todo' # <<>> /\ todo'[1] = VisitList(Len(program) + 1)
  <2>1. todo \in Seq(Entries) /\ Len(program) + 1 \in Nat /\ judge \in Nat /\ out \in Nat
    BY <1>8, <1>11 DEF Orderly
  <2> HIDE DEF judge, out
  <2> QED BY <1>3, <2>1, HeadOfPushed
<1>15. ~EndsInReturn(program'[todo'[1].list]) /\ todo'[1].do = "list"
  BY <1>12, <1>14 DEF VisitList, EndsInReturn
<1>16. cur' \in OpenBlocks(j)
  BY <1>3, <1>10
<1> HIDE DEF judge, body, out
<1> QED BY <1>2, <1>3, <1>8, <1>13, <1>14, <1>15, <1>16, RunStep
-----------------------------------------------------------------------------
\* A visitor returns, jumps, goes on in the next block, or ends the function.
LEMMA ReturningStep ==
    ASSUME BuilderInv, EndList \/ CloseBranch \/ MoveInsertPoint \/ EndFunction
    PROVE  BuilderInv'
<1>1. /\ outcome = "running" /\ program' = program /\ nodes' = nodes
      /\ Orderly(todo, OpenBlocks(cfg), cfg.n, cur, program)
      /\ Covered(todo, OpenBlocks(cfg), cur)
      /\ cfg.n \in Nat /\ Sound(cfg, Tests, Instrs) /\ cur \in Blocks(cfg)
      /\ todo \in Seq(Entries)
  <2>1. outcome = "running" /\ program' = program /\ nodes' = nodes
    BY DEF EndList, Visiting, CloseBranch, MoveInsertPoint, EndFunction
  <2> QED BY <2>1 DEF BuilderInv, Typed, Building, Sound, Shaped, Graphs, Orderly
<1>2. outcome' # "abort" => AbortsOnlyBehindReturn'
  BY <1>1 DEF BuilderInv, AbortsOnlyBehindReturn
<1>3. ASSUME todo # <<>>
      PROVE  /\ Head(todo) = todo[1] /\ Len(todo) \in Nat /\ 1 \in 1..Len(todo)
             /\ Len(Tail(todo)) = Len(todo) - 1
             /\ \A i \in 1..Len(Tail(todo)) : Tail(todo)[i] = todo[i + 1]
             /\ Orderly(Tail(todo), OpenBlocks(cfg), cfg.n, cur, program)
  <2>1. Len(todo) \in Nat /\ 1 \in 1..Len(todo)
    BY <1>1, <1>3, EmptySeq, LenProperties
  <2>2. Orderly(Tail(todo), OpenBlocks(cfg), cfg.n, cur, program)
    BY <1>1, <1>3, PopOrderly
  <2> QED BY <1>1, <1>3, <2>1, <2>2, HeadTailProperties
<1>4. ASSUME todo # <<>>, Tail(todo) # <<>>
      PROVE  Tail(todo)[1] = todo[2] /\ 1 < Len(todo)
  <2>1. Tail(todo) \in Seq(Entries)
    BY <1>1, <1>4, HeadTailProperties
  <2>2. 1 \in 1..Len(Tail(todo))
    BY <1>4, <2>1, EmptySeq, LenProperties
  <2> QED BY <1>3, <1>4, <2>2
<1>5. ASSUME todo # <<>>, NEW b, \E i \in 1..Len(todo) : todo[i].do = "insert" /\ todo[i].at = b,
             ~(todo[1].do = "insert" /\ todo[1].at = b)
      PROVE  \E i \in 1..Len(Tail(todo)) : Tail(todo)[i].do = "insert" /\ Tail(todo)[i].at = b
  <2>1. PICK i \in 1..Len(todo) : todo[i].do = "insert" /\ todo[i].at = b
    BY <1>5
  <2>2. i - 1 \in 1..Len(Tail(todo)) /\ i = (i - 1) + 1
    BY <1>3, <1>5, <2>1
  <2> QED BY <1>3, <1>5, <2>1, <2>2
<1>6. CASE EndList
  <2>1. /\ todo # <<>> /\ todo[1].do = "list" /\ todo' = Tail(todo)
        /\ cfg' = cfg /\ cur' = cur /\ outcome' = outcome
    BY <1>3, <1>6 DEF EndList, Visiting
  <2>2. Covered(Tail(todo), OpenBlocks(cfg), cur)
    BY <1>1, <1>5, <2>1 DEF Covered
  <2>3. Tail(todo) # <<>> => Tail(todo)[1].do = "jump"
    BY <1>1, <1>3, <1>4, <2>1 DEF Orderly
  <2>4. Building'
    BY <1>1, <1>3, <2>1, <2>2, <2>3 DEF Building
  <2> QED BY <1>1, <1>2, <2>1, <2>4 DEF BuilderInv, Typed, Built
<1>7. CASE CloseBranch
  <2>1. /\ todo # <<>> /\ todo[1].do = "jump" /\ todo' = Tail(todo)
        /\ cfg' = IF IsTerminated(cfg, cur) THEN cfg ELSE AddJump(cfg, cur, todo[1].to)
        /\ cur' = cur /\ outcome' = outcome
    BY <1>3, <1>7 DEF CloseBranch
  <2>2. todo[1].to \in Blocks(cfg) /\ 1 < Len(todo) /\ todo[2].do = "insert"
    BY <1>1, <1>3, <2>1 DEF Orderly, Blocks
  <2>3. /\ Sound(cfg', Tests, Instrs) /\ cfg'.n = cfg.n
        /\ OpenBlocks(cfg)' = OpenBlocks(cfg) \ {cur}
    <3>1. CASE IsTerminated(cfg, cur)
      BY <1>1, <2>1, <3>1, OpenAndTerminated
    <3>2. CASE ~IsTerminated(cfg, cur)
      BY <1>1, <2>1, <2>2, <3>2, OpenAndTerminated, AddJumpSound
    <3> QED BY <3>1, <3>2
  <2>4. Orderly(Tail(todo), OpenBlocks(cfg) \ {cur}, cfg.n, cur, program)
    BY <1>3, <2>1 DEF Orderly
  <2>5. Covered(Tail(todo), OpenBlocks(cfg) \ {cur}, cur)
    BY <1>1, <1>5, <2>1 DEF Covered
  <2>6. Tail(todo) # <<>> => Tail(todo)[1].do = "insert"
    BY <1>4, <2>1, <2>2
  <2>7. Building'
    BY <1>1, <2>1, <2>3, <2>4, <2>5, <2>6 DEF Building
  <2>8. Typed'
    BY <1>1, <2>1, <2>3 DEF BuilderInv, Typed, Blocks
  <2> QED BY <1>1, <1>2, <2>1, <2>7, <2>8 DEF BuilderInv, Built
<1>8. CASE MoveInsertPoint
  <2>1. /\ todo # <<>> /\ todo[1].do = "insert" /\ todo' = Tail(todo)
        /\ cfg' = cfg /\ cur' = todo[1].at /\ outcome' = outcome
    BY <1>3, <1>8 DEF MoveInsertPoint
  <2>2. /\ todo[1].at \in OpenBlocks(cfg) /\ 1 < Len(todo) /\ todo[2].do = "list"
        /\ todo[2].list \in 1..Len(program) /\ ~EndsInReturn(program[todo[2].list])
    <3>1. todo[1].at \in OpenBlocks(cfg) /\ 1 < Len(todo) /\ todo[2].do = "list"
      BY <1>1, <1>3, <2>1 DEF Orderly
    <3>2. 2 \in 1..Len(todo)
      BY <1>3, <2>1, <3>1
    <3> QED BY <1>1, <3>1, <3>2 DEF Orderly
  <2>3. cur \notin OpenBlocks(cfg)
    BY <1>1, <2>1 DEF BuilderInv, Building
  <2>4. Covered(Tail(todo), OpenBlocks(cfg), todo[1].at)
    BY <1>1, <1>5, <2>1, <2>3 DEF Covered
  <2>5. ASSUME NEW i \in 1..Len(Tail(todo)), Tail(todo)[i].do = "insert"
        PROVE  Tail(todo)[i].at # todo[1].at
    <3>1. i + 1 \in 1..Len(todo) /\ i + 1 # 1 /\ Tail(todo)[i] = todo[i + 1]
      BY <1>3, <2>1
    <3> QED BY <1>1, <1>3, <2>1, <2>5, <3>1 DEF Orderly
  <2>6. Orderly(Tail(todo), OpenBlocks(cfg), cfg.n, todo[1].at, program)
    BY <1>3, <2>1, <2>5 DEF Orderly
  <2>7. Tail(todo) # <<>> => Tail(todo)[1] = todo[2]
    BY <1>4, <2>1
  <2>8. Building'
    BY <1>1, <2>1, <2>2, <2>4, <2>6, <2>7 DEF Building
  <2>9. Typed'
    BY <1>1, <2>1, <2>2 DEF BuilderInv, Typed, OpenBlocks
  <2> QED BY <1>1, <1>2, <2>1, <2>8, <2>9 DEF BuilderInv, Built
<1>9. CASE EndFunction
  <2>1. /\ todo = <<>> /\ todo' = todo /\ cur' = cur /\ outcome' = "done"
        /\ cfg' = IF IsTerminated(cfg, cur) THEN cfg ELSE AddReturn(cfg, cur)
    BY <1>9 DEF EndFunction
  <2>2. OpenBlocks(cfg) \subseteq {cur}
    BY <1>1, <2>1 DEF Covered
  <2>3. Sound(cfg', Tests, Instrs) /\ cfg'.n = cfg.n /\ OpenBlocks(cfg)' = {}
    <3>1. CASE IsTerminated(cfg, cur)
      BY <1>1, <2>1, <2>2, <3>1, OpenAndTerminated
    <3>2. CASE ~IsTerminated(cfg, cur)
      BY <1>1, <2>1, <2>2, <3>2, OpenAndTerminated, AddReturnSound
    <3> QED BY <3>1, <3>2
  <2>4. Typed'
    BY <1>1, <2>1, <2>3 DEF BuilderInv, Typed, Blocks
  <2> QED BY <1>2, <2>1, <2>3, <2>4 DEF BuilderInv, Building, Built
<1> QED BY <1>6, <1>7, <1>8, <1>9
-----------------------------------------------------------------------------
\* A silent element: nothing but the list being visited changes.
LEMMA SilentStep ==
    ASSUME BuilderInv, VisitEmpty \/ OpenCompound \/ CloseCompound
    PROVE  BuilderInv'
<1>1. PICK node \in Nodes :
         /\ node.is \in Silent
         /\ Visiting
         /\ Grows(node, 0)
         /\ nodes' \in Nat
  <2>1. nodes \in Nat /\ nodes + 1 \in Nat
    BY DEF BuilderInv, Typed
  <2>2. CASE VisitEmpty
    <3>1. [is |-> "empty"] \in Nodes /\ "empty" \in Silent
      BY DEF Nodes, Silent
    <3> QED BY <2>1, <2>2, <3>1 DEF VisitEmpty, Draw, Grows
  <2>3. CASE OpenCompound
    <3>1. [is |-> "{"] \in Nodes /\ "{" \in Silent
      BY DEF Nodes, Silent
    <3> QED BY <2>1, <2>3, <3>1 DEF OpenCompound, Draw, Grows
  <2>4. CASE CloseCompound
    <3>1. [is |-> "}"] \in Nodes /\ "}" \in Silent
      BY DEF Nodes, Silent
    <3>2. /\ Visiting /\ nodes' = nodes
          /\ program' = [program EXCEPT ![Head(todo).list] = Append(@, [is |-> "}"])]
      BY <2>4 DEF CloseCompound
    <3>3. outcome = "running" /\ todo # <<>> /\ todo[1].do = "list" /\ Head(todo) = todo[1]
      <4>1. Visiting
        BY <3>2
      <4> QED BY <4>1 DEF Visiting
    <3> DEFINE l == todo[1].list
    <3>4. program \in Seq(Seq(Nodes))
      BY DEF BuilderInv, Typed
    <3>5. l \in 1..Len(program)
      <4>1. Orderly(todo, OpenBlocks(cfg), cfg.n, cur, program)
        BY <3>3 DEF BuilderInv, Building
      <4>2. todo \in Seq(Entries)
        BY <4>1 DEF Orderly
      <4>3. 1 \in 1..Len(todo)
        BY <3>3, <4>2, EmptySeq, LenProperties
      <4> QED BY <3>3, <4>1, <4>3 DEF Orderly
    <3>6. program' = [program EXCEPT ![l] = Append(@, [is |-> "}"])]
      BY <3>2, <3>3
    <3> HIDE DEF l
    <3>7. program[l] \in Seq(Nodes)
      BY <3>4, <3>5, ElementOfSeq
    <3>8. Append(program[l], [is |-> "}"]) \in Seq(Nodes)
      BY <3>1, <3>7, AppendProperties
    <3>9. program' \in Seq(Seq(Nodes))
      BY <3>4, <3>5, <3>6, <3>8, ExceptSeq
    <3>10. [i \in 1..0 |-> <<>>] = <<>>
      OBVIOUS
    <3>11. program' \o <<>> = program'
      BY <3>9, ConcatEmptySeq
    <3>12. Grows([is |-> "}"], 0)
      BY <3>2, <3>10, <3>11 DEF Grows
    <3> QED BY <2>1, <3>1, <3>2, <3>12
  <2> QED BY <2>2, <2>3, <2>4
<1>2. cfg' = cfg /\ cur' = cur /\ todo' = todo /\ outcome' = outcome
  BY DEF VisitEmpty, OpenCompound, CloseCompound
<1> DEFINE l == todo[1].list
<1>3. /\ outcome = "running" /\ todo # <<>> /\ todo[1].do = "list"
      /\ Orderly(todo, OpenBlocks(cfg), cfg.n, cur, program)
      /\ Covered(todo, OpenBlocks(cfg), cur)
      /\ program' \in Seq(Seq(Nodes))
      /\ Len(program) \in Nat /\ Len(program') = Len(program) + 0
      /\ \A m \in 1..Len(program) : m # l => program'[m] = program[m]
      /\ EndsInReturn(program'[l])
            <=> node.is = "return" \/ (cur \notin OpenBlocks(cfg) /\ node.is \in Silent)
      /\ (\E m \in DOMAIN program' : BehindReturn(program'[m]))
            <=> cur \notin OpenBlocks(cfg) /\ node.is \notin Silent \cup {"while"}
  BY <1>1, GrowStep
<1>4. node.is # "return"
  BY <1>1 DEF Silent
<1>5. cur \in OpenBlocks(cfg) <=> ~EndsInReturn(program'[l])
  BY <1>1, <1>3, <1>4
<1>6. Orderly(todo, OpenBlocks(cfg), cfg.n, cur, program')
  <2>1. Len(todo) \in Nat /\ 1 \in 1..Len(todo)
    BY <1>3, EmptySeq, LenProperties DEF Orderly
  <2>2. ASSUME NEW i \in 1..Len(todo), todo[i].do = "list"
        PROVE  /\ todo[i].list \in 1..Len(program')
               /\ i > 1 => ~EndsInReturn(program'[todo[i].list])
               /\ i < Len(todo) => todo[i + 1].do = "jump"
    <3>1. /\ todo[i].list \in 1..Len(program)
          /\ i > 1 => ~EndsInReturn(program[todo[i].list])
          /\ i < Len(todo) => todo[i + 1].do = "jump"
          /\ i # 1 => todo[i].list # l
      BY <1>3, <2>1, <2>2 DEF Orderly
    <3>2. i > 1 => program'[todo[i].list] = program[todo[i].list]
      BY <1>3, <3>1
    <3> QED BY <1>3, <3>1, <3>2
  <2> QED BY <1>3, <2>2 DEF Orderly
<1>7. Typed'
  BY <1>1, <1>2, <1>3 DEF BuilderInv, Typed
<1>8. Building'
  BY <1>2, <1>3, <1>5, <1>6 DEF Building
<1>9. AbortsOnlyBehindReturn'
  BY <1>1, <1>2, <1>3 DEF AbortsOnlyBehindReturn, BehindReturn
<1> QED BY <1>2, <1>3, <1>7, <1>8, <1>9 DEF BuilderInv, Built

\* Every step of the builder keeps the inductive invariant.
LEMMA BuilderStep ==
    ASSUME BuilderInv, [BuildStep]_bvars
    PROVE  BuilderInv'
<1>1. ASSUME NEW p \in Payload, NEW indexed \in Indexing, VisitExpression(p, indexed)
      PROVE  BuilderInv'
  BY <1>1, ExpressionStep
<1>2. ASSUME NEW indexed \in Indexing, VisitReturn(indexed) PROVE BuilderInv'
  BY <1>2, ReturnStep
<1>3. ASSUME NEW indexed \in Indexing, VisitIf(indexed) PROVE BuilderInv'
  BY <1>3, IfStep
<1>4. ASSUME NEW indexed \in Indexing, VisitIfElse(indexed) PROVE BuilderInv'
  BY <1>4, IfElseStep
<1>5. ASSUME NEW indexed \in Indexing, VisitWhile(indexed) PROVE BuilderInv'
  BY <1>5, WhileStep
<1>6. CASE EndList \/ CloseBranch \/ MoveInsertPoint \/ EndFunction
  BY <1>6, ReturningStep
<1>7. CASE VisitEmpty \/ OpenCompound \/ CloseCompound
  BY <1>7, SilentStep
<1>8. CASE UNCHANGED bvars
  BY <1>8 DEF bvars, BuilderInv, Typed, Building, Built, AbortsOnlyBehindReturn
<1> QED BY <1>1, <1>2, <1>3, <1>4, <1>5, <1>6, <1>7, <1>8 DEF BuildStep

\* The inductive invariant holds in every run of the builder.
THEOREM BuilderInvariant == Spec => []BuilderInv
<1>1. Init => BuilderInv
  BY InitBuilderInv
<1>2. BuilderInv /\ [BuildStep]_bvars => BuilderInv'
  BY BuilderStep
<1> QED BY <1>1, <1>2, PTL DEF Spec

\* The three copies of every edge agree at every moment, and a finished function
\* has a terminator in every block (BasicBlock.cpp, Instruction.cpp and the
\* visitors of cminusf_builder.cpp).
THEOREM GraphsWellFormed == Spec => []GraphWellFormed
<1>1. BuilderInv => GraphWellFormed
  <2> SUFFICES ASSUME BuilderInv PROVE GraphWellFormed
    OBVIOUS
  <2>1. EdgesConsistent
    BY SoundEdges DEF BuilderInv, Typed, EdgesConsistent
  <2>2. AllTerminated
    BY OpenAndTerminated DEF BuilderInv, Built, AllTerminated
  <2> QED BY <2>1, <2>2 DEF GraphWellFormed
<1> QED BY <1>1, BuilderInvariant, PTL

\* The assertion of BasicBlock::add_instruction fails on exactly the programs
\* with a statement other than a loop behind a return, where only brackets of
\* compound statements and statements that add no instruction may stand between.
THEOREM AbortsBehindReturn == Spec => []AbortsOnlyBehindReturn
<1>1. BuilderInv => AbortsOnlyBehindReturn
  BY DEF BuilderInv
<1> QED BY <1>1, BuilderInvariant, PTL

-----------------------------------------------------------------------------
(* Paths of a graph: what is reached, what dominates what, and where the   *)
(* iterated dominance frontier lies.                                       *)

\* Of the sets in a family of subsets of a finite set, one has no other in it.
LEMMA HasSmallest ==
    ASSUME NEW S, IsFiniteSet(S), NEW F \in SUBSET (SUBSET S), F # {}
    PROVE  \E T \in F : \A U \in F : U \subseteq T => U = T
<1> DEFINE R == StrictSubsetOrdering(S)
<1>1. FiniteSubsetsOf(S) = SUBSET S
  BY FS_FiniteSubsetsOfFinite
<1>2. IsWellFoundedOn(R, SUBSET S)
  BY <1>1, FS_StrictSubsetOrderingWellFounded
<1>3. \A T, U \in SUBSET S : <<U, T>> \in R <=> U \subseteq T /\ U # T
  BY DEF StrictSubsetOrdering
<1> HIDE DEF R
<1>4. PICK T \in F : \A U \in F : ~(<<U, T>> \in R)
  BY <1>2, WFMin
<1>5. ASSUME NEW U \in F, U \subseteq T PROVE U = T
  <2>1. U \in SUBSET S /\ T \in SUBSET S /\ ~(<<U, T>> \in R)
    BY <1>4
  <2> QED BY <1>3, <1>5, <2>1
<1> QED BY <1>5

-----------------------------------------------------------------------------
(* Closure.                                                                *)

\* Nothing leads out of C.
Closed(C, next) == \A b \in C : next[b] \subseteq C

\* The least closed set around T.
Around(g, T, next) ==
    {x \in Blocks(g) : \A C \in SUBSET Blocks(g) : T \subseteq C /\ Closed(C, next) => x \in C}

\* T and what one step reaches.
More(T, next) == T \cup UNION {next[b] : b \in T}

\* It solves the equation that Closure's recursion states, ...
LEMMA AroundSolves ==
    ASSUME NEW g, NEW next \in [Blocks(g) -> SUBSET Blocks(g)], NEW T \in SUBSET Blocks(g)
    PROVE  /\ More(T, next) \in SUBSET Blocks(g) /\ T \subseteq More(T, next)
           /\ Around(g, T, next) = IF More(T, next) = T THEN T ELSE Around(g, More(T, next), next)
<1>1. More(T, next) \in SUBSET Blocks(g) /\ T \subseteq More(T, next)
  BY DEF More
<1>2. CASE More(T, next) = T
  <2>1. Closed(T, next)
    BY <1>2 DEF More, Closed
  <2> QED BY <1>1, <1>2, <2>1 DEF Around
<1>3. CASE More(T, next) # T
  <2>1. \A C \in SUBSET Blocks(g) : Closed(C, next) => (T \subseteq C <=> More(T, next) \subseteq C)
    BY DEF Closed, More
  <2>2. Around(g, T, next) = Around(g, More(T, next), next)
    BY <2>1 DEF Around
  <2> QED BY <1>1, <1>3, <2>2
<1> QED BY <1>2, <1>3

\* ... and nothing else does.
LEMMA ClosureIsAround ==
    ASSUME NEW g, g.n \in Nat, NEW next \in [Blocks(g) -> SUBSET Blocks(g)], NEW S \in SUBSET Blocks(g)
    PROVE  Closure(g, S, next) = Around(g, S, next)
<1> DEFINE Solves(f) ==
      f = [T \in SUBSET Blocks(g) |-> IF More(T, next) = T THEN T ELSE f[More(T, next)]]
    grow == CHOOSE f : Solves(f)
<1>1. \E f : Solves(f)
  <2> DEFINE f == [T \in SUBSET Blocks(g) |-> Around(g, T, next)]
  <2>1. \A T \in SUBSET Blocks(g) :
            f[T] = IF More(T, next) = T THEN T ELSE f[More(T, next)]
    BY AroundSolves
  <2>2. Solves(f)
    BY <2>1
  <2> HIDE DEF f
  <2> QED BY <2>2
<1>2. Solves(grow)
  BY <1>1
<1>3. Closure(g, S, next) = grow[S]
  BY DEF Closure, More
<1> HIDE DEF grow
<1> DEFINE Bad == {T \in SUBSET Blocks(g) : grow[T] # Around(g, T, next)}
           Outside == {Blocks(g) \ T : T \in Bad}
<1>4. ASSUME Bad # {} PROVE FALSE
  <2>1. IsFiniteSet(Blocks(g))
    BY FS_Interval DEF Blocks
  <2>2. Outside \in SUBSET (SUBSET Blocks(g)) /\ Outside # {}
    BY <1>4
  <2>3. PICK O \in Outside : \A U \in Outside : U \subseteq O => U = O
    <3> HIDE DEF Outside
    <3> QED BY <2>1, <2>2, HasSmallest
  <2>4. PICK T \in Bad : O = Blocks(g) \ T
    BY <2>3
  <2> DEFINE M == More(T, next)
  <2>5. M \in SUBSET Blocks(g) /\ T \subseteq M /\ M # T /\ grow[M] # Around(g, M, next)
    BY <1>2, <2>4, AroundSolves
  <2>6. Blocks(g) \ M \in Outside
    BY <2>5
  <2>7. Blocks(g) \ M \subseteq O /\ Blocks(g) \ M # O
    BY <2>4, <2>5
  <2> QED BY <2>3, <2>6, <2>7
<1> QED BY <1>3, <1>4

-----------------------------------------------------------------------------
(* Reachability.                                                           *)
Succ(g, b) == Members(Targets(g, b))

\* A graph with an entry, all of whose branches go to blocks of it.
Routed(g) == g.n \in Nat /\ Entry \in Blocks(g) /\ \A b \in Blocks(g) : Succ(g, b) \subseteq Blocks(g)

\* The blocks reached avoiding some are the least set with the first ones that
\* is closed under the other edges.
LEMMA ReachedLeast ==
    ASSUME NEW g, Routed(g), NEW S \in SUBSET Blocks(g), NEW avoid
    PROVE  LET R == ReachableAvoiding(g, S, avoid)
           IN  /\ R \subseteq Blocks(g) \ avoid /\ S \ avoid \subseteq R
               /\ \A b \in R : Succ(g, b) \ avoid \subseteq R
               /\ \A C : S \ avoid \subseteq C /\ (\A b \in C \cap R : Succ(g, b) \ avoid \subseteq C)
                      => R \subseteq C
<1> DEFINE next == [b \in Blocks(g) |-> Succ(g, b) \ avoid]
           R == ReachableAvoiding(g, S, avoid)
<1>1. next \in [Blocks(g) -> SUBSET Blocks(g)] /\ g.n \in Nat
  BY DEF Routed
<1>2. R = Closure(g, S \ avoid, next)
  BY DEF ReachableAvoiding, Succ
<1>3. R = Around(g, S \ avoid, next)
  <2>1. S \ avoid \in SUBSET Blocks(g)
    OBVIOUS
  <2> HIDE DEF next, R
  <2> QED BY <1>1, <1>2, <2>1, ClosureIsAround
<1> HIDE DEF R
<1>4. R \subseteq Blocks(g) /\ S \ avoid \subseteq R
  BY <1>3 DEF Around
<1>5. ASSUME NEW b \in R PROVE Succ(g, b) \ avoid \subseteq R
  <2>1. b \in Blocks(g) /\ next[b] \subseteq Blocks(g)
    BY <1>1, <1>4, <1>5
  <2>2. SUFFICES ASSUME NEW y \in next[b], NEW C \in SUBSET Blocks(g), S \ avoid \subseteq C, Closed(C, next)
                 PROVE  y \in C
    BY <1>3, <2>1 DEF Around
  <2>3. b \in C
    BY <1>3, <1>5, <2>2 DEF Around
  <2> QED BY <2>2, <2>3 DEF Closed
<1>6. ASSUME NEW C, S \ avoid \subseteq C, \A b \in C \cap R : Succ(g, b) \ avoid \subseteq C
      PROVE  R \subseteq C
  <2>1. C \cap R \in SUBSET Blocks(g) /\ S \ avoid \subseteq C \cap R
    BY <1>4, <1>6
  <2>2. Closed(C \cap R, next)
    BY <1>4, <1>5, <1>6 DEF Closed
  <2> QED BY <1>3, <2>1, <2>2 DEF Around
<1>7. R \cap avoid = {}
  <2>1. S \ avoid \subseteq Blocks(g) \ avoid
    OBVIOUS
  <2>2. \A b \in (Blocks(g) \ avoid) \cap R : Succ(g, b) \ avoid \subseteq Blocks(g) \ avoid
    BY DEF Routed
  <2> QED BY <1>6, <2>1, <2>2
<1> QED BY <1>4, <1>5, <1>6, <1>7 DEF R

-----------------------------------------------------------------------------
(* Dominance.                                                              *)
Dominates(g, a, b) == <<a, b>> \in Dominance(g)

Avoiding(g, a) == ReachableAvoiding(g, {Entry}, {a})

\* The blocks that control reaches, and those it reaches without going through a.
LEMMA LiveLeast ==
    ASSUME NEW g, Routed(g)
    PROVE  /\ Reachable(g) \subseteq Blocks(g) /\ Entry \in Reachable(g)
           /\ \A b \in Reachable(g) : Succ(g, b) \subseteq Reachable(g)
           /\ \A C : Entry \in C /\ (\A b \in C \cap Reachable(g) : Succ(g, b) \subseteq C)
                  => Reachable(g) \subseteq C
<1>1. {Entry} \in SUBSET Blocks(g)
  BY DEF Routed
<1> DEFINE R == ReachableAvoiding(g, {Entry}, {})
<1>2. /\ R \subseteq Blocks(g) \ {} /\ {Entry} \ {} \subseteq R
      /\ \A b \in R : Succ(g, b) \ {} \subseteq R
      /\ \A C : {Entry} \ {} \subseteq C /\ (\A b \in C \cap R : Succ(g, b) \ {} \subseteq C)
             => R \subseteq C
  BY <1>1, ReachedLeast
<1>3. R = Reachable(g)
  BY DEF Reachable
<1> HIDE DEF R
<1>4. \A X : X \ {} = X
  OBVIOUS
<1> QED BY <1>2, <1>3, <1>4

\* What avoids a is the least set that is closed but for a.
LEMMA AvoidingLeast ==
    ASSUME NEW g, Routed(g), NEW a
    PROVE  /\ Avoiding(g, a) \subseteq Blocks(g) \ {a} /\ (a # Entry => Entry \in Avoiding(g, a))
           /\ \A b \in Avoiding(g, a) : \A c \in Succ(g, b) : c # a => c \in Avoiding(g, a)
           /\ \A C : (a # Entry => Entry \in C)
                     /\ (\A b \in C \cap Avoiding(g, a) : \A c \in Succ(g, b) : c # a => c \in C)
                  => Avoiding(g, a) \subseteq C
<1>1. {Entry} \in SUBSET Blocks(g)
  BY DEF Routed
<1> DEFINE S == {Entry}
           avoid == {a}
           R == ReachableAvoiding(g, S, avoid)
<1>2. /\ R \subseteq Blocks(g) \ avoid /\ S \ avoid \subseteq R
      /\ \A b \in R : Succ(g, b) \ avoid \subseteq R
      /\ \A C : S \ avoid \subseteq C /\ (\A b \in C \cap R : Succ(g, b) \ avoid \subseteq C)
             => R \subseteq C
  <2> HIDE DEF S, avoid
  <2> QED BY <1>1, ReachedLeast DEF S
<1>3. R = Avoiding(g, a)
  BY DEF Avoiding
<1> HIDE DEF R
<1>4. ASSUME NEW C, a # Entry => Entry \in C,
             \A b \in C \cap R : \A c \in Succ(g, b) : c # a => c \in C
      PROVE  R \subseteq C
  <2>1. {Entry} \ {a} \subseteq C
    BY <1>4
  <2>2. \A b \in C \cap R : Succ(g, b) \ {a} \subseteq C
    BY <1>4
  <2> QED BY <1>2, <2>1, <2>2
<1> QED BY <1>2, <1>3, <1>4

\* a dominates b if no path to b avoids a.
LEMMA DominatesIs ==
    ASSUME NEW g, Routed(g), NEW a, NEW b
    PROVE  Dominates(g, a, b) <=> /\ a \in Reachable(g) /\ b \in Reachable(g)
                                  /\ b \notin Avoiding(g, a)
<1>1. Dominates(g, a, b) <=>
        \E x \in Reachable(g) : \E y \in Reachable(g) \ Avoiding(g, x) : <<a, b>> = <<x, y>>
  <2> DEFINE live == Reachable(g)
             Row(x) == {<<x, y>> : y \in live \ Avoiding(g, x)}
  <2>1. Dominance(g) = UNION {Row(x) : x \in live}
    BY DEF Dominance, Avoiding
  <2>2. \A x : <<a, b>> \in Row(x) <=> \E y \in live \ Avoiding(g, x) : <<a, b>> = <<x, y>>
    OBVIOUS
  <2> HIDE DEF Row, live
  <2>3. <<a, b>> \in UNION {Row(x) : x \in live} <=> \E x \in live : <<a, b>> \in Row(x)
    OBVIOUS
  <2> QED BY <2>1, <2>2, <2>3 DEF Dominates, live
<1> QED BY <1>1

\* What is reached without a block is reached.
LEMMA AvoidingLive ==
    ASSUME NEW g, Routed(g), NEW a
    PROVE  Avoiding(g, a) \subseteq Reachable(g)
BY LiveLeast, AvoidingLeast

\* Dominance is a partial order on the blocks that control reaches, ...
LEMMA DominatesSelf ==
    ASSUME NEW g, Routed(g), NEW a \in Reachable(g)
    PROVE  Dominates(g, a, a)
BY AvoidingLeast, DominatesIs

\* The entry dominates every live block.
LEMMA EntryDominates ==
    ASSUME NEW g, Routed(g), NEW b \in Reachable(g)
    PROVE  Dominates(g, Entry, b)
<1>1. Avoiding(g, Entry) \subseteq {}
  BY AvoidingLeast
<1> QED BY <1>1, LiveLeast, DominatesIs

\* Without a dominator of b there is less to reach than without b.
LEMMA AvoidingLess ==
    ASSUME NEW g, Routed(g), NEW a, NEW b, Dominates(g, a, b)
    PROVE  Avoiding(g, a) \subseteq Avoiding(g, b)
<1> DEFINE C == Avoiding(g, a) \cap Avoiding(g, b)
<1>1. b \notin Avoiding(g, a)
  BY DominatesIs
<1>2. a # Entry => Entry \in C
  BY <1>1, AvoidingLeast
<1>3. \A x \in C \cap Avoiding(g, a) : \A y \in Succ(g, x) : y # a => y \in C
  BY <1>1, AvoidingLeast
<1> HIDE DEF C
<1>4. Avoiding(g, a) \subseteq C
  BY <1>2, <1>3, AvoidingLeast
<1> QED BY <1>4 DEF C

\* Dominance is an order.
LEMMA DominatesTransitive ==
    ASSUME NEW g, Routed(g), NEW a, NEW b, NEW c, Dominates(g, a, b), Dominates(g, b, c)
    PROVE  Dominates(g, a, c)
BY AvoidingLess, DominatesIs

LEMMA DominatesAntisymmetric ==
    ASSUME NEW g, Routed(g), NEW a, NEW b, Dominates(g, a, b), Dominates(g, b, a)
    PROVE  a = b
<1>1. SUFFICES ASSUME a # b PROVE FALSE
  OBVIOUS
<1>2. Avoiding(g, a) = Avoiding(g, b)
  BY AvoidingLess
<1> DEFINE A == Avoiding(g, a)
<1>3. Entry \in A
  BY <1>1, <1>2, AvoidingLeast
<1>4. \A x \in A : \A y \in Succ(g, x) : y \in A
  BY <1>1, <1>2, AvoidingLeast
<1>5. a \notin A
  BY AvoidingLeast
<1> HIDE DEF A
<1>6. Reachable(g) \subseteq A
  BY <1>3, <1>4, LiveLeast
<1> QED BY <1>5, <1>6, DominatesIs

\* ... and the dominators of a block are a chain.
LEMMA DominatorsChain ==
    ASSUME NEW g, Routed(g), NEW a, NEW b, NEW c, Dominates(g, a, c), Dominates(g, b, c)
    PROVE  Dominates(g, a, b) \/ Dominates(g, b, a)
<1>1. SUFFICES ASSUME b \in Avoiding(g, a), a \in Avoiding(g, b) PROVE FALSE
  BY DominatesIs
<1> DEFINE C == Avoiding(g, a) \cup Avoiding(g, b)
<1>2. a # b
  BY <1>1, AvoidingLeast
<1>3. Entry \in C
  BY <1>2, AvoidingLeast
<1>4. \A x \in C : \A y \in Succ(g, x) : y \in C
  BY <1>1, AvoidingLeast
<1>5. c \notin C
  BY DominatesIs
<1> HIDE DEF C
<1>6. Reachable(g) \subseteq C
  BY <1>3, <1>4, LiveLeast
<1> QED BY <1>5, <1>6, DominatesIs

\* What dominates a block dominates all blocks that branch to it.
LEMMA DominatesBefore ==
    ASSUME NEW g, Routed(g), NEW a, NEW p \in Reachable(g), NEW c \in Succ(g, p),
           Dominates(g, a, c), a # c
    PROVE  Dominates(g, a, p)
BY AvoidingLeast, DominatesIs

-----------------------------------------------------------------------------
(* The dominator tree.                                                     *)
Child(g, a, c) == c \in DomChildren(g, Dominance(g), a)

\* A child is a block that its parent dominates with nothing between them.
LEMMA ChildIs ==
    ASSUME NEW g, Routed(g), NEW a, NEW c
    PROVE  Child(g, a, c) <=> /\ c # a /\ Dominates(g, a, c)
                              /\ \A x : x # c /\ Dominates(g, x, c) => Dominates(g, x, a)
<1>1. \A x, y : Dominates(g, x, y) => x \in Blocks(g) /\ y \in Blocks(g)
  BY LiveLeast, DominatesIs
<1> QED BY <1>1 DEF Child, DomChildren, Dominates

\* Every block but the entry is the child of one block.
LEMMA HasParent ==
    ASSUME NEW g, Routed(g), NEW c \in Reachable(g), c # Entry
    PROVE  \E a \in Reachable(g) : Child(g, a, c)
<1> DEFINE Strict == {a \in Reachable(g) : a # c /\ Dominates(g, a, c)}
           Below(a) == {x \in Blocks(g) : ~Dominates(g, x, a)}
           F == {Below(a) : a \in Strict}
<1>1. IsFiniteSet(Blocks(g))
  BY FS_Interval DEF Blocks, Routed
<1>2. Entry \in Strict
  BY EntryDominates, LiveLeast
<1>3. PICK T \in F : \A U \in F : U \subseteq T => U = T
  <2>1. F \in SUBSET (SUBSET Blocks(g)) /\ F # {}
    BY <1>2
  <2> HIDE DEF F
  <2> QED BY <1>1, <2>1, HasSmallest
<1>4. PICK a \in Strict : T = Below(a)
  BY <1>3
<1>5. ASSUME NEW x, x # c, Dominates(g, x, c) PROVE Dominates(g, x, a)
  <2>1. x \in Strict
    BY <1>5, DominatesIs
  <2>2. SUFFICES ASSUME Dominates(g, a, x) PROVE Dominates(g, x, a)
    BY <1>4, <1>5, DominatorsChain
  <2>3. Below(x) \subseteq Below(a)
    BY <2>2, DominatesTransitive
  <2>4. Below(x) = Below(a)
    BY <1>3, <1>4, <2>1, <2>3
  <2>5. x \in Blocks(g) /\ x \notin Below(x)
    BY <2>1, LiveLeast, DominatesSelf
  <2> QED BY <2>4, <2>5
<1> QED BY <1>4, <1>5, ChildIs

\* And no other.
LEMMA OneParent ==
    ASSUME NEW g, Routed(g), NEW a, NEW b, NEW c, Child(g, a, c), Child(g, b, c)
    PROVE  a = b
BY ChildIs, DominatesAntisymmetric

\* A set that has the entry and the children of all it has, has all blocks that
\* control reaches.
LEMMA TreeReachesAll ==
    ASSUME NEW g, Routed(g), NEW C, Entry \in C,
           \A a \in C : \A c : Child(g, a, c) => c \in C
    PROVE  Reachable(g) \subseteq C
<1> DEFINE Above(c) == {x \in Blocks(g) : Dominates(g, x, c)}
           F == {Above(c) : c \in Reachable(g) \ C}
<1>1. SUFFICES ASSUME Reachable(g) \ C # {} PROVE FALSE
  OBVIOUS
<1>2. PICK T \in F : \A U \in F : U \subseteq T => U = T
  <2>1. F \in SUBSET (SUBSET Blocks(g)) /\ F # {}
    BY <1>1
  <2>2. IsFiniteSet(Blocks(g))
    BY FS_Interval DEF Blocks, Routed
  <2> HIDE DEF F
  <2> QED BY <2>1, <2>2, HasSmallest
<1>3. PICK c \in Reachable(g) \ C : T = Above(c)
  BY <1>2
<1>4. PICK a \in Reachable(g) : Child(g, a, c)
  BY <1>3, HasParent
<1>5. a \notin C /\ Dominates(g, a, c) /\ a # c
  BY <1>3, <1>4, ChildIs
<1>6. Above(a) \subseteq Above(c)
  BY <1>5, DominatesTransitive
<1>7. c \in Above(c) /\ c \notin Above(a)
  BY <1>3, <1>5, LiveLeast, DominatesSelf, DominatesAntisymmetric
<1> QED BY <1>2, <1>3, <1>5, <1>6, <1>7

\* What is the same for every block and its parent, down from a to b, is the same
\* for a and b.
LEMMA TreeWalk ==
    ASSUME NEW g, Routed(g), NEW f, NEW a, NEW b, Dominates(g, a, b),
           \A x, p : Dominates(g, a, x) /\ Dominates(g, x, b) /\ x # a /\ Child(g, p, x)
                        => f[x] = f[p]
    PROVE  f[b] = f[a]
<1> DEFINE Above(c) == {x \in Blocks(g) : Dominates(g, x, c)}
           On(x) == Dominates(g, a, x) /\ Dominates(g, x, b) /\ f[x] = f[b]
           F == {Above(x) : x \in {y \in Reachable(g) : On(y)}}
<1>1. a \in Reachable(g) /\ b \in Reachable(g)
  BY DominatesIs
<1>2. PICK T \in F : \A U \in F : U \subseteq T => U = T
  <2>1. F \in SUBSET (SUBSET Blocks(g))
    OBVIOUS
  <2>2. On(b)
    BY <1>1, DominatesSelf
  <2>3. Above(b) \in F
    BY <1>1, <2>2
  <2>4. IsFiniteSet(Blocks(g))
    BY FS_Interval DEF Blocks, Routed
  <2> HIDE DEF F
  <2> QED BY <2>1, <2>3, <2>4, HasSmallest
<1>3. PICK x \in Reachable(g) : On(x) /\ T = Above(x)
  BY <1>2
<1>4. SUFFICES ASSUME x # a PROVE FALSE
  BY <1>3
<1>5. x # Entry
  BY <1>1, <1>3, <1>4, EntryDominates, DominatesAntisymmetric
<1>6. PICK p \in Reachable(g) : Child(g, p, x)
  BY <1>3, <1>5, HasParent
<1>7. p # x /\ Dominates(g, p, x) /\ Dominates(g, a, p)
  BY <1>3, <1>4, <1>6, ChildIs
<1>8. On(p)
  BY <1>3, <1>4, <1>6, <1>7, DominatesTransitive
<1>9. Above(p) \subseteq Above(x)
  BY <1>7, DominatesTransitive
<1>10. x \in Above(x) /\ x \notin Above(p)
  BY <1>3, <1>7, LiveLeast, DominatesSelf, DominatesAntisymmetric
<1>11. Above(p) \in F
  BY <1>6, <1>8
<1> QED BY <1>2, <1>3, <1>9, <1>10, <1>11

-----------------------------------------------------------------------------
(* Paths forward.                                                          *)
From(g, a) == ReachableAvoiding(g, {a}, {})

\* What is reached from a is the least closed set that holds a.
LEMMA FromLeast ==
    ASSUME NEW g, Routed(g), NEW a \in Blocks(g)
    PROVE  /\ From(g, a) \subseteq Blocks(g) /\ a \in From(g, a)
           /\ \A b \in From(g, a) : Succ(g, b) \subseteq From(g, a)
           /\ \A C : a \in C /\ (\A b \in C \cap From(g, a) : Succ(g, b) \subseteq C)
                  => From(g, a) \subseteq C
<1> DEFINE S == {a}
           R == ReachableAvoiding(g, S, {})
<1>1. /\ R \subseteq Blocks(g) \ {} /\ S \ {} \subseteq R
      /\ \A b \in R : Succ(g, b) \ {} \subseteq R
      /\ \A C : S \ {} \subseteq C /\ (\A b \in C \cap R : Succ(g, b) \ {} \subseteq C)
             => R \subseteq C
  <2>1. S \in SUBSET Blocks(g)
    OBVIOUS
  <2> HIDE DEF S
  <2> QED BY <2>1, ReachedLeast
<1>2. R = From(g, a)
  BY DEF From
<1> HIDE DEF R
<1>3. \A X : X \ {} = X
  OBVIOUS
<1> QED BY <1>1, <1>2, <1>3

\* Reaching is transitive, ...
LEMMA FromTransitive ==
    ASSUME NEW g, Routed(g), NEW a \in Blocks(g), NEW b \in From(g, a)
    PROVE  From(g, b) \subseteq From(g, a)
<1>1. b \in Blocks(g)
  BY FromLeast
<1>2. b \in From(g, a) /\ \A x \in From(g, a) \cap From(g, b) : Succ(g, x) \subseteq From(g, a)
  BY FromLeast
<1> QED BY <1>1, <1>2, FromLeast

\* A path to another block has a first step.
LEMMA FromFirst ==
    ASSUME NEW g, Routed(g), NEW a \in Blocks(g), NEW b \in From(g, a), b # a
    PROVE  \E t \in Succ(g, a) : b \in From(g, t)
<1> DEFINE C == {a} \cup UNION {From(g, t) : t \in Succ(g, a)}
<1>0. \A t \in Succ(g, a) : t \in Blocks(g)
  BY DEF Routed
<1>1. ASSUME NEW x \in C PROVE Succ(g, x) \subseteq C
  <2>1. CASE x = a
    BY <1>0, <2>1, FromLeast
  <2>2. CASE x # a
    <3>1. PICK t \in Succ(g, a) : x \in From(g, t)
      BY <2>2
    <3>2. Succ(g, x) \subseteq From(g, t)
      BY <1>0, <3>1, FromLeast
    <3> QED BY <3>2
  <2> QED BY <2>1, <2>2
<1>2. a \in C
  OBVIOUS
<1>3. From(g, a) \subseteq C
  <2> HIDE DEF C
  <2> QED BY <1>1, <1>2, FromLeast
<1> QED BY <1>3

\* ... a successor is reached, ...
LEMMA FromSucc ==
    ASSUME NEW g, Routed(g), NEW a \in Blocks(g), NEW t \in Succ(g, a)
    PROVE  From(g, t) \subseteq From(g, a)
BY FromLeast, FromTransitive

\* ... and what a live block reaches is live.
LEMMA FromLive ==
    ASSUME NEW g, Routed(g), NEW a \in Reachable(g)
    PROVE  From(g, a) \subseteq Reachable(g)
<1>1. a \in Blocks(g)
  BY LiveLeast
<1>2. \A b \in Reachable(g) \cap From(g, a) : Succ(g, b) \subseteq Reachable(g)
  BY LiveLeast
<1> QED BY <1>1, <1>2, FromLeast

\* From a dominator a path leads to the block.
LEMMA DominatorReaches ==
    ASSUME NEW g, Routed(g), NEW a, NEW b, Dominates(g, a, b)
    PROVE  b \in From(g, a)
<1> DEFINE C == Avoiding(g, a) \cup From(g, a)
<1>1. a \in Blocks(g) /\ b \in Reachable(g) /\ b \notin Avoiding(g, a)
  BY DominatesIs, LiveLeast
<1>2. Entry \in C
  BY <1>1, AvoidingLeast, FromLeast
<1>3. ASSUME NEW x \in C PROVE Succ(g, x) \subseteq C
  <2>1. CASE x \in From(g, a)
    BY <1>1, <2>1, FromLeast
  <2>2. CASE x \in Avoiding(g, a)
    <3>1. \A y \in Succ(g, x) : y # a => y \in Avoiding(g, a)
      BY <2>2, AvoidingLeast
    <3>2. a \in From(g, a)
      BY <1>1, FromLeast
    <3> QED BY <3>1, <3>2
  <2> QED BY <2>1, <2>2
<1>4. Reachable(g) \subseteq C
  <2> HIDE DEF C
  <2> QED BY <1>2, <1>3, LiveLeast
<1> QED BY <1>1, <1>4

-----------------------------------------------------------------------------
(* Dominance frontiers.                                                    *)
Frontiers(g) == [b \in Blocks(g) |-> DomFrontier(g, Dominance(g), b)]

\* The frontier of a live block: where its dominance ends.
LEMMA FrontIs ==
    ASSUME NEW g, Routed(g)
    PROVE  /\ Frontiers(g) \in [Blocks(g) -> SUBSET Blocks(g)]
           /\ \A a \in Reachable(g) : \A c : c \in Frontiers(g)[a] <=>
                 /\ \E p \in Reachable(g) : Dominates(g, a, p) /\ c \in Succ(g, p)
                 /\ ~Dominates(g, a, c) \/ a = c
           /\ \A a \in Blocks(g) \ Reachable(g) : Frontiers(g)[a] \cap Reachable(g) = {}
<1>1. ASSUME NEW a \in Blocks(g) PROVE Frontiers(g)[a] = DomFrontier(g, Dominance(g), a)
  BY DEF Frontiers
<1>2. \A b \in Blocks(g) : <<b, b>> \in Dominance(g) <=> b \in Reachable(g)
  BY DominatesIs, DominatesSelf DEF Dominates
<1>3. ASSUME NEW a \in Reachable(g)
      PROVE  \A c : c \in Frontiers(g)[a] <=>
                 /\ \E p \in Reachable(g) : Dominates(g, a, p) /\ c \in Succ(g, p)
                 /\ ~Dominates(g, a, c) \/ a = c
  <2>1. a \in Blocks(g)
    BY LiveLeast
  <2>2. Frontiers(g)[a] = {b \in UNION {Succ(g, p) : p \in {q \in Blocks(g) : Dominates(g, a, q)}} :
                          ~Dominates(g, a, b) \/ a = b}
    BY <1>1, <1>2, <2>1 DEF DomFrontier, Dominates, Succ
  <2>3. \A q : q \in Blocks(g) /\ Dominates(g, a, q) <=> q \in Reachable(g) /\ Dominates(g, a, q)
    BY LiveLeast, DominatesIs
  <2> QED BY <2>2, <2>3
<1>4. ASSUME NEW a \in Blocks(g) \ Reachable(g)
      PROVE  Frontiers(g)[a] = {b \in Succ(g, a) : b \notin Reachable(g) /\ Len(g.preds[b]) > 1}
  <2>1. \A b \in Succ(g, a) : b \in Blocks(g)
    BY DEF Routed
  <2>2. Frontiers(g)[a] = {b \in Succ(g, a) : ~(<<b, b>> \in Dominance(g)) /\ Len(g.preds[b]) > 1}
    BY <1>1, <1>2 DEF DomFrontier, Succ
  <2> QED BY <1>2, <2>1, <2>2
<1>5. Frontiers(g) \in [Blocks(g) -> SUBSET Blocks(g)]
  <2>1. ASSUME NEW a \in Blocks(g) PROVE DomFrontier(g, Dominance(g), a) \subseteq Blocks(g)
    <3>1. CASE a \in Reachable(g)
      <4>1. \A c \in Frontiers(g)[a] : c \in Blocks(g)
        BY <1>3, <3>1, LiveLeast DEF Routed
      <4> QED BY <1>1, <4>1
    <3>2. CASE a \notin Reachable(g)
      BY <1>1, <1>4, <3>2 DEF Routed
    <3> QED BY <3>1, <3>2
  <2> QED BY <2>1 DEF Frontiers
<1> QED BY <1>3, <1>4, <1>5

-----------------------------------------------------------------------------
(* Phis at the iterated dominance frontier of the blocks S.                *)
Placed(g, S) == UNION {Frontiers(g)[b] : b \in Closure(g, S, Frontiers(g))}

\* Some path leads from behind a block of S to the start of b.
Later(g, S, b) == \E s \in Reachable(g) \cap S : \E t \in Succ(g, s) : b \in From(g, t)

\* A block of S or of the frontier is above the start of b, or a phi is at it.
Above(g, S, b) ==
    b \in Placed(g, S) \/ \E y \in S \cup Placed(g, S) : y # b /\ Dominates(g, y, b)

\* The iterated frontier of S is closed, and the least such set.
LEMMA PlacedLeast ==
    ASSUME NEW g, Routed(g), NEW S \in SUBSET Blocks(g)
    PROVE  /\ Placed(g, S) \subseteq Blocks(g)
           /\ \A a \in S \cup Placed(g, S) : Frontiers(g)[a] \subseteq Placed(g, S)
           /\ \A C : S \subseteq C /\ (\A a \in C \cap Blocks(g) : Frontiers(g)[a] \subseteq C)
                  => \A y \in Placed(g, S) : \E a \in C \cap Blocks(g) : y \in Frontiers(g)[a]
<1> DEFINE next == Frontiers(g)
           K == Closure(g, S, next)
<1>1. next \in [Blocks(g) -> SUBSET Blocks(g)] /\ g.n \in Nat
  BY FrontIs DEF Routed
<1>2. K = Around(g, S, next)
  <2> HIDE DEF next
  <2> QED BY <1>1, ClosureIsAround
<1>3. Placed(g, S) = UNION {next[b] : b \in K}
  BY DEF Placed
<1> HIDE DEF K, next
<1>4. K \in SUBSET Blocks(g) /\ S \subseteq K
  BY <1>2 DEF Around
<1>5. Closed(K, next)
  <2>1. SUFFICES ASSUME NEW b \in K, NEW y \in next[b], NEW C \in SUBSET Blocks(g), S \subseteq C, Closed(C, next)
                 PROVE  y \in C
    BY <1>1, <1>2, <1>4 DEF Around, Closed
  <2>2. b \in C
    BY <1>2, <2>1 DEF Around
  <2> QED BY <2>1, <2>2 DEF Closed
<1>6. Placed(g, S) \subseteq K /\ Placed(g, S) \subseteq Blocks(g)
  BY <1>3, <1>4, <1>5 DEF Closed
<1>7. \A a \in S \cup Placed(g, S) : next[a] \subseteq Placed(g, S)
  BY <1>3, <1>4, <1>6
<1>8. ASSUME NEW C, S \subseteq C, \A a \in C \cap Blocks(g) : next[a] \subseteq C
      PROVE  \A y \in Placed(g, S) : \E a \in C \cap Blocks(g) : y \in next[a]
  <2>1. C \cap Blocks(g) \in SUBSET Blocks(g) /\ S \subseteq C \cap Blocks(g)
    BY <1>8
  <2>2. Closed(C \cap Blocks(g), next)
    BY <1>1, <1>8 DEF Closed
  <2>3. K \subseteq C
    BY <1>2, <2>1, <2>2 DEF Around
  <2> QED BY <1>3, <1>4, <1>8, <2>3
<1> QED BY <1>6, <1>7, <1>8 DEF next

\* Behind a block of S, or one with a phi, come blocks that are above by the same.
LEMMA AboveNext ==
    ASSUME NEW g, Routed(g), NEW S \in SUBSET Blocks(g), NEW x \in Reachable(g), NEW c \in Succ(g, x),
           NEW y \in S \cup Placed(g, S), Dominates(g, y, x)
    PROVE  Above(g, S, c)
<1>1. y \in Reachable(g)
  BY DominatesIs
<1>2. CASE Dominates(g, y, c) /\ y # c
  BY <1>2 DEF Above
<1>3. CASE ~(Dominates(g, y, c) /\ y # c)
  <2>1. c \in Frontiers(g)[y]
    BY <1>1, <1>3, FrontIs
  <2> QED BY <2>1, PlacedLeast DEF Above
<1> QED BY <1>2, <1>3

\* Where a path brings a block of S, S or its iterated frontier dominates, ...
LEMMA LaterIsAbove ==
    ASSUME NEW g, Routed(g), NEW S \in SUBSET Blocks(g), NEW b, Later(g, S, b)
    PROVE  Above(g, S, b)
<1>1. PICK s \in Reachable(g) \cap S : \E t \in Succ(g, s) : b \in From(g, t)
  BY DEF Later
<1>1t. PICK t \in Succ(g, s) : b \in From(g, t)
  BY <1>1
<1>2. t \in Reachable(g) /\ t \in Blocks(g)
  BY <1>1t, LiveLeast
<1> DEFINE C == {x \in Blocks(g) : Above(g, S, x)}
<1>3. Above(g, S, t)
  BY <1>1t, DominatesSelf, AboveNext
<1>4. ASSUME NEW x \in C \cap From(g, t) PROVE Succ(g, x) \subseteq C
  <2>1. x \in Reachable(g)
    BY <1>2, FromLive
  <2>2. PICK y \in S \cup Placed(g, S) : Dominates(g, y, x)
    BY <2>1, DominatesSelf DEF Above
  <2>3. \A c \in Succ(g, x) : Above(g, S, c)
    BY <2>1, <2>2, AboveNext
  <2> QED BY <2>1, <2>3, LiveLeast
<1>5. From(g, t) \subseteq C
  <2>1. t \in C
    BY <1>2, <1>3
  <2> HIDE DEF C
  <2> QED BY <1>2, <1>4, <2>1, FromLeast
<1> QED BY <1>1t, <1>5

\* ... a block of the frontier is on a path from S, ...
LEMMA PlacedIsLater ==
    ASSUME NEW g, Routed(g), NEW S \in SUBSET Blocks(g), NEW b \in Placed(g, S), b \in Reachable(g)
    PROVE  Later(g, S, b)
<1> DEFINE C == {x \in Blocks(g) : x \in Reachable(g) => x \in S \/ Later(g, S, x)}
<1>1. ASSUME NEW a \in C, NEW c \in Frontiers(g)[a], c \in Reachable(g) PROVE Later(g, S, c)
  <2>1. a \in Reachable(g)
    BY <1>1, FrontIs
  <2>2. PICK p \in Reachable(g) : Dominates(g, a, p) /\ c \in Succ(g, p)
    BY <1>1, <2>1, FrontIs
  <2>3. p \in From(g, a) /\ a \in Blocks(g) /\ p \in Blocks(g) /\ c \in Blocks(g)
    BY <2>1, <2>2, DominatorReaches, LiveLeast
  <2>4. CASE a \in S /\ p = a
    <3>1. c \in From(g, c)
      BY <2>3, FromLeast
    <3> QED BY <2>1, <2>2, <2>4, <3>1 DEF Later
  <2>5. CASE a \in S /\ p # a
    <3>1. PICK t \in Succ(g, a) : p \in From(g, t)
      BY <2>3, <2>5, FromFirst
    <3>2. t \in Blocks(g)
      BY <2>3 DEF Routed
    <3>3. c \in From(g, t)
      BY <2>2, <3>1, <3>2, FromLeast
    <3> QED BY <2>1, <2>5, <3>3 DEF Later
  <2>6. CASE a \notin S
    <3>1. PICK s \in Reachable(g) \cap S : \E t \in Succ(g, s) : a \in From(g, t)
      BY <1>1, <2>1, <2>6 DEF Later
    <3>1t. PICK t \in Succ(g, s) : a \in From(g, t)
      BY <3>1
    <3>2. t \in Blocks(g)
      BY <3>1t, LiveLeast DEF Routed
    <3>3. p \in From(g, t)
      BY <2>3, <3>1t, <3>2, FromTransitive
    <3>4. c \in From(g, t)
      BY <2>2, <3>2, <3>3, FromLeast
    <3> QED BY <3>1t, <3>4 DEF Later
  <2> QED BY <2>4, <2>5, <2>6
<1>2. S \subseteq C
  OBVIOUS
<1>3. \A a \in C : Frontiers(g)[a] \subseteq C
  BY <1>1, FrontIs
<1>4. PICK a \in C : b \in Frontiers(g)[a]
  <2> HIDE DEF C
  <2> QED BY <1>2, <1>3, PlacedLeast
<1> QED BY <1>1, <1>4

\* ... so is all that it dominates.
LEMMA AboveIsLater ==
    ASSUME NEW g, Routed(g), NEW S \in SUBSET Blocks(g), NEW b \in Reachable(g), Above(g, S, b)
    PROVE  Later(g, S, b)
<1>1. CASE b \in Placed(g, S)
  BY <1>1, PlacedIsLater
<1>2. CASE b \notin Placed(g, S)
  <2>1. PICK y \in S \cup Placed(g, S) : y # b /\ Dominates(g, y, b)
    BY <1>2 DEF Above
  <2>2. y \in Reachable(g) /\ y \in Blocks(g) /\ b \in From(g, y)
    BY <2>1, DominatesIs, LiveLeast, DominatorReaches
  <2>3. CASE y \in S
    <3>1. PICK t \in Succ(g, y) : b \in From(g, t)
      BY <2>1, <2>2, FromFirst
    <3> QED BY <2>2, <2>3, <3>1 DEF Later
  <2>4. CASE y \in Placed(g, S)
    <3>1. PICK s \in Reachable(g) \cap S : \E t \in Succ(g, s) : y \in From(g, t)
      BY <2>2, <2>4, PlacedIsLater DEF Later
    <3>1t. PICK t \in Succ(g, s) : y \in From(g, t)
      BY <3>1
    <3>2. t \in Blocks(g)
      BY <3>1t, LiveLeast DEF Routed
    <3>3. b \in From(g, t)
      BY <2>2, <3>1t, <3>2, FromTransitive
    <3> QED BY <3>1t, <3>3 DEF Later
  <2> QED BY <2>3, <2>4
<1> QED BY <1>1, <1>2

\* Where an edge ends without a phi, nothing has been defined between the parent
\* of that block and the block the edge comes from.
LEMMA NothingBetween ==
    ASSUME NEW g, Routed(g), NEW S \in SUBSET Blocks(g), NEW p \in Reachable(g), NEW c \in Succ(g, p),
           c \notin Placed(g, S), NEW a, Child(g, a, c)
    PROVE  /\ Dominates(g, a, p)
           /\ \A x : Dominates(g, a, x) /\ Dominates(g, x, p) /\ x # a => x \notin S \cup Placed(g, S)
<1>1. a # c /\ Dominates(g, a, c)
  BY ChildIs
<1>2. ASSUME NEW x \in S \cup Placed(g, S), Dominates(g, a, x), Dominates(g, x, p) PROVE x = a
  <2>1. x \in Reachable(g) /\ c \notin Frontiers(g)[x]
    BY <1>2, DominatesIs, PlacedLeast
  <2>2. Dominates(g, x, c) /\ x # c
    BY <1>2, <2>1, FrontIs
  <2>3. Dominates(g, x, a)
    BY <2>2, ChildIs
  <2> QED BY <1>2, <2>3, DominatesAntisymmetric
<1> QED BY <1>1, <1>2, DominatesBefore

\* An edge back to an entry without a phi starts where nothing has been defined.
LEMMA NothingBefore ==
    ASSUME NEW g, Routed(g), NEW S \in SUBSET Blocks(g), NEW p \in Reachable(g), Entry \in Succ(g, p),
           Entry \notin Placed(g, S), NEW x, Dominates(g, x, p)
    PROVE  x \notin S \cup Placed(g, S)
<1>1. SUFFICES ASSUME x \in S \cup Placed(g, S) PROVE FALSE
  OBVIOUS
<1>2. x \in Reachable(g) /\ Entry \notin Frontiers(g)[x]
  BY <1>1, DominatesIs, PlacedLeast
<1>3. Dominates(g, x, Entry) /\ x # Entry
  BY <1>2, FrontIs
<1>4. Dominates(g, Entry, x)
  BY <1>2, EntryDominates
<1> QED BY <1>3, <1>4, DominatesAntisymmetric

-----------------------------------------------------------------------------
(* The order of the blocks.  CminusfBuilder makes structured functions:    *)
(* the blocks have an order, r, in which every branch goes forward but     *)
(* those that a loop ends with; these go back to a block of J that         *)
(* dominates them, and that no conditional branch goes to.  Nothing goes   *)
(* back to the entry.                                                      *)

\* Block c of g, one of J, is branched to unconditionally only.
Plain(g, c, J) ==
    c \in J /\ c \in Blocks(g) /\ \A p \in Blocks(g) : g.term[p].kind = "cond" => c \notin Succ(g, p)

Ranked(g, r, J) ==
    \A b \in Blocks(g) :
        /\ \A c \in Succ(g, b) :
              \/ r[b] < r[c]
              \/ g.term[b] = JumpTerm(c) /\ b \notin Avoiding(g, c) /\ Plain(g, c, J)
        /\ Entry \notin Succ(g, b)
        /\ g.term[b].kind = "cond" => g.term[b].yes # g.term[b].no

\* The live successors of a block come later, or dominate it.
Ordered(g, r) ==
    \A b \in Reachable(g) : \A c \in Succ(g, b) : r[b] < r[c] \/ Dominates(g, c, b)

LEMMA RankedOrdered ==
    ASSUME NEW J, NEW g, Routed(g), NEW r, Ranked(g, r, J)
    PROVE  Ordered(g, r)
BY LiveLeast, DominatesIs DEF Ranked, Ordered

\* A live block other than the entry has a predecessor that it does not dominate.
LEMMA FirstArrival ==
    ASSUME NEW g, Routed(g), NEW b \in Reachable(g), b # Entry
    PROVE  \E p \in Reachable(g) : b \in Succ(g, p) /\ ~Dominates(g, b, p)
<1>1. SUFFICES ASSUME \A p \in Avoiding(g, b) : b \notin Succ(g, p) PROVE FALSE
  BY AvoidingLive, DominatesIs
<1>2. Reachable(g) \subseteq Avoiding(g, b)
  BY <1>1, AvoidingLeast, LiveLeast
<1> QED BY <1>2, AvoidingLeast

\* In such an order what dominates a block comes first.
LEMMA DominatorsFirst ==
    ASSUME NEW g, Routed(g), NEW r \in [Nat -> Nat], Ordered(g, r),
           NEW a, NEW b, Dominates(g, a, b), a # b
    PROVE  r[a] < r[b]
<1> DEFINE Below == {x \in Reachable(g) : x # a /\ Dominates(g, a, x) /\ r[x] <= r[a]}
           F == {0..r[x] : x \in Below}
<1>1. Reachable(g) \subseteq Blocks(g) /\ Blocks(g) \subseteq Nat /\ a \in Nat /\ b \in Nat /\ b \in Reachable(g)
  BY LiveLeast, DominatesIs DEF Blocks, Routed
<1>2. ASSUME Below # {} PROVE FALSE
  <2> DEFINE S == 0..r[a]
  <2>1. IsFiniteSet(S) /\ r[a] \in Nat
    BY <1>1, FS_Interval
  <2>2. \A x \in Below : x \in Nat /\ r[x] \in Nat /\ r[x] <= r[a]
    BY <1>1
  <2>3. F \in SUBSET (SUBSET S) /\ F # {}
    <3>1. \A x \in Below : 0..r[x] \in SUBSET S
      BY <2>1, <2>2
    <3> HIDE DEF S, Below
    <3> QED BY <1>2, <3>1
  <2> HIDE DEF S
  <2>4. PICK T \in F : \A U \in F : U \subseteq T => U = T
    <3> HIDE DEF F
    <3> QED BY <2>1, <2>3, HasSmallest
  <2>5. PICK x \in Below : T = 0..r[x]
    BY <2>4
  <2>6. \A y \in Below : r[x] <= r[y]
    <3>1. ASSUME NEW y \in Below, r[y] < r[x] PROVE FALSE
      <4>1. 0..r[y] \in F
        <5> HIDE DEF Below
        <5> QED BY <3>1
      <4>1a. 0..r[y] \subseteq 0..r[x]
        BY <2>2, <3>1
      <4>2. r[x] \in 0..r[x] /\ r[x] \notin 0..r[y]
        <5>1. r[x] \in Nat /\ r[y] \in Nat /\ r[y] < r[x]
          BY <2>2, <3>1
        <5> HIDE DEF Below
        <5> QED BY <5>1
      <4> QED BY <2>4, <2>5, <4>1, <4>1a, <4>2
    <3> QED BY <2>2, <3>1
  <2>7. x # Entry
    <3>1. x = Entry => Dominates(g, x, a)
      BY EntryDominates, DominatesIs
    <3> QED BY <3>1, DominatesAntisymmetric
  <2>8. PICK p \in Reachable(g) : x \in Succ(g, p) /\ ~Dominates(g, x, p)
    BY <2>7, FirstArrival
  <2>9. r[p] < r[x]
    BY <2>8 DEF Ordered
  <2>10. Dominates(g, a, p)
    BY <2>8, DominatesBefore
  <2>11. p # a
    BY <1>1, <2>2, <2>9
  <2>12. r[p] <= r[a]
    BY <1>1, <2>2, <2>9
  <2>13. p \in Below
    BY <2>10, <2>11, <2>12
  <2> QED BY <1>1, <2>2, <2>6, <2>9, <2>13
<1>3. ~(r[b] <= r[a])
  <2>1. b \notin Below
    BY <1>2
  <2> QED BY <1>1, <2>1
<1> QED BY <1>1, <1>3

\* A block with two successors has two different ones, and branches back to
\* none of them.
LEMMA TwoWay ==
    ASSUME NEW J, NEW g, Routed(g), NEW r \in [Nat -> Nat], Ranked(g, r, J),
           NEW b \in Reachable(g), g.term[b].kind = "cond"
    PROVE  /\ g.term[b].yes # g.term[b].no
           /\ \A c \in Succ(g, b) : ~Dominates(g, c, b)
<1>1. b \in Blocks(g) /\ Blocks(g) \subseteq Nat
  BY LiveLeast DEF Blocks
<1>2. ASSUME NEW c \in Succ(g, b), Dominates(g, c, b) PROVE FALSE
  <2>1. g.term[b] # JumpTerm(c)
    BY DEF JumpTerm
  <2>2. r[b] < r[c]
    BY <1>1, <2>1 DEF Ranked
  <2>3. c \in Nat /\ r[b] \in Nat /\ r[c] \in Nat
    BY <1>1 DEF Routed
  <2>4. c = b \/ r[c] < r[b]
    BY <1>2, RankedOrdered, DominatorsFirst
  <2> QED BY <2>2, <2>3, <2>4
<1> QED BY <1>1, <1>2 DEF Ranked

\* A function with such an order has no cycle of branches that go forward.
LEMMA NoForwardCycle ==
    ASSUME NEW g, Routed(g), NEW r \in [Nat -> Nat], Ordered(g, r), NEW b \in Reachable(g),
           NEW next, next = [x \in Blocks(g) |-> {c \in Succ(g, x) : <<c, x>> \notin Dominance(g)}]
    PROVE  b \notin Closure(g, next[b], next)
<1>1. next \in [Blocks(g) -> SUBSET Blocks(g)] /\ b \in Blocks(g)
  BY LiveLeast DEF Routed
<1>2. next[b] \in SUBSET Blocks(g)
  BY <1>1
<1> DEFINE C == {x \in Reachable(g) : r[b] < r[x]}
<1>3. Reachable(g) \subseteq Blocks(g) /\ Blocks(g) \subseteq Nat
  BY LiveLeast DEF Blocks
<1>4. ASSUME NEW x \in Reachable(g), NEW c \in next[x]
      PROVE  c \in Reachable(g) /\ r[x] < r[c] /\ r[x] \in Nat /\ r[c] \in Nat
  <2>1. c \in Succ(g, x) /\ ~Dominates(g, c, x)
    BY <1>3 DEF Dominates
  <2>2. c \in Reachable(g)
    BY <2>1, LiveLeast
  <2> QED BY <1>3, <2>1, <2>2 DEF Ordered
<1> HIDE DEF C
<1>5. next[b] \subseteq C
  BY <1>4 DEF C
<1>6. Closed(C, next)
  <2>1. ASSUME NEW x \in C, NEW c \in next[x] PROVE c \in C
    <3>1. x \in Reachable(g) /\ r[b] < r[x] /\ r[b] \in Nat
      BY <1>3 DEF C
    <3> QED BY <1>4, <3>1 DEF C
  <2> QED BY <2>1 DEF Closed
<1>7. C \in SUBSET Blocks(g) /\ b \notin C
  BY <1>3 DEF C
<1>8. Closure(g, next[b], next) = Around(g, next[b], next)
  BY <1>1, <1>2, ClosureIsAround DEF Routed
<1> QED BY <1>1, <1>5, <1>6, <1>7, <1>8 DEF Around

-----------------------------------------------------------------------------
(* How the graph grows.                                                    *)
Fresh(g, h) == Blocks(h) \ Blocks(g)

\* h is g with more blocks, which only block p of g branches to, if it was open.
Extends(g, h, p) ==
    /\ Routed(g) /\ Routed(h) /\ g.n <= h.n /\ p \in Blocks(g)
    /\ \A b \in Blocks(g) : h.term[b] = g.term[b] \/ (b = p /\ g.term[p] = Open /\ Succ(h, p) \subseteq Fresh(g, h))
    /\ \A f \in Fresh(g, h) : Succ(h, f) \subseteq Fresh(g, h)

LEMMA SameSucc ==
    ASSUME NEW g, NEW h, NEW b, h.term[b] = g.term[b]
    PROVE  Succ(h, b) = Succ(g, b)
BY DEF Succ, Targets

LEMMA SuccOfJump ==
    ASSUME NEW g, NEW b, NEW c, g.term[b] = JumpTerm(c)
    PROVE  Succ(g, b) = {c} /\ g.term[b].kind # "cond" /\ g.term[b] # Open
<1>1. Members(<<c>>) = {c}
  BY DEF Members
<1>2. Targets(g, b) = <<c>> /\ g.term[b].kind # "cond" /\ g.term[b] # Open
  BY DEF JumpTerm, Targets, Open
<1> QED BY <1>1, <1>2 DEF Succ

LEMMA SuccOfCond ==
    ASSUME NEW g, NEW b, NEW c, NEW d, NEW t, g.term[b] = CondTerm(t, c, d)
    PROVE  Succ(g, b) = {c, d} /\ g.term[b].yes = c /\ g.term[b].no = d
<1>1. Members(<<c, d>>) = {c, d}
  BY DEF Members
<1>2. Targets(g, b) = <<c, d>> /\ g.term[b].yes = c /\ g.term[b].no = d
  BY DEF CondTerm, Targets
<1> QED BY <1>1, <1>2 DEF Succ

LEMMA NoSucc ==
    ASSUME NEW g, NEW b, g.term[b] = Open \/ g.term[b] = RetTerm
    PROVE  Succ(g, b) = {} /\ g.term[b].kind # "cond"
<1>1. Members(<<>>) = {}
  BY DEF Members
<1>2. Targets(g, b) = <<>> /\ g.term[b].kind # "cond"
  BY DEF Open, RetTerm, Targets
<1> QED BY <1>1, <1>2 DEF Succ

\* What is reached without a is the same; new blocks are reached through p.
LEMMA ExtendAvoiding ==
    ASSUME NEW g, NEW h, NEW p, Extends(g, h, p), NEW a
    PROVE  Avoiding(h, a) \subseteq
               Avoiding(g, a) \cup (IF p \in Avoiding(g, a) THEN Fresh(g, h) ELSE {})
<1> DEFINE C == Avoiding(g, a) \cup (IF p \in Avoiding(g, a) THEN Fresh(g, h) ELSE {})
<1>1. Routed(g) /\ Routed(h)
  BY DEF Extends
<1>2. a # Entry => Entry \in C
  BY <1>1, AvoidingLeast
<1>3. ASSUME NEW b \in C, NEW c \in Succ(h, b), c # a
      PROVE  c \in C
  <2>1. CASE b \in Fresh(g, h)
    <3>1. b \notin Avoiding(g, a)
      BY <1>1, <2>1, AvoidingLeast DEF Fresh
    <3> QED BY <1>3, <2>1, <3>1 DEF Extends
  <2>2. CASE b \in Avoiding(g, a) /\ h.term[b] = g.term[b]
    BY <1>1, <1>3, <2>2, SameSucc, AvoidingLeast
  <2>3. CASE b \in Avoiding(g, a) /\ h.term[b] # g.term[b]
    <3>1. b \in Blocks(g)
      BY <1>1, <2>3, AvoidingLeast
    <3>2. b = p /\ Succ(h, p) \subseteq Fresh(g, h)
      BY <2>3, <3>1 DEF Extends
    <3> QED BY <1>3, <2>3, <3>2
  <2> QED BY <1>3, <2>1, <2>2, <2>3
<1> HIDE DEF C
<1>4. Avoiding(h, a) \subseteq C
  BY <1>1, <1>2, <1>3, AvoidingLeast
<1> QED BY <1>4 DEF C

\* And no new branch goes to an old block.
LEMMA ExtendPlain ==
    ASSUME NEW J, NEW g, NEW h, NEW p, Extends(g, h, p), NEW c, Plain(g, c, J)
    PROVE  Plain(h, c, J)
<1>1. c \in Blocks(g) /\ c \in Blocks(h) /\ c \notin Fresh(g, h)
  BY DEF Plain, Extends, Routed, Blocks, Fresh
<1>2. ASSUME NEW b \in Blocks(h), h.term[b].kind = "cond" PROVE c \notin Succ(h, b)
  <2>1. CASE b \in Fresh(g, h)
    BY <1>1, <2>1 DEF Extends
  <2>2. CASE b \in Blocks(g)
    BY <1>1, <1>2, <2>2, SameSucc DEF Extends, Plain
  <2> QED BY <2>1, <2>2 DEF Fresh
<1> QED BY <1>1, <1>2 DEF Plain

\* The order with the new blocks right behind p, in the order o.
Inserted(g, h, p, r, m, o) ==
    [x \in Nat |-> IF x \in Fresh(g, h) THEN r[p] + o[x] ELSE IF r[x] > r[p] THEN r[x] + m ELSE r[x]]

\* It is one if o is one of the new blocks.
LEMMA ExtendRanked ==
    ASSUME NEW J, NEW g, NEW h, NEW p, Extends(g, h, p), NEW r \in [Nat -> Nat], Ranked(g, r, J),
           NEW m \in Nat, NEW o \in [Fresh(g, h) -> 1..m],
           \A f \in Fresh(g, h) : \A c \in Succ(h, f) : o[f] < o[c],
           \A f \in Fresh(g, h) \cup {p} : h.term[f].kind = "cond" => h.term[f].yes # h.term[f].no
    PROVE  LET q == Inserted(g, h, p, r, m, o)
           IN  /\ q \in [Nat -> Nat] /\ Ranked(h, q, J)
               /\ \A f \in Fresh(g, h) : q[f] = r[p] + o[f]
               /\ \A f \in Fresh(g, h) : \A x \in Blocks(g) : r[p] < r[x] => q[f] < q[x]
               /\ \A x, y \in Blocks(g) : r[x] < r[y] => q[x] < q[y]
<1> DEFINE q == Inserted(g, h, p, r, m, o)
<1>1. /\ Routed(g) /\ Routed(h) /\ Blocks(g) \subseteq Nat /\ Blocks(h) \subseteq Nat /\ p \in Nat
      /\ Blocks(h) = Blocks(g) \cup Fresh(g, h) /\ Fresh(g, h) \cap Blocks(g) = {}
      /\ Blocks(g) \subseteq Blocks(h) /\ Fresh(g, h) \subseteq Nat
  BY DEF Extends, Routed, Blocks, Fresh
<1>2. /\ \A f \in Fresh(g, h) : q[f] = r[p] + o[f] /\ o[f] \in 1..m
      /\ \A x \in Blocks(g) : q[x] = IF r[x] > r[p] THEN r[x] + m ELSE r[x]
  BY <1>1 DEF Inserted
<1>3. q \in [Nat -> Nat]
  <2>1. ASSUME NEW x \in Nat
        PROVE  (IF x \in Fresh(g, h) THEN r[p] + o[x] ELSE IF r[x] > r[p] THEN r[x] + m ELSE r[x]) \in Nat
    BY <1>1
  <2> QED BY <2>1 DEF Inserted
<1> HIDE DEF q
<1>4. /\ \A f \in Fresh(g, h) : \A x \in Blocks(g) : r[p] < r[x] => q[f] < q[x]
      /\ \A x, y \in Blocks(g) : r[x] < r[y] => q[x] < q[y]
      /\ \A f \in Fresh(g, h) : q[p] < q[f]
  BY <1>1, <1>2 DEF Extends
<1>5. ASSUME NEW b \in Blocks(h), NEW c \in Succ(h, b)
      PROVE  q[b] < q[c] \/ (h.term[b] = JumpTerm(c) /\ b \notin Avoiding(h, c) /\ Plain(h, c, J))
  <2>1. CASE b \in Fresh(g, h)
    <3>1. c \in Fresh(g, h) /\ o[b] < o[c]
      BY <1>5, <2>1 DEF Extends
    <3> QED BY <1>1, <1>2, <2>1, <3>1
  <2>2. CASE b \in Blocks(g) /\ h.term[b] = g.term[b]
    <3>1. c \in Succ(g, b) /\ c \in Blocks(g)
      BY <1>1, <1>5, <2>2, SameSucc DEF Routed
    <3>2. CASE r[b] < r[c]
      BY <1>4, <2>2, <3>1, <3>2
    <3>3. CASE g.term[b] = JumpTerm(c) /\ b \notin Avoiding(g, c) /\ Plain(g, c, J)
      <4>1. b \notin Avoiding(h, c) /\ Plain(h, c, J)
        BY <1>1, <2>2, <3>3, ExtendAvoiding, ExtendPlain
      <4> QED BY <2>2, <3>3, <4>1
    <3> QED BY <2>2, <3>1, <3>2, <3>3 DEF Ranked
  <2>3. CASE b \in Blocks(g) /\ h.term[b] # g.term[b]
    <3>1. b = p /\ c \in Fresh(g, h)
      BY <1>5, <2>3 DEF Extends
    <3> QED BY <1>4, <3>1
  <2> QED BY <1>1, <2>1, <2>2, <2>3
<1>6. ASSUME NEW b \in Blocks(h), h.term[b].kind = "cond"
      PROVE  h.term[b].yes # h.term[b].no
  <2>1. CASE b \in Fresh(g, h) \cup {p}
    BY <1>6, <2>1
  <2>2. CASE b \notin Fresh(g, h) \cup {p}
    <3>1. b \in Blocks(g) /\ h.term[b] = g.term[b]
      BY <1>1, <2>2 DEF Extends
    <3> QED BY <1>6, <3>1 DEF Ranked
  <2> QED BY <2>1, <2>2
<1>7. ASSUME NEW b \in Blocks(h) PROVE Entry \notin Succ(h, b)
  <2>1. Entry \in Blocks(g) /\ Entry \notin Fresh(g, h)
    BY <1>1 DEF Routed
  <2>2. CASE b \in Fresh(g, h)
    BY <2>1, <2>2 DEF Extends
  <2>3. CASE b \in Blocks(g)
    BY <2>1, <2>3, SameSucc DEF Extends, Ranked
  <2> QED BY <1>1, <2>2, <2>3
<1> QED BY <1>2, <1>3, <1>4, <1>5, <1>6, <1>7 DEF q, Ranked

\* A jump from an open block p to an open block ahead, or back to a block that
\* dominates p.
LEMMA JumpAvoiding ==
    ASSUME NEW g, NEW h, Routed(g), Routed(h), NEW p \in Blocks(g), NEW z \in Blocks(g), h.n = g.n,
           g.term[p] = Open, h.term[p] = JumpTerm(z),
           \A b \in Blocks(g) : b # p => h.term[b] = g.term[b],
           (z # p /\ g.term[z] = Open) \/ p \notin Avoiding(g, z), NEW a
    PROVE  Avoiding(h, a) \subseteq
               Avoiding(g, a) \cup (IF p \in Avoiding(g, a) /\ g.term[z] = Open THEN {z} ELSE {})
<1> DEFINE C == Avoiding(g, a) \cup (IF p \in Avoiding(g, a) /\ g.term[z] = Open THEN {z} ELSE {})
<1>1. a # Entry => Entry \in C
  BY AvoidingLeast
<1>2. ASSUME NEW b \in C, NEW c \in Succ(h, b), c # a
      PROVE  c \in C
  <2>1. Succ(h, p) = {z}
    BY SuccOfJump
  <2>2. b \in Blocks(g)
    BY AvoidingLeast
  <2>3. CASE b # p /\ b \in Avoiding(g, a)
    <3>1. c \in Succ(g, b)
      BY <1>2, <2>2, <2>3, SameSucc
    <3> QED BY <1>2, <2>3, <3>1, AvoidingLeast
  <2>4. CASE b # p /\ b \notin Avoiding(g, a)
    <3>1. b = z /\ g.term[z] = Open
      BY <2>4
    <3>2. Succ(h, b) = {}
      BY <2>2, <2>4, <3>1, NoSucc
    <3> QED BY <1>2, <3>2
  <2>5. CASE b = p
    <3>1. c = z
      BY <1>2, <2>1, <2>5
    <3>2. CASE g.term[z] = Open
      BY <2>5, <3>1, <3>2
    <3>3. CASE g.term[z] # Open
      <4>1. p \in Avoiding(g, a) /\ p \notin Avoiding(g, z)
        BY <2>5, <3>3
      <4>2. p \in Reachable(g)
        BY <4>1, AvoidingLive
      <4>3. z \in Reachable(g)
        <5>1. z \notin Reachable(g) => Reachable(g) \subseteq Avoiding(g, z)
          <6>1. ASSUME z \notin Reachable(g) PROVE Reachable(g) \subseteq Avoiding(g, z)
            <7>1. Entry \in Reachable(g)
              BY LiveLeast
            <7>2. Entry \in Avoiding(g, z)
              BY <6>1, <7>1, AvoidingLeast
            <7>3. \A x \in Avoiding(g, z) : Succ(g, x) \subseteq Avoiding(g, z)
              BY <6>1, AvoidingLeast, AvoidingLive, LiveLeast
            <7> QED BY <7>2, <7>3, LiveLeast
          <6> QED BY <6>1
        <5> QED BY <4>1, <4>2, <5>1
      <4>4. Dominates(g, z, p)
        BY <4>1, <4>2, <4>3, DominatesIs
      <4>5. CASE z \in Avoiding(g, a)
        BY <3>1, <4>5
      <4>6. CASE z \notin Avoiding(g, a)
        <5>1. Dominates(g, a, z) \/ a \notin Reachable(g)
          BY <4>3, <4>6, DominatesIs
        <5>2. CASE a \in Reachable(g)
          <6>1. Dominates(g, a, p)
            BY <4>4, <5>1, <5>2, DominatesTransitive
          <6> QED BY <4>1, <6>1, DominatesIs
        <5>3. CASE a \notin Reachable(g)
          <6>1. Entry \in Reachable(g)
            BY LiveLeast
          <6>2. Entry \in Avoiding(g, a) /\ \A x \in Avoiding(g, a) : Succ(g, x) \subseteq Avoiding(g, a)
            BY <5>3, <6>1, AvoidingLeast, AvoidingLive, LiveLeast
          <6>3. Reachable(g) \subseteq Avoiding(g, a)
            BY <6>2, LiveLeast
          <6> QED BY <4>3, <4>6, <6>3
        <5> QED BY <5>2, <5>3
      <4> QED BY <4>5, <4>6
    <3> QED BY <3>2, <3>3
  <2> QED BY <2>3, <2>4, <2>5
<1> HIDE DEF C
<1>3. Avoiding(h, a) \subseteq C
  BY <1>1, <1>2, AvoidingLeast
<1> QED BY <1>3 DEF C

LEMMA JumpRanked ==
    ASSUME NEW J, NEW g, NEW h, Routed(g), Routed(h), NEW p \in Blocks(g), NEW z \in Blocks(g), h.n = g.n,
           g.term[p] = Open, h.term[p] = JumpTerm(z),
           \A b \in Blocks(g) : b # p => h.term[b] = g.term[b],
           NEW r, Ranked(g, r, J), z # Entry,
           (z # p /\ g.term[z] = Open /\ r[p] < r[z]) \/ (p \notin Avoiding(g, z) /\ Plain(g, z, J))
    PROVE  Ranked(h, r, J)
<1>1. Blocks(h) = Blocks(g)
  BY DEF Blocks
<1>0. ASSUME NEW c, Plain(g, c, J) PROVE Plain(h, c, J)
  <2>1. h.term[p].kind # "cond"
    BY DEF JumpTerm
  <2> QED BY <1>0, <1>1, <2>1, SameSucc DEF Plain
<1>2. ASSUME NEW b \in Blocks(g), b # p
      PROVE  /\ \A c \in Succ(h, b) : r[b] < r[c] \/ (h.term[b] = JumpTerm(c) /\ b \notin Avoiding(h, c)
                                                                   /\ Plain(h, c, J))
             /\ Entry \notin Succ(h, b)
             /\ h.term[b].kind = "cond" => h.term[b].yes # h.term[b].no
  <2>1. h.term[b] = g.term[b] /\ Succ(h, b) = Succ(g, b)
    BY <1>2, SameSucc
  <2>2. ASSUME NEW c \in Succ(g, b), ~(r[b] < r[c])
        PROVE  h.term[b] = JumpTerm(c) /\ b \notin Avoiding(h, c) /\ Plain(h, c, J)
    <3>1. g.term[b] = JumpTerm(c) /\ b \notin Avoiding(g, c) /\ Plain(h, c, J)
      BY <1>0, <2>2 DEF Ranked
    <3>2. g.term[b] # Open
      BY <3>1 DEF JumpTerm, Open
    <3>3. Avoiding(h, c) \subseteq
              Avoiding(g, c) \cup (IF p \in Avoiding(g, c) /\ g.term[z] = Open THEN {z} ELSE {})
      BY JumpAvoiding
    <3> QED BY <2>1, <3>1, <3>2, <3>3
  <2> QED BY <2>1, <2>2 DEF Ranked
<1>3. /\ \A c \in Succ(h, p) : r[p] < r[c] \/ (h.term[p] = JumpTerm(c) /\ p \notin Avoiding(h, c)
                                                             /\ Plain(h, c, J))
      /\ Entry \notin Succ(h, p)
      /\ h.term[p].kind # "cond"
  <2>0. h.term[p].kind # "cond"
    BY DEF JumpTerm
  <2>1. Succ(h, p) = {z} /\ h.term[p].kind # "cond"
    BY <2>0, SuccOfJump
  <2>2. CASE p \notin Avoiding(g, z) /\ Plain(g, z, J)
    <3>1. Avoiding(h, z) \subseteq
              Avoiding(g, z) \cup (IF p \in Avoiding(g, z) /\ g.term[z] = Open THEN {z} ELSE {})
      BY <2>2, JumpAvoiding
    <3> QED BY <1>0, <2>1, <2>2, <3>1
  <2> QED BY <2>1, <2>2
<1> QED BY <1>1, <1>2, <1>3 DEF Ranked

-----------------------------------------------------------------------------
(* The graphs of the builder's steps.                                      *)

LEMMA SoundRouted ==
    ASSUME NEW T, NEW I, NEW g, Sound(g, T, I), Entry \in Blocks(g)
    PROVE  Routed(g)
BY DEF Sound, Shaped, Graphs, SuccsAreTargets, Succ, Routed

\* h extends g at p, with its new blocks in the order o.
InOrder(g, h, p, o) ==
    /\ Extends(g, h, p)
    /\ o \in [Fresh(g, h) -> 1..(h.n - g.n)]
    /\ \A f \in Fresh(g, h) : \A c \in Succ(h, f) : o[f] < o[c]
    /\ \A f \in Fresh(g, h) \cup {p} : h.term[f].kind = "cond" => h.term[f].yes # h.term[f].no

ByNumber(g, h) == [f \in Fresh(g, h) |-> f - g.n]

LEMMA FreshIs ==
    ASSUME NEW g, NEW h, g.n \in Nat, h.n \in Nat, g.n <= h.n
    PROVE  /\ Fresh(g, h) = (g.n + 1)..h.n /\ Blocks(g) \subseteq Blocks(h)
           /\ ByNumber(g, h) \in [Fresh(g, h) -> 1..(h.n - g.n)]
           /\ \A f \in Fresh(g, h) : ByNumber(g, h)[f] = f - g.n
BY DEF Fresh, Blocks, ByNumber

\* No new blocks, and a terminator without targets or none.
LEMMA SameInOrder ==
    ASSUME NEW J, NEW g, NEW h, NEW p \in Blocks(g), Routed(g), Routed(h), h.n = g.n,
           SameTerms(g, h, Blocks(g) \ {p}),
           h.term[p] = g.term[p] \/ (g.term[p] = Open /\ h.term[p] = RetTerm), 
           NEW r, Ranked(g, r, J)
    PROVE  InOrder(g, h, p, ByNumber(g, h))
<1>1. g.n \in Nat /\ Fresh(g, h) = {} /\ ByNumber(g, h) \in [Fresh(g, h) -> 1..(h.n - g.n)]
  <2>1. g.n \in Nat /\ h.n \in Nat /\ g.n <= h.n
    BY DEF Routed
  <2>2. Fresh(g, h) = {}
    BY DEF Fresh, Blocks
  <2> QED BY <2>1, <2>2, FreshIs
<1>2. \A b \in Blocks(g) : h.term[b] = g.term[b] \/ (b = p /\ g.term[p] = Open /\ Succ(h, p) \subseteq Fresh(g, h))
  BY NoSucc DEF SameTerms
<1>3. h.term[p].kind = "cond" => h.term[p].yes # h.term[p].no
  BY NoSucc DEF Ranked
<1> QED BY <1>1, <1>2, <1>3 DEF InOrder, Extends

\* An index check, or none.
LEMMA IndexedInOrder ==
    ASSUME NEW J, NEW g, Sound(g, Tests, Instrs), Entry \in Blocks(g), NEW b \in OpenBlocks(g),
           NEW k \in Nat, NEW indexed \in BOOLEAN, NEW r, Ranked(g, r, J)
    PROVE  LET h  == Indexed(g, b, k, indexed)
               at == BlockBehind(g, b, indexed)
           IN  /\ InOrder(g, h, b, ByNumber(g, h)) /\ at \in {b} \cup Fresh(g, h)
               /\ Entry \in Blocks(h)
<1> DEFINE h  == Indexed(g, b, k, indexed)
           at == BlockBehind(g, b, indexed)
<1>1. /\ Sound(h, Tests, Instrs) /\ g.n \in Nat /\ h.n \in Nat /\ g.n <= h.n
      /\ at \in OpenBlocks(h) /\ (at = b \/ at \notin 1..g.n)
      /\ indexed => Split(g, h, b, k)
      /\ ~indexed => h = g
  <2>1. ~indexed => h = g
    BY DEF Indexed
  <2> HIDE DEF h, at
  <2> QED BY <2>1, IndexedSound DEF h, at
<1> HIDE DEF h, at
<1>2. Entry \in Blocks(h) /\ b \in Blocks(g) /\ b \in 1..g.n
  BY <1>1 DEF Blocks, OpenBlocks
<1>3. Routed(g) /\ Routed(h)
  BY <1>1, <1>2, SoundRouted
<1>4. at \in {b} \cup Fresh(g, h)
  BY <1>1 DEF OpenBlocks, Fresh, Blocks
<1>5. CASE ~indexed
  <2>1. SameTerms(g, h, Blocks(g) \ {b}) /\ h.term[b] = g.term[b] /\ h.n = g.n
    BY <1>1, <1>5 DEF SameTerms
  <2>2. InOrder(g, h, b, ByNumber(g, h))
    BY <1>2, <1>3, <2>1, SameInOrder
  <2> QED BY <1>2, <1>4, <2>2 DEF h, at
<1>6. CASE indexed
  <2> DEFINE error == g.n + 1
             end   == g.n + 2
             test  == IndexTest(k)
  <2>1. /\ h.n = end /\ SameTerms(g, h, Blocks(g) \ {b})
        /\ h.term[b] = CondTerm(test, end, error) /\ h.term[error] = JumpTerm(end)
    BY <1>1, <1>6 DEF Split
  <2>2. /\ Fresh(g, h) = {error, end} /\ ByNumber(g, h) \in [Fresh(g, h) -> 1..(h.n - g.n)]
        /\ ByNumber(g, h)[error] = 1 /\ ByNumber(g, h)[end] = 2 /\ error # end
    BY <1>1, <2>1, FreshIs
  <2>3. at = end
    BY <1>6 DEF at, BlockBehind
  <2>4. h.term[end] = Open
    BY <1>1, <2>3 DEF OpenBlocks
  <2> HIDE DEF error, end, test
  <2>5. /\ Succ(h, b) = {end, error} /\ h.term[b].yes = end /\ h.term[b].no = error
    BY <2>1, SuccOfCond DEF CondTerm
  <2>6. Succ(h, error) = {end} /\ h.term[error].kind # "cond"
    BY <2>1, SuccOfJump
  <2>7. Succ(h, end) = {} /\ h.term[end].kind # "cond"
    BY <2>4, NoSucc
  <2>8. g.term[b] = Open
    BY DEF OpenBlocks
  <2>9. Extends(g, h, b)
    <3>1. \A x \in Blocks(g) : h.term[x] = g.term[x] \/ (x = b /\ g.term[b] = Open /\ Succ(h, b) \subseteq Fresh(g, h))
      BY <2>1, <2>2, <2>5, <2>8 DEF SameTerms
    <3>2. \A f \in Fresh(g, h) : Succ(h, f) \subseteq Fresh(g, h)
      BY <2>2, <2>6, <2>7
    <3> QED BY <1>1, <1>2, <1>3, <3>1, <3>2 DEF Extends
  <2>10. \A f \in Fresh(g, h) : \A c \in Succ(h, f) : ByNumber(g, h)[f] < ByNumber(g, h)[c]
    BY <2>2, <2>6, <2>7
  <2>11. \A f \in Fresh(g, h) \cup {b} : h.term[f].kind = "cond" => h.term[f].yes # h.term[f].no
    BY <2>2, <2>5, <2>6, <2>7
  <2>12. InOrder(g, h, b, ByNumber(g, h))
    BY <2>2, <2>9, <2>10, <2>11 DEF InOrder
  <2> QED BY <1>2, <1>4, <2>12 DEF h, at
<1> QED BY <1>5, <1>6

\* A branch to two new blocks; the new blocks are open, and in any order.
LEMMA BranchInOrder ==
    ASSUME NEW g, NEW h, Routed(g), Routed(h), g.n <= h.n, NEW p \in Blocks(g), g.term[p] = Open,
           SameTerms(g, h, Blocks(g) \ {p}), \A f \in Fresh(g, h) : h.term[f] = Open,
           NEW t, h.term[p] = CondTerm(t, g.n + 1, g.n + 2), g.n + 2 <= h.n,
           NEW o \in [Fresh(g, h) -> 1..(h.n - g.n)]
    PROVE  InOrder(g, h, p, o)
<1>1. g.n \in Nat /\ h.n \in Nat /\ Fresh(g, h) = (g.n + 1)..h.n
  BY FreshIs DEF Routed
<1> DEFINE y == g.n + 1
           z == g.n + 2
<1>2. y \in Fresh(g, h) /\ z \in Fresh(g, h) /\ y # z
  BY <1>1
<1>3. h.term[p] = CondTerm(t, y, z)
  OBVIOUS
<1> HIDE DEF y, z
<1>4. Succ(h, p) = {y, z} /\ h.term[p].yes = y /\ h.term[p].no = z
  BY <1>3, SuccOfCond DEF CondTerm
<1>5. \A f \in Fresh(g, h) : Succ(h, f) = {} /\ h.term[f].kind # "cond"
  BY NoSucc
<1>6. Extends(g, h, p)
  <2>1. \A x \in Blocks(g) : h.term[x] = g.term[x] \/ (x = p /\ g.term[p] = Open /\ Succ(h, p) \subseteq Fresh(g, h))
    BY <1>2, <1>4 DEF SameTerms
  <2> QED BY <1>5, <2>1 DEF Extends
<1> QED BY <1>1, <1>2, <1>4, <1>5, <1>6 DEF InOrder

LEMMA IfInOrder ==
    ASSUME NEW g, Sound(g, Tests, Instrs), Entry \in Blocks(g), NEW p \in OpenBlocks(g), NEW k \in Nat
    PROVE  LET h == AddCondJump(AddBlock(AddBlock(g)), p, CondTest(k), g.n + 1, g.n + 2)
           IN  InOrder(g, h, p, ByNumber(g, h)) /\ g.n \in Nat /\ h.n = g.n + 2
<1> DEFINE a == AddBlock(AddBlock(g))
           h == AddCondJump(a, p, CondTest(k), g.n + 1, g.n + 2)
<1>1. /\ Sound(a, Tests, Instrs) /\ g.n \in Nat /\ a.n = g.n + 2
      /\ OpenBlocks(a) = OpenBlocks(g) \cup {g.n + 1, g.n + 2}
      /\ SameTerms(g, a, Blocks(g))
  BY TwoBlocks
<1> HIDE DEF a
<1>2. p \in OpenBlocks(a) /\ g.n + 1 \in Blocks(a) /\ g.n + 2 \in Blocks(a) /\ CondTest(k) \in Tests
  BY <1>1 DEF Blocks, CondTest, Tests
<1>3. /\ Sound(h, Tests, Instrs) /\ h.n = a.n /\ OpenBlocks(h) = OpenBlocks(a) \ {p}
      /\ Ended(a, h, p, CondTerm(CondTest(k), g.n + 1, g.n + 2))
  BY <1>1, <1>2, AddCondJumpSound
<1> HIDE DEF h
<1>4. /\ p \in Blocks(g) /\ g.term[p] = Open /\ Blocks(g) = 1..g.n /\ Blocks(a) = 1..(g.n + 2)
      /\ Entry \in Blocks(h) /\ Fresh(g, h) = {g.n + 1, g.n + 2} /\ p \notin Fresh(g, h)
  BY <1>1, <1>3 DEF OpenBlocks, Blocks, Fresh
<1>5. Routed(g) /\ Routed(h)
  BY <1>3, <1>4, SoundRouted
<1>6. SameTerms(g, h, Blocks(g) \ {p}) /\ h.term[p] = CondTerm(CondTest(k), g.n + 1, g.n + 2)
  BY <1>1, <1>3, <1>4 DEF SameTerms, Ended
<1>7. \A f \in Fresh(g, h) : h.term[f] = Open
  BY <1>1, <1>3, <1>4 DEF OpenBlocks
<1>8. g.n <= h.n /\ g.n + 2 <= h.n
  BY <1>1, <1>3
<1>9. ByNumber(g, h) \in [Fresh(g, h) -> 1..(h.n - g.n)]
  BY <1>1, <1>3, <1>8, FreshIs
<1>10. InOrder(g, h, p, ByNumber(g, h))
  BY <1>4, <1>5, <1>6, <1>7, <1>8, <1>9, BranchInOrder
<1> QED BY <1>1, <1>3, <1>10 DEF h, a

\* The else branch is visited first.
ElseFirst(g, h) ==
    [f \in Fresh(g, h) |-> IF f = g.n + 1 THEN 2 ELSE IF f = g.n + 2 THEN 1 ELSE f - g.n]

LEMMA IfElseInOrder ==
    ASSUME NEW g, Sound(g, Tests, Instrs), Entry \in Blocks(g), NEW p \in OpenBlocks(g), NEW k \in Nat
    PROVE  LET h == AddCondJump(AddBlock(AddBlock(AddBlock(g))), p, CondTest(k), g.n + 1, g.n + 2)
           IN  /\ InOrder(g, h, p, ElseFirst(g, h)) /\ g.n \in Nat /\ h.n = g.n + 3
               /\ ElseFirst(g, h)[g.n + 2] = 1 /\ ElseFirst(g, h)[g.n + 1] = 2
               /\ ElseFirst(g, h)[g.n + 3] = 3
<1> DEFINE a == AddBlock(AddBlock(AddBlock(g)))
           h == AddCondJump(a, p, CondTest(k), g.n + 1, g.n + 2)
<1>1. /\ Sound(a, Tests, Instrs) /\ g.n \in Nat /\ a.n = g.n + 3
      /\ OpenBlocks(a) = OpenBlocks(g) \cup {g.n + 1, g.n + 2, g.n + 3}
      /\ SameTerms(g, a, Blocks(g))
  BY ThreeBlocks
<1> HIDE DEF a
<1>2. p \in OpenBlocks(a) /\ g.n + 1 \in Blocks(a) /\ g.n + 2 \in Blocks(a) /\ CondTest(k) \in Tests
  BY <1>1 DEF Blocks, CondTest, Tests
<1>3. /\ Sound(h, Tests, Instrs) /\ h.n = a.n /\ OpenBlocks(h) = OpenBlocks(a) \ {p}
      /\ Ended(a, h, p, CondTerm(CondTest(k), g.n + 1, g.n + 2))
  BY <1>1, <1>2, AddCondJumpSound
<1> HIDE DEF h
<1>4. /\ p \in Blocks(g) /\ g.term[p] = Open /\ Blocks(g) = 1..g.n /\ Blocks(a) = 1..(g.n + 3)
      /\ Entry \in Blocks(h) /\ Fresh(g, h) = {g.n + 1, g.n + 2, g.n + 3} /\ p \notin Fresh(g, h)
  BY <1>1, <1>3 DEF OpenBlocks, Blocks, Fresh
<1>5. Routed(g) /\ Routed(h)
  BY <1>3, <1>4, SoundRouted
<1>6. SameTerms(g, h, Blocks(g) \ {p}) /\ h.term[p] = CondTerm(CondTest(k), g.n + 1, g.n + 2)
  BY <1>1, <1>3, <1>4 DEF SameTerms, Ended
<1>7. \A f \in Fresh(g, h) : h.term[f] = Open
  BY <1>1, <1>3, <1>4 DEF OpenBlocks
<1>8. g.n <= h.n /\ g.n + 2 <= h.n
  BY <1>1, <1>3
<1>9. ElseFirst(g, h)[g.n + 2] = 1 /\ ElseFirst(g, h)[g.n + 1] = 2 /\ ElseFirst(g, h)[g.n + 3] = 3
  BY <1>1, <1>4 DEF ElseFirst
<1>10. ElseFirst(g, h) \in [Fresh(g, h) -> 1..(h.n - g.n)]
  <2> DEFINE o == ElseFirst(g, h)
  <2>1. h.n - g.n = 3 /\ \A f \in Fresh(g, h) : o[f] \in 1..3
    BY <1>1, <1>3, <1>4, <1>9
  <2>2. o = [f \in Fresh(g, h) |-> o[f]]
    BY DEF ElseFirst
  <2> HIDE DEF o
  <2>3. o \in [Fresh(g, h) -> 1..3]
    BY <2>1, <2>2
  <2> QED BY <2>1, <2>3 DEF o
<1>11. InOrder(g, h, p, ElseFirst(g, h))
  BY <1>4, <1>5, <1>6, <1>7, <1>8, <1>10, BranchInOrder
<1> QED BY <1>1, <1>3, <1>9, <1>11 DEF h, a

\* A loop comes in the order condition, check, body, and the block behind.
LoopOrder(g, h) ==
    [f \in Fresh(g, h) |->
        IF f = g.n + 1 THEN 1
        ELSE IF f = g.n + 2 \/ f = g.n + 3 THEN h.n - g.n - 3 + (f - g.n) ELSE f - g.n - 2]

LEMMA LoopInOrder ==
    ASSUME NEW J, NEW g, NEW h, Routed(g), Routed(h), NEW p \in Blocks(g), NEW k, NEW indexed \in BOOLEAN,
           Looped(g, h, p, k, indexed), NEW r, Ranked(g, r, J), g.n + 1 \in J
    PROVE  /\ InOrder(g, h, p, LoopOrder(g, h))
           /\ LoopOrder(g, h)[g.n + 2] < LoopOrder(g, h)[g.n + 3]
           /\ Avoiding(h, g.n + 1) \subseteq Blocks(g) /\ Plain(h, g.n + 1, J)
<1> DEFINE judge == g.n + 1
           body  == g.n + 2
           out   == g.n + 3
           error == g.n + 4
           end   == g.n + 5
           o     == LoopOrder(g, h)
           test  == CondTest(k)
           itest == IndexTest(k)
<1>1. /\ g.n \in Nat /\ h.n \in Nat /\ g.n <= h.n
      /\ indexed => h.n = end
      /\ ~indexed => h.n = out
  BY DEF Looped, Routed
<1>2. Fresh(g, h) = IF indexed THEN {judge, body, out, error, end} ELSE {judge, body, out}
  <2>1. Fresh(g, h) = (g.n + 1)..h.n
    BY <1>1, FreshIs
  <2>2. CASE indexed
    <3>1. h.n = end /\ end = g.n + 5 /\ Fresh(g, h) = (g.n + 1)..(g.n + 5)
      BY <1>1, <2>1, <2>2
    <3>2. (g.n + 1)..(g.n + 5) = {judge, body, out, error, end}
      BY <1>1
    <3> QED BY <2>2, <3>1, <3>2
  <2>3. CASE ~indexed
    BY <1>1, <2>1, <2>3
  <2> QED BY <2>2, <2>3
<1>3. /\ o[judge] = 1 /\ o[body] < o[out] /\ o[judge] < o[body] /\ o \in [Fresh(g, h) -> 1..(h.n - g.n)]
      /\ indexed => o[judge] < o[error] /\ o[judge] < o[end] /\ o[error] < o[end] /\ o[end] < o[body] /\ o[end] < o[out]
      /\ o[judge] < o[out]
  <2>1. CASE indexed
    <3>1. Fresh(g, h) = {judge, body, out, error, end} /\ h.n - g.n = 5 /\ h.n - g.n - 3 = 2
      BY <1>1, <1>2, <2>1
    <3>2. o[judge] = 1 /\ o[body] = 4 /\ o[out] = 5 /\ o[error] = 2 /\ o[end] = 3
      BY <1>1, <3>1 DEF LoopOrder
    <3>3. \A f \in Fresh(g, h) : o[f] \in 1..5
      BY <3>1, <3>2
    <3>4. o = [f \in Fresh(g, h) |-> o[f]]
      BY DEF LoopOrder
    <3>5. o \in [Fresh(g, h) -> 1..5]
      <4> HIDE DEF o
      <4> QED BY <3>3, <3>4
    <3> QED BY <3>1, <3>2, <3>5
  <2>2. CASE ~indexed
    <3>1. Fresh(g, h) = {judge, body, out} /\ h.n - g.n = 3 /\ h.n - g.n - 3 = 0
      BY <1>1, <1>2, <2>2
    <3>2. o[judge] = 1 /\ o[body] = 2 /\ o[out] = 3
      BY <1>1, <3>1 DEF LoopOrder
    <3>3. \A f \in Fresh(g, h) : o[f] \in 1..3
      BY <3>1, <3>2
    <3>4. o = [f \in Fresh(g, h) |-> o[f]]
      BY DEF LoopOrder
    <3>5. o \in [Fresh(g, h) -> 1..3]
      <4> HIDE DEF o
      <4> QED BY <3>3, <3>4
    <3> QED BY <2>2, <3>1, <3>2, <3>5
  <2> QED BY <2>1, <2>2
<1>4. /\ SameTerms(g, h, Blocks(g) \ {p})
      /\ h.term[p] = IF g.term[p] = Open THEN JumpTerm(judge) ELSE g.term[p]
      /\ h.term[body] = Open /\ h.term[out] = Open
      /\ indexed => h.term[judge] = CondTerm(itest, end, error) /\ h.term[error] = JumpTerm(end)
                    /\ h.term[end] = CondTerm(test, body, out)
      /\ ~indexed => h.term[judge] = CondTerm(test, body, out)
  BY DEF Looped, OpenBlocks
<1>5. body # out /\ end # error /\ judge \notin Blocks(g) /\ judge \in J
  BY <1>1 DEF Blocks
<1>6. Entry \in Blocks(g)
  BY DEF Routed
<1> HIDE DEF judge, body, out, error, end, o, test, itest
<1>7. Succ(h, body) = {} /\ Succ(h, out) = {} /\ h.term[body].kind # "cond" /\ h.term[out].kind # "cond"
  BY <1>4, NoSucc
<1>8. ASSUME indexed
      PROVE  /\ Succ(h, judge) = {end, error} /\ h.term[judge].yes # h.term[judge].no
             /\ Succ(h, error) = {end} /\ h.term[error].kind # "cond"
             /\ Succ(h, end) = {body, out} /\ h.term[end].yes # h.term[end].no
  <2>1. h.term[judge] = CondTerm(itest, end, error) /\ h.term[end] = CondTerm(test, body, out)
    BY <1>4, <1>8
  <2>2. Succ(h, judge) = {end, error} /\ h.term[judge].yes = end /\ h.term[judge].no = error
    BY <2>1, SuccOfCond DEF CondTerm
  <2>3. Succ(h, end) = {body, out} /\ h.term[end].yes = body /\ h.term[end].no = out
    BY <2>1, SuccOfCond DEF CondTerm
  <2>4. Succ(h, error) = {end} /\ h.term[error].kind # "cond"
    <3>1. h.term[error] = JumpTerm(end)
      BY <1>4, <1>8
    <3> QED BY <3>1, SuccOfJump DEF JumpTerm
  <2> QED BY <1>5, <2>2, <2>3, <2>4
<1>9. ASSUME ~indexed
      PROVE  Succ(h, judge) = {body, out} /\ h.term[judge].yes # h.term[judge].no
  <2>1. h.term[judge] = CondTerm(test, body, out)
    BY <1>4, <1>9
  <2>2. Succ(h, judge) = {body, out} /\ h.term[judge].yes = body /\ h.term[judge].no = out
    BY <2>1, SuccOfCond DEF CondTerm
  <2> QED BY <1>5, <2>2
<1>10. g.term[p] = Open => Succ(h, p) = {judge} /\ h.term[p].kind # "cond"
  <2>1. g.term[p] = Open => h.term[p] = JumpTerm(judge)
    BY <1>4
  <2> QED BY <2>1, SuccOfJump DEF JumpTerm
<1>11. Extends(g, h, p)
  <2>1. \A x \in Blocks(g) : h.term[x] = g.term[x] \/ (x = p /\ g.term[p] = Open /\ Succ(h, p) \subseteq Fresh(g, h))
    BY <1>2, <1>4, <1>10 DEF SameTerms
  <2>2. \A f \in Fresh(g, h) : Succ(h, f) \subseteq Fresh(g, h)
    BY <1>2, <1>7, <1>8, <1>9
  <2> QED BY <1>1, <2>1, <2>2 DEF Extends
<1>12. \A f \in Fresh(g, h) : \A c \in Succ(h, f) : o[f] < o[c]
  BY <1>2, <1>3, <1>7, <1>8, <1>9
<1>13. \A f \in Fresh(g, h) \cup {p} : h.term[f].kind = "cond" => h.term[f].yes # h.term[f].no
  <2>1. h.term[p].kind = "cond" => h.term[p].yes # h.term[p].no
    BY <1>4, <1>10 DEF Ranked
  <2> QED BY <1>2, <1>7, <1>8, <1>9, <2>1
<1>14. Avoiding(h, judge) \subseteq Blocks(g)
  <2>1. ASSUME NEW b \in Blocks(g), NEW c \in Succ(h, b), c # judge
        PROVE  c \in Blocks(g)
    <3>1. CASE h.term[b] = g.term[b]
      BY <2>1, <3>1, SameSucc DEF Routed
    <3>2. CASE h.term[b] # g.term[b]
      BY <1>4, <1>10, <2>1, <3>2 DEF SameTerms
    <3> QED BY <3>1, <3>2
  <2> QED BY <1>6, <2>1, AvoidingLeast
<1>15. Plain(h, judge, J)
  <2>1. judge \in Blocks(h) /\ judge \in Fresh(g, h) /\ Blocks(h) \subseteq Blocks(g) \cup Fresh(g, h)
    BY <1>2 DEF Fresh
  <2>2. ASSUME NEW b \in Blocks(g), h.term[b].kind = "cond" PROVE judge \notin Succ(h, b)
    <3>1. h.term[b] = g.term[b]
      BY <1>4, <1>10, <2>2 DEF SameTerms
    <3> QED BY <1>5, <3>1, SameSucc DEF Routed
  <2>3. ASSUME NEW b \in Fresh(g, h) PROVE judge \notin Succ(h, b)
    BY <1>2, <1>3, <1>7, <1>8, <1>9, <1>12
  <2> QED BY <1>5, <2>1, <2>2, <2>3 DEF Plain
<1> QED BY <1>3, <1>11, <1>12, <1>13, <1>14, <1>15 DEF InOrder, o, judge, body, out
-----------------------------------------------------------------------------
(* The blocks the visitors go on in are ahead of the one inserted into.    *)

\* The blocks inserted into before entry i of td is done, if now it is those of A.
EarlierIn(td, A, i) == A \cup {td[k].at : k \in {k \in 1..(i - 1) : td[k].do = "insert"}}

\* Every block the visitors td will go on in is ahead of those inserted into
\* before; a jump goes to one of them, or back to where all those come from.
Ahead(td, g, A, r, J) ==
    /\ td \in Seq(Entries) /\ A \subseteq Blocks(g)
    /\ \A i \in 1..Len(td) : td[i].do = "insert" =>
          td[i].at \in Blocks(g) /\ \A b \in EarlierIn(td, A, i) : r[b] < r[td[i].at]
    /\ \A i \in 1..Len(td) : td[i].do = "jump" =>
          /\ td[i].to # Entry
          /\ \/ \E j \in 1..Len(td) : i < j /\ td[j].do = "insert" /\ td[j].at = td[i].to
             \/ EarlierIn(td, A, i) \cap Avoiding(g, td[i].to) = {} /\ Plain(g, td[i].to, J)

\* A visitor has done the first entry.
LEMMA PopAhead ==
    ASSUME NEW J, NEW td, td # <<>>, NEW g, NEW A, NEW A2, NEW r, Ahead(td, g, A, r, J),
           A2 \subseteq IF td[1].do = "insert" THEN A \cup {td[1].at} ELSE A
    PROVE  Ahead(Tail(td), g, A2, r, J)
<1> DEFINE t == Tail(td)
<1>1. /\ t \in Seq(Entries) /\ Len(td) \in Nat /\ Len(t) \in Nat /\ Len(t) = Len(td) - 1
      /\ \A i \in 1..Len(t) : t[i] = td[i + 1]
      /\ 1 \in 1..Len(td)
  BY HeadTailProperties, LenProperties, EmptySeq DEF Ahead
<1> HIDE DEF t
<1>2. \A i \in 1..Len(t) : i + 1 \in 1..Len(td)
  BY <1>1
<1>3. ASSUME NEW i \in 1..Len(t) PROVE EarlierIn(t, A2, i) \subseteq EarlierIn(td, A, i + 1)
  <2>1. ASSUME NEW b \in A2 PROVE b \in EarlierIn(td, A, i + 1)
    <3>1. CASE b \in A
      BY <3>1 DEF EarlierIn
    <3>2. CASE td[1].do = "insert" /\ b = td[1].at
      <4>1. 1 \in 1..((i + 1) - 1)
        BY <1>1
      <4> QED BY <3>2, <4>1 DEF EarlierIn
    <3> QED BY <2>1, <3>1, <3>2
  <2>2. ASSUME NEW k \in 1..(i - 1), t[k].do = "insert" PROVE t[k].at \in EarlierIn(td, A, i + 1)
    <3>1. k + 1 \in 1..((i + 1) - 1) /\ t[k] = td[k + 1]
      BY <1>1
    <3> QED BY <2>2, <3>1 DEF EarlierIn
  <2> QED BY <2>1, <2>2 DEF EarlierIn
<1>4. A2 \subseteq Blocks(g)
  BY <1>1 DEF Ahead
<1>5. ASSUME NEW i \in 1..Len(t), t[i].do = "insert"
      PROVE  t[i].at \in Blocks(g) /\ \A b \in EarlierIn(t, A2, i) : r[b] < r[t[i].at]
  BY <1>1, <1>2, <1>3, <1>5 DEF Ahead
<1>6. ASSUME NEW i \in 1..Len(t), t[i].do = "jump"
      PROVE  /\ t[i].to # Entry
             /\ \/ \E j \in 1..Len(t) : i < j /\ t[j].do = "insert" /\ t[j].at = t[i].to
                \/ EarlierIn(t, A2, i) \cap Avoiding(g, t[i].to) = {} /\ Plain(g, t[i].to, J)
  <2>1. t[i] = td[i + 1] /\ i + 1 \in 1..Len(td) /\ EarlierIn(t, A2, i) \subseteq EarlierIn(td, A, i + 1)
    BY <1>1, <1>2, <1>3
  <2>0. t[i].to # Entry
    BY <1>6, <2>1 DEF Ahead
  <2>2. CASE EarlierIn(td, A, i + 1) \cap Avoiding(g, t[i].to) = {} /\ Plain(g, t[i].to, J)
    BY <2>0, <2>1, <2>2
  <2>3. CASE \E j \in 1..Len(td) : i + 1 < j /\ td[j].do = "insert" /\ td[j].at = t[i].to
    <3>1. PICK j \in 1..Len(td) : i + 1 < j /\ td[j].do = "insert" /\ td[j].at = t[i].to
      BY <2>3
    <3>2. j - 1 \in 1..Len(t) /\ i < j - 1 /\ (j - 1) + 1 = j
      BY <1>1, <3>1
    <3>3. t[j - 1] = td[j]
      BY <1>1, <3>2
    <3> QED BY <2>0, <3>1, <3>2, <3>3
  <2> QED BY <1>6, <2>1, <2>2, <2>3 DEF Ahead
<1> QED BY <1>1, <1>4, <1>5, <1>6 DEF Ahead, t

\* Growing the function at the block inserted into, which is left for a new one
\* or not, keeps an order with what the visitors still have to do ahead.
LEMMA GrowAhead ==
    ASSUME NEW J, NEW td, NEW g, NEW h, NEW p, NEW o, InOrder(g, h, p, o), NEW r \in [Nat -> Nat],
           Ranked(g, r, J), Ahead(td, g, {p}, r, J), NEW A \in SUBSET ({p} \cup Fresh(g, h))
    PROVE  \E q \in [Nat -> Nat] :
              /\ Ranked(h, q, J) /\ Ahead(td, h, A, q, J)
              /\ \A e, f \in Fresh(g, h) : o[e] < o[f] => q[e] < q[f]
<1> DEFINE q == Inserted(g, h, p, r, h.n - g.n, o)
<1>1. /\ g.n \in Nat /\ h.n \in Nat /\ g.n <= h.n /\ h.n - g.n \in Nat /\ p \in Blocks(g) /\ Extends(g, h, p)
      /\ o \in [Fresh(g, h) -> 1..(h.n - g.n)] /\ Routed(h) /\ Routed(g)
  BY DEF InOrder, Extends, Routed
<1>2. /\ q \in [Nat -> Nat] /\ Ranked(h, q, J)
      /\ \A f \in Fresh(g, h) : q[f] = r[p] + o[f]
      /\ \A f \in Fresh(g, h) : \A x \in Blocks(g) : r[p] < r[x] => q[f] < q[x]
      /\ \A x, y \in Blocks(g) : r[x] < r[y] => q[x] < q[y]
  <2> DEFINE m == h.n - g.n
  <2>1. m \in Nat /\ o \in [Fresh(g, h) -> 1..m]
    BY <1>1
  <2> HIDE DEF m
  <2>2. LET s == Inserted(g, h, p, r, m, o)
        IN  /\ s \in [Nat -> Nat] /\ Ranked(h, s, J)
            /\ \A f \in Fresh(g, h) : s[f] = r[p] + o[f]
            /\ \A f \in Fresh(g, h) : \A x \in Blocks(g) : r[p] < r[x] => s[f] < s[x]
            /\ \A x, y \in Blocks(g) : r[x] < r[y] => s[x] < s[y]
    BY <1>1, <2>1, ExtendRanked DEF InOrder
  <2> QED BY <2>2 DEF m
<1> HIDE DEF q
<1>3. /\ Blocks(g) \subseteq Blocks(h) /\ Fresh(g, h) \subseteq Blocks(h) /\ Blocks(g) \cap Fresh(g, h) = {}
      /\ Fresh(g, h) \subseteq Nat /\ p \in Nat
  BY <1>1 DEF Fresh, Blocks
<1>4. ASSUME NEW i \in 1..Len(td), NEW b \in EarlierIn(td, A, i)
      PROVE  b \in EarlierIn(td, {p}, i) \/ b \in Fresh(g, h)
  BY <1>4 DEF EarlierIn
<1>5. ASSUME NEW i \in 1..Len(td), NEW b \in EarlierIn(td, {p}, i) PROVE b \in Blocks(g)
  <2>1. CASE b = p
    BY <1>1, <2>1
  <2>2. CASE b # p
    <3>1. PICK k \in 1..(i - 1) : td[k].do = "insert" /\ td[k].at = b
      BY <1>5, <2>2 DEF EarlierIn
    <3>2. k \in 1..Len(td)
      BY <3>1, LenProperties DEF Ahead
    <3> QED BY <3>1, <3>2 DEF Ahead
  <2> QED BY <2>1, <2>2
<1>6. ASSUME NEW i \in 1..Len(td), td[i].do = "insert"
      PROVE  td[i].at \in Blocks(h) /\ \A b \in EarlierIn(td, A, i) : q[b] < q[td[i].at]
  <2>1. td[i].at \in Blocks(g) /\ \A b \in EarlierIn(td, {p}, i) : r[b] < r[td[i].at]
    BY <1>6 DEF Ahead
  <2>2. p \in EarlierIn(td, {p}, i)
    BY DEF EarlierIn
  <2> QED BY <1>2, <1>3, <1>4, <1>5, <2>1, <2>2
<1>7. ASSUME NEW i \in 1..Len(td), EarlierIn(td, {p}, i) \cap Avoiding(g, td[i].to) = {}
      PROVE  EarlierIn(td, A, i) \cap Avoiding(h, td[i].to) = {}
  <2>1. p \in EarlierIn(td, {p}, i)
    BY DEF EarlierIn
  <2>2. Avoiding(h, td[i].to) \subseteq Avoiding(g, td[i].to)
    <3>1. \A a : Avoiding(h, a) \subseteq
                    Avoiding(g, a) \cup (IF p \in Avoiding(g, a) THEN Fresh(g, h) ELSE {})
      BY <1>1, ExtendAvoiding
    <3>2. p \notin Avoiding(g, td[i].to)
      BY <1>7, <2>1
    <3> QED BY <3>1, <3>2
  <2>3. Avoiding(g, td[i].to) \subseteq Blocks(g)
    BY <1>1, AvoidingLeast
  <2> QED BY <1>3, <1>4, <1>7, <2>2, <2>3
<1>8. Ahead(td, h, A, q, J)
  <2>1. td \in Seq(Entries) /\ A \subseteq Blocks(h)
    BY <1>1, <1>3 DEF Ahead
  <2>2. ASSUME NEW i \in 1..Len(td), td[i].do = "jump"
        PROVE  /\ td[i].to # Entry
               /\ \/ \E j \in 1..Len(td) : i < j /\ td[j].do = "insert" /\ td[j].at = td[i].to
                  \/ EarlierIn(td, A, i) \cap Avoiding(h, td[i].to) = {} /\ Plain(h, td[i].to, J)
    BY <1>1, <1>7, <2>2, ExtendPlain DEF Ahead
  <2> QED BY <1>6, <2>1, <2>2 DEF Ahead
<1>9. ASSUME NEW e \in Fresh(g, h), NEW f \in Fresh(g, h), o[e] < o[f]
      PROVE  q[e] < q[f]
  BY <1>1, <1>2, <1>3, <1>9
<1> QED BY <1>2, <1>8, <1>9

\* A visitor puts its list, its jump and the block it goes on in in front.
LEMMA PushAhead ==
    ASSUME NEW J, NEW td, NEW g, NEW A, NEW c, NEW r, Ahead(td, g, A \cup {c}, r, J),
           NEW l \in Nat, NEW j \in Nat, c \in Nat,
           \A b \in A : r[b] < r[c], j # Entry,
           \/ j = c
           \/ \E k \in 1..Len(td) : td[k].do = "insert" /\ td[k].at = j
           \/ A \cap Avoiding(g, j) = {} /\ Plain(g, j, J)
    PROVE  Ahead(InFront(VisitList(l), JumpTo(j), ContinueAt(c), td), g, A, r, J)
<1> DEFINE t == InFront(VisitList(l), JumpTo(j), ContinueAt(c), td)
<1>1. td \in Seq(Entries) /\ A \cup {c} \subseteq Blocks(g) /\ Len(td) \in Nat
  BY LenProperties DEF Ahead
<1>2. /\ t \in Seq(Entries) /\ Len(t) = Len(td) + 3
      /\ t[1] = VisitList(l) /\ t[2] = JumpTo(j) /\ t[3] = ContinueAt(c)
      /\ \A i \in 1..Len(td) : t[i + 3] = td[i]
      /\ \A i \in 1..Len(t) : i = 1 \/ i = 2 \/ i = 3 \/ \E k \in 1..Len(td) : i = k + 3
  <2>1. VisitList(l) \in Entries /\ JumpTo(j) \in Entries /\ ContinueAt(c) \in Entries
    BY DEF Entries
  <2>2. Lined(t, VisitList(l), JumpTo(j), ContinueAt(c), td)
    BY <1>1, <2>1, Pushed
  <2> HIDE DEF t
  <2> QED BY <2>2 DEF Lined
<1> HIDE DEF t
<1>3. /\ t[1].do = "list" /\ t[2].do = "jump" /\ t[2].to = j
      /\ t[3].do = "insert" /\ t[3].at = c
  BY <1>2 DEF VisitList, JumpTo, ContinueAt
<1>4. EarlierIn(t, A, 2) = A /\ EarlierIn(t, A, 3) = A
  <2>1. {k \in 1..(2 - 1) : t[k].do = "insert"} = {} /\ {k \in 1..(3 - 1) : t[k].do = "insert"} = {}
    BY <1>3
  <2> QED BY <2>1 DEF EarlierIn
<1>5. ASSUME NEW i \in 1..Len(td) PROVE EarlierIn(t, A, i + 3) \subseteq EarlierIn(td, A \cup {c}, i)
  <2>1. ASSUME NEW k \in 1..((i + 3) - 1), t[k].do = "insert" PROVE t[k].at \in EarlierIn(td, A \cup {c}, i)
    <3>1. CASE k = 1 \/ k = 2 \/ k = 3
      BY <1>3, <2>1, <3>1 DEF EarlierIn
    <3>2. CASE ~(k = 1 \/ k = 2 \/ k = 3)
      <4>1. k - 3 \in 1..(i - 1) /\ k - 3 \in 1..Len(td) /\ k = (k - 3) + 3
        BY <1>1, <3>2
      <4>2. t[k] = td[k - 3]
        BY <1>2, <4>1
      <4> QED BY <2>1, <4>1, <4>2 DEF EarlierIn
    <3> QED BY <3>1, <3>2
  <2> QED BY <2>1 DEF EarlierIn
<1>6. ASSUME NEW i \in 1..Len(t), t[i].do = "insert"
      PROVE  t[i].at \in Blocks(g) /\ \A b \in EarlierIn(t, A, i) : r[b] < r[t[i].at]
  <2>1. CASE i = 1 \/ i = 2 \/ i = 3
    BY <1>1, <1>3, <1>4, <1>6, <2>1
  <2>2. CASE \E k \in 1..Len(td) : i = k + 3
    <3>1. PICK k \in 1..Len(td) : i = k + 3
      BY <2>2
    <3>2. t[i] = td[k] /\ EarlierIn(t, A, i) \subseteq EarlierIn(td, A \cup {c}, k)
      BY <1>2, <1>5, <3>1
    <3> QED BY <1>6, <3>2 DEF Ahead
  <2> QED BY <1>2, <2>1, <2>2
<1>7. ASSUME NEW k \in 1..Len(td), NEW z, td[k].do = "insert", td[k].at = z
      PROVE  k + 3 \in 1..Len(t) /\ t[k + 3].do = "insert" /\ t[k + 3].at = z
  BY <1>1, <1>2, <1>7
<1>8. ASSUME NEW i \in 1..Len(t), t[i].do = "jump"
      PROVE  /\ t[i].to # Entry
             /\ \/ \E m \in 1..Len(t) : i < m /\ t[m].do = "insert" /\ t[m].at = t[i].to
                \/ EarlierIn(t, A, i) \cap Avoiding(g, t[i].to) = {} /\ Plain(g, t[i].to, J)
  <2>1. CASE i = 2
    <3>1. CASE j = c
      <4>1. 3 \in 1..Len(t) /\ 2 < 3
        BY <1>1, <1>2
      <4> QED BY <1>3, <2>1, <3>1, <4>1
    <3>2. CASE \E k \in 1..Len(td) : td[k].do = "insert" /\ td[k].at = j
      <4>1. PICK k \in 1..Len(td) : td[k].do = "insert" /\ td[k].at = j
        BY <3>2
      <4>2. 2 < k + 3
        BY <1>1
      <4> QED BY <1>3, <1>7, <2>1, <4>1, <4>2
    <3>3. CASE A \cap Avoiding(g, j) = {} /\ Plain(g, j, J)
      BY <1>3, <1>4, <2>1, <3>3
    <3> QED BY <3>1, <3>2, <3>3
  <2>2. CASE \E k \in 1..Len(td) : i = k + 3
    <3>1. PICK k \in 1..Len(td) : i = k + 3
      BY <2>2
    <3>2. t[i] = td[k] /\ EarlierIn(t, A, i) \subseteq EarlierIn(td, A \cup {c}, k)
      BY <1>2, <1>5, <3>1
    <3>0. t[i].to # Entry
      BY <1>8, <3>2 DEF Ahead
    <3>3. CASE EarlierIn(td, A \cup {c}, k) \cap Avoiding(g, td[k].to) = {} /\ Plain(g, td[k].to, J)
      BY <3>0, <3>2, <3>3
    <3>4. CASE \E m \in 1..Len(td) : k < m /\ td[m].do = "insert" /\ td[m].at = td[k].to
      <4>1. PICK m \in 1..Len(td) : k < m /\ td[m].do = "insert" /\ td[m].at = td[k].to
        BY <3>4
      <4>2. i < m + 3
        BY <1>1, <3>1, <4>1
      <4> QED BY <1>7, <3>0, <3>2, <4>1, <4>2
    <3> QED BY <1>8, <3>2, <3>3, <3>4 DEF Ahead
  <2> QED BY <1>2, <1>3, <1>8, <2>1, <2>2
<1> QED BY <1>1, <1>2, <1>6, <1>8 DEF Ahead, t
-----------------------------------------------------------------------------
(* The order is kept by every step of the builder.                         *)

\* An order of the graph is there with what is to do still ahead.
Led(td, g, A, J) == \E r \in [Nat -> Nat] : Ranked(g, r, J) /\ Ahead(td, g, A, r, J)

\* What the invariant of the builder says about its graph.
LEMMA BuilderGraph ==
    ASSUME BuilderInv
    PROVE  /\ Sound(cfg, Tests, Instrs) /\ Routed(cfg) /\ Entry \in Blocks(cfg) /\ cur \in Blocks(cfg)
           /\ cfg.n \in Nat /\ nodes \in Nat /\ Len(program) \in Nat
           /\ outcome = "running" => todo \in Seq(Entries)
<1>1. Sound(cfg, Tests, Instrs) /\ cur \in Blocks(cfg) /\ nodes \in Nat /\ Len(program) \in Nat
  BY LenProperties DEF BuilderInv, Typed
<1>2. cfg.n \in Nat
  BY <1>1 DEF Sound, Shaped, Graphs
<1>3. Entry \in Blocks(cfg)
  BY <1>1, <1>2 DEF Blocks, Entry
<1>4. outcome = "running" => todo \in Seq(Entries)
  BY DEF BuilderInv, Building, Orderly
<1> QED BY <1>1, <1>2, <1>3, <1>4, SoundRouted

LEMMA LedByIndex ==
    ASSUME NEW J, NEW td, NEW g, Sound(g, Tests, Instrs), Entry \in Blocks(g), NEW p \in OpenBlocks(g),
           NEW k \in Nat, NEW indexed \in BOOLEAN, Led(td, g, {p}, J)
    PROVE  Led(td, Indexed(g, p, k, indexed), {BlockBehind(g, p, indexed)}, J)
<1>1. PICK r \in [Nat -> Nat] : Ranked(g, r, J) /\ Ahead(td, g, {p}, r, J)
  BY DEF Led
<1> DEFINE h  == Indexed(g, p, k, indexed)
           at == BlockBehind(g, p, indexed)
<1>2. InOrder(g, h, p, ByNumber(g, h)) /\ at \in {p} \cup Fresh(g, h)
  BY <1>1, IndexedInOrder
<1> HIDE DEF h, at
<1>3. \E q \in [Nat -> Nat] : Ranked(h, q, J) /\ Ahead(td, h, {at}, q, J)
  <2>1. {at} \in SUBSET ({p} \cup Fresh(g, h))
    BY <1>2
  <2> QED BY <1>1, <1>2, <2>1, GrowAhead
<1> QED BY <1>3 DEF Led, h, at

\* Code, or a terminator without targets.
LEMMA LedSame ==
    ASSUME NEW J, NEW td, NEW g, NEW h, NEW p \in Blocks(g), Routed(g), Routed(h), h.n = g.n,
           SameTerms(g, h, Blocks(g) \ {p}),
           h.term[p] = g.term[p] \/ (g.term[p] = Open /\ h.term[p] = RetTerm),
           Led(td, g, {p}, J)
    PROVE  Led(td, h, {p}, J)
<1>1. PICK r \in [Nat -> Nat] : Ranked(g, r, J) /\ Ahead(td, g, {p}, r, J)
  BY DEF Led
<1>2. InOrder(g, h, p, ByNumber(g, h))
  BY <1>1, SameInOrder
<1>3. \E q \in [Nat -> Nat] : Ranked(h, q, J) /\ Ahead(td, h, {p}, q, J)
  BY <1>1, <1>2, GrowAhead
<1> QED BY <1>3 DEF Led

LEMMA LedByIf ==
    ASSUME NEW J, NEW td, NEW g, Sound(g, Tests, Instrs), Entry \in Blocks(g), NEW p \in OpenBlocks(g),
           NEW k \in Nat, NEW l \in Nat, Led(td, g, {p}, J)
    PROVE  Led(InFront(VisitList(l), JumpTo(g.n + 2), ContinueAt(g.n + 2), td),
               AddCondJump(AddBlock(AddBlock(g)), p, CondTest(k), g.n + 1, g.n + 2), {g.n + 1}, J)
<1> DEFINE true == g.n + 1
           next == g.n + 2
           h == AddCondJump(AddBlock(AddBlock(g)), p, CondTest(k), true, next)
           o == ByNumber(g, h)
<1>1. PICK r \in [Nat -> Nat] : Ranked(g, r, J) /\ Ahead(td, g, {p}, r, J)
  BY DEF Led
<1>2. InOrder(g, h, p, o) /\ g.n \in Nat /\ h.n = g.n + 2
  BY IfInOrder
<1> HIDE DEF h
<1>3. /\ Fresh(g, h) = {true, next} /\ o[true] = 1 /\ o[next] = 2 /\ next \in Nat /\ next # Entry
  <2>1. h.n \in Nat /\ g.n <= h.n /\ (g.n + 1)..(g.n + 2) = {true, next} /\ next \in Nat
    BY <1>2
  <2>2. Fresh(g, h) = {true, next} /\ \A f \in Fresh(g, h) : o[f] = f - g.n
    BY <1>2, <2>1, FreshIs
  <2>3. true - g.n = 1 /\ next - g.n = 2 /\ next # Entry
    BY <1>2 DEF Entry
  <2> HIDE DEF true, next, o
  <2> QED BY <2>1, <2>2, <2>3
<1> HIDE DEF true, next, o
<1>4. PICK q \in [Nat -> Nat] :
         /\ Ranked(h, q, J) /\ Ahead(td, h, {true} \cup {next}, q, J)
         /\ \A e, f \in Fresh(g, h) : o[e] < o[f] => q[e] < q[f]
  <2> DEFINE A == {true} \cup {next}
  <2>1. A \in SUBSET ({p} \cup Fresh(g, h))
    BY <1>3
  <2> HIDE DEF A
  <2>2. \E q \in [Nat -> Nat] : /\ Ranked(h, q, J) /\ Ahead(td, h, A, q, J)
                               /\ \A e, f \in Fresh(g, h) : o[e] < o[f] => q[e] < q[f]
    BY <1>1, <1>2, <2>1, GrowAhead
  <2> QED BY <2>2 DEF A
<1>5. q[true] < q[next]
  BY <1>3, <1>4
<1>6. Ahead(InFront(VisitList(l), JumpTo(next), ContinueAt(next), td), h, {true}, q, J)
  BY <1>3, <1>4, <1>5, PushAhead
<1> QED BY <1>4, <1>6 DEF Led, h, true, next

LEMMA LedByIfElse ==
    ASSUME NEW J, NEW td, NEW g, Sound(g, Tests, Instrs), Entry \in Blocks(g), NEW p \in OpenBlocks(g),
           NEW k \in Nat, NEW l \in Nat, NEW m \in Nat, Led(td, g, {p}, J)
    PROVE  Led(InFront(VisitList(l), JumpTo(g.n + 3), ContinueAt(g.n + 1),
                       InFront(VisitList(m), JumpTo(g.n + 3), ContinueAt(g.n + 3), td)),
               AddCondJump(AddBlock(AddBlock(AddBlock(g))), p, CondTest(k), g.n + 1, g.n + 2), {g.n + 2}, J)
<1> DEFINE true  == g.n + 1
           false == g.n + 2
           next  == g.n + 3
           h == AddCondJump(AddBlock(AddBlock(AddBlock(g))), p, CondTest(k), true, false)
           o == ElseFirst(g, h)
           t == InFront(VisitList(m), JumpTo(next), ContinueAt(next), td)
<1>1. PICK r \in [Nat -> Nat] : Ranked(g, r, J) /\ Ahead(td, g, {p}, r, J)
  BY DEF Led
<1>2. /\ InOrder(g, h, p, o) /\ g.n \in Nat /\ h.n = g.n + 3
      /\ o[false] = 1 /\ o[true] = 2 /\ o[next] = 3
  BY IfElseInOrder
<1> HIDE DEF h, o
<1>3. Fresh(g, h) = {true, false, next} /\ true \in Nat /\ next \in Nat /\ next # Entry
  <2>1. /\ h.n \in Nat /\ g.n <= h.n /\ (g.n + 1)..(g.n + 3) = {true, false, next} /\ next \in Nat /\ true \in Nat
        /\ next # Entry
    BY <1>2 DEF Entry
  <2> QED BY <1>2, <2>1, FreshIs
<1> HIDE DEF true, false, next
<1>4. PICK q \in [Nat -> Nat] :
         /\ Ranked(h, q, J) /\ Ahead(td, h, {false, true} \cup {next}, q, J)
         /\ \A e, f \in Fresh(g, h) : o[e] < o[f] => q[e] < q[f]
  <2> DEFINE A == {false, true} \cup {next}
  <2>1. A \in SUBSET ({p} \cup Fresh(g, h))
    BY <1>3
  <2> HIDE DEF A
  <2>2. \E q \in [Nat -> Nat] : /\ Ranked(h, q, J) /\ Ahead(td, h, A, q, J)
                               /\ \A e, f \in Fresh(g, h) : o[e] < o[f] => q[e] < q[f]
    BY <1>1, <1>2, <2>1, GrowAhead
  <2> QED BY <2>2 DEF A
<1>5. q[false] < q[next] /\ q[true] < q[next] /\ q[false] < q[true]
  BY <1>2, <1>3, <1>4
<1>6. Ahead(t, h, {false, true}, q, J)
  <2>1. \A b \in {false, true} : q[b] < q[next]
    BY <1>5
  <2> QED BY <1>3, <1>4, <2>1, PushAhead
<1>7. \E i \in 1..Len(t) : t[i].do = "insert" /\ t[i].at = next
  <2>1. td \in Seq(Entries) /\ VisitList(m) \in Entries /\ JumpTo(next) \in Entries /\ ContinueAt(next) \in Entries
    BY <1>1, <1>3 DEF Ahead, Entries
  <2>2. Lined(t, VisitList(m), JumpTo(next), ContinueAt(next), td)
    BY <2>1, Pushed
  <2> HIDE DEF t
  <2>3. Len(t) = Len(td) + 3 /\ Len(td) \in Nat /\ t[3] = ContinueAt(next)
    BY <2>2 DEF Lined
  <2>4. 3 \in 1..Len(t)
    BY <2>3
  <2>5. t[3].do = "insert" /\ t[3].at = next
    BY <2>3 DEF ContinueAt
  <2> QED BY <2>4, <2>5
<1> HIDE DEF t
<1>8. Ahead(InFront(VisitList(l), JumpTo(next), ContinueAt(true), t), h, {false}, q, J)
  <2>1. {false} \cup {true} = {false, true} /\ \A b \in {false} : q[b] < q[true]
    BY <1>5
  <2> QED BY <1>3, <1>6, <1>7, <2>1, PushAhead
<1> QED BY <1>4, <1>8 DEF Led, h, t, true, false, next

LEMMA LedByWhile ==
    ASSUME NEW J, NEW td, NEW g, NEW h, Routed(g), Routed(h), NEW p \in Blocks(g), NEW k,
           NEW indexed \in BOOLEAN, Looped(g, h, p, k, indexed), NEW l \in Nat, Led(td, g, {p}, J), g.n + 1 \in J
    PROVE  Led(InFront(VisitList(l), JumpTo(g.n + 1), ContinueAt(g.n + 3), td), h, {g.n + 2}, J)
<1> DEFINE judge == g.n + 1
           body  == g.n + 2
           out   == g.n + 3
           o     == LoopOrder(g, h)
<1>1. PICK r \in [Nat -> Nat] : Ranked(g, r, J) /\ Ahead(td, g, {p}, r, J)
  BY DEF Led
<1>2. /\ InOrder(g, h, p, o) /\ o[body] < o[out] /\ Avoiding(h, judge) \subseteq Blocks(g)
      /\ Plain(h, judge, J)
  BY <1>1, LoopInOrder
<1>3. /\ body \in Fresh(g, h) /\ out \in Fresh(g, h) /\ body \notin Blocks(g) /\ out \in Nat /\ judge \in Nat
      /\ judge # Entry
  BY DEF Looped, Routed, Fresh, Blocks, Entry
<1> HIDE DEF judge, body, out, o
<1>4. PICK q \in [Nat -> Nat] :
         /\ Ranked(h, q, J) /\ Ahead(td, h, {body} \cup {out}, q, J)
         /\ \A e, f \in Fresh(g, h) : o[e] < o[f] => q[e] < q[f]
  <2> DEFINE A == {body} \cup {out}
  <2>1. A \in SUBSET ({p} \cup Fresh(g, h))
    BY <1>3
  <2> HIDE DEF A
  <2>2. \E q \in [Nat -> Nat] : /\ Ranked(h, q, J) /\ Ahead(td, h, A, q, J)
                               /\ \A e, f \in Fresh(g, h) : o[e] < o[f] => q[e] < q[f]
    BY <1>1, <1>2, <2>1, GrowAhead
  <2> QED BY <2>2 DEF A
<1>5. (\A b \in {body} : q[b] < q[out]) /\ {body} \cap Avoiding(h, judge) = {} /\ Plain(h, judge, J)
  BY <1>2, <1>3, <1>4
<1>6. Ahead(InFront(VisitList(l), JumpTo(judge), ContinueAt(out), td), h, {body}, q, J)
  BY <1>3, <1>4, <1>5, PushAhead
<1> QED BY <1>4, <1>6 DEF Led, judge, body, out

\* The jump of a visitor, from an open block.
LEMMA LedByJump ==
    ASSUME NEW J, NEW td, td # <<>>, td[1].do = "jump", NEW g, Sound(g, Tests, Instrs), Entry \in Blocks(g),
           NEW p \in OpenBlocks(g), NEW pr, Orderly(td, OpenBlocks(g), g.n, p, pr), Led(td, g, {p}, J)
    PROVE  Led(td, AddJump(g, p, td[1].to), {p}, J)
<1> DEFINE z == td[1].to
           h == AddJump(g, p, z)
<1>1. PICK r \in [Nat -> Nat] : Ranked(g, r, J) /\ Ahead(td, g, {p}, r, J)
  BY DEF Led
<1>2. td \in Seq(Entries) /\ 1 \in 1..Len(td) /\ z \in Blocks(g) /\ Len(td) \in Nat
  <2>1. td \in Seq(Entries) /\ 1 \in 1..Len(td) /\ Len(td) \in Nat
    BY <1>1, LenProperties, EmptySeq DEF Ahead
  <2> QED BY <2>1 DEF Orderly, Blocks
<1>3. /\ Sound(h, Tests, Instrs) /\ h.n = g.n /\ Ended(g, h, p, JumpTerm(z))
  BY <1>2, AddJumpSound
<1> HIDE DEF h
<1>4. /\ p \in Blocks(g) /\ g.term[p] = Open /\ h.term[p] = JumpTerm(z) /\ Blocks(h) = Blocks(g)
      /\ \A b \in Blocks(g) : b # p => h.term[b] = g.term[b]
  BY <1>3 DEF OpenBlocks, Ended, SameTerms, Blocks
<1>5. Routed(g) /\ Routed(h)
  BY <1>3, <1>4, SoundRouted
<1>6. \A i \in 1..Len(td) : p \in EarlierIn(td, {p}, i)
  BY DEF EarlierIn
<1>0. z # Entry
  BY <1>1, <1>2 DEF Ahead
<1>7. (z # p /\ g.term[z] = Open /\ r[p] < r[z]) \/ (p \notin Avoiding(g, z) /\ Plain(g, z, J))
  <2>1. CASE EarlierIn(td, {p}, 1) \cap Avoiding(g, z) = {} /\ Plain(g, z, J)
    BY <1>2, <1>6, <2>1
  <2>2. CASE \E j \in 1..Len(td) : 1 < j /\ td[j].do = "insert" /\ td[j].at = z
    <3>1. PICK j \in 1..Len(td) : td[j].do = "insert" /\ td[j].at = z
      BY <2>2
    <3>2. z \in OpenBlocks(g) \ {p}
      BY <3>1 DEF Orderly
    <3>3. r[p] < r[z]
      BY <1>1, <1>6, <3>1 DEF Ahead
    <3> QED BY <3>2, <3>3 DEF OpenBlocks
  <2> QED BY <1>1, <1>2, <2>1, <2>2 DEF Ahead
<1> HIDE DEF z
<1>8. Ranked(h, r, J)
  BY <1>0, <1>1, <1>2, <1>3, <1>4, <1>5, <1>7, JumpRanked
<1>9. \A a : Avoiding(h, a) \subseteq
                 Avoiding(g, a) \cup (IF p \in Avoiding(g, a) /\ g.term[z] = Open THEN {z} ELSE {})
  BY <1>2, <1>3, <1>4, <1>5, <1>7, JumpAvoiding
<1>10. Ahead(td, h, {p}, r, J)
  <2>1. ASSUME NEW i \in 1..Len(td), EarlierIn(td, {p}, i) \cap Avoiding(g, td[i].to) = {}
        PROVE  EarlierIn(td, {p}, i) \cap Avoiding(h, td[i].to) = {}
    BY <1>6, <1>9, <2>1
  <2>2. /\ td \in Seq(Entries) /\ {p} \subseteq Blocks(h)
        /\ \A i \in 1..Len(td) : td[i].do = "insert" =>
              td[i].at \in Blocks(h) /\ \A b \in EarlierIn(td, {p}, i) : r[b] < r[td[i].at]
    BY <1>1, <1>4 DEF Ahead
  <2>3. ASSUME NEW i \in 1..Len(td), td[i].do = "jump"
        PROVE  /\ td[i].to # Entry
               /\ \/ \E j \in 1..Len(td) : i < j /\ td[j].do = "insert" /\ td[j].at = td[i].to
                  \/ EarlierIn(td, {p}, i) \cap Avoiding(h, td[i].to) = {} /\ Plain(h, td[i].to, J)
    <3>1. ASSUME NEW c, Plain(g, c, J) PROVE Plain(h, c, J)
      <4>1. h.term[p].kind # "cond"
        BY <1>3, SuccOfJump DEF Ended
      <4> QED BY <1>4, <3>1, <4>1, SameSucc DEF Plain
    <3> QED BY <1>1, <2>1, <2>3, <3>1 DEF Ahead
  <2> QED BY <2>2, <2>3 DEF Ahead
<1> QED BY <1>8, <1>10 DEF Led, h, z

LEMMA LedRanked ==
    ASSUME NEW J, NEW td, NEW g, NEW A, Led(td, g, A, J)
    PROVE  \E r \in [Nat -> Nat] : Ranked(g, r, J)
BY DEF Led

-----------------------------------------------------------------------------
(* The loops.  Each block of J has a zone, S, the blocks made for its      *)
(* loop: control enters S through that block only, from one block outside, *)
(* and leaves it only where the condition fails.  B is the part of S made  *)
(* for the body: it is entered only where the condition holds, and only    *)
(* from it does control go back.                                           *)

\* The condition of the loop with the block j ends with block q.
Gate(g, j, S, B, q) ==
    /\ \A x \in Blocks(g) \ B : Succ(g, x) \cap B # {} => x = q
    /\ \A x \in S : \A y \in Succ(g, x) \ S : x = q /\ g.term[x].kind = "cond" /\ g.term[x].yes = j + 1

Zone(g, j, S, B) ==
    /\ S \subseteq Blocks(g) /\ B \subseteq S /\ j \in S \ B /\ Entry \notin S
    /\ \A x \in Blocks(g) \ S : \A y \in Succ(g, x) \cap S : y = j
    /\ \A x, y \in Blocks(g) \ S : j \in Succ(g, x) /\ j \in Succ(g, y) => x = y
    /\ \A x \in S : j \in Succ(g, x) => x \in B
    /\ \E q \in S \ B : Gate(g, j, S, B, q)

\* Block b is where the visitors td insert when entry i is done, if now it is p.
Reaches(td, p, i, b) ==
    \/ b = p /\ \A k \in 1..(i - 1) : td[k].do # "insert"
    \/ \E k \in 1..(i - 1) : /\ td[k].do = "insert" /\ td[k].at = b
                             /\ \A m \in 1..(i - 1) : k < m => td[m].do # "insert"

\* A jump from b to t stays where it is, or goes back from the body.
Fits(j, S, B, b, t) == (t \in S <=> b \in S) /\ (b \in B <=> t \in B \/ t = j)

\* The zone of j, which no jump that is still to come will spoil.
Kept(td, g, p, j, S, B) ==
    /\ Zone(g, j, S, B)
    /\ \A i \in 1..Len(td) : \A b :
          td[i].do = "jump" /\ Reaches(td, p, i, b) => Fits(j, S, B, b, td[i].to)

\* What the visitors name are blocks of the function.
Named(td, g, p) ==
    /\ td \in Seq(Entries) /\ p \in Blocks(g)
    /\ \A i \in 1..Len(td) : /\ td[i].do = "insert" => td[i].at \in Blocks(g)
                             /\ td[i].do = "jump" => td[i].to \in Blocks(g)

LEMMA LedNamed ==
    ASSUME NEW J, NEW td, NEW g, NEW p, Led(td, g, {p}, J)
    PROVE  Named(td, g, p)
<1>1. PICK r \in [Nat -> Nat] : Ahead(td, g, {p}, r, J)
  BY DEF Led
<1>2. ASSUME NEW i \in 1..Len(td), td[i].do = "jump" PROVE td[i].to \in Blocks(g)
  <2>1. CASE Plain(g, td[i].to, J)
    BY <2>1 DEF Plain
  <2>2. CASE \E k \in 1..Len(td) : td[k].do = "insert" /\ td[k].at = td[i].to
    BY <1>1, <2>2 DEF Ahead
  <2> QED BY <1>1, <1>2, <2>1, <2>2 DEF Ahead
<1> QED BY <1>1, <1>2 DEF Ahead, Named

LEMMA ReachedNamed ==
    ASSUME NEW td, NEW g, NEW p, Named(td, g, p), NEW i \in 1..Len(td), NEW q, NEW b, Reaches(td, q, i, b)
    PROVE  b = q \/ b \in Blocks(g)
<1>1. Len(td) \in Nat
  BY LenProperties DEF Named
<1>2. 1..(i - 1) \subseteq 1..Len(td)
  BY <1>1
<1> QED BY <1>2 DEF Reaches, Named

\* New blocks are in the zones that the block is in behind which they are made.
Widened(g, h, p, S) == IF p \in S THEN S \cup Fresh(g, h) ELSE S

LEMMA ZoneGrows ==
    ASSUME NEW g, NEW h, NEW p, Extends(g, h, p), NEW j, NEW S, NEW B, Zone(g, j, S, B)
    PROVE  Zone(h, j, Widened(g, h, p, S), Widened(g, h, p, B))
<1> DEFINE F  == Fresh(g, h)
           S2 == Widened(g, h, p, S)
           B2 == Widened(g, h, p, B)
<1>1. /\ Blocks(h) = Blocks(g) \cup F /\ Blocks(g) \cap F = {} /\ p \in Blocks(g)
      /\ \A x \in Blocks(g) : Succ(g, x) \subseteq Blocks(g)
      /\ S \subseteq Blocks(g) /\ B \subseteq S /\ j \in S \ B /\ Entry \notin S /\ Entry \in Blocks(g)
  BY DEF Extends, Routed, Zone, Blocks, Fresh
<1>2. ASSUME NEW x \in Blocks(g)
      PROVE  \/ Succ(h, x) = Succ(g, x) /\ h.term[x] = g.term[x]
             \/ x = p /\ Succ(g, x) = {} /\ Succ(h, x) \subseteq F
  <2>1. CASE h.term[x] = g.term[x]
    BY <2>1, SameSucc
  <2>2. CASE x = p /\ g.term[p] = Open /\ Succ(h, p) \subseteq F
    BY <2>2, NoSucc
  <2> QED BY <2>1, <2>2 DEF Extends
<1>3. \A f \in F : Succ(h, f) \subseteq F
  BY DEF Extends
<1> HIDE DEF F
<1>4. /\ S2 \subseteq S \cup F /\ S \subseteq S2 /\ (p \in S => S2 = S \cup F) /\ (p \notin S => S2 = S)
      /\ B2 \subseteq B \cup F /\ B \subseteq B2 /\ (p \in B => B2 = B \cup F) /\ (p \notin B => B2 = B)
  BY DEF Widened, F
<1> HIDE DEF S2, B2
<1>5. S2 \subseteq Blocks(h) /\ B2 \subseteq S2 /\ j \in S2 \ B2 /\ Entry \notin S2
  BY <1>1, <1>4
<1>6. ASSUME NEW x \in Blocks(h) \ S2, NEW y \in Succ(h, x) \cap S2
      PROVE  y = j /\ x \in Blocks(g) \ S /\ Succ(h, x) = Succ(g, x)
  <2>1. x \notin F
    BY <1>1, <1>3, <1>4, <1>6
  <2>2. x \in Blocks(g) \ S
    BY <1>1, <1>4, <2>1
  <2>3. Succ(h, x) = Succ(g, x)
    BY <1>2, <1>4, <1>6, <2>2, <1>1
  <2>4. y \in S
    BY <1>1, <1>4, <2>2, <2>3
  <2> QED BY <2>2, <2>3, <2>4 DEF Zone
<1>7. \A x, y \in Blocks(h) \ S2 : j \in Succ(h, x) /\ j \in Succ(h, y) => x = y
  BY <1>5, <1>6 DEF Zone
<1>8. ASSUME NEW x \in S2, j \in Succ(h, x) PROVE x \in B2
  <2>1. x \notin F
    BY <1>1, <1>3, <1>8
  <2>2. x \in S /\ Succ(h, x) = Succ(g, x)
    BY <1>1, <1>2, <1>4, <1>8, <2>1
  <2> QED BY <1>4, <1>8, <2>2 DEF Zone
<1>9. PICK q \in S \ B : Gate(g, j, S, B, q)
  BY DEF Zone
<1>10. q \in S2 \ B2
  BY <1>1, <1>4, <1>9
<1>11. ASSUME NEW x \in Blocks(h) \ B2, Succ(h, x) \cap B2 # {} PROVE x = q
  <2>1. x \notin F
    BY <1>1, <1>3, <1>4, <1>11
  <2>2. x \in Blocks(g) \ B
    BY <1>1, <1>4, <2>1
  <2>3. Succ(h, x) = Succ(g, x)
    BY <1>1, <1>2, <1>4, <1>11, <2>2
  <2>4. Succ(g, x) \cap B # {}
    BY <1>1, <1>4, <1>11, <2>2, <2>3
  <2> QED BY <1>9, <2>2, <2>4 DEF Gate
<1>12. ASSUME NEW x \in S2, NEW y \in Succ(h, x) \ S2
       PROVE  x = q /\ h.term[x].kind = "cond" /\ h.term[x].yes = j + 1
  <2>1. x \notin F
    BY <1>1, <1>3, <1>4, <1>12
  <2>2. x \in S
    BY <1>4, <2>1
  <2>3. Succ(h, x) = Succ(g, x) /\ h.term[x] = g.term[x]
    BY <1>1, <1>2, <1>4, <1>12, <2>2
  <2>4. y \in Succ(g, x) \ S
    BY <1>4, <2>3
  <2> QED BY <1>9, <2>2, <2>3, <2>4 DEF Gate
<1>13. Gate(h, j, S2, B2, q)
  BY <1>11, <1>12 DEF Gate
<1> QED BY <1>5, <1>6, <1>7, <1>8, <1>10, <1>13 DEF Zone, S2, B2

\* The same with what is still to be visited, from the block c that is then
\* inserted into.
LEMMA KeptGrows ==
    ASSUME NEW td, NEW g, NEW h, NEW p, Named(td, g, p), Extends(g, h, p),
           NEW j, NEW S, NEW B, Kept(td, g, p, j, S, B), NEW c \in {p} \cup Fresh(g, h)
    PROVE  Kept(td, h, c, j, Widened(g, h, p, S), Widened(g, h, p, B))
<1> DEFINE F  == Fresh(g, h)
           S2 == Widened(g, h, p, S)
           B2 == Widened(g, h, p, B)
<1>1. Zone(h, j, S2, B2) /\ Zone(g, j, S, B)
  BY ZoneGrows DEF Kept
<1>2. /\ Blocks(g) \cap F = {} /\ p \in Blocks(g) /\ j \in S /\ S \subseteq Blocks(g) /\ B \subseteq S
      /\ c \in {p} \cup F
  BY <1>1 DEF Extends, Zone, Blocks, Fresh
<1>3. \A x \in Blocks(g) : (x \in S2 <=> x \in S) /\ (x \in B2 <=> x \in B)
  BY <1>2 DEF Widened
<1>4. (c \in S2 <=> p \in S) /\ (c \in B2 <=> p \in B)
  BY <1>2 DEF Widened
<1> HIDE DEF F, S2, B2
<1>5. ASSUME NEW i \in 1..Len(td), NEW b, td[i].do = "jump", Reaches(td, c, i, b)
      PROVE  Fits(j, S2, B2, b, td[i].to)
  <2>1. td[i].to \in Blocks(g)
    BY <1>5 DEF Named
  <2>2. CASE Reaches(td, p, i, b)
    <3>1. Fits(j, S, B, b, td[i].to) /\ b \in Blocks(g)
      BY <1>2, <1>5, <2>2, ReachedNamed DEF Kept
    <3> QED BY <1>3, <2>1, <3>1 DEF Fits
  <2>3. CASE ~Reaches(td, p, i, b)
    <3>1. b = c /\ Reaches(td, p, i, p)
      BY <1>5, <2>3 DEF Reaches
    <3>2. Fits(j, S, B, p, td[i].to)
      BY <1>5, <3>1 DEF Kept
    <3> QED BY <1>3, <1>4, <2>1, <3>1, <3>2 DEF Fits
  <2> QED BY <2>2, <2>3
<1> QED BY <1>1, <1>5 DEF Kept, S2, B2

\* A visitor has done the first entry.
LEMMA KeptPop ==
    ASSUME NEW td \in Seq(Entries), td # <<>>, NEW g, NEW p, NEW j, NEW S, NEW B, Kept(td, g, p, j, S, B)
    PROVE  Kept(Tail(td), g, IF td[1].do = "insert" THEN td[1].at ELSE p, j, S, B)
<1> DEFINE t == Tail(td)
           a == IF td[1].do = "insert" THEN td[1].at ELSE p
<1>1. /\ Len(td) \in Nat /\ Len(t) \in Nat /\ Len(t) = Len(td) - 1
      /\ \A i \in 1..Len(t) : t[i] = td[i + 1] /\ i + 1 \in 1..Len(td)
      /\ 1 \in 1..Len(td)
  BY HeadTailProperties, LenProperties, EmptySeq
<1> HIDE DEF t
<1>2. ASSUME NEW i \in 1..Len(t), NEW b, Reaches(t, a, i, b) PROVE Reaches(td, p, i + 1, b)
  <2>0. \A k \in 1..(i - 1) : t[k] = td[k + 1]
    BY <1>1
  <2>1. CASE b = a /\ \A k \in 1..(i - 1) : t[k].do # "insert"
    <3>1. ASSUME NEW k \in 1..((i + 1) - 1), k # 1 PROVE td[k].do # "insert"
      <4>1. k - 1 \in 1..(i - 1) /\ (k - 1) + 1 = k
        BY <3>1
      <4> QED BY <2>0, <2>1, <4>1
    <3>2. 1 \in 1..((i + 1) - 1)
      BY <1>1
    <3>3. CASE td[1].do = "insert"
      <4>1. \A m \in 1..((i + 1) - 1) : 1 < m => td[m].do # "insert"
        BY <3>1
      <4> QED BY <2>1, <3>2, <3>3, <4>1 DEF Reaches
    <3>4. CASE td[1].do # "insert"
      <4>1. \A k \in 1..((i + 1) - 1) : td[k].do # "insert"
        BY <3>1, <3>4
      <4> QED BY <2>1, <3>4, <4>1 DEF Reaches
    <3> QED BY <3>3, <3>4
  <2>2. CASE \E k \in 1..(i - 1) : /\ t[k].do = "insert" /\ t[k].at = b
                                   /\ \A m \in 1..(i - 1) : k < m => t[m].do # "insert"
    <3>1. PICK k \in 1..(i - 1) : /\ t[k].do = "insert" /\ t[k].at = b
                                  /\ \A m \in 1..(i - 1) : k < m => t[m].do # "insert"
      BY <2>2
    <3>2. k + 1 \in 1..((i + 1) - 1) /\ td[k + 1] = t[k]
      BY <1>1, <2>0
    <3>3. ASSUME NEW m \in 1..((i + 1) - 1), k + 1 < m PROVE td[m].do # "insert"
      <4>1. m - 1 \in 1..(i - 1) /\ k < m - 1 /\ (m - 1) + 1 = m
        BY <3>3
      <4> QED BY <2>0, <3>1, <4>1
    <3> QED BY <3>1, <3>2, <3>3 DEF Reaches
  <2> QED BY <1>2, <2>1, <2>2 DEF Reaches
<1>3. ASSUME NEW i \in 1..Len(t), NEW b, t[i].do = "jump", Reaches(t, a, i, b)
      PROVE  Fits(j, S, B, b, t[i].to)
  BY <1>1, <1>2, <1>3 DEF Kept
<1> QED BY <1>3 DEF Kept, t

\* A visitor puts its list, its jump and the block it goes on in in front.
LEMMA KeptPush ==
    ASSUME NEW td \in Seq(Entries), NEW g, NEW c \in Nat, NEW j, NEW S, NEW B, Kept(td, g, c, j, S, B),
           NEW l \in Nat, NEW z \in Nat, NEW a, Fits(j, S, B, a, z)
    PROVE  Kept(InFront(VisitList(l), JumpTo(z), ContinueAt(c), td), g, a, j, S, B)
<1> DEFINE t == InFront(VisitList(l), JumpTo(z), ContinueAt(c), td)
<1>1. Lined(t, VisitList(l), JumpTo(z), ContinueAt(c), td)
  <2>1. VisitList(l) \in Entries /\ JumpTo(z) \in Entries /\ ContinueAt(c) \in Entries
    BY DEF Entries
  <2> QED BY <2>1, Pushed
<1> HIDE DEF t
<1>2. /\ Len(td) \in Nat /\ \A i \in 1..Len(td) : t[i + 3] = td[i]
      /\ \A i \in 1..Len(t) : i = 1 \/ i = 2 \/ i = 3 \/ \E k \in 1..Len(td) : i = k + 3
      /\ t[1].do = "list" /\ t[2].do = "jump" /\ t[2].to = z /\ t[3].do = "insert" /\ t[3].at = c
  BY <1>1 DEF Lined, VisitList, JumpTo, ContinueAt
<1>3. ASSUME NEW b, Reaches(t, a, 2, b) PROVE b = a
  <2>1. \A k \in 1..(2 - 1) : t[k].do # "insert"
    BY <1>2
  <2> QED BY <1>3, <2>1 DEF Reaches
<1>4. ASSUME NEW i \in 1..Len(td), NEW b, Reaches(t, a, i + 3, b) PROVE Reaches(td, c, i, b)
  <2>0. \A k \in 1..(i - 1) : td[k] = t[k + 3] /\ k + 3 \in 1..((i + 3) - 1)
    BY <1>2
  <2>1. 3 \in 1..((i + 3) - 1)
    OBVIOUS
  <2>2. PICK k \in 1..((i + 3) - 1) :
            /\ t[k].do = "insert" /\ t[k].at = b
            /\ \A m \in 1..((i + 3) - 1) : k < m => t[m].do # "insert"
    BY <1>2, <1>4, <2>1 DEF Reaches
  <2>3. k \notin {1, 2}
    BY <1>2, <2>2
  <2>4. CASE k = 3
    <3>1. \A m \in 1..(i - 1) : td[m].do # "insert"
      <4>1. ASSUME NEW m \in 1..(i - 1) PROVE td[m].do # "insert"
        <5>1. 3 < m + 3
          OBVIOUS
        <5> QED BY <2>0, <2>2, <2>4, <5>1
      <4> QED BY <4>1
    <3> QED BY <1>2, <2>2, <2>4, <3>1 DEF Reaches
  <2>5. CASE k # 3
    <3>1. k - 3 \in 1..(i - 1) /\ (k - 3) + 3 = k
      BY <2>3, <2>5
    <3>2. ASSUME NEW m \in 1..(i - 1), k - 3 < m PROVE td[m].do # "insert"
      <4>1. k < m + 3
        BY <3>2
      <4> QED BY <2>0, <2>2, <4>1
    <3>3. td[k - 3] = t[k]
      BY <2>0, <3>1
    <3> QED BY <2>2, <3>1, <3>2, <3>3 DEF Reaches
  <2> QED BY <2>4, <2>5
<1>5. ASSUME NEW i \in 1..Len(t), NEW b, t[i].do = "jump", Reaches(t, a, i, b)
      PROVE  Fits(j, S, B, b, t[i].to)
  <2>1. CASE i = 2
    BY <1>2, <1>3, <1>5, <2>1
  <2>2. CASE \E k \in 1..Len(td) : i = k + 3
    <3>1. PICK k \in 1..Len(td) : i = k + 3
      BY <2>2
    <3> QED BY <1>2, <1>4, <1>5, <3>1 DEF Kept
  <2> QED BY <1>2, <1>5, <2>1, <2>2
<1> QED BY <1>5 DEF Kept, t

LEMMA ZoneJump ==
    ASSUME NEW g, NEW h, Routed(g), NEW p \in Blocks(g), NEW z \in Blocks(g), h.n = g.n,
           g.term[p] = Open, h.term[p] = JumpTerm(z),
           \A b \in Blocks(g) : b # p => h.term[b] = g.term[b],
           NEW j, NEW S, NEW B, Zone(g, j, S, B), Fits(j, S, B, p, z)
    PROVE  Zone(h, j, S, B)
<1>1. /\ Blocks(h) = Blocks(g) /\ Succ(h, p) = {z} /\ Succ(g, p) = {}
      /\ \A x \in Blocks(g) : x # p => Succ(h, x) = Succ(g, x) /\ h.term[x] = g.term[x]
  BY SuccOfJump, NoSucc, SameSucc DEF Blocks
<1>2. S \subseteq Blocks(g) /\ B \subseteq S /\ j \in S \ B /\ Entry \notin S
  BY DEF Zone
<1>3. (z \in S <=> p \in S) /\ (p \in B <=> z \in B \/ z = j)
  BY DEF Fits
<1>4. PICK q \in S \ B : Gate(g, j, S, B, q)
  BY DEF Zone
<1>5. ASSUME NEW x \in Blocks(h) \ S, NEW y \in Succ(h, x) \cap S
      PROVE  y = j /\ x \in Blocks(g) \ S /\ Succ(h, x) = Succ(g, x)
  BY <1>1, <1>3, <1>5 DEF Zone
<1>6. \A x, y \in Blocks(h) \ S : j \in Succ(h, x) /\ j \in Succ(h, y) => x = y
  BY <1>2, <1>5 DEF Zone
<1>7. \A x \in S : j \in Succ(h, x) => x \in B
  BY <1>1, <1>2, <1>3 DEF Zone
<1>8. ASSUME NEW x \in Blocks(h) \ B, Succ(h, x) \cap B # {} PROVE x = q
  <2>1. x # p
    BY <1>1, <1>3, <1>8
  <2> QED BY <1>1, <1>4, <1>8, <2>1 DEF Gate
<1>9. ASSUME NEW x \in S, NEW y \in Succ(h, x) \ S
      PROVE  x = q /\ h.term[x].kind = "cond" /\ h.term[x].yes = j + 1
  <2>1. x # p
    BY <1>1, <1>3, <1>9
  <2> QED BY <1>1, <1>2, <1>4, <1>9, <2>1 DEF Gate
<1>10. Gate(h, j, S, B, q)
  BY <1>8, <1>9 DEF Gate
<1> QED BY <1>1, <1>2, <1>4, <1>5, <1>6, <1>7, <1>10 DEF Zone

\* A loop starts a zone, to which nothing belongs that was there before.
LEMMA ZoneStarts ==
    ASSUME NEW td, NEW g, NEW h, Routed(g), Routed(h), NEW p, Named(td, g, p), NEW k,
           NEW indexed \in BOOLEAN, Looped(g, h, p, k, indexed), Extends(g, h, p)
    PROVE  \E S, B : /\ Kept(td, h, g.n + 3, g.n + 1, S, B)
                     /\ Fits(g.n + 1, S, B, g.n + 2, g.n + 1)
<1> DEFINE judge == g.n + 1
           body  == g.n + 2
           out   == g.n + 3
           error == g.n + 4
           end   == g.n + 5
           S     == IF indexed THEN {judge, body, error, end} ELSE {judge, body}
           B     == {body}
           q     == IF indexed THEN end ELSE judge
<1>1. /\ g.n \in Nat /\ h.n \in Nat /\ judge \in Nat /\ body \in Nat /\ judge + 1 = body
      /\ indexed => h.n = end
      /\ ~indexed => h.n = out
  BY DEF Looped, Routed
<1>2. /\ judge # body /\ judge # out /\ judge # error /\ judge # end /\ body # out /\ body # error /\ body # end
      /\ out # error /\ out # end /\ error # end
  BY <1>1
<1>3. Blocks(h) = Blocks(g) \cup IF indexed THEN {judge, body, out, error, end} ELSE {judge, body, out}
  <2>1. CASE indexed
    <3>1. 1..(g.n + 5) = (1..g.n) \cup {judge, body, out, error, end}
      BY <1>1
    <3> QED BY <1>1, <2>1, <3>1 DEF Blocks
  <2>2. CASE ~indexed
    <3>1. 1..(g.n + 3) = (1..g.n) \cup {judge, body, out}
      BY <1>1
    <3> QED BY <1>1, <2>2, <3>1 DEF Blocks
  <2> QED BY <2>1, <2>2
<1>4. judge \notin Blocks(g) /\ body \notin Blocks(g) /\ error \notin Blocks(g) /\ end \notin Blocks(g)
      /\ out \notin Blocks(g) /\ Entry \in Blocks(g) /\ p \in Blocks(g)
  <2>1. Entry \in Blocks(g) /\ p \in Blocks(g)
    BY DEF Routed, Named
  <2>2. \A x \in Blocks(g) : x \in Nat /\ x <= g.n
    BY <1>1 DEF Blocks
  <2>3. /\ ~(judge <= g.n) /\ ~(body <= g.n) /\ ~(error <= g.n) /\ ~(end <= g.n) /\ ~(out <= g.n)
    BY <1>1
  <2> HIDE DEF judge, body, out, error, end
  <2> QED BY <2>1, <2>2, <2>3
<1>5. ASSUME NEW x \in Blocks(g)
      PROVE  \/ Succ(h, x) \subseteq Blocks(g)
             \/ x = p /\ Succ(h, x) = {judge}
  <2>1. CASE h.term[x] = g.term[x]
    BY <2>1, SameSucc DEF Routed
  <2>2. CASE h.term[x] # g.term[x]
    <3>1. x = p /\ h.term[p] = JumpTerm(judge)
      BY <2>2 DEF Looped, SameTerms
    <3> QED BY <3>1, SuccOfJump
  <2> QED BY <2>1, <2>2
<1>6. Succ(h, body) = {} /\ Succ(h, out) = {}
  BY NoSucc DEF Looped
<1>7. indexed => /\ Succ(h, judge) = {end, error} /\ Succ(h, error) = {end}
  <2>1. indexed => h.term[judge] = CondTerm(IndexTest(k), end, error) /\ h.term[error] = JumpTerm(end)
    BY DEF Looped
  <2> QED BY <2>1, SuccOfCond, SuccOfJump
<1>8. Succ(h, q) = {body, out} /\ h.term[q].kind = "cond" /\ h.term[q].yes = body
  <2>1. h.term[q] = CondTerm(CondTest(k), body, out)
    BY DEF Looped
  <2> HIDE DEF q, body, out
  <2> QED BY <2>1, SuccOfCond DEF CondTerm
<1> HIDE DEF judge, body, out, error, end
<1>9. S \subseteq Blocks(h) /\ B \subseteq S /\ judge \in S \ B /\ Entry \notin S /\ q \in S \ B
  BY <1>2, <1>3, <1>4
<1>10. ASSUME NEW x \in Blocks(h) \ S, NEW y \in Succ(h, x) \cap S
       PROVE  x = p /\ y = judge
  <2>1. x \in Blocks(g) \/ x = out
    BY <1>3, <1>10
  <2> QED BY <1>4, <1>5, <1>6, <1>10, <2>1
<1>11. ASSUME NEW x \in Blocks(h) \ B, Succ(h, x) \cap B # {} PROVE x = q
  <2>1. CASE x \in Blocks(g)
    BY <1>2, <1>4, <1>5, <1>11, <2>1
  <2>2. CASE x \notin Blocks(g)
    BY <1>2, <1>3, <1>6, <1>7, <1>11, <2>2
  <2> QED BY <2>1, <2>2
<1>12. ASSUME NEW x \in S PROVE judge \notin Succ(h, x) /\ \A y \in Succ(h, x) \ S : x = q
  <2>1. CASE indexed
    BY <1>2, <1>6, <1>7, <1>8, <2>1
  <2>2. CASE ~indexed
    BY <1>2, <1>6, <1>8, <2>2
  <2> QED BY <2>1, <2>2
<1>13. Gate(h, judge, S, B, q)
  <2>1. \A x \in S : \A y \in Succ(h, x) \ S : x = q /\ h.term[x].kind = "cond" /\ h.term[x].yes = judge + 1
    BY <1>1, <1>8, <1>12
  <2> HIDE DEF S, B, q
  <2> QED BY <1>11, <2>1 DEF Gate
<1> HIDE DEF q
<1>14. Zone(h, judge, S, B)
  <2> HIDE DEF S, B
  <2> QED BY <1>9, <1>10, <1>12, <1>13 DEF Zone
<1>15. ASSUME NEW i \in 1..Len(td), NEW b, td[i].do = "jump", Reaches(td, out, i, b)
       PROVE  Fits(judge, S, B, b, td[i].to)
  <2>1. td[i].to \in Blocks(g) /\ (b \in Blocks(g) \/ b = out)
    BY <1>15, ReachedNamed DEF Named
  <2>2. td[i].to \notin S /\ td[i].to # judge /\ b \notin S
    BY <1>2, <1>4, <2>1
  <2> HIDE DEF S, B
  <2> QED BY <1>9, <2>2 DEF Fits
<1>16. Fits(judge, S, B, body, judge)
  BY <1>2 DEF Fits
<1>17. Kept(td, h, out, judge, S, B)
  BY <1>14, <1>15 DEF Kept
<1> HIDE DEF S, B
<1> QED BY <1>16, <1>17 DEF judge, body, out

-----------------------------------------------------------------------------
(* Order and zones are kept by every step of the builder.                  *)

Zoned(td, g, p, J) == \A j \in J : \E S, B : Kept(td, g, p, j, S, B)

\* What the visitors td will make of g, inserting into p, is a structured
\* function, with a loop at each block of J.
Planned(td, g, p, J) == Led(td, g, {p}, J) /\ Zoned(td, g, p, J)

\* A structured function.
Laid(g, J) ==
    /\ \E r \in [Nat -> Nat] : Ranked(g, r, J)
    /\ \A j \in J : \E S, B : Zone(g, j, S, B)

\* The function has an order in which what is still to be visited is ahead, and
\* its loops have zones.
Structured ==
    \E J : IF outcome = "running" THEN Planned(todo, cfg, cur, J) ELSE Laid(cfg, J)

LEMMA PlannedLaid ==
    ASSUME NEW J, NEW td, NEW g, NEW p, Planned(td, g, p, J)
    PROVE  Laid(g, J)
BY DEF Planned, Led, Zoned, Kept, Laid

\* Growing the function, without a loop.
LEMMA ZonedGrows ==
    ASSUME NEW J, NEW td, NEW g, NEW h, NEW p, Planned(td, g, p, J), Extends(g, h, p),
           NEW c \in {p} \cup Fresh(g, h)
    PROVE  Zoned(td, h, c, J)
<1>1. Named(td, g, p)
  BY LedNamed DEF Planned
<1>2. ASSUME NEW j \in J PROVE \E S, B : Kept(td, h, c, j, S, B)
  <2>1. PICK S, B : Kept(td, g, p, j, S, B)
    BY DEF Planned, Zoned
  <2> QED BY <1>1, <2>1, KeptGrows
<1> QED BY <1>2 DEF Zoned

LEMMA PlannedByIndex ==
    ASSUME NEW J, NEW td, NEW g, Sound(g, Tests, Instrs), Entry \in Blocks(g), NEW p \in OpenBlocks(g),
           NEW k \in Nat, NEW indexed \in BOOLEAN, Planned(td, g, p, J)
    PROVE  Planned(td, Indexed(g, p, k, indexed), BlockBehind(g, p, indexed), J)
<1> DEFINE h  == Indexed(g, p, k, indexed)
           at == BlockBehind(g, p, indexed)
<1>1. Led(td, g, {p}, J)
  BY DEF Planned
<1>2. Led(td, h, {at}, J)
  BY <1>1, LedByIndex
<1>3. InOrder(g, h, p, ByNumber(g, h)) /\ at \in {p} \cup Fresh(g, h)
  BY <1>1, IndexedInOrder DEF Led
<1> HIDE DEF h, at
<1>4. Zoned(td, h, at, J)
  BY <1>3, ZonedGrows DEF InOrder
<1> QED BY <1>2, <1>4 DEF Planned, h, at

\* Code, or a terminator without targets.
LEMMA PlannedSame ==
    ASSUME NEW J, NEW td, NEW g, NEW h, NEW p \in Blocks(g), Routed(g), Routed(h), h.n = g.n,
           SameTerms(g, h, Blocks(g) \ {p}),
           h.term[p] = g.term[p] \/ (g.term[p] = Open /\ h.term[p] = RetTerm),
           Planned(td, g, p, J)
    PROVE  Planned(td, h, p, J)
<1>1. Led(td, g, {p}, J)
  BY DEF Planned
<1>2. Led(td, h, {p}, J)
  BY <1>1, LedSame
<1>3. InOrder(g, h, p, ByNumber(g, h))
  BY <1>1, SameInOrder DEF Led
<1>4. Zoned(td, h, p, J)
  BY <1>3, ZonedGrows DEF InOrder
<1> QED BY <1>2, <1>4 DEF Planned

\* Two new blocks, and what is in front of one, are in the same zones.
LEMMA FreshFits ==
    ASSUME NEW g, NEW h, NEW p, Extends(g, h, p), NEW j, NEW S, NEW B, Zone(g, j, S, B),
           NEW a \in Fresh(g, h), NEW z \in Fresh(g, h)
    PROVE  Fits(j, Widened(g, h, p, S), Widened(g, h, p, B), a, z)
<1>1. S \subseteq Blocks(g) /\ B \subseteq S /\ j \in S /\ Blocks(g) \cap Fresh(g, h) = {}
  BY DEF Zone, Fresh
<1> QED BY <1>1 DEF Fits, Widened

LEMMA PlannedByIf ==
    ASSUME NEW J, NEW td, NEW g, Sound(g, Tests, Instrs), Entry \in Blocks(g), NEW p \in OpenBlocks(g),
           NEW k \in Nat, NEW l \in Nat, Planned(td, g, p, J)
    PROVE  Planned(InFront(VisitList(l), JumpTo(g.n + 2), ContinueAt(g.n + 2), td),
                   AddCondJump(AddBlock(AddBlock(g)), p, CondTest(k), g.n + 1, g.n + 2), g.n + 1, J)
<1> DEFINE true == g.n + 1
           next == g.n + 2
           h == AddCondJump(AddBlock(AddBlock(g)), p, CondTest(k), true, next)
           t == InFront(VisitList(l), JumpTo(next), ContinueAt(next), td)
<1>1. Led(td, g, {p}, J)
  BY DEF Planned
<1>2. Led(t, h, {true}, J)
  BY <1>1, LedByIf
<1>3. InOrder(g, h, p, ByNumber(g, h)) /\ g.n \in Nat /\ h.n = g.n + 2
  BY IfInOrder
<1> HIDE DEF h
<1>4. Extends(g, h, p) /\ true \in Fresh(g, h) /\ next \in Fresh(g, h) /\ next \in Nat /\ Named(td, g, p)
  BY <1>1, <1>3, LedNamed DEF InOrder, Fresh, Blocks
<1> HIDE DEF true, next
<1>5. ASSUME NEW j \in J PROVE \E S, B : Kept(t, h, true, j, S, B)
  <2>1. PICK S, B : Kept(td, g, p, j, S, B)
    BY DEF Planned, Zoned
  <2> DEFINE S2 == Widened(g, h, p, S)
             B2 == Widened(g, h, p, B)
  <2>2. Kept(td, h, next, j, S2, B2)
    BY <1>4, <2>1, KeptGrows
  <2>3. Fits(j, S2, B2, true, next)
    BY <1>4, <2>1, FreshFits DEF Kept
  <2> HIDE DEF S2, B2
  <2>4. Kept(t, h, true, j, S2, B2)
    BY <1>4, <2>2, <2>3, KeptPush DEF Named
  <2> QED BY <2>4
<1> QED BY <1>2, <1>5 DEF Planned, Zoned, h, true, next

LEMMA PlannedByIfElse ==
    ASSUME NEW J, NEW td, NEW g, Sound(g, Tests, Instrs), Entry \in Blocks(g), NEW p \in OpenBlocks(g),
           NEW k \in Nat, NEW l \in Nat, NEW m \in Nat, Planned(td, g, p, J)
    PROVE  Planned(InFront(VisitList(l), JumpTo(g.n + 3), ContinueAt(g.n + 1),
                           InFront(VisitList(m), JumpTo(g.n + 3), ContinueAt(g.n + 3), td)),
                   AddCondJump(AddBlock(AddBlock(AddBlock(g))), p, CondTest(k), g.n + 1, g.n + 2), g.n + 2, J)
<1> DEFINE true  == g.n + 1
           false == g.n + 2
           next  == g.n + 3
           h == AddCondJump(AddBlock(AddBlock(AddBlock(g))), p, CondTest(k), true, false)
           t == InFront(VisitList(m), JumpTo(next), ContinueAt(next), td)
           u == InFront(VisitList(l), JumpTo(next), ContinueAt(true), t)
<1>1. Led(td, g, {p}, J)
  BY DEF Planned
<1>2. Led(u, h, {false}, J)
  BY <1>1, LedByIfElse
<1>3. InOrder(g, h, p, ElseFirst(g, h)) /\ g.n \in Nat /\ h.n = g.n + 3
  BY IfElseInOrder
<1> HIDE DEF h
<1>4. /\ Extends(g, h, p) /\ true \in Fresh(g, h) /\ false \in Fresh(g, h) /\ next \in Fresh(g, h)
      /\ true \in Nat /\ next \in Nat /\ Named(td, g, p)
  BY <1>1, <1>3, LedNamed DEF InOrder, Fresh, Blocks
<1> HIDE DEF true, false, next
<1>0. td \in Seq(Entries) /\ t \in Seq(Entries)
  <2>1. VisitList(m) \in Entries /\ JumpTo(next) \in Entries /\ ContinueAt(next) \in Entries
    BY <1>4 DEF Entries
  <2> QED BY <1>4, <2>1, Pushed DEF Lined, Named
<1>5. ASSUME NEW j \in J PROVE \E S, B : Kept(u, h, false, j, S, B)
  <2>1. PICK S, B : Kept(td, g, p, j, S, B)
    BY DEF Planned, Zoned
  <2> DEFINE S2 == Widened(g, h, p, S)
             B2 == Widened(g, h, p, B)
  <2>2. Kept(td, h, next, j, S2, B2)
    BY <1>4, <2>1, KeptGrows
  <2>3. Fits(j, S2, B2, true, next) /\ Fits(j, S2, B2, false, next)
    BY <1>4, <2>1, FreshFits DEF Kept
  <2> HIDE DEF S2, B2
  <2>4. Kept(t, h, true, j, S2, B2)
    BY <1>0, <1>4, <2>2, <2>3, KeptPush
  <2> HIDE DEF t
  <2>5. Kept(u, h, false, j, S2, B2)
    BY <1>0, <1>4, <2>3, <2>4, KeptPush
  <2> QED BY <2>5
<1> QED BY <1>2, <1>5 DEF Planned, Zoned, h, t, u, true, false, next

LEMMA LedMore ==
    ASSUME NEW J, NEW K, J \subseteq K, NEW td, NEW g, NEW A, Led(td, g, A, J)
    PROVE  Led(td, g, A, K)
<1>1. \A c : Plain(g, c, J) => Plain(g, c, K)
  BY DEF Plain
<1>2. ASSUME NEW r, Ranked(g, r, J) PROVE Ranked(g, r, K)
  BY <1>1, <1>2 DEF Ranked
<1>3. ASSUME NEW r, Ahead(td, g, A, r, J) PROVE Ahead(td, g, A, r, K)
  BY <1>1, <1>3 DEF Ahead
<1> QED BY <1>2, <1>3 DEF Led

\* A loop is one more block with a zone.
LEMMA PlannedByWhile ==
    ASSUME NEW J, NEW td, NEW g, NEW h, Routed(g), Routed(h), NEW p \in Blocks(g), NEW k,
           NEW indexed \in BOOLEAN, Looped(g, h, p, k, indexed), NEW l \in Nat, Planned(td, g, p, J)
    PROVE  Planned(InFront(VisitList(l), JumpTo(g.n + 1), ContinueAt(g.n + 3), td), h, g.n + 2, J \cup {g.n + 1})
<1> DEFINE judge == g.n + 1
           body  == g.n + 2
           out   == g.n + 3
           t     == InFront(VisitList(l), JumpTo(judge), ContinueAt(out), td)
           K     == J \cup {judge}
<1>1. Led(td, g, {p}, K) /\ Named(td, g, p)
  BY LedMore, LedNamed DEF Planned
<1>2. Led(t, h, {body}, K)
  BY <1>1, LedByWhile
<1>3. Extends(g, h, p)
  <2>1. PICK r : Ranked(g, r, K)
    BY <1>1, LedRanked
  <2>2. g.n + 1 \in K
    OBVIOUS
  <2> HIDE DEF K
  <2> QED BY <2>1, <2>2, LoopInOrder DEF InOrder
<1>4. /\ judge \in Fresh(g, h) /\ body \in Fresh(g, h) /\ out \in Fresh(g, h) /\ judge \in Nat /\ out \in Nat
      /\ td \in Seq(Entries)
  <2>1. g.n \in Nat /\ h.n \in Nat /\ (h.n = g.n + 5 \/ h.n = g.n + 3)
    BY DEF Looped, Routed
  <2>2. td \in Seq(Entries)
    BY <1>1 DEF Named
  <2>3. judge \in Nat /\ body \in Nat /\ out \in Nat /\ out <= h.n
    BY <2>1
  <2>4. judge \in 1..h.n /\ body \in 1..h.n /\ out \in 1..h.n
    BY <2>1, <2>3
  <2>5. judge \notin 1..g.n /\ body \notin 1..g.n /\ out \notin 1..g.n
    BY <2>1
  <2> HIDE DEF judge, body, out
  <2> QED BY <2>2, <2>3, <2>4, <2>5 DEF Fresh, Blocks
<1>5. PICK S1, B1 : Kept(td, h, out, judge, S1, B1) /\ Fits(judge, S1, B1, body, judge)
  BY <1>1, <1>3, ZoneStarts
<1> HIDE DEF judge, body, out
<1>6. Kept(t, h, body, judge, S1, B1)
  BY <1>4, <1>5, KeptPush
<1>7. ASSUME NEW j \in J PROVE \E S, B : Kept(t, h, body, j, S, B)
  <2>1. PICK S, B : Kept(td, g, p, j, S, B)
    BY DEF Planned, Zoned
  <2> DEFINE S2 == Widened(g, h, p, S)
             B2 == Widened(g, h, p, B)
  <2>2. Kept(td, h, out, j, S2, B2)
    BY <1>1, <1>3, <1>4, <2>1, KeptGrows
  <2>3. Fits(j, S2, B2, body, judge)
    BY <1>3, <1>4, <2>1, FreshFits DEF Kept
  <2> HIDE DEF S2, B2
  <2>4. Kept(t, h, body, j, S2, B2)
    BY <1>4, <2>2, <2>3, KeptPush
  <2> QED BY <2>4
<1>8. Zoned(t, h, body, K)
  BY <1>6, <1>7 DEF Zoned
<1> QED BY <1>2, <1>8 DEF Planned, judge, body, out

\* The jump of a visitor, from an open block.
LEMMA PlannedByJump ==
    ASSUME NEW J, NEW td, td # <<>>, td[1].do = "jump", NEW g, Sound(g, Tests, Instrs), Entry \in Blocks(g),
           NEW p \in OpenBlocks(g), NEW pr, Orderly(td, OpenBlocks(g), g.n, p, pr), Planned(td, g, p, J)
    PROVE  Planned(td, AddJump(g, p, td[1].to), p, J)
<1> DEFINE z == td[1].to
           h == AddJump(g, p, z)
<1>1. Led(td, g, {p}, J) /\ Named(td, g, p)
  BY LedNamed DEF Planned
<1>2. Led(td, h, {p}, J)
  BY <1>1, LedByJump
<1>3. td \in Seq(Entries) /\ 1 \in 1..Len(td) /\ z \in Blocks(g)
  <2>1. td \in Seq(Entries) /\ 1 \in 1..Len(td)
    BY <1>1, LenProperties, EmptySeq DEF Named
  <2> QED BY <1>1, <2>1 DEF Named
<1>4. h.n = g.n /\ Ended(g, h, p, JumpTerm(z))
  BY <1>3, AddJumpSound
<1> HIDE DEF h
<1>5. /\ p \in Blocks(g) /\ g.term[p] = Open /\ h.term[p] = JumpTerm(z) /\ Routed(g)
      /\ \A b \in Blocks(g) : b # p => h.term[b] = g.term[b]
  BY <1>4, SoundRouted DEF OpenBlocks, Ended, SameTerms
<1>6. Reaches(td, p, 1, p)
  <2>1. \A k \in 1..(1 - 1) : td[k].do # "insert"
    OBVIOUS
  <2> QED BY <2>1 DEF Reaches
<1>7. ASSUME NEW j \in J PROVE \E S, B : Kept(td, h, p, j, S, B)
  <2>1. PICK S, B : Kept(td, g, p, j, S, B)
    BY DEF Planned, Zoned
  <2>2. Fits(j, S, B, p, z)
    BY <1>3, <1>6, <2>1 DEF Kept
  <2> HIDE DEF z
  <2>3. Zone(h, j, S, B)
    BY <1>3, <1>4, <1>5, <2>1, <2>2, ZoneJump DEF Kept
  <2>4. Kept(td, h, p, j, S, B)
    BY <2>1, <2>3 DEF Kept
  <2> QED BY <2>4
<1> QED BY <1>2, <1>7 DEF Planned, Zoned, h

LEMMA PlannedPop ==
    ASSUME NEW J, NEW td, td # <<>>, NEW g, NEW p, Planned(td, g, p, J)
    PROVE  Planned(Tail(td), g, IF td[1].do = "insert" THEN td[1].at ELSE p, J)
<1> DEFINE a == IF td[1].do = "insert" THEN td[1].at ELSE p
<1>1. Led(td, g, {p}, J) /\ td \in Seq(Entries)
  BY LedNamed DEF Planned, Named
<1>2. {a} \subseteq IF td[1].do = "insert" THEN {p} \cup {td[1].at} ELSE {p}
  OBVIOUS
<1> HIDE DEF a
<1>3. Led(Tail(td), g, {a}, J)
  BY <1>1, <1>2, PopAhead DEF Led
<1>4. Zoned(Tail(td), g, a, J)
  BY <1>1, KeptPop DEF Planned, Zoned, a
<1> QED BY <1>3, <1>4 DEF Planned, a

LEMMA InitStructured == Init => Structured
<1> SUFFICES ASSUME Init PROVE Structured
  OBVIOUS
<1> DEFINE r == [x \in Nat |-> 0]
<1>1. /\ outcome = "running" /\ todo = <<VisitList(1)>> /\ cfg.n = 1 /\ cur = 1
      /\ cfg.term[1] = Open
  BY DEF Init, AddBlock, EmptyGraph, Entry
<1>2. r \in [Nat -> Nat]
  OBVIOUS
<1> HIDE DEF r
<1>3. Blocks(cfg) = {1}
  BY <1>1 DEF Blocks
<1>4. Succ(cfg, 1) = {} /\ cfg.term[1].kind # "cond"
  BY <1>1, NoSucc
<1>5. Ranked(cfg, r, {})
  BY <1>3, <1>4 DEF Ranked
<1>6. VisitList(1) \in Entries /\ VisitList(1).do = "list"
  BY DEF Entries, VisitList
<1>7. todo \in Seq(Entries) /\ Len(todo) = 1 /\ todo[1].do = "list"
  BY <1>1, <1>6
<1>8. Ahead(todo, cfg, {cur}, r, {})
  BY <1>1, <1>3, <1>7 DEF Ahead
<1>9. Planned(todo, cfg, cur, {})
  BY <1>2, <1>5, <1>8 DEF Planned, Led, Zoned
<1> QED BY <1>1, <1>9 DEF Structured

\* What every visitor of a statement starts from.
LEMMA VisitorStarts ==
    ASSUME BuilderInv, Structured, NEW node, NEW kids, Draw(node, kids)
    PROVE  /\ outcome = "running" /\ (\E J : Planned(todo, cfg, cur, J)) /\ todo \in Seq(Entries)
           /\ nodes + 1 \in Nat /\ Len(program) + 1 \in Nat
BY BuilderGraph DEF Draw, Visiting, Structured

\* The assertion leaves the function as it is.
LEMMA AbortStructured ==
    ASSUME BuilderInv, Structured, NEW node, NEW kids, Draw(node, kids), Abort
    PROVE  Structured'
<1>1. \E J : Laid(cfg, J)
  BY VisitorStarts, PlannedLaid
<1> QED BY <1>1 DEF Abort, Structured

\* The check of an index, from an open block.
LEMMA CheckedPlanned ==
    ASSUME NEW J, NEW td, NEW g, Sound(g, Tests, Instrs), Entry \in Blocks(g), NEW p \in Blocks(g),
           ~IsTerminated(g, p), NEW k \in Nat, NEW indexed \in BOOLEAN, Planned(td, g, p, J)
    PROVE  LET h  == Indexed(g, p, k, indexed)
               at == BlockBehind(g, p, indexed)
           IN  /\ Sound(h, Tests, Instrs) /\ Entry \in Blocks(h) /\ at \in OpenBlocks(h)
               /\ at \in Blocks(h) /\ h.term[at] = Open /\ Routed(h) /\ Planned(td, h, at, J)
<1> DEFINE h  == Indexed(g, p, k, indexed)
           at == BlockBehind(g, p, indexed)
<1>1. p \in OpenBlocks(g)
  BY OpenAndTerminated
<1>2. Sound(h, Tests, Instrs) /\ at \in OpenBlocks(h)
  BY <1>1, IndexedSound
<1>3. Planned(td, h, at, J)
  BY <1>1, PlannedByIndex
<1>4. Entry \in Blocks(h)
  <2>1. PICK r : Ranked(g, r, J)
    BY LedRanked DEF Planned
  <2> QED BY <1>1, <2>1, IndexedInOrder
<1> HIDE DEF h, at
<1>5. at \in Blocks(h) /\ h.term[at] = Open
  BY <1>2 DEF OpenBlocks
<1>6. Routed(h)
  BY <1>2, <1>4, SoundRouted
<1> QED BY <1>2, <1>3, <1>4, <1>5, <1>6 DEF h, at

LEMMA ExpressionStructured ==
    ASSUME BuilderInv, Structured, NEW e \in Payload, NEW indexed \in Indexing,
           VisitExpression(e, indexed)
    PROVE  Structured'
<1> DEFINE k    == nodes + 1
           node == [is |-> "expr", id |-> k, index |-> indexed, does |-> e]
           g    == Indexed(cfg, cur, k, indexed)
           at   == BlockBehind(cfg, cur, indexed)
           h    == AddCode(g, at, Effect(e, k))
<1>1. Draw(node, 0)
  BY DEF VisitExpression
<1>2. CASE IsTerminated(cfg, cur)
  <2>1. Abort
    BY <1>2 DEF VisitExpression
  <2> QED BY <1>1, <2>1, AbortStructured
<1>3. CASE ~IsTerminated(cfg, cur)
  <2>1. cfg' = h /\ cur' = at /\ todo' = todo /\ outcome' = outcome
    BY <1>3 DEF VisitExpression
  <2>2. outcome = "running" /\ (\E J : Planned(todo, cfg, cur, J)) /\ k \in Nat
    BY <1>1, VisitorStarts
  <2>0. PICK J : Planned(todo, cfg, cur, J)
    BY <2>2
  <2>3. indexed \in BOOLEAN /\ Effect(e, k) \in Instrs
    BY <2>2, BuilderAssumption DEF Effect, Instrs
  <2> HIDE DEF k
  <2>4. /\ Sound(g, Tests, Instrs) /\ at \in Blocks(g) /\ Entry \in Blocks(g) /\ Routed(g)
        /\ Planned(todo, g, at, J)
    BY <1>3, <2>0, <2>2, <2>3, BuilderGraph, CheckedPlanned
  <2> HIDE DEF g, at
  <2>5. Sound(h, Tests, Instrs) /\ h.n = g.n /\ SameTerms(g, h, Blocks(g))
    BY <2>3, <2>4, AddCodeSound
  <2> HIDE DEF h
  <2>6. Routed(h) /\ SameTerms(g, h, Blocks(g) \ {at}) /\ h.term[at] = g.term[at]
    BY <2>4, <2>5, SoundRouted DEF SameTerms, Blocks
  <2>7. Planned(todo, h, at, J)
    BY <2>4, <2>5, <2>6, PlannedSame
  <2> QED BY <2>1, <2>2, <2>7 DEF Structured
<1> QED BY <1>2, <1>3

LEMMA ReturnStructured ==
    ASSUME BuilderInv, Structured, NEW indexed \in Indexing, VisitReturn(indexed)
    PROVE  Structured'
<1> DEFINE k    == nodes + 1
           node == [is |-> "return", id |-> k, index |-> indexed]
           g    == Indexed(cfg, cur, k, indexed)
           at   == BlockBehind(cfg, cur, indexed)
           h    == AddReturn(g, at)
<1>1. Draw(node, 0)
  BY DEF VisitReturn
<1>2. CASE IsTerminated(cfg, cur)
  <2>1. Abort
    BY <1>2 DEF VisitReturn
  <2> QED BY <1>1, <2>1, AbortStructured
<1>3. CASE ~IsTerminated(cfg, cur)
  <2>1. cfg' = h /\ cur' = at /\ todo' = todo /\ outcome' = outcome
    BY <1>3 DEF VisitReturn
  <2>2. outcome = "running" /\ (\E J : Planned(todo, cfg, cur, J)) /\ k \in Nat
    BY <1>1, VisitorStarts
  <2>0. PICK J : Planned(todo, cfg, cur, J)
    BY <2>2
  <2>3. indexed \in BOOLEAN
    BY BuilderAssumption
  <2> HIDE DEF k
  <2>4. /\ Sound(g, Tests, Instrs) /\ at \in OpenBlocks(g) /\ at \in Blocks(g) /\ g.term[at] = Open
        /\ Entry \in Blocks(g) /\ Routed(g) /\ Planned(todo, g, at, J)
    BY <1>3, <2>0, <2>2, <2>3, BuilderGraph, CheckedPlanned
  <2> HIDE DEF g, at
  <2>5. Sound(h, Tests, Instrs) /\ h.n = g.n /\ Ended(g, h, at, RetTerm)
    BY <2>4, AddReturnSound
  <2> HIDE DEF h
  <2>6. Routed(h) /\ SameTerms(g, h, Blocks(g) \ {at}) /\ h.term[at] = RetTerm
    BY <2>4, <2>5, SoundRouted DEF Ended, Blocks
  <2>7. Planned(todo, h, at, J)
    BY <2>4, <2>5, <2>6, PlannedSame
  <2> QED BY <2>1, <2>2, <2>7 DEF Structured
<1> QED BY <1>2, <1>3

LEMMA IfStructured ==
    ASSUME BuilderInv, Structured, NEW indexed \in Indexing, VisitIf(indexed)
    PROVE  Structured'
<1> DEFINE k    == nodes + 1
           l    == Len(program) + 1
           node == [is |-> "if", id |-> k, index |-> indexed, then |-> l]
           g    == Indexed(cfg, cur, k, indexed)
           at   == BlockBehind(cfg, cur, indexed)
<1>1. Draw(node, 1)
  BY DEF VisitIf
<1>2. CASE IsTerminated(cfg, cur)
  <2>1. Abort
    BY <1>2 DEF VisitIf
  <2> QED BY <1>1, <2>1, AbortStructured
<1>3. CASE ~IsTerminated(cfg, cur)
  <2>1. /\ cfg' = AddCondJump(AddBlock(AddBlock(g)), at, CondTest(k), g.n + 1, g.n + 2)
        /\ cur' = g.n + 1 /\ outcome' = outcome
        /\ todo' = InFront(VisitList(l), JumpTo(g.n + 2), ContinueAt(g.n + 2), todo)
    BY <1>3 DEF VisitIf, InFront
  <2>2. outcome = "running" /\ (\E J : Planned(todo, cfg, cur, J)) /\ k \in Nat /\ l \in Nat
    BY <1>1, VisitorStarts
  <2>0. PICK J : Planned(todo, cfg, cur, J)
    BY <2>2
  <2>3. indexed \in BOOLEAN
    BY BuilderAssumption
  <2> HIDE DEF k, l
  <2>4. /\ Sound(g, Tests, Instrs) /\ at \in OpenBlocks(g) /\ Entry \in Blocks(g) /\ Planned(todo, g, at, J)
    BY <1>3, <2>0, <2>2, <2>3, BuilderGraph, CheckedPlanned
  <2> HIDE DEF g, at
  <2>5. Planned(todo', cfg', cur', J)
    BY <2>1, <2>2, <2>4, PlannedByIf
  <2> QED BY <2>1, <2>2, <2>5 DEF Structured
<1> QED BY <1>2, <1>3

LEMMA IfElseStructured ==
    ASSUME BuilderInv, Structured, NEW indexed \in Indexing, VisitIfElse(indexed)
    PROVE  Structured'
<1> DEFINE k    == nodes + 1
           l    == Len(program) + 1
           m    == l + 1
           node == [is |-> "ifelse", id |-> k, index |-> indexed, then |-> m, else |-> l]
           g    == Indexed(cfg, cur, k, indexed)
           at   == BlockBehind(cfg, cur, indexed)
<1>1. Draw(node, 2)
  BY DEF VisitIfElse
<1>2. CASE IsTerminated(cfg, cur)
  <2>1. Abort
    BY <1>2 DEF VisitIfElse
  <2> QED BY <1>1, <2>1, AbortStructured
<1>3. CASE ~IsTerminated(cfg, cur)
  <2>1. /\ cfg' = AddCondJump(AddBlock(AddBlock(AddBlock(g))), at, CondTest(k), g.n + 1, g.n + 2)
        /\ cur' = g.n + 2 /\ outcome' = outcome
        /\ todo' = TwoInFront(VisitList(l), JumpTo(g.n + 3), ContinueAt(g.n + 1),
                              VisitList(m), JumpTo(g.n + 3), ContinueAt(g.n + 3), todo)
    BY <1>3 DEF VisitIfElse, TwoInFront
  <2>2. /\ outcome = "running" /\ (\E J : Planned(todo, cfg, cur, J)) /\ k \in Nat /\ l \in Nat /\ m \in Nat
        /\ todo \in Seq(Entries)
    <3>1. /\ outcome = "running" /\ (\E J : Planned(todo, cfg, cur, J)) /\ k \in Nat /\ l \in Nat
          /\ todo \in Seq(Entries)
      BY <1>1, VisitorStarts
    <3>2. m \in Nat
      BY <3>1
    <3> QED BY <3>1, <3>2
  <2>0. PICK J : Planned(todo, cfg, cur, J)
    BY <2>2
  <2>3. indexed \in BOOLEAN
    BY BuilderAssumption
  <2> HIDE DEF k, l, m
  <2>4. /\ Sound(g, Tests, Instrs) /\ at \in OpenBlocks(g) /\ Entry \in Blocks(g) /\ Planned(todo, g, at, J)
    BY <1>3, <2>0, <2>2, <2>3, BuilderGraph, CheckedPlanned
  <2> HIDE DEF g, at
  <2>5. g.n + 1 \in Nat /\ g.n + 3 \in Nat
    BY <2>4 DEF Sound, Shaped, Graphs
  <2>6. todo' = InFront(VisitList(l), JumpTo(g.n + 3), ContinueAt(g.n + 1),
                        InFront(VisitList(m), JumpTo(g.n + 3), ContinueAt(g.n + 3), todo))
    <3>1. /\ VisitList(l) \in Entries /\ VisitList(m) \in Entries /\ JumpTo(g.n + 3) \in Entries
          /\ ContinueAt(g.n + 1) \in Entries /\ ContinueAt(g.n + 3) \in Entries
      BY <2>2, <2>5 DEF Entries
    <3> QED BY <2>1, <2>2, <3>1, SixInFront
  <2>7. Planned(todo', cfg', cur', J)
    BY <2>1, <2>2, <2>4, <2>6, PlannedByIfElse
  <2> QED BY <2>1, <2>2, <2>7 DEF Structured
<1> QED BY <1>2, <1>3

LEMMA WhileStructured ==
    ASSUME BuilderInv, Structured, NEW indexed \in Indexing, VisitWhile(indexed)
    PROVE  Structured'
<1> DEFINE k    == nodes + 1
           l    == Len(program) + 1
           node == [is |-> "while", id |-> k, index |-> indexed, do |-> l]
           judge == cfg.n + 1
           body  == cfg.n + 2
           out   == cfg.n + 3
           g2    == EnterLoop(AddBlock(AddBlock(AddBlock(cfg))), cur, judge)
           at    == BlockBehind(g2, judge, indexed)
           h     == AddCondJump(Indexed(g2, judge, k, indexed), at, CondTest(k), body, out)
<1>1. Draw(node, 1)
  BY DEF VisitWhile
<1>2. /\ cfg' = h /\ cur' = body /\ outcome' = outcome
      /\ todo' = InFront(VisitList(l), JumpTo(judge), ContinueAt(out), todo)
  BY DEF VisitWhile, InFront
<1>3. outcome = "running" /\ (\E J : Planned(todo, cfg, cur, J)) /\ k \in Nat /\ l \in Nat
  BY <1>1, VisitorStarts
<1>0. PICK J : Planned(todo, cfg, cur, J)
  BY <1>3
<1>4. /\ indexed \in BOOLEAN /\ cur \in Blocks(cfg) /\ Routed(cfg) /\ Sound(cfg, Tests, Instrs)
      /\ Entry \in Blocks(cfg)
  BY BuilderGraph, BuilderAssumption
<1> HIDE DEF k, l
<1>5. /\ Sound(h, Tests, Instrs) /\ cfg.n \in Nat /\ h.n \in Nat /\ out <= h.n
      /\ Looped(cfg, h, cur, k, indexed)
  BY <1>3, <1>4, LoopGraph
<1> HIDE DEF h, g2, at
<1>6. Routed(h)
  <2>1. Entry \in Blocks(h)
    BY <1>5 DEF Blocks, Entry
  <2> QED BY <1>5, <2>1, SoundRouted
<1>7. Planned(todo', cfg', cur', J \cup {judge})
  BY <1>0, <1>2, <1>3, <1>4, <1>5, <1>6, PlannedByWhile
<1> QED BY <1>2, <1>3, <1>7 DEF Structured

\* A visitor returns, jumps, goes on in the next block, or ends the function.
LEMMA ReturningStructured ==
    ASSUME BuilderInv, Structured, EndList \/ CloseBranch \/ MoveInsertPoint \/ EndFunction
    PROVE  Structured'
<1>0. outcome = "running"
  BY DEF EndList, Visiting, CloseBranch, MoveInsertPoint, EndFunction
<1>1. PICK J : Planned(todo, cfg, cur, J)
  BY <1>0 DEF Structured
<1>2. /\ Sound(cfg, Tests, Instrs) /\ Routed(cfg) /\ Entry \in Blocks(cfg) /\ cur \in Blocks(cfg)
      /\ todo \in Seq(Entries) /\ Orderly(todo, OpenBlocks(cfg), cfg.n, cur, program)
  BY <1>0, BuilderGraph DEF BuilderInv, Building
<1>4. todo # <<>> => Head(todo) = todo[1]
  BY <1>2, HeadTailProperties
<1>5. CASE EndList
  <2>1. /\ todo # <<>> /\ todo[1].do = "list" /\ todo' = Tail(todo)
        /\ cfg' = cfg /\ cur' = cur /\ outcome' = outcome
    BY <1>4, <1>5 DEF EndList, Visiting
  <2>2. Planned(Tail(todo), cfg, cur, J)
    BY <1>1, <2>1, PlannedPop
  <2> QED BY <1>0, <2>1, <2>2 DEF Structured
<1>6. CASE CloseBranch
  <2>1. /\ todo # <<>> /\ todo[1].do = "jump" /\ todo' = Tail(todo) /\ cur' = cur /\ outcome' = outcome
        /\ cfg' = IF IsTerminated(cfg, cur) THEN cfg ELSE AddJump(cfg, cur, todo[1].to)
    BY <1>4, <1>6 DEF CloseBranch
  <2>2. Planned(todo, cfg', cur, J)
    <3>1. CASE IsTerminated(cfg, cur)
      BY <1>1, <2>1, <3>1
    <3>2. CASE ~IsTerminated(cfg, cur)
      <4>1. cur \in OpenBlocks(cfg)
        BY <1>2, <3>2, OpenAndTerminated
      <4>2. Planned(todo, AddJump(cfg, cur, todo[1].to), cur, J)
        BY <1>1, <1>2, <2>1, <4>1, PlannedByJump
      <4> QED BY <2>1, <3>2, <4>2
    <3> QED BY <3>1, <3>2
  <2>3. Planned(Tail(todo), cfg', cur, J)
    BY <2>1, <2>2, PlannedPop
  <2> QED BY <1>0, <2>1, <2>3 DEF Structured
<1>7. CASE MoveInsertPoint
  <2>1. /\ todo # <<>> /\ todo[1].do = "insert" /\ todo' = Tail(todo)
        /\ cfg' = cfg /\ cur' = todo[1].at /\ outcome' = outcome
    BY <1>4, <1>7 DEF MoveInsertPoint
  <2>2. Planned(Tail(todo), cfg, todo[1].at, J)
    BY <1>1, <2>1, PlannedPop
  <2> QED BY <1>0, <2>1, <2>2 DEF Structured
<1>8. CASE EndFunction
  <2>1. outcome' = "done" /\ cfg' = IF IsTerminated(cfg, cur) THEN cfg ELSE AddReturn(cfg, cur)
    BY <1>8 DEF EndFunction
  <2>2. Planned(todo, cfg', cur, J)
    <3>1. CASE IsTerminated(cfg, cur)
      BY <1>1, <2>1, <3>1
    <3>2. CASE ~IsTerminated(cfg, cur)
      <4> DEFINE h == AddReturn(cfg, cur)
      <4>1. cur \in OpenBlocks(cfg) /\ cfg.term[cur] = Open
        BY <1>2, <3>2, OpenAndTerminated DEF OpenBlocks
      <4>2. Sound(h, Tests, Instrs) /\ h.n = cfg.n /\ Ended(cfg, h, cur, RetTerm)
        BY <1>2, <4>1, AddReturnSound
      <4> HIDE DEF h
      <4>3. Routed(h) /\ SameTerms(cfg, h, Blocks(cfg) \ {cur}) /\ h.term[cur] = RetTerm
        BY <1>2, <4>2, SoundRouted DEF Ended, Blocks
      <4>4. Planned(todo, h, cur, J)
        BY <1>1, <1>2, <4>1, <4>2, <4>3, PlannedSame
      <4> QED BY <2>1, <3>2, <4>4 DEF h
    <3> QED BY <3>1, <3>2
  <2>3. Laid(cfg', J)
    BY <2>2, PlannedLaid
  <2> QED BY <2>1, <2>3 DEF Structured
<1> QED BY <1>5, <1>6, <1>7, <1>8

LEMMA StructuredStep ==
    ASSUME BuilderInv, Structured, [BuildStep]_bvars
    PROVE  Structured'
<1>1. ASSUME NEW p \in Payload, NEW indexed \in Indexing, VisitExpression(p, indexed)
      PROVE  Structured'
  BY <1>1, ExpressionStructured
<1>2. ASSUME NEW indexed \in Indexing, VisitReturn(indexed) PROVE Structured'
  BY <1>2, ReturnStructured
<1>3. ASSUME NEW indexed \in Indexing, VisitIf(indexed) PROVE Structured'
  BY <1>3, IfStructured
<1>4. ASSUME NEW indexed \in Indexing, VisitIfElse(indexed) PROVE Structured'
  BY <1>4, IfElseStructured
<1>5. ASSUME NEW indexed \in Indexing, VisitWhile(indexed) PROVE Structured'
  BY <1>5, WhileStructured
<1>6. CASE EndList \/ CloseBranch \/ MoveInsertPoint \/ EndFunction
  BY <1>6, ReturningStructured
<1>7. CASE VisitEmpty \/ OpenCompound \/ CloseCompound
  BY <1>7 DEF VisitEmpty, OpenCompound, CloseCompound, Structured
<1>8. CASE UNCHANGED bvars
  BY <1>8 DEF bvars, Structured
<1> QED BY <1>1, <1>2, <1>3, <1>4, <1>5, <1>6, <1>7, <1>8 DEF BuildStep

\* A function with an order has cycles through dominators only.
LEMMA OrderedCycles ==
    ASSUME BuilderInv, Structured
    PROVE  CyclesThroughDominators
<1> SUFFICES ASSUME outcome = "done", NEW b \in Reachable(cfg)
             PROVE  LET forward == [x \in Blocks(cfg) |->
                                       {c \in Members(Targets(cfg, x)) : <<c, x>> \notin Dominance(cfg)}]
                    IN  b \notin Closure(cfg, forward[b], forward)
  BY DEF CyclesThroughDominators
<1>0. PICK J : Laid(cfg, J)
  BY DEF Structured
<1>1. PICK r \in [Nat -> Nat] : Ranked(cfg, r, J)
  BY <1>0 DEF Laid
<1>2. Routed(cfg)
  BY BuilderGraph
<1>3. Ordered(cfg, r)
  BY <1>1, <1>2, RankedOrdered
<1> DEFINE forward == [x \in Blocks(cfg) |-> {c \in Succ(cfg, x) : <<c, x>> \notin Dominance(cfg)}]
<1>4. b \notin Closure(cfg, forward[b], forward)
  BY <1>2, <1>3, NoForwardCycle
<1> QED BY <1>4 DEF Succ
=============================================================================
