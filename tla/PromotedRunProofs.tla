------------------------- MODULE PromotedRunProofs -------------------------
(***************************************************************************)
(* Promotion keeps what a function computes, for functions of any shape    *)
(* and size.  The proof follows rename with a ghost W: W[b][i][v] is the   *)
(* stack of v at instruction i of block b, for all points that rename has  *)
(* been at, and nothing is popped from it.  What each stack holds is fixed *)
(* by the dominator tree, by the theory of paths in BlockBuilderProofs;    *)
(* the execution, which follows the branches and not the tree, then finds  *)
(* the datum of each variable in the register on top of W[b][i][v], and in *)
(* the slot of it, unless a copy in front of a branch reads what another   *)
(* one has overwritten.                                                    *)
(***************************************************************************)
EXTENDS PromotedRun, BlockBuilderProofs

-----------------------------------------------------------------------------
(* Instructions that compute a value have numbers of their own.            *)

\* Instruction i of block b computes value k.
Computes(g, b, i, k) ==
    b \in Blocks(g) /\ i \in 1..Len(g.code[b]) /\ g.code[b][i][1] \in Payload /\ g.code[b][i][2] = k

\* Numbers up to n, each of one instruction.
Numbered(g, n) ==
    /\ \A b, i, k : Computes(g, b, i, k) => k \in 1..n
    /\ \A b, i, c, j, k : Computes(g, b, i, k) /\ Computes(g, c, j, k) => b = c /\ i = j

\* What h computes, g computes in the same place.
Fewer(h, g) == \A b, i, k : Computes(h, b, i, k) => Computes(g, b, i, k)

\* What the constructors need of a graph to add to its code.
Coded(g) ==
    /\ DOMAIN g = {"n", "code", "term", "succs", "preds"}
    /\ g.n \in Nat /\ g.code \in Seq(Seq(Instrs)) /\ Len(g.code) = g.n

\* A sound graph is one of those.
LEMMA SoundCoded ==
    ASSUME NEW g, Sound(g, Tests, Instrs)
    PROVE  Coded(g)
BY DEF Coded, Sound, Shaped, Graphs

\* Numbers stay apart while no instruction is added.
LEMMA FewerKeepsNumbers ==
    ASSUME NEW g, NEW h, NEW n \in Nat, NEW k \in Nat, n <= k, Numbered(g, n), Fewer(h, g)
    PROVE  Numbered(h, k)
<1>1. \A x \in 1..n : x \in 1..k
  OBVIOUS
<1> QED BY <1>1 DEF Numbered, Fewer

LEMMA BlockHasNoCode ==
    ASSUME NEW g, Coded(g)
    PROVE  Coded(AddBlock(g)) /\ Fewer(AddBlock(g), g) /\ AddBlock(g).n = g.n + 1
<1> DEFINE h == AddBlock(g)
<1>1. /\ DOMAIN h = {"n", "code", "term", "succs", "preds"} /\ h.n = g.n + 1
      /\ h.code = Append(g.code, <<>>)
  BY DEF AddBlock
<1>2. h.code \in Seq(Seq(Instrs)) /\ Len(h.code) = g.n + 1
  BY <1>1 DEF Coded
<1>3. \A b \in 1..(g.n + 1) : h.code[b] = IF b = g.n + 1 THEN <<>> ELSE g.code[b]
  BY <1>1 DEF Coded
<1>4. Fewer(h, g)
  <2> SUFFICES ASSUME NEW b, NEW i, NEW k, Computes(h, b, i, k) PROVE Computes(g, b, i, k)
    BY DEF Fewer
  <2>1. b \in 1..(g.n + 1) /\ i \in 1..Len(h.code[b]) /\ g.n \in Nat
    BY <1>1 DEF Computes, Blocks, Coded
  <2>2. b # g.n + 1
    BY <1>3, <2>1
  <2> QED BY <1>3, <2>1, <2>2 DEF Computes, Blocks
<1> QED BY <1>1, <1>2, <1>4 DEF Coded

LEMMA SameCodeFewer ==
    ASSUME NEW g, NEW h, h.n = g.n, h.code = g.code
    PROVE  Fewer(h, g)
BY DEF Fewer, Computes, Blocks

LEMMA EdgesHaveNoCode ==
    ASSUME NEW g, Coded(g), NEW b, NEW c, NEW d, NEW x
    PROVE  /\ Coded(AddJump(g, b, c)) /\ Fewer(AddJump(g, b, c), g)
           /\ Coded(AddCondJump(g, b, x, c, d)) /\ Fewer(AddCondJump(g, b, x, c, d), g)
           /\ Coded(AddReturn(g, b)) /\ Fewer(AddReturn(g, b), g)
           /\ AddJump(g, b, c).n = g.n /\ AddCondJump(g, b, x, c, d).n = g.n
<1>1. ASSUME NEW f, Coded(f), NEW p, NEW q
      PROVE  LET h == AddEdge(f, p, q) IN Coded(h) /\ h.n = f.n /\ h.code = f.code
  BY <1>1 DEF Coded, AddEdge
<1>2. ASSUME NEW f, Coded(f), NEW p, NEW t
      PROVE  LET h == [f EXCEPT !.term[p] = t] IN Coded(h) /\ h.n = f.n /\ h.code = f.code
  BY <1>2 DEF Coded
<1>3. LET h == AddJump(g, b, c) IN Coded(h) /\ h.n = g.n /\ h.code = g.code
  <2> DEFINE f == [g EXCEPT !.term[b] = JumpTerm(c)]
  <2>1. Coded(f) /\ f.n = g.n /\ f.code = g.code
    BY <1>2
  <2> HIDE DEF f
  <2>2. LET h == AddEdge(f, b, c) IN Coded(h) /\ h.n = f.n /\ h.code = f.code
    BY <1>1, <2>1
  <2> QED BY <2>1, <2>2 DEF AddJump, f
<1>4. LET h == AddCondJump(g, b, x, c, d) IN Coded(h) /\ h.n = g.n /\ h.code = g.code
  <2> DEFINE f == [g EXCEPT !.term[b] = CondTerm(x, c, d)]
  <2>1. Coded(f) /\ f.n = g.n /\ f.code = g.code
    BY <1>2
  <2> HIDE DEF f
  <2>2. LET h == AddEdge(AddEdge(f, b, c), b, d) IN Coded(h) /\ h.n = f.n /\ h.code = f.code
    BY <1>1, <2>1
  <2> QED BY <2>1, <2>2 DEF AddCondJump, f
<1>5. LET h == AddReturn(g, b) IN Coded(h) /\ h.n = g.n /\ h.code = g.code
  BY <1>2 DEF AddReturn
<1> QED BY <1>3, <1>4, <1>5, SameCodeFewer

LEMMA CodeAdded ==
    ASSUME NEW g, Coded(g), NEW b \in Blocks(g), NEW instr \in Instrs
    PROVE  LET h == AddCode(g, b, instr)
           IN  /\ Coded(h) /\ h.n = g.n
               /\ \A c, i, k : Computes(h, c, i, k) =>
                     \/ Computes(g, c, i, k)
                     \/ (c = b /\ i = Len(g.code[b]) + 1 /\ instr[1] \in Payload /\ instr[2] = k)
<1> DEFINE h == AddCode(g, b, instr)
           s == Append(g.code[b], instr)
<1>1. b \in 1..Len(g.code) /\ g.n \in Nat /\ g.code[b] \in Seq(Instrs) /\ g.code \in Seq(Seq(Instrs))
  BY ElementOfSeq DEF Coded, Blocks
<1>2. /\ s \in Seq(Instrs) /\ Len(s) = Len(g.code[b]) + 1 /\ Len(g.code[b]) \in Nat
      /\ \A i \in 1..(Len(g.code[b]) + 1) :
            s[i] = IF i = Len(g.code[b]) + 1 THEN instr ELSE g.code[b][i]
  <2> DEFINE old == g.code[b]
  <2>1. old \in Seq(Instrs)
    BY <1>1
  <2> HIDE DEF old
  <2>2. /\ Append(old, instr) \in Seq(Instrs) /\ Len(Append(old, instr)) = Len(old) + 1
        /\ Len(old) \in Nat
    BY <2>1
  <2>3. \A i \in 1..(Len(old) + 1) :
           Append(old, instr)[i] = IF i = Len(old) + 1 THEN instr ELSE old[i]
    BY <2>1
  <2> QED BY <2>2, <2>3 DEF old
<1> HIDE DEF s
<1>3. /\ h.code = [g.code EXCEPT ![b] = s] /\ h.n = g.n
      /\ DOMAIN h = {"n", "code", "term", "succs", "preds"}
  BY DEF AddCode, Coded, s
<1> HIDE DEF h
<1>4. /\ h.code \in Seq(Seq(Instrs)) /\ Len(h.code) = Len(g.code)
      /\ \A c \in 1..Len(g.code) : h.code[c] = IF c = b THEN s ELSE g.code[c]
  BY <1>1, <1>2, <1>3, ExceptSeq
<1>5. ASSUME NEW c, NEW i, NEW k, Computes(h, c, i, k)
      PROVE  \/ Computes(g, c, i, k)
             \/ (c = b /\ i = Len(g.code[b]) + 1 /\ instr[1] \in Payload /\ instr[2] = k)
  <2>1. c \in Blocks(g) /\ c \in 1..Len(g.code)
    BY <1>3, <1>5 DEF Computes, Blocks, Coded
  <2>2. CASE c = b
    <3>1. h.code[c] = s /\ i \in 1..Len(s) /\ s[i][1] \in Payload /\ s[i][2] = k
      BY <1>4, <1>5, <2>1, <2>2 DEF Computes
    <3>2. CASE i = Len(g.code[b]) + 1
      BY <1>2, <2>2, <3>1, <3>2
    <3>3. CASE i # Len(g.code[b]) + 1
      <4>1. i \in 1..Len(g.code[b]) /\ s[i] = g.code[b][i]
        BY <1>2, <3>1, <3>3
      <4> QED BY <2>1, <2>2, <3>1, <4>1 DEF Computes
    <3> QED BY <3>2, <3>3
  <2>3. CASE c # b
    BY <1>4, <1>5, <2>1, <2>3 DEF Computes
  <2> QED BY <2>2, <2>3
<1> QED BY <1>3, <1>4, <1>5 DEF Coded, h

\* An index check computes nothing.
LEMMA IndexedCode ==
    ASSUME NEW g, Coded(g), NEW b, NEW k \in Nat, NEW indexed \in BOOLEAN
    PROVE  Coded(Indexed(g, b, k, indexed)) /\ Fewer(Indexed(g, b, k, indexed), g)
<1>1. CASE ~indexed
  BY <1>1 DEF Indexed, Fewer
<1>2. CASE indexed
  <2> DEFINE error == g.n + 1
             end   == g.n + 2
             a1    == AddBlock(g)
             a2    == AddBlock(a1)
             a3    == AddCondJump(a2, b, IndexTest(k), end, error)
             a4    == AddCode(a3, error, IndexError(k))
             a5    == AddJump(a4, error, end)
  <2>1. g.n \in Nat
    BY DEF Coded
  <2>2. Coded(a1) /\ Fewer(a1, g) /\ a1.n = g.n + 1
    BY BlockHasNoCode
  <2> HIDE DEF a1
  <2>3. Coded(a2) /\ Fewer(a2, a1) /\ a2.n = a1.n + 1
    BY <2>2, BlockHasNoCode
  <2> HIDE DEF a2
  <2>4. Coded(a3) /\ Fewer(a3, a2) /\ a3.n = a2.n
    BY <2>3, EdgesHaveNoCode
  <2> HIDE DEF a3
  <2>5. IndexError(k) \in Instrs /\ IndexError(k)[1] \notin Payload /\ error \in Blocks(a3)
    BY <2>1, <2>2, <2>3, <2>4, AccessAssumption DEF IndexError, Instrs, Blocks
  <2> HIDE DEF error
  <2>6. Coded(a4) /\ Fewer(a4, a3)
    BY <2>4, <2>5, CodeAdded DEF Fewer
  <2> HIDE DEF a4
  <2>7. Coded(a5) /\ Fewer(a5, a4)
    BY <2>6, EdgesHaveNoCode
  <2>8. Indexed(g, b, k, indexed) = a5
    BY <1>2 DEF Indexed, SplitForIndex, a1, a2, a3, a4, a5, error
  <2> QED BY <2>2, <2>3, <2>4, <2>6, <2>7, <2>8 DEF Fewer
<1> QED BY <1>1, <1>2

\* Only an expression adds a value, and it has the next number.
LEMMA BuildNumbers ==
    ASSUME BuilderInv, Numbered(cfg, nodes), BuildStep
    PROVE  Numbered(cfg', nodes')
<1>1. Coded(cfg) /\ nodes \in Nat /\ nodes + 1 \in Nat /\ cur \in Blocks(cfg)
      /\ Sound(cfg, Tests, Instrs)
  BY SoundCoded DEF BuilderInv, Typed
<1>2. ASSUME Fewer(cfg', cfg), nodes' = nodes \/ nodes' = nodes + 1
      PROVE  Numbered(cfg', nodes')
  BY <1>1, <1>2, FewerKeepsNumbers
<1>3. Fewer(cfg, cfg)
  BY DEF Fewer
<1>4. ASSUME NEW p \in Payload, NEW indexed \in Indexing, VisitExpression(p, indexed)
      PROVE  Numbered(cfg', nodes')
  <2> DEFINE k  == nodes + 1
             g  == Indexed(cfg, cur, k, indexed)
             next == BlockBehind(cfg, cur, indexed)
  <2>1. nodes' = k /\ indexed \in BOOLEAN
    BY <1>4, BuilderAssumption DEF VisitExpression, Draw
  <2>2. CASE IsTerminated(cfg, cur)
    BY <1>2, <1>3, <1>4, <2>1, <2>2 DEF VisitExpression, Abort
  <2>3. CASE ~IsTerminated(cfg, cur)
    <3>1. cfg' = AddCode(g, next, Effect(p, k))
      BY <1>4, <2>3 DEF VisitExpression
    <3>2. Coded(g) /\ Fewer(g, cfg)
      BY <1>1, <2>1, IndexedCode
    <3>3. next \in Blocks(g)
      <4>1. cur \in OpenBlocks(cfg)
        BY <1>1, <2>3, OpenAndTerminated
      <4>2. next \in OpenBlocks(g)
        BY <1>1, <2>1, <4>1, IndexedSound
      <4> QED BY <4>2 DEF OpenBlocks
    <3>4. Effect(p, k) \in Instrs /\ Effect(p, k)[2] = k
      BY <1>1 DEF Effect, Instrs
    <3> HIDE DEF g, next
    <3>5. \A c, i, l : Computes(cfg', c, i, l) =>
             Computes(cfg, c, i, l) \/ (c = next /\ i = Len(g.code[next]) + 1 /\ l = k)
      BY <3>1, <3>2, <3>3, <3>4, CodeAdded DEF Fewer
    <3>6. \A l \in 1..nodes : l \in 1..k /\ l # k
      BY <1>1
    <3>7. k \in 1..k
      BY <1>1
    <3> QED BY <2>1, <3>5, <3>6, <3>7 DEF Numbered
  <2> QED BY <2>2, <2>3
<1>5. ASSUME NEW indexed \in Indexing,
             VisitReturn(indexed) \/ VisitIf(indexed) \/ VisitIfElse(indexed) \/ VisitWhile(indexed)
      PROVE  Numbered(cfg', nodes')
  <2>1. nodes' = nodes + 1 /\ indexed \in BOOLEAN
    BY <1>5, BuilderAssumption DEF VisitReturn, VisitIf, VisitIfElse, VisitWhile, Draw
  <2>2. \A g : Coded(g) => Coded(AddBlock(g)) /\ Fewer(AddBlock(g), g)
    BY BlockHasNoCode
  <2> DEFINE i == Indexed(cfg, cur, nodes + 1, indexed)
  <2>3. Coded(i) /\ Fewer(i, cfg)
    BY <1>1, <2>1, IndexedCode
  <2>4. CASE VisitReturn(indexed)
    <3>1. cfg' = cfg \/ \E b : cfg' = AddReturn(i, b)
      BY <2>4 DEF VisitReturn, Abort
    <3> HIDE DEF i
    <3> QED BY <1>2, <1>3, <2>1, <2>3, <3>1, EdgesHaveNoCode DEF Fewer
  <2>5. CASE VisitIf(indexed)
    <3>1. cfg' = cfg \/ \E b, x, c, d : cfg' = AddCondJump(AddBlock(AddBlock(i)), b, x, c, d)
      BY <2>5 DEF VisitIf, Abort
    <3> HIDE DEF i
    <3>2. Fewer(cfg', cfg)
      BY <1>3, <2>2, <2>3, <3>1, EdgesHaveNoCode DEF Fewer
    <3> QED BY <1>2, <2>1, <3>2
  <2>6. CASE VisitIfElse(indexed)
    <3>1. cfg' = cfg \/ \E b, x, c, d :
             cfg' = AddCondJump(AddBlock(AddBlock(AddBlock(i))), b, x, c, d)
      BY <2>6 DEF VisitIfElse, Abort
    <3> HIDE DEF i
    <3>2. Fewer(cfg', cfg)
      BY <1>3, <2>2, <2>3, <3>1, EdgesHaveNoCode DEF Fewer
    <3> QED BY <1>2, <2>1, <3>2
  <2>7. CASE VisitWhile(indexed)
    <3> DEFINE g1 == AddBlock(AddBlock(AddBlock(cfg)))
               g2 == EnterLoop(g1, cur, cfg.n + 1)
               g3 == Indexed(g2, cfg.n + 1, nodes + 1, indexed)
    <3>1. \E b, x, c, d : cfg' = AddCondJump(g3, b, x, c, d)
      BY <2>7 DEF VisitWhile
    <3>2. Coded(g1) /\ Fewer(g1, cfg)
      BY <1>1, <2>2 DEF Fewer
    <3> HIDE DEF g1
    <3>3. Coded(g2) /\ Fewer(g2, g1)
      BY <3>2, EdgesHaveNoCode DEF EnterLoop, Fewer
    <3> HIDE DEF g2
    <3>4. Coded(g3) /\ Fewer(g3, g2)
      BY <1>1, <2>1, <3>3, IndexedCode
    <3> HIDE DEF g3
    <3>5. Fewer(cfg', cfg)
      BY <3>1, <3>2, <3>3, <3>4, EdgesHaveNoCode DEF Fewer
    <3> QED BY <1>2, <2>1, <3>5
  <2> QED BY <1>5, <2>4, <2>5, <2>6, <2>7
<1>6. CASE EndList \/ CloseBranch \/ MoveInsertPoint \/ EndFunction
  <2>1. nodes' = nodes
    BY <1>6 DEF EndList, CloseBranch, MoveInsertPoint, EndFunction
  <2>2. cfg' = cfg \/ (\E b, c : cfg' = AddJump(cfg, b, c)) \/ (\E b : cfg' = AddReturn(cfg, b))
    BY <1>6 DEF EndList, CloseBranch, MoveInsertPoint, EndFunction
  <2>3. Fewer(cfg', cfg)
    BY <1>1, <1>3, <2>2, EdgesHaveNoCode
  <2> QED BY <1>2, <2>1, <2>3
<1>7. CASE VisitEmpty \/ OpenCompound \/ CloseCompound
  <2>1. cfg' = cfg /\ (nodes' = nodes \/ nodes' = nodes + 1)
    BY <1>7 DEF VisitEmpty, OpenCompound, CloseCompound, Draw
  <2> QED BY <1>2, <1>3, <2>1
<1> QED BY <1>4, <1>5, <1>6, <1>7 DEF BuildStep

-----------------------------------------------------------------------------
(* The function while it is promoted.                                      *)

\* The point behind the instructions of b, and what instruction i of b is.
Stop(g, b) == Len(g.code[b]) + 1
Load(g, b, i) == LoadOf(g.code[b][i])
Store(g, b, i) == StoreOf(g.code[b][i])
Number(g, b, i) == g.code[b][i][2]

\* The blocks, with their code and their two lists of neighbours.
Formed(g) ==
    /\ Routed(g)
    /\ \A b \in Blocks(g) :
          /\ b \in Nat /\ Len(g.code[b]) \in Nat /\ g.code[b] \in Seq(Instrs)
          /\ DOMAIN g.code[b] = 1..Len(g.code[b])
          /\ Members(g.succs[b]) = Succ(g, b)
          /\ \A p : p \in Members(g.preds[b]) <=> p \in Blocks(g) /\ b \in Succ(g, p)

\* The graph that the builder makes is one.
LEMMA Shape ==
    ASSUME BuilderInv
    PROVE  Formed(cfg)
<1>1. Sound(cfg, Tests, Instrs) /\ cur \in Blocks(cfg) /\ cfg.n \in Nat
  BY DEF BuilderInv, Typed, Sound, Shaped, Graphs
<1>2. ASSUME NEW b \in Blocks(cfg)
      PROVE  /\ b \in Nat /\ Len(cfg.code[b]) \in Nat /\ cfg.code[b] \in Seq(Instrs)
             /\ DOMAIN cfg.code[b] = 1..Len(cfg.code[b])
             /\ Members(cfg.succs[b]) = Succ(cfg, b) /\ Succ(cfg, b) \subseteq Blocks(cfg)
             /\ \A p : p \in Members(cfg.preds[b]) <=> p \in Blocks(cfg) /\ b \in Succ(cfg, p)
  <2>1. b \in Nat /\ cfg.code[b] \in Seq(Instrs) /\ cfg.succs[b] \in Seq(Nat) /\ cfg.preds[b] \in Seq(Nat)
    BY <1>1, BlockLists DEF Sound
  <2>2. Members(cfg.succs[b]) = Succ(cfg, b) /\ Succ(cfg, b) \subseteq Blocks(cfg)
    BY <1>1 DEF Sound, Shaped, SuccsAreTargets, Succ
  <2>3. ASSUME NEW p \in Blocks(cfg)
        PROVE  p \in Members(cfg.preds[b]) <=> b \in Members(cfg.succs[p])
    <3>1. p \in Nat /\ cfg.succs[p] \in Seq(Nat)
      BY <1>1, BlockLists DEF Sound
    <3>2. Occurrences(cfg.preds[b], p) = Occurrences(cfg.succs[p], b)
      BY <1>1 DEF Sound, ListsMatch
    <3> QED BY <2>1, <3>1, <3>2, OccurrencesMember
  <2>4. \A p \in Blocks(cfg) : Members(cfg.succs[p]) = Succ(cfg, p)
    BY <1>1 DEF Sound, SuccsAreTargets, Succ
  <2>5. Members(cfg.preds[b]) \subseteq Blocks(cfg)
    BY <1>1 DEF Sound, Shaped
  <2>6. Len(cfg.code[b]) \in Nat /\ DOMAIN cfg.code[b] = 1..Len(cfg.code[b])
    BY <2>1, LenProperties
  <2>7. \A p : p \in Members(cfg.preds[b]) <=> p \in Blocks(cfg) /\ b \in Succ(cfg, p)
    BY <2>3, <2>4, <2>5
  <2> QED BY <2>1, <2>2, <2>6, <2>7
<1>3. Entry \in Blocks(cfg)
  BY <1>1 DEF Blocks, Entry
<1> QED BY <1>1, <1>2, <1>3 DEF Routed, Formed

\* What accesses a variable computes a value: index checks do not.
LEMMA InstrIs ==
    ASSUME NEW g, Formed(g), NEW b \in Blocks(g), NEW i \in 1..Len(g.code[b])
    PROVE  /\ g.code[b][i] \in Instrs /\ Number(g, b, i) \in Nat
           /\ Load(g, b, i) \in Var \/ Store(g, b, i) \in Var => Computes(g, b, i, Number(g, b, i))
<1>1. g.code[b][i] \in Instrs
  BY ElementOfSeq DEF Formed
<1>2. Number(g, b, i) \in Nat
  BY <1>1 DEF Instrs, Number
<1>3. ASSUME Load(g, b, i) \in Var \/ Store(g, b, i) \in Var
      PROVE  g.code[b][i][1] \in Payload
  BY <1>3, AccessAssumption DEF Load, Store, LoadOf, StoreOf
<1> QED BY <1>1, <1>2, <1>3 DEF Computes, Number

\* The block above b in the dominator tree.
Parent(g, b) == CHOOSE a : Child(g, a, b)

\* It is there for every live block but the entry, and the only one.
LEMMA ParentIs ==
    ASSUME NEW g, Routed(g), NEW b \in Reachable(g), b # Entry
    PROVE  /\ Child(g, Parent(g, b), b) /\ Parent(g, b) \in Reachable(g)
           /\ Parent(g, b) \in Blocks(g)
           /\ Parent(g, b) # b /\ Dominates(g, Parent(g, b), b)
           /\ \A a : Child(g, a, b) => a = Parent(g, b)
<1>1. Child(g, Parent(g, b), b)
  BY HasParent DEF Parent
<1>2. Dominates(g, Parent(g, b), b) /\ Parent(g, b) # b
  BY <1>1, ChildIs
<1> QED BY <1>1, <1>2, DominatesIs, LiveLeast, OneParent

\* The blocks with a store into v.
Storing(g, v) == {b \in Blocks(g) : \E i \in 1..Len(g.code[b]) : Store(g, b, i) = v}

\* StoreBlocks finds them by counting.
LEMMA StoringIs ==
    ASSUME Formed(cfg), NEW v
    PROVE  StoreBlocks(v) = Storing(cfg, v)
<1>1. ASSUME NEW b \in Blocks(cfg)
      PROVE  StoresIn(b, v) > 0 <=> \E i \in 1..Len(cfg.code[b]) : Store(cfg, b, i) = v
  <2> DEFINE stores == {i \in DOMAIN cfg.code[b] : StoreOf(cfg.code[b][i]) = v}
  <2>1. Len(cfg.code[b]) \in Nat /\ DOMAIN cfg.code[b] = 1..Len(cfg.code[b])
    BY DEF Formed
  <2>2. IsFiniteSet(stores)
    <3> DEFINE n == Len(cfg.code[b])
    <3>0. n \in Nat
      BY <2>1
    <3> HIDE DEF n
    <3>3. IsFiniteSet(1..n)
      BY <3>0, FS_Interval
    <3>1. IsFiniteSet(1..Len(cfg.code[b]))
      BY <3>3 DEF n
    <3>2. stores \subseteq 1..Len(cfg.code[b])
      BY <2>1
    <3> QED BY <3>1, <3>2, FS_Subset
  <2>3. Cardinality(stores) \in Nat /\ (Cardinality(stores) = 0 <=> stores = {})
    BY <2>2, FS_EmptySet, FS_CardinalityType
  <2>4. StoresIn(b, v) = Cardinality(stores)
    BY DEF StoresIn
  <2>5. stores # {} <=> \E i \in 1..Len(cfg.code[b]) : Store(cfg, b, i) = v
    BY <2>1 DEF Store
  <2> HIDE DEF stores
  <2> QED BY <2>3, <2>4, <2>5
<1> QED BY <1>1 DEF StoreBlocks, Storing

\* What GeneratePhi finds.
PhisPlaced(g, ph) ==
    \A b \in Blocks(g) : ph[b] = {v \in Var : b \in Placed(g, Storing(g, v))}

-----------------------------------------------------------------------------
(* The stack that rename has at instruction i of block b, for all blocks   *)
(* and instructions: W[b][i], a ghost that is never popped.                *)
Values == {Val(k) : k \in Nat} \cup {Phi(b, v) : b \in Nat, v \in Var}

Ghosts == [Nat -> [Nat -> [Var -> Seq(Values)]]]

\* Values with different names are different.
LEMMA ValuesDiffer ==
    ASSUME NEW k, NEW l, NEW b, NEW c, NEW v, NEW w
    PROVE  /\ Val(k) # Phi(b, v) /\ Val(k)[1] = "val" /\ Phi(b, v)[1] = "phi"
           /\ Phi(b, v)[2] = b /\ Phi(b, v)[3] = v
           /\ Val(k) = Val(l) => k = l
           /\ Phi(b, v) = Phi(c, w) => b = c /\ v = w
<1>1. Val(k)[1] = "val" /\ Phi(b, v)[1] = "phi" /\ Val(k)[2] = k /\ Val(l)[2] = l
  BY DEF Val, Phi
<1>2. Phi(b, v)[2] = b /\ Phi(b, v)[3] = v /\ Phi(c, w)[2] = c /\ Phi(c, w)[3] = w
  BY DEF Phi
<1> QED BY <1>1, <1>2

\* Stores into v in front of instruction i of block b.

\* The stores into v in front of instruction i of b.
Before(g, b, i, v) == {j \in 1..(i - 1) : Store(g, b, j) = v}

\* The stack that rename finds when it enters b.
Base(g, W, b) ==
    IF b = Entry THEN [v \in Var |-> <<>>] ELSE W[Parent(g, b)][Stop(g, Parent(g, b))]

\* The stack s of v with the phi that b may have for v.
WithPhi(ph, s, b, v) == IF v \in ph[b] THEN Append(s, Phi(b, v)) ELSE s

\* What stands for the result of instruction i: a load gives the value on the
\* stack.
Value(g, W, b, i) ==
    IF Load(g, b, i) \in Var THEN Top(W[b][i][Load(g, b, i)]) ELSE Val(Number(g, b, i))

\* Value x is defined on every path to instruction i of block b.
Defined(g, b, i, x) ==
    \/ \E y, w : x = Phi(y, w) /\ w \in Var /\ Dominates(g, y, b)
    \/ \E y, k, n : x = Val(n) /\ Computes(g, y, k, n) /\ Dominates(g, y, b) /\ (y = b => k < i)

\* A store into v or a phi for v dominates instruction i of b.
HasDef(g, b, i, v) == Above(g, Storing(g, v), b) \/ Before(g, b, i, v) # {}

\* What holds of a stack at one point.

\* What holds of a stack at one point.  It is the stack of the point before
\* with what that point has added, ...
Steps(g, ph, W, b, i) ==
    \A v \in Var :
        IF i = 1 THEN W[b][1][v] = WithPhi(ph, Base(g, W, b)[v], b, v)
        ELSE W[b][i][v] = IF Store(g, b, i - 1) = v
                          THEN Append(W[b][i - 1][v], Value(g, W, b, i - 1)) ELSE W[b][i - 1][v]

\* ... it is as high as the stack that b was entered with and what b has added
\* to it, ...
Grown(g, ph, W, b, i) ==
    \A v \in Var :
        /\ Len(W[b][i][v]) = Len(Base(g, W, b)[v]) + (IF v \in ph[b] THEN 1 ELSE 0)
                                + Cardinality(Before(g, b, i, v))
        /\ SubSeq(W[b][i][v], 1, Len(Base(g, W, b)[v])) = Base(g, W, b)[v]

\* ... it has a value for v where something above defines v, ...
Filled(g, W, b, i) == \A v \in Var : W[b][i][v] # <<>> <=> HasDef(g, b, i, v)

\* ... and the value on top is defined on every path.
Known(g, W, b, i) == \A v \in Var : W[b][i][v] # <<>> => Defined(g, b, i, Top(W[b][i][v]))

Point(g, ph, W, b, i) ==
    Steps(g, ph, W, b, i) /\ Grown(g, ph, W, b, i) /\ Filled(g, W, b, i) /\ Known(g, W, b, i)

\* A stack is a list of values.
LEMMA GhostStack ==
    ASSUME NEW W \in Ghosts, NEW b \in Nat, NEW i \in Nat, NEW v \in Var
    PROVE  /\ W[b][i] \in [Var -> Seq(Values)] /\ W[b][i][v] \in Seq(Values)
           /\ Len(W[b][i][v]) \in Nat
           /\ W[b][i][v] # <<>> => Len(W[b][i][v]) > 0 /\ Top(W[b][i][v]) \in Values
<1>1. W[b][i] \in [Var -> Seq(Values)] /\ W[b][i][v] \in Seq(Values)
  <2> DEFINE stacks == [Var -> Seq(Values)]
  <2> HIDE DEF stacks
  <2>1. W \in [Nat -> [Nat -> stacks]]
    BY DEF Ghosts, stacks
  <2>2. W[b][i] \in stacks
    BY <2>1
  <2> QED BY <2>2 DEF stacks
<1>2. ASSUME NEW s \in Seq(Values)
      PROVE  /\ Len(s) \in Nat
             /\ s # <<>> => Len(s) > 0 /\ Top(s) \in Values
  <2>1. Len(s) \in Nat /\ (s # <<>> => Len(s) > 0)
    BY EmptySeq, LenProperties
  <2>2. s # <<>> => s[Len(s)] \in Values
    BY <2>1, ElementOfSeq
  <2> QED BY <2>1, <2>2 DEF Top
<1> QED BY <1>1, <1>2

\* The last entry of a sequence made longer, and what was there before.
LEMMA Pushed1 ==
    ASSUME NEW S, NEW s \in Seq(S), NEW x \in S
    PROVE  /\ Append(s, x) \in Seq(S) /\ Append(s, x) # <<>> /\ Top(Append(s, x)) = x
           /\ Len(Append(s, x)) = Len(s) + 1
           /\ \A k \in 0..Len(s) : SubSeq(Append(s, x), 1, k) = SubSeq(s, 1, k)
<1>1. /\ Append(s, x) \in Seq(S) /\ Len(Append(s, x)) = Len(s) + 1 /\ Len(s) \in Nat
      /\ \A k \in 1..Len(s) : Append(s, x)[k] = s[k]
      /\ Append(s, x)[Len(s) + 1] = x
  BY AppendProperties, LenProperties
<1>2. Append(s, x) # <<>>
  BY <1>1
<1>3. ASSUME NEW k \in 0..Len(s)
      PROVE  SubSeq(Append(s, x), 1, k) = SubSeq(s, 1, k)
  BY <1>1, <1>3
<1> QED BY <1>1, <1>2, <1>3 DEF Top

\* Stores are counted one by one.
LEMMA BeforeNext ==
    ASSUME NEW g, NEW b, NEW v, NEW i \in Nat, i > 0
    PROVE  /\ Before(g, b, 1, v) = {} /\ Cardinality(Before(g, b, 1, v)) = 0
           /\ Cardinality(Before(g, b, i, v)) \in Nat
           /\ Store(g, b, i) = v =>
                 /\ i \in Before(g, b, i + 1, v)
                 /\ Cardinality(Before(g, b, i + 1, v)) = Cardinality(Before(g, b, i, v)) + 1
           /\ Store(g, b, i) # v => Before(g, b, i + 1, v) = Before(g, b, i, v)
<1>1. Before(g, b, 1, v) = {}
  BY DEF Before
<1>2. IsFiniteSet(Before(g, b, i, v))
  <2>1. IsFiniteSet(1..(i - 1))
    BY FS_Interval
  <2>2. Before(g, b, i, v) \subseteq 1..(i - 1)
    BY DEF Before
  <2> QED BY <2>1, <2>2, FS_Subset
<1>3. Before(g, b, i + 1, v) = Before(g, b, i, v) \cup (IF Store(g, b, i) = v THEN {i} ELSE {})
  BY DEF Before
<1>4. i \notin Before(g, b, i, v)
  BY DEF Before
<1>5. Cardinality(Before(g, b, i, v) \cup {i}) = Cardinality(Before(g, b, i, v)) + 1
  BY <1>2, <1>4, FS_AddElement
<1>6. Cardinality(Before(g, b, i, v)) \in Nat
  BY <1>2, FS_CardinalityType
<1>7. CASE Store(g, b, i) = v
  <2>1. Before(g, b, i + 1, v) = Before(g, b, i, v) \cup {i}
    BY <1>3, <1>7
  <2> QED BY <1>1, <1>3, <1>5, <1>6, <1>7, <2>1, FS_EmptySet
<1>8. CASE Store(g, b, i) # v
  <2>1. Before(g, b, i + 1, v) = Before(g, b, i, v)
    BY <1>3, <1>8
  <2> QED BY <1>1, <1>3, <1>6, <1>8, <2>1, FS_EmptySet
<1> QED BY <1>7, <1>8

\* So is the stack that a block is entered with.
LEMMA BaseStack ==
    ASSUME NEW g, Formed(g), NEW W \in Ghosts, NEW b \in Reachable(g), NEW v \in Var
    PROVE  Base(g, W, b)[v] \in Seq(Values) /\ Len(Base(g, W, b)[v]) \in Nat
<1>1. CASE b = Entry
  BY <1>1 DEF Base
<1>2. CASE b # Entry
  <2>1. Parent(g, b) \in Nat /\ Stop(g, Parent(g, b)) \in Nat
    BY <1>2, ParentIs DEF Formed, Stop
  <2> QED BY <1>2, <2>1, GhostStack DEF Base
<1> QED BY <1>1, <1>2

\* A store in a block is behind its beginning and before its end.
LEMMA DefAtEnd ==
    ASSUME NEW g, Formed(g), NEW b \in Reachable(g), NEW v
    PROVE  HasDef(g, b, Stop(g, b), v) <=>
               \E y \in Storing(g, v) \cup Placed(g, Storing(g, v)) : Dominates(g, y, b)
<1>1. Routed(g) /\ b \in Blocks(g) /\ Len(g.code[b]) \in Nat
  BY LiveLeast DEF Formed
<1>2. Before(g, b, Stop(g, b), v) # {} <=> b \in Storing(g, v)
  BY <1>1 DEF Before, Stop, Storing
<1>3. Dominates(g, b, b)
  BY <1>1, DominatesSelf
<1> QED BY <1>2, <1>3 DEF HasDef, Above

\* At the beginning of a block other than the entry there is a definition if the
\* block has a phi or there is one at the end of the block above.
LEMMA DefAtStart ==
    ASSUME NEW g, Formed(g), NEW b \in Reachable(g), b # Entry, NEW v
    PROVE  HasDef(g, b, 1, v) <=>
               b \in Placed(g, Storing(g, v)) \/ HasDef(g, Parent(g, b), Stop(g, Parent(g, b)), v)
<1> DEFINE a == Parent(g, b)
<1>1. /\ Routed(g) /\ Child(g, a, b) /\ a \in Reachable(g) /\ a # b /\ Dominates(g, a, b)
  BY ParentIs DEF Formed
<1> HIDE DEF a
<1>2. ASSUME NEW y
      PROVE  y # b /\ Dominates(g, y, b) <=> Dominates(g, y, a)
  <2>1. y # b /\ Dominates(g, y, b) => Dominates(g, y, a)
    BY <1>1, ChildIs
  <2>2. Dominates(g, y, a) => Dominates(g, y, b) /\ y # b
    BY <1>1, DominatesTransitive, DominatesAntisymmetric
  <2> QED BY <2>1, <2>2
<1>3. Before(g, b, 1, v) = {}
  BY DEF Before
<1>4. HasDef(g, b, 1, v) <=>
          b \in Placed(g, Storing(g, v))
            \/ \E y \in Storing(g, v) \cup Placed(g, Storing(g, v)) : Dominates(g, y, a)
  BY <1>2, <1>3 DEF HasDef, Above
<1>5. HasDef(g, a, Stop(g, a), v) <=>
          \E y \in Storing(g, v) \cup Placed(g, Storing(g, v)) : Dominates(g, y, a)
  BY <1>1, DefAtEnd
<1> QED BY <1>4, <1>5 DEF a

\* What is defined above a block is defined in it, and further down.
LEMMA DefinedBelow ==
    ASSUME NEW g, Formed(g), NEW b \in Reachable(g), NEW x
    PROVE  /\ b # Entry /\ Defined(g, Parent(g, b), Stop(g, Parent(g, b)), x) => Defined(g, b, 1, x)
           /\ \A i \in Nat : Defined(g, b, i, x) => Defined(g, b, i + 1, x)
<1>1. ASSUME b # Entry, Defined(g, Parent(g, b), Stop(g, Parent(g, b)), x)
      PROVE  Defined(g, b, 1, x)
  <2> DEFINE a == Parent(g, b)
  <2>1. Routed(g) /\ a # b /\ Dominates(g, a, b)
    BY <1>1, ParentIs DEF Formed
  <2>2. Defined(g, a, Stop(g, a), x)
    BY <1>1
  <2> HIDE DEF a
  <2>3. \A y : Dominates(g, y, a) => Dominates(g, y, b) /\ y # b
    BY <2>1, DominatesTransitive, DominatesAntisymmetric
  <2> QED BY <2>2, <2>3 DEF Defined
<1>2. ASSUME NEW i \in Nat, Defined(g, b, i, x)
      PROVE  Defined(g, b, i + 1, x)
  <2>1. ASSUME NEW y, NEW k, NEW n, Computes(g, y, k, n), k < i
        PROVE  k < i + 1
    BY <2>1, LiveLeast DEF Computes, Formed
  <2> QED BY <1>2, <2>1 DEF Defined
<1> QED BY <1>1, <1>2

\* The stack with which rename begins a block.
LEMMA FirstPoint ==
    ASSUME NEW g, Formed(g), NEW ph, PhisPlaced(g, ph), NEW W \in Ghosts, NEW b \in Reachable(g),
           b # Entry => Point(g, ph, W, Parent(g, b), Stop(g, Parent(g, b))),
           Steps(g, ph, W, b, 1)
    PROVE  Point(g, ph, W, b, 1)
<1>1. Routed(g) /\ b \in Blocks(g) /\ b \in Nat /\ Dominates(g, b, b)
  BY LiveLeast, DominatesSelf DEF Formed
<1> SUFFICES ASSUME NEW v \in Var
             PROVE  /\ Len(W[b][1][v]) = Len(Base(g, W, b)[v]) + (IF v \in ph[b] THEN 1 ELSE 0)
                                + Cardinality(Before(g, b, 1, v))
                    /\ SubSeq(W[b][1][v], 1, Len(Base(g, W, b)[v])) = Base(g, W, b)[v]
                    /\ W[b][1][v] # <<>> <=> HasDef(g, b, 1, v)
                    /\ W[b][1][v] # <<>> => Defined(g, b, 1, Top(W[b][1][v]))
  BY DEF Point, Grown, Filled, Known
<1> DEFINE base == Base(g, W, b)[v]
           s    == W[b][1][v]
<1>2. s = WithPhi(ph, base, b, v)
  BY DEF Steps
<1>3. base \in Seq(Values) /\ Len(base) \in Nat /\ Cardinality(Before(g, b, 1, v)) = 0
  BY BaseStack, BeforeNext
<1>4. v \in ph[b] <=> b \in Placed(g, Storing(g, v))
  BY <1>1 DEF PhisPlaced
<1>5. HasDef(g, b, 1, v) <=> b \in Placed(g, Storing(g, v)) \/ base # <<>>
  <2>1. CASE b = Entry
    <3>1. base = <<>> /\ Before(g, b, 1, v) = {}
      BY <2>1, BeforeNext DEF Base
    <3>2. \A y : Dominates(g, y, b) => y = b
      BY <1>1, <2>1, EntryDominates, DominatesAntisymmetric, DominatesIs
    <3> QED BY <3>1, <3>2 DEF HasDef, Above
  <2>2. CASE b # Entry
    <3>1. base # <<>> <=> HasDef(g, Parent(g, b), Stop(g, Parent(g, b)), v)
      BY <2>2 DEF Point, Filled, Base
    <3> QED BY <2>2, <3>1, DefAtStart
  <2> QED BY <2>1, <2>2
<1>6. base # <<>> => Defined(g, b, 1, Top(base))
  <2> SUFFICES ASSUME base # <<>> PROVE Defined(g, b, 1, Top(base))
    OBVIOUS
  <2>1. b # Entry
    BY DEF Base
  <2>2. Defined(g, Parent(g, b), Stop(g, Parent(g, b)), Top(base))
    BY <2>1 DEF Point, Known, Base
  <2> QED BY <2>1, <2>2, DefinedBelow
<1> HIDE DEF base, s
<1>7. CASE v \in ph[b]
  <2>1. s = Append(base, Phi(b, v)) /\ Phi(b, v) \in Values
    BY <1>1, <1>2, <1>7 DEF WithPhi, Values
  <2>2. /\ s # <<>> /\ Top(s) = Phi(b, v) /\ Len(s) = Len(base) + 1
        /\ SubSeq(s, 1, Len(base)) = SubSeq(base, 1, Len(base))
    BY <1>3, <2>1, Pushed1
  <2>3. SubSeq(base, 1, Len(base)) = base
    BY <1>3
  <2>4. Defined(g, b, 1, Top(s))
    BY <1>1, <2>2 DEF Defined
  <2>5. Len(s) = Len(base) + (IF v \in ph[b] THEN 1 ELSE 0) + Cardinality(Before(g, b, 1, v))
    BY <1>3, <1>7, <2>2
  <2> QED BY <1>4, <1>5, <1>7, <2>2, <2>3, <2>4, <2>5 DEF s, base
<1>8. CASE v \notin ph[b]
  <2>1. s = base
    BY <1>2, <1>8 DEF WithPhi
  <2>2. SubSeq(base, 1, Len(base)) = base
    BY <1>3
  <2>3. Len(s) = Len(base) + (IF v \in ph[b] THEN 1 ELSE 0) + Cardinality(Before(g, b, 1, v))
    BY <1>3, <1>8, <2>1
  <2> QED BY <1>4, <1>5, <1>6, <1>8, <2>1, <2>2, <2>3 DEF s, base
<1> QED BY <1>7, <1>8

\* The stack behind an instruction.
LEMMA NextPoint ==
    ASSUME NEW g, Formed(g), NEW ph, NEW W \in Ghosts, NEW b \in Reachable(g),
           NEW i \in 1..Len(g.code[b]), Point(g, ph, W, b, i),
           Load(g, b, i) \in Var => W[b][i][Load(g, b, i)] # <<>>,
           Steps(g, ph, W, b, i + 1)
    PROVE  Point(g, ph, W, b, i + 1) /\ Value(g, W, b, i) \in Values
<1>1. /\ Routed(g) /\ b \in Blocks(g) /\ b \in Nat /\ Dominates(g, b, b)
      /\ i \in Nat /\ i > 0 /\ i + 1 # 1 /\ i + 1 - 1 = i /\ i < i + 1
  BY LiveLeast, DominatesSelf DEF Formed
<1> DEFINE x == Value(g, W, b, i)
<1>2. (x \in Values /\ Defined(g, b, i, x)) \/ x = Val(Number(g, b, i))
  <2>1. CASE Load(g, b, i) \in Var
    BY <1>1, <2>1, GhostStack DEF Point, Known, Value
  <2>2. CASE Load(g, b, i) \notin Var
    BY <2>2 DEF Value
  <2> QED BY <2>1, <2>2
<1>3. x \in Values
  BY <1>1, <1>2, InstrIs DEF Values
<1> HIDE DEF x
<1> SUFFICES ASSUME NEW v \in Var
             PROVE  /\ Len(W[b][i + 1][v]) = Len(Base(g, W, b)[v]) + (IF v \in ph[b] THEN 1 ELSE 0)
                                + Cardinality(Before(g, b, i + 1, v))
                    /\ SubSeq(W[b][i + 1][v], 1, Len(Base(g, W, b)[v])) = Base(g, W, b)[v]
                    /\ W[b][i + 1][v] # <<>> <=> HasDef(g, b, i + 1, v)
                    /\ W[b][i + 1][v] # <<>> => Defined(g, b, i + 1, Top(W[b][i + 1][v]))
  BY <1>3 DEF Point, Grown, Filled, Known, x
<1> DEFINE base == Base(g, W, b)[v]
           s    == W[b][i][v]
           t    == W[b][i + 1][v]
           n    == IF v \in ph[b] THEN 1 ELSE 0
           c    == Cardinality(Before(g, b, i, v))
<1>4. t = IF Store(g, b, i) = v THEN Append(s, x) ELSE s
  BY <1>1 DEF Steps, x
<1>7. /\ c \in Nat
      /\ Store(g, b, i) = v => /\ i \in Before(g, b, i + 1, v)
                               /\ Cardinality(Before(g, b, i + 1, v)) = c + 1
      /\ Store(g, b, i) # v => Before(g, b, i + 1, v) = Before(g, b, i, v)
  <2>1. i \in Nat /\ i > 0
    BY <1>1
  <2> QED BY <2>1, BeforeNext
<1>5. /\ base \in Seq(Values) /\ Len(base) \in Nat /\ s \in Seq(Values) /\ Len(s) \in Nat
      /\ n \in Nat /\ c \in Nat
  BY <1>1, <1>7, BaseStack, GhostStack
<1>6. /\ Len(s) = Len(base) + n + c /\ SubSeq(s, 1, Len(base)) = base
      /\ s # <<>> <=> HasDef(g, b, i, v)
      /\ s # <<>> => Defined(g, b, i, Top(s))
  BY DEF Point, Grown, Filled, Known
<1> HIDE DEF base, s, t, n, c
<1>8. Len(base) \in 0..Len(s)
  BY <1>5, <1>6
<1>9. CASE Store(g, b, i) = v
  <2>1. t = Append(s, x)
    BY <1>4, <1>9
  <2>2. t # <<>> /\ Top(t) = x /\ Len(t) = Len(s) + 1 /\ SubSeq(t, 1, Len(base)) = base
    BY <1>3, <1>5, <1>6, <1>8, <2>1, Pushed1
  <2>3. Len(t) = Len(base) + n + Cardinality(Before(g, b, i + 1, v))
    BY <1>5, <1>6, <1>7, <1>9, <2>2
  <2>4. HasDef(g, b, i + 1, v)
    BY <1>7, <1>9 DEF HasDef
  <2>5. Defined(g, b, i + 1, x)
    <3>1. CASE Defined(g, b, i, x)
      BY <1>1, <3>1, DefinedBelow
    <3>2. CASE x = Val(Number(g, b, i))
      <4>1. Computes(g, b, i, Number(g, b, i))
        BY <1>1, <1>9, InstrIs
      <4> QED BY <1>1, <3>2, <4>1 DEF Defined
    <3> QED BY <1>2, <3>1, <3>2
  <2> QED BY <2>2, <2>3, <2>4, <2>5 DEF base, t, n
<1>10. CASE Store(g, b, i) # v
  <2>1. t = s
    BY <1>4, <1>10
  <2>2. Before(g, b, i + 1, v) = Before(g, b, i, v) /\ Cardinality(Before(g, b, i + 1, v)) = c
    BY <1>7, <1>10 DEF c
  <2>3. Len(t) = Len(base) + n + Cardinality(Before(g, b, i + 1, v))
    BY <1>6, <2>1, <2>2
  <2>4. HasDef(g, b, i + 1, v) <=> HasDef(g, b, i, v)
    BY <2>2 DEF HasDef
  <2>5. t # <<>> => Defined(g, b, i + 1, Top(t))
    BY <1>1, <1>6, <2>1, DefinedBelow
  <2> QED BY <1>6, <2>1, <2>3, <2>4, <2>5 DEF base, t, n
<1> QED BY <1>9, <1>10

-----------------------------------------------------------------------------
(* The recursion of rename.                                                *)

\* What GeneratePhi has found.
Static ==
    /\ outcome = "done" /\ CleanPreds(cfg)
    /\ Formed(cfg) /\ PhisPlaced(cfg, phis) /\ Numbered(cfg, nodes)
    /\ \A b \in Blocks(cfg) : \A c : c \in tree[b] <=> Child(cfg, b, c)

\* The instruction that rename has come to in block b, and the blocks whose
\* instructions it has done.
Reached(b) == IF path # <<>> /\ b = Head(path) /\ at # 0 THEN at ELSE Stop(cfg, b)

Finished == {b \in seen : ~(path # <<>> /\ b = Head(path) /\ at # 0)}

\* path leads up the dominator tree to the entry; a block has been entered after
\* all instructions of the one above it, and left after the blocks below it.
Walking ==
    /\ path \in Seq(Blocks(cfg)) /\ Members(path) \subseteq seen /\ seen \subseteq Reachable(cfg)
    /\ at \in Nat /\ (path = <<>> => at = 0) /\ (path # <<>> => at <= Stop(cfg, Head(path)))
    /\ \A i, j \in 1..Len(path) : path[i] = path[j] => i = j
    /\ \A i \in 1..(Len(path) - 1) : Child(cfg, path[i + 1], path[i])
    /\ path # <<>> => path[Len(path)] = Entry
    /\ \A b \in seen : b # Entry =>
          Parent(cfg, b) \in seen /\ Reached(Parent(cfg, b)) = Stop(cfg, Parent(cfg, b))
    /\ \A b \in seen \ Members(path) : \A c : Child(cfg, b, c) => c \in seen
    /\ seen # {} => Entry \in seen
    /\ phase = "rename" /\ seen # {} => path # <<>>
    /\ phase = "done" => path = <<>> /\ seen # {}

\* The path with a block more, and with one less.
LEMMA LongerPath ==
    ASSUME NEW S, NEW p \in Seq(S), NEW b \in S
    PROVE  LET q == <<b>> \o p
           IN  /\ q \in Seq(S) /\ q # <<>> /\ Head(q) = b /\ q[1] = b
               /\ Len(p) \in Nat /\ Len(q) = Len(p) + 1
               /\ \A i \in 1..Len(p) : q[i + 1] = p[i]
               /\ \A i \in 1..Len(q) : i = 1 \/ (i - 1 \in 1..Len(p) /\ q[i] = p[i - 1])
               /\ Members(q) = Members(p) \cup {b}
<1> DEFINE q == <<b>> \o p
<1>1. /\ q \in Seq(S) /\ Len(p) \in Nat /\ Len(q) = Len(p) + 1 /\ q[1] = b
      /\ \A i \in 1..Len(p) : q[i + 1] = p[i]
      /\ \A i \in 1..Len(q) : i = 1 \/ (i - 1 \in 1..Len(p) /\ q[i] = p[i - 1])
  OBVIOUS
<1> HIDE DEF q
<1>2. q # <<>> /\ Head(q) = b
  <2>1. Len(q) # 0
    BY <1>1
  <2>2. q # <<>>
    BY <2>1
  <2> QED BY <1>1, <2>2, HeadTailProperties
<1>3. DOMAIN p = 1..Len(p) /\ DOMAIN q = 1..Len(q)
  BY <1>1, LenProperties
<1>4. Members(q) = Members(p) \cup {b}
  <2>1. \A i \in 1..Len(p) : i + 1 \in 1..Len(q)
    BY <1>1
  <2>2. 1 \in 1..Len(q)
    BY <1>1
  <2>3. ASSUME NEW i \in 1..Len(q) PROVE q[i] \in Members(p) \cup {b}
    BY <1>1, <1>3 DEF Members
  <2>4. ASSUME NEW i \in 1..Len(p) PROVE p[i] \in Members(q)
    <3>1. i + 1 \in DOMAIN q /\ q[i + 1] = p[i]
      BY <1>1, <1>3, <2>1
    <3> QED BY <3>1 DEF Members
  <2>5. b \in Members(q)
    BY <1>1, <1>3, <2>2 DEF Members
  <2>6. Members(q) \subseteq Members(p) \cup {b}
    BY <1>3, <2>3 DEF Members
  <2>7. Members(p) \subseteq Members(q)
    BY <1>3, <2>4 DEF Members
  <2> QED BY <2>5, <2>6, <2>7
<1> QED BY <1>1, <1>2, <1>4 DEF q

LEMMA ShorterPath ==
    ASSUME NEW S, NEW p \in Seq(S), p # <<>>
    PROVE  /\ Head(p) = p[1] /\ Head(p) \in S /\ Tail(p) \in Seq(S)
           /\ Len(p) \in Nat /\ Len(p) > 0 /\ Len(Tail(p)) = Len(p) - 1
           /\ \A i \in 1..Len(Tail(p)) : Tail(p)[i] = p[i + 1]
           /\ Tail(p) # <<>> <=> Len(p) # 1
           /\ Tail(p) # <<>> => Head(Tail(p)) = p[2] /\ Len(p) > 1
           /\ Members(p) = Members(Tail(p)) \cup {Head(p)}
<1>1. /\ Len(p) \in Nat /\ Len(p) > 0 /\ Head(p) = p[1] /\ Head(p) \in S /\ Tail(p) \in Seq(S)
      /\ Len(Tail(p)) = Len(p) - 1
      /\ \A i \in 1..Len(Tail(p)) : Tail(p)[i] = p[i + 1]
  <2>1. Len(p) \in Nat /\ Len(p) > 0
    BY EmptySeq, LenProperties
  <2> QED BY <2>1, HeadTailProperties
<1>2. DOMAIN p = 1..Len(p) /\ DOMAIN Tail(p) = 1..Len(Tail(p))
  BY <1>1, LenProperties
<1>3. Tail(p) # <<>> <=> Len(Tail(p)) # 0
  BY <1>1, EmptySeq
<1>4. Tail(p) # <<>> => Head(Tail(p)) = Tail(p)[1] /\ 1 \in 1..Len(Tail(p))
  <2> SUFFICES ASSUME Tail(p) # <<>>
               PROVE  Head(Tail(p)) = Tail(p)[1] /\ 1 \in 1..Len(Tail(p))
    OBVIOUS
  <2>1. Len(Tail(p)) \in Nat /\ Len(Tail(p)) > 0
    BY <1>1, <1>3
  <2> QED BY <1>1, <2>1, HeadTailProperties
<1>5. Members(p) = Members(Tail(p)) \cup {Head(p)}
  <2>1. \A i \in 1..Len(Tail(p)) : i + 1 \in 1..Len(p)
    BY <1>1
  <2>2. \A i \in 1..Len(p) : i = 1 \/ (i - 1 \in 1..Len(Tail(p)) /\ p[i] = Tail(p)[i - 1])
    BY <1>1
  <2>3. 1 \in 1..Len(p)
    BY <1>1
  <2>4. ASSUME NEW i \in 1..Len(p) PROVE p[i] \in Members(Tail(p)) \cup {Head(p)}
    BY <1>1, <1>2, <2>2 DEF Members
  <2>5. ASSUME NEW i \in 1..Len(Tail(p)) PROVE Tail(p)[i] \in Members(p)
    <3>1. i + 1 \in DOMAIN p /\ Tail(p)[i] = p[i + 1]
      BY <1>1, <1>2, <2>1
    <3> QED BY <3>1 DEF Members
  <2>6. Head(p) \in Members(p)
    BY <1>1, <1>2, <2>3 DEF Members
  <2>7. Members(p) \subseteq Members(Tail(p)) \cup {Head(p)}
    BY <1>2, <2>4 DEF Members
  <2>8. Members(Tail(p)) \subseteq Members(p)
    BY <1>2, <2>5 DEF Members
  <2> QED BY <2>6, <2>7, <2>8
<1>6. Tail(p) # <<>> <=> Len(p) # 1
  BY <1>1, <1>3
<1>7. Tail(p) # <<>> => Head(Tail(p)) = p[2] /\ Len(p) > 1
  BY <1>1, <1>4
<1> QED BY <1>1, <1>5, <1>6, <1>7

\* The innermost block is live, and above it is its parent.
LEMMA Innermost ==
    ASSUME Static, Walking, path # <<>>
    PROVE  /\ Head(path) \in Blocks(cfg) /\ Head(path) \in Nat
           /\ Head(path) \in seen /\ Head(path) \in Reachable(cfg)
           /\ Tail(path) # <<>> => Head(path) # Entry /\ Head(Tail(path)) = Parent(cfg, Head(path))
           /\ Tail(path) = <<>> => Head(path) = Entry
<1>1. /\ Head(path) = path[1] /\ Head(path) \in Blocks(cfg) /\ Head(path) \in Members(path)
      /\ Len(path) \in Nat /\ Len(path) > 0
  BY ShorterPath DEF Walking
<1>2. Head(path) \in Nat /\ Head(path) \in seen /\ Head(path) \in Reachable(cfg)
  BY <1>1 DEF Walking, Static, Formed
<1>3. ASSUME Tail(path) # <<>>
      PROVE  Head(path) # Entry /\ Head(Tail(path)) = Parent(cfg, Head(path))
  <2>1. Len(path) > 1 /\ Head(Tail(path)) = path[2]
    BY <1>3, ShorterPath DEF Walking
  <2>2. /\ 1 \in 1..Len(path) /\ Len(path) \in 1..Len(path) /\ Len(path) # 1
        /\ 1 \in 1..(Len(path) - 1) /\ 1 + 1 = 2
    <3> DEFINE n == Len(path)
    <3>1. n \in Nat /\ n > 1
      BY <1>1, <2>1
    <3> HIDE DEF n
    <3>2. 1 \in 1..n /\ n \in 1..n /\ n # 1 /\ 1 \in 1..(n - 1) /\ 1 + 1 = 2
      BY <3>1
    <3> QED BY <3>2 DEF n
  <2>3. path[1] # path[Len(path)] /\ path[Len(path)] = Entry
    BY <2>2 DEF Walking
  <2>4. Child(cfg, path[2], path[1])
    BY <2>2 DEF Walking
  <2> QED BY <1>1, <1>2, <2>1, <2>3, <2>4, ParentIs DEF Static, Formed
<1>4. Tail(path) = <<>> => Head(path) = Entry
  BY <1>1, ShorterPath DEF Walking
<1> QED BY <1>1, <1>2, <1>3, <1>4

\* rename has not been called as long as it has entered no block.
LEMMA EmptyPath ==
    ASSUME Walking, seen = {}
    PROVE  path = <<>>
<1>1. path \in Seq(Blocks(cfg)) /\ Members(path) \subseteq {}
  BY DEF Walking
<1>2. path # <<>> => Head(path) \in Members(path)
  BY <1>1, ShorterPath
<1> QED BY <1>1, <1>2

\* rename is called.
LEMMA EnterWalk ==
    ASSUME Static, Walking, phase = "rename", NEW b \in Reachable(cfg), b \notin seen,
           (b = Entry /\ seen = {}) \/ (path # <<>> /\ at = 0 /\ Child(cfg, Head(path), b)),
           cfg' = cfg, phase' = phase, path' = <<b>> \o path, seen' = seen \cup {b}, at' = 1
    PROVE  /\ Walking'
           /\ path' # <<>> /\ Head(path') = b
           /\ Reached(b)' = 1 /\ Finished' = seen /\ Finished = seen
           /\ \A c \in seen : Reached(c)' = Stop(cfg, c) /\ Reached(c) = Stop(cfg, c)
           /\ b # Entry => path # <<>> /\ Parent(cfg, b) = Head(path) /\ Parent(cfg, b) \in seen
           /\ b = Entry => path = <<>>
<1>1. b \in Blocks(cfg) /\ Routed(cfg) /\ path \in Seq(Blocks(cfg)) /\ Len(cfg.code[b]) \in Nat
  BY LiveLeast DEF Static, Walking, Formed
<1>2. /\ path' \in Seq(Blocks(cfg)) /\ path' # <<>> /\ Head(path') = b /\ path'[1] = b
      /\ Len(path) \in Nat /\ Len(path') = Len(path) + 1
      /\ \A i \in 1..Len(path) : path'[i + 1] = path[i]
      /\ \A i \in 1..Len(path') : i = 1 \/ (i - 1 \in 1..Len(path) /\ path'[i] = path[i - 1])
      /\ Members(path') = Members(path) \cup {b}
  BY <1>1, LongerPath
<1>3. path = <<>> \/ at = 0
  BY EmptyPath
<1>4. \A c \in seen : c # b
  OBVIOUS
<1>5. /\ Reached(b)' = 1
      /\ \A c \in seen : Reached(c)' = Stop(cfg, c)
      /\ \A c : Reached(c) = Stop(cfg, c)
  BY <1>2, <1>3, <1>4 DEF Reached
<1>6. Finished' = seen /\ Finished = seen
  BY <1>2, <1>3, <1>4 DEF Finished
<1>7. /\ b # Entry => path # <<>> /\ Parent(cfg, b) = Head(path) /\ Parent(cfg, b) \in seen
      /\ b = Entry => path = <<>>
  <2>1. CASE b = Entry /\ seen = {}
    BY <2>1, EmptyPath
  <2>2. CASE path # <<>> /\ at = 0 /\ Child(cfg, Head(path), b)
    <3>1. b # Entry
      BY <2>2, Innermost, ShorterPath DEF Walking
    <3> QED BY <1>1, <2>2, <3>1, ParentIs, Innermost
  <2> QED BY <2>1, <2>2
<1>8. \A i, j \in 1..Len(path') : path'[i] = path'[j] => i = j
  <2> SUFFICES ASSUME NEW i \in 1..Len(path'), NEW j \in 1..Len(path'), path'[i] = path'[j]
               PROVE  i = j
    OBVIOUS
  <2>1. \A k \in 1..Len(path) : path[k] # b
    <3>1. DOMAIN path = 1..Len(path)
      BY <1>1, LenProperties
    <3> QED BY <1>4, <3>1 DEF Members, Walking
  <2>2. CASE i = 1 \/ j = 1
    BY <1>2, <2>1, <2>2
  <2>3. CASE i # 1 /\ j # 1
    <3>1. /\ i - 1 \in 1..Len(path) /\ j - 1 \in 1..Len(path)
          /\ path[i - 1] = path[j - 1]
      BY <1>2, <2>3
    <3>2. i - 1 = j - 1
      BY <3>1 DEF Walking
    <3> QED BY <3>2
  <2> QED BY <2>2, <2>3
<1>9. \A i \in 1..(Len(path') - 1) : Child(cfg, path'[i + 1], path'[i])
  <2> SUFFICES ASSUME NEW i \in 1..(Len(path') - 1) PROVE Child(cfg, path'[i + 1], path'[i])
    OBVIOUS
  <2>1. i \in 1..Len(path) /\ path'[i + 1] = path[i]
    BY <1>2
  <2>2. CASE i = 1
    <3>1. path # <<>> /\ path[1] = Head(path)
      BY <1>2, <2>1, ShorterPath DEF Walking
    <3>2. b # Entry
      BY <1>7, <3>1
    <3> QED BY <1>1, <1>2, <1>7, <2>1, <2>2, <3>1, <3>2, ParentIs
  <2>3. CASE i # 1
    <3>1. i - 1 \in 1..(Len(path) - 1) /\ i - 1 + 1 = i /\ i \in 1..Len(path')
      BY <1>2, <2>1, <2>3
    <3>2. path'[i] = path[i - 1] /\ Child(cfg, path[i], path[i - 1])
      BY <1>2, <2>3, <3>1 DEF Walking
    <3> QED BY <2>1, <3>2
  <2> QED BY <2>2, <2>3
<1>10. path'[Len(path')] = Entry
  <2>1. CASE path = <<>>
    BY <1>2, <1>7, <2>1
  <2>2. CASE path # <<>>
    <3>1. Len(path) > 0 /\ path[Len(path)] = Entry
      BY <2>2, ShorterPath DEF Walking
    <3>2. Len(path) \in 1..Len(path)
      BY <1>2, <3>1
    <3> QED BY <1>2, <3>1, <3>2
  <2> QED BY <2>1, <2>2
<1>11. \A c \in seen' : c # Entry =>
          Parent(cfg, c) \in seen' /\ Reached(Parent(cfg, c))' = Stop(cfg, Parent(cfg, c))
  <2> SUFFICES ASSUME NEW c \in seen', c # Entry
               PROVE  Parent(cfg, c) \in seen' /\ Reached(Parent(cfg, c))' = Stop(cfg, Parent(cfg, c))
    OBVIOUS
  <2>1. Parent(cfg, c) \in seen
    <3>1. CASE c = b
      BY <1>7, <3>1
    <3>2. CASE c # b
      BY <3>2 DEF Walking
    <3> QED BY <3>1, <3>2
  <2> QED BY <1>5, <2>1
<1>12. \A c \in seen' \ Members(path') : \A d : Child(cfg, c, d) => d \in seen'
  BY <1>2 DEF Walking
<1>13. seen' \subseteq Reachable(cfg) /\ Members(path') \subseteq seen' /\ Entry \in seen'
  <2>1. b = Entry \/ Entry \in seen
    BY <1>7, Innermost DEF Walking
  <2>2. Members(path) \subseteq seen /\ seen \subseteq Reachable(cfg)
    BY DEF Walking
  <2> QED BY <1>2, <2>1, <2>2
<1>14. at' \in Nat /\ at' <= Stop(cfg, Head(path'))
  BY <1>1, <1>2 DEF Stop
<1>15. Walking'
  BY <1>2, <1>8, <1>9, <1>10, <1>11, <1>12, <1>13, <1>14 DEF Walking
<1> QED BY <1>2, <1>5, <1>6, <1>7, <1>15

\* rename returns.
LEMMA ReturnWalk ==
    ASSUME Static, Walking, path # <<>>, at = 0, \A c : Child(cfg, Head(path), c) => c \in seen,
           cfg' = cfg, path' = Tail(path), seen' = seen, at' = at,
           phase' = IF Len(path) = 1 THEN "done" ELSE "rename"
    PROVE  /\ Walking'
           /\ Finished' = seen /\ Finished = seen
           /\ \A c : Reached(c)' = Stop(cfg, c) /\ Reached(c) = Stop(cfg, c)
<1>1. /\ Finished' = seen /\ Finished = seen
      /\ \A c : Reached(c)' = Stop(cfg, c) /\ Reached(c) = Stop(cfg, c)
  BY DEF Finished, Reached
<1>2. /\ Head(path) = path[1] /\ Head(path) \in Blocks(cfg) /\ path' \in Seq(Blocks(cfg))
      /\ Len(path) \in Nat /\ Len(path) > 0 /\ Len(path') = Len(path) - 1
      /\ \A i \in 1..Len(path') : path'[i] = path[i + 1]
      /\ path' # <<>> <=> Len(path) # 1
      /\ path' # <<>> => Head(path') = path[2] /\ Len(path) > 1
      /\ Members(path) = Members(path') \cup {Head(path)}
  BY ShorterPath DEF Walking
<1>3. \A i, j \in 1..Len(path') : path'[i] = path'[j] => i = j
  <2> SUFFICES ASSUME NEW i \in 1..Len(path'), NEW j \in 1..Len(path'), path'[i] = path'[j]
               PROVE  i = j
    OBVIOUS
  <2>1. i + 1 \in 1..Len(path) /\ j + 1 \in 1..Len(path) /\ path[i + 1] = path[j + 1]
    BY <1>2
  <2>2. i + 1 = j + 1
    BY <2>1 DEF Walking
  <2> QED BY <2>2
<1>4. \A i \in 1..(Len(path') - 1) : Child(cfg, path'[i + 1], path'[i])
  <2> SUFFICES ASSUME NEW i \in 1..(Len(path') - 1) PROVE Child(cfg, path'[i + 1], path'[i])
    OBVIOUS
  <2>1. i + 1 \in 1..(Len(path) - 1) /\ i \in 1..Len(path') /\ i + 1 \in 1..Len(path')
    BY <1>2
  <2>2. Child(cfg, path[i + 1 + 1], path[i + 1])
    BY <2>1 DEF Walking
  <2> QED BY <1>2, <2>1, <2>2
<1>5. path' # <<>> => path'[Len(path')] = Entry
  <2> SUFFICES ASSUME path' # <<>> PROVE path'[Len(path')] = Entry
    OBVIOUS
  <2>1. Len(path') \in 1..Len(path') /\ Len(path') + 1 = Len(path)
    BY <1>2
  <2> QED BY <1>2, <2>1 DEF Walking
<1>6. \A c \in seen' : c # Entry =>
          Parent(cfg, c) \in seen' /\ Reached(Parent(cfg, c))' = Stop(cfg, Parent(cfg, c))
  BY <1>1 DEF Walking
<1>7. \A c \in seen' \ Members(path') : \A d : Child(cfg, c, d) => d \in seen'
  BY <1>2 DEF Walking
<1>8. seen' \subseteq Reachable(cfg) /\ Members(path') \subseteq seen' /\ (seen' # {} => Entry \in seen')
  BY <1>2 DEF Walking
<1>9. /\ at' \in Nat /\ (path' = <<>> => at' = 0)
      /\ path' # <<>> => at' <= Stop(cfg, Head(path'))
  <2>1. path' # <<>> => Head(path') \in Blocks(cfg)
    BY <1>2, ShorterPath
  <2>2. \A c \in Blocks(cfg) : 0 <= Stop(cfg, c)
    BY DEF Static, Formed, Stop
  <2> QED BY <2>1, <2>2
<1>10. /\ phase' = "rename" /\ seen' # {} => path' # <<>>
       /\ phase' = "done" => path' = <<>> /\ seen' # {}
  <2>1. seen # {}
    BY <1>2 DEF Walking
  <2> QED BY <1>2, <2>1
<1>11. Walking'
  BY <1>2, <1>3, <1>4, <1>5, <1>6, <1>7, <1>8, <1>9, <1>10 DEF Walking
<1> QED BY <1>1, <1>11

\* rename goes on in a block, or fails there.
LEMMA StayWalk ==
    ASSUME Static, Walking, path # <<>>, at \in 1..Stop(cfg, Head(path)), phase = "rename",
           cfg' = cfg, path' = path, seen' = seen, phase' \in {"rename", "lost"},
           \/ at' = at
           \/ at \in 1..Len(cfg.code[Head(path)]) /\ at' = at + 1
           \/ at = Stop(cfg, Head(path)) /\ at' = 0
    PROVE  /\ Walking'
           /\ Reached(Head(path)) = at
           /\ Reached(Head(path))' = IF at' = 0 THEN at ELSE at'
           /\ \A c \in Blocks(cfg) : c # Head(path) => Reached(c)' = Stop(cfg, c) /\ Reached(c) = Stop(cfg, c)
           /\ Finished = seen \ {Head(path)}
           /\ Finished' = IF at' = 0 THEN seen ELSE Finished
<1>1. Head(path) \in Blocks(cfg) /\ Len(cfg.code[Head(path)]) \in Nat /\ Head(path) \in seen
  BY Innermost DEF Static, Formed
<1>2. /\ Reached(Head(path)) = at /\ Reached(Head(path))' = IF at' = 0 THEN at ELSE at'
      /\ \A c : c # Head(path) => Reached(c)' = Stop(cfg, c) /\ Reached(c) = Stop(cfg, c)
  BY <1>1 DEF Reached, Stop
<1>3. Finished = seen \ {Head(path)} /\ Finished' = IF at' = 0 THEN seen ELSE Finished
  <2>1. Finished = seen \ {Head(path)}
    BY DEF Finished
  <2>2. CASE at' = 0
    BY <2>2 DEF Finished
  <2>3. CASE at' # 0
    BY <2>3 DEF Finished
  <2> QED BY <2>1, <2>2, <2>3
<1>4. \A c \in seen : c # Entry =>
          Parent(cfg, c) \in seen /\ Reached(Parent(cfg, c))' = Stop(cfg, Parent(cfg, c))
  <2> SUFFICES ASSUME NEW c \in seen, c # Entry
               PROVE  Parent(cfg, c) \in seen /\ Reached(Parent(cfg, c))' = Stop(cfg, Parent(cfg, c))
    OBVIOUS
  <2>1. Parent(cfg, c) \in seen /\ Reached(Parent(cfg, c)) = Stop(cfg, Parent(cfg, c))
    BY DEF Walking
  <2>2. CASE Parent(cfg, c) # Head(path)
    BY <1>2, <2>1, <2>2
  <2>3. CASE Parent(cfg, c) = Head(path)
    BY <1>1, <1>2, <2>1, <2>3 DEF Stop
  <2> QED BY <2>2, <2>3
<1>5. at' \in Nat /\ at' <= Stop(cfg, Head(path))
  BY <1>1 DEF Stop, Walking
<1>6. Walking'
  BY <1>4, <1>5 DEF Walking
<1> QED BY <1>2, <1>3, <1>6

-----------------------------------------------------------------------------
(* What the ghost has to do with the state.                                *)

\* The load that was instruction i of block b has been replaced.
Replaced(g, W, rp, b, i) ==
    LET l == Load(g, b, i)
        n == Number(g, b, i)
    IN  l \in Var => W[b][i][l] # <<>> /\ n \in DOMAIN rp /\ rp[n] = Top(W[b][i][l])

\* W is right at every point that rename has been at, and the loads in front of
\* them have been replaced.
Ghostly(W) ==
    /\ W \in Ghosts
    /\ \A b \in seen : \A i \in 1..Reached(b) :
          Point(cfg, phis, W, b, i) /\ (i < Reached(b) => Replaced(cfg, W, repl, b, i))

\* The stack of rename is that of the point it has come to.
Tracks(W) ==
    /\ DOMAIN stack = Var \cup Cell
    /\ seen = {} => \A v \in Var : stack[v] = <<>>
    /\ path # <<>> => \A v \in Var : stack[v] = W[Head(path)][Reached(Head(path))][v]

\* The stack of v at the end of b.
AtEnd(g, W, b, v) == W[b][Stop(g, b)][v]

\* Every phi has exactly one pair for each finished predecessor with a value.
Paired(g, ph, prs, F, W) ==
    \A c \in Blocks(g) : \A v \in ph[c] :
        /\ prs[c][v] \in Seq(Values \X Nat)
        /\ \A i \in 1..Len(prs[c][v]) :
              LET p == prs[c][v][i][2]
              IN  /\ p \in F /\ c \in Succ(g, p) /\ AtEnd(g, W, p, v) # <<>>
                  /\ prs[c][v][i][1] = Top(AtEnd(g, W, p, v))
        /\ \A p \in F : c \in Succ(g, p) /\ AtEnd(g, W, p, v) # <<>> =>
              \E i \in 1..Len(prs[c][v]) : prs[c][v][i][2] = p
        /\ \A i, j \in 1..Len(prs[c][v]) : prs[c][v][i][2] = prs[c][v][j][2] => i = j

\* All of it.
Renamed(W) == Ghostly(W) /\ Tracks(W) /\ Paired(cfg, phis, pairs, Finished, W)

Stacks == [Var -> Seq(Values)]

\* V is W but for instruction i of block b.
Updated(V, W, b, i, s) == V[b][i] = s /\ \A c, j \in Nat : c # b \/ j # i => V[c][j] = W[c][j]

\* There is such a ghost.
LEMMA GhostUpdate ==
    ASSUME NEW W \in Ghosts, NEW b \in Nat, NEW i \in Nat, NEW s \in Stacks
    PROVE  \E V \in Ghosts : Updated(V, W, b, i, s)
<1> DEFINE stacks == [Var -> Seq(Values)]
<1> HIDE DEF stacks
<1>1. W \in [Nat -> [Nat -> stacks]] /\ s \in stacks
  BY DEF Ghosts, stacks, Stacks
<1> DEFINE V == [W EXCEPT ![b] = [W[b] EXCEPT ![i] = s]]
<1>2. V \in [Nat -> [Nat -> stacks]] /\ V[b][i] = s
  BY <1>1
<1>3. \A c, j \in Nat : c # b \/ j # i => V[c][j] = W[c][j]
  BY <1>1
<1> HIDE DEF V
<1> QED BY <1>2, <1>3 DEF Ghosts, stacks, Updated

\* Points depend on the ghost at the point, just before it, and above the block.
LEMMA PointKept ==
    ASSUME NEW g, NEW ph, NEW W, NEW V, NEW b, NEW i,
           V[b][i] = W[b][i], i # 1 => V[b][i - 1] = W[b][i - 1], Base(g, V, b) = Base(g, W, b),
           Point(g, ph, W, b, i)
    PROVE  Point(g, ph, V, b, i)
<1>1. Steps(g, ph, V, b, i)
  BY DEF Point, Steps, Value
<1>2. Grown(g, ph, V, b, i)
  BY DEF Point, Grown
<1>3. Filled(g, V, b, i) /\ Known(g, V, b, i)
  BY DEF Point, Filled, Known
<1> QED BY <1>1, <1>2, <1>3 DEF Point

\* The points that rename has been at are points of the function.
LEMMA ReachedIs ==
    ASSUME Static, Walking, NEW b \in seen
    PROVE  /\ b \in Nat /\ b \in Blocks(cfg) /\ b \in Reachable(cfg)
           /\ Reached(b) \in Nat /\ Reached(b) > 0 /\ Reached(b) <= Stop(cfg, b)
           /\ b \in Finished => Reached(b) = Stop(cfg, b)
<1>1. b \in Blocks(cfg) /\ b \in Nat /\ b \in Reachable(cfg) /\ Len(cfg.code[b]) \in Nat
  BY LiveLeast DEF Static, Walking, Formed
<1> QED BY <1>1 DEF Reached, Stop, Walking, Finished

\* What is known of a ghost concerns those points only.
LEMMA GhostKept ==
    ASSUME Static, Walking, NEW W, Ghostly(W), NEW V \in Ghosts,
           \A b \in seen : \A i \in 1..Reached(b) : V[b][i] = W[b][i]
    PROVE  /\ Ghostly(V)
           /\ Paired(cfg, phis, pairs, Finished, W) => Paired(cfg, phis, pairs, Finished, V)
<1>1. ASSUME NEW b \in seen
      PROVE  Base(cfg, V, b) = Base(cfg, W, b)
  <2>1. CASE b = Entry
    BY <2>1 DEF Base
  <2>2. CASE b # Entry
    <3>1. Parent(cfg, b) \in seen /\ Reached(Parent(cfg, b)) = Stop(cfg, Parent(cfg, b))
      BY <2>2 DEF Walking
    <3>2. Stop(cfg, Parent(cfg, b)) \in 1..Reached(Parent(cfg, b))
      BY <3>1, ReachedIs
    <3> QED BY <2>2, <3>1, <3>2 DEF Base
  <2> QED BY <2>1, <2>2
<1>2. ASSUME NEW b \in seen, NEW i \in 1..Reached(b)
      PROVE  Point(cfg, phis, V, b, i) /\ (i < Reached(b) => Replaced(cfg, V, repl, b, i))
  <2>1. V[b][i] = W[b][i] /\ Point(cfg, phis, W, b, i)
        /\ (i < Reached(b) => Replaced(cfg, W, repl, b, i))
    BY DEF Ghostly
  <2>2. i # 1 => i - 1 \in 1..Reached(b)
    BY ReachedIs
  <2>3. i # 1 => V[b][i - 1] = W[b][i - 1]
    BY <2>2
  <2>4. Point(cfg, phis, V, b, i)
    BY <1>1, <2>1, <2>3, PointKept
  <2> QED BY <2>1, <2>4 DEF Replaced
<1>3. \A p \in Finished : \A v : AtEnd(cfg, V, p, v) = AtEnd(cfg, W, p, v)
  <2> SUFFICES ASSUME NEW p \in Finished PROVE V[p][Stop(cfg, p)] = W[p][Stop(cfg, p)]
    BY DEF AtEnd
  <2>1. p \in seen
    BY DEF Finished
  <2>2. Stop(cfg, p) \in 1..Reached(p)
    BY <2>1, ReachedIs
  <2> QED BY <2>1, <2>2
<1>4. Ghostly(V)
  BY <1>2 DEF Ghostly
<1>5. ASSUME Paired(cfg, phis, pairs, Finished, W) PROVE Paired(cfg, phis, pairs, Finished, V)
  BY <1>3, <1>5 DEF Paired
<1> QED BY <1>4, <1>5

\* The ghost of a block that rename is called on.
LEMMA EnterGhost ==
    ASSUME Static, Walking, phase = "rename", NEW b \in Reachable(cfg), b \notin seen,
           (b = Entry /\ seen = {}) \/ (path # <<>> /\ at = 0 /\ Child(cfg, Head(path), b)),
           cfg' = cfg, phase' = phase, path' = <<b>> \o path, seen' = seen \cup {b}, at' = 1,
           phis' = phis, pairs' = pairs, repl' = repl,
           stack' = [v \in DOMAIN stack |->
                        IF v \in phis[b] THEN Append(stack[v], Phi(b, v)) ELSE stack[v]],
           NEW W, Renamed(W)
    PROVE  \E V \in Ghosts : Renamed(V)'
<1>1. /\ Walking' /\ path' # <<>> /\ Head(path') = b
      /\ Reached(b)' = 1 /\ Finished' = seen /\ Finished = seen
      /\ \A c \in seen : Reached(c)' = Stop(cfg, c) /\ Reached(c) = Stop(cfg, c)
      /\ b # Entry => path # <<>> /\ Parent(cfg, b) = Head(path) /\ Parent(cfg, b) \in seen
      /\ b = Entry => path = <<>>
  BY EnterWalk
<1>2. Formed(cfg) /\ PhisPlaced(cfg, phis) /\ Routed(cfg) /\ b \in Blocks(cfg) /\ b \in Nat
  BY LiveLeast DEF Static, Formed
<1>3. W \in Ghosts /\ Ghostly(W) /\ Tracks(W) /\ Paired(cfg, phis, pairs, Finished, W)
  BY DEF Renamed, Ghostly
<1>4. ASSUME NEW v \in Var PROVE WithPhi(phis, Base(cfg, W, b)[v], b, v) \in Seq(Values)
  <2>1. Base(cfg, W, b)[v] \in Seq(Values)
    BY <1>2, <1>3, BaseStack
  <2>2. Phi(b, v) \in Values
    BY <1>2 DEF Values
  <2>3. Append(Base(cfg, W, b)[v], Phi(b, v)) \in Seq(Values)
    BY <2>1, <2>2, Pushed1
  <2> QED BY <2>1, <2>3 DEF WithPhi
<1> DEFINE s == [v \in Var |-> WithPhi(phis, Base(cfg, W, b)[v], b, v)]
<1>0. s \in Stacks /\ \A v \in Var : s[v] = WithPhi(phis, Base(cfg, W, b)[v], b, v)
  BY <1>4 DEF Stacks
<1> HIDE DEF s
<1>5. PICK V \in Ghosts : Updated(V, W, b, 1, s)
  BY <1>0, <1>2, <1>3, GhostUpdate
<1>6. \A v \in Var : V[b][1][v] = WithPhi(phis, Base(cfg, W, b)[v], b, v)
  BY <1>0, <1>5 DEF Updated
<1>7. ASSUME NEW c \in seen, NEW i \in 1..Reached(c) PROVE V[c][i] = W[c][i]
  <2>1. c \in Nat /\ i \in Nat /\ c # b
    BY ReachedIs
  <2> QED BY <1>5, <2>1 DEF Updated
<1>8. Ghostly(V) /\ Paired(cfg, phis, pairs, Finished, V)
  BY <1>3, <1>5, <1>7, GhostKept
<1>9. b # Entry => /\ Stop(cfg, Parent(cfg, b)) \in 1..Reached(Parent(cfg, b))
                   /\ Parent(cfg, b) \in seen
                   /\ Reached(Parent(cfg, b)) = Stop(cfg, Parent(cfg, b))
  BY <1>1, ReachedIs
<1>10. Base(cfg, V, b) = Base(cfg, W, b)
  <2>1. b # Entry => V[Parent(cfg, b)][Stop(cfg, Parent(cfg, b))] = W[Parent(cfg, b)][Stop(cfg, Parent(cfg, b))]
    BY <1>7, <1>9
  <2> QED BY <2>1 DEF Base
<1>11. Point(cfg, phis, V, b, 1)
  <2>1. b # Entry => Point(cfg, phis, V, Parent(cfg, b), Stop(cfg, Parent(cfg, b)))
    BY <1>8, <1>9 DEF Ghostly
  <2>2. Steps(cfg, phis, V, b, 1)
    BY <1>6, <1>10 DEF Steps
  <2> QED BY <1>2, <1>5, <2>1, <2>2, FirstPoint
<1>12. Ghostly(V)'
  <2>1. ASSUME NEW c \in seen', NEW i \in 1..Reached(c)'
        PROVE  Point(cfg, phis, V, c, i) /\ (i < Reached(c)' => Replaced(cfg, V, repl, c, i))
    <3>1. CASE c = b
      <4>1. i = 1 /\ ~(i < Reached(c)')
        BY <1>1, <3>1
      <4> QED BY <1>11, <3>1, <4>1
    <3>2. CASE c # b
      <4>1. c \in seen /\ Reached(c)' = Reached(c)
        BY <1>1, <3>2
      <4> QED BY <1>8, <4>1 DEF Ghostly
    <3> QED BY <3>1, <3>2
  <2> QED BY <1>5, <2>1 DEF Ghostly
<1>13. Tracks(V)'
  <2>1. \A v \in Var : stack[v] = Base(cfg, W, b)[v]
    <3>1. CASE b = Entry
      <4>1. seen = {}
        BY <1>1, <3>1 DEF Walking
      <4>2. \A v \in Var : stack[v] = <<>>
        BY <1>3, <4>1 DEF Tracks
      <4> QED BY <3>1, <4>2 DEF Base
    <3>2. CASE b # Entry
      <4>1. \A v \in Var : stack[v] = W[Head(path)][Reached(Head(path))][v]
        BY <1>1, <1>3, <3>2 DEF Tracks
      <4> QED BY <1>1, <1>9, <3>2, <4>1 DEF Base
    <3> QED BY <3>1, <3>2
  <2>2. DOMAIN stack' = Var \cup Cell /\ DOMAIN stack = Var \cup Cell
    BY <1>3 DEF Tracks
  <2>3. \A v \in Var : stack'[v] = WithPhi(phis, stack[v], b, v)
    BY <2>2 DEF WithPhi
  <2>4. \A v \in Var : stack'[v] = V[b][1][v]
    BY <1>6, <2>1, <2>3
  <2> QED BY <1>1, <2>2, <2>4 DEF Tracks
<1>14. Paired(cfg', phis', pairs', Finished', V)
  BY <1>1, <1>8
<1> QED BY <1>5, <1>12, <1>13, <1>14 DEF Renamed
\* While nothing of them changes, nothing that was said of a ghost does.
LEMMA SameGhost ==
    ASSUME NEW W, Ghostly(W), Paired(cfg, phis, pairs, Finished, W),
           cfg' = cfg, seen' = seen, phis' = phis, repl' = repl, pairs' = pairs,
           \A c \in seen : Reached(c)' = Reached(c), Finished' = Finished
    PROVE  Ghostly(W)' /\ Paired(cfg, phis, pairs, Finished, W)'
BY DEF Ghostly

\* The instruction whose load is replaced is no other one.
LEMMA ReplacedKept ==
    ASSUME NEW g, NEW n, Formed(g), Numbered(g, n), NEW W, NEW rp, NEW rq,
           NEW b \in Blocks(g), NEW i \in 1..Len(g.code[b]), Load(g, b, i) \in Var,
           DOMAIN rp \subseteq DOMAIN rq, \A k \in DOMAIN rp : k # Number(g, b, i) => rq[k] = rp[k],
           NEW c \in Blocks(g), NEW j \in 1..Len(g.code[c]), c # b \/ j # i,
           Replaced(g, W, rp, c, j)
    PROVE  Replaced(g, W, rq, c, j)
<1> SUFFICES ASSUME Load(g, c, j) \in Var
             PROVE  /\ W[c][j][Load(g, c, j)] # <<>> /\ Number(g, c, j) \in DOMAIN rq
                    /\ rq[Number(g, c, j)] = Top(W[c][j][Load(g, c, j)])
  BY DEF Replaced
<1>1. Computes(g, b, i, Number(g, b, i)) /\ Computes(g, c, j, Number(g, c, j))
  BY InstrIs
<1>2. Number(g, c, j) # Number(g, b, i)
  BY <1>1 DEF Numbered
<1>3. /\ W[c][j][Load(g, c, j)] # <<>> /\ Number(g, c, j) \in DOMAIN rp
      /\ rp[Number(g, c, j)] = Top(W[c][j][Load(g, c, j)])
  BY DEF Replaced
<1> QED BY <1>2, <1>3

\* The stack is the ghost's at the instruction that rename has come to.
LEMMA StackIs ==
    ASSUME Static, Walking, NEW W, Renamed(W), path # <<>>, NEW v \in Var
    PROVE  stack[v] = W[Head(path)][Reached(Head(path))][v] /\ DOMAIN stack = Var \cup Cell
BY DEF Renamed, Tracks

\* The ghost after an instruction of a block.
LEMMA InstrGhost ==
    ASSUME Static, Walking, RenameInstruction, cfg' = cfg, NEW W, Renamed(W)
    PROVE  Walking' /\ (\E V : Renamed(V)') /\ phase' \in {"rename", "lost"}
<1> DEFINE b == Head(path)
           l == Load(cfg, b, at)
           s == Store(cfg, b, at)
           n == Number(cfg, b, at)
           x == IF l \in Var THEN Top(stack[l]) ELSE Val(n)
<1>1. /\ phase = "rename" /\ path # <<>> /\ at \in 1..Len(cfg.code[b])
      /\ tree' = tree /\ phis' = phis /\ pairs' = pairs /\ path' = path /\ seen' = seen
      /\ l \in Var /\ stack[l] = <<>> => phase' = "lost" /\ repl' = repl /\ stack' = stack /\ at' = at
      /\ ~(l \in Var /\ stack[l] = <<>>) =>
            /\ l \in Var => repl' = [k \in DOMAIN repl \cup {n} |-> IF k = n THEN x ELSE repl[k]]
            /\ l \notin Var => repl' = repl
            /\ s \in Var => stack' = [stack EXCEPT ![s] = Append(@, x)]
            /\ s \notin Var => stack' = stack
            /\ at' = at + 1 /\ phase' = phase
  BY DEF RenameInstruction, IsValidPtr, Load, Store, Number
<1>2. /\ Formed(cfg) /\ PhisPlaced(cfg, phis) /\ Routed(cfg) /\ Numbered(cfg, nodes)
      /\ b \in Blocks(cfg) /\ b \in Nat /\ b \in seen /\ b \in Reachable(cfg)
      /\ Len(cfg.code[b]) \in Nat
  BY <1>1, Innermost DEF Static, Formed
<1>3. W \in Ghosts /\ Ghostly(W) /\ Tracks(W) /\ Paired(cfg, phis, pairs, Finished, W)
  BY DEF Renamed, Ghostly
<1>4. at \in 1..Stop(cfg, b) /\ at \in Nat /\ at > 0 /\ at + 1 \in Nat /\ at + 1 # 0
      /\ at + 1 # 1 /\ at + 1 - 1 = at
  BY <1>1, <1>2 DEF Stop
<1>5. /\ Walking' /\ Reached(b) = at /\ Reached(b)' = at'
      /\ \A c \in Blocks(cfg) : c # b => Reached(c)' = Stop(cfg, c) /\ Reached(c) = Stop(cfg, c)
      /\ Finished' = Finished
  <2>1. at' = at \/ at' = at + 1
    BY <1>1
  <2>2. at' # 0
    BY <1>4, <2>1
  <2>3. phase' \in {"rename", "lost"}
    BY <1>1
  <2> QED BY <1>1, <1>4, <2>1, <2>2, <2>3, StayWalk
<1>9. \A c : c = b => Reached(c)' = at'
  BY <1>1, <1>5
<1> HIDE DEF b
<1>6. \A v \in Var : stack[v] = W[b][at][v]
  BY <1>1, <1>5, StackIs DEF b
<1>7. CASE l \in Var /\ stack[l] = <<>>
  <2>1. \A c \in seen : Reached(c)' = Reached(c)
    BY <1>1, <1>5, <1>7 DEF Reached
  <2>2. Ghostly(W)' /\ Paired(cfg, phis, pairs, Finished, W)'
    BY <1>1, <1>3, <1>5, <1>7, <2>1, SameGhost
  <2>3. Tracks(W)'
    <3>1. Reached(Head(path))' = Reached(Head(path))
      BY <1>5, <1>1, <1>7 DEF b
    <3> QED BY <1>1, <1>3, <1>7, <3>1 DEF Tracks
  <2> QED BY <1>1, <1>5, <1>7, <2>2, <2>3 DEF Renamed
<1>8. CASE ~(l \in Var /\ stack[l] = <<>>)
  <2>1. x \in Values /\ x = Value(cfg, W, b, at) /\ (l \in Var => W[b][at][l] # <<>>)
    <3>1. CASE l \in Var
      <4>1. W[b][at][l] # <<>> /\ Top(W[b][at][l]) \in Values
        BY <1>2, <1>3, <1>4, <1>6, <1>8, <3>1, GhostStack
      <4> QED BY <1>6, <3>1, <4>1 DEF Value
    <3>2. CASE l \notin Var
      BY <1>1, <1>2, <3>2, InstrIs DEF Value, Values
    <3> QED BY <3>1, <3>2
  <2> HIDE DEF x
  <2>2. ASSUME NEW v \in Var PROVE W[b][at][v] \in Seq(Values) /\ Append(W[b][at][v], x) \in Seq(Values)
    BY <1>2, <1>3, <1>4, <2>1, GhostStack, Pushed1
  <2> HIDE DEF l, s, n
  <2> DEFINE t == [v \in Var |-> IF s = v THEN Append(W[b][at][v], x) ELSE W[b][at][v]]
  <2>3. t \in Stacks /\ \A v \in Var : t[v] = IF s = v THEN Append(W[b][at][v], x) ELSE W[b][at][v]
    BY <2>2 DEF Stacks
  <2> HIDE DEF t
  <2>4. PICK V \in Ghosts : Updated(V, W, b, at + 1, t)
    BY <1>2, <1>3, <1>4, <2>3, GhostUpdate
  <2>5. /\ V[b][at + 1] = t
        /\ \A c, j \in Nat : c # b \/ j # at + 1 => V[c][j] = W[c][j]
    BY <2>4 DEF Updated
  <2>6. ASSUME NEW c \in seen, NEW i \in 1..Reached(c) PROVE V[c][i] = W[c][i]
    <3>1. c \in Nat /\ i \in Nat /\ Reached(c) \in Nat
      BY ReachedIs
    <3>2. c # b \/ i # at + 1
      BY <1>4, <1>5, <3>1
    <3> QED BY <2>5, <3>1, <3>2
  <2>7. Ghostly(V) /\ Paired(cfg, phis, pairs, Finished, V)
    BY <1>3, <2>6, GhostKept
  <2>8. V[b][at] = W[b][at] /\ Point(cfg, phis, V, b, at)
    <3>1. at \in 1..Reached(b)
      BY <1>4, <1>5
    <3> QED BY <1>2, <2>6, <2>7, <3>1 DEF Ghostly
  <2>9. Value(cfg, V, b, at) = x
    BY <2>1, <2>8 DEF Value
  <2>10. Steps(cfg, phis, V, b, at + 1)
    BY <1>4, <2>3, <2>5, <2>8, <2>9 DEF Steps, s
  <2>11. Point(cfg, phis, V, b, at + 1)
    BY <1>1, <1>2, <2>1, <2>8, <2>10, NextPoint DEF b, l
  <2>12. at' = at + 1 /\ phase' = phase
    BY <1>1, <1>8 DEF b, l, s, n, x
  <2>13. ASSUME NEW c \in seen, NEW i \in 1..Len(cfg.code[c]), c # b \/ i # at,
                Replaced(cfg, V, repl, c, i)
         PROVE  Replaced(cfg, V, repl', c, i)
    <3>1. CASE l \notin Var
      BY <1>1, <1>8, <2>13, <3>1 DEF b, l, s, n, x
    <3>2. CASE l \in Var
      <4>0. repl' = [k \in DOMAIN repl \cup {n} |-> IF k = n THEN x ELSE repl[k]]
        BY <1>1, <1>8, <3>2 DEF b, l, s, n, x
      <4>1. /\ DOMAIN repl \subseteq DOMAIN repl'
            /\ \A k \in DOMAIN repl : k # Number(cfg, b, at) => repl'[k] = repl[k]
        BY <4>0 DEF n
      <4>2. c \in Blocks(cfg)
        BY ReachedIs
      <4>3. at \in 1..Len(cfg.code[b])
        BY <1>1 DEF b
      <4> QED BY <1>2, <2>13, <3>2, <4>1, <4>2, <4>3, ReplacedKept DEF l, n
    <3> QED BY <3>1, <3>2
  <2>14. Replaced(cfg, V, repl', b, at)
    <3>1. l \in Var => repl' = [k \in DOMAIN repl \cup {n} |-> IF k = n THEN x ELSE repl[k]]
      BY <1>1, <1>8 DEF b, l, s, n, x
    <3>2. l \in Var => x = Top(V[b][at][l]) /\ V[b][at][l] # <<>>
      BY <1>6, <2>1, <2>8 DEF x
    <3>3. l \in Var => n \in DOMAIN repl' /\ repl'[n] = x
      BY <3>1
    <3> QED BY <3>2, <3>3 DEF Replaced, l, n
  <2>15. Ghostly(V)'
    <3>1. ASSUME NEW c \in seen, NEW i \in 1..Reached(c)'
          PROVE  Point(cfg, phis, V, c, i) /\ (i < Reached(c)' => Replaced(cfg, V, repl', c, i))
      <4>1. c \in Blocks(cfg) /\ Len(cfg.code[c]) \in Nat /\ Reached(c) \in Nat
            /\ Reached(c) <= Stop(cfg, c)
        BY <1>2, ReachedIs DEF Formed
      <4>2. CASE c # b
        <5>1. Reached(c)' = Reached(c) /\ (i < Reached(c) => i \in 1..Len(cfg.code[c]))
          BY <1>5, <4>1, <4>2 DEF Stop
        <5> QED BY <2>7, <2>13, <4>2, <5>1 DEF Ghostly
      <4>3. CASE c = b
        <5>1. i \in 1..(at + 1) /\ Reached(c)' = at + 1 /\ Reached(c) = at
          BY <1>5, <1>9, <2>12, <4>3
        <5>2. CASE i = at + 1
          BY <2>11, <4>3, <5>1, <5>2
        <5>3. CASE i = at
          BY <2>8, <2>14, <4>3, <5>1, <5>3
        <5>4. CASE i # at + 1 /\ i # at
          <6>1. i \in 1..Reached(c) /\ i < Reached(c) /\ i \in 1..Len(cfg.code[c])
            BY <1>4, <4>1, <5>1, <5>4 DEF Stop
          <6> QED BY <2>7, <2>13, <5>4, <6>1 DEF Ghostly
        <5> QED BY <5>2, <5>3, <5>4
      <4> QED BY <4>2, <4>3
    <3> QED BY <1>1, <3>1 DEF Ghostly
  <2>16. Tracks(V)'
    <3>1. Reached(Head(path))' = at + 1 /\ Head(path') = b
      BY <1>1, <1>5, <2>12 DEF b
    <3>2. s \in Var => stack' = [stack EXCEPT ![s] = Append(@, x)]
      BY <1>1, <1>8 DEF b, l, s, n, x
    <3>3. s \notin Var => stack' = stack
      BY <1>1, <1>8 DEF b, l, s, n, x
    <3>4. DOMAIN stack = Var \cup Cell
      BY <1>3 DEF Tracks
    <3>5. DOMAIN stack' = Var \cup Cell
      BY <3>2, <3>3, <3>4
    <3>6. \A v \in Var : stack'[v] = t[v]
      BY <1>6, <2>3, <3>2, <3>3, <3>4
    <3> QED BY <1>1, <1>2, <2>5, <3>1, <3>5, <3>6 DEF Tracks
  <2>17. Paired(cfg, phis, pairs, Finished, V)'
    BY <1>1, <1>5, <2>7
  <2> QED BY <1>1, <1>5, <2>12, <2>15, <2>16, <2>17 DEF Renamed
<1> QED BY <1>7, <1>8
\* The ghost of a block when its instructions are done.
LEMMA FillGhost ==
    ASSUME Static, Walking, FillSuccessors, cfg' = cfg, NEW W, Renamed(W)
    PROVE  Walking' /\ Renamed(W)' /\ phase' = "rename"
<1> DEFINE b == Head(path)
<1>1. /\ phase = "rename" /\ path # <<>> /\ at = Len(cfg.code[b]) + 1 /\ at' = 0
      /\ phase' = phase /\ tree' = tree /\ phis' = phis /\ path' = path /\ seen' = seen
      /\ stack' = stack /\ repl' = repl
      /\ pairs' = [c \in Blocks(cfg) |->
                      [v \in phis[c] |-> IF c \in Members(cfg.succs[b])
                                         THEN pairs[c][v] \o PairFor(b, v) ELSE pairs[c][v]]]
  BY DEF FillSuccessors
<1>2. /\ Formed(cfg) /\ PhisPlaced(cfg, phis) /\ Routed(cfg)
      /\ b \in Blocks(cfg) /\ b \in Nat /\ b \in seen /\ b \in Reachable(cfg)
      /\ Len(cfg.code[b]) \in Nat /\ Members(cfg.succs[b]) = Succ(cfg, b)
  BY <1>1, Innermost DEF Static, Formed
<1>3. W \in Ghosts /\ Ghostly(W) /\ Tracks(W) /\ Paired(cfg, phis, pairs, Finished, W)
  BY DEF Renamed, Ghostly
<1>4. at = Stop(cfg, b) /\ at \in 1..Stop(cfg, b) /\ at \in Nat /\ at # 0
  BY <1>1, <1>2 DEF Stop
<1>5. /\ Walking' /\ Reached(b) = at
      /\ \A c : Reached(c)' = Stop(cfg, c) /\ Reached(c) = Stop(cfg, c)
      /\ Finished' = seen /\ Finished = seen \ {b}
  <2>1. Walking' /\ Reached(b) = at /\ Finished' = seen /\ Finished = seen \ {b}
    BY <1>1, <1>4, StayWalk
  <2>2. \A c : Reached(c)' = Stop(cfg, c) /\ Reached(c) = Stop(cfg, c)
    BY <1>1, <1>4 DEF Reached
  <2> QED BY <2>1, <2>2
<1>6. \A v \in Var : stack[v] = W[b][Stop(cfg, b)][v]
  BY <1>1, <1>4, <1>5, StackIs
<1> HIDE DEF b
<1>7. Ghostly(W)'
  <2>1. \A c \in seen : Reached(c)' = Reached(c)
    BY <1>5
  <2> QED BY <1>1, <1>3, <2>1 DEF Ghostly
<1>8. Tracks(W)'
  <2>1. Reached(Head(path))' = Reached(Head(path))
    BY <1>1, <1>5
  <2> QED BY <1>1, <1>3, <2>1 DEF Tracks
<1>9. Paired(cfg, phis, pairs', seen, W)
  <2> SUFFICES ASSUME NEW c \in Blocks(cfg), NEW v \in phis[c]
               PROVE  /\ pairs'[c][v] \in Seq(Values \X Nat)
                      /\ \A i \in 1..Len(pairs'[c][v]) :
                            LET p == pairs'[c][v][i][2]
                            IN  /\ p \in seen /\ c \in Succ(cfg, p) /\ AtEnd(cfg, W, p, v) # <<>>
                                /\ pairs'[c][v][i][1] = Top(AtEnd(cfg, W, p, v))
                      /\ \A p \in seen : c \in Succ(cfg, p) /\ AtEnd(cfg, W, p, v) # <<>> =>
                            \E i \in 1..Len(pairs'[c][v]) : pairs'[c][v][i][2] = p
                      /\ \A i, j \in 1..Len(pairs'[c][v]) :
                            pairs'[c][v][i][2] = pairs'[c][v][j][2] => i = j
    BY DEF Paired
  <2> DEFINE s == pairs[c][v]
             t == pairs'[c][v]
             e == AtEnd(cfg, W, b, v)
  <2>1. t = IF c \in Succ(cfg, b) THEN s \o PairFor(b, v) ELSE s
    BY <1>1, <1>2
  <2>2. /\ s \in Seq(Values \X Nat) /\ Len(s) \in Nat
        /\ \A i \in 1..Len(s) : /\ s[i][2] \in seen /\ s[i][2] # b /\ c \in Succ(cfg, s[i][2])
                                /\ AtEnd(cfg, W, s[i][2], v) # <<>>
                                /\ s[i][1] = Top(AtEnd(cfg, W, s[i][2], v))
        /\ \A p \in seen \ {b} : c \in Succ(cfg, p) /\ AtEnd(cfg, W, p, v) # <<>> =>
              \E i \in 1..Len(s) : s[i][2] = p
        /\ \A i, j \in 1..Len(s) : s[i][2] = s[j][2] => i = j
    BY <1>3, <1>5, LenProperties DEF Paired
  <2>3. v \in Var /\ e = stack[v]
    BY <1>2, <1>6 DEF PhisPlaced, AtEnd
  <2>4. PairFor(b, v) = IF e = <<>> THEN <<>> ELSE <<<<Top(e), b>>>>
    BY <2>3 DEF PairFor
  <2> HIDE DEF s, t
  <2>5. CASE c \in Succ(cfg, b) /\ e # <<>>
    <3>1. Top(e) \in Values
      <4>1. Stop(cfg, b) \in Nat
        BY <1>4
      <4> QED BY <1>2, <1>3, <2>3, <2>5, <4>1, GhostStack DEF AtEnd
    <3> DEFINE x == <<Top(e), b>>
    <3>2. x \in Values \X Nat /\ x[1] = Top(e) /\ x[2] = b
      BY <1>2, <3>1
    <3>3. t = s \o <<x>>
      BY <2>1, <2>4, <2>5
    <3> HIDE DEF x, e
    <3>4. /\ t \in Seq(Values \X Nat) /\ Len(t) = Len(s) + 1 /\ t[Len(s) + 1] = x
          /\ \A i \in 1..Len(s) : t[i] = s[i]
      <4> DEFINE P == Values \X Nat
      <4>1. s \in Seq(P) /\ x \in P
        BY <2>2, <3>2
      <4> HIDE DEF P
      <4>2. /\ t \in Seq(P) /\ Len(t) = Len(s) + 1 /\ t[Len(s) + 1] = x
            /\ \A i \in 1..Len(s) : t[i] = s[i]
        BY <3>3, <4>1
      <4> QED BY <4>2 DEF P
    <3>5. \A i \in 1..Len(t) : (i \in 1..Len(s) /\ t[i] = s[i]) \/ (i = Len(s) + 1 /\ t[i] = x)
      BY <2>2, <3>4
    <3>6. \A i \in 1..Len(s) : i \in 1..Len(t)
      BY <2>2, <3>4
    <3>7. Len(s) + 1 \in 1..Len(t)
      BY <2>2, <3>4
    <3>8. \A i \in 1..Len(t) : /\ t[i][2] \in seen /\ c \in Succ(cfg, t[i][2])
                               /\ AtEnd(cfg, W, t[i][2], v) # <<>>
                               /\ t[i][1] = Top(AtEnd(cfg, W, t[i][2], v))
      BY <1>2, <2>2, <2>5, <3>2, <3>5 DEF e
    <3>9. \A p \in seen : c \in Succ(cfg, p) /\ AtEnd(cfg, W, p, v) # <<>> =>
              \E i \in 1..Len(t) : t[i][2] = p
      <4> SUFFICES ASSUME NEW p \in seen, c \in Succ(cfg, p), AtEnd(cfg, W, p, v) # <<>>
                   PROVE  \E i \in 1..Len(t) : t[i][2] = p
        OBVIOUS
      <4>1. CASE p = b
        BY <3>2, <3>4, <3>7, <4>1
      <4>2. CASE p # b
        <5>1. PICK i \in 1..Len(s) : s[i][2] = p
          BY <2>2, <4>2
        <5> QED BY <3>4, <3>6, <5>1
      <4> QED BY <4>1, <4>2
    <3>10. \A i, j \in 1..Len(t) : t[i][2] = t[j][2] => i = j
      BY <2>2, <3>2, <3>5
    <3> QED BY <3>4, <3>8, <3>9, <3>10 DEF t
  <2>6. CASE ~(c \in Succ(cfg, b) /\ e # <<>>)
    <3>1. t = s
      <4>1. s \o <<>> = s
        <5> DEFINE P == Values \X Nat
        <5>1. s \in Seq(P)
          BY <2>2
        <5> HIDE DEF P
        <5> QED BY <5>1
      <4> QED BY <2>1, <2>4, <2>6, <4>1
    <3> QED BY <2>2, <2>6, <3>1 DEF t
  <2> QED BY <2>5, <2>6
<1> QED BY <1>1, <1>5, <1>7, <1>8, <1>9 DEF Renamed

\* Stores into a variable are counted in front of the end of a block.
LEMMA PopsAre ==
    ASSUME Formed(cfg), NEW b \in Blocks(cfg), NEW v
    PROVE  StoresIn(b, v) = Cardinality(Before(cfg, b, Stop(cfg, b), v))
<1>1. {i \in DOMAIN cfg.code[b] : StoreOf(cfg.code[b][i]) = v} = Before(cfg, b, Stop(cfg, b), v)
  BY DEF Before, Stop, Store, Formed
<1> QED BY <1>1 DEF StoresIn

\* The ghost when rename returns.
LEMMA ReturnGhost ==
    ASSUME Static, Walking, RenameReturns, cfg' = cfg, NEW W, Renamed(W)
    PROVE  Walking' /\ Renamed(W)' /\ phase' \in {"rename", "done"}
<1> DEFINE b == Head(path)
<1>1. /\ phase = "rename" /\ path # <<>> /\ at = 0 /\ tree[b] \subseteq seen
      /\ stack' = [v \in DOMAIN stack |-> SubSeq(stack[v], 1, Len(stack[v]) - Pops(b, v))]
      /\ path' = Tail(path) /\ phase' = IF Len(path) = 1 THEN "done" ELSE "rename"
      /\ tree' = tree /\ phis' = phis /\ pairs' = pairs /\ repl' = repl /\ seen' = seen /\ at' = at
  BY DEF RenameReturns
<1>2. /\ Formed(cfg) /\ b \in Blocks(cfg) /\ b \in Nat /\ b \in seen /\ b \in Reachable(cfg)
      /\ \A c : Child(cfg, b, c) => c \in seen
  BY <1>1, Innermost DEF Static
<1>3. W \in Ghosts /\ Ghostly(W) /\ Tracks(W) /\ Paired(cfg, phis, pairs, Finished, W)
  BY DEF Renamed, Ghostly
<1>4. /\ Walking' /\ Finished' = Finished
      /\ \A c : Reached(c)' = Stop(cfg, c) /\ Reached(c) = Stop(cfg, c)
  BY <1>1, <1>2, ReturnWalk
<1>5. Ghostly(W)' /\ Paired(cfg, phis, pairs, Finished, W)'
  BY <1>1, <1>3, <1>4, SameGhost
<1>6. /\ path' # <<>> => b # Entry /\ Head(path') = Parent(cfg, b)
  BY <1>1, Innermost
<1>7. \A v \in Var : stack[v] = W[b][Stop(cfg, b)][v]
  BY <1>1, <1>4, StackIs
<1> HIDE DEF b
<1>8. ASSUME NEW v \in Var PROVE stack'[v] = Base(cfg, W, b)[v]
  <2>1. Stop(cfg, b) \in 1..Reached(b) /\ Stop(cfg, b) \in Nat
    BY <1>2, <1>4, ReachedIs
  <2>2. Grown(cfg, phis, W, b, Stop(cfg, b))
    BY <1>2, <1>3, <2>1 DEF Ghostly, Point
  <2>3. /\ Len(stack[v]) = Len(Base(cfg, W, b)[v]) + (IF v \in phis[b] THEN 1 ELSE 0) + StoresIn(b, v)
        /\ SubSeq(stack[v], 1, Len(Base(cfg, W, b)[v])) = Base(cfg, W, b)[v]
    BY <1>2, <1>7, <2>2, PopsAre DEF Grown
  <2>4. Len(Base(cfg, W, b)[v]) \in Nat /\ StoresIn(b, v) \in Nat
    <3>1. StoresIn(b, v) \in Nat
      BY <1>2, <2>1, PopsAre, BeforeNext
    <3> QED BY <1>2, <1>3, <3>1, BaseStack
  <2>5. v \in DOMAIN stack
    BY <1>3 DEF Tracks
  <2>6. stack'[v] = SubSeq(stack[v], 1, Len(stack[v]) - Pops(b, v))
    BY <1>1, <2>5 DEF b
  <2>7. Len(stack[v]) - Pops(b, v) = Len(Base(cfg, W, b)[v])
    <3> DEFINE n == Len(stack[v])
               m == Len(Base(cfg, W, b)[v])
               k == StoresIn(b, v)
    <3> HIDE DEF n, m, k
    <3>1. n = m + (IF v \in phis[b] THEN 1 ELSE 0) + k
      BY <2>3 DEF n, m, k
    <3>2. m \in Nat /\ k \in Nat
      BY <2>4 DEF m, k
    <3>3. Pops(b, v) = k + (IF v \in phis[b] THEN 1 ELSE 0)
      BY DEF Pops, k
    <3>4. n - Pops(b, v) = m
      BY <3>1, <3>2, <3>3
    <3> QED BY <3>4 DEF n, m
  <2> QED BY <2>3, <2>6, <2>7
<1>9. Tracks(W)'
  <2>1. DOMAIN stack' = Var \cup Cell
    BY <1>1, <1>3 DEF Tracks
  <2>2. ASSUME path' # <<>>, NEW v \in Var
        PROVE  stack'[v] = W[Head(path')][Stop(cfg, Head(path'))][v]
    BY <1>6, <1>8, <2>2 DEF Base
  <2>3. path' # <<>> => Reached(Head(path))' = Stop(cfg, Head(path'))
    BY <1>1 DEF Reached
  <2>4. seen' # {}
    BY <1>1, <1>2
  <2> QED BY <2>1, <2>2, <2>3, <2>4 DEF Tracks
<1> QED BY <1>1, <1>4, <1>5, <1>9 DEF Renamed

\* The ghost before anything is renamed.
LEMMA GenerateGhost ==
    ASSUME Idle, GeneratePhi, outcome' = outcome, outcome = "done", CleanPreds(cfg), Formed(cfg),
           Numbered(cfg, nodes), cfg' = cfg, nodes' = nodes
    PROVE  Static' /\ Walking' /\ (\E W : Renamed(W)') /\ phase' = "rename"
<1> DEFINE frontier == [b \in Blocks(cfg) |-> DomFrontier(cfg, Dominance(cfg), b)]
           placed   == [v \in Var |-> PhiBlocks(v, frontier)]
<1>1. /\ phase' = "rename" /\ repl' = repl /\ path' = path /\ seen' = seen /\ at' = at
      /\ tree' = [b \in Blocks(cfg) |-> DomChildren(cfg, Dominance(cfg), b)]
      /\ phis' = [b \in Blocks(cfg) |-> {v \in Var : b \in placed[v]}]
      /\ pairs' = [b \in Blocks(cfg) |-> [v \in phis'[b] |-> <<>>]]
      /\ stack' = [v \in Var \cup Cell |-> <<>>]
  BY DEF GeneratePhi
<1>2. \A v \in Var : placed[v] = Placed(cfg, Storing(cfg, v))
  <2>1. \A v : StoreBlocks(v) = Storing(cfg, v)
    BY StoringIs
  <2> QED BY <2>1 DEF PhiBlocks, Placed, Frontiers
<1> HIDE DEF placed, frontier
<1>3. PhisPlaced(cfg, phis)'
  BY <1>1, <1>2 DEF PhisPlaced
<1>4. \A b \in Blocks(cfg) : \A c : c \in tree'[b] <=> Child(cfg, b, c)
  BY <1>1 DEF Child
<1>5. Static'
  BY <1>3, <1>4 DEF Static
<1>6. path' = <<>> /\ seen' = {} /\ at' = 0 /\ repl' = <<>>
  BY <1>1 DEF Idle
<1>7. Walking'
  <2>1. path' \in Seq(Blocks(cfg)) /\ Members(path') = {} /\ Len(path') = 0
    BY <1>6 DEF Members
  <2> QED BY <1>1, <1>6, <2>1 DEF Walking
<1>8. PICK W : W \in Ghosts
  <2>1. [x \in Nat |-> [y \in Nat |-> [v \in Var |-> <<>>]]] \in Ghosts
    BY DEF Ghosts
  <2> QED BY <2>1
<1>9. Ghostly(W)' /\ Tracks(W)'
  BY <1>1, <1>6, <1>8 DEF Ghostly, Tracks
<1>10. Paired(cfg, phis, pairs, Finished, W)'
  <2>1. Finished' = {}
    BY <1>6 DEF Finished
  <2>2. \A c \in Blocks(cfg) : \A v \in phis'[c] : pairs'[c][v] = <<>>
    BY <1>1
  <2>3. <<>> \in Seq(Values \X Nat) /\ \A i : i \notin 1..Len(<<>>)
    OBVIOUS
  <2> QED BY <2>1, <2>2, <2>3 DEF Paired
<1> QED BY <1>1, <1>5, <1>7, <1>9, <1>10 DEF Renamed

-----------------------------------------------------------------------------
(* The inductive invariant.                                                *)

\* Why rename has failed.
Lost ==
    phase = "lost" =>
        /\ path # <<>> /\ at \in 1..Len(cfg.code[Head(path)])
        /\ Load(cfg, Head(path), at) \in Var /\ stack[Load(cfg, Head(path), at)] = <<>>

\* The value that a variable has at a point is in a register with its datum.
Executing(W) ==
    pc # <<0, 0>> =>
        /\ phase = "done"
        /\ pc[1] \in Reachable(cfg) /\ pc[2] \in 1..Stop(cfg, pc[1])
        /\ DOMAIN memory = Var /\ DOMAIN regs = RegNames
        /\ \A v \in Var : memory[v] # Undef =>
              /\ W[pc[1]][pc[2]][v] # <<>>
              /\ regs[Top(W[pc[1]][pc[2]][v])] = memory[v]

\* Every variable is in the order once.
InTurn ==
    /\ order \in Seq(Var)
    /\ \A v \in Var : \E i \in 1..Len(order) : order[i] = v
    /\ \A i, j \in 1..Len(order) : order[i] = order[j] => i = j

\* No copy reads a slot that another one for the same block has overwritten.
NoneOverwritten == \A b, c \in Blocks(cfg) : ~ReadsOverwritten(b, c)

\* The value that a variable has at a point is in a slot with its datum, too, but
\* for copies that read what others have overwritten.
Copying(W) ==
    pc # <<0, 0>> /\ NoneOverwritten =>
        /\ InTurn /\ DOMAIN slots = RegNames
        /\ \A v \in Var : memory[v] # Undef => slots[Top(W[pc[1]][pc[2]][v])] = memory[v]

\* The builder's invariant; nothing has been promoted, or renaming is as described
\* for some ghost; and the same ghost describes the registers and the slots of the
\* execution.
PInv ==
    /\ BuilderInv /\ Structured /\ Numbered(cfg, nodes)
    /\ phase = "idle" => Idle
    /\ phase # "idle" => Static /\ Walking /\ Lost
    /\ \E W : (phase # "idle" => Renamed(W)) /\ Executing(W) /\ Copying(W)

\* It holds before the first statement is built, ...
LEMMA PInvInit == PInit => PInv
<1> SUFFICES ASSUME PInit PROVE PInv
  OBVIOUS
<1>1. BuilderInv /\ Structured
  BY InitBuilderInv, InitStructured DEF PInit
<1>2. Numbered(cfg, nodes)
  <2>1. Coded(EmptyGraph) /\ EmptyGraph.n = 0
    BY DEF Coded, EmptyGraph
  <2>2. Fewer(cfg, EmptyGraph)
    BY <2>1, BlockHasNoCode DEF PInit, Init
  <2>3. \A b, i, k : ~Computes(EmptyGraph, b, i, k)
    BY <2>1 DEF Computes, Blocks
  <2> QED BY <2>2, <2>3 DEF Numbered, Fewer
<1>3. Idle /\ phase = "idle" /\ \A W : Executing(W) /\ Copying(W)
  BY DEF PInit, Idle, Executing, Copying
<1> QED BY <1>1, <1>2, <1>3 DEF PInv

\* ... building keeps it, since numbers grow, ...
LEMMA BuildKeeps ==
    ASSUME PInv, Build
    PROVE  PInv'
<1>1. BuildStep /\ outcome = "running"
  <2>1. \A node, kids : Draw(node, kids) => outcome = "running"
    BY DEF Draw, Visiting
  <2>2. BuildStep => outcome = "running"
    BY <2>1 DEF BuildStep, VisitExpression, VisitReturn, VisitIf, VisitIfElse, VisitWhile,
                VisitEmpty, OpenCompound, CloseCompound, EndList, CloseBranch, MoveInsertPoint, EndFunction, Visiting
  <2> QED BY <2>2 DEF Build
<1>2. BuilderInv' /\ Structured'
  BY <1>1, BuilderStep, StructuredStep DEF PInv
<1>3. Numbered(cfg', nodes')
  BY <1>1, BuildNumbers DEF PInv
<1>4. phase = "idle" /\ Idle /\ phase' = phase /\ Idle'
  BY <1>1 DEF PInv, Static, Build, mvars, Idle
<1>5. pc = <<0, 0>> /\ pc' = pc
  BY <1>4 DEF PInv, Executing, Build, xvars
<1>6. \A W : Executing(W)' /\ Copying(W)'
  BY <1>5 DEF Executing, Copying
<1> QED BY <1>2, <1>3, <1>4, <1>6 DEF PInv

\* ... so does entering a block, ...
LEMMA RenameKeeps ==
    ASSUME Static, Walking, Lost, NEW W, Renamed(W), phase = "rename",
           NEW b \in Reachable(cfg), b \notin seen, Rename(b), cfg' = cfg,
           (b = Entry /\ seen = {}) \/ (path # <<>> /\ at = 0 /\ Child(cfg, Head(path), b))
    PROVE  Walking' /\ (\E V : Renamed(V)') /\ phase' = "rename"
<1>1. /\ phase' = phase /\ path' = <<b>> \o path /\ seen' = seen \cup {b} /\ at' = 1
      /\ phis' = phis /\ pairs' = pairs /\ repl' = repl
      /\ stack' = [v \in DOMAIN stack |->
                      IF v \in phis[b] THEN Append(stack[v], Phi(b, v)) ELSE stack[v]]
  BY DEF Rename
<1>2. Walking'
  BY <1>1, EnterWalk
<1>3. \E V \in Ghosts : Renamed(V)'
  BY <1>1, EnterGhost
<1> QED BY <1>1, <1>2, <1>3

\* ... and every step of the pass, with the ghost that the step extends, ...
LEMMA PromoteKeeps ==
    ASSUME PInv, Promote
    PROVE  PInv'
<1>1. /\ outcome = "done" /\ CleanPreds(cfg) /\ PromoteStep
      /\ cfg' = cfg /\ nodes' = nodes /\ outcome' = outcome
  BY DEF Promote
<1>2. BuilderInv' /\ Structured' /\ Numbered(cfg', nodes')
  <2>1. UNCHANGED bvars
    BY DEF Promote, bvars
  <2> QED BY <1>1, <2>1, BuilderStep, StructuredStep DEF PInv
<1>3. PICK W : (phase # "idle" => Renamed(W)) /\ Executing(W)
  BY DEF PInv
<1>4. phase \in {"idle", "rename"}
  BY <1>1 DEF PromoteStep, GeneratePhi, RenameEntry, RenameInstruction, FillSuccessors, RenameChild,
              RenameReturns
<1>5. pc' = <<0, 0>>
  BY <1>3, <1>4 DEF Executing, Promote, xvars
<1>6. \A V : Executing(V)' /\ Copying(V)'
  BY <1>5 DEF Executing, Copying
<1>7. CASE GeneratePhi
  <2>1. Idle
    BY <1>7 DEF PInv, GeneratePhi
  <2>2. Formed(cfg) /\ Numbered(cfg, nodes)
    BY Shape DEF PInv
  <2>3. Static' /\ Walking' /\ (\E V : Renamed(V)') /\ phase' = "rename"
    BY <1>1, <1>7, <2>1, <2>2, GenerateGhost
  <2> QED BY <1>2, <1>6, <2>3 DEF PInv, Lost
<1>8. CASE ~GeneratePhi
  <2>1. phase = "rename" /\ Static /\ Walking /\ Lost /\ Renamed(W)
    BY <1>1, <1>3, <1>8 DEF PInv, PromoteStep, RenameEntry, RenameInstruction, FillSuccessors,
                            RenameChild, RenameReturns
  <2>2. tree' = tree /\ phis' = phis
    BY <1>1, <1>8 DEF PromoteStep, RenameEntry, RenameInstruction, FillSuccessors, RenameChild,
                      RenameReturns, Rename
  <2>3. Static'
    BY <1>1, <2>1, <2>2 DEF Static
  <2>4. Walking' /\ (\E V : Renamed(V)') /\ Lost' /\ phase' # "idle"
    <3>1. CASE RenameEntry
      <4>1. Entry \in Reachable(cfg) /\ Entry \notin seen
        BY <2>1, <3>1, LiveLeast DEF RenameEntry, Static, Formed
      <4>2. Walking' /\ (\E V : Renamed(V)') /\ phase' = "rename"
        BY <1>1, <2>1, <3>1, <4>1, RenameKeeps DEF RenameEntry
      <4> QED BY <4>2 DEF Lost
    <3>2. CASE RenameInstruction
      <4>1. Walking' /\ (\E V : Renamed(V)') /\ phase' \in {"rename", "lost"}
        BY <1>1, <2>1, <3>2, InstrGhost
      <4>2. ASSUME phase' = "lost"
            PROVE  /\ path # <<>> /\ at \in 1..Len(cfg.code[Head(path)])
                   /\ path' = path /\ at' = at /\ stack' = stack
                   /\ Load(cfg, Head(path), at) \in Var /\ stack[Load(cfg, Head(path), at)] = <<>>
        BY <2>1, <3>2, <4>2 DEF RenameInstruction, IsValidPtr, Load
      <4>3. Lost'
        BY <1>1, <4>2 DEF Lost
      <4> QED BY <4>1, <4>3
    <3>3. CASE FillSuccessors
      BY <1>1, <2>1, <3>3, FillGhost DEF Lost
    <3>4. ASSUME NEW c \in Blocks(cfg), RenameChild(c)
          PROVE  Walking' /\ (\E V : Renamed(V)') /\ Lost' /\ phase' # "idle"
      <4>1. path # <<>> /\ at = 0 /\ c \in tree[Head(path)] /\ c \notin seen /\ Rename(c)
        BY <3>4 DEF RenameChild
      <4>2. Child(cfg, Head(path), c)
        BY <2>1, <4>1, Innermost DEF Static
      <4>3. c \in Reachable(cfg)
        BY <2>1, <4>2, ChildIs, DominatesIs DEF Static, Formed
      <4>4. Walking' /\ (\E V : Renamed(V)') /\ phase' = "rename"
        BY <1>1, <2>1, <4>1, <4>2, <4>3, RenameKeeps
      <4> QED BY <4>4 DEF Lost
    <3>5. CASE RenameReturns
      <4>1. Walking' /\ Renamed(W)' /\ phase' \in {"rename", "done"}
        BY <1>1, <2>1, <3>5, ReturnGhost
      <4> QED BY <4>1 DEF Lost
    <3> QED BY <1>1, <1>8, <3>1, <3>2, <3>3, <3>4, <3>5 DEF PromoteStep
  <2> QED BY <1>2, <1>6, <2>3, <2>4 DEF PInv
<1> QED BY <1>7, <1>8

-----------------------------------------------------------------------------
(* The execution.                                                          *)

\* When rename has come to its end, it has come to every live block.
LEMMA AllRenamed ==
    ASSUME Static, Walking, phase = "done", NEW W, Renamed(W)
    PROVE  /\ seen = Reachable(cfg) /\ Finished = Reachable(cfg)
           /\ \A b : Reached(b) = Stop(cfg, b)
           /\ W \in Ghosts
           /\ \A b \in Reachable(cfg) : \A i \in 1..Stop(cfg, b) : Point(cfg, phis, W, b, i)
           /\ \A b \in Reachable(cfg) : \A i \in 1..Len(cfg.code[b]) : Replaced(cfg, W, repl, b, i)
           /\ Paired(cfg, phis, pairs, Reachable(cfg), W)
<1>1. path = <<>> /\ seen # {} /\ Routed(cfg)
  BY DEF Walking, Static, Formed
<1>2. Members(path) = {}
  BY <1>1 DEF Members
<1>3. Entry \in seen /\ \A b \in seen : \A c : Child(cfg, b, c) => c \in seen
  BY <1>1, <1>2 DEF Walking
<1>4. seen = Reachable(cfg)
  BY <1>1, <1>3, TreeReachesAll DEF Walking
<1>5. Finished = seen /\ \A b : Reached(b) = Stop(cfg, b)
  BY <1>1 DEF Finished, Reached
<1>6. W \in Ghosts /\ Ghostly(W) /\ Paired(cfg, phis, pairs, Finished, W)
  BY DEF Renamed, Ghostly
<1>7. \A b \in Reachable(cfg) : \A i \in 1..Stop(cfg, b) : Point(cfg, phis, W, b, i)
  BY <1>4, <1>5, <1>6 DEF Ghostly
<1>8. ASSUME NEW b \in Reachable(cfg), NEW i \in 1..Len(cfg.code[b])
      PROVE  Replaced(cfg, W, repl, b, i)
  <2>1. Len(cfg.code[b]) \in Nat
    BY <1>1, LiveLeast DEF Static, Formed
  <2>2. i \in 1..Stop(cfg, b) /\ i < Stop(cfg, b)
    BY <2>1 DEF Stop
  <2> QED BY <1>4, <1>5, <1>6, <2>2 DEF Ghostly
<1> QED BY <1>4, <1>5, <1>6, <1>7, <1>8

\* Where the execution is.
LEMMA ExecutionIs ==
    ASSUME Static, Walking, NEW W, Renamed(W), Executing(W), pc # <<0, 0>>
    PROVE  /\ phase = "done" /\ W \in Ghosts /\ Formed(cfg) /\ Routed(cfg) /\ Numbered(cfg, nodes)
           /\ PhisPlaced(cfg, phis)
           /\ pc[1] \in Reachable(cfg) /\ pc[1] \in Blocks(cfg) /\ pc[1] \in Nat
           /\ pc[2] \in 1..Stop(cfg, pc[1]) /\ pc[2] \in Nat /\ Len(cfg.code[pc[1]]) \in Nat
           /\ Point(cfg, phis, W, pc[1], pc[2])
           /\ DOMAIN memory = Var /\ DOMAIN regs = RegNames
           /\ \A v \in Var : memory[v] # Undef =>
                 /\ W[pc[1]][pc[2]][v] # <<>>
                 /\ regs[Top(W[pc[1]][pc[2]][v])] = memory[v]
<1>1. /\ phase = "done" /\ pc[1] \in Reachable(cfg) /\ pc[2] \in 1..Stop(cfg, pc[1])
      /\ DOMAIN memory = Var /\ DOMAIN regs = RegNames
      /\ \A v \in Var : memory[v] # Undef =>
            /\ W[pc[1]][pc[2]][v] # <<>>
            /\ regs[Top(W[pc[1]][pc[2]][v])] = memory[v]
  BY DEF Executing
<1>2. /\ Formed(cfg) /\ Routed(cfg) /\ Numbered(cfg, nodes) /\ PhisPlaced(cfg, phis)
      /\ pc[1] \in Blocks(cfg) /\ pc[1] \in Nat /\ Len(cfg.code[pc[1]]) \in Nat
  BY <1>1, LiveLeast DEF Static, Formed
<1>3. W \in Ghosts /\ Point(cfg, phis, W, pc[1], pc[2])
  BY <1>1, AllRenamed
<1> QED BY <1>1, <1>2, <1>3

\* An instruction changes no value that is used later, in registers or in slots.
LEMMA ExecuteHeld ==
    ASSUME Static, Walking, NEW W, Renamed(W), Executing(W), NEW d, Execute(d),
           NEW held, DOMAIN held = RegNames, NEW held2, held2 = Computed(held, d),
           \A v \in Var : memory[v] # Undef => held[Top(W[pc[1]][pc[2]][v])] = memory[v]
    PROVE  /\ DOMAIN held2 = RegNames' /\ DOMAIN memory' = Var
           /\ pc' = <<pc[1], pc[2] + 1>> /\ pc'[1] = pc[1] /\ pc'[2] = pc[2] + 1
           /\ pc[1] \in Reachable(cfg') /\ pc[2] + 1 \in 1..Stop(cfg', pc[1]) /\ phase' = "done"
           /\ \A v \in Var : memory'[v] # Undef =>
                 /\ W[pc[1]][pc[2] + 1][v] # <<>>
                 /\ held2[Top(W[pc[1]][pc[2] + 1][v])] = memory'[v]
<1> DEFINE b == pc[1]
           i == pc[2]
           l == Load(cfg, b, i)
           s == Store(cfg, b, i)
           n == Number(cfg, b, i)
<1>1. /\ pc[1] # 0 /\ pc[2] <= Len(cfg.code[pc[1]])
      /\ s \in Var => memory' = [memory EXCEPT ![s] = IF l \in Var THEN memory[l] ELSE d]
      /\ s \notin Var => memory' = memory
      /\ Instr[1] \in Payload => held2 = [held EXCEPT ![Val(n)] = d]
      /\ Instr[1] \notin Payload => held2 = held
      /\ pc' = <<b, i + 1>> /\ cfg' = cfg /\ phase' = phase /\ nodes' = nodes
  BY DEF Execute, mvars, Computed, Instr, Load, Store, Number
<1>2. pc # <<0, 0>>
  BY <1>1
<1>3. /\ phase = "done" /\ W \in Ghosts /\ Formed(cfg) /\ Routed(cfg) /\ Numbered(cfg, nodes)
      /\ b \in Reachable(cfg) /\ b \in Blocks(cfg) /\ b \in Nat
      /\ i \in 1..Stop(cfg, b) /\ i \in Nat /\ Len(cfg.code[b]) \in Nat
      /\ Point(cfg, phis, W, b, i)
      /\ DOMAIN memory = Var /\ DOMAIN held = RegNames
      /\ \A v \in Var : memory[v] # Undef =>
            W[b][i][v] # <<>> /\ held[Top(W[b][i][v])] = memory[v]
  BY <1>2, ExecutionIs
<1>4. /\ i \in 1..Len(cfg.code[b]) /\ i + 1 \in 1..Stop(cfg, b) /\ i + 1 # 1 /\ i + 1 - 1 = i
      /\ i + 1 \in Nat
  BY <1>1, <1>3 DEF Stop
<1>5. Instr[1] \in Payload => Computes(cfg, b, i, n)
  BY <1>3, <1>4 DEF Computes, Number, Instr
<1>6. RegNames' = RegNames
  BY <1>1 DEF RegNames, PhiValues
<1>7. (s \in Var => Instr[1] \in Payload) /\ (l \in Var => Instr[1] \in Payload)
  BY <1>3, <1>4, InstrIs DEF Computes, Instr
<1>8. Instr[1] \in Payload => Val(n) \in RegNames
  <2>1. Instr[1] \in Payload => n \in 1..nodes
    BY <1>3, <1>5 DEF Numbered
  <2> QED BY <2>1 DEF RegNames
<1>9. \A v \in Var : W[b][i + 1][v] = IF s = v THEN Append(W[b][i][v], Value(cfg, W, b, i))
                                      ELSE W[b][i][v]
  <2>1. Steps(cfg, phis, W, b, i + 1)
    BY <1>3, <1>4, AllRenamed DEF Point
  <2> QED BY <1>4, <2>1 DEF Steps
<1> HIDE DEF b, i, l, s, n
<1>10. ASSUME NEW v \in Var, W[b][i][v] # <<>>
       PROVE  held2[Top(W[b][i][v])] = held[Top(W[b][i][v])]
  <2>1. Defined(cfg, b, i, Top(W[b][i][v]))
    BY <1>3, <1>10 DEF Point, Known
  <2>2. Instr[1] \in Payload => Top(W[b][i][v]) # Val(n)
    <3> SUFFICES ASSUME Instr[1] \in Payload PROVE Top(W[b][i][v]) # Val(n)
      OBVIOUS
    <3> DEFINE x == Top(W[b][i][v])
    <3> HIDE DEF x
    <3>1. ASSUME NEW y, NEW w, x = Phi(y, w) PROVE x # Val(n)
      BY <3>1, ValuesDiffer
    <3>2. ASSUME NEW y, NEW k, NEW m, x = Val(m), Computes(cfg, y, k, m), y = b => k < i
          PROVE  x # Val(n)
      <4>1. x = Val(n) => m = n
        BY <3>2, ValuesDiffer
      <4>2. m = n => y = b /\ k = i
        BY <1>3, <1>5, <3>2 DEF Numbered
      <4>3. ~(i < i)
        BY <1>3
      <4> QED BY <3>2, <4>1, <4>2, <4>3
    <3>3. Defined(cfg, b, i, x)
      BY <2>1 DEF x
    <3>4. x # Val(n)
      BY <3>1, <3>2, <3>3 DEF Defined
    <3> QED BY <3>4 DEF x
  <2>3. Instr[1] \in Payload => held2 = [held EXCEPT ![Val(n)] = d]
    BY <1>1 DEF n
  <2>4. Instr[1] \notin Payload => held2 = held
    BY <1>1
  <2>5. Top(W[b][i][v]) \in RegNames
    <3>1. \A y, k, m : Computes(cfg, y, k, m) => m \in 1..nodes
      BY <1>3 DEF Numbered
    <3>2. \A y : Dominates(cfg, y, b) => y \in Blocks(cfg)
      BY <1>3, DominatesIs, LiveLeast
    <3> QED BY <2>1, <3>1, <3>2 DEF Defined, RegNames, PhiValues
  <2> QED BY <1>3, <2>2, <2>3, <2>4, <2>5
<1>11. DOMAIN held2 = RegNames' /\ DOMAIN memory' = Var
  BY <1>1, <1>3, <1>6 DEF b, i, l, s, n
<1>12. ASSUME NEW v \in Var, memory'[v] # Undef
       PROVE  W[b][i + 1][v] # <<>> /\ held2[Top(W[b][i + 1][v])] = memory'[v]
  <2>1. CASE s # v
    <3>1. memory'[v] = memory[v] /\ W[b][i + 1][v] = W[b][i][v]
      BY <1>1, <1>3, <1>9, <2>1 DEF b, i, l, s, n
    <3> QED BY <1>3, <1>10, <1>12, <3>1
  <2>2. CASE s = v
    <3>1. memory'[v] = IF l \in Var THEN memory[l] ELSE d
      BY <1>1, <1>3, <2>2 DEF b, i, l, s, n
    <3>2. l \in Var => /\ W[b][i][l] # <<>> /\ held[Top(W[b][i][l])] = memory[l]
                       /\ held2[Top(W[b][i][l])] = held[Top(W[b][i][l])]
      BY <1>3, <1>10, <1>12, <3>1
    <3> DEFINE x == Value(cfg, W, b, i)
    <3>3. held2[x] = memory'[v]
      <4>1. CASE l \in Var
        BY <3>1, <3>2, <4>1 DEF Value, l
      <4>2. CASE l \notin Var
        <5>1. x = Val(n)
          BY <4>2 DEF Value, l, n
        <5>2. held2 = [held EXCEPT ![Val(n)] = d] /\ Val(n) \in RegNames
          BY <1>1, <1>7, <1>8, <2>2 DEF n
        <5> QED BY <1>3, <3>1, <4>2, <5>1, <5>2
      <4> QED BY <4>1, <4>2
    <3>4. x \in Values
      <4>1. l \in Var => W[b][i][l] # <<>>
        BY <3>2
      <4>2. Steps(cfg, phis, W, b, i + 1)
        BY <1>3, <1>4, AllRenamed DEF Point
      <4> QED BY <1>3, <1>4, <4>1, <4>2, NextPoint DEF l
    <3> HIDE DEF x
    <3>5. W[b][i + 1][v] = Append(W[b][i][v], x)
      BY <1>9, <2>2 DEF x
    <3>6. W[b][i][v] \in Seq(Values)
      BY <1>3, GhostStack
    <3> QED BY <3>3, <3>4, <3>5, <3>6, Pushed1
  <2> QED BY <2>1, <2>2
<1>13. pc'[1] = b /\ pc'[2] = i + 1
  BY <1>1 DEF b, i
<1>14. /\ b \in Reachable(cfg') /\ i + 1 \in 1..Stop(cfg', b) /\ phase' = "done"
  BY <1>1, <1>3, <1>4
<1> QED BY <1>1, <1>11, <1>12, <1>13, <1>14 DEF b, i

\* ... so the registers still have what the variables have, ...
LEMMA ExecuteKeeps ==
    ASSUME Static, Walking, NEW W, Renamed(W), Executing(W), NEW d, Execute(d)
    PROVE  Executing(W)'
<1>1. pc # <<0, 0>> /\ regs' = Computed(regs, d)
  BY DEF Execute
<1>2. /\ DOMAIN regs = RegNames
      /\ \A v \in Var : memory[v] # Undef => regs[Top(W[pc[1]][pc[2]][v])] = memory[v]
  BY <1>1 DEF Executing
<1> QED BY <1>1, <1>2, ExecuteHeld DEF Executing

\* A block without a definition of a variable leaves its stack as it found it.
LEMMA StackPasses ==
    ASSUME NEW g, Formed(g), NEW ph, PhisPlaced(g, ph), NEW W \in Ghosts, NEW v \in Var,
           NEW x \in Reachable(g), x # Entry, x \notin Storing(g, v) \cup Placed(g, Storing(g, v)),
           Point(g, ph, W, x, Stop(g, x))
    PROVE  W[x][Stop(g, x)][v] = W[Parent(g, x)][Stop(g, Parent(g, x))][v]
<1>1. x \in Blocks(g) /\ x \in Nat /\ Stop(g, x) \in Nat /\ Stop(g, x) > 0 /\ Len(g.code[x]) \in Nat
  BY LiveLeast DEF Formed, Stop
<1>2. v \notin ph[x]
  BY <1>1 DEF PhisPlaced
<1>3. Before(g, x, Stop(g, x), v) = {} /\ Before(g, x, 1, v) = {}
  <2>1. Before(g, x, Stop(g, x), v) = {}
    BY <1>1 DEF Before, Stop, Storing
  <2> QED BY <2>1 DEF Before
<1>4. Cardinality(Before(g, x, Stop(g, x), v)) = 0
  <2>1. Cardinality(Before(g, x, 1, v)) = 0
    BY BeforeNext
  <2> QED BY <1>3, <2>1
<1> DEFINE base == Base(g, W, x)[v]
           top  == W[x][Stop(g, x)][v]
<1>5. Len(top) = Len(base) /\ SubSeq(top, 1, Len(base)) = base
  <2>1. Len(top) = Len(base) + 0 + 0 /\ SubSeq(top, 1, Len(base)) = base
    BY <1>2, <1>4 DEF Point, Grown
  <2>2. Len(base) \in Nat
    BY BaseStack
  <2> HIDE DEF base, top
  <2> QED BY <2>1, <2>2
<1>6. top \in Seq(Values)
  BY <1>1, GhostStack
<1>7. base = W[Parent(g, x)][Stop(g, Parent(g, x))][v]
  BY DEF Base
<1> HIDE DEF base, top
<1>8. SubSeq(top, 1, Len(top)) = top
  BY <1>6
<1>9. top = base
  BY <1>5, <1>8
<1> QED BY <1>7, <1>9 DEF top

\* Where no phi joins a variable, its stack is the same at the end of every
\* predecessor: that of the block above.
LEMMA NoPhiNoChange ==
    ASSUME NEW g, Formed(g), NEW ph, PhisPlaced(g, ph), NEW W \in Ghosts, NEW v \in Var,
           \A x \in Reachable(g) : Point(g, ph, W, x, Stop(g, x)),
           NEW b \in Reachable(g), NEW c \in Succ(g, b), v \notin ph[c]
    PROVE  /\ c = Entry => W[b][Stop(g, b)][v] = <<>>
           /\ c # Entry => W[b][Stop(g, b)][v] = W[Parent(g, c)][Stop(g, Parent(g, c))][v]
<1>1. /\ Routed(g) /\ b \in Blocks(g) /\ c \in Reachable(g) /\ c \in Blocks(g)
      /\ c \notin Placed(g, Storing(g, v))
      /\ Storing(g, v) \in SUBSET Blocks(g)
  BY LiveLeast DEF Formed, PhisPlaced, Storing
<1>2. ASSUME c = Entry PROVE W[b][Stop(g, b)][v] = <<>>
  <2>1. \A x : Dominates(g, x, b) => x \notin Storing(g, v) \cup Placed(g, Storing(g, v))
    BY <1>1, <1>2, NothingBefore
  <2>2. ~HasDef(g, b, Stop(g, b), v)
    BY <2>1, DefAtEnd
  <2> QED BY <2>2 DEF Point, Filled
<1>3. ASSUME c # Entry
      PROVE  W[b][Stop(g, b)][v] = W[Parent(g, c)][Stop(g, Parent(g, c))][v]
  <2> DEFINE a == Parent(g, c)
             f == [x \in Reachable(g) |-> W[x][Stop(g, x)][v]]
  <2>1. Child(g, a, c) /\ a \in Reachable(g)
    BY <1>1, <1>3, ParentIs
  <2> HIDE DEF a
  <2>2. /\ Dominates(g, a, b)
        /\ \A x : Dominates(g, a, x) /\ Dominates(g, x, b) /\ x # a
                     => x \notin Storing(g, v) \cup Placed(g, Storing(g, v))
    BY <1>1, <2>1, NothingBetween
  <2>3. ASSUME NEW x, NEW p, Dominates(g, a, x), Dominates(g, x, b), x # a, Child(g, p, x)
        PROVE  f[x] = f[p]
    <3>1. x \in Reachable(g)
      BY <1>1, <2>3, DominatesIs
    <3>2. x # Entry /\ p \in Reachable(g)
      <4>1. Dominates(g, p, x) /\ p # x
        BY <1>1, <2>3, ChildIs
      <4>2. p \in Reachable(g)
        BY <1>1, <4>1, DominatesIs
      <4>3. Dominates(g, Entry, p)
        BY <1>1, <4>2, EntryDominates
      <4> QED BY <1>1, <4>1, <4>2, <4>3, DominatesAntisymmetric
    <3>3. p = Parent(g, x)
      BY <1>1, <2>3, <3>1, <3>2, ParentIs
    <3>4. x \notin Storing(g, v) \cup Placed(g, Storing(g, v))
      BY <2>2, <2>3
    <3>5. Point(g, ph, W, x, Stop(g, x))
      BY <3>1
    <3>6. W[x][Stop(g, x)][v] = W[Parent(g, x)][Stop(g, Parent(g, x))][v]
      BY <3>1, <3>2, <3>4, <3>5, StackPasses
    <3> QED BY <3>1, <3>2, <3>3, <3>6
  <2>4. f[b] = f[a]
    <3> HIDE DEF f
    <3>1. \A x, p : Dominates(g, a, x) /\ Dominates(g, x, b) /\ x # a /\ Child(g, p, x)
                       => f[x] = f[p]
      BY <2>3
    <3>2. Routed(g) /\ Dominates(g, a, b)
      BY <1>1, <2>2
    <3> QED BY <3>1, <3>2, TreeWalk
  <2> QED BY <2>1, <2>4 DEF a
<1> QED BY <1>2, <1>3

\* The pair that a predecessor has brought is the only one.
LEMMA IncomingIs ==
    ASSUME NEW F, NEW W, Paired(cfg, phis, pairs, F, W), NEW b \in F, NEW c \in Blocks(cfg),
           c \in Succ(cfg, b), NEW v \in phis[c], AtEnd(cfg, W, b, v) # <<>>
    PROVE  Incoming(b, c, v) = {Top(AtEnd(cfg, W, b, v))}
<1> DEFINE s == pairs[c][v]
           x == Top(AtEnd(cfg, W, b, v))
<1>1. /\ s \in Seq(Values \X Nat)
      /\ \A i \in 1..Len(s) : s[i][1] = Top(AtEnd(cfg, W, s[i][2], v))
      /\ \E i \in 1..Len(s) : s[i][2] = b
  BY DEF Paired
<1>2. DOMAIN s = 1..Len(s)
  BY <1>1, LenProperties
<1>3. \A r : r \in Incoming(b, c, v) <=> \E i \in 1..Len(s) : s[i][2] = b /\ r = s[i][1]
  BY <1>2 DEF Incoming, Members
<1>4. \A i \in 1..Len(s) : s[i][2] = b => s[i][1] = x
  BY <1>1
<1> HIDE DEF s, x
<1>5. \A r : r \in Incoming(b, c, v) <=> r = x
  BY <1>1, <1>3, <1>4
<1>6. Incoming(b, c, v) = {x}
  BY <1>5
<1> QED BY <1>6 DEF x

\* A value that is defined somewhere has a register, and a slot.
LEMMA DefinedNamed ==
    ASSUME Static, NEW b \in Reachable(cfg), NEW i, NEW x, Defined(cfg, b, i, x)
    PROVE  x \in RegNames
<1>1. Routed(cfg)
  BY DEF Static, Formed
<1>2. \A y, k, m : Computes(cfg, y, k, m) => m \in 1..nodes
  BY DEF Static, Numbered
<1>3. \A y : Dominates(cfg, y, b) => y \in Blocks(cfg)
  BY <1>1, DominatesIs, LiveLeast
<1> QED BY <1>2, <1>3 DEF Defined, RegNames, PhiValues

\* What a block brings to a phi is the value on its stack in the end.
LEMMA OperandIs ==
    ASSUME Static, Walking, phase = "done", NEW W, Renamed(W), NEW b \in Reachable(cfg),
           NEW c \in Succ(cfg, b), NEW v \in Var
    PROVE  /\ Phi(c, v) \in RegNames
           /\ Brings(b, c, v) <=> v \in phis[c] /\ AtEnd(cfg, W, b, v) # <<>>
           /\ Brings(b, c, v) =>
                 LET x == Operand(b, c, v)
                 IN  x = Top(AtEnd(cfg, W, b, v)) /\ x \in RegNames /\ Defined(cfg, b, Stop(cfg, b), x)
<1>1. /\ Routed(cfg) /\ Formed(cfg) /\ b \in Blocks(cfg) /\ c \in Blocks(cfg)
      /\ Len(cfg.code[b]) \in Nat
  BY LiveLeast DEF Static, Formed, Routed
<1>2. /\ Paired(cfg, phis, pairs, Reachable(cfg), W)
      /\ Stop(cfg, b) \in 1..Stop(cfg, b) => Point(cfg, phis, W, b, Stop(cfg, b))
  BY AllRenamed
<1>3. Point(cfg, phis, W, b, Stop(cfg, b))
  BY <1>1, <1>2 DEF Stop
<1>4. Phi(c, v) \in RegNames
  BY <1>1 DEF RegNames, PhiValues
<1>5. ASSUME v \in phis[c], Incoming(b, c, v) # {}
      PROVE  AtEnd(cfg, W, b, v) # <<>>
  <2>1. PICK i \in DOMAIN pairs[c][v] : pairs[c][v][i][2] = b
    BY <1>5 DEF Incoming, Members
  <2>2. pairs[c][v] \in Seq(Values \X Nat)
    BY <1>1, <1>2, <1>5 DEF Paired
  <2>3. i \in 1..Len(pairs[c][v])
    BY <2>1, <2>2, LenProperties
  <2> QED BY <1>1, <1>2, <1>5, <2>1, <2>3 DEF Paired
<1>6. ASSUME v \in phis[c], AtEnd(cfg, W, b, v) # <<>>
      PROVE  Incoming(b, c, v) = {Top(AtEnd(cfg, W, b, v))}
  BY <1>1, <1>2, <1>6, IncomingIs
<1>7. Brings(b, c, v) <=> v \in phis[c] /\ AtEnd(cfg, W, b, v) # <<>>
  <2> DEFINE x == Top(AtEnd(cfg, W, b, v))
  <2>1. v \in phis[c] /\ AtEnd(cfg, W, b, v) # <<>> => Incoming(b, c, v) = {x}
    BY <1>6
  <2> HIDE DEF x
  <2>2. v \in phis[c] /\ AtEnd(cfg, W, b, v) # <<>> => Incoming(b, c, v) # {}
    BY <2>1
  <2> QED BY <1>5, <2>2 DEF Brings
<1>8. ASSUME Brings(b, c, v)
      PROVE  Operand(b, c, v) = Top(AtEnd(cfg, W, b, v))
  <2> DEFINE x == Top(AtEnd(cfg, W, b, v))
  <2>1. Incoming(b, c, v) = {x}
    BY <1>6, <1>7, <1>8
  <2> HIDE DEF x
  <2>2. Operand(b, c, v) = x
    BY <2>1 DEF Operand
  <2> QED BY <2>2 DEF x
<1>9. AtEnd(cfg, W, b, v) # <<>> => Defined(cfg, b, Stop(cfg, b), Top(AtEnd(cfg, W, b, v)))
  BY <1>3 DEF AtEnd, Point, Known
<1>10. Brings(b, c, v) => Operand(b, c, v) \in RegNames
  BY <1>7, <1>8, <1>9, DefinedNamed
<1> QED BY <1>4, <1>7, <1>8, <1>9, <1>10

\* Behind an edge the value of a variable is the phi of the block, or else the
\* value in front of the edge, which was defined above the block.
LEMMA AfterEdge ==
    ASSUME Static, Walking, phase = "done", NEW W, Renamed(W), NEW b \in Reachable(cfg),
           NEW c \in Succ(cfg, b), NEW v \in Var, AtEnd(cfg, W, b, v) # <<>>
    PROVE  /\ W[c][1][v] # <<>>
           /\ v \in phis[c] => Top(W[c][1][v]) = Phi(c, v)
           /\ v \notin phis[c] =>
                 LET a == Parent(cfg, c)
                     x == Top(AtEnd(cfg, W, b, v))
                 IN  /\ c # Entry /\ W[c][1][v] = AtEnd(cfg, W, b, v)
                     /\ Defined(cfg, a, Stop(cfg, a), x)
<1>1. /\ Routed(cfg) /\ Formed(cfg) /\ PhisPlaced(cfg, phis) /\ b \in Blocks(cfg) /\ c \in Blocks(cfg)
      /\ c \in Nat /\ c \in Reachable(cfg) /\ W \in Ghosts /\ 1 \in 1..Stop(cfg, c)
  <2>1. /\ Routed(cfg) /\ Formed(cfg) /\ PhisPlaced(cfg, phis) /\ b \in Blocks(cfg) /\ c \in Blocks(cfg)
        /\ c \in Nat /\ c \in Reachable(cfg) /\ Len(cfg.code[c]) \in Nat
    BY LiveLeast DEF Static, Formed, Routed
  <2>2. W \in Ghosts
    BY AllRenamed
  <2> QED BY <2>1, <2>2 DEF Stop
<1>2. /\ \A x \in Reachable(cfg) : Point(cfg, phis, W, x, Stop(cfg, x))
      /\ Point(cfg, phis, W, c, 1)
  <2>1. \A x \in Reachable(cfg) : Stop(cfg, x) \in 1..Stop(cfg, x)
    BY <1>1, LiveLeast DEF Formed, Stop
  <2> QED BY <1>1, <2>1, AllRenamed
<1>3. W[c][1][v] = WithPhi(phis, Base(cfg, W, c)[v], c, v)
  BY <1>2 DEF Point, Steps
<1>4. CASE v \in phis[c]
  <2>1. Base(cfg, W, c)[v] \in Seq(Values) /\ Phi(c, v) \in Values
    <3>1. Phi(c, v) \in Values
      BY <1>1 DEF Values
    <3> QED BY <1>1, <3>1, BaseStack
  <2>2. W[c][1][v] = Append(Base(cfg, W, c)[v], Phi(c, v))
    BY <1>3, <1>4 DEF WithPhi
  <2> QED BY <1>4, <2>1, <2>2, Pushed1
<1>5. CASE v \notin phis[c]
  <2> DEFINE a == Parent(cfg, c)
  <2>1. c # Entry /\ AtEnd(cfg, W, b, v) = AtEnd(cfg, W, a, v)
    BY <1>1, <1>2, <1>5, NoPhiNoChange DEF AtEnd
  <2>2. W[c][1][v] = AtEnd(cfg, W, b, v)
    BY <1>3, <1>5, <2>1 DEF WithPhi, Base, AtEnd
  <2>3. a \in Reachable(cfg)
    BY <1>1, <2>1, ParentIs
  <2> HIDE DEF a
  <2>4. Defined(cfg, a, Stop(cfg, a), Top(AtEnd(cfg, W, a, v)))
    BY <1>2, <2>1, <2>3 DEF Point, Known, AtEnd
  <2> QED BY <1>5, <2>1, <2>2, <2>4 DEF a
<1> QED BY <1>4, <1>5

\* ... and a branch gives every phi what its variable has.
LEMMA BranchKeeps ==
    ASSUME Static, Walking, NEW W, Renamed(W), Executing(W), NEW c \in Blocks(cfg), Branch(c)
    PROVE  Executing(W)'
<1> DEFINE b == pc[1]
           Fetched(v) == IF Incoming(b, c, v) = {} THEN Undef ELSE regs[Operand(b, c, v)]
<1>1. /\ pc # <<0, 0>> /\ pc[2] = Stop(cfg, b) /\ c \in Succ(cfg, b)
      /\ regs' = [r \in DOMAIN regs |-> IF r[1] = "phi" /\ r[2] = c /\ r[3] \in phis[c]
                                        THEN Fetched(r[3]) ELSE regs[r]]
      /\ pc'[1] = c /\ pc'[2] = 1 /\ cfg' = cfg /\ phase' = phase /\ nodes' = nodes
      /\ memory' = memory
  BY DEF Branch, mvars, Succ, Stop
<1>2. /\ phase = "done" /\ Formed(cfg) /\ Routed(cfg) /\ b \in Reachable(cfg)
      /\ DOMAIN memory = Var /\ DOMAIN regs = RegNames
      /\ \A v \in Var : memory[v] # Undef =>
            AtEnd(cfg, W, b, v) # <<>> /\ regs[Top(AtEnd(cfg, W, b, v))] = memory[v]
  BY <1>1, ExecutionIs DEF AtEnd
<1>3. c \in Reachable(cfg) /\ 1 \in 1..Stop(cfg, c) /\ RegNames' = RegNames
  <2>1. c \in Reachable(cfg) /\ Len(cfg.code[c]) \in Nat
    BY <1>1, <1>2, LiveLeast DEF Formed
  <2> QED BY <1>1, <2>1 DEF Stop, RegNames, PhiValues
<1> HIDE DEF b, Fetched
<1>4. \A r \in RegNames : r[1] # "phi" \/ r[2] # c \/ r[3] \notin phis[c] => regs'[r] = regs[r]
  BY <1>1, <1>2
<1>5. ASSUME NEW v \in Var, v \in phis[c]
      PROVE  regs'[Phi(c, v)] = Fetched(v)
  <2>1. Phi(c, v) \in RegNames
    BY <1>1, <1>2, OperandIs
  <2>2. Phi(c, v)[1] = "phi" /\ Phi(c, v)[2] = c /\ Phi(c, v)[3] = v
    BY ValuesDiffer
  <2> QED BY <1>1, <1>2, <1>5, <2>1, <2>2
<1>6. ASSUME NEW v \in Var, memory'[v] # Undef
      PROVE  W[c][1][v] # <<>> /\ regs'[Top(W[c][1][v])] = memory'[v]
  <2> DEFINE a == Parent(cfg, c)
             x == Top(AtEnd(cfg, W, b, v))
  <2>1. memory'[v] = memory[v] /\ AtEnd(cfg, W, b, v) # <<>> /\ regs[x] = memory[v]
    BY <1>1, <1>2, <1>6
  <2>2. /\ W[c][1][v] # <<>>
        /\ v \in phis[c] => Top(W[c][1][v]) = Phi(c, v)
        /\ v \notin phis[c] => c # Entry /\ Top(W[c][1][v]) = x /\ Defined(cfg, a, Stop(cfg, a), x)
    BY <1>1, <1>2, <2>1, AfterEdge
  <2>3. CASE v \in phis[c]
    <3>1. Brings(b, c, v) /\ Operand(b, c, v) = x
      BY <1>1, <1>2, <2>1, <2>3, OperandIs
    <3>2. Fetched(v) = regs[x]
      BY <3>1 DEF Fetched, Brings
    <3> QED BY <1>5, <2>1, <2>2, <2>3, <3>2
  <2>4. CASE v \notin phis[c]
    <3>1. a \in Reachable(cfg) /\ Dominates(cfg, a, c) /\ a # c
      BY <1>2, <1>3, <2>2, <2>4, ParentIs
    <3> HIDE DEF a, x
    <3>2. x \in RegNames
      BY <2>2, <2>4, <3>1, DefinedNamed
    <3>3. x[1] # "phi" \/ x[2] # c
      <4>1. \A y, w : x = Phi(y, w) /\ Dominates(cfg, y, a) => x[2] # c
        BY <1>2, <3>1, DominatesAntisymmetric, ValuesDiffer
      <4>2. \A m : x = Val(m) => x[1] # "phi"
        BY ValuesDiffer
      <4> QED BY <2>2, <2>4, <4>1, <4>2 DEF Defined
    <3>4. regs'[x] = regs[x]
      BY <1>4, <3>2, <3>3
    <3> QED BY <2>1, <2>2, <2>4, <3>4
  <2> QED BY <2>3, <2>4
<1>7. DOMAIN regs' = RegNames' /\ DOMAIN memory' = Var
  BY <1>1, <1>2, <1>3
<1> QED BY <1>1, <1>2, <1>3, <1>6, <1>7 DEF Executing

\* ... the start of the execution, with all variables undefined, ...
LEMMA StartKeeps ==
    ASSUME Static, Walking, NEW W, Renamed(W), Start
    PROVE  Executing(W)'
<1>1. /\ phase = "done" /\ pc' = <<Entry, 1>> /\ memory' = [v \in Var |-> Undef]
      /\ regs' = [r \in RegNames |-> Undef] /\ cfg' = cfg /\ phase' = phase /\ nodes' = nodes
  BY DEF Start, mvars
<1>2. Entry \in Reachable(cfg) /\ Entry \in Blocks(cfg) /\ Len(cfg.code[Entry]) \in Nat
  BY LiveLeast DEF Static, Formed
<1>3. RegNames' = RegNames
  BY <1>1 DEF RegNames, PhiValues
<1>4. pc'[1] = Entry /\ pc'[2] = 1 /\ 1 \in 1..Stop(cfg, Entry)
  BY <1>1, <1>2 DEF Stop
<1> QED BY <1>1, <1>2, <1>3, <1>4 DEF Executing

-----------------------------------------------------------------------------
(* The copies in front of the branches.                                     *)

\* What is true of 0, and of each number with the one before, is true up to n.
LEMMA UpTo ==
    ASSUME NEW n \in Nat, NEW S, 0 \in S, \A i \in 1..n : i - 1 \in S => i \in S
    PROVE  0..n \subseteq S
<1> DEFINE N == 0..n
           Fails == {i \in N : i \notin S}
           F == {0..i : i \in Fails}
<1>1. SUFFICES ASSUME Fails # {} PROVE FALSE
  OBVIOUS
<1>2. IsFiniteSet(N)
  BY FS_Interval
<1>3. \A i \in N : 0..i \in SUBSET N
  OBVIOUS
<1>4. Fails \subseteq N
  OBVIOUS
<1>5. F \in SUBSET (SUBSET N) /\ F # {}
  <2> HIDE DEF N, Fails
  <2> QED BY <1>1, <1>3, <1>4
<1>6. PICK T \in F : \A U \in F : U \subseteq T => U = T
  <2> HIDE DEF N, F
  <2> QED BY <1>2, <1>5, HasSmallest
<1>7. PICK i \in Fails : T = 0..i
  BY <1>6
<1>8. i # 0 /\ i \in 1..n /\ i - 1 \in N
  BY <1>7
<1>9. i - 1 \in Fails
  BY <1>7, <1>8
<1>10. 0..(i - 1) \in F
  <2> HIDE DEF Fails
  <2> QED BY <1>9
<1>11. 0..(i - 1) \subseteq T /\ i \in T /\ i \notin 0..(i - 1)
  BY <1>7, <1>8
<1> HIDE DEF F
<1> QED BY <1>6, <1>10, <1>11

\* The slots while the first n variables in order get their copies.
Copies(held, b, c, n, f) == f[0] = held /\ \A i \in 1..n : f[i] = CopyPhi(f[i - 1], b, c, order[i])

\* There are such slots, ...
LEMMA CopiesExist ==
    ASSUME NEW held, NEW b, NEW c, NEW n \in Nat
    PROVE  \E f : Copies(held, b, c, n, f)
<1> DEFINE S == {k \in 0..n : \E f : Copies(held, b, c, k, f)}
<1>1. 0 \in S
  <2>1. Copies(held, b, c, 0, [k \in {0} |-> held])
    BY DEF Copies
  <2> QED BY <2>1
<1>2. ASSUME NEW i \in 1..n, i - 1 \in S
      PROVE  i \in S
  <2>1. PICK f : Copies(held, b, c, i - 1, f)
    BY <1>2
  <2> DEFINE g == [k \in 0..i |-> IF k = i THEN CopyPhi(f[i - 1], b, c, order[i]) ELSE f[k]]
  <2>2. g[0] = f[0] /\ g[i] = CopyPhi(f[i - 1], b, c, order[i]) /\ g[i - 1] = f[i - 1]
    OBVIOUS
  <2>3. ASSUME NEW k \in 1..i PROVE g[k] = CopyPhi(g[k - 1], b, c, order[k])
    <3>1. CASE k = i
      <4> HIDE DEF g
      <4> QED BY <2>2, <3>1
    <3>2. CASE k # i
      <4>1. k \in 1..(i - 1)
        BY <3>2
      <4>2. g[k] = f[k] /\ g[k - 1] = f[k - 1]
        BY <3>2
      <4> HIDE DEF g
      <4> QED BY <2>1, <4>1, <4>2 DEF Copies
    <3> QED BY <3>1, <3>2
  <2> HIDE DEF g
  <2>4. Copies(held, b, c, i, g)
    BY <2>1, <2>2, <2>3 DEF Copies
  <2> QED BY <2>4
<1> HIDE DEF S
<1>3. 0..n \subseteq S
  BY <1>1, <1>2, UpTo
<1>4. n \in S
  BY <1>3
<1> QED BY <1>4 DEF S

\* ... and the recursion finds them.
LEMMA CopyPhisIs ==
    ASSUME NEW held, NEW b, NEW c, order \in Seq(Var)
    PROVE  \E f : Copies(held, b, c, Len(order), f) /\ CopyPhis(held, b, c) = f[Len(order)]
<1> DEFINE n == Len(order)
           Solves(f) == f = [i \in 0..n |-> IF i = 0 THEN held ELSE CopyPhi(f[i - 1], b, c, order[i])]
           copied == CHOOSE f : Solves(f)
<1>1. n \in Nat
  BY LenProperties
<1> HIDE DEF n
<1>2. PICK f : Copies(held, b, c, n, f)
  BY <1>1, CopiesExist
<1> DEFINE g == [i \in 0..n |-> f[i]]
<1>3. Solves(g)
  <2>1. \A i \in 0..n : g[i] = f[i]
    OBVIOUS
  <2>2. \A i \in 0..n : i # 0 => i - 1 \in 0..n /\ i \in 1..n
    BY <1>1
  <2>3. \A i \in 0..n : f[i] = IF i = 0 THEN held ELSE CopyPhi(g[i - 1], b, c, order[i])
    <3> HIDE DEF g
    <3> QED BY <1>2, <2>1, <2>2 DEF Copies
  <2> QED BY <2>3
<1>4. Solves(copied)
  <2> HIDE DEF Solves, g
  <2>1. \E h : Solves(h)
    BY <1>3
  <2> QED BY <2>1
<1>5. Copies(held, b, c, n, copied)
  <2> HIDE DEF copied
  <2>1. \A i \in 1..n : i \in 0..n /\ i # 0
    BY <1>1
  <2>2. \A i \in 0..n : copied[i] = IF i = 0 THEN held ELSE CopyPhi(copied[i - 1], b, c, order[i])
    BY <1>4
  <2>3. 0 \in 0..n
    BY <1>1
  <2> HIDE DEF Solves
  <2> QED BY <2>1, <2>2, <2>3 DEF Copies
<1>6. CopyPhis(held, b, c) = copied[n]
  BY DEF CopyPhis, n
<1> HIDE DEF copied
<1> QED BY <1>5, <1>6 DEF n

\* If no copy reads what another has overwritten, the phis all change at once.
LEMMA AllAtOnce ==
    ASSUME InTurn, NEW held, DOMAIN held = RegNames, NEW b, NEW c, ~ReadsOverwritten(b, c),
           \A v \in Var : Brings(b, c, v) => Operand(b, c, v) \in RegNames /\ Phi(c, v) \in RegNames,
           NEW new, new = CopyPhis(held, b, c)
    PROVE  /\ DOMAIN new = RegNames
           /\ \A v \in Var : Brings(b, c, v) => new[Phi(c, v)] = held[Operand(b, c, v)]
           /\ \A r \in RegNames : (\A v \in Var : Brings(b, c, v) => r # Phi(c, v)) => new[r] = held[r]
<1> DEFINE n == Len(order)
<1>1. order \in Seq(Var) /\ n \in Nat /\ DOMAIN order = 1..n
  BY LenProperties DEF InTurn
<1>2. \A i \in 1..n : order[i] \in Var
  BY <1>1
<1>3. PICK f : Copies(held, b, c, n, f) /\ new = f[n]
  BY <1>1, CopyPhisIs
<1> DEFINE Right(i) ==
             /\ DOMAIN f[i] = RegNames
             /\ \A j \in 1..i : Brings(b, c, order[j]) =>
                   f[i][Phi(c, order[j])] = held[Operand(b, c, order[j])]
             /\ \A r \in RegNames : (\A j \in 1..i : Brings(b, c, order[j]) => r # Phi(c, order[j]))
                   => f[i][r] = held[r]
           S == {i \in 0..n : Right(i)}
<1>4. 0 \in S
  <2>1. f[0] = held
    BY <1>3 DEF Copies
  <2>2. Right(0)
    BY <2>1
  <2> HIDE DEF Right
  <2> QED BY <1>1, <2>2
<1>5. ASSUME NEW i \in 1..n, i - 1 \in S PROVE i \in S
  <2> DEFINE v == order[i]
             x == Operand(b, c, v)
             p == Phi(c, v)
  <2>1. Right(i - 1) /\ v \in Var /\ i \in 0..n /\ i - 1 \in Nat /\ i \in Nat
    BY <1>2, <1>5
  <2>2. f[i] = CopyPhi(f[i - 1], b, c, v)
    BY <1>3 DEF Copies
  <2>3. \A j \in 1..i : j = i \/ j \in 1..(i - 1)
    BY <2>1
  <2>4. \A j \in 1..(i - 1) : j \in 1..i /\ j \in 1..n /\ j < i /\ j # i
    BY <1>1, <2>1
  <2>5. CASE ~Brings(b, c, v)
    <3>1. f[i] = f[i - 1]
      BY <2>2, <2>5 DEF CopyPhi
    <3>2. Right(i)
      BY <2>1, <2>3, <2>4, <2>5, <3>1
    <3> HIDE DEF Right
    <3> QED BY <2>1, <3>2
  <2>6. CASE Brings(b, c, v)
    <3>1. f[i] = [f[i - 1] EXCEPT ![p] = f[i - 1][x]]
      BY <2>2, <2>6 DEF CopyPhi
    <3>2. p \in RegNames /\ x \in RegNames
      BY <2>1, <2>6
    <3>3. \A j \in 1..(i - 1) : Brings(b, c, order[j]) => x # Phi(c, order[j])
      BY <1>1, <2>4, <2>6 DEF ReadsOverwritten
    <3>4. f[i - 1][x] = held[x]
      BY <2>1, <3>2, <3>3
    <3>5. \A j \in 1..(i - 1) : order[j] # v
      BY <2>4 DEF InTurn
    <3>6. \A j \in 1..(i - 1) : Phi(c, order[j]) # p
      BY <3>5, ValuesDiffer
    <3> HIDE DEF p, x
    <3>7. DOMAIN f[i] = RegNames /\ f[i][p] = held[x] /\ \A r \in RegNames : r # p => f[i][r] = f[i - 1][r]
      BY <2>1, <3>1, <3>2, <3>4
    <3>8. ASSUME NEW j \in 1..i, Brings(b, c, order[j])
          PROVE  f[i][Phi(c, order[j])] = held[Operand(b, c, order[j])]
      <4>1. CASE j = i
        BY <3>7, <4>1 DEF p, x
      <4>2. CASE j # i
        <5>1. j \in 1..(i - 1) /\ j \in 1..n
          BY <2>3, <2>4, <4>2
        <5>2. Phi(c, order[j]) \in RegNames /\ Phi(c, order[j]) # p
          BY <1>2, <3>6, <3>8, <5>1
        <5> QED BY <2>1, <3>7, <3>8, <5>1, <5>2
      <4> QED BY <4>1, <4>2
    <3>9. ASSUME NEW r \in RegNames, \A j \in 1..i : Brings(b, c, order[j]) => r # Phi(c, order[j])
          PROVE  f[i][r] = held[r]
      <4>1. r # p
        <5>1. i \in 1..i
          BY <2>1
        <5> QED BY <2>6, <3>9, <5>1 DEF p
      <4>2. f[i - 1][r] = held[r]
        BY <2>1, <2>4, <3>9
      <4> QED BY <3>7, <4>1, <4>2
    <3>10. Right(i)
      BY <3>7, <3>8, <3>9
    <3> HIDE DEF Right
    <3> QED BY <2>1, <3>10
  <2> QED BY <2>5, <2>6
<1>6. Right(n)
  <2> HIDE DEF Right
  <2>1. 0..n \subseteq S
    <3> HIDE DEF S
    <3> QED BY <1>1, <1>4, <1>5, UpTo
  <2>2. n \in 0..n
    BY <1>1
  <2> QED BY <2>1, <2>2
<1>7. ASSUME NEW v \in Var, Brings(b, c, v) PROVE new[Phi(c, v)] = held[Operand(b, c, v)]
  <2>1. PICK i \in 1..n : order[i] = v
    BY DEF InTurn
  <2> HIDE DEF n
  <2> QED BY <1>3, <1>6, <1>7, <2>1
<1>8. ASSUME NEW r \in RegNames, \A v \in Var : Brings(b, c, v) => r # Phi(c, v)
      PROVE  new[r] = held[r]
  <2> HIDE DEF n
  <2> QED BY <1>2, <1>3, <1>6, <1>8
<1> HIDE DEF n
<1> QED BY <1>3, <1>6, <1>7, <1>8

\* The slots when there is one successor, and when there are two.
LEMMA CopyStmtIs ==
    ASSUME NEW held, NEW b
    PROVE  /\ \A c : cfg.succs[b] = <<c>> => CopyStmt(held, b) = CopyPhis(held, b, c)
           /\ \A c, d : cfg.succs[b] = <<c, d>> =>
                 CopyStmt(held, b) = CopyPhis(CopyPhis(held, b, c), b, d)
<1> DEFINE n == Len(cfg.succs[b])
           Solves(f) == f = [i \in 0..n |-> IF i = 0 THEN held ELSE CopyPhis(f[i - 1], b, cfg.succs[b][i])]
           copied == CHOOSE f : Solves(f)
<1>1. CopyStmt(held, b) = copied[n]
  BY DEF CopyStmt
<1>2. ASSUME NEW f, Solves(f) PROVE Solves(copied)
  <2> HIDE DEF Solves
  <2> QED BY <1>2
<1> HIDE DEF copied
<1>3. ASSUME NEW c, cfg.succs[b] = <<c>> PROVE copied[n] = CopyPhis(held, b, c)
  <2>1. n = 1 /\ cfg.succs[b][1] = c
    BY <1>3
  <2> DEFINE x == CopyPhis(held, b, c)
             f == [i \in 0..1 |-> IF i = 0 THEN held ELSE x]
  <2>2. x = CopyPhis(held, b, c)
    OBVIOUS
  <2>3. Solves(f)
    <3>1. f[0] = held
      OBVIOUS
    <3>2. \A i \in 0..1 : f[i] = IF i = 0 THEN held ELSE CopyPhis(f[i - 1], b, cfg.succs[b][i])
      <4>1. \A i \in 0..1 : i # 0 => i = 1 /\ i - 1 = 0
        OBVIOUS
      <4> HIDE DEF x
      <4>2. f[1] = x
        OBVIOUS
      <4> HIDE DEF f
      <4> QED BY <2>1, <2>2, <3>1, <4>1, <4>2
    <3>3. f = [i \in 0..1 |-> f[i]]
      OBVIOUS
    <3> HIDE DEF f, x
    <3> QED BY <2>1, <3>2, <3>3
  <2>4. Solves(copied)
    <3> HIDE DEF Solves, f
    <3> QED BY <1>2, <2>3
  <2> HIDE DEF f, x
  <2>5. copied[0] = held /\ copied[1] = CopyPhis(copied[0], b, cfg.succs[b][1])
    BY <2>1, <2>4
  <2> QED BY <2>1, <2>5
<1>4. ASSUME NEW c, NEW d, cfg.succs[b] = <<c, d>>
      PROVE  copied[n] = CopyPhis(CopyPhis(held, b, c), b, d)
  <2>1. n = 2 /\ cfg.succs[b][1] = c /\ cfg.succs[b][2] = d
    BY <1>4
  <2> DEFINE x == CopyPhis(held, b, c)
             y == CopyPhis(x, b, d)
             f == [i \in 0..2 |-> IF i = 0 THEN held ELSE IF i = 1 THEN x ELSE y]
  <2>2. x = CopyPhis(held, b, c) /\ y = CopyPhis(x, b, d)
    OBVIOUS
  <2> HIDE DEF x, y
  <2>3. Solves(f)
    <3>1. f[0] = held /\ f[1] = x /\ f[2] = y
      OBVIOUS
    <3>2. \A i \in 0..2 : f[i] = IF i = 0 THEN held ELSE CopyPhis(f[i - 1], b, cfg.succs[b][i])
      <4>1. \A i \in 0..2 : i # 0 => (i = 1 /\ i - 1 = 0) \/ (i = 2 /\ i - 1 = 1)
        OBVIOUS
      <4> HIDE DEF f
      <4> QED BY <2>1, <2>2, <3>1, <4>1
    <3>3. f = [i \in 0..2 |-> f[i]]
      OBVIOUS
    <3> HIDE DEF f
    <3> QED BY <2>1, <3>2, <3>3
  <2>4. Solves(copied)
    <3> HIDE DEF Solves, f
    <3> QED BY <1>2, <2>3
  <2> HIDE DEF f
  <2>5. /\ copied[0] = held /\ copied[1] = CopyPhis(copied[0], b, cfg.succs[b][1])
        /\ copied[2] = CopyPhis(copied[1], b, cfg.succs[b][2])
    BY <2>1, <2>4
  <2> QED BY <2>1, <2>2, <2>5
<1> QED BY <1>1, <1>3, <1>4

\* The builder's graph lists the targets of the branch; with two of them it
\* branches back to none.
LEMMA Successors ==
    ASSUME BuilderInv, Structured, outcome = "done", NEW b \in Reachable(cfg)
    PROVE  \/ cfg.succs[b] = <<>> /\ Succ(cfg, b) = {}
           \/ \E c : cfg.succs[b] = <<c>> /\ Succ(cfg, b) = {c}
           \/ \E c, d : /\ cfg.succs[b] = <<c, d>> /\ Succ(cfg, b) = {c, d} /\ c # d
                        /\ ~Dominates(cfg, c, b) /\ ~Dominates(cfg, d, b)
<1>1. /\ Routed(cfg) /\ b \in Blocks(cfg) /\ cfg.succs[b] = Targets(cfg, b)
      /\ Succ(cfg, b) = Members(cfg.succs[b])
  <2>1. Routed(cfg) /\ Sound(cfg, Tests, Instrs)
    BY BuilderGraph
  <2> QED BY <2>1, LiveLeast DEF Sound, SuccsAreTargets, Succ
<1>2. PICK J : Laid(cfg, J)
  BY DEF Structured
<1>3. PICK r \in [Nat -> Nat] : Ranked(cfg, r, J)
  BY <1>2 DEF Laid
<1>4. CASE cfg.term[b].kind = "cond"
  <2> DEFINE c == cfg.term[b].yes
             d == cfg.term[b].no
  <2>1. cfg.succs[b] = <<c, d>>
    BY <1>1, <1>4 DEF Targets
  <2>2. Succ(cfg, b) = {c, d}
    <3> HIDE DEF c, d
    <3> QED BY <1>1, <2>1 DEF Members
  <2>3. c # d /\ \A e \in Succ(cfg, b) : ~Dominates(cfg, e, b)
    BY <1>1, <1>3, <1>4, TwoWay
  <2> HIDE DEF c, d
  <2> QED BY <2>1, <2>2, <2>3
<1>5. CASE cfg.term[b].kind = "br"
  <2> DEFINE c == cfg.term[b].to
  <2>1. cfg.succs[b] = <<c>>
    BY <1>1, <1>5 DEF Targets
  <2>2. Succ(cfg, b) = {c}
    <3> HIDE DEF c
    <3> QED BY <1>1, <2>1 DEF Members
  <2> HIDE DEF c
  <2> QED BY <2>1, <2>2
<1>6. CASE cfg.term[b].kind \notin {"cond", "br"}
  <2>1. cfg.succs[b] = <<>>
    BY <1>1, <1>6 DEF Targets
  <2>2. Succ(cfg, b) = {}
    BY <1>1, <2>1 DEF Members
  <2> QED BY <2>1, <2>2
<1> QED BY <1>4, <1>5, <1>6

\* Start puts the variables in some order.
LEMMA OrderInTurn ==
    ASSUME NEW o, o \in SetToSeqs(Var) \/ o = SetToSeq(Var)
    PROVE  /\ o \in Seq(Var)
           /\ \A v \in Var : \E i \in 1..Len(o) : o[i] = v
           /\ \A i, j \in 1..Len(o) : o[i] = o[j] => i = j
<1> DEFINE n == Cardinality(Var)
<1>1. n \in Nat /\ IsFiniteSet(Var) /\ IsFiniteSet(1..n) /\ Cardinality(1..n) = n
  <2>1. n \in Nat /\ IsFiniteSet(Var)
    BY VarAssumption, FS_CardinalityType
  <2> HIDE DEF n
  <2> QED BY <2>1, FS_Interval
<1>2. \E f \in [1..n -> Var] : IsInjective(f)
  <2>1. ExistsBijection(1..n, Var)
    BY VarAssumption, FS_CardinalityType
  <2> HIDE DEF n
  <2> QED BY <2>1 DEF ExistsBijection, Bijection, Injection, IsInjective
<1>3. o \in [1..n -> Var] /\ IsInjective(o)
  <2>1. CASE o \in SetToSeqs(Var)
    <3>1. o \in {f \in [1..n -> Var] : \A i, j \in 1..n : i # j => f[i] # f[j]}
      BY <2>1 DEF SetToSeqs
    <3> HIDE DEF n
    <3> QED BY <3>1 DEF IsInjective
  <2>2. CASE o = SetToSeq(Var)
    <3>1. o = CHOOSE f \in [1..n -> Var] : IsInjective(f)
      BY <2>2 DEF SetToSeq
    <3> HIDE DEF n
    <3> QED BY <1>2, <3>1
  <2> QED BY <2>1, <2>2
<1> HIDE DEF n
<1>4. o \in Injection(1..n, Var)
  BY <1>3 DEF Injection, IsInjective
<1>5. o \in Surjection(1..n, Var)
  BY <1>1, <1>4, FS_Injection DEF n
<1>6. \A v \in Var : \E i \in 1..n : o[i] = v
  BY <1>5 DEF Surjection
<1>7. o \in Seq(Var) /\ Len(o) = n
  BY <1>1, <1>3
<1>8. \A i, j \in 1..n : o[i] = o[j] => i = j
  BY <1>3 DEF IsInjective
<1> QED BY <1>6, <1>7, <1>8

\* The copies in front of a branch: the slot of each phi of c has the operand
\* for b, and nothing but phis of successors is overwritten.
LEMMA CopiesAre ==
    ASSUME BuilderInv, Structured, Static, Walking, phase = "done", NEW W, Renamed(W), InTurn,
           NoneOverwritten, NEW b \in Reachable(cfg), NEW c \in Succ(cfg, b),
           NEW held, DOMAIN held = RegNames, NEW new, new = CopyStmt(held, b)
    PROVE  /\ DOMAIN new = RegNames
           /\ \A v \in Var : Brings(b, c, v) => new[Phi(c, v)] = held[Operand(b, c, v)]
           /\ \A r \in RegNames : (\A e \in Succ(cfg, b) : \A v \in Var : r # Phi(e, v)) => new[r] = held[r]
<1>1. Routed(cfg) /\ b \in Blocks(cfg) /\ outcome = "done" /\ Succ(cfg, b) \subseteq Blocks(cfg)
  BY LiveLeast DEF Static, Formed, Routed
<1>2. ASSUME NEW e \in Succ(cfg, b), NEW old, DOMAIN old = RegNames, NEW copied, copied = CopyPhis(old, b, e)
      PROVE  /\ DOMAIN copied = RegNames
             /\ \A v \in Var : Brings(b, e, v) => copied[Phi(e, v)] = old[Operand(b, e, v)]
             /\ \A r \in RegNames : (\A v \in Var : r # Phi(e, v)) => copied[r] = old[r]
  <2>1. ~ReadsOverwritten(b, e)
    BY <1>1, <1>2 DEF NoneOverwritten
  <2>2. \A v \in Var : Phi(e, v) \in RegNames /\ (Brings(b, e, v) => Operand(b, e, v) \in RegNames)
    BY OperandIs
  <2> QED BY <1>2, <2>1, <2>2, AllAtOnce
<1>3. CASE \E e : cfg.succs[b] = <<e>> /\ Succ(cfg, b) = {e}
  <2>1. cfg.succs[b] = <<c>>
    BY <1>3
  <2>2. new = CopyPhis(held, b, c)
    BY <2>1, CopyStmtIs
  <2> QED BY <1>2, <2>2
<1>4. CASE \E e, d : /\ cfg.succs[b] = <<e, d>> /\ Succ(cfg, b) = {e, d} /\ e # d
                     /\ ~Dominates(cfg, e, b) /\ ~Dominates(cfg, d, b)
  <2>1. PICK e, d : /\ cfg.succs[b] = <<e, d>> /\ Succ(cfg, b) = {e, d} /\ e # d
                    /\ ~Dominates(cfg, e, b) /\ ~Dominates(cfg, d, b)
    BY <1>4
  <2> DEFINE first == CopyPhis(held, b, e)
  <2>2. new = CopyPhis(first, b, d)
    BY <2>1, CopyStmtIs
  <2>3. /\ DOMAIN first = RegNames
        /\ \A v \in Var : Brings(b, e, v) => first[Phi(e, v)] = held[Operand(b, e, v)]
        /\ \A r \in RegNames : (\A v \in Var : r # Phi(e, v)) => first[r] = held[r]
    BY <1>2, <2>1
  <2> HIDE DEF first
  <2>4. /\ DOMAIN new = RegNames
        /\ \A v \in Var : Brings(b, d, v) => new[Phi(d, v)] = first[Operand(b, d, v)]
        /\ \A r \in RegNames : (\A v \in Var : r # Phi(d, v)) => new[r] = first[r]
    BY <1>2, <2>1, <2>2, <2>3
  <2>5. ASSUME NEW v \in Var, Brings(b, c, v) PROVE new[Phi(c, v)] = held[Operand(b, c, v)]
    <3>1. CASE c = e
      <4>1. Phi(c, v) \in RegNames /\ \A w \in Var : Phi(c, v) # Phi(d, w)
        BY <2>1, <3>1, OperandIs, ValuesDiffer
      <4> QED BY <2>3, <2>4, <2>5, <3>1, <4>1
    <3>2. CASE c = d
      <4> DEFINE x == Operand(b, c, v)
      <4>1. x \in RegNames /\ Defined(cfg, b, Stop(cfg, b), x)
        BY <2>5, OperandIs
      <4> HIDE DEF x
      <4>2. ASSUME NEW w \in Var, x = Phi(e, w) PROVE FALSE
        <5>1. \A y, u : Phi(e, w) = Phi(y, u) => y = e
          BY ValuesDiffer
        <5>2. \A m : Phi(e, w) # Val(m)
          BY ValuesDiffer
        <5> QED BY <2>1, <4>1, <4>2, <5>1, <5>2 DEF Defined
      <4>3. first[x] = held[x]
        BY <2>3, <4>1, <4>2
      <4> QED BY <2>4, <2>5, <3>2, <4>3 DEF x
    <3> QED BY <2>1, <3>1, <3>2
  <2>6. \A r \in RegNames : (\A a \in Succ(cfg, b) : \A v \in Var : r # Phi(a, v)) => new[r] = held[r]
    BY <2>1, <2>3, <2>4
  <2> QED BY <2>4, <2>5, <2>6
<1> QED BY <1>1, <1>3, <1>4, Successors

\* What the slots are copied by is fixed before the execution.
LEMMA SameCopies ==
    ASSUME UNCHANGED <<cfg, nodes, phis, pairs, order>>
    PROVE  /\ NoneOverwritten' <=> NoneOverwritten
           /\ InTurn' <=> InTurn
           /\ RegNames' = RegNames
<1>1. \A b, c : ReadsOverwritten(b, c)' <=> ReadsOverwritten(b, c)
  BY DEF ReadsOverwritten, Brings, Operand, Incoming
<1> QED BY <1>1 DEF NoneOverwritten, InTurn, RegNames, PhiValues

\* An instruction leaves the slots with what the variables have, ...
LEMMA ExecuteCopies ==
    ASSUME Static, Walking, NEW W, Renamed(W), Executing(W), Copying(W), NEW d, Execute(d)
    PROVE  Copying(W)'
<1>1. /\ pc # <<0, 0>> /\ slots' = Computed(slots, d)
      /\ UNCHANGED <<cfg, nodes, phis, pairs, order>>
  BY DEF Execute, mvars
<1>2. SUFFICES ASSUME NoneOverwritten
               PROVE  /\ InTurn' /\ DOMAIN slots' = RegNames'
                      /\ \A v \in Var : memory'[v] # Undef => slots'[Top(W[pc'[1]][pc'[2]][v])] = memory'[v]
  BY <1>1, SameCopies DEF Copying
<1>3. /\ InTurn /\ DOMAIN slots = RegNames
      /\ \A v \in Var : memory[v] # Undef => slots[Top(W[pc[1]][pc[2]][v])] = memory[v]
  BY <1>1, <1>2 DEF Copying
<1>4. InTurn'
  BY <1>1, <1>3, SameCopies
<1> QED BY <1>1, <1>3, <1>4, ExecuteHeld

\* ... so do the copies for the successor that is taken, while those for the other
\* one reach no slot with a value from above, ...
LEMMA BranchCopies ==
    ASSUME BuilderInv, Structured, Static, Walking, NEW W, Renamed(W), Executing(W), Copying(W),
           NEW c \in Blocks(cfg), Branch(c)
    PROVE  Copying(W)'
<1> DEFINE b == pc[1]
<1>1. /\ pc # <<0, 0>> /\ slots' = CopyStmt(slots, b) /\ c \in Succ(cfg, b)
      /\ pc[2] = Stop(cfg, b) /\ pc'[1] = c /\ pc'[2] = 1 /\ memory' = memory
      /\ UNCHANGED <<cfg, nodes, phis, pairs, order>>
  BY DEF Branch, mvars, Succ, Stop
<1>2. SUFFICES ASSUME NoneOverwritten
               PROVE  /\ InTurn' /\ DOMAIN slots' = RegNames'
                      /\ \A v \in Var : memory[v] # Undef => slots'[Top(W[c][1][v])] = memory[v]
  BY <1>1, SameCopies DEF Copying
<1>3. /\ InTurn /\ DOMAIN slots = RegNames /\ phase = "done" /\ b \in Reachable(cfg)
      /\ \A v \in Var : memory[v] # Undef => /\ AtEnd(cfg, W, b, v) # <<>>
                                             /\ slots[Top(AtEnd(cfg, W, b, v))] = memory[v]
  BY <1>1, <1>2 DEF Copying, Executing, AtEnd
<1> HIDE DEF b
<1>4. /\ DOMAIN slots' = RegNames
      /\ \A v \in Var : Brings(b, c, v) => slots'[Phi(c, v)] = slots[Operand(b, c, v)]
      /\ \A r \in RegNames : (\A e \in Succ(cfg, b) : \A v \in Var : r # Phi(e, v)) => slots'[r] = slots[r]
  BY <1>1, <1>2, <1>3, CopiesAre
<1>5. ASSUME NEW v \in Var, memory[v] # Undef
      PROVE  slots'[Top(W[c][1][v])] = memory[v]
  <2>1. AtEnd(cfg, W, b, v) # <<>> /\ slots[Top(AtEnd(cfg, W, b, v))] = memory[v]
    BY <1>3, <1>5
  <2>2. CASE v \in phis[c]
    <3>1. Brings(b, c, v) /\ Operand(b, c, v) = Top(AtEnd(cfg, W, b, v))
      BY <1>1, <1>3, <2>1, <2>2, OperandIs
    <3>2. Top(W[c][1][v]) = Phi(c, v)
      BY <1>1, <1>3, <2>1, <2>2, AfterEdge
    <3> QED BY <1>4, <2>1, <3>1, <3>2
  <2>3. CASE v \notin phis[c]
    <3> DEFINE a == Parent(cfg, c)
               x == Top(AtEnd(cfg, W, b, v))
    <3>1. c # Entry /\ W[c][1][v] = AtEnd(cfg, W, b, v) /\ Defined(cfg, a, Stop(cfg, a), x)
      BY <1>1, <1>3, <2>1, <2>3, AfterEdge
    <3>2. Routed(cfg) /\ c \in Reachable(cfg) /\ outcome = "done"
      BY <1>1, <1>3, LiveLeast DEF Static, Formed
    <3>3. a \in Reachable(cfg) /\ Dominates(cfg, a, c) /\ a # c
      BY <3>1, <3>2, ParentIs
    <3>4. slots[x] = memory[v] /\ Top(W[c][1][v]) = x
      BY <2>1, <3>1
    <3> HIDE DEF a, x
    <3>5. Dominates(cfg, a, b)
      BY <1>1, <1>3, <3>2, <3>3, DominatesBefore
    <3>6. x \in RegNames
      BY <3>1, <3>3, DefinedNamed
    <3>7. ASSUME NEW e \in Succ(cfg, b), NEW w \in Var, x = Phi(e, w) PROVE FALSE
      <4>1. Dominates(cfg, e, a)
        <5>1. \A y, u : Phi(e, w) = Phi(y, u) => y = e
          BY ValuesDiffer
        <5>2. \A m : Phi(e, w) # Val(m)
          BY ValuesDiffer
        <5> QED BY <3>1, <3>7, <5>1, <5>2 DEF Defined
      <4>2. Dominates(cfg, e, b)
        BY <3>2, <3>5, <4>1, DominatesTransitive
      <4>3. e = c
        BY <1>1, <1>3, <3>2, <3>7, <4>2, Successors
      <4> QED BY <3>2, <3>3, <4>1, <4>3, DominatesAntisymmetric
    <3>8. slots'[x] = slots[x]
      BY <1>4, <3>6, <3>7
    <3> QED BY <3>4, <3>8
  <2> QED BY <2>2, <2>3
<1> QED BY <1>1, <1>3, <1>4, <1>5, SameCopies

\* ... and at the start no variable has a datum.
LEMMA StartCopies ==
    ASSUME Static, Walking, NEW W, Renamed(W), Start
    PROVE  Copying(W)'
<1>1. /\ memory' = [v \in Var |-> Undef] /\ regs' = [r \in RegNames |-> Undef] /\ slots' = regs'
      /\ order' \in SetToSeqs(Var) \/ order' = SetToSeq(Var)
      /\ cfg' = cfg /\ nodes' = nodes
  BY DEF Start
<1>2. InTurn'
  BY <1>1, OrderInTurn DEF InTurn
<1>3. RegNames' = RegNames
  BY <1>1 DEF RegNames, PhiValues
<1> QED BY <1>1, <1>2, <1>3 DEF Copying

-----------------------------------------------------------------------------
(* The invariant is inductive.                                              *)

\* Every step keeps what building, renaming and execution rely on.
LEMMA PInvKept == PInv /\ [PNext]_vars => PInv'
<1> SUFFICES ASSUME PInv, [PNext]_vars PROVE PInv'
  OBVIOUS
<1>1. ASSUME UNCHANGED <<program, nodes, cfg, cur, todo, outcome, mvars>>,
             NEW W, phase # "idle" => Renamed(W), Executing(W)', Copying(W)'
      PROVE  PInv'
  <2>1. BuilderInv' /\ Structured'
    BY <1>1, BuilderStep, StructuredStep DEF PInv, bvars
  <2>2. Numbered(cfg, nodes)' /\ (phase' = "idle" => Idle')
    BY <1>1 DEF PInv, mvars, Idle
  <2>3. phase' # "idle" => Static' /\ Walking' /\ Lost'
    <3>1. phase # "idle" => Static /\ Walking /\ Lost
      BY DEF PInv
    <3>2. UNCHANGED <<nodes, cfg, outcome, phase, tree, phis, stack, path, seen, at>>
      BY <1>1 DEF mvars
    <3>3. Static => Static'
      BY <3>2 DEF Static
    <3>4. Walking => Walking'
      BY <3>2 DEF Walking, Reached
    <3>5. Lost => Lost'
      BY <3>2 DEF Lost
    <3> QED BY <3>1, <3>2, <3>3, <3>4, <3>5
  <2>4. phase' # "idle" => Renamed(W)'
    <3>1. UNCHANGED <<cfg, phase, phis, pairs, stack, repl, path, seen, at>>
      BY <1>1 DEF mvars
    <3>2. Finished' = Finished /\ \A b : Reached(b)' = Reached(b)
      BY <3>1 DEF Finished, Reached
    <3>3. Ghostly(W) /\ Paired(cfg, phis, pairs, Finished, W)
             => Ghostly(W)' /\ Paired(cfg, phis, pairs, Finished, W)'
      BY <3>1, <3>2, SameGhost
    <3>4. Tracks(W) => Tracks(W)'
      BY <3>1 DEF Tracks, Reached
    <3> QED BY <1>1, <3>1, <3>3, <3>4 DEF Renamed
  <2> QED BY <1>1, <2>1, <2>2, <2>3, <2>4 DEF PInv
<1>2. PICK W : (phase # "idle" => Renamed(W)) /\ Executing(W) /\ Copying(W)
  BY DEF PInv
<1>3. CASE Build
  BY <1>3, BuildKeeps
<1>4. CASE Promote
  BY <1>4, PromoteKeeps
<1>5. CASE Run
  <2>1. UNCHANGED <<program, nodes, cfg, cur, todo, outcome, mvars>>
    BY <1>5 DEF Run, Start, Execute, Branch
  <2>2. phase = "done" /\ Static /\ Walking /\ Renamed(W) /\ BuilderInv /\ Structured
    <3>1. phase = "done"
      <4>1. CASE Start
        BY <4>1 DEF Start
      <4>2. CASE ~Start
        <5>1. pc[1] # 0
          BY <1>5, <4>2 DEF Run, Execute, Branch
        <5>2. pc # <<0, 0>>
          BY <5>1
        <5> QED BY <1>2, <5>2 DEF Executing
      <4> QED BY <4>1, <4>2
    <3> QED BY <1>2, <3>1 DEF PInv
  <2>3. Executing(W)' /\ Copying(W)'
    <3>1. CASE Start
      BY <2>2, <3>1, StartKeeps, StartCopies
    <3>2. ASSUME NEW d \in Datum, Execute(d) PROVE Executing(W)' /\ Copying(W)'
      BY <1>2, <2>2, <3>2, ExecuteKeeps, ExecuteCopies
    <3>3. ASSUME NEW c \in Blocks(cfg), Branch(c) PROVE Executing(W)' /\ Copying(W)'
      BY <1>2, <2>2, <3>3, BranchKeeps, BranchCopies
    <3> QED BY <1>5, <3>1, <3>2, <3>3 DEF Run
  <2> QED BY <1>1, <1>2, <2>1, <2>3
<1>6. CASE UNCHANGED vars
  <2>1. UNCHANGED <<program, nodes, cfg, cur, todo, outcome, mvars, xvars>>
    BY <1>6 DEF vars
  <2>2. UNCHANGED <<cfg, nodes, phase, phis, pairs, pc, memory, regs, slots, order>>
    BY <2>1 DEF mvars, xvars
  <2>3. Executing(W)'
    BY <1>2, <2>2 DEF Executing, RegNames, PhiValues
  <2>4. Copying(W)'
    BY <1>2, <2>2, SameCopies DEF Copying
  <2> QED BY <1>1, <1>2, <2>1, <2>3, <2>4
<1> QED BY <1>3, <1>4, <1>5, <1>6 DEF PNext

\* The inductive invariant of promotion and execution.
THEOREM PromotionInvariant == PSpec => []PInv
<1>1. PInit => PInv
  BY PInvInit
<1>2. PInv /\ [PNext]_vars => PInv'
  BY PInvKept
<1> QED BY <1>1, <1>2, PTL DEF PSpec

-----------------------------------------------------------------------------
(* The properties.                                                         *)

\* Whether a path brings a store is what the stack shows.
LEMMA StoredIs ==
    ASSUME Formed(cfg), NEW b \in Reachable(cfg), NEW i, NEW v \in Var
    PROVE  StoredBefore(b, i, v) <=> HasDef(cfg, b, i, v)
<1>1. Routed(cfg) /\ Storing(cfg, v) \in SUBSET Blocks(cfg) /\ StoreBlocks(v) = Storing(cfg, v)
  BY StoringIs DEF Formed, Storing
<1>2. v \in MaybeStored(b) <=> Later(cfg, Storing(cfg, v), b)
  BY <1>1 DEF MaybeStored, Later, Succ, From
<1>3. v \in MaybeStored(b) <=> Above(cfg, Storing(cfg, v), b)
  BY <1>1, <1>2, LaterIsAbove, AboveIsLater
<1>4. (\E j \in 1..(i - 1) : StoreOf(cfg.code[b][j]) = v) <=> Before(cfg, b, i, v) # {}
  BY DEF Before, Store
<1> QED BY <1>3, <1>4 DEF StoredBefore, HasDef

\* rename throws on a load, or reads outside the stack, only if no path brings a
\* store to it (Mem2Reg::rename): wherever some path does, a store is above the
\* load or a phi joins the paths.
THEOREM RenamingFailure == PSpec => []FailsOnlyUninitialised
<1>1. PInv => FailsOnlyUninitialised
  <2> SUFFICES ASSUME PInv, phase = "lost"
               PROVE  ~StoredBefore(Head(path), at, LoadOf(cfg.code[Head(path)][at]))
    BY DEF FailsOnlyUninitialised
  <2>1. PICK W : Renamed(W)
    BY DEF PInv
  <2>2. Static /\ Walking /\ Lost
    BY DEF PInv
  <2> DEFINE b == Head(path)
             l == Load(cfg, b, at)
  <2>3. /\ path # <<>> /\ at \in 1..Len(cfg.code[b]) /\ l \in Var /\ stack[l] = <<>>
    BY <2>2 DEF Lost
  <2>4. b \in seen /\ b \in Reachable(cfg) /\ b \in Blocks(cfg) /\ Formed(cfg) /\ Len(cfg.code[b]) \in Nat
    BY <2>2, <2>3, Innermost DEF Static, Formed
  <2>5. Reached(b) = at /\ at \in 1..Reached(b)
    BY <2>3, <2>4 DEF Reached
  <2>6. W[b][at][l] = <<>>
    BY <2>1, <2>2, <2>3, <2>5, StackIs
  <2>7. Point(cfg, phis, W, b, at)
    BY <2>1, <2>4, <2>5 DEF Renamed, Ghostly
  <2>8. ~HasDef(cfg, b, at, l)
    BY <2>3, <2>6, <2>7 DEF Point, Filled
  <2>9. ~StoredBefore(b, at, l)
    BY <2>3, <2>4, <2>8, StoredIs
  <2> QED BY <2>9 DEF Load
<1> QED BY <1>1, PromotionInvariant, PTL

\* Promotion leaves every phi of a live block exactly one operand for each
\* predecessor behind which some path has a store, and none else
\* (Mem2Reg::generate_phi, rename and remove_alloca).
THEOREM PhiOperands == PSpec => []PhiPairsMatchPreds
<1>1. PInv => PairsMatchPreds
  <2> SUFFICES ASSUME PInv, phase = "done", NEW b \in Reachable(cfg), NEW v \in phis[b]
               PROVE  LET from == [i \in DOMAIN pairs[b][v] |-> pairs[b][v][i][2]]
                      IN  /\ Members(from) \subseteq Members(cfg.preds[b])
                          /\ \A p \in Members(cfg.preds[b]) :
                                Occurrences(from, p) =
                                    IF StoredBefore(p, Len(cfg.code[p]) + 1, v) THEN 1 ELSE 0
    BY DEF PairsMatchPreds
  <2>1. PICK W : Renamed(W)
    BY DEF PInv
  <2>2. Static /\ Walking /\ Formed(cfg) /\ CleanPreds(cfg) /\ PhisPlaced(cfg, phis) /\ Routed(cfg)
    BY DEF PInv, Static, Formed
  <2>3. /\ \A x \in Reachable(cfg) : \A i \in 1..Stop(cfg, x) : Point(cfg, phis, W, x, i)
        /\ Paired(cfg, phis, pairs, Reachable(cfg), W)
    BY <2>1, <2>2, AllRenamed
  <2>4. b \in Blocks(cfg) /\ v \in Var
    BY <2>2, LiveLeast DEF PhisPlaced
  <2> DEFINE s    == pairs[b][v]
             from == [i \in DOMAIN s |-> s[i][2]]
  <2>5. /\ s \in Seq(Values \X Nat)
        /\ \A i \in 1..Len(s) : s[i][2] \in Reachable(cfg) /\ b \in Succ(cfg, s[i][2])
                                /\ AtEnd(cfg, W, s[i][2], v) # <<>>
        /\ \A p \in Reachable(cfg) : b \in Succ(cfg, p) /\ AtEnd(cfg, W, p, v) # <<>> =>
              \E i \in 1..Len(s) : s[i][2] = p
        /\ \A i, j \in 1..Len(s) : s[i][2] = s[j][2] => i = j
    BY <2>3, <2>4 DEF Paired
  <2>6. DOMAIN s = 1..Len(s)
    BY <2>5, LenProperties
  <2>7. \A p : p \in Members(cfg.preds[b]) <=> p \in Blocks(cfg) /\ b \in Succ(cfg, p)
    BY <2>2, <2>4 DEF Formed
  <2>8. Members(from) \subseteq Members(cfg.preds[b])
    <3>1. \A i \in DOMAIN s : s[i][2] \in Members(cfg.preds[b])
      BY <2>2, <2>5, <2>6, <2>7, LiveLeast
    <3> HIDE DEF s
    <3> QED BY <3>1 DEF Members
  <2>9. ASSUME NEW p \in Members(cfg.preds[b])
        PROVE  Occurrences(from, p) = IF StoredBefore(p, Len(cfg.code[p]) + 1, v) THEN 1 ELSE 0
    <3>1. p \in Reachable(cfg) /\ b \in Succ(cfg, p)
      BY <2>2, <2>7 DEF CleanPreds
    <3>2. AtEnd(cfg, W, p, v) # <<>> <=> StoredBefore(p, Len(cfg.code[p]) + 1, v)
      <4>1. Len(cfg.code[p]) \in Nat
        BY <2>2, <3>1, LiveLeast DEF Formed
      <4>2. Stop(cfg, p) \in 1..Stop(cfg, p)
        BY <4>1 DEF Stop
      <4>3. Point(cfg, phis, W, p, Stop(cfg, p))
        BY <2>3, <3>1, <4>2
      <4>4. AtEnd(cfg, W, p, v) # <<>> <=> HasDef(cfg, p, Stop(cfg, p), v)
        BY <2>4, <4>3 DEF Point, Filled, AtEnd
      <4> QED BY <2>2, <2>4, <3>1, <4>4, StoredIs DEF Stop
    <3> DEFINE where == {i \in DOMAIN from : from[i] = p}
    <3>3. where = {i \in 1..Len(s) : s[i][2] = p}
      BY <2>6
    <3>4. Occurrences(from, p) = Cardinality(where)
      BY DEF Occurrences
    <3> HIDE DEF where, from, s
    <3>5. CASE AtEnd(cfg, W, p, v) # <<>>
      <4>1. PICK i \in 1..Len(s) : s[i][2] = p
        BY <2>5, <3>1, <3>5
      <4>2. where = {i}
        BY <2>5, <3>3, <4>1
      <4>3. Cardinality(where) = 1
        BY <4>2, FS_Singleton
      <4> QED BY <3>2, <3>4, <3>5, <4>3
    <3>6. CASE AtEnd(cfg, W, p, v) = <<>>
      <4>1. where = {}
        BY <2>5, <3>3, <3>6
      <4>2. Cardinality(where) = 0
        BY <4>1, FS_EmptySet
      <4> QED BY <3>2, <3>4, <3>6, <4>2
    <3> QED BY <3>5, <3>6
  <2> QED BY <2>8, <2>9
<1>2. PInv => PhiPairsMatchPreds
  BY <1>1 DEF PhiPairsMatchPreds
<1> QED BY <1>2, PromotionInvariant, PTL

\* Whenever a load of an initialised variable is executed, the value that rename
\* has put in its place is the datum that the variable holds (Mem2Reg::rename):
\* promotion keeps what the function computes, around loops and through joins.
THEOREM PromotionPreservesLoads == PSpec => []LoadsSeeMemory
<1>1. PInv => LoadsSeeMemory
  <2> SUFFICES ASSUME PInv, pc[1] # 0, pc[2] <= Len(cfg.code[pc[1]]),
                      LoadOf(Instr) \in Var, memory[LoadOf(Instr)] # Undef
               PROVE  Instr[2] \in DOMAIN repl /\ regs[repl[Instr[2]]] = memory[LoadOf(Instr)]
    BY DEF LoadsSeeMemory
  <2>1. PICK W : (phase # "idle" => Renamed(W)) /\ Executing(W)
    BY DEF PInv
  <2>2. pc # <<0, 0>>
    OBVIOUS
  <2>3. phase = "done" /\ Static /\ Walking /\ Renamed(W)
    BY <2>1, <2>2 DEF Executing, PInv
  <2> DEFINE b == pc[1]
             i == pc[2]
             l == Load(cfg, b, i)
  <2>4. /\ b \in Reachable(cfg) /\ i \in 1..Stop(cfg, b) /\ Len(cfg.code[b]) \in Nat
        /\ \A v \in Var : memory[v] # Undef =>
              W[b][i][v] # <<>> /\ regs[Top(W[b][i][v])] = memory[v]
    BY <2>1, <2>2, <2>3, ExecutionIs
  <2>5. i \in 1..Len(cfg.code[b])
    BY <2>4
  <2>6. l = LoadOf(Instr) /\ Number(cfg, b, i) = Instr[2]
    BY DEF Load, Number, Instr
  <2>7. Replaced(cfg, W, repl, b, i)
    BY <2>3, <2>4, <2>5, AllRenamed
  <2>8. Number(cfg, b, i) \in DOMAIN repl /\ repl[Number(cfg, b, i)] = Top(W[b][i][l])
    BY <2>6, <2>7 DEF Replaced
  <2>9. regs[Top(W[b][i][l])] = memory[l]
    BY <2>4, <2>6
  <2> QED BY <2>6, <2>8, <2>9
<1> QED BY <1>1, PromotionInvariant, PTL

\* ... and unless copies overwrite what another one reads, its slot has the datum in
\* the code that CodeGen makes: copies for the branch that is not taken harm nothing,
\* and a slot keeps its value as long as it is needed (CodeGen::copy_stmt, gen_br).
THEOREM CopiesPreserveLoads == PSpec => []CopiesFollowPhis
<1>1. PInv => CopiesFollowPhis
  <2> SUFFICES ASSUME PInv, pc[1] # 0, pc[2] <= Len(cfg.code[pc[1]]), NoneOverwritten,
                      LoadOf(Instr) \in Var, memory[LoadOf(Instr)] # Undef
               PROVE  slots[repl[Instr[2]]] = memory[LoadOf(Instr)]
    BY DEF CopiesFollowPhis, NoneOverwritten
  <2>1. PICK W : (phase # "idle" => Renamed(W)) /\ Executing(W) /\ Copying(W)
    BY DEF PInv
  <2>2. pc # <<0, 0>>
    OBVIOUS
  <2>3. phase = "done" /\ Static /\ Walking /\ Renamed(W)
    BY <2>1, <2>2 DEF Executing, PInv
  <2> DEFINE b == pc[1]
             i == pc[2]
             l == Load(cfg, b, i)
  <2>4. b \in Reachable(cfg) /\ i \in 1..Stop(cfg, b) /\ Len(cfg.code[b]) \in Nat
    BY <2>1, <2>2, <2>3, ExecutionIs
  <2>5. i \in 1..Len(cfg.code[b])
    BY <2>4
  <2>6. l = LoadOf(Instr) /\ Number(cfg, b, i) = Instr[2]
    BY DEF Load, Number, Instr
  <2>7. Replaced(cfg, W, repl, b, i)
    BY <2>3, <2>4, <2>5, AllRenamed
  <2>8. repl[Number(cfg, b, i)] = Top(W[b][i][l])
    BY <2>6, <2>7 DEF Replaced
  <2>9. slots[Top(W[b][i][l])] = memory[l]
    BY <2>1, <2>2, <2>6 DEF Copying
  <2> QED BY <2>6, <2>8, <2>9
<1> QED BY <1>1, PromotionInvariant, PTL

-----------------------------------------------------------------------------
(* The height of the stacks of rename.                                      *)

\* A sum over a list, and the recursion for it.
Totals(n, d, f) == f[0] = 0 /\ \A i \in 1..n : f[i] = f[i - 1] + d[i]

Sums(n, d, h) == h = [i \in 0..n |-> IF i = 0 THEN 0 ELSE h[i - 1] + d[i]]

\* They agree, ...
LEMMA SumIs ==
    ASSUME NEW n \in Nat, NEW d, NEW f, Totals(n, d, f), NEW h, Sums(n, d, h)
    PROVE  h[n] = f[n]
<1> DEFINE S == 0..n
           Differ == {i \in S : h[i] # f[i]}
           F == {0..i : i \in Differ}
<1>1. \A i \in S : h[i] = IF i = 0 THEN 0 ELSE h[i - 1] + d[i]
  BY DEF Sums
<1>2. ASSUME Differ # {} PROVE FALSE
  <2>1. IsFiniteSet(S)
    BY FS_Interval
  <2>2. \A i \in S : 0..i \in SUBSET S
    OBVIOUS
  <2>3. Differ \subseteq S
    OBVIOUS
  <2> HIDE DEF S, Differ
  <2>4. F \in SUBSET (SUBSET S) /\ F # {}
    BY <1>2, <2>2, <2>3
  <2>5. PICK T \in F : \A U \in F : U \subseteq T => U = T
    <3> HIDE DEF F
    <3> QED BY <2>1, <2>4, HasSmallest
  <2>6. PICK i \in Differ : T = 0..i
    BY <2>5
  <2>7. i # 0
    BY <1>1, <2>6 DEF Differ, S, Totals
  <2>8. i \in 1..n /\ i - 1 \in S /\ i \in S
    BY <2>6, <2>7 DEF Differ, S
  <2>9. h[i - 1] # f[i - 1]
    BY <1>1, <2>6, <2>7, <2>8 DEF Differ, Totals
  <2>10. 0..(i - 1) \in F
    BY <2>8, <2>9 DEF Differ
  <2>11. 0..(i - 1) \subseteq T /\ i \in T /\ i \notin 0..(i - 1)
    BY <2>6, <2>8 DEF S
  <2> HIDE DEF F
  <2> QED BY <2>5, <2>10, <2>11
<1> QED BY <1>2

\* ... so that there is one.
LEMMA SumExists ==
    ASSUME NEW n \in Nat, NEW d, NEW f, Totals(n, d, f)
    PROVE  \E h : Sums(n, d, h)
<1> DEFINE h == [i \in 0..n |-> f[i]]
<1>1. \A i \in 0..n : i # 0 => i \in 1..n /\ i - 1 \in 0..n
  OBVIOUS
<1>2. Sums(n, d, h)
  BY <1>1 DEF Sums, Totals
<1> QED BY <1>2

\* How high the stack was when the blocks on the path were entered, and what
\* they have pushed since.
Heights(W, v) == [i \in 1..Len(path) |-> Len(Base(cfg, W, path[i])[v])]

Pushes(v) ==
    [i \in 1..Len(path) |->
        Cardinality(Before(cfg, path[i], Reached(path[i]), v)) + (IF v \in phis[path[i]] THEN 1 ELSE 0)]

\* The stack is as high as what the blocks of the path have pushed.
LEMMA StackGrows ==
    ASSUME Static, Walking, NEW W, Renamed(W), phase = "rename", NEW v \in Var
    PROVE  LET base == Heights(W, v)
               d    == Pushes(v)
           IN  /\ Len(path) \in Nat /\ Len(stack[v]) \in Nat
               /\ \A i \in 1..Len(path) : base[i] \in Nat /\ d[i] \in Nat
               /\ path = <<>> => Len(stack[v]) = 0 /\ Len(path) = 0
               /\ path # <<>> => /\ Len(path) > 0 /\ base[Len(path)] = 0
                                 /\ Len(stack[v]) = base[1] + d[1]
               /\ \A i \in 2..Len(path) : base[i - 1] = base[i] + d[i]
<1> DEFINE base == [i \in 1..Len(path) |-> Len(Base(cfg, W, path[i])[v])]
           d    == [i \in 1..Len(path) |->
                       Cardinality(Before(cfg, path[i], Reached(path[i]), v))
                         + (IF v \in phis[path[i]] THEN 1 ELSE 0)]
<1>0. base = Heights(W, v) /\ d = Pushes(v)
  BY DEF Heights, Pushes
<1>1. Formed(cfg) /\ Routed(cfg) /\ W \in Ghosts /\ Ghostly(W) /\ Tracks(W)
  BY DEF Static, Formed, Renamed, Ghostly
<1>2. path \in Seq(Blocks(cfg)) /\ Len(path) \in Nat /\ DOMAIN path = 1..Len(path)
  BY LenProperties DEF Walking
<1>3. ASSUME NEW i \in 1..Len(path)
      PROVE  /\ path[i] \in seen /\ path[i] \in Nat /\ path[i] \in Reachable(cfg)
             /\ Reached(path[i]) \in 1..Reached(path[i]) /\ Reached(path[i]) \in Nat
             /\ base[i] \in Nat /\ d[i] \in Nat
             /\ Len(W[path[i]][Reached(path[i])][v]) = base[i] + d[i]
  <2>1. path[i] \in seen
    <3>1. path[i] \in Members(path)
      BY <1>2 DEF Members
    <3> QED BY <3>1 DEF Walking
  <2> DEFINE x == path[i]
             k == Reached(path[i])
  <2>2. x \in Nat /\ x \in Reachable(cfg) /\ k \in 1..k /\ k \in Nat /\ k > 0
    BY <2>1, ReachedIs
  <2>3. Grown(cfg, phis, W, x, k)
    BY <1>1, <2>1, <2>2 DEF Ghostly, Point
  <2>4. Cardinality(Before(cfg, x, k, v)) \in Nat
    BY <2>2, BeforeNext
  <2>5. Len(Base(cfg, W, x)[v]) \in Nat
    BY <1>1, <2>2, BaseStack
  <2>6. base[i] = Len(Base(cfg, W, x)[v])
        /\ d[i] = Cardinality(Before(cfg, x, k, v)) + (IF v \in phis[x] THEN 1 ELSE 0)
    OBVIOUS
  <2>7. Len(W[x][k][v]) = Len(Base(cfg, W, x)[v]) + (IF v \in phis[x] THEN 1 ELSE 0)
                            + Cardinality(Before(cfg, x, k, v))
    BY <2>3 DEF Grown
  <2> DEFINE p == IF v \in phis[x] THEN 1 ELSE 0
             m == Cardinality(Before(cfg, x, k, v))
             t == Len(Base(cfg, W, x)[v])
  <2>8. p \in Nat /\ m \in Nat /\ t \in Nat /\ base[i] = t /\ d[i] = m + p
        /\ Len(W[x][k][v]) = t + p + m
    BY <2>4, <2>5, <2>6, <2>7
  <2>9. base[i] \in Nat /\ d[i] \in Nat /\ Len(W[x][k][v]) = base[i] + d[i]
    <3> HIDE DEF p, m, t, base, d, x, k
    <3> QED BY <2>8
  <2> HIDE DEF base, d
  <2> QED BY <2>1, <2>2, <2>9
<1>4. ASSUME path = <<>> PROVE Len(stack[v]) = 0 /\ Len(path) = 0
  <2>1. seen = {}
    BY <1>4 DEF Walking
  <2>2. stack[v] = <<>>
    BY <1>1, <2>1 DEF Tracks
  <2> QED BY <1>4, <2>2
<1>5. ASSUME path # <<>>
      PROVE  Len(path) > 0 /\ base[Len(path)] = 0 /\ Len(stack[v]) = base[1] + d[1]
  <2>1. Len(path) > 0 /\ Head(path) = path[1] /\ 1 \in 1..Len(path) /\ Len(path) \in 1..Len(path)
    BY <1>2, <1>5, ShorterPath
  <2>2. path[Len(path)] = Entry
    BY <1>5 DEF Walking
  <2>3. base[Len(path)] = 0
    BY <2>1, <2>2 DEF Base
  <2>4. stack[v] = W[path[1]][Reached(path[1])][v]
    BY <1>5, <2>1, StackIs
  <2> HIDE DEF base, d
  <2> QED BY <1>3, <2>1, <2>3, <2>4
<1>6. ASSUME NEW i \in 2..Len(path) PROVE base[i - 1] = base[i] + d[i]
  <2>1. /\ i \in 1..Len(path) /\ i - 1 \in 1..Len(path) /\ i - 1 \in 1..(Len(path) - 1)
        /\ (i - 1) + 1 = i /\ 1 \in 1..Len(path) /\ i # 1 /\ Len(path) \in 1..Len(path)
        /\ i - 1 # Len(path)
    BY <1>2
  <2>2. Child(cfg, path[i], path[i - 1])
    <3>1. Child(cfg, path[(i - 1) + 1], path[i - 1])
      BY <2>1 DEF Walking
    <3> QED BY <2>1, <3>1
  <2>3. path # <<>>
    BY <1>2, <2>1
  <2>4. path[i - 1] # Entry /\ path[i] # Head(path)
    <3>1. path[i - 1] # path[Len(path)] /\ path[Len(path)] = Entry
      BY <2>1, <2>3 DEF Walking
    <3>2. path[i] # path[1] /\ Head(path) = path[1]
      BY <1>2, <2>1, <2>3, ShorterPath DEF Walking
    <3> QED BY <3>1, <3>2
  <2>5. path[i] = Parent(cfg, path[i - 1])
    BY <1>1, <1>3, <2>1, <2>2, <2>4, ParentIs
  <2>6. Reached(path[i]) = Stop(cfg, path[i])
    BY <2>4 DEF Reached
  <2>7. base[i - 1] = Len(W[path[i]][Reached(path[i])][v])
    BY <2>1, <2>4, <2>5, <2>6 DEF Base
  <2> HIDE DEF base, d
  <2> QED BY <1>3, <2>1, <2>7
<1> HIDE DEF base, d
<1>7. /\ Len(path) \in Nat /\ Len(stack[v]) \in Nat
      /\ \A i \in 1..Len(path) : base[i] \in Nat /\ d[i] \in Nat
      /\ path = <<>> => Len(stack[v]) = 0 /\ Len(path) = 0
      /\ path # <<>> => Len(path) > 0 /\ base[Len(path)] = 0 /\ Len(stack[v]) = base[1] + d[1]
      /\ \A i \in 2..Len(path) : base[i - 1] = base[i] + d[i]
  <2>1. Len(stack[v]) \in Nat
    <3>1. path # <<>> => 1 \in 1..Len(path)
      BY <1>2, <1>5
    <3> QED BY <1>3, <1>4, <1>5, <3>1
  <2> QED BY <1>2, <1>3, <1>4, <1>5, <1>6, <2>1
<1> QED BY <1>0, <1>7

\* At every moment of renaming the stack of a variable has one entry for each
\* phi and store of it in the blocks on the way down the dominator tree: rename
\* pops what it has pushed before a sibling is renamed (Mem2Reg::rename).
THEOREM RenameStack == PSpec => []StackFollowsTree
<1>1. PInv => StackFollowsTree
  <2> SUFFICES ASSUME PInv, phase = "rename", NEW v \in Var
               PROVE  LET done(b) == IF b = Head(path) /\ at # 0 THEN at - 1 ELSE Len(cfg.code[b])
                          defs(b) == Cardinality({i \in 1..done(b) : StoreOf(cfg.code[b][i]) = v})
                                       + (IF v \in phis[b] THEN 1 ELSE 0)
                          upTo[i \in 0..Len(path)] ==
                              IF i = 0 THEN 0 ELSE upTo[i - 1] + defs(path[i])
                      IN  Len(stack[v]) = upTo[Len(path)]
    BY DEF StackFollowsTree
  <2>1. PICK W : Renamed(W)
    BY DEF PInv
  <2>2. Static /\ Walking
    BY DEF PInv
  <2> DEFINE done(b) == IF b = Head(path) /\ at # 0 THEN at - 1 ELSE Len(cfg.code[b])
             defs(b) == Cardinality({i \in 1..done(b) : StoreOf(cfg.code[b][i]) = v})
                          + (IF v \in phis[b] THEN 1 ELSE 0)
             n == Len(path)
             base == Heights(W, v)
             d    == Pushes(v)
             f    == [i \in 0..n |-> IF i = 0 THEN 0 ELSE Len(stack[v]) - base[i]]
             Solves(h) == h = [i \in 0..n |-> IF i = 0 THEN 0 ELSE h[i - 1] + defs(path[i])]
             upTo == CHOOSE h : Solves(h)
  <2>3. /\ n \in Nat /\ Len(stack[v]) \in Nat
        /\ \A i \in 1..n : base[i] \in Nat /\ d[i] \in Nat
        /\ path = <<>> => Len(stack[v]) = 0 /\ n = 0
        /\ path # <<>> => n > 0 /\ base[n] = 0 /\ Len(stack[v]) = base[1] + d[1]
        /\ \A i \in 2..n : base[i - 1] = base[i] + d[i]
    BY <2>1, <2>2, StackGrows
  <2>4. ASSUME NEW i \in 1..n PROVE defs(path[i]) = d[i]
    <3>1. path[i] \in Blocks(cfg) /\ Len(cfg.code[path[i]]) \in Nat /\ path # <<>> /\ at \in Nat
      BY <2>2, <2>3, ElementOfSeq DEF Walking, Static, Formed
    <3>2. done(path[i]) = Reached(path[i]) - 1
      BY <3>1 DEF Reached, Stop
    <3>3. {j \in 1..done(path[i]) : StoreOf(cfg.code[path[i]][j]) = v}
             = Before(cfg, path[i], Reached(path[i]), v)
      BY <3>2 DEF Before, Store
    <3> QED BY <3>3 DEF Pushes
  <2> HIDE DEF base, d, defs
  <2>5. Totals(n, d, f) /\ f[n] = Len(stack[v])
    <3>1. ASSUME NEW i \in 1..n PROVE f[i] = f[i - 1] + d[i]
      <4>1. f[i] = Len(stack[v]) - base[i] /\ i - 1 \in 0..n /\ path # <<>>
        BY <2>3
      <4>2. CASE i = 1
        <5>1. f[i - 1] = 0
          BY <4>2
        <5> HIDE DEF f
        <5> QED BY <2>3, <4>1, <4>2, <5>1
      <4>3. CASE i # 1
        <5>1. f[i - 1] = Len(stack[v]) - base[i - 1] /\ i \in 2..n /\ i - 1 \in 1..n
          BY <4>3
        <5> HIDE DEF f
        <5> QED BY <2>3, <4>1, <5>1
      <4> QED BY <4>2, <4>3
    <3>2. f[n] = Len(stack[v])
      BY <2>3
    <3>3. f[0] = 0
      BY <2>3
    <3> HIDE DEF f
    <3> QED BY <3>1, <3>2, <3>3 DEF Totals
  <2> HIDE DEF f
  <2>6. \A h : Solves(h) <=> Sums(n, d, h)
    <3>1. \A i \in 0..n : i # 0 => defs(path[i]) = d[i]
      BY <2>3, <2>4
    <3> SUFFICES ASSUME NEW h
                 PROVE  [i \in 0..n |-> IF i = 0 THEN 0 ELSE h[i - 1] + defs(path[i])]
                          = [i \in 0..n |-> IF i = 0 THEN 0 ELSE h[i - 1] + d[i]]
      BY DEF Sums
    <3> HIDE DEF n
    <3> QED BY <3>1
  <2> HIDE DEF n
  <2> HIDE DEF Solves
  <2>7. \E h : Sums(n, d, h)
    BY <2>3, <2>5, SumExists
  <2>8. Solves(upTo)
    <3>1. \E h : Solves(h)
      BY <2>6, <2>7
    <3> QED BY <3>1
  <2>9. upTo[n] = f[n]
    <3>1. Sums(n, d, upTo)
      BY <2>6, <2>8
    <3> HIDE DEF upTo
    <3> QED BY <2>3, <2>5, <3>1, SumIs
  <2>10. Len(stack[v]) = upTo[n]
    BY <2>5, <2>9
  <2> QED BY <2>10 DEF n, defs, Solves
<1> QED BY <1>1, PromotionInvariant, PTL
=============================================================================
