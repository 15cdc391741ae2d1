-------------------------- MODULE BuildLoopsProofs --------------------------
(***************************************************************************)
(* The dominators, frontiers and loops of the functions the builder makes, *)
(* for programs of any size.                                               *)
(*                                                                         *)
(* DomInv says what each sub-analysis of run_on_func has found out when it *)
(* is interrupted anywhere: dfs a post order, create_idom a tree in which  *)
(* no block is hung above what dominates it, create_dominance_frontier the *)
(* frontiers of the blocks it has been at, create_dom_dfs_order the        *)
(* intervals of the subtrees it has left.                                  *)
(*                                                                         *)
(* Finding says the same of LoopDetection: the loops before the last are   *)
(* the natural loops of their headers, and the last one is all that its    *)
(* walk has come to, with a work list that leads on from there.            *)
(***************************************************************************)
EXTENDS BuildLoops, BlockBuilderProofs

-----------------------------------------------------------------------------
(* Recursion with a measure.                                               *)

\* A set of numbers has a least one: what follows by induction follows from this.
LEMMA LeastNumber ==
    ASSUME NEW S \in SUBSET Nat, S # {}
    PROVE  \E n \in S : \A k \in S : n <= k
<1> DEFINE R == OpToRel(<, Nat)
<1>1. IsWellFoundedOn(R, Nat)
  BY NatLessThanWellFounded
<1>2. \A x, y \in Nat : <<x, y>> \in R <=> x < y
  BY DEF OpToRel
<1> HIDE DEF R
<1>3. PICK x \in S : \A y \in S : ~(<<y, x>> \in R)
  BY <1>1, WFMin
<1>4. x \in Nat /\ \A y \in S : y \in Nat /\ ~(y < x)
  BY <1>2, <1>3
<1> QED BY <1>4

\* What is true of an element if it is of those that measure less is true of all.
LEMMA ByMeasure ==
    ASSUME NEW S, NEW rank \in [S -> Nat], NEW T,
           \A s \in S : (\A t \in S : rank[t] < rank[s] => t \in T) => s \in T
    PROVE  S \subseteq T
<1> DEFINE Bad == {rank[s] : s \in S \ T}
<1>1. SUFFICES ASSUME Bad # {} PROVE FALSE
  OBVIOUS
<1>2. PICK n \in Bad : \A k \in Bad : n <= k
  <2>1. Bad \in SUBSET Nat
    OBVIOUS
  <2> HIDE DEF Bad
  <2> QED BY <1>1, <2>1, LeastNumber
<1>3. PICK s \in S \ T : n = rank[s]
  BY <1>2
<1>4. PICK t \in S : rank[t] < rank[s] /\ t \notin T
  BY <1>3
<1>5. rank[t] \in Bad /\ rank[t] \in Nat /\ rank[s] \in Nat
  BY <1>4
<1>6. n <= rank[t]
  <2> HIDE DEF Bad
  <2> QED BY <1>2, <1>5
<1> QED BY <1>3, <1>4, <1>5, <1>6

\* What next leads to measures less, but where it stops.
Falls(S, rank, N, stop, next) ==
    /\ N \in Nat /\ rank \in [S -> Nat] /\ \A s \in S : rank[s] < N
    /\ next \in [S -> S] /\ \A s \in S \ stop : rank[next[s]] < rank[s]

\* The value of f is the first one where next stops, and comes from that behind
\* next elsewhere.
Recurs(f, S, stop, first, next, step) ==
    \A s \in S : f[s] = IF s \in stop THEN first[s] ELSE step[<<s, f[next[s]]>>]

\* A function can be defined from its value at what measures less.
LEMMA Recursion ==
    ASSUME NEW S, NEW V, NEW v0 \in V, NEW rank, NEW N, NEW stop, NEW next,
           Falls(S, rank, N, stop, next),
           NEW first \in [S -> V], NEW step \in [S \X V -> V]
    PROVE  \E f \in [S -> V] : Recurs(f, S, stop, first, next, step)
<1> USE DEF Falls, Recurs
<1> DEFINE Solves(f, k) ==
      \A s \in S : rank[s] < k =>
          f[s] = IF s \in stop THEN first[s] ELSE step[<<s, f[next[s]]>>]
    Fails == {k \in Nat : ~\E f \in [S -> V] : Solves(f, k)}
<1>1. SUFFICES ASSUME Fails # {} PROVE FALSE
  <2>1. N \notin Fails => \E f \in [S -> V] : Solves(f, N)
    OBVIOUS
  <2>2. \A f \in [S -> V] : Solves(f, N) =>
            Recurs(f, S, stop, first, next, step)
    OBVIOUS
  <2> HIDE DEF Solves, Fails
  <2> QED BY <2>1, <2>2
<1>2. PICK k \in Fails : \A j \in Fails : k <= j
  <2>1. Fails \in SUBSET Nat
    OBVIOUS
  <2> HIDE DEF Fails
  <2> QED BY <1>1, <2>1, LeastNumber
<1>3. k \in Nat /\ ~\E f \in [S -> V] : Solves(f, k)
  BY <1>2
<1>4. k # 0
  <2> DEFINE f == [s \in S |-> v0]
  <2>1. f \in [S -> V] /\ Solves(f, 0)
    OBVIOUS
  <2> HIDE DEF f, Solves
  <2> QED BY <1>3, <2>1
<1>5. k - 1 \in Nat /\ k - 1 \notin Fails
  BY <1>2, <1>3, <1>4
<1>6. PICK f \in [S -> V] : Solves(f, k - 1)
  BY <1>5
<1> DEFINE h == [s \in S |-> IF rank[s] < k - 1 THEN f[s]
                             ELSE IF s \in stop THEN first[s] ELSE step[<<s, f[next[s]]>>]]
<1>7. h \in [S -> V]
  <2>1. \A s \in S : step[<<s, f[next[s]]>>] \in V /\ first[s] \in V /\ f[s] \in V
    <3>1. \A s \in S : <<s, f[next[s]]>> \in S \X V
      OBVIOUS
    <3> QED BY <3>1
  <2> QED BY <2>1
<1>8. ASSUME NEW s \in S, rank[s] < k
      PROVE  h[s] = IF s \in stop THEN first[s] ELSE step[<<s, h[next[s]]>>]
  <2>1. h[s] = IF s \in stop THEN first[s] ELSE step[<<s, f[next[s]]>>]
    BY <1>6
  <2>2. ASSUME s \notin stop PROVE h[next[s]] = f[next[s]]
    <3>1. next[s] \in S /\ rank[next[s]] < rank[s] /\ rank[next[s]] \in Nat /\ rank[s] \in Nat
      BY <2>2
    <3>2. rank[next[s]] < k - 1
      BY <1>3, <1>8, <3>1
    <3> QED BY <3>1, <3>2
  <2> HIDE DEF h
  <2> QED BY <2>1, <2>2
<1> HIDE DEF h
<1>9. Solves(h, k)
  BY <1>8
<1> HIDE DEF Solves
<1> QED BY <1>3, <1>7, <1>9
-----------------------------------------------------------------------------
(* Post order.                                                             *)

\* What the passes read of a function: its edges, which both lists hold, and
\* none of which goes to the entry.
Linked(g) ==
    /\ Routed(g)
    /\ \A b \in Blocks(g) : /\ g.succs[b] \in Seq(Blocks(g)) /\ Members(g.succs[b]) = Succ(g, b)
                            /\ g.preds[b] \in Seq(Blocks(g))
    /\ \A b, p \in Blocks(g) : p \in Members(g.preds[b]) <=> b \in Succ(g, p)
    /\ \A p \in Blocks(g) : Entry \notin Succ(g, p)

\* A numbering ps of the live blocks in which each but the entry comes behind
\* one that branches to it, and before no predecessor that it does not dominate.
PostOrder(g, ps) ==
    /\ ps \in [Blocks(g) -> 0..g.n]
    /\ \A b \in Blocks(g) : ps[b] # Dom!None <=> b \in Reachable(g)
    /\ \A b, c \in Reachable(g) : ps[b] = ps[c] => b = c
    /\ \A b \in Reachable(g) \ {Entry} : \E p \in Reachable(g) : b \in Succ(g, p) /\ ps[b] < ps[p]
    /\ \A p \in Reachable(g) : \A b \in Succ(g, p) : ps[b] < ps[p] \/ Dominates(g, b, p)

\* What dominates a block has a higher number.
LEMMA DominatorsHigher ==
    ASSUME NEW g, Routed(g), NEW ps, PostOrder(g, ps), NEW a, NEW b, Dominates(g, a, b)
    PROVE  ps[b] <= ps[a] /\ (a # b => ps[b] < ps[a])
<1> DEFINE S == Reachable(g)
           rank == [x \in S |-> g.n - ps[x]]
           T == {x \in S : Dominates(g, a, x) => ps[x] <= ps[a]}
<1>1. S \subseteq Blocks(g) /\ g.n \in Nat /\ a \in S /\ b \in S
  BY LiveLeast, DominatesIs DEF Routed
<1>2. \A x \in S : ps[x] \in 0..g.n
  BY <1>1 DEF PostOrder
<1>3. rank \in [S -> Nat]
  BY <1>1, <1>2
<1>4. ASSUME NEW x \in S, \A t \in S : rank[t] < rank[x] => t \in T
      PROVE  x \in T
  <2>1. SUFFICES ASSUME Dominates(g, a, x), a # x PROVE ps[x] <= ps[a]
    BY <1>1, <1>2
  <2>2. x # Entry
    BY <1>1, <2>1, EntryDominates, DominatesAntisymmetric
  <2>3. PICK p \in S : x \in Succ(g, p) /\ ps[x] < ps[p]
    BY <2>2 DEF PostOrder
  <2>4. Dominates(g, a, p)
    BY <2>1, <2>3, DominatesBefore
  <2>5. rank[p] < rank[x]
    BY <1>1, <1>2, <2>3
  <2>6. ps[p] <= ps[a]
    BY <1>4, <2>4, <2>5
  <2> QED BY <1>1, <1>2, <2>3, <2>6
<1> HIDE DEF rank
<1>5. S \subseteq T
  <2> HIDE DEF S, T
  <2> QED BY <1>3, <1>4, ByMeasure
<1>6. ps[b] <= ps[a]
  BY <1>1, <1>5
<1>7. a # b => ps[b] # ps[a]
  BY <1>1 DEF PostOrder
<1> QED BY <1>1, <1>2, <1>6, <1>7

-----------------------------------------------------------------------------
(* What the analysis calls its graph is the same.                          *)
LEMMA SameGraph ==
    /\ Dom!None = 0 /\ Dom!Entry = Entry
    /\ \A s : Dom!Members(s) = Members(s)
    /\ \A g : Dom!Blocks(g) = Blocks(g)
<1> QED BY DEF Dom!None, Dom!Entry, Entry, Dom!Members, Members, Dom!Blocks, Blocks

LEMMA SameCardinality ==
    ASSUME NEW S
    PROVE  Dom!Cardinality(S) = Cardinality(S)
BY DEF Dom!Cardinality, Cardinality, Dom!IsFiniteSet, IsFiniteSet

LEMMA SamePaths ==
    ASSUME NEW g
    PROVE  Dom!Reachable(g) = Reachable(g) /\ Dom!Dominance(g) = Dominance(g)
<1>1. \A S, next : Dom!Closure(g, S, next) = Closure(g, S, next)
  BY DEF Dom!Closure, Closure, Dom!Blocks, Blocks
<1>2. \A b : Dom!Targets(g, b) = Targets(g, b)
  BY DEF Dom!Targets, Targets
<1>3. \A S, avoid : Dom!ReachableAvoiding(g, S, avoid) = ReachableAvoiding(g, S, avoid)
  BY <1>1, <1>2, SameGraph DEF Dom!ReachableAvoiding, ReachableAvoiding
<1>4. Dom!Reachable(g) = Reachable(g)
  BY <1>3, SameGraph DEF Dom!Reachable, Reachable
<1> DEFINE Avoid(a)  == ReachableAvoiding(g, {Entry}, {a})
           DomAvoid(a) == Dom!ReachableAvoiding(g, {Entry}, {a})
           Row(a)     == {<<a, b>> : b \in Reachable(g) \ Avoid(a)}
           DomRow(a)  == {<<a, b>> : b \in Reachable(g) \ DomAvoid(a)}
<1>5. Dominance(g) = UNION {Row(a) : a \in Reachable(g)}
  BY DEF Dominance
<1>6. Dom!Dominance(g) = UNION {DomRow(a) : a \in Reachable(g)}
  BY <1>4, SameGraph DEF Dom!Dominance
<1>7. \A a : DomAvoid(a) = Avoid(a)
  BY <1>3
<1> HIDE DEF Avoid, DomAvoid
<1>8. \A a : DomRow(a) = Row(a)
  BY <1>7
<1> HIDE DEF Row, DomRow
<1> QED BY <1>4, <1>5, <1>6, <1>8

-----------------------------------------------------------------------------
(* Dominators::dfs.                                                        *)
Numbered == {b \in Blocks(cfg) : post[b] # Dom!None}

\* Nothing is recorded yet.
Blank ==
    /\ idom = [b \in Blocks(cfg) |-> Dom!None]
    /\ frontier = [b \in Blocks(cfg) |-> {}]
    /\ left = [b \in Blocks(cfg) |-> Dom!None]
    /\ right = [b \in Blocks(cfg) |-> Dom!None]
    /\ at = 1 /\ changed = FALSE

\* The blocks being visited are a path from the entry, with all that dominates
\* one of them behind it.
Descent ==
    /\ path \in Seq(Reachable(cfg))
    /\ \A i \in 1..Len(path) : post[path[i]] = Dom!None
    /\ \A i, j \in 1..Len(path) : path[i] = path[j] => i = j
    /\ \A i \in 1..Len(path) : i < Len(path) => path[i] \in Succ(cfg, path[i + 1])
    /\ path # <<>> => path[Len(path)] = Entry
    /\ \A i \in 1..Len(path) : \A d : Dominates(cfg, d, path[i]) =>
          \E j \in 1..Len(path) : i <= j /\ path[j] = d
    /\ \E r \in [Nat -> Nat] : /\ Ordered(cfg, r)
                               /\ \A i, j \in 1..Len(path) : i < j => r[path[j]] < r[path[i]]

\* The numbers given are those of a post order.
Numbers ==
    /\ post \in [Blocks(cfg) -> 0..cfg.n]
    /\ Numbered \subseteq Reachable(cfg)
    /\ \A b \in Numbered : post[b] <= Cardinality(Numbered)
    /\ \A b, c \in Numbered : post[b] = post[c] => b = c
    /\ Entry \in Numbered \cup Members(path)
    /\ \A b \in Numbered : \A c \in Succ(cfg, b) :
          \/ c \in Numbered /\ post[c] < post[b]
          \/ c \in Numbered \cup Members(path) /\ Dominates(cfg, c, b)
    /\ \A b \in Numbered \ {Entry} : \E p \in Blocks(cfg) :
          b \in Succ(cfg, p) /\ (p \in Members(path) \/ (p \in Numbered /\ post[b] < post[p]))

Ordering == Blank /\ Descent /\ Numbers

\* The walk starts at the entry.
LEMMA EnterOrders ==
    ASSUME Dom!Enter, Linked(cfg), cfg' = cfg,
           \E r \in [Nat -> Nat] : Ordered(cfg, r)
    PROVE  Ordering'
<1> DEFINE B == Blocks(cfg)
<1>1. /\ path' = <<Entry>> /\ post' = [b \in B |-> Dom!None] /\ Blank'
  <2>1. Dom!Blocks(cfg) = B /\ Dom!Entry = Entry
    BY SameGraph
  <2> QED BY <2>1 DEF Dom!Enter, Blank
<1>2. Routed(cfg) /\ cfg.n \in Nat /\ Entry \in Reachable(cfg) /\ Entry \in B
  BY LiveLeast DEF Linked, Routed
<1>3. /\ path' = <<Entry>> /\ Len(path') = 1 /\ path'[1] = Entry
      /\ path' \in Seq(Reachable(cfg)) /\ \A i \in 1..Len(path') : i = 1
  BY <1>1, <1>2
<1>4. post' \in [B -> 0..cfg.n] /\ (\A b \in B : post'[b] = Dom!None) /\ Numbered' = {}
  BY <1>1, <1>2, SameGraph DEF Numbered
<1>5. \A d : Dominates(cfg, d, Entry) => d = Entry
  BY <1>2, EntryDominates, DominatesAntisymmetric, DominatesIs
<1>6. Descent'
  BY <1>2, <1>3, <1>4, <1>5, LiveLeast DEF Descent
<1>7. Numbers'
  <2>1. Entry \in Members(path')
    BY <1>3 DEF Members
  <2> QED BY <1>2, <1>4, <2>1 DEF Numbers
<1> QED BY <1>1, <1>6, <1>7 DEF Ordering
\* A block in front of a list.
LEMMA PathGrows ==
    ASSUME NEW T, NEW s \in Seq(T), NEW c \in T
    PROVE  LET t == <<c>> \o s
           IN  /\ t \in Seq(T) /\ Len(t) = Len(s) + 1 /\ Len(s) \in Nat /\ t[1] = c
               /\ \A i \in 1..Len(t) : i = 1 \/ (i - 1 \in 1..Len(s) /\ t[i] = s[i - 1])
               /\ \A i \in 1..Len(s) : i + 1 \in 1..Len(t) /\ t[i + 1] = s[i]
               /\ Members(t) = Members(s) \cup {c}
<1> DEFINE t == <<c>> \o s
<1>1. /\ t \in Seq(T) /\ Len(t) = Len(s) + 1 /\ Len(s) \in Nat /\ t[1] = c
      /\ \A i \in 1..Len(t) : i = 1 \/ (i - 1 \in 1..Len(s) /\ t[i] = s[i - 1])
      /\ \A i \in 1..Len(s) : i + 1 \in 1..Len(t) /\ t[i + 1] = s[i]
  OBVIOUS
<1>2. DOMAIN t = 1..Len(t) /\ DOMAIN s = 1..Len(s) /\ 1 \in 1..Len(t)
  BY <1>1
<1> HIDE DEF t
<1>3. Members(t) = Members(s) \cup {c}
  <2>1. ASSUME NEW x \in Members(t) PROVE x \in Members(s) \cup {c}
    <3>1. PICK i \in 1..Len(t) : x = t[i]
      BY <1>2, <2>1 DEF Members
    <3> QED BY <1>1, <1>2, <3>1 DEF Members
  <2>2. ASSUME NEW x \in Members(s) PROVE x \in Members(t)
    <3>1. PICK i \in 1..Len(s) : x = s[i]
      BY <1>2, <2>2 DEF Members
    <3> QED BY <1>1, <1>2, <3>1 DEF Members
  <2>3. c \in Members(t)
    BY <1>1, <1>2 DEF Members
  <2> QED BY <2>1, <2>2, <2>3
<1> QED BY <1>1, <1>3 DEF t

\* And a list without its first block.
LEMMA PathShrinks ==
    ASSUME NEW T, NEW s \in Seq(T), s # <<>>
    PROVE  LET t == Tail(s)
           IN  /\ t \in Seq(T) /\ Len(s) \in Nat /\ Len(t) = Len(s) - 1 /\ 1 \in 1..Len(s)
               /\ Head(s) = s[1] /\ s[1] \in T
               /\ \A i \in 1..Len(t) : i + 1 \in 1..Len(s) /\ t[i] = s[i + 1]
               /\ \A i \in 1..Len(s) : i = 1 \/ (i - 1 \in 1..Len(t) /\ t[i - 1] = s[i])
               /\ Members(s) = Members(t) \cup {s[1]}
<1> DEFINE t == Tail(s)
<1>1. /\ t \in Seq(T) /\ Len(s) \in Nat /\ Len(t) = Len(s) - 1 /\ Len(s) > 0
      /\ Head(s) = s[1] /\ s[1] \in T
      /\ \A i \in 1..Len(t) : t[i] = s[i + 1]
  BY EmptySeq
<1>2. /\ DOMAIN t = 1..Len(t) /\ DOMAIN s = 1..Len(s)
  BY <1>1
<1> HIDE DEF t
<1>3. /\ 1 \in 1..Len(s) /\ \A i \in 1..Len(t) : i + 1 \in 1..Len(s)
      /\ \A i \in 1..Len(s) : i = 1 \/ (i - 1 \in 1..Len(t) /\ t[i - 1] = s[i])
  BY <1>1
<1>4. Members(s) = Members(t) \cup {s[1]}
  <2>1. ASSUME NEW x \in Members(s) PROVE x \in Members(t) \cup {s[1]}
    <3>1. PICK i \in 1..Len(s) : x = s[i]
      BY <1>2, <2>1 DEF Members
    <3> QED BY <1>2, <1>3, <3>1 DEF Members
  <2>2. ASSUME NEW x \in Members(t) PROVE x \in Members(s)
    <3>1. PICK i \in 1..Len(t) : x = t[i]
      BY <1>2, <2>2 DEF Members
    <3> QED BY <1>1, <1>2, <1>3, <3>1 DEF Members
  <2> QED BY <1>2, <1>3, <2>1, <2>2 DEF Members
<1> QED BY <1>1, <1>3, <1>4 DEF t

\* Going down, to a block that has not been visited.
LEMMA OrderDownKeeps ==
    ASSUME Linked(cfg), Ordering, Dom!OrderDown, cfg' = cfg
    PROVE  Ordering'
<1> DEFINE h == path[1]
<1>1. /\ Routed(cfg) /\ path \in Seq(Reachable(cfg)) /\ path # <<>> /\ Head(path) = h
      /\ 1 \in 1..Len(path) /\ h \in Reachable(cfg) /\ h \in Blocks(cfg)
  BY PathShrinks, LiveLeast DEF Linked, Ordering, Descent, Dom!OrderDown
<1>0. /\ Reachable(cfg) \subseteq Blocks(cfg) /\ Blocks(cfg) \subseteq Nat
      /\ \A i \in 1..Len(path) : path[i] \in Reachable(cfg)
  BY <1>1, LiveLeast DEF Blocks, Routed
<1>2. PICK c : /\ c \in Succ(cfg, h) /\ c \in Reachable(cfg) /\ c \notin Numbered \cup Members(path)
               /\ path' = <<c>> \o path
  <2>1. PICK i \in Dom!Unvisited(Head(path)) : path' = <<cfg.succs[Head(path)][i]>> \o path
    BY DEF Dom!OrderDown
  <2>2. /\ i \in DOMAIN cfg.succs[h] /\ cfg.succs[h][i] \notin Numbered \cup Members(path)
    BY <1>1, <2>1, SameGraph DEF Dom!Unvisited, Dom!Visited, Numbered
  <2>3. cfg.succs[h][i] \in Succ(cfg, h)
    BY <1>1, <2>2 DEF Linked, Members
  <2> QED BY <1>1, <2>1, <2>2, <2>3, LiveLeast
<1>3. /\ path' \in Seq(Reachable(cfg)) /\ Len(path') = Len(path) + 1 /\ Len(path) \in Nat
      /\ path'[1] = c
      /\ \A i \in 1..Len(path') : i = 1 \/ (i - 1 \in 1..Len(path) /\ path'[i] = path[i - 1])
      /\ \A i \in 1..Len(path) : i + 1 \in 1..Len(path') /\ path'[i + 1] = path[i]
      /\ Members(path') = Members(path) \cup {c}
  BY <1>1, <1>2, PathGrows
<1>4. /\ post' = post /\ Numbered' = Numbered
  BY DEF Dom!OrderDown, Numbered
<1>5. /\ \A i \in 1..Len(path) : path[i] \in Members(path) /\ path[i] # c
  BY <1>1, <1>2 DEF Members
<1>6. Descent'
  <2>1. \A i \in 1..Len(path') : post'[path'[i]] = Dom!None
    <3>1. post[c] = Dom!None
      BY <1>0, <1>2 DEF Numbered
    <3>2. \A i \in 1..Len(path) : post[path[i]] = Dom!None
      BY DEF Ordering, Descent
    <3> HIDE DEF h
    <3> QED BY <1>3, <1>4, <3>1, <3>2
  <2>2. \A i, j \in 1..Len(path') : path'[i] = path'[j] => i = j
    <3>1. \A i, j \in 1..Len(path) : path[i] = path[j] => i = j
      BY DEF Ordering, Descent
    <3>2. ASSUME NEW i \in 1..Len(path'), NEW j \in 1..Len(path'), path'[i] = path'[j]
          PROVE  i = j
      <4>1. CASE i = 1 \/ j = 1
        BY <1>3, <1>5, <3>2, <4>1
      <4>2. CASE i # 1 /\ j # 1
        <5>1. /\ i - 1 \in 1..Len(path) /\ j - 1 \in 1..Len(path)
              /\ path[i - 1] = path[j - 1]
          BY <1>3, <3>2, <4>2
        <5> QED BY <3>1, <5>1
      <4> QED BY <4>1, <4>2
    <3> QED BY <3>2
  <2>3. \A i \in 1..Len(path') : i < Len(path') => path'[i] \in Succ(cfg, path'[i + 1])
    <3>1. ASSUME NEW i \in 1..Len(path'), i < Len(path') PROVE path'[i] \in Succ(cfg, path'[i + 1])
      <4>1. i \in 1..Len(path) /\ path'[i + 1] = path[i]
        BY <1>3, <3>1
      <4>2. CASE i = 1
        BY <1>2, <1>3, <4>1, <4>2
      <4>3. CASE i # 1
        <5>1. i - 1 \in 1..Len(path) /\ path'[i] = path[i - 1] /\ i - 1 < Len(path) /\ (i - 1) + 1 = i
          BY <1>3, <3>1, <4>3
        <5>2. path[i - 1] \in Succ(cfg, path[(i - 1) + 1])
          BY <5>1 DEF Ordering, Descent
        <5> QED BY <4>1, <5>1, <5>2
      <4> QED BY <4>2, <4>3
    <3> QED BY <3>1
  <2>4. path'[Len(path')] = Entry
    <3>1. path[Len(path)] = Entry /\ Len(path) \in 1..Len(path) /\ Len(path') = Len(path) + 1
      BY <1>1, <1>3 DEF Ordering, Descent
    <3> QED BY <1>3, <3>1
  <2>5. ASSUME NEW i \in 1..Len(path'), NEW d, Dominates(cfg, d, path'[i])
        PROVE  \E j \in 1..Len(path') : i <= j /\ path'[j] = d
    <3>1. CASE i = 1 /\ d = c
      BY <1>3, <3>1
    <3>2. CASE i = 1 /\ d # c
      <4>1. Dominates(cfg, d, path[1])
        BY <1>1, <1>2, <1>3, <2>5, <3>2, DominatesBefore
      <4>2. PICK j \in 1..Len(path) : path[j] = d
        BY <1>1, <4>1 DEF Ordering, Descent
      <4> QED BY <1>3, <3>2, <4>2
    <3>3. CASE i # 1
      <4>1. i - 1 \in 1..Len(path) /\ path'[i] = path[i - 1]
        BY <1>3, <3>3
      <4>2. PICK j \in 1..Len(path) : i - 1 <= j /\ path[j] = d
        BY <2>5, <4>1 DEF Ordering, Descent
      <4>3. j + 1 \in 1..Len(path') /\ path'[j + 1] = d /\ i <= j + 1
        BY <1>3, <4>2
      <4> QED BY <4>3
    <3> QED BY <3>1, <3>2, <3>3
  <2>6. \E r \in [Nat -> Nat] : Ordered(cfg, r) /\ \A i, j \in 1..Len(path') : i < j => r[path'[j]] < r[path'[i]]
    <3>1. PICK r \in [Nat -> Nat] : /\ Ordered(cfg, r)
                                    /\ \A i, j \in 1..Len(path) : i < j => r[path[j]] < r[path[i]]
      BY DEF Ordering, Descent
    <3>2. ~Dominates(cfg, c, h)
      BY <1>1, <1>5 DEF Ordering, Descent
    <3>3. r[h] < r[c]
      BY <1>1, <1>2, <3>1, <3>2 DEF Ordered
    <3>4. \A i \in 1..Len(path) : path[i] \in Nat
      BY <1>0
    <3>5. \A j \in 1..Len(path) : r[path[j]] < r[c]
      <4>1. h \in Nat /\ c \in Nat
        BY <1>0, <1>1, <1>2
      <4>2. \A j \in 1..Len(path) : j = 1 \/ r[path[j]] < r[h]
        <5>1. \A j \in 1..Len(path) : j = 1 \/ 1 < j
          BY <1>1
        <5> QED BY <1>1, <3>1, <5>1
      <4>3. r[h] \in Nat /\ r[c] \in Nat /\ \A j \in 1..Len(path) : r[path[j]] \in Nat
        BY <3>4, <4>1
      <4>4. ASSUME NEW j \in 1..Len(path) PROVE r[path[j]] < r[c]
        <5>1. CASE j = 1
          BY <3>3, <5>1
        <5>2. CASE r[path[j]] < r[h]
          <6> DEFINE x == r[path[j]]
                     y == r[h]
                     z == r[c]
          <6>1. x \in Nat /\ y \in Nat /\ z \in Nat /\ x < y /\ y < z
            BY <3>3, <4>3, <5>2
          <6> HIDE DEF x, y, z
          <6>2. x < z
            BY <6>1
          <6> QED BY <6>2 DEF x, z
        <5> QED BY <4>2, <5>1, <5>2
      <4> QED BY <4>4
    <3>6. ASSUME NEW i \in 1..Len(path'), NEW j \in 1..Len(path'), i < j
          PROVE  r[path'[j]] < r[path'[i]]
      <4>1. j - 1 \in 1..Len(path) /\ path'[j] = path[j - 1]
        BY <1>3, <3>6
      <4>2. i = 1 \/ (i - 1 \in 1..Len(path) /\ path'[i] = path[i - 1] /\ i - 1 < j - 1)
        BY <1>3, <3>6
      <4> QED BY <1>3, <3>1, <3>5, <4>1, <4>2
    <3> QED BY <3>1, <3>6
  <2> QED BY <1>3, <2>1, <2>2, <2>3, <2>4, <2>5, <2>6 DEF Descent
<1>7. Numbers'
  <2>1. Numbers
    BY DEF Ordering
  <2> QED BY <1>3, <1>4, <2>1 DEF Numbers
<1>8. Blank'
  BY DEF Ordering, Blank, Dom!OrderDown
<1> QED BY <1>6, <1>7, <1>8 DEF Ordering
\* Going up, from a block all of whose successors have been visited.
LEMMA OrderUpKeeps ==
    ASSUME Linked(cfg), Ordering, Dom!OrderUp, cfg' = cfg
    PROVE  Ordering'
<1> DEFINE h == path[1]
           k == Cardinality(Numbered) + 1
<1>1. /\ Routed(cfg) /\ path \in Seq(Reachable(cfg)) /\ path # <<>> /\ Head(path) = h
      /\ 1 \in 1..Len(path) /\ Len(path) \in Nat
  BY PathShrinks DEF Linked, Ordering, Descent, Dom!OrderUp
<1>2. /\ Reachable(cfg) \subseteq Blocks(cfg) /\ Blocks(cfg) \subseteq Nat /\ cfg.n \in Nat
      /\ \A i \in 1..Len(path) : path[i] \in Reachable(cfg)
      /\ h \in Reachable(cfg) /\ h \in Blocks(cfg) /\ h \in Nat
  BY <1>1, LiveLeast DEF Blocks, Routed
<1>3. /\ path' \in Seq(Reachable(cfg)) /\ Len(path') = Len(path) - 1
      /\ \A i \in 1..Len(path') : i + 1 \in 1..Len(path) /\ path'[i] = path[i + 1]
      /\ \A i \in 1..Len(path) : i = 1 \/ (i - 1 \in 1..Len(path') /\ path'[i - 1] = path[i])
      /\ Members(path) = Members(path') \cup {h}
  <2>1. path' = Tail(path)
    BY DEF Dom!OrderUp
  <2> QED BY <1>1, <2>1, PathShrinks
<1>4. Numbers
  BY DEF Ordering
<1>5. /\ \A i \in 1..Len(path) : post[path[i]] = Dom!None
      /\ \A i, j \in 1..Len(path) : path[i] = path[j] => i = j
      /\ \A i \in 1..Len(path) : i < Len(path) => path[i] \in Succ(cfg, path[i + 1])
      /\ path[Len(path)] = Entry
      /\ \A i \in 1..Len(path) : \A d : Dominates(cfg, d, path[i]) =>
            \E j \in 1..Len(path) : i <= j /\ path[j] = d
  BY <1>1 DEF Ordering, Descent
<1>6. /\ post' = [post EXCEPT ![h] = k]
      /\ post \in [Blocks(cfg) -> 0..cfg.n]
  <2>1. Dom!Blocks(cfg) = Blocks(cfg)
    BY SameGraph
  <2>2. {b \in Dom!Blocks(cfg) : post[b] # Dom!None} = Numbered
    BY <2>1 DEF Numbered
  <2>3. post' = [post EXCEPT ![Head(path)] = Cardinality({b \in Dom!Blocks(cfg) : post[b] # Dom!None}) + 1]
    BY SameCardinality DEF Dom!OrderUp
  <2> QED BY <1>1, <1>4, <2>2, <2>3 DEF Numbers
<1>7. \A c \in Succ(cfg, h) : c \in Numbered \cup Members(path)
  <2>1. ASSUME NEW c \in Succ(cfg, h), c \notin Numbered \cup Members(path) PROVE FALSE
    <3>1. PICK i \in DOMAIN cfg.succs[h] : cfg.succs[h][i] = c
      BY <1>2, <2>1 DEF Linked, Members
    <3>2. i \in Dom!Unvisited(h)
      BY <1>1, <2>1, <3>1, SameGraph DEF Dom!Unvisited, Dom!Visited, Numbered
    <3> QED BY <1>1, <3>2 DEF Dom!OrderUp
  <2> QED BY <2>1
<1>8. h \notin Numbered
  BY <1>1, <1>5 DEF Numbered
<1>9. /\ Cardinality(Numbered) \in Nat /\ k \in Nat /\ k \in 1..cfg.n /\ k # Dom!None
      /\ Numbered' = Numbered \cup {h} /\ Cardinality(Numbered') = k
  <2>1. IsFiniteSet(Blocks(cfg)) /\ Cardinality(Blocks(cfg)) = cfg.n
    <3>1. Cardinality(1..cfg.n) = cfg.n /\ IsFiniteSet(1..cfg.n)
      <4>1. 1 \in Int /\ cfg.n \in Int /\ IsFiniteSet(1..cfg.n)
        BY <1>2, FS_Interval
      <4>2. Cardinality(1..cfg.n) = IF 1 > cfg.n THEN 0 ELSE cfg.n - 1 + 1
        BY <4>1, FS_Interval
      <4> QED BY <1>2, <4>1, <4>2
    <3> QED BY <3>1 DEF Blocks
  <2>2. Numbered \cup {h} \subseteq Blocks(cfg)
    BY <1>2 DEF Numbered
  <2>3. IsFiniteSet(Numbered) /\ Cardinality(Numbered) \in Nat
    BY <2>1, <2>2, FS_Subset, FS_CardinalityType
  <2>4. Cardinality(Numbered \cup {h}) = k
    BY <1>8, <2>3, FS_AddElement
  <2>5. k <= cfg.n
    BY <2>1, <2>2, <2>4, FS_Subset
  <2>6. k \in Nat /\ k \in 1..cfg.n /\ k # Dom!None
    BY <1>2, <2>3, <2>5, SameGraph
  <2> HIDE DEF k
  <2>7. \A b \in Blocks(cfg) : post'[b] = IF b = h THEN k ELSE post[b]
    BY <1>6
  <2>8. Numbered' = Numbered \cup {h}
    BY <1>2, <2>6, <2>7 DEF Numbered
  <2> QED BY <2>3, <2>4, <2>6, <2>8
<1>10. /\ post' \in [Blocks(cfg) -> 0..cfg.n] /\ post'[h] = k
       /\ \A b : b # h => post'[b] = post[b]
  <2> HIDE DEF k, h
  <2> QED BY <1>2, <1>6, <1>9
<1> HIDE DEF k
<1>11. Descent'
  <2>1. \A i \in 1..Len(path') : post'[path'[i]] = Dom!None
    <3>1. ASSUME NEW i \in 1..Len(path') PROVE post'[path'[i]] = Dom!None
      <4>1. i + 1 \in 1..Len(path) /\ path'[i] = path[i + 1] /\ i + 1 # 1
        BY <1>3
      <4>2. path[i + 1] # h
        BY <1>1, <1>5, <4>1
      <4> QED BY <1>5, <1>10, <4>1, <4>2
    <3> QED BY <3>1
  <2>2. \A i, j \in 1..Len(path') : path'[i] = path'[j] => i = j
    <3>1. ASSUME NEW i \in 1..Len(path'), NEW j \in 1..Len(path'), path'[i] = path'[j] PROVE i = j
      <4>1. i + 1 = j + 1
        BY <1>3, <1>5, <3>1
      <4> QED BY <1>1, <1>3, <4>1
    <3> QED BY <3>1
  <2>3. ASSUME NEW i \in 1..Len(path'), i < Len(path') PROVE path'[i] \in Succ(cfg, path'[i + 1])
    <3>1. i + 1 \in 1..Len(path) /\ i + 1 < Len(path) /\ path'[i] = path[i + 1]
      BY <1>1, <1>3, <2>3
    <3>2. path'[i + 1] = path[(i + 1) + 1]
      <4>1. i + 1 \in 1..Len(path')
        BY <1>1, <1>3, <2>3
      <4> QED BY <1>3, <4>1
    <3> QED BY <1>5, <3>1, <3>2
  <2>4. path' # <<>> => path'[Len(path')] = Entry
    <3>1. SUFFICES ASSUME path' # <<>> PROVE path'[Len(path')] = Entry
      OBVIOUS
    <3>2. Len(path') \in 1..Len(path') /\ Len(path') + 1 = Len(path)
      BY <1>1, <1>3, <3>1, EmptySeq
    <3> QED BY <1>3, <1>5, <3>2
  <2>5. ASSUME NEW i \in 1..Len(path'), NEW d, Dominates(cfg, d, path'[i])
        PROVE  \E j \in 1..Len(path') : i <= j /\ path'[j] = d
    <3>1. i + 1 \in 1..Len(path) /\ path'[i] = path[i + 1]
      BY <1>3
    <3>2. PICK j \in 1..Len(path) : i + 1 <= j /\ path[j] = d
      BY <1>5, <2>5, <3>1
    <3>3. j - 1 \in 1..Len(path') /\ path'[j - 1] = d /\ i <= j - 1
      BY <1>3, <3>1, <3>2
    <3> QED BY <3>3
  <2>6. \E r \in [Nat -> Nat] : Ordered(cfg, r) /\ \A i, j \in 1..Len(path') : i < j => r[path'[j]] < r[path'[i]]
    <3>1. PICK r \in [Nat -> Nat] : /\ Ordered(cfg, r)
                                    /\ \A i, j \in 1..Len(path) : i < j => r[path[j]] < r[path[i]]
      BY DEF Ordering, Descent
    <3>2. ASSUME NEW i \in 1..Len(path'), NEW j \in 1..Len(path'), i < j
          PROVE  r[path'[j]] < r[path'[i]]
      <4>1. /\ i + 1 \in 1..Len(path) /\ j + 1 \in 1..Len(path) /\ i + 1 < j + 1
            /\ path'[i] = path[i + 1] /\ path'[j] = path[j + 1]
        <5>1. i + 1 \in 1..Len(path) /\ j + 1 \in 1..Len(path) /\ path'[i] = path[i + 1] /\ path'[j] = path[j + 1]
          BY <1>3
        <5>2. i + 1 < j + 1
          BY <3>2
        <5> QED BY <5>1, <5>2
      <4> QED BY <3>1, <4>1
    <3> QED BY <3>1, <3>2
  <2> QED BY <1>3, <2>1, <2>2, <2>3, <2>4, <2>5, <2>6 DEF Descent
<1>12. \A b \in Numbered : post'[b] = post[b] /\ b # h /\ post[b] \in Nat /\ post[b] < k
  <2>1. ASSUME NEW b \in Numbered PROVE post[b] \in Nat /\ post[b] < k
    <3>1. post[b] \in Nat /\ post[b] <= Cardinality(Numbered)
      BY <1>4 DEF Numbers, Numbered
    <3> QED BY <1>9, <3>1 DEF k
  <2> QED BY <1>8, <1>10, <2>1
<1>13. ASSUME NEW c \in Members(path), c \in Succ(cfg, h) PROVE Dominates(cfg, c, h)
  <2>1. PICK j \in 1..Len(path) : c = path[j]
    BY <1>1, <1>13 DEF Members
  <2>2. PICK r \in [Nat -> Nat] : /\ Ordered(cfg, r)
                                  /\ \A i, m \in 1..Len(path) : i < m => r[path[m]] < r[path[i]]
    BY DEF Ordering, Descent
  <2>3. c \in Nat /\ r[c] \in Nat /\ r[h] \in Nat
    BY <1>2, <2>1
  <2>4. j = 1 \/ r[c] < r[h]
    BY <1>1, <2>1, <2>2
  <2>5. ~(r[h] < r[c])
    <3>1. j = 1 => c = h
      BY <2>1
    <3> DEFINE x == r[c]
               y == r[h]
    <3>2. x \in Nat /\ y \in Nat /\ (x = y \/ x < y)
      BY <2>3, <2>4, <3>1
    <3> HIDE DEF x, y
    <3>3. ~(y < x)
      BY <3>2
    <3> QED BY <3>3 DEF x, y
  <2> QED BY <1>2, <1>13, <2>2, <2>5 DEF Ordered
<1>14. Numbers'
  <2>1. Numbered' \subseteq Reachable(cfg)
    BY <1>2, <1>4, <1>9 DEF Numbers
  <2>2. \A b \in Numbered' : post'[b] <= Cardinality(Numbered')
    BY <1>9, <1>10, <1>12
  <2>3. \A b, c \in Numbered' : post'[b] = post'[c] => b = c
    <3>1. \A b, c \in Numbered : post[b] = post[c] => b = c
      BY <1>4 DEF Numbers
    <3> QED BY <1>9, <1>10, <1>12, <3>1
  <2>4. Entry \in Numbered' \cup Members(path')
    BY <1>3, <1>4, <1>9 DEF Numbers
  <2>5. ASSUME NEW b \in Numbered', NEW c \in Succ(cfg, b)
        PROVE  \/ c \in Numbered' /\ post'[c] < post'[b]
               \/ c \in Numbered' \cup Members(path') /\ Dominates(cfg, c, b)
    <3>1. CASE b = h /\ c \in Numbered
      BY <1>9, <1>10, <1>12, <3>1
    <3>2. CASE b = h /\ c \notin Numbered
      BY <1>3, <1>7, <1>9, <1>13, <2>5, <3>2
    <3>3. CASE b \in Numbered
      <4>1. \/ c \in Numbered /\ post[c] < post[b]
            \/ c \in Numbered \cup Members(path) /\ Dominates(cfg, c, b)
        BY <1>4, <2>5, <3>3 DEF Numbers
      <4> QED BY <1>3, <1>9, <1>12, <3>3, <4>1
    <3> QED BY <1>9, <3>1, <3>2, <3>3
  <2>6. ASSUME NEW b \in Numbered' \ {Entry}
        PROVE  \E p \in Blocks(cfg) : b \in Succ(cfg, p) /\ (p \in Members(path') \/ (p \in Numbered' /\ post'[b] < post'[p]))
    <3>1. CASE b = h
      <4>1. 1 < Len(path)
        BY <1>1, <1>5, <2>6, <3>1
      <4>2. h \in Succ(cfg, path[2]) /\ 2 \in 1..Len(path)
        BY <1>1, <1>5, <4>1
      <4>3. path[2] \in Members(path') /\ path[2] \in Blocks(cfg)
        <5>1. 1 \in 1..Len(path') /\ path'[1] = path[2]
          BY <1>1, <1>3, <4>1
        <5> QED BY <1>2, <1>3, <4>2, <5>1 DEF Members
      <4> QED BY <3>1, <4>2, <4>3
    <3>2. CASE b \in Numbered
      <4>1. PICK p \in Blocks(cfg) : b \in Succ(cfg, p) /\ (p \in Members(path) \/ (p \in Numbered /\ post[b] < post[p]))
        BY <1>4, <2>6, <3>2 DEF Numbers
      <4> QED BY <1>3, <1>9, <1>10, <1>12, <3>2, <4>1
    <3> QED BY <1>9, <2>6, <3>1, <3>2
  <2> QED BY <1>10, <2>1, <2>2, <2>3, <2>4, <2>5, <2>6 DEF Numbers
<1>15. Blank'
  BY DEF Ordering, Blank, Dom!OrderUp
<1> QED BY <1>11, <1>14, <1>15 DEF Ordering

\* When the walk is back, the numbers are a post order.
LEMMA OrderFound ==
    ASSUME Linked(cfg), Ordering, path = <<>>
    PROVE  PostOrder(cfg, post)
<1>1. /\ Routed(cfg) /\ Members(path) = {}
  BY DEF Linked, Members
<1>2. Numbers
  BY DEF Ordering
<1>3. Reachable(cfg) \subseteq Numbered
  <2>1. Entry \in Numbered
    BY <1>1, <1>2 DEF Numbers
  <2>2. \A b \in Numbered : Succ(cfg, b) \subseteq Numbered
    BY <1>1, <1>2 DEF Numbers
  <2> QED BY <1>1, <2>1, <2>2, LiveLeast
<1>4. Reachable(cfg) = Numbered
  BY <1>2, <1>3 DEF Numbers
<1>5. \A b \in Blocks(cfg) : post[b] # Dom!None <=> b \in Reachable(cfg)
  BY <1>4 DEF Numbered
<1>6. \A b \in Reachable(cfg) \ {Entry} : \E p \in Reachable(cfg) : b \in Succ(cfg, p) /\ post[b] < post[p]
  BY <1>1, <1>2, <1>4 DEF Numbers
<1>7. \A p \in Reachable(cfg) : \A b \in Succ(cfg, p) : post[b] < post[p] \/ Dominates(cfg, b, p)
  BY <1>2, <1>4 DEF Numbers
<1> QED BY <1>2, <1>4, <1>5, <1>6, <1>7 DEF Numbers, PostOrder
-----------------------------------------------------------------------------
(* Dominators::intersect.                                                  *)

\* The blocks that are in the tree d.
InTree(g, d) == {b \in Blocks(g) : d[b] # Dom!None}

\* What create_idom has at every moment: a tree that climbs in post order, in
\* which every block has come behind one that branches to it, and in which no
\* block is hung above what dominates it.
Climbing(g, ps, d) ==
    /\ d \in [Blocks(g) -> Blocks(g) \cup {Dom!None}]
    /\ d[Entry] = Entry
    /\ \A b \in InTree(g, d) : b \in Reachable(g) /\ d[b] \in InTree(g, d)
    /\ \A b \in InTree(g, d) \ {Entry} :
          /\ ps[b] < ps[d[b]]
          /\ \A a : Dominates(g, a, b) /\ a # b => Dominates(g, a, d[b])
          /\ \E p \in InTree(g, d) : b \in Succ(g, p) /\ ps[b] < ps[p]

\* The blocks on the way from b to the root.
Chain(g, d, b) ==
    {x \in Blocks(g) : \A C \in SUBSET Blocks(g) :
        b \in C /\ (\A y \in C \cap InTree(g, d) : d[y] \in C) => x \in C}

LEMMA ChainLeast ==
    ASSUME NEW g, NEW ps, NEW d, Climbing(g, ps, d), NEW b \in InTree(g, d)
    PROVE  /\ b \in Chain(g, d, b) /\ Chain(g, d, b) \subseteq InTree(g, d)
           /\ \A x \in Chain(g, d, b) : d[x] \in Chain(g, d, b)
           /\ \A C : b \in C /\ (\A y \in C \cap InTree(g, d) : d[y] \in C)
                  => Chain(g, d, b) \subseteq C
<1> DEFINE K == InTree(g, d)
           H == Chain(g, d, b)
<1>1. K \subseteq Blocks(g) /\ b \in K /\ \A y \in K : d[y] \in K
  BY DEF Climbing, InTree
<1>2. b \in H /\ H \subseteq Blocks(g)
  BY <1>1 DEF Chain
<1>3. ASSUME NEW C, b \in C, \A y \in C \cap K : d[y] \in C PROVE H \subseteq C
  <2>1. C \cap K \in SUBSET Blocks(g) /\ b \in C \cap K /\ \A y \in (C \cap K) \cap K : d[y] \in C \cap K
    BY <1>1, <1>3
  <2> QED BY <2>1 DEF Chain
<1>4. H \subseteq K
  BY <1>1, <1>3
<1>5. ASSUME NEW x \in H PROVE d[x] \in H
  <2>1. d[x] \in Blocks(g) /\ x \in K
    BY <1>1, <1>4, <1>5
  <2> QED BY <1>5, <2>1 DEF Chain
<1> QED BY <1>2, <1>3, <1>4, <1>5

\* A chain is its first block and the chain of the next; it has all that
\* dominates the block, and climbs.
LEMMA ChainNext ==
    ASSUME NEW g, Routed(g), NEW ps, PostOrder(g, ps), NEW d, Climbing(g, ps, d), NEW b \in InTree(g, d)
    PROVE  /\ \A x \in Chain(g, d, b) : x = b \/ x \in Chain(g, d, d[b])
           /\ \A x \in Chain(g, d, b) : Chain(g, d, x) \subseteq Chain(g, d, b)
           /\ \A x \in Chain(g, d, b) : ps[b] <= ps[x]
           /\ \A a : Dominates(g, a, b) => a \in Chain(g, d, b)
           /\ Chain(g, d, Entry) = {Entry}
<1> DEFINE K == InTree(g, d)
           H(x) == Chain(g, d, x)
<1>1. /\ \A y \in K : d[y] \in K /\ y \in Reachable(g) /\ y \in Blocks(g)
      /\ d[Entry] = Entry /\ Entry \in K /\ b \in K /\ g.n \in Nat
      /\ Reachable(g) \subseteq Blocks(g)
  <2>1. Entry \in Blocks(g) /\ Entry # Dom!None
    BY SameGraph DEF Entry, Routed
  <2> QED BY <2>1, LiveLeast DEF Climbing, InTree, Routed
<1>2. \A x \in K : x \in H(x) /\ H(x) \subseteq K /\ \A y \in H(x) : d[y] \in H(x)
  BY ChainLeast
<1>3. \A x \in K : \A C : x \in C /\ (\A y \in C \cap K : d[y] \in C) => H(x) \subseteq C
  BY ChainLeast
<1>4. \A y \in K : ps[y] \in 0..g.n /\ ps[d[y]] \in 0..g.n /\ ps[y] <= ps[d[y]]
  <2>1. \A y \in K : ps[y] \in 0..g.n
    BY <1>1 DEF PostOrder
  <2>2. \A y \in K \ {Entry} : ps[y] < ps[d[y]]
    BY DEF Climbing
  <2> QED BY <1>1, <2>1, <2>2
<1> HIDE DEF H
<1>5. H(b) \subseteq {b} \cup H(d[b])
  <2> DEFINE C == {b} \cup H(d[b])
  <2>1. d[b] \in K /\ b \in C /\ \A y \in C \cap K : d[y] \in C
    BY <1>1, <1>2
  <2> HIDE DEF C
  <2>2. H(b) \subseteq C
    BY <1>1, <1>3, <2>1
  <2> QED BY <2>2 DEF C
<1>6. ASSUME NEW x \in H(b) PROVE H(x) \subseteq H(b)
  <2>1. x \in K /\ \A y \in H(b) \cap K : d[y] \in H(b)
    BY <1>1, <1>2
  <2> QED BY <1>3, <1>6, <2>1
<1>7. H(b) \subseteq {x \in K : ps[b] <= ps[x]}
  <2>1. \A y \in {x \in K : ps[b] <= ps[x]} \cap K : d[y] \in {x \in K : ps[b] <= ps[x]}
    BY <1>1, <1>4
  <2>2. b \in {x \in K : ps[b] <= ps[x]}
    BY <1>1, <1>4
  <2> QED BY <1>1, <1>3, <2>1, <2>2
<1>8. ASSUME NEW a, Dominates(g, a, b), a \notin H(b) PROVE FALSE
  <2> DEFINE S == H(b)
             rank == [x \in S |-> g.n - ps[x]]
             T == {x \in S : ~Dominates(g, a, x)}
  <2>1. S \subseteq K /\ \A x \in S : ps[x] \in 0..g.n
    BY <1>1, <1>2, <1>4
  <2>2. rank \in [S -> Nat]
    BY <1>1, <2>1
  <2>3. ASSUME NEW x \in S, \A t \in S : rank[t] < rank[x] => t \in T
        PROVE  x \in T
    <3>1. SUFFICES ASSUME Dominates(g, a, x) PROVE FALSE
      OBVIOUS
    <3>2. x # a /\ x \in K
      BY <1>8, <2>1
    <3>3. x # Entry
      BY <1>1, <3>1, <3>2, EntryDominates, DominatesAntisymmetric, DominatesIs
    <3>4. d[x] \in S /\ Dominates(g, a, d[x]) /\ ps[x] < ps[d[x]]
      BY <1>1, <1>2, <3>1, <3>2, <3>3 DEF Climbing
    <3>5. rank[d[x]] < rank[x]
      <4>1. ps[x] \in 0..g.n /\ ps[d[x]] \in 0..g.n
        BY <1>4, <3>2
      <4> QED BY <1>1, <3>4, <4>1
    <3> QED BY <2>3, <3>4, <3>5
  <2> HIDE DEF rank
  <2>4. S \subseteq T
    <3> HIDE DEF S, T
    <3> QED BY <2>2, <2>3, ByMeasure
  <2> QED BY <1>1, <1>2, <1>8, <2>4
<1>9. H(Entry) = {Entry}
  <2>1. \A y \in {Entry} \cap K : d[y] \in {Entry}
    BY <1>1
  <2> QED BY <1>1, <1>2, <1>3, <2>1
<1> QED BY <1>5, <1>6, <1>7, <1>8, <1>9 DEF H

\* Of two blocks of the tree the one that is lower has a place above it.
LEMMA LowerClimbs ==
    ASSUME NEW g, Routed(g), NEW ps, PostOrder(g, ps), NEW d, Climbing(g, ps, d),
           NEW a \in InTree(g, d), NEW b \in InTree(g, d), a # b
    PROVE  /\ ps[a] \in 0..g.n /\ ps[b] \in 0..g.n /\ g.n \in Nat
           /\ ps[a] < ps[b] => a # Entry
           /\ ~(ps[a] < ps[b]) => ps[b] < ps[a] /\ b # Entry
<1>1. /\ a \in Reachable(g) /\ b \in Reachable(g) /\ a \in Blocks(g) /\ b \in Blocks(g) /\ g.n \in Nat
  BY DEF Climbing, InTree, Routed
<1>2. ps[a] \in 0..g.n /\ ps[b] \in 0..g.n /\ ps[a] # ps[b]
  BY <1>1 DEF PostOrder
<1>3. ps[a] <= ps[Entry] /\ ps[b] <= ps[Entry]
  BY <1>1, EntryDominates, DominatorsHigher
<1>4. ~(ps[a] < ps[b]) => ps[b] < ps[a]
  BY <1>2
<1>5. ps[a] < ps[b] => a # Entry
  BY <1>2, <1>3
<1>6. ps[b] < ps[a] => b # Entry
  BY <1>2, <1>3
<1> QED BY <1>1, <1>2, <1>4, <1>5, <1>6
\* The fingers meet in a block above both, below all that dominates both.
LEMMA Meeting ==
    ASSUME Routed(cfg), PostOrder(cfg, post), Climbing(cfg, post, idom),
           NEW a \in InTree(cfg, idom), NEW b \in InTree(cfg, idom)
    PROVE  LET m == Dom!Intersect(a, b)
           IN  /\ m \in InTree(cfg, idom)
               /\ m \in Chain(cfg, idom, a) /\ m \in Chain(cfg, idom, b)
               /\ \A d : Dominates(cfg, d, a) /\ Dominates(cfg, d, b) => Dominates(cfg, d, m)
<1> DEFINE K == InTree(cfg, idom)
           S == K \X K
           Lower(e) == post[e[1]] < post[e[2]]
           next == [e \in S |-> IF e[1] = e[2] THEN e
                                ELSE IF Lower(e) THEN <<idom[e[1]], e[2]>> ELSE <<e[1], idom[e[2]]>>]
           stop == {e \in S : e[1] = e[2]}
           rank == [e \in S |-> (cfg.n - post[e[1]]) + (cfg.n - post[e[2]])]
           first == [e \in S |-> e[1]]
           step == [x \in S \X K |-> x[2]]
           Solves(f) == f = [e \in S |-> IF e[1] = e[2] THEN e[1]
                                         ELSE IF Lower(e) THEN f[<<idom[e[1]], e[2]>>]
                                         ELSE f[<<e[1], idom[e[2]]>>]]
           meet == CHOOSE f : Solves(f)
<1>1. /\ \A x \in K : idom[x] \in K /\ x \in Reachable(cfg)
      /\ \A x \in K : x # Entry => post[x] < post[idom[x]]
  BY DEF Climbing
<1>2. \A e \in S : e[1] \in K /\ e[2] \in K /\ e = <<e[1], e[2]>>
  OBVIOUS
<1>3. ASSUME NEW e \in S, e[1] # e[2]
      PROVE  /\ post[e[1]] \in 0..cfg.n /\ post[e[2]] \in 0..cfg.n /\ cfg.n \in Nat
             /\ Lower(e) => e[1] # Entry
             /\ ~Lower(e) => post[e[2]] < post[e[1]] /\ e[2] # Entry
  <2> DEFINE u == e[1]
             w == e[2]
  <2>1. u \in K /\ w \in K /\ u # w
    BY <1>2, <1>3
  <2>2. /\ post[u] \in 0..cfg.n /\ post[w] \in 0..cfg.n /\ cfg.n \in Nat
        /\ post[u] < post[w] => u # Entry
        /\ ~(post[u] < post[w]) => post[w] < post[u] /\ w # Entry
    <3> HIDE DEF u, w
    <3> QED BY <2>1, LowerClimbs
  <2> QED BY <2>2
<1>4. \A x \in K : post[x] \in 0..cfg.n
  BY <1>1, LiveLeast DEF PostOrder
<1>5. cfg.n \in Nat
  BY DEF Routed
<1>6. next \in [S -> S]
  BY <1>1, <1>2
<1>7. rank \in [S -> Nat] /\ \A e \in S : rank[e] < 2 * cfg.n + 1
  <2>1. \A e \in S : /\ (cfg.n - post[e[1]]) + (cfg.n - post[e[2]]) \in Nat
                     /\ (cfg.n - post[e[1]]) + (cfg.n - post[e[2]]) < 2 * cfg.n + 1
    <3>1. ASSUME NEW e \in S
          PROVE  /\ (cfg.n - post[e[1]]) + (cfg.n - post[e[2]]) \in Nat
                 /\ (cfg.n - post[e[1]]) + (cfg.n - post[e[2]]) < 2 * cfg.n + 1
      <4>1. post[e[1]] \in 0..cfg.n /\ post[e[2]] \in 0..cfg.n
        BY <1>2, <1>4
      <4> QED BY <1>5, <4>1
    <3> QED BY <3>1
  <2> QED BY <2>1
<1>8. ASSUME NEW e \in S \ stop PROVE rank[next[e]] < rank[e]
  <2>1. e \in S /\ e[1] # e[2] /\ e[1] \in K /\ e[2] \in K /\ next[e] \in S
    BY <1>2, <1>6, <1>8
  <2>2. CASE Lower(e)
    <3>1. next[e] = <<idom[e[1]], e[2]>>
      BY <2>1, <2>2
    <3>2. next[e][1] = idom[e[1]] /\ next[e][2] = e[2]
      BY <3>1
    <3>3. post[e[1]] < post[idom[e[1]]]
      BY <1>1, <1>3, <2>1, <2>2
    <3>4. post[e[1]] \in 0..cfg.n /\ post[e[2]] \in 0..cfg.n /\ post[idom[e[1]]] \in 0..cfg.n
      BY <1>1, <1>4, <2>1
    <3>5. rank[next[e]] = (cfg.n - post[idom[e[1]]]) + (cfg.n - post[e[2]])
      BY <2>1, <3>2
    <3>6. rank[e] = (cfg.n - post[e[1]]) + (cfg.n - post[e[2]])
      BY <2>1
    <3> HIDE DEF rank, next
    <3> QED BY <1>5, <3>3, <3>4, <3>5, <3>6
  <2>3. CASE ~Lower(e)
    <3>1. next[e] = <<e[1], idom[e[2]]>>
      BY <2>1, <2>3
    <3>2. next[e][1] = e[1] /\ next[e][2] = idom[e[2]]
      BY <3>1
    <3>3. post[e[2]] < post[idom[e[2]]]
      BY <1>1, <1>3, <2>1, <2>3
    <3>4. post[e[1]] \in 0..cfg.n /\ post[e[2]] \in 0..cfg.n /\ post[idom[e[2]]] \in 0..cfg.n
      BY <1>1, <1>4, <2>1
    <3>5. rank[next[e]] = (cfg.n - post[e[1]]) + (cfg.n - post[idom[e[2]]])
      BY <2>1, <3>2
    <3>6. rank[e] = (cfg.n - post[e[1]]) + (cfg.n - post[e[2]])
      BY <2>1
    <3> HIDE DEF rank, next
    <3> QED BY <1>5, <3>3, <3>4, <3>5, <3>6
  <2> QED BY <2>2, <2>3
<1>9. \E f : Solves(f)
  <2>1. PICK f \in [S -> K] : Recurs(f, S, stop, first, next, step)
    <3>1. first \in [S -> K] /\ step \in [S \X K -> K] /\ a \in K /\ 2 * cfg.n + 1 \in Nat
      BY <1>2, <1>5
    <3> DEFINE N == 2 * cfg.n + 1
    <3>2. N \in Nat /\ \A e \in S : rank[e] < N
      BY <1>7, <3>1
    <3>3. rank \in [S -> Nat] /\ next \in [S -> S] /\ \A e \in S \ stop : rank[next[e]] < rank[e]
      BY <1>6, <1>7, <1>8
    <3> HIDE DEF S, K, rank, next, stop, first, step, N
    <3>4. Falls(S, rank, N, stop, next)
      BY <3>2, <3>3 DEF Falls
    <3> QED BY <3>1, <3>4, Recursion
  <2>2. ASSUME NEW e \in S
        PROVE  f[e] = IF e[1] = e[2] THEN e[1]
                      ELSE IF Lower(e) THEN f[<<idom[e[1]], e[2]>>]
                      ELSE f[<<e[1], idom[e[2]]>>]
    <3>1. f[next[e]] \in K
      BY <1>6
    <3>2. step[<<e, f[next[e]]>>] = f[next[e]]
      <4> HIDE DEF S, K, next
      <4> QED BY <3>1
    <3>3. f[e] = IF e[1] = e[2] THEN e[1] ELSE f[next[e]]
      BY <2>1, <3>2 DEF Recurs
    <3> HIDE DEF step, Lower
    <3> QED BY <3>3
  <2>3. f = [e \in S |-> f[e]]
    OBVIOUS
  <2> HIDE DEF S
  <2>4. Solves(f)
    BY <2>2, <2>3
  <2> QED BY <2>4
<1>10. Solves(meet)
  BY <1>9
<1>11. Dom!Intersect(a, b) = meet[<<a, b>>]
  <2>1. Dom!Known = K
    BY SameGraph DEF Dom!Known, InTree
  <2> QED BY <2>1 DEF Dom!Intersect
<1>12. \A e \in S : meet[e] = IF e[1] = e[2] THEN e[1] ELSE meet[next[e]]
  <2>1. ASSUME NEW e \in S PROVE meet[e] = IF e[1] = e[2] THEN e[1] ELSE meet[next[e]]
    <3>1. meet[e] = IF e[1] = e[2] THEN e[1]
                      ELSE IF Lower(e) THEN meet[<<idom[e[1]], e[2]>>]
                      ELSE meet[<<e[1], idom[e[2]]>>]
      <4> HIDE DEF meet, Lower, S
      <4> QED BY <1>10
    <3> HIDE DEF meet, Lower
    <3> QED BY <3>1
  <2> QED BY <2>1
<1> HIDE DEF meet
<1> DEFINE Right(e) ==
      LET m == meet[e]
      IN  /\ m \in K
          /\ m \in Chain(cfg, idom, e[1]) /\ m \in Chain(cfg, idom, e[2])
          /\ \A d : Dominates(cfg, d, e[1]) /\ Dominates(cfg, d, e[2]) => Dominates(cfg, d, m)
<1>13. ASSUME NEW e \in S, \A t \in S : rank[t] < rank[e] => Right(t)
       PROVE  Right(e)
  <2>1. CASE e[1] = e[2]
    <3>1. meet[e] = e[1] /\ e[1] \in K
      BY <1>2, <1>12, <2>1
    <3>2. e[1] \in Chain(cfg, idom, e[1])
      BY <3>1, ChainLeast
    <3> HIDE DEF K
    <3> QED BY <2>1, <3>1, <3>2
  <2>2. CASE e[1] # e[2]
    <3>1. /\ meet[e] = meet[next[e]] /\ next[e] \in S /\ rank[next[e]] < rank[e]
          /\ e[1] \in K /\ e[2] \in K
      <4>1. meet[e] = meet[next[e]]
        BY <1>12, <2>2
      <4>2. e \in S \ stop /\ e[1] \in K /\ e[2] \in K
        BY <1>2, <2>2
      <4> HIDE DEF S, K, rank, next, stop
      <4> QED BY <1>6, <1>8, <4>1, <4>2
    <3>2. Right(next[e])
      BY <1>13, <3>1
    <3>3. CASE Lower(e)
      <4>1. next[e][1] = idom[e[1]] /\ next[e][2] = e[2]
        BY <2>2, <3>3
      <4>2. \A d : Dominates(cfg, d, e[1]) /\ Dominates(cfg, d, e[2]) => Dominates(cfg, d, idom[e[1]])
        <5>1. ASSUME NEW d, Dominates(cfg, d, e[1]), Dominates(cfg, d, e[2]) PROVE Dominates(cfg, d, idom[e[1]])
          <6>1. post[e[2]] <= post[d] /\ d \in Reachable(cfg)
            BY <5>1, DominatorsHigher, DominatesIs
          <6>2. d # e[1]
            <7>1. post[e[1]] \in 0..cfg.n /\ post[e[2]] \in 0..cfg.n
              BY <1>4, <3>1
            <7> QED BY <3>3, <6>1, <7>1
          <6> QED BY <1>3, <2>2, <3>1, <3>3, <5>1, <6>2 DEF Climbing
        <5> QED BY <5>1
      <4>3. Chain(cfg, idom, idom[e[1]]) \subseteq Chain(cfg, idom, e[1])
        <5>1. idom[e[1]] \in Chain(cfg, idom, e[1])
          BY <3>1, ChainLeast
        <5> QED BY <3>1, <5>1, ChainNext
      <4> HIDE DEF K, S, next, rank
      <4> QED BY <3>1, <3>2, <4>1, <4>2, <4>3
    <3>4. CASE ~Lower(e)
      <4>1. next[e][1] = e[1] /\ next[e][2] = idom[e[2]]
        BY <2>2, <3>4
      <4>2. \A d : Dominates(cfg, d, e[1]) /\ Dominates(cfg, d, e[2]) => Dominates(cfg, d, idom[e[2]])
        <5>1. ASSUME NEW d, Dominates(cfg, d, e[1]), Dominates(cfg, d, e[2]) PROVE Dominates(cfg, d, idom[e[2]])
          <6>1. post[e[1]] <= post[d] /\ d \in Reachable(cfg)
            BY <5>1, DominatorsHigher, DominatesIs
          <6>2. d # e[2]
            <7>1. post[e[1]] \in 0..cfg.n /\ post[e[2]] \in 0..cfg.n /\ post[e[2]] < post[e[1]]
              BY <1>3, <2>2, <3>4
            <7> QED BY <6>1, <7>1
          <6> QED BY <1>3, <2>2, <3>1, <3>4, <5>1, <6>2 DEF Climbing
        <5> QED BY <5>1
      <4>3. Chain(cfg, idom, idom[e[2]]) \subseteq Chain(cfg, idom, e[2])
        <5>1. idom[e[2]] \in Chain(cfg, idom, e[2])
          BY <3>1, ChainLeast
        <5> QED BY <3>1, <5>1, ChainNext
      <4> HIDE DEF K, S, next, rank
      <4> QED BY <3>1, <3>2, <4>1, <4>2, <4>3
    <3> QED BY <3>3, <3>4
  <2> QED BY <2>1, <2>2
<1>14. \A e \in S : Right(e)
  <2> DEFINE T == {e \in S : Right(e)}
  <2>1. \A s \in S : (\A t \in S : rank[t] < rank[s] => t \in T) => s \in T
    <3> HIDE DEF Right, S, rank
    <3> QED BY <1>13
  <2>2. rank \in [S -> Nat]
    BY <1>7
  <2>3. S \subseteq T
    <3> HIDE DEF S, T, rank
    <3> QED BY <2>1, <2>2, ByMeasure
  <2> HIDE DEF Right, S
  <2> QED BY <2>3
<1>15. <<a, b>> \in S /\ <<a, b>>[1] = a /\ <<a, b>>[2] = b
  OBVIOUS
<1> HIDE DEF S
<1>16. Right(<<a, b>>)
  BY <1>14, <1>15
<1> QED BY <1>11, <1>15, <1>16
-----------------------------------------------------------------------------
(* Dominators::create_idom.                                                *)

\* The predecessors of b that are in the tree.
TreePreds(b) == {p \in InTree(cfg, idom) : b \in Succ(cfg, p)}

\* The block met by all those predecessors of b that pick has chosen.
Met(y, b, pick) ==
    /\ y = Dom!None <=> pick = {}
    /\ y # Dom!None =>
          /\ y \in InTree(cfg, idom)
          /\ \A p \in pick : y \in Chain(cfg, idom, p)
          /\ \A a : Dominates(cfg, a, b) /\ a # b => Dominates(cfg, a, y)

\* One more predecessor.
LEMMA MeetAnother ==
    ASSUME Routed(cfg), PostOrder(cfg, post), Climbing(cfg, post, idom),
           NEW b, NEW pick, pick \subseteq InTree(cfg, idom), NEW y, Met(y, b, pick),
           NEW p \in TreePreds(b)
    PROVE  Met(IF y = Dom!None THEN p ELSE Dom!Intersect(y, p), b, pick \cup {p})
<1> DEFINE K == InTree(cfg, idom)
<1>1. p \in K /\ p \in Reachable(cfg) /\ b \in Succ(cfg, p) /\ p # Dom!None
  BY SameGraph DEF TreePreds, Climbing, InTree, Blocks
<1>2. \A a : Dominates(cfg, a, b) /\ a # b => Dominates(cfg, a, p)
  BY <1>1, DominatesBefore
<1>3. CASE y = Dom!None
  <2>1. pick = {} /\ p \in Chain(cfg, idom, p)
    BY <1>1, <1>3, ChainLeast DEF Met
  <2> QED BY <1>1, <1>2, <1>3, <2>1 DEF Met
<1>4. CASE y # Dom!None
  <2> DEFINE m == Dom!Intersect(y, p)
  <2>1. /\ y \in K /\ \A x \in pick : y \in Chain(cfg, idom, x)
        /\ \A a : Dominates(cfg, a, b) /\ a # b => Dominates(cfg, a, y)
    BY <1>4 DEF Met
  <2>2. /\ m \in K /\ m \in Chain(cfg, idom, y) /\ m \in Chain(cfg, idom, p)
        /\ \A d : Dominates(cfg, d, y) /\ Dominates(cfg, d, p) => Dominates(cfg, d, m)
    BY <1>1, <2>1, Meeting
  <2> HIDE DEF m
  <2>3. \A x \in pick : m \in Chain(cfg, idom, x)
    <3>1. ASSUME NEW x \in pick PROVE m \in Chain(cfg, idom, x)
      <4>1. Chain(cfg, idom, y) \subseteq Chain(cfg, idom, x)
        BY <2>1, <3>1, ChainNext
      <4> QED BY <2>2, <4>1
    <3> QED BY <3>1
  <2>4. m # Dom!None
    BY <2>2, SameGraph DEF InTree, Blocks
  <2>5. Met(m, b, pick \cup {p})
    BY <1>2, <2>1, <2>2, <2>3, <2>4 DEF Met
  <2> QED BY <1>4, <2>5 DEF m
<1> QED BY <1>3, <1>4

\* The new immediate dominator is where all predecessors in the tree meet.
LEMMA NewIdomMeets ==
    ASSUME Linked(cfg), PostOrder(cfg, post), Climbing(cfg, post, idom), NEW b \in Blocks(cfg)
    PROVE  Met(Dom!NewIdom(b), b, TreePreds(b))
<1> DEFINE s == cfg.preds[b]
           L == Len(s)
           K == InTree(cfg, idom)
           V == K \cup {Dom!None}
           S == 0..L
           Value(i, before) == IF idom[s[i]] = Dom!None THEN before
                               ELSE IF before = Dom!None THEN s[i]
                               ELSE Dom!Intersect(before, s[i])
           next == [i \in S |-> IF i = 0 THEN 0 ELSE i - 1]
           rank == [i \in S |-> i]
           first == [i \in S |-> Dom!None]
           step == [x \in S \X V |-> IF x[1] = 0 THEN Dom!None ELSE Value(x[1], x[2])]
           Solves(f) == f = [i \in 0..L |-> IF i = 0 THEN Dom!None ELSE Value(i, f[i - 1])]
           upTo == CHOOSE f : Solves(f)
           Upto(i) == {s[k] : k \in {k \in 1..i : s[k] \in K}}
<1>1. Routed(cfg) /\ s \in Seq(Blocks(cfg)) /\ L \in Nat /\ DOMAIN s = 1..L
  BY DEF Linked
<1>2. \A i \in 1..L : s[i] \in Blocks(cfg) /\ (idom[s[i]] = Dom!None \/ s[i] \in TreePreds(b))
  <2>1. ASSUME NEW i \in 1..L, idom[s[i]] # Dom!None PROVE s[i] \in TreePreds(b)
    <3>1. s[i] \in Members(s) /\ s[i] \in Blocks(cfg)
      BY <1>1 DEF Members
    <3>2. b \in Succ(cfg, s[i])
      BY <3>1 DEF Linked
    <3> QED BY <2>1, <3>1, <3>2 DEF TreePreds, InTree
  <2> QED BY <1>1, <2>1
<1>3. K \subseteq Blocks(cfg) /\ \A i \in 1..L : idom[s[i]] # Dom!None => s[i] \in K
  BY <1>2 DEF InTree, TreePreds
<1>4. \A x \in S \X V : (IF x[1] = 0 THEN Dom!None ELSE Value(x[1], x[2])) \in V
  <2>1. ASSUME NEW i \in S, NEW v \in V PROVE (IF i = 0 THEN Dom!None ELSE Value(i, v)) \in V
    <3>1. SUFFICES ASSUME i # 0, idom[s[i]] # Dom!None, v # Dom!None PROVE Dom!Intersect(v, s[i]) \in K
      BY <1>1, <1>3
    <3>2. i \in 1..L /\ s[i] \in K /\ v \in K
      BY <1>1, <1>3, <3>1
    <3> QED BY <1>1, <3>2, Meeting
  <2>2. \A x \in S \X V : x[1] \in S /\ x[2] \in V
    OBVIOUS
  <2> HIDE DEF S, V, Value
  <2> QED BY <2>1, <2>2
<1>5. \E f : Solves(f)
  <2>1. PICK f \in [S -> V] : Recurs(f, S, {0}, first, next, step)
    <3>1. first \in [S -> V] /\ step \in [S \X V -> V] /\ Dom!None \in V
      BY <1>4
    <3>2. Falls(S, rank, L + 1, {0}, next)
      BY <1>1 DEF Falls
    <3> HIDE DEF S, V, first, step, next, rank
    <3> QED BY <3>1, <3>2, Recursion
  <2>2. ASSUME NEW i \in 0..L PROVE f[i] = IF i = 0 THEN Dom!None ELSE Value(i, f[i - 1])
    <3>1. CASE i = 0
      BY <2>1, <3>1 DEF Recurs
    <3>2. CASE i # 0
      <4>1. i \in S /\ next[i] = i - 1 /\ i - 1 \in S /\ i \notin {0}
        BY <1>1, <3>2
      <4>2. f[i] = step[<<i, f[next[i]]>>]
        <5> HIDE DEF S, next, step
        <5> QED BY <2>1, <4>1 DEF Recurs
      <4>3. f[i - 1] \in V
        BY <4>1
      <4>4. <<i, f[i - 1]>> \in S \X V /\ step[<<i, f[i - 1]>>] = Value(i, f[i - 1])
        <5> HIDE DEF S, V, Value
        <5> QED BY <3>2, <4>1, <4>3
      <4> HIDE DEF step, Value, next
      <4> QED BY <3>2, <4>1, <4>2, <4>4
    <3> QED BY <3>1, <3>2
  <2>3. f = [i \in 0..L |-> f[i]]
    OBVIOUS
  <2> HIDE DEF Value
  <2>4. Solves(f)
    BY <2>2, <2>3
  <2> QED BY <2>4
<1>6. Solves(upTo)
  BY <1>5
<1>7. Dom!NewIdom(b) = upTo[L]
  BY DEF Dom!NewIdom
<1>8. \A i \in 0..L : upTo[i] = IF i = 0 THEN Dom!None ELSE Value(i, upTo[i - 1])
  <2> HIDE DEF upTo, Value
  <2> QED BY <1>6
<1> HIDE DEF upTo
<1>9. ASSUME NEW i \in S, \A t \in S : rank[t] < rank[i] => Met(upTo[t], b, Upto(t))
      PROVE  Met(upTo[i], b, Upto(i))
  <2>1. CASE i = 0
    <3>1. upTo[i] = Dom!None /\ Upto(i) = {}
      BY <1>8, <2>1
    <3> HIDE DEF Upto
    <3> QED BY <3>1 DEF Met
  <2>2. CASE i # 0
    <3>1. i - 1 \in S /\ i \in 1..L /\ upTo[i] = Value(i, upTo[i - 1]) /\ Met(upTo[i - 1], b, Upto(i - 1))
      <4>1. i - 1 \in S /\ i \in 1..L /\ rank[i - 1] < rank[i]
        BY <1>1, <2>2
      <4>2. upTo[i] = Value(i, upTo[i - 1])
        <5> HIDE DEF Value
        <5> QED BY <1>8, <2>2, <4>1
      <4> HIDE DEF S, rank, Value, Upto
      <4> QED BY <1>9, <4>1, <4>2
    <3>2. CASE idom[s[i]] = Dom!None
      <4>1. s[i] \notin K
        BY <3>2 DEF InTree
      <4>2. Upto(i) = Upto(i - 1)
        BY <1>1, <3>1, <4>1
      <4> HIDE DEF Upto
      <4> QED BY <3>1, <3>2, <4>2
    <3>3. CASE idom[s[i]] # Dom!None
      <4>1. s[i] \in TreePreds(b) /\ s[i] \in K
        BY <1>2, <1>3, <3>1, <3>3
      <4>2. Upto(i) = Upto(i - 1) \cup {s[i]} /\ Upto(i - 1) \subseteq K
        BY <1>1, <3>1, <4>1
      <4> HIDE DEF Upto
      <4>3. upTo[i] = IF upTo[i - 1] = Dom!None THEN s[i] ELSE Dom!Intersect(upTo[i - 1], s[i])
        BY <3>1, <3>3
      <4>4. Met(upTo[i - 1], b, Upto(i - 1)) /\ Upto(i - 1) \subseteq InTree(cfg, idom)
        BY <3>1, <4>2
      <4> DEFINE y == upTo[i - 1]
                 pick == Upto(i - 1)
                 p == s[i]
      <4>5. Routed(cfg) /\ Met(y, b, pick) /\ pick \subseteq InTree(cfg, idom) /\ p \in TreePreds(b)
        BY <1>1, <4>1, <4>4
      <4> HIDE DEF y, pick, p
      <4>6. Met(IF y = Dom!None THEN p ELSE Dom!Intersect(y, p), b, pick \cup {p})
        BY <4>5, MeetAnother
      <4> QED BY <4>2, <4>3, <4>6 DEF y, pick, p
    <3> QED BY <3>2, <3>3
  <2> QED BY <2>1, <2>2
<1>10. Met(upTo[L], b, Upto(L))
  <2> DEFINE T == {i \in S : Met(upTo[i], b, Upto(i))}
  <2>1. \A i \in S : (\A t \in S : rank[t] < rank[i] => t \in T) => i \in T
    <3> HIDE DEF S, rank, Upto
    <3> QED BY <1>9
  <2>2. rank \in [S -> Nat]
    BY <1>1
  <2>3. S \subseteq T
    <3> HIDE DEF S, T, rank
    <3> QED BY <2>1, <2>2, ByMeasure
  <2>4. L \in S
    BY <1>1
  <2> HIDE DEF S, Upto
  <2> QED BY <2>3, <2>4
<1>11. Upto(L) = TreePreds(b)
  <2>1. ASSUME NEW p \in TreePreds(b) PROVE p \in Upto(L)
    <3>1. p \in K /\ p \in Members(s)
      BY <2>1 DEF TreePreds, InTree, Linked
    <3> QED BY <1>1, <3>1 DEF Members
  <2>2. ASSUME NEW p \in Upto(L) PROVE p \in TreePreds(b)
    <3>1. PICK k \in 1..L : p = s[k] /\ s[k] \in K
      BY <2>2
    <3>2. idom[s[k]] # Dom!None
      BY <3>1 DEF InTree
    <3> QED BY <1>2, <3>1, <3>2
  <2> HIDE DEF Upto
  <2> QED BY <2>1, <2>2
<1> HIDE DEF Upto, L
<1> QED BY <1>7, <1>10, <1>11
\* Block b hangs where all its predecessors in the tree have a common block.
Settled(b) ==
    TreePreds(b) # {} =>
        /\ b \in InTree(cfg, idom)
        /\ \A p \in TreePreds(b) : idom[b] \in Chain(cfg, idom, p)

\* A round that has changed nothing so far has found all blocks settled.
Iterating ==
    /\ PostOrder(cfg, post) /\ Climbing(cfg, post, idom)
    /\ at \in Nat \ {0} /\ changed \in BOOLEAN
    /\ ~changed => \A b \in Blocks(cfg) \ {Entry} : b < at => Settled(b)

\* Each block but the entry hangs from its immediate dominator.
TreeRight(g, d) ==
    /\ d \in [Blocks(g) -> Blocks(g) \cup {Dom!None}]
    /\ d[Entry] = Entry
    /\ \A b \in Blocks(g) \ {Entry} : IF b \in Reachable(g) THEN Child(g, d[b], b) ELSE d[b] = Dom!None

\* At first there is the entry alone.
LEMMA IterationStarts ==
    ASSUME Linked(cfg), Ordering, Dom!OrderEnds, cfg' = cfg
    PROVE  Iterating'
<1>1. /\ idom' = [idom EXCEPT ![Entry] = Entry] /\ post' = post /\ path = <<>>
      /\ at' = at /\ changed' = changed
  BY SameGraph DEF Dom!OrderEnds
<1>2. Blank /\ Routed(cfg) /\ Entry \in Reachable(cfg) /\ Entry \in Blocks(cfg) /\ Blocks(cfg) \subseteq Nat
      /\ Entry # Dom!None
  BY LiveLeast, SameGraph DEF Ordering, Linked, Entry, Blocks, Routed
<1>3. PostOrder(cfg', post')
  BY <1>1, OrderFound
<1>4. /\ idom' \in [Blocks(cfg) -> Blocks(cfg) \cup {Dom!None}]
      /\ \A b \in Blocks(cfg) : idom'[b] = IF b = Entry THEN Entry ELSE Dom!None
  BY <1>1, <1>2 DEF Blank
<1>5. InTree(cfg', idom') = {Entry}
  BY <1>2, <1>4 DEF InTree
<1>6. Climbing(cfg', post', idom')
  BY <1>2, <1>4, <1>5 DEF Climbing
<1>7. at' = 1 /\ changed' = FALSE /\ \A b \in Blocks(cfg) : ~(b < 1)
  BY <1>1, <1>2 DEF Blank, Blocks
<1>8. \A b \in Blocks(cfg') \ {Entry} : b < at' => Settled(b)'
  BY <1>7
<1> HIDE DEF Iterating
<1>9. at' \in Nat \ {0}
  BY <1>7
<1>10. changed' \in BOOLEAN
  BY <1>7
<1> QED BY <1>3, <1>6, <1>8, <1>9, <1>10 DEF Iterating

\* A block in the tree has a predecessor there that comes behind it.
LEMMA HigherPred ==
    ASSUME Routed(cfg), PostOrder(cfg, post), Climbing(cfg, post, idom),
           NEW b \in Blocks(cfg) \ {Entry}, TreePreds(b) # {}
    PROVE  b \in Reachable(cfg) /\ \E p \in TreePreds(b) : post[b] < post[p]
<1>1. PICK p \in TreePreds(b) : TRUE
  OBVIOUS
<1>2. p \in InTree(cfg, idom) /\ p \in Reachable(cfg) /\ b \in Succ(cfg, p)
  BY <1>1 DEF TreePreds, Climbing
<1>3. b \in Reachable(cfg)
  BY <1>2, LiveLeast
<1>4. post[b] < post[p] \/ Dominates(cfg, b, p)
  BY <1>2 DEF PostOrder
<1>5. CASE Dominates(cfg, b, p)
  <2>1. b \in InTree(cfg, idom)
    BY <1>2, <1>5, ChainNext, ChainLeast
  <2> QED BY <1>3, <2>1 DEF Climbing, TreePreds
<1> QED BY <1>1, <1>3, <1>4, <1>5

\* What a block is hung from is above it.
LEMMA MetHigher ==
    ASSUME Routed(cfg), PostOrder(cfg, post), Climbing(cfg, post, idom),
           NEW b \in Blocks(cfg) \ {Entry}, NEW y, y # Dom!None, Met(y, b, TreePreds(b))
    PROVE  /\ b \in Reachable(cfg) /\ y \in InTree(cfg, idom) /\ post[b] < post[y]
           /\ \A a : Dominates(cfg, a, b) /\ a # b => Dominates(cfg, a, y)
           /\ \E p \in InTree(cfg, idom) : b \in Succ(cfg, p) /\ post[b] < post[p]
<1>1. TreePreds(b) # {} /\ y \in InTree(cfg, idom) /\ (\A p \in TreePreds(b) : y \in Chain(cfg, idom, p))
      /\ \A a : Dominates(cfg, a, b) /\ a # b => Dominates(cfg, a, y)
  BY DEF Met
<1>2. PICK p \in TreePreds(b) : post[b] < post[p]
  BY <1>1, HigherPred
<1>3. b \in Reachable(cfg) /\ p \in InTree(cfg, idom) /\ b \in Succ(cfg, p)
  BY <1>1, HigherPred DEF TreePreds
<1>4. post[p] <= post[y]
  BY <1>1, <1>2, <1>3, ChainNext
<1>5. post[b] \in Nat /\ post[p] \in Nat /\ post[y] \in Nat
  BY <1>1, <1>3, LiveLeast DEF PostOrder, InTree
<1> QED BY <1>1, <1>2, <1>3, <1>4, <1>5

LEMMA IdomOfBlockKeeps ==
    ASSUME Linked(cfg), Iterating, Dom!IdomOfBlock, cfg' = cfg
    PROVE  Iterating'
<1> DEFINE K == InTree(cfg, idom)
           y == Dom!NewIdom(at)
<1>1. /\ Routed(cfg) /\ PostOrder(cfg, post) /\ Climbing(cfg, post, idom)
      /\ at \in Nat \ {0} /\ changed \in BOOLEAN
      /\ at' = at + 1 /\ post' = post /\ Blocks(cfg) \subseteq Nat /\ cfg.n \in Nat
  BY DEF Linked, Iterating, Dom!IdomOfBlock, Blocks, Routed
<1>2. at \in Blocks(cfg)
  BY <1>1 DEF Dom!IdomOfBlock, Blocks
<1>3. Met(y, at, TreePreds(at))
  BY <1>1, <1>2, NewIdomMeets
<1>4. Dom!Entry = Entry
  BY SameGraph
<1> HIDE DEF y
<1>5. CASE at # Entry /\ y # idom[at]
  <2>1. idom' = [idom EXCEPT ![at] = y] /\ changed' = TRUE
    BY <1>4, <1>5 DEF Dom!IdomOfBlock, y
  <2>2. y # Dom!None
    <3>1. SUFFICES ASSUME y = Dom!None PROVE FALSE
      OBVIOUS
    <3>2. TreePreds(at) = {} /\ at \in K
      BY <1>2, <1>3, <1>5, <3>1 DEF Met, InTree
    <3> QED BY <1>1, <1>5, <3>2 DEF Climbing, TreePreds
  <2>3. /\ at \in Reachable(cfg) /\ y \in K /\ post[at] < post[y]
        /\ \A a : Dominates(cfg, a, at) /\ a # at => Dominates(cfg, a, y)
        /\ \E p \in K : at \in Succ(cfg, p) /\ post[at] < post[p]
    BY <1>1, <1>2, <1>3, <1>5, <2>2, MetHigher
  <2>4. /\ idom' \in [Blocks(cfg) -> Blocks(cfg) \cup {Dom!None}]
        /\ \A b \in Blocks(cfg) : idom'[b] = IF b = at THEN y ELSE idom[b]
    BY <1>1, <1>2, <2>1, <2>3 DEF Climbing, InTree
  <2>5. InTree(cfg, idom') = K \cup {at} /\ Entry \in Blocks(cfg) /\ K \subseteq Blocks(cfg)
    BY <1>1, <1>2, <2>2, <2>4 DEF InTree, Routed
  <2>6. Climbing(cfg, post, idom')
    <3>1. idom'[Entry] = Entry
      BY <1>1, <1>5, <2>4, <2>5 DEF Climbing
    <3>2. ASSUME NEW b \in K \cup {at}
          PROVE  b \in Reachable(cfg) /\ idom'[b] \in K \cup {at}
      BY <1>1, <2>3, <2>4, <2>5 DEF Climbing
    <3>3. ASSUME NEW b \in (K \cup {at}) \ {Entry}
          PROVE  /\ post[b] < post[idom'[b]]
                 /\ \A a : Dominates(cfg, a, b) /\ a # b => Dominates(cfg, a, idom'[b])
                 /\ \E p \in K \cup {at} : b \in Succ(cfg, p) /\ post[b] < post[p]
      <4>1. CASE b = at
        BY <1>2, <2>3, <2>4, <4>1
      <4>2. CASE b # at
        <5>1. b \in K \ {Entry} /\ b \in Blocks(cfg) /\ idom'[b] = idom[b]
          BY <2>4, <2>5, <4>2
        <5>2. /\ post[b] < post[idom[b]]
              /\ \A a : Dominates(cfg, a, b) /\ a # b => Dominates(cfg, a, idom[b])
              /\ \E p \in K : b \in Succ(cfg, p) /\ post[b] < post[p]
          BY <1>1, <5>1 DEF Climbing
        <5> QED BY <5>1, <5>2
      <4> QED BY <4>1, <4>2
    <3> HIDE DEF K
    <3> QED BY <2>4, <2>5, <3>1, <3>2, <3>3 DEF Climbing
  <2> QED BY <1>1, <2>1, <2>6 DEF Iterating
<1>6. CASE ~(at # Entry /\ y # idom[at])
  <2>1. idom' = idom /\ changed' = changed
    BY <1>4, <1>6 DEF Dom!IdomOfBlock, y
  <2>2. ASSUME ~changed, NEW b \in Blocks(cfg) \ {Entry}, b < at + 1 PROVE Settled(b)
    <3>1. CASE b = at
      BY <1>2, <1>3, <1>6, <3>1 DEF Met, Settled, InTree
    <3>2. CASE b # at
      <4>1. b < at
        BY <1>1, <2>2, <3>2
      <4> QED BY <2>2, <4>1 DEF Iterating
    <3> QED BY <3>1, <3>2
  <2>3. \A b : Settled(b)' = Settled(b)
    BY <2>1 DEF Settled, TreePreds
  <2> QED BY <1>1, <2>1, <2>2, <2>3 DEF Iterating
<1> QED BY <1>5, <1>6

\* When all is settled, the tree is that of the immediate dominators.
LEMMA AllSettled ==
    ASSUME Linked(cfg), PostOrder(cfg, post), Climbing(cfg, post, idom),
           \A b \in Blocks(cfg) \ {Entry} : Settled(b)
    PROVE  TreeRight(cfg, idom)
<1> DEFINE K == InTree(cfg, idom)
           H(x) == Chain(cfg, idom, x)
<1>1. /\ Routed(cfg) /\ K \subseteq Blocks(cfg) /\ K \subseteq Reachable(cfg)
      /\ Entry \in Blocks(cfg) /\ Entry \in K /\ idom[Entry] = Entry
  <2>1. Routed(cfg) /\ Entry \in Blocks(cfg) /\ Entry # Dom!None
    BY SameGraph DEF Linked, Routed, Entry
  <2> QED BY <2>1 DEF Climbing, InTree
<1>2. ASSUME NEW p \in K, NEW b \in Succ(cfg, p) PROVE b \in K /\ (b # Entry => idom[b] \in H(p))
  <2>1. b \in Blocks(cfg) /\ p \in TreePreds(b)
    BY <1>1, <1>2 DEF Routed, TreePreds
  <2> QED BY <1>1, <2>1 DEF Settled
<1>3. K = Reachable(cfg)
  <2>1. Reachable(cfg) \subseteq K
    BY <1>1, <1>2, LiveLeast
  <2> QED BY <1>1, <2>1
<1>4. ASSUME NEW b \in K, NEW a \in H(b) PROVE Dominates(cfg, a, b)
  <2> DEFINE C == {x \in K : a \notin H(x)}
  <2>1. a \in K
    BY <1>4, ChainLeast
  <2>2. a # Entry => Entry \in C
    BY <1>1, ChainNext
  <2>3. ASSUME NEW x \in C, NEW c \in Succ(cfg, x), c # a PROVE c \in C
    <3>1. c \in K /\ (c # Entry => idom[c] \in H(x)) /\ x \in K /\ a \notin H(x)
      BY <1>2, <2>3
    <3>2. CASE c = Entry
      BY <2>2, <2>3, <3>2
    <3>3. CASE c # Entry
      <4>1. \A z \in H(c) : z = c \/ z \in H(idom[c])
        BY <1>1, <3>1, ChainNext
      <4>2. H(idom[c]) \subseteq H(x)
        BY <1>1, <3>1, <3>3, ChainNext
      <4> QED BY <2>3, <3>1, <4>1, <4>2
    <3> QED BY <3>2, <3>3
  <2> HIDE DEF C, H
  <2>4. Avoiding(cfg, a) \subseteq C
    BY <1>1, <2>2, <2>3, AvoidingLeast
  <2>5. b \notin C
    BY <1>4 DEF C
  <2> QED BY <1>1, <1>3, <1>4, <2>1, <2>4, <2>5, DominatesIs
<1>5. ASSUME NEW b \in Blocks(cfg) \ {Entry}
      PROVE  IF b \in Reachable(cfg) THEN Child(cfg, idom[b], b) ELSE idom[b] = Dom!None
  <2>1. CASE b \in Reachable(cfg)
    <3>1. b \in K /\ b \in H(b) /\ idom[b] \in H(b)
      BY <1>3, <2>1, ChainLeast
    <3>2. Dominates(cfg, idom[b], b)
      BY <1>4, <3>1
    <3>3. post[b] < post[idom[b]] /\ \A a : Dominates(cfg, a, b) /\ a # b => Dominates(cfg, a, idom[b])
      BY <1>5, <3>1 DEF Climbing
    <3>4. idom[b] # b
      <4>1. post[b] \in Nat
        BY <1>1 DEF PostOrder
      <4> QED BY <3>3, <4>1
    <3> QED BY <1>1, <2>1, <3>2, <3>3, <3>4, ChildIs
  <2>2. CASE b \notin Reachable(cfg)
    BY <1>3, <2>2 DEF InTree
  <2> QED BY <2>1, <2>2
<1> QED BY <1>1, <1>5 DEF TreeRight, Climbing
-----------------------------------------------------------------------------
(* Dominators::create_dominance_frontier.                                  *)

\* The runner's way is its first block and the way of the next.
LEMMA WalkNext ==
    ASSUME Linked(cfg), PostOrder(cfg, post), TreeRight(cfg, idom),
           NEW top \in Blocks(cfg) \cup {Dom!None}
    PROVE  \A p \in Blocks(cfg) \cup {Dom!None} :
              Dom!Walk(p, top) = IF p = top THEN {}
                                 ELSE IF p = Dom!None \/ p = Entry THEN {p, Dom!None}
                                 ELSE {p} \cup Dom!Walk(idom[p], top)
<1> DEFINE B == Blocks(cfg)
           R == Reachable(cfg)
           S == B \cup {Dom!None}
           V == SUBSET S
           stop == {r \in S : r = top \/ r = Dom!None \/ r = Entry}
           next == [r \in S |-> IF r \in stop THEN r ELSE idom[r]]
           rank == [r \in S |-> IF r \in R THEN cfg.n - post[r] + 1 ELSE IF r = Dom!None THEN 0 ELSE 1]
           first == [r \in S |-> IF r = top THEN {} ELSE {r, Dom!None}]
           step == [x \in S \X V |-> {x[1]} \cup x[2]]
           Solves(f) == f = [r \in S |-> IF r = top THEN {}
                                         ELSE IF r \in {Dom!None, Entry} THEN {r, Dom!None}
                                         ELSE {r} \cup f[idom[r]]]
           from == CHOOSE f : Solves(f)
<1>1. /\ Routed(cfg) /\ cfg.n \in Nat /\ R \subseteq B /\ Dom!None \notin B
      /\ \A r \in B : idom[r] \in S
      /\ \A r \in R : post[r] \in 0..cfg.n
  <2>1. Routed(cfg) /\ cfg.n \in Nat /\ R \subseteq B
    BY LiveLeast DEF Linked, Routed
  <2>2. Dom!None \notin B
    BY SameGraph DEF Blocks
  <2> QED BY <2>1, <2>2 DEF TreeRight, PostOrder
<1>2. \A r \in R \ {Entry} : idom[r] \in R /\ post[r] < post[idom[r]]
  <2>1. ASSUME NEW r \in R \ {Entry} PROVE idom[r] \in R /\ post[r] < post[idom[r]]
    <3>1. Child(cfg, idom[r], r)
      BY <1>1 DEF TreeRight
    <3>2. Dominates(cfg, idom[r], r) /\ idom[r] # r
      BY <1>1, <3>1, ChildIs
    <3> QED BY <1>1, <3>2, DominatorsHigher, DominatesIs
  <2> QED BY <2>1
<1>3. \A r \in B \ R : r # Entry => idom[r] = Dom!None
  BY DEF TreeRight
<1>4. Falls(S, rank, cfg.n + 2, stop, next)
  <2>1. next \in [S -> S]
    BY <1>1
  <2>2. rank \in [S -> Nat] /\ \A r \in S : rank[r] < cfg.n + 2
    <3>1. ASSUME NEW r \in S
          PROVE  LET k == IF r \in R THEN cfg.n - post[r] + 1 ELSE IF r = Dom!None THEN 0 ELSE 1
                 IN  k \in Nat /\ k < cfg.n + 2
      BY <1>1
    <3> QED BY <3>1
  <2>3. ASSUME NEW r \in S \ stop PROVE rank[next[r]] < rank[r]
    <3>1. r \in B /\ r # Entry /\ r # Dom!None /\ next[r] = idom[r] /\ idom[r] \in S
      BY <1>1, <2>3
    <3>2. CASE r \in R
      <4>1. rank[r] = cfg.n - post[r] + 1 /\ rank[idom[r]] = cfg.n - post[idom[r]] + 1
        BY <1>1, <1>2, <3>1, <3>2
      <4>2. post[r] \in 0..cfg.n /\ post[idom[r]] \in 0..cfg.n /\ post[r] < post[idom[r]]
        BY <1>1, <1>2, <3>1, <3>2
      <4> HIDE DEF rank, next
      <4> QED BY <1>1, <3>1, <4>1, <4>2
    <3>3. CASE r \notin R
      <4>1. idom[r] = Dom!None /\ Dom!None \notin R
        BY <1>1, <1>3, <3>1, <3>3
      <4> QED BY <3>1, <3>3, <4>1
    <3> QED BY <3>2, <3>3
  <2> HIDE DEF S, rank, next, stop
  <2> QED BY <1>1, <2>1, <2>2, <2>3 DEF Falls
<1>5. \E f : Solves(f)
  <2>1. PICK f \in [S -> V] : Recurs(f, S, stop, first, next, step)
    <3>1. first \in [S -> V] /\ step \in [S \X V -> V] /\ {} \in V
      OBVIOUS
    <3> HIDE DEF S, V, first, step, next, rank, stop
    <3> QED BY <1>4, <3>1, Recursion
  <2>2. ASSUME NEW r \in S
        PROVE  f[r] = IF r = top THEN {}
                      ELSE IF r \in {Dom!None, Entry} THEN {r, Dom!None}
                      ELSE {r} \cup f[idom[r]]
    <3>1. f[r] = IF r \in stop THEN first[r] ELSE step[<<r, f[next[r]]>>]
      <4> HIDE DEF S, stop, first, step, next
      <4> QED BY <2>1 DEF Recurs
    <3>2. CASE r \in stop
      BY <3>1, <3>2
    <3>3. CASE r \notin stop
      <4>1. next[r] = idom[r] /\ idom[r] \in S /\ f[idom[r]] \in V
        BY <1>1, <3>3
      <4>2. step[<<r, f[idom[r]]>>] = {r} \cup f[idom[r]]
        <5> HIDE DEF S, V
        <5> QED BY <4>1
      <4>3. r # top /\ r \notin {Dom!None, Entry}
        BY <3>3
      <4> HIDE DEF step, next
      <4> QED BY <3>1, <3>3, <4>1, <4>2, <4>3
    <3> QED BY <3>2, <3>3
  <2>3. f = [r \in S |-> f[r]]
    OBVIOUS
  <2> HIDE DEF S
  <2>4. Solves(f)
    BY <2>2, <2>3
  <2> QED BY <2>4
<1>6. Solves(from)
  BY <1>5
<1>7. \A p : Dom!Walk(p, top) = from[p]
  <2>1. Dom!Blocks(cfg) \cup {Dom!None} = S /\ Dom!Entry = Entry
    BY SameGraph
  <2> QED BY <2>1 DEF Dom!Walk
<1>8. \A r \in S : from[r] = IF r = top THEN {}
                             ELSE IF r \in {Dom!None, Entry} THEN {r, Dom!None}
                             ELSE {r} \cup from[idom[r]]
  <2> HIDE DEF from, S
  <2> QED BY <1>6
<1> HIDE DEF from
<1> QED BY <1>7, <1>8

\* From a block that top dominates the runner passes what dominates the block
\* and not top; from another one it does not meet top.
LEMMA WalkIs ==
    ASSUME Linked(cfg), PostOrder(cfg, post), TreeRight(cfg, idom),
           NEW p \in Reachable(cfg), NEW top \in Reachable(cfg)
    PROVE  IF Dominates(cfg, top, p)
           THEN /\ Dom!None \notin Dom!Walk(p, top)
                /\ \A a : a \in Dom!Walk(p, top) <=> Dominates(cfg, a, p) /\ ~Dominates(cfg, a, top)
           ELSE Dom!None \in Dom!Walk(p, top)
<1> DEFINE R == Reachable(cfg)
           B == Blocks(cfg)
           rank == [r \in R |-> cfg.n - post[r]]
           Right(q) == IF Dominates(cfg, top, q)
                       THEN /\ Dom!None \notin Dom!Walk(q, top)
                            /\ \A a : a \in Dom!Walk(q, top) <=> Dominates(cfg, a, q) /\ ~Dominates(cfg, a, top)
                       ELSE Dom!None \in Dom!Walk(q, top)
           T == {q \in R : Right(q)}
<1>1. /\ Routed(cfg) /\ cfg.n \in Nat /\ R \subseteq B /\ Dom!None \notin B
      /\ \A r \in R : post[r] \in 0..cfg.n
  <2>1. Routed(cfg) /\ cfg.n \in Nat /\ R \subseteq B
    BY LiveLeast DEF Linked, Routed
  <2>2. Dom!None \notin B
    BY SameGraph DEF Blocks
  <2> QED BY <2>1, <2>2 DEF PostOrder
<1>2. rank \in [R -> Nat]
  BY <1>1
<1>3. ASSUME NEW q \in R, \A t \in R : rank[t] < rank[q] => t \in T PROVE q \in T
  <2>1. Dom!Walk(q, top) = IF q = top THEN {}
                           ELSE IF q = Dom!None \/ q = Entry THEN {q, Dom!None}
                           ELSE {q} \cup Dom!Walk(idom[q], top)
    BY <1>1, WalkNext
  <2>2. CASE q = top
    BY <1>1, <2>1, <2>2, DominatesSelf
  <2>3. CASE q = Entry /\ q # top
    <3>1. ~Dominates(cfg, top, q)
      BY <1>1, <2>3, EntryDominates, DominatesAntisymmetric
    <3> QED BY <2>1, <2>3, <3>1
  <2>4. CASE q # Entry /\ q # top
    <3>1. Child(cfg, idom[q], q)
      BY <1>1, <2>4 DEF TreeRight
    <3>2. /\ idom[q] # q /\ Dominates(cfg, idom[q], q) /\ idom[q] \in R
          /\ \A x : x # q /\ Dominates(cfg, x, q) => Dominates(cfg, x, idom[q])
      BY <1>1, <3>1, ChildIs, DominatesIs
    <3>3. idom[q] \in T
      <4>1. post[q] < post[idom[q]]
        BY <1>1, <3>2, DominatorsHigher
      <4>2. rank[idom[q]] < rank[q]
        BY <1>1, <3>2, <4>1
      <4> QED BY <1>3, <3>2, <4>2
    <3>4. \A x : Dominates(cfg, x, q) <=> x = q \/ Dominates(cfg, x, idom[q])
      BY <1>1, <3>2, DominatesTransitive, DominatesSelf
    <3>5. Dom!Walk(q, top) = {q} \cup Dom!Walk(idom[q], top) /\ q # Dom!None
      BY <1>1, <2>1, <2>4
    <3>6. CASE Dominates(cfg, top, q)
      <4>1. Dominates(cfg, top, idom[q])
        BY <2>4, <3>2, <3>6
      <4>2. ~Dominates(cfg, q, top)
        BY <1>1, <2>4, <3>6, DominatesAntisymmetric
      <4> QED BY <3>3, <3>4, <3>5, <3>6, <4>1, <4>2
    <3>7. CASE ~Dominates(cfg, top, q)
      <4>1. ~Dominates(cfg, top, idom[q])
        BY <3>4, <3>7
      <4> QED BY <3>3, <3>5, <3>7, <4>1
    <3> QED BY <3>6, <3>7
  <2> QED BY <2>2, <2>3, <2>4
<1>4. R \subseteq T
  <2> HIDE DEF R, T, rank
  <2> QED BY <1>2, <1>3, ByMeasure
<1> HIDE DEF R
<1> QED BY <1>4 DEF R

\* From a block that control does not reach it leaves the tree at once.
LEMMA WalkFromDead ==
    ASSUME Linked(cfg), PostOrder(cfg, post), TreeRight(cfg, idom),
           NEW p \in Blocks(cfg) \ Reachable(cfg)
    PROVE  /\ Dom!Walk(p, Dom!None) = {p}
           /\ \A top \in Reachable(cfg) : Dom!None \in Dom!Walk(p, top)
<1>1. Reachable(cfg) \subseteq Blocks(cfg) /\ Entry \in Reachable(cfg) /\ Dom!None \notin Blocks(cfg)
  BY LiveLeast, SameGraph DEF Linked, Blocks
<1>2. p # Entry /\ p # Dom!None /\ idom[p] = Dom!None
  BY <1>1 DEF TreeRight
<1>3. Dom!Walk(p, Dom!None) = {p}
  <2>1. /\ Dom!Walk(p, Dom!None) = {p} \cup Dom!Walk(idom[p], Dom!None)
        /\ Dom!Walk(Dom!None, Dom!None) = {}
    BY <1>1, <1>2, WalkNext
  <2> QED BY <1>2, <2>1
<1>4. ASSUME NEW top \in Reachable(cfg) PROVE Dom!None \in Dom!Walk(p, top)
  <2>1. top \in Blocks(cfg) /\ p # top /\ top # Dom!None
    BY <1>1
  <2>2. /\ Dom!Walk(p, top) = {p} \cup Dom!Walk(idom[p], top)
        /\ Dom!Walk(Dom!None, top) = {Dom!None, Dom!None}
    BY <1>1, <1>2, <2>1, WalkNext
  <2> QED BY <1>2, <2>2
<1> QED BY <1>3, <1>4
\* A block that a does not dominate has a predecessor that a does not dominate.
LEMMA UndominatedPred ==
    ASSUME NEW g, Routed(g), NEW b \in Reachable(g), b # Entry, NEW a, ~Dominates(g, a, b)
    PROVE  \E p \in Reachable(g) : b \in Succ(g, p) /\ ~Dominates(g, a, p)
<1>1. CASE a \notin Reachable(g)
  <2>1. PICK p \in Reachable(g) : b \in Succ(g, p)
    BY FirstArrival
  <2> QED BY <1>1, <2>1, DominatesIs
<1>2. CASE a \in Reachable(g)
  <2>1. b \in Avoiding(g, a) /\ a # Entry
    BY <1>2, DominatesIs, EntryDominates
  <2>2. SUFFICES ASSUME \A p \in Avoiding(g, a) : b \notin Succ(g, p) PROVE FALSE
    BY AvoidingLive, DominatesIs
  <2> DEFINE C == Avoiding(g, a) \ {b}
  <2>3. Entry \in C /\ \A p \in C \cap Avoiding(g, a) : \A c \in Succ(g, p) : c # a => c \in C
    BY <2>1, <2>2, AvoidingLeast
  <2> HIDE DEF C
  <2>4. Avoiding(g, a) \subseteq C
    BY <2>3, AvoidingLeast
  <2> QED BY <2>1, <2>4 DEF C
<1> QED BY <1>1, <1>2

\* The blocks passed on the ways from the predecessors of b.
Walked(b) ==
    IF Len(cfg.preds[b]) > 1
    THEN UNION {Dom!Walk(p, idom[b]) : p \in Members(cfg.preds[b])} ELSE {}

\* The analysis fails on a live block with a dead predecessor; otherwise the
\* blocks passed for b are those that have it in their frontiers.
LEMMA WalkedIs ==
    ASSUME Linked(cfg), PostOrder(cfg, post), TreeRight(cfg, idom), NEW b \in Blocks(cfg)
    PROVE  IF Dom!None \in Walked(b) THEN ~CleanPreds(cfg)
           ELSE \A a \in Blocks(cfg) : a \in Walked(b) <=> b \in Frontiers(cfg)[a]
<1> DEFINE P == Members(cfg.preds[b])
           R == Reachable(cfg)
           B == Blocks(cfg)
<1>1. /\ Routed(cfg) /\ R \subseteq B /\ Dom!None \notin B /\ Entry \in R
      /\ \A p \in R : Succ(cfg, p) \subseteq R
      /\ cfg.preds[b] \in Seq(B) /\ P \subseteq B
      /\ \A p \in B : p \in P <=> b \in Succ(cfg, p)
      /\ b # Entry \/ P = {}
  <2>1. Routed(cfg) /\ R \subseteq B /\ Entry \in R /\ \A p \in R : Succ(cfg, p) \subseteq R
    BY LiveLeast DEF Linked
  <2>2. Dom!None \notin B
    BY SameGraph DEF Blocks
  <2>3. cfg.preds[b] \in Seq(B) /\ \A p \in B : p \in P <=> b \in Succ(cfg, p)
    BY DEF Linked
  <2>4. P \subseteq B
    BY <2>3 DEF Members
  <2>5. b # Entry \/ P = {}
    BY <2>3, <2>4 DEF Linked
  <2> QED BY <2>1, <2>2, <2>3, <2>4, <2>5
<1>2. /\ Len(cfg.preds[b]) > 1 => P # {}
      /\ ~(Len(cfg.preds[b]) > 1) => \A p, q \in P : p = q
  <2>1. Len(cfg.preds[b]) \in Nat /\ P = {cfg.preds[b][i] : i \in 1..Len(cfg.preds[b])}
    BY <1>1 DEF Members
  <2>2. CASE Len(cfg.preds[b]) > 1
    <3>1. 1 \in 1..Len(cfg.preds[b])
      BY <2>1, <2>2
    <3> QED BY <2>1, <2>2, <3>1
  <2>3. CASE ~(Len(cfg.preds[b]) > 1)
    <3>1. \A i, j \in 1..Len(cfg.preds[b]) : i = j
      BY <2>1, <2>3
    <3> QED BY <2>1, <2>3, <3>1
  <2> QED BY <2>2, <2>3
<1>3. /\ \A a \in R : b \in Frontiers(cfg)[a] <=>
            /\ \E p \in R : Dominates(cfg, a, p) /\ p \in P
            /\ ~Dominates(cfg, a, b) \/ a = b
      /\ \A a \in B \ R : b \in Frontiers(cfg)[a] => b \notin R
  <2>1. \A p \in R : p \in P <=> b \in Succ(cfg, p)
    BY <1>1
  <2> QED BY <1>1, <2>1, FrontIs
<1>4. CASE b \in R /\ Len(cfg.preds[b]) > 1
  <2> DEFINE top == idom[b]
  <2>1. b # Entry
    BY <1>1, <1>2, <1>4
  <2>2. Child(cfg, top, b)
    BY <1>4, <2>1 DEF TreeRight
  <2>3. /\ top # b /\ Dominates(cfg, top, b) /\ top \in R
        /\ \A x : x # b /\ Dominates(cfg, x, b) => Dominates(cfg, x, top)
    BY <1>1, <2>2, ChildIs, DominatesIs
  <2>4. Walked(b) = UNION {Dom!Walk(p, top) : p \in P}
    BY <1>4 DEF Walked
  <2> HIDE DEF top
  <2>5. CASE P \subseteq R
    <3>1. \A p \in P : Dominates(cfg, top, p)
      BY <1>1, <2>3, <2>5, DominatesBefore
    <3>2. \A p \in P : /\ Dom!None \notin Dom!Walk(p, top)
                       /\ \A a : a \in Dom!Walk(p, top) <=> Dominates(cfg, a, p) /\ ~Dominates(cfg, a, top)
      BY <2>3, <2>5, <3>1, WalkIs
    <3>3. Dom!None \notin Walked(b)
          /\ \A a : a \in Walked(b) <=> (\E p \in P : Dominates(cfg, a, p)) /\ ~Dominates(cfg, a, top)
      BY <2>4, <3>2
    <3>4. ASSUME NEW a \in R PROVE ~Dominates(cfg, a, top) <=> ~Dominates(cfg, a, b) \/ a = b
      <4>1. ASSUME Dominates(cfg, a, top) PROVE Dominates(cfg, a, b) /\ a # b
        BY <1>1, <2>3, <4>1, DominatesTransitive, DominatesAntisymmetric
      <4> QED BY <2>3, <4>1
    <3>5. ASSUME NEW a \in B PROVE a \in Walked(b) <=> b \in Frontiers(cfg)[a]
      <4>1. CASE a \in R
        BY <1>3, <2>5, <3>3, <3>4, <4>1
      <4>2. CASE a \notin R
        <5>1. \A p : ~Dominates(cfg, a, p)
          BY <1>1, <4>2, DominatesIs
        <5> QED BY <1>3, <1>4, <3>3, <4>2, <5>1
      <4> QED BY <4>1, <4>2
    <3> QED BY <3>3, <3>5
  <2>6. CASE ~(P \subseteq R)
    <3>1. PICK p \in P : p \notin R
      BY <2>6
    <3>2. Dom!None \in Dom!Walk(p, top)
      BY <1>1, <2>3, <3>1, WalkFromDead
    <3>3. Dom!None \in Walked(b)
      BY <2>4, <3>2
    <3>4. ~CleanPreds(cfg)
      BY <1>4, <2>6 DEF CleanPreds
    <3> QED BY <3>3, <3>4
  <2> QED BY <2>5, <2>6
<1>5. CASE b \in R /\ ~(Len(cfg.preds[b]) > 1)
  <2>1. Walked(b) = {}
    BY <1>5 DEF Walked
  <2>2. ASSUME NEW a \in B, b \in Frontiers(cfg)[a] PROVE FALSE
    <3>1. a \in R
      BY <1>3, <1>5, <2>2
    <3>2. PICK p \in R : Dominates(cfg, a, p) /\ p \in P
      BY <1>3, <2>2, <3>1
    <3>3. b # Entry /\ (~Dominates(cfg, a, b) \/ a = b)
      BY <1>1, <1>3, <2>2, <3>1, <3>2
    <3>4. \A q \in R : b \in Succ(cfg, q) => q = p
      BY <1>1, <1>2, <1>5, <3>2
    <3>5. ~Dominates(cfg, a, b)
      <4>1. ~Dominates(cfg, b, p)
        BY <1>1, <1>5, <3>3, <3>4, FirstArrival
      <4> QED BY <3>2, <3>3, <4>1
    <3>6. ~Dominates(cfg, a, p)
      BY <1>1, <1>5, <3>3, <3>4, <3>5, UndominatedPred
    <3> QED BY <3>2, <3>6
  <2> QED BY <2>1, <2>2
<1>6. CASE b \notin R
  <2>1. b # Entry /\ idom[b] = Dom!None /\ P \subseteq B \ R
    BY <1>1, <1>6 DEF TreeRight
  <2>2. \A p \in P : Dom!Walk(p, idom[b]) = {p}
    BY <2>1, WalkFromDead
  <2>3. \A a : a \in Walked(b) <=> a \in P /\ Len(cfg.preds[b]) > 1
    BY <2>2 DEF Walked
  <2>4. ASSUME NEW a \in B PROVE a \in Walked(b) <=> b \in Frontiers(cfg)[a]
    <3>1. CASE a \in R
      <4>1. a \notin P /\ \A p \in R : p \notin P
        BY <2>1, <3>1
      <4> QED BY <1>3, <2>3, <3>1, <4>1
    <3>2. CASE a \notin R
      <4>1. ~Dominates(cfg, a, a) /\ ~Dominates(cfg, b, b)
        BY <1>1, <1>6, <3>2, DominatesIs
      <4>2. DomFrontier(cfg, Dominance(cfg), a)
              = {c \in Succ(cfg, a) : ~Dominates(cfg, c, c) /\ Len(cfg.preds[c]) > 1}
        BY <4>1 DEF DomFrontier, Dominates, Succ
      <4>3. Frontiers(cfg)[a] = DomFrontier(cfg, Dominance(cfg), a)
        BY DEF Frontiers
      <4> QED BY <1>1, <2>3, <4>1, <4>2, <4>3
    <3> QED BY <3>1, <3>2
  <2>5. Dom!None \notin Walked(b)
    BY <1>1, <2>3
  <2> QED BY <2>4, <2>5
<1> QED BY <1>4, <1>5, <1>6
\* The numbering has not begun.
Unnumbered ==
    /\ left = [b \in Blocks(cfg) |-> Dom!None]
    /\ right = [b \in Blocks(cfg) |-> Dom!None]

\* The frontiers hold the blocks that the loop has been at.
Framing ==
    /\ PostOrder(cfg, post) /\ TreeRight(cfg, idom)
    /\ at \in Nat \ {0} /\ at <= cfg.n + 1
    /\ frontier = [a \in Blocks(cfg) |-> {b \in Frontiers(cfg)[a] : b < at}]

\* A round without a change ends the iteration.
LEMMA RoundEnds ==
    ASSUME Linked(cfg), Iterating, Dom!IdomRoundEnds, cfg' = cfg,
           frontier = [b \in Blocks(cfg) |-> {}]
    PROVE  IF phase' = "frontier" THEN Framing' ELSE Iterating'
<1>1. /\ PostOrder(cfg, post) /\ Climbing(cfg, post, idom) /\ at \in Nat \ {0} /\ changed \in BOOLEAN
      /\ at > cfg.n /\ at' = 1 /\ changed' = FALSE /\ phase' = IF changed THEN "idom" ELSE "frontier"
      /\ post' = post /\ idom' = idom /\ frontier' = frontier /\ cfg.n \in Nat /\ Routed(cfg)
  BY DEF Iterating, Dom!IdomRoundEnds, Linked, Routed
<1>2. \A b \in Blocks(cfg) : ~(b < 1) /\ b < at
  BY <1>1 DEF Blocks
<1>3. CASE changed
  <2>1. PostOrder(cfg', post') /\ Climbing(cfg', post', idom')
    BY <1>1
  <2>2. \A b \in Blocks(cfg') \ {Entry} : b < at' => Settled(b)'
    BY <1>1, <1>2
  <2>3. at' \in Nat \ {0}
    BY <1>1
  <2>4. changed' \in BOOLEAN
    BY <1>1, Zenon
  <2>5. phase' = "idom"
    BY <1>1, <1>3, Zenon
  <2>6. Iterating'
    BY <2>1, <2>2, <2>3, <2>4 DEF Iterating
  <2> QED BY <2>5, <2>6
<1>4. CASE ~changed
  <2>1. \A b \in Blocks(cfg) \ {Entry} : Settled(b)
    BY <1>2, <1>4 DEF Iterating
  <2>2. TreeRight(cfg, idom)
    BY <1>1, <2>1, AllSettled
  <2>3. ASSUME NEW a \in Blocks(cfg) PROVE {b \in Frontiers(cfg)[a] : b < 1} = {}
    BY <1>1, <1>2, <2>3, FrontIs
  <2>4. [a \in Blocks(cfg) |-> {b \in Frontiers(cfg)[a] : b < 1}] = [a \in Blocks(cfg) |-> {}]
    BY <2>3
  <2>5. frontier' = [a \in Blocks(cfg') |-> {b \in Frontiers(cfg')[a] : b < at'}]
    BY <1>1, <2>4
  <2> QED BY <1>1, <1>4, <2>2, <2>5 DEF Framing
<1> QED BY <1>3, <1>4

\* The loop of create_dominance_frontier, one block.
LEMMA FrontierOfBlockKeeps ==
    ASSUME Linked(cfg), Framing, Dom!FrontierOfBlock, cfg' = cfg
    PROVE  IF phase' = "lost" THEN ~CleanPreds(cfg) /\ PostOrder(cfg, post') /\ TreeRight(cfg, idom')
           ELSE phase' = "frontier" /\ Framing'
<1> DEFINE B == Blocks(cfg)
           F == Frontiers(cfg)
<1>1. /\ PostOrder(cfg, post) /\ TreeRight(cfg, idom) /\ at \in Nat \ {0} /\ cfg.n \in Nat
      /\ frontier = [a \in B |-> {b \in F[a] : b < at}]
      /\ phase = "frontier" /\ at <= cfg.n /\ post' = post /\ idom' = idom /\ Routed(cfg)
  BY DEF Framing, Dom!FrontierOfBlock, Linked, Routed
<1>2. at \in B
  BY <1>1 DEF Blocks
<1>3. IF Dom!None \in Walked(at)
      THEN phase' = "lost"
      ELSE /\ frontier' = [b \in B |-> IF b \in Walked(at) THEN frontier[b] \cup {at} ELSE frontier[b]]
           /\ at' = at + 1 /\ phase' = phase
  <2>1. /\ Dom!Members(cfg.preds[at]) = Members(cfg.preds[at]) /\ Dom!Blocks(cfg) = B
    BY SameGraph
  <2> QED BY <2>1 DEF Dom!FrontierOfBlock, Walked
<1>4. CASE Dom!None \in Walked(at)
  BY <1>1, <1>2, <1>3, <1>4, WalkedIs
<1>5. CASE Dom!None \notin Walked(at)
  <2>1. \A a \in B : a \in Walked(at) <=> at \in F[a]
    BY <1>1, <1>2, <1>5, WalkedIs
  <2>2. ASSUME NEW a \in B
        PROVE  (IF a \in Walked(at) THEN frontier[a] \cup {at} ELSE frontier[a]) = {b \in F[a] : b < at + 1}
    <3>1. frontier[a] = {b \in F[a] : b < at} /\ F[a] \subseteq B
      BY <1>1, FrontIs
    <3>2. \A b \in F[a] : b < at + 1 <=> b < at \/ b = at
      BY <1>1, <3>1 DEF Blocks
    <3> HIDE DEF F
    <3> QED BY <2>1, <3>1, <3>2
  <2>3. frontier' = [a \in B |-> {b \in F[a] : b < at + 1}]
    BY <1>3, <1>5, <2>2
  <2>4. at' \in Nat \ {0} /\ at' <= cfg.n + 1
    BY <1>1, <1>3, <1>5
  <2> QED BY <1>1, <1>3, <1>5, <2>3, <2>4 DEF Framing
<1> QED BY <1>4, <1>5
-----------------------------------------------------------------------------
(* Dominators::create_dom_dfs_order.                                       *)

\* What hangs from b are its children in the dominator tree.
LEMMA ChildrenAre ==
    ASSUME Linked(cfg), TreeRight(cfg, idom), NEW b \in Blocks(cfg)
    PROVE  \A c : c \in Dom!Children(b) <=> Child(cfg, b, c)
<1>1. Routed(cfg) /\ Entry \in Reachable(cfg) /\ Reachable(cfg) \subseteq Blocks(cfg)
      /\ Dom!None \notin Blocks(cfg) /\ Dom!Blocks(cfg) = Blocks(cfg)
  BY LiveLeast, SameGraph DEF Linked, Blocks
<1>2. \A c : c \in Dom!Children(b) <=> c \in Blocks(cfg) /\ idom[c] = b /\ c # b
  BY <1>1 DEF Dom!Children
<1>3. ASSUME NEW c, c \in Blocks(cfg), idom[c] = b, c # b PROVE Child(cfg, b, c)
  BY <1>1, <1>3 DEF TreeRight
<1>4. ASSUME NEW c, Child(cfg, b, c) PROVE c \in Blocks(cfg) /\ idom[c] = b /\ c # b
  <2>1. c # b /\ Dominates(cfg, b, c) /\ c \in Reachable(cfg)
    BY <1>1, <1>4, ChildIs, DominatesIs
  <2>2. c # Entry
    BY <1>1, <2>1, EntryDominates, DominatesAntisymmetric, DominatesIs
  <2>3. Child(cfg, idom[c], c)
    BY <1>1, <2>1, <2>2 DEF TreeRight
  <2> QED BY <1>1, <1>4, <2>1, <2>3, OneParent
<1> QED BY <1>2, <1>3, <1>4

\* What a block dominates strictly one of its children dominates.
LEMMA ChildBetween ==
    ASSUME NEW g, Routed(g), NEW a, NEW b, Dominates(g, a, b), a # b
    PROVE  \E c : Child(g, a, c) /\ Dominates(g, c, b)
<1> DEFINE Below(x) == \E c : Child(g, a, c) /\ Dominates(g, c, x)
           C == {x \in Reachable(g) : Dominates(g, a, x) /\ x # a => Below(x)}
<1>1. a \in Reachable(g) /\ b \in Reachable(g) /\ Entry \in Reachable(g)
  BY DominatesIs, LiveLeast
<1>2. Entry \in C
  BY <1>1, EntryDominates, DominatesAntisymmetric
<1>3. ASSUME NEW x \in C, NEW y, Child(g, x, y) PROVE y \in C
  <2>1. y # x /\ Dominates(g, x, y) /\ y \in Reachable(g) /\ \A z : z # y /\ Dominates(g, z, y) => Dominates(g, z, x)
    BY <1>3, ChildIs, DominatesIs
  <2>2. SUFFICES ASSUME Dominates(g, a, y), y # a PROVE Below(y)
    BY <2>1
  <2>3. CASE x = a
    BY <1>3, <2>1, <2>3, DominatesSelf
  <2>4. CASE x # a
    <3>1. PICK c : Child(g, a, c) /\ Dominates(g, c, x)
      BY <1>3, <2>1, <2>2, <2>4
    <3> QED BY <2>1, <3>1, DominatesTransitive
  <2> QED BY <2>3, <2>4
<1> HIDE DEF C
<1>4. Reachable(g) \subseteq C
  BY <1>2, <1>3, TreeReachesAll
<1> QED BY <1>1, <1>4 DEF C

\* The blocks that have a number.
Entered == {b \in Blocks(cfg) : left[b] # Dom!None}

\* The walk over the tree: the blocks being visited are a chain from the entry,
\* and a block that has been left has all that it dominates between its numbers.
Numbering ==
    /\ PostOrder(cfg, post) /\ TreeRight(cfg, idom)
    /\ left \in [Blocks(cfg) -> Nat] /\ right \in [Blocks(cfg) -> Nat]
    /\ dfsOrder \in Seq(Blocks(cfg)) /\ path \in Seq(Blocks(cfg))
    /\ Entered \subseteq Reachable(cfg) /\ Entry \in Entered
    /\ \A b \in Entered : left[b] \in 1..Len(dfsOrder) /\ dfsOrder[left[b]] = b
    /\ \A i \in 1..Len(dfsOrder) : dfsOrder[i] \in Entered /\ left[dfsOrder[i]] = i
    /\ \A b \in Entered : \A d : Dominates(cfg, d, b) => d \in Entered
    /\ \A i \in 1..Len(path) : path[i] \in Entered
    /\ \A i, j \in 1..Len(path) : i < j => Dominates(cfg, path[j], path[i]) /\ path[j] # path[i]
    /\ path # <<>> => path[Len(path)] = Entry
    /\ \A b \in Entered \cap Members(path) : \A c \in Entered : left[b] <= left[c] <=> Dominates(cfg, b, c)
    /\ \A b \in Entered \ Members(path) :
          /\ right[b] <= Len(dfsOrder)
          /\ \A c : Dominates(cfg, b, c) => c \in Entered
          /\ \A c \in Entered : (left[b] <= left[c] /\ left[c] <= right[b]) <=> Dominates(cfg, b, c)

\* It starts at the entry.
LEMMA NumberingStarts ==
    ASSUME Linked(cfg), Framing, Unnumbered, Dom!FrontierEnds, cfg' = cfg
    PROVE  Numbering' /\ frontier' = Frontiers(cfg')
<1> DEFINE B == Blocks(cfg)
<1>1. /\ PostOrder(cfg, post) /\ TreeRight(cfg, idom) /\ at > cfg.n
      /\ frontier = [a \in B |-> {b \in Frontiers(cfg)[a] : b < at}]
      /\ post' = post /\ idom' = idom /\ right' = right /\ frontier' = frontier
      /\ path' = <<Entry>> /\ left' = [left EXCEPT ![Entry] = 1] /\ dfsOrder' = <<Entry>>
      /\ left = [b \in B |-> Dom!None] /\ right = [b \in B |-> Dom!None] /\ at \in Nat
  BY SameGraph DEF Framing, Unnumbered, Dom!FrontierEnds
<1>2. /\ Routed(cfg) /\ cfg.n \in Nat /\ Entry \in Reachable(cfg) /\ Entry \in B /\ Dom!None = 0
  BY LiveLeast, SameGraph DEF Linked, Routed
<1>3. \A b \in B : left'[b] = IF b = Entry THEN 1 ELSE 0
  BY <1>1, <1>2
<1>4. left' \in [B -> Nat] /\ right' \in [B -> Nat]
  BY <1>1, <1>2
<1>5. Entered' = {Entry}
  BY <1>2, <1>3 DEF Entered
<1>6. /\ path' \in Seq(B) /\ Len(path') = 1 /\ path'[1] = Entry /\ Members(path') = {Entry}
      /\ dfsOrder' \in Seq(B) /\ Len(dfsOrder') = 1 /\ dfsOrder'[1] = Entry
      /\ \A i \in 1..1 : i = 1
  BY <1>1, <1>2 DEF Members
<1>7. \A d : Dominates(cfg, d, Entry) <=> d = Entry
  BY <1>2, EntryDominates, DominatesAntisymmetric, DominatesIs
<1>8. frontier' = Frontiers(cfg')
  <2>1. ASSUME NEW a \in B PROVE {b \in Frontiers(cfg)[a] : b < at} = Frontiers(cfg)[a]
    <3>1. Frontiers(cfg)[a] \subseteq B
      BY <1>2, FrontIs
    <3>2. \A b \in B : b < at
      BY <1>1, <1>2 DEF Blocks
    <3> QED BY <3>1, <3>2
  <2>2. Frontiers(cfg) = [a \in B |-> Frontiers(cfg)[a]]
    BY DEF Frontiers
  <2> QED BY <1>1, <2>1, <2>2
<1>9. Numbering'
  <2>1. \A b \in Entered' : left'[b] \in 1..Len(dfsOrder') /\ dfsOrder'[left'[b]] = b
    BY <1>2, <1>3, <1>5, <1>6
  <2>2. \A i \in 1..Len(dfsOrder') : dfsOrder'[i] \in Entered' /\ left'[dfsOrder'[i]] = i
    BY <1>2, <1>3, <1>5, <1>6
  <2>3. \A b \in Entered' \cap Members(path') : \A c \in Entered' :
            left'[b] <= left'[c] <=> Dominates(cfg', b, c)
    BY <1>2, <1>3, <1>5, <1>7
  <2>4. \A i \in 1..Len(path') : path'[i] \in Entered'
    BY <1>5, <1>6
  <2>5. \A i, j \in 1..Len(path') : ~(i < j)
    BY <1>6
  <2> QED BY <1>1, <1>2, <1>4, <1>5, <1>6, <1>7, <2>1, <2>2, <2>3, <2>4, <2>5 DEF Numbering
<1> QED BY <1>8, <1>9

\* A child of the innermost block gets the next number.
LEMMA NumberDownKeeps ==
    ASSUME Linked(cfg), Numbering, NEW c \in Dom!Blocks(cfg), Dom!NumberDown(c), cfg' = cfg
    PROVE  Numbering'
<1> DEFINE B == Blocks(cfg)
           h == path[1]
           L == Len(dfsOrder)
<1>1. /\ path # <<>> /\ path \in Seq(B) /\ Head(path) = h /\ 1 \in 1..Len(path) /\ h \in Entered
      /\ h \in B /\ Len(path) \in Nat
  <2>1. path # <<>> /\ path \in Seq(B)
    BY DEF Numbering, Dom!NumberDown
  <2>2. Head(path) = h /\ 1 \in 1..Len(path) /\ h \in B /\ Len(path) \in Nat
    BY <2>1, PathShrinks
  <2> QED BY <2>1, <2>2 DEF Numbering
<1>2. /\ Routed(cfg) /\ Child(cfg, h, c) /\ left[c] = Dom!None /\ c \in B
      /\ path' = <<c>> \o path /\ left' = [left EXCEPT ![c] = L + 1] /\ dfsOrder' = Append(dfsOrder, c)
      /\ post' = post /\ idom' = idom /\ right' = right
  <2>1. c \in Dom!Children(h) /\ TreeRight(cfg, idom) /\ c \in B
    BY <1>1, SameGraph DEF Dom!NumberDown, Numbering
  <2>2. Child(cfg, h, c)
    BY <1>1, <2>1, ChildrenAre
  <2> QED BY <2>1, <2>2 DEF Dom!NumberDown, Linked
<1>3. /\ c # h /\ Dominates(cfg, h, c) /\ c \in Reachable(cfg)
      /\ \A x : x # c /\ Dominates(cfg, x, c) => Dominates(cfg, x, h)
  BY <1>2, ChildIs, DominatesIs
<1>4. /\ left \in [B -> Nat] /\ dfsOrder \in Seq(B) /\ L \in Nat /\ Dom!None = 0 /\ Entered \subseteq B
  BY SameGraph DEF Numbering, Entered
<1>5. /\ \A b \in B : left'[b] = IF b = c THEN L + 1 ELSE left[b]
      /\ left' \in [B -> Nat] /\ c \notin Entered /\ Entered' = Entered \cup {c}
  <2>1. left' \in [B -> Nat] /\ \A b \in B : left'[b] = IF b = c THEN L + 1 ELSE left[b]
    BY <1>2, <1>4
  <2>2. L + 1 # Dom!None
    BY <1>4
  <2> QED BY <1>2, <2>1, <2>2 DEF Entered
<1>6. /\ dfsOrder' \in Seq(B) /\ Len(dfsOrder') = L + 1 /\ dfsOrder'[L + 1] = c
      /\ \A i \in 1..L : dfsOrder'[i] = dfsOrder[i]
  BY <1>2, <1>4
<1>7. /\ path' \in Seq(B) /\ Len(path') = Len(path) + 1 /\ path'[1] = c
      /\ \A i \in 1..Len(path') : i = 1 \/ (i - 1 \in 1..Len(path) /\ path'[i] = path[i - 1])
      /\ \A i \in 1..Len(path) : i + 1 \in 1..Len(path') /\ path'[i + 1] = path[i]
      /\ Members(path') = Members(path) \cup {c}
  BY <1>1, <1>2, PathGrows
<1>8. \A b \in Entered : left[b] \in 1..L /\ left'[b] = left[b]
  BY <1>4, <1>5 DEF Numbering
<1>9. left'[c] = L + 1
  BY <1>2, <1>5
<1>10. \A b \in Entered' : left'[b] \in 1..Len(dfsOrder') /\ dfsOrder'[left'[b]] = b
  <2>1. ASSUME NEW b \in Entered PROVE left'[b] \in 1..Len(dfsOrder') /\ dfsOrder'[left'[b]] = b
    <3>1. left[b] \in 1..L /\ left'[b] = left[b] /\ dfsOrder[left[b]] = b
      BY <1>8 DEF Numbering
    <3> HIDE DEF L
    <3> QED BY <1>4, <1>6, <3>1
  <2>2. L + 1 \in 1..(L + 1)
    BY <1>4
  <2> HIDE DEF L
  <2> QED BY <1>5, <1>6, <1>9, <2>1, <2>2
<1>11. \A i \in 1..Len(dfsOrder') : dfsOrder'[i] \in Entered' /\ left'[dfsOrder'[i]] = i
  <2>1. ASSUME NEW i \in 1..Len(dfsOrder') PROVE dfsOrder'[i] \in Entered' /\ left'[dfsOrder'[i]] = i
    <3>1. CASE i = L + 1
      BY <1>5, <1>6, <1>9, <3>1
    <3>2. CASE i # L + 1
      <4>1. i \in 1..L
        BY <1>4, <1>6, <3>2
      <4>2. dfsOrder'[i] = dfsOrder[i] /\ dfsOrder[i] \in Entered /\ left[dfsOrder[i]] = i
        BY <1>6, <4>1 DEF Numbering
      <4> QED BY <1>5, <1>8, <4>2
    <3> QED BY <3>1, <3>2
  <2> QED BY <2>1
<1>12. \A b \in Entered' : \A d : Dominates(cfg, d, b) => d \in Entered'
  BY <1>1, <1>3, <1>5 DEF Numbering
<1>0. /\ \A i \in 1..Len(path) : path[i] \in Entered
      /\ \A i, j \in 1..Len(path) : i < j => Dominates(cfg, path[j], path[i]) /\ path[j] # path[i]
  BY DEF Numbering
<1>13. \A i \in 1..Len(path') : path'[i] \in Entered'
  BY <1>0, <1>5, <1>7
<1>14. \A i \in 1..Len(path) : Dominates(cfg, path[i], h)
  <2>1. ASSUME NEW i \in 1..Len(path) PROVE Dominates(cfg, path[i], h)
    <3>1. CASE i = 1
      BY <1>1, <1>2, <3>1, DominatesSelf DEF Numbering
    <3>2. CASE i # 1
      <4>1. 1 < i
        BY <3>2
      <4> QED BY <1>1, <4>1 DEF Numbering
    <3> QED BY <3>1, <3>2
  <2> QED BY <2>1
<1>15. \A i \in 1..Len(path) : Dominates(cfg, path[i], c) /\ path[i] # c
  <2>1. \A i \in 1..Len(path) : path[i] \in Entered
    BY DEF Numbering
  <2> QED BY <1>2, <1>3, <1>5, <1>14, <2>1, DominatesTransitive
<1>16. ASSUME NEW i \in 1..Len(path'), NEW j \in 1..Len(path'), i < j
       PROVE  Dominates(cfg, path'[j], path'[i]) /\ path'[j] # path'[i]
  <2>1. j - 1 \in 1..Len(path) /\ path'[j] = path[j - 1]
    <3>1. j # 1
      BY <1>1, <1>7, <1>16
    <3> QED BY <1>7, <3>1
  <2>2. CASE i = 1
    BY <1>7, <1>15, <2>1, <2>2
  <2>3. CASE i # 1
    <3>1. i - 1 \in 1..Len(path) /\ path'[i] = path[i - 1]
      BY <1>7, <2>3
    <3>2. i - 1 < j - 1
      BY <1>1, <1>7, <1>16
    <3> QED BY <1>0, <2>1, <3>1, <3>2
  <2> QED BY <2>2, <2>3
<1>17. path'[Len(path')] = Entry
  <2>1. Len(path) \in 1..Len(path) /\ path[Len(path)] = Entry
    BY <1>1 DEF Numbering
  <2> QED BY <1>7, <2>1
<1>18. ASSUME NEW b \in Entered' \cap Members(path'), NEW x \in Entered'
       PROVE  left'[b] <= left'[x] <=> Dominates(cfg, b, x)
  <2>1. CASE b = c
    <3>1. CASE x = c
      BY <1>2, <1>3, <1>4, <1>9, <2>1, <3>1, DominatesSelf
    <3>2. CASE x # c
      <4>1. x \in Entered /\ ~Dominates(cfg, c, x)
        BY <1>5, <3>2 DEF Numbering
      <4>2. left'[x] \in 1..L
        BY <1>8, <4>1
      <4> QED BY <1>4, <1>9, <2>1, <4>1, <4>2
    <3> QED BY <3>1, <3>2
  <2>2. CASE b # c
    <3>1. b \in Entered \cap Members(path)
      BY <1>5, <1>7, <1>18, <2>2
    <3>2. CASE x = c
      <4>1. PICK i \in 1..Len(path) : b = path[i]
        BY <1>1, <3>1 DEF Members
      <4>2. Dominates(cfg, b, c)
        BY <1>15, <4>1
      <4>3. left'[b] \in 1..L
        BY <1>8, <3>1
      <4> QED BY <1>4, <1>9, <3>2, <4>2, <4>3
    <3>3. CASE x # c
      <4>1. x \in Entered
        BY <1>5, <3>3
      <4> QED BY <1>8, <3>1, <4>1 DEF Numbering
    <3> QED BY <3>2, <3>3
  <2> QED BY <2>1, <2>2
<1>19. ASSUME NEW b \in Entered' \ Members(path')
       PROVE  /\ right'[b] <= Len(dfsOrder')
              /\ \A x : Dominates(cfg, b, x) => x \in Entered'
              /\ \A x \in Entered' : (left'[b] <= left'[x] /\ left'[x] <= right'[b]) <=> Dominates(cfg, b, x)
  <2>1. b \in Entered \ Members(path) /\ b # c
    BY <1>5, <1>7
  <2>2. /\ right[b] <= L /\ \A x : Dominates(cfg, b, x) => x \in Entered
        /\ \A x \in Entered : (left[b] <= left[x] /\ left[x] <= right[b]) <=> Dominates(cfg, b, x)
    BY <2>1 DEF Numbering
  <2>3. right'[b] = right[b] /\ right[b] \in Nat /\ left'[b] = left[b]
    BY <1>2, <1>4, <1>8, <2>1 DEF Numbering
  <2>4. right'[b] <= Len(dfsOrder')
    BY <1>4, <1>6, <2>2, <2>3
  <2>5. ~Dominates(cfg, b, c)
    BY <1>5, <2>2
  <2>6. ASSUME NEW x \in Entered'
        PROVE  (left'[b] <= left'[x] /\ left'[x] <= right'[b]) <=> Dominates(cfg, b, x)
    <3>1. CASE x = c
      <4>1. ~(left'[x] <= right'[b])
        BY <1>4, <1>9, <2>2, <2>3, <3>1
      <4> QED BY <2>5, <3>1, <4>1
    <3>2. CASE x # c
      <4>1. x \in Entered
        BY <1>5, <3>2
      <4> QED BY <1>8, <2>2, <2>3, <4>1
    <3> QED BY <3>1, <3>2
  <2> QED BY <1>5, <2>2, <2>4, <2>6
<1>20. /\ PostOrder(cfg', post') /\ TreeRight(cfg', idom') /\ right' \in [Blocks(cfg') -> Nat]
       /\ left' \in [Blocks(cfg') -> Nat] /\ dfsOrder' \in Seq(Blocks(cfg')) /\ path' \in Seq(Blocks(cfg'))
       /\ Entered' \subseteq Reachable(cfg') /\ Entry \in Entered'
  BY <1>2, <1>3, <1>5, <1>6, <1>7 DEF Numbering
<1> QED BY <1>10, <1>11, <1>12, <1>13, <1>16, <1>17, <1>18, <1>19, <1>20 DEF Numbering

\* The innermost block is left when its children have numbers.
LEMMA NumberUpKeeps ==
    ASSUME Linked(cfg), Numbering, Dom!NumberUp, cfg' = cfg
    PROVE  Numbering' /\ (phase' = "done" => path' = <<>>)
<1> DEFINE B == Blocks(cfg)
           h == path[1]
           L == Len(dfsOrder)
<1>1. /\ path # <<>> /\ path \in Seq(B) /\ Routed(cfg) /\ TreeRight(cfg, idom)
      /\ right' = [right EXCEPT ![Head(path)] = L] /\ path' = Tail(path)
      /\ post' = post /\ idom' = idom /\ left' = left /\ dfsOrder' = dfsOrder
      /\ phase' = IF Len(path) = 1 THEN "done" ELSE "number"
      /\ \A c \in Dom!Children(Head(path)) : left[c] # Dom!None
  BY DEF Numbering, Dom!NumberUp, Linked
<1>2. /\ path' \in Seq(B) /\ Len(path) \in Nat /\ Len(path') = Len(path) - 1 /\ 1 \in 1..Len(path)
      /\ Head(path) = h /\ h \in B
      /\ \A i \in 1..Len(path') : i + 1 \in 1..Len(path) /\ path'[i] = path[i + 1]
      /\ Members(path) = Members(path') \cup {h}
  BY <1>1, PathShrinks
<1>3. h \in Entered /\ h \in Members(path) /\ Entered' = Entered /\ Entered \subseteq B
  <2>1. h \in Entered
    BY <1>2 DEF Numbering
  <2> QED BY <1>1, <1>2, <2>1 DEF Entered
<1>4. /\ right' \in [B -> Nat] /\ L \in Nat
      /\ \A b \in B : right'[b] = IF b = h THEN L ELSE right[b]
  BY <1>1, <1>2 DEF Numbering
<1>5. \A i \in 1..Len(path') : path'[i] # h /\ Dominates(cfg, path'[i], h)
  <2>1. ASSUME NEW i \in 1..Len(path') PROVE path'[i] # h /\ Dominates(cfg, path'[i], h)
    <3>1. 1 < i + 1 /\ i + 1 \in 1..Len(path) /\ path'[i] = path[i + 1]
      BY <1>2
    <3> QED BY <1>2, <3>1 DEF Numbering
  <2> QED BY <2>1
<1>6. h \notin Members(path') /\ \A b \in Members(path') : b # h /\ Dominates(cfg, b, h)
  BY <1>2, <1>5 DEF Members
<1>7. ASSUME NEW c, Dominates(cfg, h, c) PROVE c \in Entered
  <2>1. CASE c = h
    BY <1>3, <2>1
  <2>2. CASE c # h
    <3>1. PICK k : Child(cfg, h, k) /\ Dominates(cfg, k, c)
      BY <1>1, <1>7, <2>2, ChildBetween
    <3>2. k \in B /\ k \in Entered /\ k # h /\ Dominates(cfg, h, k)
      <4>1. k \in Dom!Children(h) /\ k # h /\ Dominates(cfg, h, k)
        BY <1>1, <1>2, <3>1, ChildrenAre, ChildIs
      <4>2. k \in B
        BY <1>1, <4>1, DominatesIs, LiveLeast
      <4> QED BY <1>1, <1>2, <4>1, <4>2 DEF Entered
    <3>3. k \notin Members(path)
      BY <1>1, <1>2, <1>6, <3>2, DominatesAntisymmetric
    <3> QED BY <3>1, <3>2, <3>3 DEF Numbering
  <2> QED BY <2>1, <2>2
<1>8. \A i \in 1..Len(path') : path'[i] \in Entered'
  BY <1>2, <1>3 DEF Numbering
<1>0. \A i, j \in 1..Len(path) : i < j => Dominates(cfg, path[j], path[i]) /\ path[j] # path[i]
  BY DEF Numbering
<1>9. ASSUME NEW i \in 1..Len(path'), NEW j \in 1..Len(path'), i < j
      PROVE  Dominates(cfg, path'[j], path'[i]) /\ path'[j] # path'[i]
  <2>1. /\ i + 1 \in 1..Len(path) /\ path'[i] = path[i + 1] /\ j + 1 \in 1..Len(path)
        /\ path'[j] = path[j + 1] /\ i + 1 < j + 1
    BY <1>2, <1>9
  <2> QED BY <1>0, <2>1
<1>10. path' # <<>> => path'[Len(path')] = Entry
  <2>1. ASSUME path' # <<>> PROVE path'[Len(path')] = Entry
    <3>1. Len(path') \in 1..Len(path') /\ Len(path') + 1 = Len(path)
      BY <1>2, <2>1
    <3>2. path'[Len(path')] = path[Len(path)]
      BY <1>2, <3>1
    <3> QED BY <1>1, <3>2 DEF Numbering
  <2> QED BY <2>1
<1>11. ASSUME NEW b \in Entered' \cap Members(path'), NEW x \in Entered'
       PROVE  left'[b] <= left'[x] <=> Dominates(cfg, b, x)
  <2>1. b \in Entered \cap Members(path) /\ x \in Entered
    BY <1>2, <1>3
  <2> QED BY <1>1, <2>1 DEF Numbering
<1>12. ASSUME NEW b \in Entered' \ Members(path')
       PROVE  /\ right'[b] <= Len(dfsOrder')
              /\ \A x : Dominates(cfg, b, x) => x \in Entered'
              /\ \A x \in Entered' : (left'[b] <= left'[x] /\ left'[x] <= right'[b]) <=> Dominates(cfg, b, x)
  <2>1. CASE b = h
    <3>1. right'[b] = L /\ L <= L
      BY <1>2, <1>4, <2>1
    <3>2. ASSUME NEW x \in Entered
          PROVE  (left[h] <= left[x] /\ left[x] <= L) <=> Dominates(cfg, h, x)
      <4>1. left[x] <= L
        BY <1>4 DEF Numbering
      <4>2. left[h] <= left[x] <=> Dominates(cfg, h, x)
        BY <1>3 DEF Numbering
      <4> QED BY <4>1, <4>2
    <3> QED BY <1>1, <1>3, <1>7, <2>1, <3>1, <3>2
  <2>2. CASE b # h
    <3>1. b \in Entered \ Members(path) /\ b \in B
      BY <1>2, <1>3, <2>2
    <3>2. right'[b] = right[b]
      BY <1>4, <2>2, <3>1
    <3> QED BY <1>1, <1>3, <3>1, <3>2 DEF Numbering
  <2> QED BY <2>1, <2>2
<1>13. /\ PostOrder(cfg', post') /\ TreeRight(cfg', idom') /\ right' \in [Blocks(cfg') -> Nat]
       /\ left' \in [Blocks(cfg') -> Nat] /\ dfsOrder' \in Seq(Blocks(cfg')) /\ path' \in Seq(Blocks(cfg'))
       /\ Entered' \subseteq Reachable(cfg') /\ Entry \in Entered'
       /\ \A b \in Entered' : left'[b] \in 1..Len(dfsOrder') /\ dfsOrder'[left'[b]] = b
       /\ \A i \in 1..Len(dfsOrder') : dfsOrder'[i] \in Entered' /\ left'[dfsOrder'[i]] = i
       /\ \A b \in Entered' : \A d : Dominates(cfg', d, b) => d \in Entered'
  BY <1>1, <1>2, <1>3, <1>4 DEF Numbering
<1>14. Numbering'
  BY <1>8, <1>9, <1>10, <1>11, <1>12, <1>13 DEF Numbering
<1>15. phase' = "done" => path' = <<>>
  <2>1. ASSUME Len(path) = 1 PROVE path' = <<>>
    BY <1>2, <2>1, EmptySeq
  <2> QED BY <1>1, <2>1
<1> QED BY <1>14, <1>15

\* At its end the numbers answer dominance.
LEMMA NumberingEnds ==
    ASSUME Linked(cfg), Numbering, path = <<>>
    PROVE  /\ Entered = Reachable(cfg) /\ Members(dfsOrder) = Reachable(cfg)
           /\ \A a, b \in Reachable(cfg) : Dom!IsDominate(a, b) <=> Dominates(cfg, a, b)
<1>1. Routed(cfg) /\ Members(path) = {} /\ Entered \subseteq Reachable(cfg) /\ Entry \in Entered
      /\ Reachable(cfg) \subseteq Blocks(cfg)
  BY LiveLeast DEF Linked, Numbering, Members
<1>2. Entered = Reachable(cfg)
  <2>1. \A c : Dominates(cfg, Entry, c) => c \in Entered
    BY <1>1 DEF Numbering
  <2> QED BY <1>1, <2>1, EntryDominates
<1>3. Members(dfsOrder) = Reachable(cfg)
  <2>1. dfsOrder \in Seq(Blocks(cfg)) /\ DOMAIN dfsOrder = 1..Len(dfsOrder)
    BY DEF Numbering
  <2>2. Members(dfsOrder) \subseteq Entered
    BY <2>1 DEF Members, Numbering
  <2>3. Entered \subseteq Members(dfsOrder)
    BY <2>1 DEF Members, Numbering
  <2> QED BY <1>2, <2>2, <2>3
<1>4. ASSUME NEW a \in Reachable(cfg), NEW b \in Reachable(cfg)
      PROVE  Dom!IsDominate(a, b) <=> Dominates(cfg, a, b)
  <2>1. left[a] <= left[b] /\ left[b] <= right[a] <=> Dominates(cfg, a, b)
    BY <1>1, <1>2 DEF Numbering
  <2>2. left[b] \in Nat /\ right[a] \in Nat
    BY <1>1 DEF Numbering
  <2>3. right[a] >= left[b] <=> left[b] <= right[a]
    BY <2>2
  <2> QED BY <2>1, <2>3 DEF Dom!IsDominate
<1> QED BY <1>2, <1>3, <1>4
-----------------------------------------------------------------------------
(* The analysis of the functions the builder makes.                        *)

\* A function of the builder is what the analysis asks for.
LEMMA BuiltLinked ==
    ASSUME BuilderInv, Structured, outcome = "done"
    PROVE  Linked(cfg) /\ \E r \in [Nat -> Nat] : Ordered(cfg, r)
<1>1. Sound(cfg, Tests, Instrs) /\ Routed(cfg)
  BY BuilderGraph
<1>0. PICK J : Laid(cfg, J)
  BY DEF Structured
<1>2. PICK r \in [Nat -> Nat] : Ranked(cfg, r, J)
  BY <1>0 DEF Laid
<1>3. Ordered(cfg, r)
  BY <1>1, <1>2, RankedOrdered
<1>4. ASSUME NEW b \in Blocks(cfg)
      PROVE  /\ cfg.succs[b] \in Seq(Blocks(cfg)) /\ Members(cfg.succs[b]) = Succ(cfg, b)
             /\ cfg.preds[b] \in Seq(Blocks(cfg))
  <2>1. /\ Shaped(cfg, Tests, Instrs) /\ cfg.succs[b] = Targets(cfg, b)
        /\ Members(cfg.succs[b]) \subseteq Blocks(cfg) /\ Members(cfg.preds[b]) \subseteq Blocks(cfg)
    BY <1>1 DEF Sound, SuccsAreTargets, Shaped
  <2>2. cfg.succs[b] \in Seq(Nat) /\ cfg.preds[b] \in Seq(Nat)
    BY <2>1, BlockLists
  <2>3. ASSUME NEW s \in Seq(Nat), Members(s) \subseteq Blocks(cfg)
        PROVE  s \in Seq(Blocks(cfg))
    <3>1. Len(s) \in Nat /\ DOMAIN s = 1..Len(s) /\ s = [i \in 1..Len(s) |-> s[i]]
      BY <2>3
    <3>2. \A i \in 1..Len(s) : s[i] \in Blocks(cfg)
      BY <2>3, <3>1 DEF Members
    <3>3. s \in [1..Len(s) -> Blocks(cfg)]
      BY <3>1, <3>2
    <3> HIDE DEF Blocks
    <3>4. \E m \in Nat : s \in [1..m -> Blocks(cfg)]
      BY <3>1, <3>3
    <3>5. \A S : Seq(S) = UNION {[1..m -> S] : m \in Nat}
      BY SeqDef
    <3>6. Seq(Blocks(cfg)) = UNION {[1..m -> Blocks(cfg)] : m \in Nat}
      BY <3>5
    <3>7. s \in UNION {[1..m -> Blocks(cfg)] : m \in Nat}
      BY <3>4
    <3> QED BY <3>6, <3>7
  <2> QED BY <2>1, <2>2, <2>3 DEF Succ
<1>5. ASSUME NEW b \in Blocks(cfg), NEW p \in Blocks(cfg)
      PROVE  p \in Members(cfg.preds[b]) <=> b \in Succ(cfg, p)
  <2>1. /\ Shaped(cfg, Tests, Instrs) /\ Members(cfg.succs[p]) = Succ(cfg, p)
        /\ Occurrences(cfg.preds[b], p) = Occurrences(cfg.succs[p], b)
    BY <1>1, <1>4 DEF Sound, ListsMatch
  <2>2. cfg.succs[p] \in Seq(Nat) /\ cfg.preds[b] \in Seq(Nat) /\ b \in Nat /\ p \in Nat
    BY <2>1, BlockLists
  <2>3. Occurrences(cfg.preds[b], p) # 0 <=> p \in Members(cfg.preds[b])
    BY <2>2, OccurrencesMember
  <2>4. Occurrences(cfg.succs[p], b) # 0 <=> b \in Members(cfg.succs[p])
    BY <2>2, OccurrencesMember
  <2> QED BY <2>1, <2>3, <2>4
<1>6. \A p \in Blocks(cfg) : Entry \notin Succ(cfg, p)
  BY <1>2 DEF Ranked
<1> QED BY <1>1, <1>3, <1>4, <1>5, <1>6 DEF Linked

\* What each sub-analysis has found out so far.
DomInv ==
    /\ phase # "idle" => outcome = "done"
    /\ phase = "order" => Ordering
    /\ phase = "idom" => Iterating /\ frontier = [b \in Blocks(cfg) |-> {}] /\ Unnumbered
    /\ phase = "frontier" => Framing /\ Unnumbered
    /\ phase = "number" => Numbering /\ frontier = Frontiers(cfg)
    /\ phase = "done" => Numbering /\ path = <<>> /\ frontier = Frontiers(cfg)
    /\ phase = "lost" => ~CleanPreds(cfg) /\ PostOrder(cfg, post) /\ TreeRight(cfg, idom)

\* The builder works on a function as long as it is not done.
LEMMA BuildStepRuns ==
    ASSUME BuildStep
    PROVE  outcome = "running"
BY DEF BuildStep, VisitExpression, VisitReturn, VisitIf, VisitIfElse, VisitWhile, VisitEmpty,
       OpenCompound, CloseCompound, EndList, CloseBranch, MoveInsertPoint, EndFunction, Draw, Visiting

\* Each step of the analysis hands on what the next one needs.
LEMMA AnalyseKeeps ==
    ASSUME Linked(cfg), \E r \in [Nat -> Nat] : Ordered(cfg, r), outcome = "done",
           DomInv, Dom!Analyse, UNCHANGED bvars
    PROVE  DomInv'
<1>1. cfg' = cfg /\ outcome' = "done" /\ outcome = "done"
  BY DEF bvars
<1>2. CASE Dom!Enter
  <2>1. phase' = "order" /\ Ordering'
    BY <1>1, <1>2, EnterOrders DEF Dom!Enter
  <2> QED BY <1>1, <2>1 DEF DomInv
<1>3. CASE Dom!OrderDown
  <2>1. phase = "order" /\ phase' = "order" /\ Ordering
    BY <1>3 DEF Dom!OrderDown, DomInv
  <2>2. Ordering'
    BY <1>1, <1>3, <2>1, OrderDownKeeps
  <2> QED BY <1>1, <2>1, <2>2 DEF DomInv
<1>4. CASE Dom!OrderUp
  <2>1. phase = "order" /\ phase' = "order" /\ Ordering
    BY <1>4 DEF Dom!OrderUp, DomInv
  <2>2. Ordering'
    BY <1>1, <1>4, <2>1, OrderUpKeeps
  <2> QED BY <1>1, <2>1, <2>2 DEF DomInv
<1>5. CASE Dom!OrderEnds
  <2>1. phase = "order" /\ phase' = "idom" /\ Ordering /\ UNCHANGED <<frontier, left, right>>
    BY <1>5 DEF Dom!OrderEnds, DomInv
  <2>2. frontier = [b \in Blocks(cfg) |-> {}] /\ Unnumbered
    BY <2>1 DEF Ordering, Blank, Unnumbered
  <2>3. frontier' = [b \in Blocks(cfg') |-> {}] /\ Unnumbered'
    BY <1>1, <2>1, <2>2 DEF Unnumbered
  <2>4. Iterating'
    BY <1>1, <1>5, <2>1, IterationStarts
  <2> QED BY <1>1, <2>1, <2>3, <2>4 DEF DomInv
<1>6. CASE Dom!IdomOfBlock
  <2>1. /\ phase = "idom" /\ phase' = "idom" /\ UNCHANGED <<frontier, left, right>>
        /\ Iterating /\ frontier = [b \in Blocks(cfg) |-> {}] /\ Unnumbered
    BY <1>6 DEF Dom!IdomOfBlock, DomInv
  <2>2. frontier' = [b \in Blocks(cfg') |-> {}] /\ Unnumbered'
    BY <1>1, <2>1 DEF Unnumbered
  <2>3. Iterating'
    BY <1>1, <1>6, <2>1, IdomOfBlockKeeps
  <2> QED BY <1>1, <2>1, <2>2, <2>3 DEF DomInv
<1>7. CASE Dom!IdomRoundEnds
  <2>1. /\ phase = "idom" /\ phase' \in {"idom", "frontier"} /\ UNCHANGED <<frontier, left, right>>
        /\ Iterating /\ frontier = [b \in Blocks(cfg) |-> {}] /\ Unnumbered
    BY <1>7 DEF Dom!IdomRoundEnds, DomInv
  <2>2. frontier' = [b \in Blocks(cfg') |-> {}] /\ Unnumbered'
    BY <1>1, <2>1 DEF Unnumbered
  <2>3. IF phase' = "frontier" THEN Framing' ELSE Iterating'
    BY <1>1, <1>7, <2>1, RoundEnds
  <2> QED BY <1>1, <2>1, <2>2, <2>3 DEF DomInv
<1>8. CASE Dom!FrontierOfBlock
  <2>1. /\ phase = "frontier" /\ UNCHANGED <<left, right>> /\ Framing /\ Unnumbered
    BY <1>8 DEF Dom!FrontierOfBlock, DomInv
  <2>2. Unnumbered'
    BY <1>1, <2>1 DEF Unnumbered
  <2>3. IF phase' = "lost" THEN ~CleanPreds(cfg) /\ PostOrder(cfg, post') /\ TreeRight(cfg, idom')
        ELSE phase' = "frontier" /\ Framing'
    BY <1>1, <1>8, <2>1, FrontierOfBlockKeeps
  <2> QED BY <1>1, <2>2, <2>3 DEF DomInv
<1>9. CASE Dom!FrontierEnds
  <2>1. phase = "frontier" /\ phase' = "number" /\ Framing /\ Unnumbered
    BY <1>9 DEF Dom!FrontierEnds, DomInv
  <2>2. Numbering' /\ frontier' = Frontiers(cfg')
    BY <1>1, <1>9, <2>1, NumberingStarts
  <2> QED BY <1>1, <2>1, <2>2 DEF DomInv
<1>10. ASSUME NEW c \in Dom!Blocks(cfg), Dom!NumberDown(c)
       PROVE  DomInv'
  <2>1. phase = "number" /\ phase' = "number" /\ Numbering /\ frontier = Frontiers(cfg) /\ frontier' = frontier
    BY <1>10 DEF Dom!NumberDown, DomInv
  <2>2. Numbering'
    BY <1>1, <1>10, <2>1, NumberDownKeeps
  <2> QED BY <1>1, <2>1, <2>2 DEF DomInv
<1>11. CASE Dom!NumberUp
  <2>1. /\ phase = "number" /\ phase' \in {"number", "done"}
        /\ Numbering /\ frontier = Frontiers(cfg) /\ frontier' = frontier
    BY <1>11 DEF Dom!NumberUp, DomInv
  <2>2. Numbering' /\ (phase' = "done" => path' = <<>>)
    BY <1>1, <1>11, <2>1, NumberUpKeeps
  <2> QED BY <1>1, <2>1, <2>2 DEF DomInv
<1> QED BY <1>2, <1>3, <1>4, <1>5, <1>6, <1>7, <1>8, <1>9, <1>10, <1>11 DEF Dom!Analyse

\* The analysis is right as far as it has come, whatever else runs.
LEMMA DomStep ==
    ASSUME BuilderInv, Structured, DomInv, [LNext]_<<vars, lvars>>
    PROVE  DomInv'
<1>1. CASE UNCHANGED dvars /\ UNCHANGED bvars
  <2>1. /\ cfg' = cfg /\ outcome' = outcome /\ phase' = phase /\ at' = at /\ changed' = changed
        /\ post' = post /\ idom' = idom /\ frontier' = frontier /\ path' = path
        /\ left' = left /\ right' = right /\ dfsOrder' = dfsOrder
    BY <1>1 DEF dvars, bvars
  <2>2. Ordering => Ordering'
    <3>1. Blank => Blank'
      BY <2>1 DEF Blank
    <3>2. Descent => Descent'
      BY <2>1 DEF Descent
    <3>3. Numbers => Numbers'
      BY <2>1 DEF Numbers, Numbered
    <3> QED BY <3>1, <3>2, <3>3 DEF Ordering
  <2>3. Iterating => Iterating'
    BY <2>1 DEF Iterating, Settled, TreePreds
  <2>4. (Unnumbered => Unnumbered') /\ (Framing => Framing')
    BY <2>1 DEF Unnumbered, Framing
  <2>5. Numbering => Numbering'
    BY <2>1 DEF Numbering, Entered
  <2> QED BY <2>1, <2>2, <2>3, <2>4, <2>5 DEF DomInv
<1>2. CASE Build
  <2>1. outcome = "running" /\ phase' = phase
    BY <1>2, BuildStepRuns DEF Build, dvars
  <2>2. phase' = "idle"
    BY <2>1 DEF DomInv
  <2> QED BY <2>2 DEF DomInv
<1>3. CASE Analyse
  <2>1. outcome = "done" /\ Dom!Analyse /\ UNCHANGED bvars
    BY <1>3 DEF Analyse
  <2>2. Linked(cfg) /\ \E r \in [Nat -> Nat] : Ordered(cfg, r)
    BY <2>1, BuiltLinked
  <2> QED BY <2>1, <2>2, AnalyseKeeps
<1>4. CASE Start \/ Detect
  BY <1>1, <1>4 DEF Start, Detect
<1>5. CASE UNCHANGED <<vars, lvars>>
  BY <1>1, <1>5 DEF vars, bvars
<1> QED BY <1>2, <1>3, <1>4, <1>5 DEF LNext, Analysing, DNext

\* The analyses leave the function alone.
LEMMA BuildOrNot ==
    ASSUME [LNext]_<<vars, lvars>>
    PROVE  [BuildStep]_bvars
BY DEF LNext, Analysing, DNext, Build, Analyse, Start, Detect, vars, bvars

\* The builder's invariant, with the order of its blocks, holds while the
\* analyses run, and so does theirs.
LEMMA AnalysesInvariant == LSpec => [](BuilderInv /\ Structured /\ DomInv)
<1>1. LInit => BuilderInv /\ Structured /\ DomInv
  BY InitBuilderInv, InitStructured DEF LInit, DInit, Dom!Idle, DomInv
<1>2. (BuilderInv /\ Structured /\ DomInv) /\ [LNext]_<<vars, lvars>> => (BuilderInv /\ Structured /\ DomInv)'
  BY BuildOrNot, BuilderStep, StructuredStep, DomStep
<1> QED BY <1>1, <1>2, PTL DEF LSpec
-----------------------------------------------------------------------------
(* What Mem2Reg and LoopDetection may rely on.                             *)

\* Every cycle that control can reach, in a function of the builder, has a block
\* that dominates the rest of it: discover_loop_and_sub_loops can find every
\* loop there is.
THEOREM ReducibleLoops == LSpec => []LoopsReducible
<1>1. BuilderInv /\ Structured => LoopsReducible
  BY OrderedCycles DEF LoopsReducible
<1> QED BY <1>1, AnalysesInvariant, PTL

\* The fixpoint of create_idom is the dominator tree.
LEMMA TreeIsRight ==
    ASSUME Linked(cfg), TreeRight(cfg, idom)
    PROVE  Dom!IdomCorrect
<1>1. Dom!Dominance(cfg) = Dominance(cfg) /\ Dom!Blocks(cfg) = Blocks(cfg) /\ Dom!Entry = Entry
  BY SamePaths, SameGraph
<1> DEFINE above(b) == {a \in Blocks(cfg) \ {b} : <<a, b>> \in Dominance(cfg)}
<1>2. ASSUME NEW b \in Blocks(cfg) \ {Entry}
      PROVE  IF <<b, b>> \in Dominance(cfg)
             THEN /\ idom[b] \in above(b)
                  /\ \A a \in above(b) : <<a, idom[b]>> \in Dominance(cfg)
             ELSE idom[b] = Dom!None
  <2>1. Routed(cfg)
    BY DEF Linked
  <2>2. <<b, b>> \in Dominance(cfg) <=> b \in Reachable(cfg)
    BY <2>1, DominatesIs, AvoidingLeast DEF Dominates
  <2>3. CASE b \in Reachable(cfg)
    <3>1. Child(cfg, idom[b], b)
      BY <2>3 DEF TreeRight
    <3>2. /\ idom[b] # b /\ Dominates(cfg, idom[b], b)
          /\ \A x : x # b /\ Dominates(cfg, x, b) => Dominates(cfg, x, idom[b])
      BY <2>1, <3>1, ChildIs
    <3>3. idom[b] \in Blocks(cfg)
      BY <2>1, <3>2, LiveLeast, DominatesIs
    <3> QED BY <2>2, <2>3, <3>2, <3>3 DEF Dominates
  <2>4. CASE b \notin Reachable(cfg)
    BY <2>2, <2>4 DEF TreeRight
  <2> QED BY <2>3, <2>4
<1>3. \A b \in Dom!Blocks(cfg) \ {Dom!Entry} :
          IF <<b, b>> \in Dom!Dominance(cfg)
          THEN /\ idom[b] \in {a \in Dom!Blocks(cfg) \ {b} : <<a, b>> \in Dom!Dominance(cfg)}
               /\ \A a \in {a \in Dom!Blocks(cfg) \ {b} : <<a, b>> \in Dom!Dominance(cfg)} :
                     <<a, idom[b]>> \in Dom!Dominance(cfg)
          ELSE idom[b] = Dom!None
  <2> TAKE b \in Dom!Blocks(cfg) \ {Dom!Entry}
  <2> DEFINE domAbove == {a \in Dom!Blocks(cfg) \ {b} : <<a, b>> \in Dom!Dominance(cfg)}
  <2>1. domAbove = above(b)
    BY <1>1
  <2>2. b \in Blocks(cfg) \ {Entry}
    BY <1>1
  <2>3. IF <<b, b>> \in Dom!Dominance(cfg)
        THEN idom[b] \in domAbove /\ \A a \in domAbove : <<a, idom[b]>> \in Dom!Dominance(cfg)
        ELSE idom[b] = Dom!None
    <3> HIDE DEF above, domAbove
    <3> QED BY <1>1, <1>2, <2>1, <2>2
  <2> QED BY <2>3
<1> QED BY <1>3 DEF Dom!IdomCorrect

\* intersect climbs a tree in which a dominator is always later in post order,
\* also while half of it is missing, and idom and the numbers of the tree answer
\* dominance by paths when the analysis has ended.
THEOREM DominatorTree == LSpec => []TreeCorrect
<1>1. ASSUME BuilderInv, Structured, DomInv
      PROVE  TreeCorrect
  <2>1. Dom!IdomClimbs
    <3>1. SUFFICES ASSUME phase = "idom", NEW b \in Blocks(cfg) \ {Entry}, idom[b] # Dom!None
                   PROVE  post[b] # Dom!None /\ post[idom[b]] > post[b]
      BY SameGraph DEF Dom!IdomClimbs
    <3>2. PostOrder(cfg, post) /\ Climbing(cfg, post, idom) /\ Linked(cfg)
      BY <1>1, <3>1, BuiltLinked DEF DomInv, Iterating
    <3>3. b \in InTree(cfg, idom) /\ b \in Reachable(cfg) /\ idom[b] \in Blocks(cfg)
      BY <3>1, <3>2 DEF InTree, Climbing
    <3>4. post[b] < post[idom[b]] /\ post[b] \in Nat /\ post[idom[b]] \in Nat
      BY <3>1, <3>2, <3>3 DEF Climbing, PostOrder, Linked, Routed
    <3>5. post[b] # Dom!None
      BY <3>1, <3>2, <3>3 DEF PostOrder
    <3> QED BY <3>4, <3>5
  <2>2. ASSUME phase \in {"done", "lost"} PROVE Linked(cfg) /\ TreeRight(cfg, idom)
    BY <1>1, <2>2, BuiltLinked DEF DomInv, Numbering
  <2>3. Dom!IdomCorrect
    BY <2>2, TreeIsRight DEF Dom!IdomCorrect
  <2>4. ASSUME phase = "done"
        PROVE  \A a, b \in Reachable(cfg) : Dom!IsDominate(a, b) <=> <<a, b>> \in Dominance(cfg)
    <3>1. Linked(cfg) /\ Numbering /\ path = <<>>
      BY <1>1, <2>4, BuiltLinked DEF DomInv
    <3> QED BY <3>1, NumberingEnds DEF Dominates
  <2>5. Dom!IsDominateCorrect
    BY <2>4, SamePaths DEF Dom!IsDominateCorrect
  <2> QED BY <2>1, <2>3, <2>5 DEF TreeCorrect, IdomClimbs, IdomCorrect, IsDominateCorrect
<1> QED BY <1>1, AnalysesInvariant, PTL

\* The runner of create_dominance_frontier finds the frontiers of dominance by
\* paths, where no block was lost on the way.
THEOREM DominanceFrontiers == LSpec => []FrontiersCorrect
<1>1. ASSUME BuilderInv, Structured, DomInv
      PROVE  FrontiersCorrect
  <2>1. ASSUME phase = "done", NEW a \in Blocks(cfg)
        PROVE  frontier[a] = Dom!DomFrontier(cfg, Dom!Dominance(cfg), a)
    <3>1. frontier[a] = DomFrontier(cfg, Dominance(cfg), a)
      BY <1>1, <2>1 DEF DomInv, Frontiers
    <3>2. Dom!Dominance(cfg) = Dominance(cfg) /\ \A b : Dom!Targets(cfg, b) = Targets(cfg, b)
      BY SamePaths DEF Dom!Targets, Targets
    <3> DEFINE out(p)    == Members(Targets(cfg, p))
               domOut(p) == Dom!Members(Dom!Targets(cfg, p))
               D         == {q \in Blocks(cfg) : <<a, q>> \in Dominance(cfg)}
    <3>3. \A p : domOut(p) = out(p)
      BY <3>2, SameGraph
    <3>4. DomFrontier(cfg, Dominance(cfg), a) =
              IF <<a, a>> \in Dominance(cfg)
              THEN {b \in UNION {out(p) : p \in D} : <<a, b>> \notin Dominance(cfg) \/ a = b}
              ELSE {b \in out(a) : ~(<<b, b>> \in Dominance(cfg)) /\ Len(cfg.preds[b]) > 1}
      BY DEF DomFrontier
    <3>5. Dom!DomFrontier(cfg, Dominance(cfg), a) =
              IF <<a, a>> \in Dominance(cfg)
              THEN {b \in UNION {domOut(p) : p \in D} : <<a, b>> \notin Dominance(cfg) \/ a = b}
              ELSE {b \in domOut(a) : ~(<<b, b>> \in Dominance(cfg)) /\ Len(cfg.preds[b]) > 1}
      BY SameGraph DEF Dom!DomFrontier
    <3> HIDE DEF out, domOut, D
    <3>6. UNION {domOut(p) : p \in D} = UNION {out(p) : p \in D}
      BY <3>3
    <3>7. Dom!DomFrontier(cfg, Dominance(cfg), a) = DomFrontier(cfg, Dominance(cfg), a)
      BY <3>3, <3>4, <3>5, <3>6
    <3> QED BY <3>1, <3>2, <3>7
  <2> QED BY <2>1, SameGraph DEF FrontiersCorrect, FrontierCorrect, Dom!FrontierCorrect
<1> QED BY <1>1, AnalysesInvariant, PTL

\* The runner is lost only from a predecessor that control cannot reach.
THEOREM LostRunner == LSpec => []LostOnlyOnDeadPreds
<1>1. DomInv => LostOnlyOnDeadPreds
  BY DEF DomInv, LostOnlyOnDeadPreds
<1> QED BY <1>1, AnalysesInvariant, PTL

-----------------------------------------------------------------------------
(* Natural loops.                                                          *)

\* The sources of the edges back to h, and the loop these make.
Back(g, h) == {p \in Blocks(g) : h \in Succ(g, p) /\ Dominates(g, h, p)}

\* The blocks from which such an edge is reached without going through h.
Natural(g, h) ==
    LET before == [b \in Blocks(g) |-> IF b = h THEN {} ELSE {p \in Blocks(g) : b \in Succ(g, p)}]
    IN  IF Back(g, h) = {} THEN {} ELSE {h} \cup Closure(g, Back(g, h), before)

\* What control reaches is branched to from there only.
Clean(g) == \A b \in Reachable(g) : \A p \in Blocks(g) : b \in Succ(g, p) => p \in Reachable(g)

\* A natural loop is the least set that is closed under going back.
LEMMA NaturalLeast ==
    ASSUME NEW g, Routed(g), NEW h
    PROVE  /\ Natural(g, h) \subseteq Blocks(g)
           /\ Back(g, h) = {} => Natural(g, h) = {}
           /\ Back(g, h) # {} => h \in Natural(g, h)
           /\ Back(g, h) \subseteq Natural(g, h)
           /\ \A b \in Natural(g, h) \ {h} : \A p \in Blocks(g) : b \in Succ(g, p) => p \in Natural(g, h)
           /\ \A C : /\ h \in C /\ Back(g, h) \subseteq C
                     /\ \A b \in (C \cap Natural(g, h)) \ {h} : \A p \in Natural(g, h) : b \in Succ(g, p) => p \in C
                  => Natural(g, h) \subseteq C
<1> DEFINE before == [b \in Blocks(g) |-> IF b = h THEN {} ELSE {p \in Blocks(g) : b \in Succ(g, p)}]
           L == Back(g, h)
           K == Closure(g, L, before)
<1>1. /\ before \in [Blocks(g) -> SUBSET Blocks(g)] /\ g.n \in Nat /\ L \in SUBSET Blocks(g)
      /\ \A b \in Blocks(g) : \A p : p \in before[b] <=> b # h /\ p \in Blocks(g) /\ b \in Succ(g, p)
      /\ L # {} => h \in Blocks(g)
  BY DEF Routed, Back
<1>2. Natural(g, h) = IF L = {} THEN {} ELSE {h} \cup K
  BY DEF Natural
<1> HIDE DEF L
<1>3. K = Around(g, L, before)
  <2> HIDE DEF before
  <2> QED BY <1>1, ClosureIsAround
<1> HIDE DEF K, before
<1>4. K \in SUBSET Blocks(g) /\ L \subseteq K
  BY <1>1, <1>3 DEF Around
<1>5. ASSUME NEW b \in K PROVE before[b] \subseteq K
  <2>1. SUFFICES ASSUME NEW y \in before[b], NEW C \in SUBSET Blocks(g), L \subseteq C, Closed(C, before)
                 PROVE  y \in C
    BY <1>1, <1>3, <1>4 DEF Around
  <2>2. b \in C
    BY <1>3, <1>5, <2>1 DEF Around
  <2> QED BY <2>1, <2>2 DEF Closed
<1>6. ASSUME L # {}, NEW C, h \in C, L \subseteq C,
             \A b \in (C \cap Natural(g, h)) \ {h} : \A p \in Natural(g, h) : b \in Succ(g, p) => p \in C
      PROVE  Natural(g, h) \subseteq C
  <2>1. C \cap K \in SUBSET Blocks(g) /\ L \subseteq C \cap K
    BY <1>4, <1>6
  <2>2. Closed(C \cap K, before)
    <3>1. ASSUME NEW b \in C \cap K, NEW p \in before[b] PROVE p \in C \cap K
      <4>1. b # h /\ b \in Succ(g, p) /\ p \in K
        BY <1>1, <1>4, <1>5, <3>1
      <4>2. b \in Natural(g, h) /\ p \in Natural(g, h)
        BY <1>2, <1>6, <4>1
      <4> QED BY <1>6, <4>1, <4>2
    <3> QED BY <3>1 DEF Closed
  <2>3. K \subseteq C
    BY <1>3, <2>1, <2>2 DEF Around
  <2> QED BY <1>2, <1>6, <2>3
<1>7. ASSUME NEW b \in Natural(g, h) \ {h}, NEW p \in Blocks(g), b \in Succ(g, p)
      PROVE  p \in Natural(g, h)
  BY <1>1, <1>2, <1>4, <1>5, <1>7
<1> QED BY <1>1, <1>2, <1>4, <1>6, <1>7 DEF L

\* The header dominates the loop, ...
LEMMA HeaderDominates ==
    ASSUME NEW g, Routed(g), Clean(g), NEW h
    PROVE  \A x \in Natural(g, h) : Dominates(g, h, x)
<1> DEFINE C == {x \in Blocks(g) : Dominates(g, h, x)}
<1>1. SUFFICES ASSUME Back(g, h) # {} PROVE Natural(g, h) \subseteq C
  BY NaturalLeast
<1>2. Back(g, h) \subseteq C
  BY DEF Back
<1>3. h \in C
  BY <1>1, <1>2, DominatesIs, DominatesSelf, LiveLeast
<1>4. ASSUME NEW b \in C \ {h}, NEW p \in Natural(g, h), b \in Succ(g, p) PROVE p \in C
  <2>1. p \in Blocks(g)
    BY NaturalLeast
  <2>2. p \in Reachable(g)
    BY <1>4, <2>1, DominatesIs DEF Clean
  <2> QED BY <1>4, <2>1, <2>2, DominatesBefore
<1> HIDE DEF C
<1> QED BY <1>2, <1>3, <1>4, NaturalLeast

\* ... which has everything that is between the header and a block of it, ...
LEMMA NaturalHolds ==
    ASSUME NEW g, Routed(g), Clean(g), NEW h, NEW a, Dominates(g, h, a),
           NEW x \in Natural(g, h), Dominates(g, a, x)
    PROVE  a \in Natural(g, h)
<1>1. SUFFICES ASSUME a \notin Natural(g, h) PROVE FALSE
  OBVIOUS
<1> DEFINE E == {y \in Natural(g, h) : Dominates(g, a, y)}
           C == Reachable(g) \ E
<1>2. h \in Natural(g, h)
  BY NaturalLeast
<1>3. ASSUME NEW b \in C, NEW y \in Succ(g, b), y \in E PROVE FALSE
  <2>1. y # h
    BY <1>1, <1>2, <1>3, DominatesAntisymmetric
  <2>2. y # a /\ b \in Reachable(g) /\ b \in Blocks(g)
    BY <1>1, <1>3, LiveLeast
  <2>3. b \in Natural(g, h)
    BY <1>3, <2>1, <2>2, NaturalLeast
  <2>4. Dominates(g, a, b)
    BY <1>3, <2>2, DominatesBefore
  <2> QED BY <1>3, <2>3, <2>4
<1>4. Entry \notin E
  <2>1. Entry \in E => a = Entry
    BY EntryDominates, DominatesIs, DominatesAntisymmetric
  <2> QED BY <1>1, <2>1
<1>5. Entry \in C /\ \A b \in C : Succ(g, b) \subseteq C
  BY <1>3, <1>4, LiveLeast
<1>6. Reachable(g) \subseteq C
  <2> HIDE DEF C
  <2> QED BY <1>5, LiveLeast
<1> QED BY <1>6, DominatesIs

\* ... and all of the loop of a header in it.
LEMMA NaturalNested ==
    ASSUME NEW g, Routed(g), Clean(g), NEW h, NEW a \in Natural(g, h)
    PROVE  Natural(g, a) \subseteq Natural(g, h)
<1>1. SUFFICES ASSUME a # h PROVE Natural(g, a) \subseteq Natural(g, h)
  OBVIOUS
<1>2. \A p \in Blocks(g) : a \in Succ(g, p) => p \in Natural(g, h)
  BY <1>1, NaturalLeast
<1>3. Back(g, a) \subseteq Natural(g, h)
  BY <1>2 DEF Back
<1>4. h \notin Natural(g, a)
  BY <1>1, HeaderDominates, DominatesAntisymmetric
<1>5. ASSUME NEW b \in Natural(g, h) \cap Natural(g, a), NEW p \in Natural(g, a), b \in Succ(g, p)
      PROVE  p \in Natural(g, h)
  BY <1>4, <1>5, NaturalLeast
<1> QED BY <1>3, <1>5, NaturalLeast

\* Two loops that share a block are one inside the other.
LEMMA LoopsShare ==
    ASSUME NEW g, Routed(g), Clean(g), NEW h, NEW a, NEW x \in Natural(g, h), x \in Natural(g, a)
    PROVE  \/ Dominates(g, h, a) /\ a \in Natural(g, h) /\ Natural(g, a) \subseteq Natural(g, h)
           \/ Dominates(g, a, h) /\ h \in Natural(g, a) /\ Natural(g, h) \subseteq Natural(g, a)
<1>1. Dominates(g, h, x) /\ Dominates(g, a, x)
  BY HeaderDominates
<1>2. Dominates(g, h, a) \/ Dominates(g, a, h)
  BY <1>1, DominatorsChain
<1> QED BY <1>1, <1>2, NaturalHolds, NaturalNested

-----------------------------------------------------------------------------
(* The loops of a structured function.                                     *)

\* The zone of j is below j, ...
LEMMA ZoneBelow ==
    ASSUME NEW g, Routed(g), NEW j, NEW S, NEW B, Zone(g, j, S, B), NEW y \in S, y \in Reachable(g)
    PROVE  Dominates(g, j, y)
<1> DEFINE C == Blocks(g) \ S
<1>1. j # Entry /\ Entry \in C
  BY DEF Zone, Routed
<1>2. \A b \in C : \A c \in Succ(g, b) : c # j => c \in C
  BY DEF Zone, Routed
<1> HIDE DEF C
<1>3. Avoiding(g, j) \subseteq C
  BY <1>1, <1>2, AvoidingLeast
<1>4. j \in Reachable(g)
  <2>1. SUFFICES ASSUME j \notin Reachable(g) PROVE Reachable(g) \subseteq C
    BY DEF C
  <2> QED BY <1>1, <1>2, <2>1, LiveLeast
<1> QED BY <1>3, <1>4, DominatesIs DEF C

\* ... what j dominates goes back to it from the body only, ...
LEMMA BackFromBody ==
    ASSUME NEW g, Routed(g), NEW j, NEW S, NEW B, Zone(g, j, S, B)
    PROVE  Back(g, j) \subseteq B
<1>1. SUFFICES ASSUME NEW p \in Back(g, j) PROVE p \in B
  OBVIOUS
<1>2. p \in Blocks(g) /\ j \in Succ(g, p) /\ Dominates(g, j, p) /\ j # Entry
  BY DEF Back, Zone
<1>3. j \in Reachable(g) /\ p \in Reachable(g)
  BY <1>2, DominatesIs
<1>4. PICK q \in Reachable(g) : j \in Succ(g, q) /\ ~Dominates(g, j, q)
  BY <1>2, <1>3, FirstArrival
<1>5. q \notin S /\ q \in Blocks(g)
  BY <1>4, ZoneBelow, LiveLeast
<1>6. p \in S
  BY <1>2, <1>4, <1>5 DEF Zone
<1> QED BY <1>2, <1>6 DEF Zone

\* ... and its loop is in the zone.
LEMMA NaturalInZone ==
    ASSUME NEW g, Routed(g), NEW j, NEW S, NEW B, Zone(g, j, S, B)
    PROVE  Natural(g, j) \subseteq S
<1>1. Back(g, j) \subseteq S /\ j \in S
  BY BackFromBody DEF Zone
<1>2. ASSUME NEW b \in S \ {j}, NEW p \in Natural(g, j), b \in Succ(g, p) PROVE p \in S
  BY <1>2, NaturalLeast DEF Zone
<1> QED BY <1>1, <1>2, NaturalLeast

\* The block in which the condition fails is in the loop.
LEMMA GateInLoop ==
    ASSUME NEW g, Routed(g), Clean(g), NEW j, NEW S, NEW B, Zone(g, j, S, B), Back(g, j) # {},
           NEW q \in S \ B, Gate(g, j, S, B, q)
    PROVE  q \in Natural(g, j)
<1>1. PICK p \in Back(g, j) : TRUE
  OBVIOUS
<1>2. p \in B /\ p \in Reachable(g) /\ p \in Natural(g, j)
  BY BackFromBody, NaturalLeast, DominatesIs DEF Back
<1> DEFINE C == Blocks(g) \ B
<1>3. Entry \in C /\ \A b \in C : b # q => Succ(g, b) \subseteq C
  BY DEF Gate, Zone, Routed
<1> HIDE DEF C
<1>4. Avoiding(g, q) \subseteq C
  BY <1>3, AvoidingLeast
<1>5. q \in Reachable(g)
  <2>1. SUFFICES ASSUME q \notin Reachable(g) PROVE Reachable(g) \subseteq C
    BY <1>2 DEF C
  <2> QED BY <1>3, <2>1, LiveLeast
<1>6. Dominates(g, q, p)
  BY <1>2, <1>4, <1>5, DominatesIs DEF C
<1>7. Dominates(g, j, q)
  BY <1>5, ZoneBelow
<1> QED BY <1>2, <1>6, <1>7, NaturalHolds

\* A loop around that of j has no other blocks of its zone.
LEMMA ZoneLoop ==
    ASSUME NEW g, Routed(g), Clean(g), NEW j, NEW S, NEW B, Zone(g, j, S, B), Back(g, j) # {},
           NEW h, h \notin S
    PROVE  Natural(g, h) \cap S \subseteq Natural(g, j)
<1> DEFINE C == {x \in Natural(g, h) : x \in S => x \in Natural(g, j)}
<1>1. PICK q \in S \ B : Gate(g, j, S, B, q)
  BY DEF Zone
<1>2. q \in Natural(g, j)
  BY <1>1, GateInLoop
<1>3. SUFFICES ASSUME Back(g, h) # {} PROVE Natural(g, h) \subseteq C
  BY NaturalLeast
<1>4. h \in C
  BY <1>3, NaturalLeast
<1>5. ASSUME NEW p \in S, NEW b \in Succ(g, p) \ S PROVE p \in Natural(g, j)
  BY <1>1, <1>2, <1>5 DEF Gate
<1>6. Back(g, h) \subseteq C
  BY <1>5, NaturalLeast DEF Back
<1>7. ASSUME NEW b \in C \ {h}, NEW p \in Natural(g, h), b \in Succ(g, p), p \in S PROVE p \in Natural(g, j)
  <2>1. p \in Blocks(g) /\ p \in Reachable(g)
    BY NaturalLeast, HeaderDominates, DominatesIs
  <2>2. CASE b \notin S
    BY <1>5, <1>7, <2>2
  <2>3. CASE b = j
    <3>1. Dominates(g, j, p)
      BY <1>7, <2>1, ZoneBelow
    <3>2. p \in Back(g, j)
      BY <1>7, <2>1, <2>3, <3>1 DEF Back
    <3> QED BY <3>2, NaturalLeast
  <2>4. CASE b \in S /\ b # j
    BY <1>7, <2>1, <2>4, NaturalLeast
  <2> QED BY <2>2, <2>3, <2>4
<1>8. \A b \in (C \cap Natural(g, h)) \ {h} : \A p \in Natural(g, h) : b \in Succ(g, p) => p \in C
  BY <1>7
<1> HIDE DEF C
<1> QED BY <1>4, <1>6, <1>8, NaturalLeast

\* What is branched back to is a block of J.
LEMMA HeaderIsPlain ==
    ASSUME NEW J, NEW g, Routed(g), Laid(g, J), NEW j, Back(g, j) # {}
    PROVE  Plain(g, j, J) /\ \E S, B : Zone(g, j, S, B)
<1>1. PICK r \in [Nat -> Nat] : Ranked(g, r, J)
  BY DEF Laid
<1>2. Ordered(g, r)
  BY <1>1, RankedOrdered
<1>3. PICK p \in Back(g, j) : TRUE
  OBVIOUS
<1>4. p \in Blocks(g) /\ j \in Succ(g, p) /\ Dominates(g, j, p)
  BY <1>3 DEF Back
<1>5. j \in Nat /\ p \in Nat
  BY <1>4, DominatesIs, LiveLeast DEF Blocks, Routed
<1>6. j # p => r[j] < r[p]
  BY <1>2, <1>4, DominatorsFirst
<1>7. r[j] \in Nat /\ r[p] \in Nat
  BY <1>5
<1>8. ~(r[p] < r[j])
  BY <1>6, <1>7
<1>9. Plain(g, j, J)
  BY <1>1, <1>4, <1>8 DEF Ranked
<1> QED BY <1>9 DEF Plain, Laid

\* A branch from x in the loop of a, which lies in the loop of k, to y in the loop
\* of h, where neither a nor k dominates h, goes to a block of the loop of k other
\* than k: it leaves the loops from the inside one at a time.
LEMMA InnerFirst ==
    ASSUME NEW J, NEW g, Routed(g), Clean(g), Laid(g, J),
           NEW k, NEW a \in Natural(g, k), a # k, NEW x \in Natural(g, a),
           NEW h, NEW y \in Natural(g, h), y \in Succ(g, x), ~Dominates(g, a, h), ~Dominates(g, k, h)
    PROVE  y \in Natural(g, k) /\ y # k
<1>1. Back(g, a) # {} /\ Back(g, k) # {}
  BY NaturalLeast
<1>2. PICK S, B : Zone(g, a, S, B)
  BY <1>1, HeaderIsPlain
<1>3. PICK U, C : Zone(g, k, U, C)
  BY <1>1, HeaderIsPlain
<1>4. /\ Natural(g, a) \subseteq Natural(g, k) /\ x \in Natural(g, k) /\ Dominates(g, k, a)
      /\ Dominates(g, k, x) /\ Dominates(g, h, y) /\ x \in Blocks(g)
  BY NaturalNested, NaturalLeast, HeaderDominates
<1>5. h \in Reachable(g) /\ k \in Reachable(g)
  BY <1>4, DominatesIs
<1>6. h \notin S /\ h \notin U
  BY <1>2, <1>3, <1>5, ZoneBelow
<1>7. x \in S /\ x \in U
  BY <1>2, <1>3, <1>4, NaturalInZone
<1>8. y \in Natural(g, k)
  <2>1. CASE y \in S
    BY <1>1, <1>2, <1>4, <1>6, <2>1, ZoneLoop
  <2>2. CASE y \in U
    BY <1>1, <1>3, <1>6, <2>2, ZoneLoop
  <2>3. CASE y \notin S /\ y \notin U
    <3>1. g.term[x].yes = a + 1
      BY <1>2, <1>7, <2>3 DEF Zone, Gate
    <3>2. g.term[x].yes = k + 1
      BY <1>3, <1>7, <2>3 DEF Zone, Gate
    <3>3. a \in Nat /\ k \in Nat
      BY <1>2, <1>3 DEF Zone, Blocks, Routed
    <3>4. a = k
      BY <3>1, <3>2, <3>3
    <3> QED BY <3>4
  <2> QED BY <2>1, <2>2, <2>3
<1>9. ASSUME y = k PROVE FALSE
  <2>1. k \notin S
    BY <1>2, <1>4, <1>5, ZoneBelow, DominatesAntisymmetric
  <2>2. g.term[x].kind = "cond"
    BY <1>2, <1>7, <1>9, <2>1 DEF Zone, Gate
  <2>3. Plain(g, k, J)
    BY <1>1, HeaderIsPlain
  <2> QED BY <1>4, <1>9, <2>2, <2>3 DEF Plain
<1> QED BY <1>8, <1>9

-----------------------------------------------------------------------------
(* Lists of blocks, and lists without repetitions.                         *)

\* What lists put together hold.
LEMMA MembersConcat ==
    ASSUME NEW S, NEW s \in Seq(S), NEW t \in Seq(S)
    PROVE  s \o t \in Seq(S) /\ Len(s \o t) = Len(s) + Len(t) /\ Members(s \o t) = Members(s) \cup Members(t)
<1> DEFINE u == s \o t
<1>1. /\ u \in Seq(S) /\ Len(u) = Len(s) + Len(t) /\ Len(s) \in Nat /\ Len(t) \in Nat
      /\ \A i \in 1..Len(s) + Len(t) : u[i] = IF i <= Len(s) THEN s[i] ELSE t[i - Len(s)]
  BY ConcatProperties, LenProperties
<1> HIDE DEF u
<1>2. /\ DOMAIN u = 1..Len(s) + Len(t) /\ DOMAIN s = 1..Len(s) /\ DOMAIN t = 1..Len(t)
  BY <1>1
<1>3. ASSUME NEW i \in DOMAIN u PROVE u[i] \in Members(s) \cup Members(t)
  <2>1. CASE i <= Len(s)
    BY <1>1, <1>2, <1>3, <2>1 DEF Members
  <2>2. CASE ~(i <= Len(s))
    <3>1. i - Len(s) \in DOMAIN t
      BY <1>1, <1>2, <1>3, <2>2
    <3> QED BY <1>1, <1>2, <1>3, <2>2, <3>1 DEF Members
  <2> QED BY <2>1, <2>2
<1>4. ASSUME NEW i \in DOMAIN s PROVE s[i] \in Members(u)
  <2>1. i \in DOMAIN u /\ u[i] = s[i]
    BY <1>1, <1>2, <1>4
  <2> QED BY <2>1 DEF Members
<1>5. ASSUME NEW i \in DOMAIN t PROVE t[i] \in Members(u)
  <2>1. i + Len(s) \in DOMAIN u /\ ~(i + Len(s) <= Len(s)) /\ (i + Len(s)) - Len(s) = i
    BY <1>1, <1>2, <1>5
  <2>2. u[i + Len(s)] = t[i]
    BY <1>1, <1>2, <2>1
  <2> QED BY <2>1, <2>2 DEF Members
<1>6. Members(u) \subseteq Members(s) \cup Members(t)
  BY <1>3 DEF Members
<1>7. Members(s) \subseteq Members(u) /\ Members(t) \subseteq Members(u)
  <2>1. Members(s) = {s[i] : i \in DOMAIN s} /\ Members(t) = {t[i] : i \in DOMAIN t}
    BY DEF Members
  <2> QED BY <1>4, <1>5, <2>1
<1> QED BY <1>1, <1>6, <1>7 DEF u

\* The list of one block.
LEMMA MembersOne ==
    ASSUME NEW S, NEW x \in S
    PROVE  <<x>> \in Seq(S) /\ Len(<<x>>) = 1 /\ Members(<<x>>) = {x}
BY DEF Members

\* A list with a block put to its end.
LEMMA AppendIs ==
    ASSUME NEW S, NEW s \in Seq(S), NEW x \in S
    PROVE  /\ Append(s, x) \in Seq(S) /\ Len(Append(s, x)) = Len(s) + 1
           /\ Members(Append(s, x)) = Members(s) \cup {x}
<1>1. <<x>> \in Seq(S) /\ Len(<<x>>) = 1 /\ Members(<<x>>) = {x}
  BY MembersOne
<1>2. Append(s, x) = s \o <<x>>
  BY AppendIsConcat
<1> DEFINE t == <<x>>
<1> HIDE DEF t
<1>3. s \o t \in Seq(S) /\ Len(s \o t) = Len(s) + Len(t) /\ Members(s \o t) = Members(s) \cup Members(t)
  BY <1>1, MembersConcat DEF t
<1> QED BY <1>1, <1>2, <1>3 DEF t

\* No element occurs twice.
Unrepeated(s) == \A i, j \in 1..Len(s) : s[i] = s[j] => i = j

\* Lists that share nothing, put together, repeat nothing either.
LEMMA UnrepeatedConcat ==
    ASSUME NEW S, NEW s \in Seq(S), NEW t \in Seq(S), Unrepeated(s), Unrepeated(t),
           Members(s) \cap Members(t) = {}
    PROVE  Unrepeated(s \o t)
<1> DEFINE u == s \o t
<1>1. /\ Len(u) = Len(s) + Len(t) /\ Len(s) \in Nat /\ Len(t) \in Nat
      /\ \A i \in 1..Len(s) + Len(t) : u[i] = IF i <= Len(s) THEN s[i] ELSE t[i - Len(s)]
      /\ DOMAIN s = 1..Len(s) /\ DOMAIN t = 1..Len(t)
  BY ConcatProperties, LenProperties
<1> HIDE DEF u
<1>2. \A i \in 1..Len(u) : \/ i \in 1..Len(s) /\ u[i] = s[i] /\ u[i] \in Members(s)
                           \/ i - Len(s) \in 1..Len(t) /\ u[i] = t[i - Len(s)] /\ u[i] \in Members(t)
  <2> TAKE i \in 1..Len(u)
  <2>1. CASE i <= Len(s)
    BY <1>1, <2>1 DEF Members
  <2>2. CASE ~(i <= Len(s))
    <3>1. i - Len(s) \in 1..Len(t)
      BY <1>1, <2>2
    <3> QED BY <1>1, <2>2, <3>1 DEF Members
  <2> QED BY <2>1, <2>2
<1>3. ASSUME NEW i \in 1..Len(u), NEW j \in 1..Len(u), u[i] = u[j] PROVE i = j
  <2>1. CASE u[i] \in Members(s)
    <3>1. i \in 1..Len(s) /\ j \in 1..Len(s) /\ s[i] = s[j]
      BY <1>2, <1>3, <2>1
    <3> QED BY <3>1 DEF Unrepeated
  <2>2. CASE u[i] \notin Members(s)
    <3>1. i - Len(s) \in 1..Len(t) /\ j - Len(s) \in 1..Len(t) /\ t[i - Len(s)] = t[j - Len(s)]
      BY <1>2, <1>3, <2>2
    <3>2. i - Len(s) = j - Len(s)
      BY <3>1 DEF Unrepeated
    <3> QED BY <1>1, <3>2
  <2> QED BY <2>1, <2>2
<1> QED BY <1>3 DEF Unrepeated, u

\* Nor does a list with a block that is new to it.
LEMMA UnrepeatedAppend ==
    ASSUME NEW S, NEW s \in Seq(S), NEW x \in S, Unrepeated(s), x \notin Members(s)
    PROVE  Unrepeated(Append(s, x))
<1>1. <<x>> \in Seq(S) /\ Members(<<x>>) = {x} /\ Unrepeated(<<x>>)
  BY MembersOne DEF Unrepeated
<1>2. Append(s, x) = s \o <<x>>
  BY AppendIsConcat
<1> DEFINE t == <<x>>
<1>3. t \in Seq(S) /\ Unrepeated(t) /\ Members(s) \cap Members(t) = {}
  BY <1>1
<1> HIDE DEF t
<1>4. Unrepeated(s \o t)
  BY <1>3, UnrepeatedConcat
<1> QED BY <1>2, <1>4 DEF t

\* Such a list is as long as it has members.
LEMMA UnrepeatedCounts ==
    ASSUME NEW S, NEW s \in Seq(S), Unrepeated(s)
    PROVE  Cardinality(Members(s)) = Len(s)
<1>1. Len(s) \in Nat /\ DOMAIN s = 1..Len(s)
  BY LenProperties
<1>2. s \in Bijection(1..Len(s), Members(s))
  <2>1. s \in [1..Len(s) -> Members(s)]
    <3>1. s = [i \in 1..Len(s) |-> s[i]]
      BY <1>1
    <3>2. \A i \in 1..Len(s) : s[i] \in Members(s)
      BY <1>1 DEF Members
    <3> QED BY <3>1, <3>2
  <2>2. \A i, j \in 1..Len(s) : s[i] = s[j] => i = j
    BY DEF Unrepeated
  <2>3. \A y \in Members(s) : \E i \in 1..Len(s) : s[i] = y
    BY <1>1 DEF Members
  <2> QED BY <2>1, <2>2, <2>3 DEF Bijection, Injection, Surjection, IsInjective
<1>3. IsFiniteSet(1..Len(s)) /\ Cardinality(1..Len(s)) = Len(s)
  BY <1>1, FS_Interval
<1>4. ExistsBijection(1..Len(s), Members(s))
  BY <1>2 DEF ExistsBijection
<1> QED BY <1>3, <1>4, FS_Bijection

\* A work list without its last entry.
LEMMA FrontOfList ==
    ASSUME NEW S, NEW s \in Seq(S), s # <<>>
    PROVE  LET u == SubSeq(s, 1, Len(s) - 1)
           IN  /\ u \in Seq(S) /\ Len(u) = Len(s) - 1 /\ Len(u) < Len(s) /\ s[Len(s)] \in S
               /\ Members(s) = Members(u) \cup {s[Len(s)]}
<1> DEFINE u == SubSeq(s, 1, Len(s) - 1)
<1>1. Len(s) \in Nat /\ Len(s) # 0 /\ DOMAIN s = 1..Len(s) /\ \A i \in 1..Len(s) : s[i] \in S
  BY LenProperties, EmptySeq
<1>2. Len(s) - 1 \in Nat /\ Len(s) \in 1..Len(s) /\ 1..(Len(s) - 1) \subseteq 1..Len(s)
  BY <1>1
<1>3. /\ u \in Seq(S) /\ Len(u) = Len(s) - 1
      /\ \A i \in 1..(Len(s) - 1) : u[i] = s[i]
  <2>1. \A i \in 1..(Len(s) - 1) : s[i] \in S
    BY <1>1, <1>2
  <2>2. /\ u \in Seq(S) /\ Len(u) = IF 1 <= Len(s) - 1 THEN (Len(s) - 1) - 1 + 1 ELSE 0
        /\ \A i \in 1..(Len(s) - 1) - 1 + 1 : u[i] = s[1 + i - 1]
    BY <1>2, <2>1, SubSeqProperties
  <2>3. Len(u) = Len(s) - 1
    <3>1. \A n \in Nat : (IF 1 <= n THEN n - 1 + 1 ELSE 0) = n
      OBVIOUS
    <3> QED BY <1>2, <2>2, <3>1
  <2>4. ASSUME NEW i \in 1..(Len(s) - 1) PROVE u[i] = s[i]
    <3>1. i \in 1..(Len(s) - 1) - 1 + 1 /\ 1 + i - 1 = i
      BY <1>2
    <3> QED BY <2>2, <3>1
  <2> QED BY <2>2, <2>3, <2>4
<1> HIDE DEF u
<1>4. DOMAIN u = 1..(Len(s) - 1)
  BY <1>2, <1>3
<1>5. Members(s) = Members(u) \cup {s[Len(s)]}
  <2>1. Members(u) = {s[i] : i \in 1..(Len(s) - 1)}
    BY <1>3, <1>4 DEF Members
  <2>2. Members(s) = {s[i] : i \in 1..Len(s)}
    BY <1>1 DEF Members
  <2>3. 1..Len(s) = (1..(Len(s) - 1)) \cup {Len(s)}
    BY <1>1, <1>2
  <2> QED BY <2>1, <2>2, <2>3
<1> QED BY <1>1, <1>2, <1>3, <1>5 DEF u

-----------------------------------------------------------------------------
(* discover_loop_and_sub_loops: the loops ls that have been found, the map *)
(* inl from blocks to loops, the blocks rs that run_on_func is still to    *)
(* reach, and the work list wk.                                            *)

\* The records of loops_.
LoopOf(g) == [header : Blocks(g), latches : SUBSET Blocks(g), blocks : Seq(Blocks(g)),
              subs : Seq(Nat), parent : Nat]

\* What the variables hold.
Kinds(g, ls, inl, rs, wk) ==
    ls \in Seq(LoopOf(g)) /\ inl \in [Blocks(g) -> Nat] /\ rs \in Seq(Blocks(g)) /\ wk \in Seq(Blocks(g))

\* The blocks of a loop.
In(ls, l) == Members(ls[l].blocks)

\* Headers are found bottom up, each with its latches.
Headed(g, ls, rs) ==
    /\ \A l \in 1..Len(ls) :
          /\ Back(g, ls[l].header) # {} /\ ls[l].latches = Back(g, ls[l].header)
          /\ ls[l].header \in In(ls, l)
          /\ \A m \in 1..Len(ls) : m < l => ~Dominates(g, ls[m].header, ls[l].header)
          /\ \A y \in Members(rs) : ~Dominates(g, ls[l].header, y)
    /\ \A i, j \in 1..Len(rs) : i < j => ~Dominates(g, rs[i], rs[j])
    /\ \A b : Back(g, b) # {} => b \in Members(rs) \/ \E l \in 1..Len(ls) : ls[l].header = b

\* A block is claimed by the first loop that holds it, ...
Claimed(g, ls, inl) ==
    \A b \in Blocks(g) :
        /\ inl[b] \in 0..Len(ls)
        /\ inl[b] = 0 => \A l \in 1..Len(ls) : b \notin In(ls, l)
        /\ inl[b] # 0 => /\ b \in In(ls, inl[b])
                         /\ \A m \in 1..Len(ls) : m < inl[b] => b \notin In(ls, m)

\* ... and a loop by the first other one that holds its header.
Nested(ls) ==
    \A l \in 1..Len(ls) :
        /\ ls[l].parent \in 0..Len(ls) /\ ls[l].parent # l
        /\ ls[l].parent = 0 => \A m \in 1..Len(ls) : m # l => ls[l].header \notin In(ls, m)
        /\ ls[l].parent # 0 => /\ ls[l].header \in In(ls, ls[l].parent)
                               /\ \A m \in 1..Len(ls) : m # l /\ m < ls[l].parent =>
                                     ls[l].header \notin In(ls, m)

\* It is in the list of that one, once.
Listed(ls) ==
    \A k \in 1..Len(ls) : \A l \in Nat :
        Occurrences(ls[k].subs, l) = IF l \in 1..Len(ls) /\ ls[l].parent = k THEN 1 ELSE 0

\* What is right of the loops at any time.
LoopsSo(g, ls, inl, rs) ==
    /\ Headed(g, ls, rs) /\ Claimed(g, ls, inl) /\ Nested(ls) /\ Listed(ls)
    /\ \A l \in 1..Len(ls) : Unrepeated(ls[l].blocks)

\* The first n loops are complete.
Whole(g, ls, n) == \A l \in 1..n : In(ls, l) = Natural(g, ls[l].header)

\* The walk over the last one: its work list leads on from what has been claimed.
Walking(g, ls, inl, wk) ==
    LET T == Len(ls)
        h == ls[T].header
    IN  /\ In(ls, T) \subseteq Natural(g, h) /\ Members(wk) \subseteq Natural(g, h)
        /\ \A m \in 1..T : m # T /\ In(ls, T) \cap In(ls, m) # {} => In(ls, m) \subseteq In(ls, T)
        /\ Back(g, h) \subseteq In(ls, T) \cup Members(wk)
        /\ \A y \in In(ls, T) \ {h} : \A p \in Blocks(g) : y \in Succ(g, p) => p \in In(ls, T) \cup Members(wk)
        /\ \A x \in Members(wk) : \E y \in In(ls, T) :
              /\ y \in Succ(g, x)
              /\ inl[y] = T \/ \E m \in 1..T : ls[m].header = y /\ ls[m].parent = T

\* What the walk asks of the function.
Tidy(g) == Linked(g) /\ Clean(g) /\ \E J : Laid(g, J)

\* The parts of a loop.
LEMMA LoopKinds ==
    ASSUME NEW g, NEW ls \in Seq(LoopOf(g)), NEW l \in 1..Len(ls)
    PROVE  /\ ls[l] \in LoopOf(g) /\ ls[l].header \in Blocks(g) /\ ls[l].blocks \in Seq(Blocks(g))
           /\ ls[l].subs \in Seq(Nat) /\ ls[l].parent \in Nat /\ In(ls, l) \subseteq Blocks(g)
<1>1. ls[l] \in LoopOf(g)
  BY ElementOfSeq
<1>2. /\ ls[l].header \in Blocks(g) /\ ls[l].blocks \in Seq(Blocks(g)) /\ ls[l].subs \in Seq(Nat)
      /\ ls[l].parent \in Nat
  BY <1>1 DEF LoopOf
<1>3. \A i \in DOMAIN ls[l].blocks : ls[l].blocks[i] \in Blocks(g)
  BY <1>2
<1> QED BY <1>1, <1>2, <1>3 DEF In, Members

\* Loops are known by their headers.
LEMMA HeadersDiffer ==
    ASSUME NEW g, Routed(g), NEW ls, Len(ls) \in Nat, NEW rs, Headed(g, ls, rs),
           NEW l \in 1..Len(ls), NEW m \in 1..Len(ls), l # m
    PROVE  ls[l].header # ls[m].header
<1>1. \A k \in 1..Len(ls) : ls[k].header \in Reachable(g)
  <2> TAKE k \in 1..Len(ls)
  <2>1. PICK p : p \in Back(g, ls[k].header)
    BY DEF Headed
  <2> QED BY <2>1, DominatesIs DEF Back
<1>2. l < m \/ m < l
  OBVIOUS
<1> QED BY <1>1, <1>2, DominatesSelf DEF Headed

\* A loop that the walk meets, and that is not yet one of its own, is in no other.
LEMMA MetIsTop ==
    ASSUME NEW g, Tidy(g), NEW ls \in Seq(LoopOf(g)), NEW inl, NEW rs, NEW wk,
           Headed(g, ls, rs), Claimed(g, ls, inl), Nested(ls), Whole(g, ls, Len(ls) - 1),
           ls # <<>>, Walking(g, ls, inl, wk), NEW x \in Members(wk), x \in Blocks(g),
           inl[x] # 0, inl[x] # Len(ls), ls[inl[x]].parent # Len(ls)
    PROVE  ls[inl[x]].parent = 0
<1> DEFINE T == Len(ls)
           s == inl[x]
           k == ls[s].parent
           h == ls[T].header
           a == ls[s].header
           c == ls[k].header
<1>1. T \in Nat /\ T # 0 /\ s \in 0..T
  BY LenProperties, EmptySeq DEF Claimed
<1>2. s \in 1..(T - 1) /\ s \in 1..T /\ T \in 1..T /\ s < T
  BY <1>1
<1>3. SUFFICES ASSUME k # 0 PROVE FALSE
  OBVIOUS
<1>4. k \in 0..T /\ k # s /\ a \in In(ls, k)
  BY <1>2, <1>3 DEF Nested
<1>5. k \in 1..(T - 1) /\ k \in 1..T /\ k < T
  BY <1>1, <1>3, <1>4
<1>6. /\ In(ls, s) = Natural(g, a) /\ In(ls, k) = Natural(g, c) /\ x \in In(ls, s)
      /\ In(ls, T) \subseteq Natural(g, h)
  BY <1>2, <1>5 DEF Whole, Claimed, Walking
<1>7. ~Dominates(g, a, h) /\ ~Dominates(g, c, h)
  BY <1>2, <1>5 DEF Headed
<1>8. a # c /\ Routed(g) /\ Clean(g)
  BY <1>1, <1>2, <1>4, <1>5, HeadersDiffer DEF Tidy, Linked
<1>9. PICK y \in In(ls, T) : /\ y \in Succ(g, x)
                             /\ inl[y] = T \/ \E m \in 1..T : ls[m].header = y /\ ls[m].parent = T
  BY DEF Walking
<1>10. PICK J : Laid(g, J)
  BY DEF Tidy
<1>11. y \in Natural(g, c) /\ y # c
  BY <1>4, <1>6, <1>7, <1>8, <1>9, <1>10, InnerFirst
<1>12. y \in In(ls, k) /\ y \in Blocks(g)
  BY <1>5, <1>6, <1>11, LoopKinds
<1>13. CASE inl[y] = T
  BY <1>1, <1>5, <1>12, <1>13 DEF Claimed
<1>14. CASE \E m \in 1..T : ls[m].header = y /\ ls[m].parent = T
  <2>1. PICK m \in 1..T : ls[m].header = y /\ ls[m].parent = T
    BY <1>14
  <2>2. m # k
    BY <1>11, <2>1
  <2> QED BY <1>1, <1>5, <1>12, <2>1, <2>2 DEF Nested
<1> QED BY <1>9, <1>13, <1>14

-----------------------------------------------------------------------------
(* A block, or a loop that is met, joins the loop being discovered.        *)

\* The same loops, with other contents.
Alike(g, ls, ls2) ==
    /\ ls2 \in Seq(LoopOf(g)) /\ Len(ls2) = Len(ls)
    /\ \A l \in 1..Len(ls) : ls2[l].header = ls[l].header /\ ls2[l].latches = ls[l].latches

\* What Join, and what Nest, makes of the loops.
JoinLoops(ls, x) == [ls EXCEPT ![Len(ls)].blocks = Append(@, x)]

NestLoops(ls, s) ==
    [ls EXCEPT ![Len(ls)].subs = Append(@, s), ![Len(ls)].blocks = @ \o ls[s].blocks,
               ![s].parent = Len(ls)]

\* What Join makes of the loops: the last one gets the block.
LEMMA JoinLoopsAre ==
    ASSUME NEW g, NEW ls \in Seq(LoopOf(g)), ls # <<>>, NEW x \in Blocks(g)
    PROVE  LET ls2 == JoinLoops(ls, x)
           IN  /\ Alike(g, ls, ls2)
               /\ \A l \in 1..Len(ls) :
                     /\ ls2[l].parent = ls[l].parent /\ ls2[l].subs = ls[l].subs
                     /\ ls2[l].blocks = IF l = Len(ls) THEN Append(ls[l].blocks, x) ELSE ls[l].blocks
<1> DEFINE T == Len(ls)
           ls2 == JoinLoops(ls, x)
           new == [ls[T] EXCEPT !.blocks = Append(ls[T].blocks, x)]
<1>1. T \in Nat /\ T \in 1..T /\ DOMAIN ls = 1..T
  BY LenProperties, EmptySeq
<1>2. ls2 = [ls EXCEPT ![T] = new]
  BY DEF JoinLoops
<1>3. ls[T] \in LoopOf(g) /\ Append(ls[T].blocks, x) \in Seq(Blocks(g))
  BY <1>1, LoopKinds, AppendIs
<1>4. new \in LoopOf(g)
  BY <1>3 DEF LoopOf
<1>5. /\ new.header = ls[T].header /\ new.latches = ls[T].latches /\ new.parent = ls[T].parent
      /\ new.subs = ls[T].subs /\ new.blocks = Append(ls[T].blocks, x)
  BY <1>3 DEF LoopOf
<1> HIDE DEF new, ls2
<1>6. ls2 \in Seq(LoopOf(g)) /\ Len(ls2) = T /\ \A l \in 1..T : ls2[l] = IF l = T THEN new ELSE ls[l]
  BY <1>1, <1>2, <1>4, ExceptSeq
<1> QED BY <1>5, <1>6 DEF Alike, ls2

\* What Nest makes of them: the last one gets s, and its blocks.
LEMMA NestLoopsAre ==
    ASSUME NEW g, NEW ls \in Seq(LoopOf(g)), ls # <<>>, NEW s \in 1..Len(ls), s # Len(ls)
    PROVE  LET ls2 == NestLoops(ls, s)
           IN  /\ Alike(g, ls, ls2)
               /\ \A l \in 1..Len(ls) :
                     /\ ls2[l].parent = IF l = s THEN Len(ls) ELSE ls[l].parent
                     /\ ls2[l].subs = IF l = Len(ls) THEN Append(ls[l].subs, s) ELSE ls[l].subs
                     /\ ls2[l].blocks = IF l = Len(ls) THEN ls[l].blocks \o ls[s].blocks ELSE ls[l].blocks
<1> DEFINE T == Len(ls)
           ls2 == NestLoops(ls, s)
           new == [ls[T] EXCEPT !.subs = Append(ls[T].subs, s), !.blocks = ls[T].blocks \o ls[s].blocks]
           sub == [ls[s] EXCEPT !.parent = T]
           mid == [ls EXCEPT ![T] = new]
<1>1. T \in Nat /\ T \in 1..T /\ DOMAIN ls = 1..T /\ s \in Nat
  BY LenProperties, EmptySeq
<1>3. ls[T] \in LoopOf(g) /\ ls[s] \in LoopOf(g) /\ ls[T].blocks \o ls[s].blocks \in Seq(Blocks(g))
  BY <1>1, LoopKinds, MembersConcat
<1>3a. Append(ls[T].subs, s) \in Seq(Nat)
  BY <1>1, LoopKinds, AppendIs
<1>4. new \in LoopOf(g) /\ sub \in LoopOf(g)
  BY <1>1, <1>3, <1>3a DEF LoopOf
<1>5. /\ new.header = ls[T].header /\ new.latches = ls[T].latches /\ new.parent = ls[T].parent
      /\ new.subs = Append(ls[T].subs, s) /\ new.blocks = ls[T].blocks \o ls[s].blocks
      /\ sub.header = ls[s].header /\ sub.latches = ls[s].latches /\ sub.parent = T
      /\ sub.subs = ls[s].subs /\ sub.blocks = ls[s].blocks
  BY <1>3 DEF LoopOf
<1>2. ls2 = [mid EXCEPT ![s] = sub]
  BY <1>1, <1>3 DEF NestLoops, LoopOf
<1> HIDE DEF new, sub, ls2, mid
<1>6. mid \in Seq(LoopOf(g)) /\ Len(mid) = T /\ \A l \in 1..T : mid[l] = IF l = T THEN new ELSE ls[l]
  <2>1. T \in DOMAIN ls /\ mid = [ls EXCEPT ![T] = new]
    BY <1>1 DEF mid
  <2> HIDE DEF T
  <2>2. mid \in Seq(LoopOf(g)) /\ Len(mid) = Len(ls) /\ \A l \in DOMAIN ls : mid[l] = IF l = T THEN new ELSE ls[l]
    BY <1>1, <1>4, <2>1, ExceptSeq
  <2> QED BY <1>1, <2>2 DEF T
<1>7. /\ ls2 \in Seq(LoopOf(g)) /\ Len(ls2) = T
      /\ \A l \in 1..T : ls2[l] = IF l = s THEN sub ELSE IF l = T THEN new ELSE ls[l]
  <2>1. DOMAIN mid = 1..T /\ s \in DOMAIN mid
    BY <1>1, <1>6, LenProperties
  <2>2. ls2 \in Seq(LoopOf(g)) /\ Len(ls2) = Len(mid) /\ \A l \in DOMAIN mid : ls2[l] = IF l = s THEN sub ELSE mid[l]
    BY <1>2, <1>4, <1>6, <2>1, ExceptSeq
  <2> QED BY <1>6, <2>1, <2>2
<1> QED BY <1>5, <1>7 DEF Alike, ls2

\* The list of predecessors holds the blocks that branch to b.
LEMMA PredsAre ==
    ASSUME NEW g, Linked(g), NEW b \in Blocks(g)
    PROVE  /\ g.preds[b] \in Seq(Blocks(g)) /\ Members(g.preds[b]) \subseteq Blocks(g)
           /\ Members(g.preds[b]) = {p \in Blocks(g) : b \in Succ(g, p)}
<1>1. g.preds[b] \in Seq(Blocks(g)) /\ \A p \in Blocks(g) : p \in Members(g.preds[b]) <=> b \in Succ(g, p)
  BY DEF Linked
<1>2. Members(g.preds[b]) \subseteq Blocks(g)
  BY <1>1 DEF Members
<1> QED BY <1>1, <1>2

\* Only the headers and the blocks count for the headers.
LEMMA HeadedAlike ==
    ASSUME NEW g, NEW ls \in Seq(LoopOf(g)), NEW ls2, NEW rs, Alike(g, ls, ls2), Headed(g, ls, rs),
           \A l \in 1..Len(ls) : In(ls, l) \subseteq In(ls2, l)
    PROVE  Headed(g, ls2, rs)
BY DEF Headed, Alike

\* A block that is in no loop yet joins the last one.
LEMMA JoinKeeps ==
    ASSUME NEW g, Tidy(g), NEW ls, NEW inl, NEW rs, NEW wk, Kinds(g, ls, inl, rs, wk),
           LoopsSo(g, ls, inl, rs), Whole(g, ls, Len(ls) - 1), ls # <<>>, Walking(g, ls, inl, wk),
           wk # <<>>, NEW x, x = wk[Len(wk)], inl[x] = 0,
           NEW ls2, ls2 = JoinLoops(ls, x), NEW inl2, inl2 = [inl EXCEPT ![x] = Len(ls)],
           NEW wk2, wk2 = SubSeq(wk, 1, Len(wk) - 1) \o g.preds[x]
    PROVE  /\ Kinds(g, ls2, inl2, rs, wk2) /\ LoopsSo(g, ls2, inl2, rs)
           /\ Whole(g, ls2, Len(ls2) - 1) /\ ls2 # <<>> /\ Walking(g, ls2, inl2, wk2)
<1> DEFINE T == Len(ls)
           u == SubSeq(wk, 1, Len(wk) - 1)
           h == ls[T].header
           N == Natural(g, h)
<1>1. /\ T \in Nat /\ T \in 1..T /\ ls \in Seq(LoopOf(g)) /\ inl \in [Blocks(g) -> Nat] /\ rs \in Seq(Blocks(g))
      /\ wk \in Seq(Blocks(g)) /\ Linked(g) /\ Routed(g)
  BY LenProperties, EmptySeq DEF Kinds, Tidy, Linked
<1>2. u \in Seq(Blocks(g)) /\ x \in Blocks(g) /\ Members(wk) = Members(u) \cup {x}
  BY <1>1, FrontOfList
<1>3. /\ Alike(g, ls, ls2)
      /\ \A l \in 1..T : /\ ls2[l].parent = ls[l].parent /\ ls2[l].subs = ls[l].subs
                         /\ ls2[l].blocks = IF l = T THEN Append(ls[l].blocks, x) ELSE ls[l].blocks
  BY <1>1, <1>2, JoinLoopsAre
<1>4. ls2 \in Seq(LoopOf(g)) /\ Len(ls2) = T /\ ls2 # <<>> /\ \A l \in 1..T : ls2[l].header = ls[l].header
  BY <1>1, <1>3, EmptySeq DEF Alike
<1>5. \A l \in 1..T : In(ls2, l) = IF l = T THEN In(ls, T) \cup {x} ELSE In(ls, l)
  <2> SUFFICES ASSUME NEW l \in 1..T
               PROVE  In(ls2, l) = IF l = T THEN In(ls, T) \cup {x} ELSE In(ls, l)
    OBVIOUS
  <2>1. CASE l # T
    BY <1>3, <2>1 DEF In
  <2>2. CASE l = T
    <3>1. ls[T].blocks \in Seq(Blocks(g)) /\ ls2[T].blocks = Append(ls[T].blocks, x)
      BY <1>1, <1>3, LoopKinds
    <3>2. Members(Append(ls[T].blocks, x)) = Members(ls[T].blocks) \cup {x}
      BY <1>2, <3>1, AppendIs
    <3> QED BY <2>2, <3>1, <3>2 DEF In
  <2> QED BY <2>1, <2>2
<1>6. /\ wk2 \in Seq(Blocks(g)) /\ Members(wk2) = Members(u) \cup Members(g.preds[x])
      /\ Members(g.preds[x]) = {p \in Blocks(g) : x \in Succ(g, p)}
  <2> HIDE DEF u
  <2>1. g.preds[x] \in Seq(Blocks(g)) /\ Members(g.preds[x]) = {p \in Blocks(g) : x \in Succ(g, p)}
    BY <1>1, <1>2, PredsAre
  <2>2. wk2 = u \o g.preds[x]
    BY DEF u
  <2> DEFINE pr == g.preds[x]
  <2> HIDE DEF pr
  <2>3. u \o pr \in Seq(Blocks(g)) /\ Members(u \o pr) = Members(u) \cup Members(pr)
    BY <1>2, <2>1, MembersConcat DEF pr
  <2> QED BY <2>1, <2>2, <2>3 DEF pr
<1>7. inl2 \in [Blocks(g) -> Nat] /\ \A b \in Blocks(g) : inl2[b] = IF b = x THEN T ELSE inl[b]
  BY <1>1, <1>2
<1>8. \A l \in 1..T : x \notin In(ls, l) /\ x # ls[l].header
  BY <1>2 DEF LoopsSo, Claimed, Headed
<1> HIDE DEF u
<1>9. Headed(g, ls2, rs)
  BY <1>1, <1>3, <1>5, HeadedAlike DEF LoopsSo
<1>10. Claimed(g, ls2, inl2)
  <2> SUFFICES ASSUME NEW b \in Blocks(g)
               PROVE  /\ inl2[b] \in 0..T
                      /\ inl2[b] = 0 => \A l \in 1..T : b \notin In(ls2, l)
                      /\ inl2[b] # 0 => /\ b \in In(ls2, inl2[b])
                                        /\ \A m \in 1..T : m < inl2[b] => b \notin In(ls2, m)
    BY <1>4 DEF Claimed
  <2>1. /\ inl[b] \in 0..T
        /\ inl[b] = 0 => \A l \in 1..T : b \notin In(ls, l)
        /\ inl[b] # 0 => /\ b \in In(ls, inl[b])
                         /\ \A m \in 1..T : m < inl[b] => b \notin In(ls, m)
    BY DEF LoopsSo, Claimed
  <2>2. CASE b = x
    <3>1. inl2[b] = T /\ b \in In(ls2, T)
      BY <1>1, <1>5, <1>7, <2>2
    <3>2. \A m \in 1..T : m < T => b \notin In(ls2, m)
      BY <1>1, <1>5, <1>8, <2>2
    <3> QED BY <1>1, <3>1, <3>2
  <2>3. CASE b # x
    <3>1. inl2[b] = inl[b] /\ \A l \in 1..T : b \in In(ls2, l) <=> b \in In(ls, l)
      BY <1>1, <1>5, <1>7, <2>3
    <3>2. inl[b] # 0 => inl[b] \in 1..T
      BY <2>1
    <3> QED BY <2>1, <3>1, <3>2
  <2> QED BY <2>2, <2>3
<1>11. Nested(ls2)
  <2> SUFFICES ASSUME NEW l \in 1..T
               PROVE  /\ ls2[l].parent \in 0..T /\ ls2[l].parent # l
                      /\ ls2[l].parent = 0 => \A m \in 1..T : m # l => ls2[l].header \notin In(ls2, m)
                      /\ ls2[l].parent # 0 =>
                            /\ ls2[l].header \in In(ls2, ls2[l].parent)
                            /\ \A m \in 1..T : m # l /\ m < ls2[l].parent => ls2[l].header \notin In(ls2, m)
    BY <1>4 DEF Nested
  <2>1. ls2[l].parent = ls[l].parent /\ ls2[l].header = ls[l].header
    BY <1>3, <1>4
  <2>2. \A m \in 1..T : ls[l].header \in In(ls2, m) <=> ls[l].header \in In(ls, m)
    BY <1>5, <1>8
  <2>3. /\ ls[l].parent \in 0..T /\ ls[l].parent # l
        /\ ls[l].parent = 0 => \A m \in 1..T : m # l => ls[l].header \notin In(ls, m)
        /\ ls[l].parent # 0 => /\ ls[l].header \in In(ls, ls[l].parent)
                               /\ \A m \in 1..T : m # l /\ m < ls[l].parent => ls[l].header \notin In(ls, m)
    BY DEF LoopsSo, Nested
  <2>4. ls[l].parent # 0 => ls[l].parent \in 1..T
    BY <2>3
  <2> QED BY <2>1, <2>2, <2>3, <2>4
<1>12. Listed(ls2)
  BY <1>3, <1>4 DEF LoopsSo, Listed
<1>13. ASSUME NEW l \in 1..T PROVE Unrepeated(ls2[l].blocks)
  <2>1. Unrepeated(ls[l].blocks) /\ ls[l].blocks \in Seq(Blocks(g))
    BY <1>1, LoopKinds DEF LoopsSo
  <2>2. x \notin Members(ls[l].blocks)
    BY <1>8 DEF In
  <2>3. Unrepeated(Append(ls[l].blocks, x))
    BY <1>2, <2>1, <2>2, UnrepeatedAppend
  <2> QED BY <1>3, <2>1, <2>3
<1>14. Whole(g, ls2, T - 1)
  <2>1. \A l \in 1..(T - 1) : l \in 1..T /\ l # T
    BY <1>1
  <2> QED BY <1>4, <1>5, <2>1 DEF Whole
<1>15. Walking(g, ls2, inl2, wk2)
  <2>1. /\ In(ls, T) \subseteq N /\ Members(wk) \subseteq N
        /\ \A m \in 1..T : m # T /\ In(ls, T) \cap In(ls, m) # {} => In(ls, m) \subseteq In(ls, T)
        /\ Back(g, h) \subseteq In(ls, T) \cup Members(wk)
        /\ \A y \in In(ls, T) \ {h} : \A p \in Blocks(g) : y \in Succ(g, p) => p \in In(ls, T) \cup Members(wk)
        /\ \A z \in Members(wk) : \E y \in In(ls, T) :
              /\ y \in Succ(g, z)
              /\ inl[y] = T \/ \E m \in 1..T : ls[m].header = y /\ ls[m].parent = T
    BY DEF Walking
  <2> DEFINE I == In(ls, T)
             I2 == In(ls2, T)
             P == Members(g.preds[x])
  <2>2. I2 = I \cup {x} /\ Members(wk2) = Members(u) \cup P /\ Members(wk) = Members(u) \cup {x}
    BY <1>1, <1>2, <1>5, <1>6
  <2>3. x \in N /\ x # h /\ P \subseteq N
    <3>1. x \in N /\ x # h
      BY <1>1, <1>2, <1>8, <2>1
    <3> QED BY <1>1, <1>6, <3>1, NaturalLeast
  <2>4. h = ls2[T].header
    BY <1>1, <1>4
  <2> HIDE DEF N, h
  <2>5. I2 \subseteq N /\ Members(wk2) \subseteq N
    BY <2>1, <2>2, <2>3
  <2>6. ASSUME NEW m \in 1..T, m # T, I2 \cap In(ls2, m) # {} PROVE In(ls2, m) \subseteq I2
    <3>1. In(ls2, m) = In(ls, m) /\ x \notin In(ls, m)
      BY <1>5, <1>8, <2>6
    <3>2. I \cap In(ls, m) # {}
      BY <2>2, <2>6, <3>1
    <3> QED BY <2>1, <2>2, <2>6, <3>1, <3>2
  <2>7. Back(g, h) \subseteq I2 \cup Members(wk2)
    BY <2>1, <2>2
  <2>8. ASSUME NEW y \in I2 \ {h}, NEW p \in Blocks(g), y \in Succ(g, p) PROVE p \in I2 \cup Members(wk2)
    BY <1>6, <2>1, <2>2, <2>8
  <2>9. ASSUME NEW z \in Members(wk2)
        PROVE  \E y \in I2 : /\ y \in Succ(g, z)
                             /\ inl2[y] = T \/ \E m \in 1..T : ls2[m].header = y /\ ls2[m].parent = T
    <3>1. CASE z \in P
      <4>1. x \in I2 /\ x \in Succ(g, z) /\ inl2[x] = T
        BY <1>2, <1>6, <1>7, <2>2, <3>1
      <4> QED BY <4>1
    <3>2. CASE z \notin P
      <4>1. z \in Members(wk)
        BY <2>2, <2>9, <3>2
      <4>2. PICK y \in I : /\ y \in Succ(g, z)
                           /\ inl[y] = T \/ \E m \in 1..T : ls[m].header = y /\ ls[m].parent = T
        BY <2>1, <4>1
      <4>3. y \in Blocks(g)
        BY <1>1, <4>2, LoopKinds
      <4>4. inl[y] = T => inl2[y] = T
        BY <1>7, <4>3
      <4>5. (\E m \in 1..T : ls[m].header = y /\ ls[m].parent = T)
              => \E m \in 1..T : ls2[m].header = y /\ ls2[m].parent = T
        BY <1>3, <1>4
      <4>6. y \in I2
        BY <2>2, <4>2
      <4> QED BY <4>2, <4>4, <4>5, <4>6
    <3> QED BY <3>1, <3>2
  <2> DEFINE U == Members(wk2)
  <2> HIDE DEF I, U
  <2>10. /\ I2 \subseteq Natural(g, h) /\ U \subseteq Natural(g, h)
         /\ \A m \in 1..T : m # T /\ I2 \cap In(ls2, m) # {} => In(ls2, m) \subseteq I2
         /\ Back(g, h) \subseteq I2 \cup U
         /\ \A y \in I2 \ {h} : \A p \in Blocks(g) : y \in Succ(g, p) => p \in I2 \cup U
         /\ \A z \in U : \E y \in I2 : 
               /\ y \in Succ(g, z)
               /\ inl2[y] = T \/ \E m \in 1..T : ls2[m].header = y /\ ls2[m].parent = T
    BY <2>5, <2>6, <2>7, <2>8, <2>9 DEF N, U
  <2> QED BY <1>4, <2>4, <2>10 DEF Walking, U
<1>16. Kinds(g, ls2, inl2, rs, wk2)
  BY <1>1, <1>4, <1>6, <1>7 DEF Kinds
<1> QED BY <1>4, <1>9, <1>10, <1>11, <1>12, <1>13, <1>14, <1>15, <1>16 DEF LoopsSo

-----------------------------------------------------------------------------
(* The walk over a loop begins and ends.                                   *)

\* A block that is in a loop is not one that is still to be reached.
LEMMA RestUnclaimed ==
    ASSUME NEW g, Tidy(g), NEW ls, NEW inl, NEW rs, NEW wk, Kinds(g, ls, inl, rs, wk),
           LoopsSo(g, ls, inl, rs), Whole(g, ls, Len(ls)), NEW b \in Members(rs)
    PROVE  inl[b] = 0 /\ \A l \in 1..Len(ls) : b \notin In(ls, l)
<1>1. ls \in Seq(LoopOf(g)) /\ Len(ls) \in Nat /\ b \in Blocks(g) /\ Routed(g) /\ Clean(g)
  BY LenProperties DEF Kinds, Members, Tidy, Linked
<1>2. ASSUME NEW l \in 1..Len(ls) PROVE b \notin In(ls, l)
  <2>1. In(ls, l) = Natural(g, ls[l].header)
    BY DEF Whole
  <2>2. ~Dominates(g, ls[l].header, b)
    BY DEF LoopsSo, Headed
  <2>3. \A z \in Natural(g, ls[l].header) : Dominates(g, ls[l].header, z)
    BY <1>1, HeaderDominates
  <2> QED BY <2>1, <2>2, <2>3
<1>3. inl[b] \in 0..Len(ls) /\ (inl[b] # 0 => b \in In(ls, inl[b]))
  BY <1>1 DEF LoopsSo, Claimed
<1> QED BY <1>1, <1>2, <1>3

\* The blocks to be reached are the next one and the others, in their order.
LEMMA TailOfRest ==
    ASSUME NEW S, NEW s \in Seq(S), s # <<>>
    PROVE  /\ Tail(s) \in Seq(S) /\ Head(s) \in S /\ Members(s) = {Head(s)} \cup Members(Tail(s))
           /\ Len(s) \in Nat /\ Len(Tail(s)) = Len(s) - 1 /\ Head(s) = s[1] /\ 1 \in 1..Len(s)
           /\ \A i \in 1..Len(Tail(s)) : Tail(s)[i] = s[i + 1] /\ i + 1 \in 1..Len(s)
<1> DEFINE t == Tail(s)
           N == Len(s)
<1>1. /\ N \in Nat /\ N # 0 /\ DOMAIN s = 1..N /\ \A i \in 1..N : s[i] \in S
  BY LenProperties, EmptySeq
<1>2. /\ t \in Seq(S) /\ Len(t) = N - 1 /\ \A i \in 1..Len(t) : t[i] = s[i + 1]
  BY HeadTailProperties
<1>3. Head(s) = s[1]
  OBVIOUS
<1>4. DOMAIN t = 1..(N - 1)
  BY <1>2, LenProperties
<1> HIDE DEF t, N
<1>5. Members(s) = {s[1]} \cup Members(t)
  <2>1. ASSUME NEW i \in 1..N PROVE s[i] \in {s[1]} \cup Members(t)
    <3>1. CASE i # 1
      <4>1. i - 1 \in 1..(N - 1) /\ (i - 1) + 1 = i
        BY <1>1, <3>1
      <4>2. t[i - 1] = s[i]
        BY <1>2, <4>1
      <4> QED BY <1>4, <4>1, <4>2 DEF Members
    <3> QED BY <3>1
  <2>2. ASSUME NEW i \in 1..(N - 1) PROVE t[i] \in Members(s)
    <3>1. i + 1 \in 1..N
      BY <1>1
    <3> QED BY <1>1, <1>2, <3>1 DEF Members
  <2>3. s[1] \in Members(s)
    BY <1>1 DEF Members
  <2> QED BY <1>1, <1>4, <2>1, <2>2, <2>3 DEF Members
<1>6. 1 \in 1..N /\ \A i \in 1..Len(t) : i + 1 \in 1..N
  BY <1>1, <1>2
<1> QED BY <1>1, <1>2, <1>3, <1>5, <1>6 DEF t, N

\* A block that no back edge leads to is passed over.
LEMMA SkipKeeps ==
    ASSUME NEW g, NEW ls, NEW inl, NEW rs, NEW wk, Kinds(g, ls, inl, rs, wk),
           LoopsSo(g, ls, inl, rs), rs # <<>>, Back(g, Head(rs)) = {}
    PROVE  Kinds(g, ls, inl, Tail(rs), wk) /\ LoopsSo(g, ls, inl, Tail(rs))
<1> DEFINE t == Tail(rs)
<1>1. rs \in Seq(Blocks(g))
  BY DEF Kinds
<1>2. /\ t \in Seq(Blocks(g)) /\ Members(rs) = {Head(rs)} \cup Members(t)
      /\ Len(rs) \in Nat /\ Len(t) = Len(rs) - 1
      /\ \A i \in 1..Len(t) : t[i] = rs[i + 1] /\ i + 1 \in 1..Len(rs)
  BY <1>1, TailOfRest
<1> HIDE DEF t
<1>3. \A i, j \in 1..Len(t) : i < j => ~Dominates(g, t[i], t[j])
  <2> TAKE i, j \in 1..Len(t)
  <2>1. i + 1 \in 1..Len(rs) /\ j + 1 \in 1..Len(rs) /\ (i < j => i + 1 < j + 1)
    BY <1>2
  <2>2. t[i] = rs[i + 1] /\ t[j] = rs[j + 1]
    BY <1>2
  <2> QED BY <2>1, <2>2 DEF LoopsSo, Headed
<1>4. Headed(g, ls, t)
  <2>1. Headed(g, ls, rs)
    BY DEF LoopsSo
  <2> QED BY <1>2, <1>3, <2>1 DEF Headed
<1>5. Kinds(g, ls, inl, t, wk) /\ LoopsSo(g, ls, inl, t)
  BY <1>2, <1>4 DEF Kinds, LoopsSo
<1> QED BY <1>5 DEF t

\* A block that has back edges starts a loop.
LEMMA BeginKeeps ==
    ASSUME NEW g, Tidy(g), NEW ls, NEW inl, NEW rs, NEW wk, Kinds(g, ls, inl, rs, wk),
           LoopsSo(g, ls, inl, rs), Whole(g, ls, Len(ls)),
           rs # <<>>, NEW b, b = Head(rs), Back(g, b) # {},
           NEW new, new = [header |-> b, latches |-> Back(g, b), blocks |-> <<b>>, subs |-> <<>>, parent |-> 0],
           NEW ls2, ls2 = Append(ls, new), NEW inl2, inl2 = [inl EXCEPT ![b] = Len(ls) + 1],
           NEW wk2 \in Seq(Blocks(g)), Members(wk2) = Back(g, b)
    PROVE  /\ Kinds(g, ls2, inl2, Tail(rs), wk2) /\ LoopsSo(g, ls2, inl2, Tail(rs))
           /\ Whole(g, ls2, Len(ls2) - 1) /\ ls2 # <<>> /\ Walking(g, ls2, inl2, wk2)
<1> DEFINE n == Len(ls)
           T == n + 1
           t == Tail(rs)
<1>1. /\ ls \in Seq(LoopOf(g)) /\ n \in Nat /\ rs \in Seq(Blocks(g)) /\ inl \in [Blocks(g) -> Nat]
      /\ Routed(g)
  BY LenProperties DEF Kinds, Tidy, Linked
<1>2. /\ t \in Seq(Blocks(g)) /\ Members(rs) = {b} \cup Members(t) /\ b \in Blocks(g)
      /\ Len(rs) \in Nat /\ Len(t) = Len(rs) - 1 /\ b = rs[1] /\ 1 \in 1..Len(rs)
      /\ \A i \in 1..Len(t) : t[i] = rs[i + 1] /\ i + 1 \in 1..Len(rs)
  BY <1>1, TailOfRest
<1>3. b \in Members(rs)
  BY <1>2
<1>4. inl[b] = 0 /\ \A l \in 1..n : b \notin In(ls, l)
  BY <1>3, RestUnclaimed
<1>5. b \in Reachable(g) /\ Dominates(g, b, b)
  <2>1. PICK p : p \in Back(g, b)
    OBVIOUS
  <2> QED BY <1>1, <2>1, DominatesIs, DominatesSelf DEF Back
<1>6. \A l \in 1..n : ls[l].header # b
  BY <1>3, <1>5 DEF LoopsSo, Headed
<1>7. new \in LoopOf(g) /\ new.header = b /\ new.latches = Back(g, b) /\ new.blocks = <<b>> /\ new.subs = <<>>
      /\ new.parent = 0
  <2>1. <<b>> \in Seq(Blocks(g))
    BY <1>2
  <2>2. <<>> \in Seq(Nat) /\ Back(g, b) \subseteq Blocks(g)
    BY DEF Back
  <2> QED BY <1>2, <2>1, <2>2 DEF LoopOf
<1> HIDE DEF t
<1>8. /\ ls2 \in Seq(LoopOf(g)) /\ Len(ls2) = T /\ \A l \in 1..n : ls2[l] = ls[l]
      /\ ls2[T] = new /\ ls2 # <<>>
  <2>1. ls2 \in Seq(LoopOf(g)) /\ Len(ls2) = T
    BY <1>1, <1>7, AppendIs
  <2>2. (\A l \in 1..n : ls2[l] = ls[l]) /\ ls2[T] = new
    BY <1>1, <1>7, AppendProperties
  <2>3. T # 0
    BY <1>1
  <2>4. ls2 # <<>>
    <3> HIDE DEF T
    <3> QED BY <2>1, <2>3, EmptySeq
  <2> QED BY <2>1, <2>2, <2>4
<1>9. /\ \A l \in 1..n : l \in 1..T /\ l # T /\ In(ls2, l) = In(ls, l)
      /\ T \in 1..T /\ (\A l \in 1..T : l # T => l \in 1..n) /\ In(ls2, T) = {b}
  <2>1. In(ls2, T) = {b}
    BY <1>2, <1>7, <1>8, MembersOne DEF In
  <2>2. \A l \in 1..n : In(ls2, l) = In(ls, l)
    BY <1>8 DEF In
  <2>3. (\A l \in 1..n : l \in 1..T /\ l # T) /\ T \in 1..T /\ (\A l \in 1..T : l # T => l \in 1..n)
    BY <1>1
  <2> HIDE DEF T, n
  <2> QED BY <2>1, <2>2, <2>3
<1>10. inl2 \in [Blocks(g) -> Nat] /\ \A c \in Blocks(g) : inl2[c] = IF c = b THEN T ELSE inl[c]
  BY <1>1, <1>2
<1>11. Headed(g, ls2, t)
  <2>0. Headed(g, ls, rs)
    BY DEF LoopsSo
  <2>1. ASSUME NEW l \in 1..T
        PROVE  /\ Back(g, ls2[l].header) # {} /\ ls2[l].latches = Back(g, ls2[l].header)
               /\ ls2[l].header \in In(ls2, l)
               /\ \A m \in 1..T : m < l => ~Dominates(g, ls2[m].header, ls2[l].header)
               /\ \A y \in Members(t) : ~Dominates(g, ls2[l].header, y)
    <3>1. CASE l # T
      <4>1. l \in 1..n /\ \A m \in 1..T : m < l => m \in 1..n
        BY <1>1, <1>9, <3>1
      <4> QED BY <1>2, <1>8, <1>9, <2>0, <4>1 DEF Headed
    <3>2. CASE l = T
      <4>1. \A m \in 1..T : m < T => m \in 1..n
        BY <1>1
      <4>2. \A m \in 1..n : ~Dominates(g, ls[m].header, b)
        BY <1>3, <2>0 DEF Headed
      <4>3. ASSUME NEW y \in Members(t) PROVE ~Dominates(g, b, y)
        <5>1. PICK i \in 1..Len(t) : y = t[i]
          BY <1>2, LenProperties DEF Members
        <5>2. y = rs[i + 1] /\ i + 1 \in 1..Len(rs) /\ 1 < i + 1
          BY <1>2, <5>1
        <5> QED BY <1>2, <2>0, <5>2 DEF Headed
      <4>4. /\ Back(g, ls2[T].header) # {} /\ ls2[T].latches = Back(g, ls2[T].header)
            /\ ls2[T].header \in In(ls2, T)
        BY <1>7, <1>8, <1>9
      <4>5. \A m \in 1..T : m < T => ~Dominates(g, ls2[m].header, ls2[T].header)
        BY <1>7, <1>8, <4>1, <4>2
      <4> QED BY <1>7, <1>8, <3>2, <4>3, <4>4, <4>5
    <3> QED BY <3>1, <3>2
  <2>2. \A i, j \in 1..Len(t) : i < j => ~Dominates(g, t[i], t[j])
    <3> TAKE i, j \in 1..Len(t)
    <3>1. i + 1 \in 1..Len(rs) /\ j + 1 \in 1..Len(rs) /\ (i < j => i + 1 < j + 1)
      BY <1>2
    <3>2. t[i] = rs[i + 1] /\ t[j] = rs[j + 1]
      BY <1>2
    <3> QED BY <2>0, <3>1, <3>2 DEF Headed
  <2>3. ASSUME NEW c, Back(g, c) # {} PROVE c \in Members(t) \/ \E l \in 1..T : ls2[l].header = c
    <3>1. c \in Members(rs) \/ \E l \in 1..n : ls[l].header = c
      BY <2>0, <2>3 DEF Headed
    <3>2. c = b => ls2[T].header = c /\ T \in 1..T
      BY <1>7, <1>8, <1>9
    <3>3. (\E l \in 1..n : ls[l].header = c) => \E l \in 1..T : ls2[l].header = c
      BY <1>8, <1>9
    <3> QED BY <1>2, <3>1, <3>2, <3>3
  <2> HIDE DEF T
  <2>4. \A l \in 1..T :
          /\ Back(g, ls2[l].header) # {} /\ ls2[l].latches = Back(g, ls2[l].header)
          /\ ls2[l].header \in In(ls2, l)
          /\ \A m \in 1..T : m < l => ~Dominates(g, ls2[m].header, ls2[l].header)
          /\ \A y \in Members(t) : ~Dominates(g, ls2[l].header, y)
    BY <2>1
  <2>5. \A c : Back(g, c) # {} => c \in Members(t) \/ \E l \in 1..T : ls2[l].header = c
    BY <2>3
  <2>6. Len(ls2) = T
    BY <1>8
  <2> QED BY ONLY <2>2, <2>4, <2>5, <2>6 DEF Headed
<1>12. Claimed(g, ls2, inl2)
  <2> SUFFICES ASSUME NEW c \in Blocks(g)
               PROVE  /\ inl2[c] \in 0..T
                      /\ inl2[c] = 0 => \A l \in 1..T : c \notin In(ls2, l)
                      /\ inl2[c] # 0 => /\ c \in In(ls2, inl2[c])
                                        /\ \A m \in 1..T : m < inl2[c] => c \notin In(ls2, m)
    BY <1>8 DEF Claimed
  <2>1. /\ inl[c] \in 0..n
        /\ inl[c] = 0 => \A l \in 1..n : c \notin In(ls, l)
        /\ inl[c] # 0 => /\ c \in In(ls, inl[c])
                         /\ \A m \in 1..n : m < inl[c] => c \notin In(ls, m)
    BY DEF LoopsSo, Claimed
  <2>2. CASE c = b
    <3>1. inl2[c] = T /\ c \in In(ls2, T)
      BY <1>9, <1>10, <2>2
    <3>2. \A m \in 1..T : m < T => c \notin In(ls2, m)
      <4> TAKE m \in 1..T
      <4>1. m < T => m \in 1..n
        BY <1>1
      <4> QED BY <1>4, <1>9, <2>2, <4>1
    <3>3. T \in 0..T
      BY <1>1
    <3>4. T # 0
      BY <1>1
    <3> HIDE DEF T
    <3> QED BY <3>1, <3>2, <3>3, <3>4
  <2>3. CASE c # b
    <3>1. inl2[c] = inl[c] /\ \A l \in 1..n : In(ls2, l) = In(ls, l)
      BY <1>9, <1>10, <2>3
    <3>2. c \notin In(ls2, T) /\ inl[c] \in 0..T
      BY <1>1, <1>9, <2>1, <2>3
    <3>3. inl[c] # 0 => inl[c] \in 1..n
      BY <2>1
    <3>4. ASSUME NEW l \in 1..T, c \in In(ls2, l) PROVE l \in 1..n /\ c \in In(ls, l)
      BY <1>9, <3>1, <3>2, <3>4
    <3>5. inl[c] = 0 => \A l \in 1..T : c \notin In(ls2, l)
      BY <2>1, <3>4
    <3>6. inl[c] # 0 => c \in In(ls2, inl[c]) /\ \A m \in 1..T : m < inl[c] => c \notin In(ls2, m)
      BY <2>1, <3>1, <3>3, <3>4
    <3> QED BY <3>1, <3>2, <3>5, <3>6
  <2> QED BY <2>2, <2>3
<1>13. Nested(ls2)
  <2> SUFFICES ASSUME NEW l \in 1..T
               PROVE  /\ ls2[l].parent \in 0..T /\ ls2[l].parent # l
                      /\ ls2[l].parent = 0 => \A m \in 1..T : m # l => ls2[l].header \notin In(ls2, m)
                      /\ ls2[l].parent # 0 =>
                            /\ ls2[l].header \in In(ls2, ls2[l].parent)
                            /\ \A m \in 1..T : m # l /\ m < ls2[l].parent => ls2[l].header \notin In(ls2, m)
    BY <1>8 DEF Nested
  <2>1. CASE l = T
    <3>1. ls2[l].parent = 0 /\ ls2[l].header = b
      BY <1>7, <1>8, <2>1
    <3>2. \A m \in 1..T : m # l => b \notin In(ls2, m)
      BY <1>4, <1>9, <2>1
    <3>3. 0 \in 0..T /\ T # 0
      BY <1>1
    <3> HIDE DEF T
    <3> QED BY <2>1, <3>1, <3>2, <3>3
  <2>2. CASE l # T
    <3>1. l \in 1..n /\ ls2[l] = ls[l] /\ ls[l].header # b
      BY <1>6, <1>8, <1>9, <2>2
    <3>2. /\ ls[l].parent \in 0..n /\ ls[l].parent # l
          /\ ls[l].parent = 0 => \A m \in 1..n : m # l => ls[l].header \notin In(ls, m)
          /\ ls[l].parent # 0 => /\ ls[l].header \in In(ls, ls[l].parent)
                                 /\ \A m \in 1..n : m # l /\ m < ls[l].parent => ls[l].header \notin In(ls, m)
      BY <3>1 DEF LoopsSo, Nested
    <3>3. ASSUME NEW m \in 1..T, ls[l].header \in In(ls2, m) PROVE m \in 1..n /\ ls[l].header \in In(ls, m)
      BY <1>9, <3>1, <3>3
    <3>4. ls[l].parent \in 0..T /\ (ls[l].parent # 0 => ls[l].parent \in 1..n)
      BY <1>1, <3>2
    <3>5. ls[l].parent = 0 => \A m \in 1..T : m # l => ls[l].header \notin In(ls2, m)
      BY <3>2, <3>3
    <3>6. ls[l].parent # 0 => /\ ls[l].header \in In(ls2, ls[l].parent)
                              /\ \A m \in 1..T : m # l /\ m < ls[l].parent => ls[l].header \notin In(ls2, m)
      BY <1>9, <3>2, <3>3, <3>4
    <3> QED BY <3>1, <3>2, <3>4, <3>5, <3>6
  <2> QED BY <2>1, <2>2
<1>14. Listed(ls2)
  <2> SUFFICES ASSUME NEW k \in 1..T, NEW l \in Nat
               PROVE  Occurrences(ls2[k].subs, l) = IF l \in 1..T /\ ls2[l].parent = k THEN 1 ELSE 0
    BY <1>8 DEF Listed
  <2>1. \A m \in 1..n : ls[m].parent \in 0..n
    BY DEF LoopsSo, Nested
  <2>2. CASE k = T
    <3>1. Occurrences(<<>>, l) = 0
      <4>1. <<>> \in Seq(Nat) /\ l \notin Members(<<>>)
        BY DEF Members
      <4> QED BY ONLY <4>1, l \in Nat, OccurrencesMember
    <3>2. ASSUME l \in 1..T PROVE ls2[l].parent # T
      BY <1>1, <1>7, <1>8, <1>9, <2>1, <3>2
    <3> QED BY <1>7, <1>8, <2>2, <3>1, <3>2
  <2>3. CASE k # T
    <3>1. k \in 1..n /\ ls2[k].subs = ls[k].subs
      BY <1>8, <1>9, <2>3
    <3>2. Occurrences(ls[k].subs, l) = IF l \in 1..n /\ ls[l].parent = k THEN 1 ELSE 0
      BY <3>1 DEF LoopsSo, Listed
    <3>3. (l \in 1..T /\ ls2[l].parent = k) <=> (l \in 1..n /\ ls[l].parent = k)
      BY <1>1, <1>7, <1>8, <1>9, <3>1
    <3> QED BY <3>1, <3>2, <3>3
  <2> QED BY <2>2, <2>3
<1>15. ASSUME NEW l \in 1..T PROVE Unrepeated(ls2[l].blocks)
  <2>1. Unrepeated(<<b>>)
    BY DEF Unrepeated
  <2> QED BY <1>7, <1>8, <1>9, <2>1 DEF LoopsSo
<1>16. Whole(g, ls2, T - 1)
  <2>1. T - 1 = n
    BY <1>1
  <2> QED BY <1>8, <1>9, <2>1 DEF Whole
<1>17. Walking(g, ls2, inl2, wk2)
  <2> DEFINE N == Natural(g, b)
  <2>1. b \in N /\ Back(g, b) \subseteq N
    BY <1>1, NaturalLeast
  <2>2. ASSUME NEW m \in 1..T, m # T, {b} \cap In(ls2, m) # {} PROVE In(ls2, m) \subseteq {b}
    BY <1>4, <1>9, <2>2
  <2>3. ASSUME NEW x \in Back(g, b)
        PROVE  \E y \in {b} : y \in Succ(g, x) /\ (inl2[y] = T \/ \E m \in 1..T : ls2[m].header = y /\ ls2[m].parent = T)
    BY <1>2, <1>10 DEF Back
  <2>4. ls2[T].header = b /\ In(ls2, T) = {b}
    BY <1>7, <1>8, <1>9
  <2>5. Members(wk2) = Back(g, b)
    OBVIOUS
  <2> DEFINE I == In(ls2, T)
             U == Members(wk2)
  <2>7. I = {b} /\ U = Back(g, b)
    BY <2>4, <2>5
  <2> HIDE DEF T, I, U, N
  <2>6. /\ I \subseteq N /\ U \subseteq N
        /\ \A m \in 1..T : m # T /\ I \cap In(ls2, m) # {} => In(ls2, m) \subseteq I
        /\ Back(g, b) \subseteq I \cup U
        /\ \A y \in I \ {b} : \A p \in Blocks(g) : y \in Succ(g, p) => p \in I \cup U
        /\ \A x \in U : \E y \in I :
              /\ y \in Succ(g, x)
              /\ inl2[y] = T \/ \E m \in 1..T : ls2[m].header = y /\ ls2[m].parent = T
    BY <2>1, <2>2, <2>3, <2>7
  <2>8. Len(ls2) = T
    BY <1>8
  <2> QED BY ONLY <2>4, <2>6, <2>8 DEF Walking, I, U, N
<1>18. Kinds(g, ls2, inl2, t, wk2)
  BY <1>2, <1>8, <1>10 DEF Kinds
<1>19. LoopsSo(g, ls2, inl2, t)
  BY <1>8, <1>11, <1>12, <1>13, <1>14, <1>15 DEF LoopsSo
<1> QED BY <1>8, <1>16, <1>17, <1>18, <1>19 DEF t

\* When nothing is left to go back from, the loop is complete.
LEMMA EndKeeps ==
    ASSUME NEW g, Tidy(g), NEW ls, NEW inl, NEW rs, NEW wk, Kinds(g, ls, inl, rs, wk),
           LoopsSo(g, ls, inl, rs), Whole(g, ls, Len(ls) - 1), ls # <<>>, Walking(g, ls, inl, wk), wk = <<>>
    PROVE  Whole(g, ls, Len(ls))
<1> DEFINE T == Len(ls)
           I == In(ls, T)
           h == ls[T].header
<1>1. ls \in Seq(LoopOf(g)) /\ T \in Nat /\ T \in 1..T /\ Routed(g) /\ I \subseteq Blocks(g)
  BY LenProperties, EmptySeq, LoopKinds DEF Kinds, Tidy, Linked
<1>2. Members(wk) = {}
  BY DEF Members
<1>3. /\ I \subseteq Natural(g, h) /\ Back(g, h) \subseteq I
      /\ \A y \in I \ {h} : \A p \in Blocks(g) : y \in Succ(g, p) => p \in I
  BY <1>2 DEF Walking
<1>4. h \in I
  BY <1>1 DEF LoopsSo, Headed
<1> HIDE DEF I, h
<1>5. Natural(g, h) \subseteq I
  <2>1. Natural(g, h) \subseteq Blocks(g)
    BY <1>1, NaturalLeast
  <2>2. \A y \in (I \cap Natural(g, h)) \ {h} : \A p \in Natural(g, h) : y \in Succ(g, p) => p \in I
    BY <1>3, <2>1
  <2> QED BY <1>1, <1>3, <1>4, <2>2, NaturalLeast
<1>6. I = Natural(g, h)
  BY <1>3, <1>5
<1>7. \A l \in 1..T : l = T \/ l \in 1..(T - 1)
  BY <1>1
<1> QED BY <1>6, <1>7 DEF Whole, I, h

-----------------------------------------------------------------------------
(* A block of the work list is passed over, or leads into a loop.          *)

\* A block of this loop, or of a loop in it, adds nothing.
LEMMA PassKeeps ==
    ASSUME NEW g, NEW ls, NEW inl, NEW rs, NEW wk, Kinds(g, ls, inl, rs, wk),
           LoopsSo(g, ls, inl, rs), ls # <<>>, Walking(g, ls, inl, wk),
           wk # <<>>, NEW x, x = wk[Len(wk)], inl[x] # 0, inl[x] = Len(ls) \/ ls[inl[x]].parent = Len(ls),
           NEW wk2, wk2 = SubSeq(wk, 1, Len(wk) - 1)
    PROVE  Kinds(g, ls, inl, rs, wk2) /\ Walking(g, ls, inl, wk2)
<1> DEFINE T == Len(ls)
           s == inl[x]
           I == In(ls, T)
           h == ls[T].header
<1>1. /\ T \in Nat /\ T \in 1..T /\ wk \in Seq(Blocks(g))
  BY LenProperties, EmptySeq DEF Kinds
<1>2. wk2 \in Seq(Blocks(g)) /\ x \in Blocks(g) /\ Members(wk) = Members(wk2) \cup {x}
  BY <1>1, FrontOfList
<1>3. s \in 1..T /\ x \in In(ls, s)
  <2>1. inl[x] \in 0..Len(ls) /\ (inl[x] # 0 => x \in In(ls, inl[x]))
    BY <1>2 DEF LoopsSo, Claimed
  <2> QED BY <2>1
<1>4. /\ I \subseteq Natural(g, h) /\ Members(wk) \subseteq Natural(g, h)
      /\ \A m \in 1..T : m # T /\ I \cap In(ls, m) # {} => In(ls, m) \subseteq I
      /\ Back(g, h) \subseteq I \cup Members(wk)
      /\ \A y \in I \ {h} : \A p \in Blocks(g) : y \in Succ(g, p) => p \in I \cup Members(wk)
      /\ \A z \in Members(wk) : \E y \in I :
            /\ y \in Succ(g, z)
            /\ inl[y] = T \/ \E m \in 1..T : ls[m].header = y /\ ls[m].parent = T
  BY DEF Walking
<1>5. x \in I
  <2>1. CASE s = T
    BY <1>3, <2>1
  <2>2. CASE s # T
    <3>1. ls[s].parent = T
      BY <2>2
    <3>2. ls[s].header \in I /\ ls[s].header \in In(ls, s)
      BY <1>1, <1>3, <3>1 DEF LoopsSo, Nested, Headed
    <3>3. In(ls, s) \subseteq I
      BY <1>3, <1>4, <2>2, <3>2
    <3> QED BY <1>3, <3>3
  <2> QED BY <2>1, <2>2
<1> DEFINE U == Members(wk2)
<1> HIDE DEF I, U, h, T
<1>6. /\ I \subseteq Natural(g, h) /\ U \subseteq Natural(g, h)
      /\ \A m \in 1..T : m # T /\ I \cap In(ls, m) # {} => In(ls, m) \subseteq I
      /\ Back(g, h) \subseteq I \cup U
      /\ \A y \in I \ {h} : \A p \in Blocks(g) : y \in Succ(g, p) => p \in I \cup U
      /\ \A z \in U : \E y \in I :
            /\ y \in Succ(g, z)
            /\ inl[y] = T \/ \E m \in 1..T : ls[m].header = y /\ ls[m].parent = T
  <2>1. U \subseteq Members(wk) /\ Members(wk) \subseteq I \cup U
    BY <1>2, <1>5 DEF U
  <2> QED BY <1>4, <2>1
<1>7. Walking(g, ls, inl, wk2)
  BY ONLY <1>6 DEF Walking, I, U, h, T
<1> QED BY <1>2, <1>7 DEF Kinds

\* The work list, its last block replaced by the predecessors of b.
WorkOn(g, wk, b) == SubSeq(wk, 1, Len(wk) - 1) \o g.preds[b]

\* A loop that the walk has met becomes one of this loop.
LEMMA NestKeeps ==
    ASSUME NEW g, Tidy(g), NEW ls, NEW inl, NEW rs, NEW wk, Kinds(g, ls, inl, rs, wk),
           LoopsSo(g, ls, inl, rs), Whole(g, ls, Len(ls) - 1), ls # <<>>, Walking(g, ls, inl, wk),
           wk # <<>>, NEW x, x = wk[Len(wk)],
           inl[x] # 0, inl[x] # Len(ls), ls[inl[x]].parent # Len(ls),
           NEW ls2, ls2 = NestLoops(ls, inl[x]),
           NEW wk2, wk2 = WorkOn(g, wk, ls[inl[x]].header)
    PROVE  /\ inl[x] \in 1..Len(ls) /\ ls[inl[x]].parent = 0
           /\ Kinds(g, ls2, inl, rs, wk2) /\ LoopsSo(g, ls2, inl, rs)
           /\ Whole(g, ls2, Len(ls2) - 1) /\ ls2 # <<>> /\ Walking(g, ls2, inl, wk2)
<1> DEFINE T == Len(ls)
           s == inl[x]
           u == SubSeq(wk, 1, Len(wk) - 1)
           h == ls[T].header
           a == ls[s].header
           I == In(ls, T)
           I2 == In(ls2, T)
           N == Natural(g, h)
           P == Members(g.preds[a])
<1>1. /\ T \in Nat /\ T \in 1..T /\ ls \in Seq(LoopOf(g)) /\ inl \in [Blocks(g) -> Nat] /\ rs \in Seq(Blocks(g))
      /\ wk \in Seq(Blocks(g)) /\ Linked(g) /\ Routed(g) /\ Clean(g)
  BY LenProperties, EmptySeq DEF Kinds, Tidy, Linked
<1>2. u \in Seq(Blocks(g)) /\ x \in Blocks(g) /\ Members(wk) = Members(u) \cup {x}
  BY <1>1, FrontOfList
<1>3. s \in 0..T /\ x \in In(ls, s)
  BY <1>2 DEF LoopsSo, Claimed
<1>4. s \in 1..T /\ s \in 1..(T - 1) /\ s < T
  BY <1>1, <1>3
<1>5. ls[s].parent = 0
  <2>1. x \in Members(wk)
    BY <1>2
  <2>2. Headed(g, ls, rs) /\ Claimed(g, ls, inl) /\ Nested(ls)
    BY DEF LoopsSo
  <2>3. ls \in Seq(LoopOf(g))
    BY DEF Kinds
  <2> HIDE DEF T
  <2> QED BY <1>2, <2>1, <2>2, <2>3, MetIsTop
<1>6. /\ Alike(g, ls, ls2)
      /\ \A l \in 1..T :
           /\ ls2[l].parent = IF l = s THEN T ELSE ls[l].parent
           /\ ls2[l].subs = IF l = T THEN Append(ls[l].subs, s) ELSE ls[l].subs
           /\ ls2[l].blocks = IF l = T THEN ls[l].blocks \o ls[s].blocks ELSE ls[l].blocks
  BY <1>1, <1>4, NestLoopsAre
<1>7. ls2 \in Seq(LoopOf(g)) /\ Len(ls2) = T /\ ls2 # <<>> /\ \A l \in 1..T : ls2[l].header = ls[l].header
  BY <1>1, <1>6, EmptySeq DEF Alike
<1>8. I2 = I \cup In(ls, s) /\ \A l \in 1..T : l # T => In(ls2, l) = In(ls, l)
  <2>1. \A l \in 1..T : l # T => In(ls2, l) = In(ls, l)
    BY <1>6 DEF In
  <2>2. ls[T].blocks \in Seq(Blocks(g)) /\ ls[s].blocks \in Seq(Blocks(g))
    BY <1>1, <1>4, LoopKinds
  <2>3. ls2[T].blocks = ls[T].blocks \o ls[s].blocks
    BY <1>1, <1>6
  <2>4. Members(ls[T].blocks \o ls[s].blocks) = Members(ls[T].blocks) \cup Members(ls[s].blocks)
    BY <2>2, MembersConcat
  <2> QED BY <2>1, <2>3, <2>4 DEF In
<1>9. /\ I \subseteq N /\ Members(wk) \subseteq N
      /\ \A m \in 1..T : m # T /\ I \cap In(ls, m) # {} => In(ls, m) \subseteq I
      /\ Back(g, h) \subseteq I \cup Members(wk)
      /\ \A y \in I \ {h} : \A p \in Blocks(g) : y \in Succ(g, p) => p \in I \cup Members(wk)
      /\ \A z \in Members(wk) : \E y \in I :
            /\ y \in Succ(g, z)
            /\ inl[y] = T \/ \E m \in 1..T : ls[m].header = y /\ ls[m].parent = T
  BY DEF Walking
<1>10. /\ \A l \in 1..T : ls[l].header \in In(ls, l) /\ ls[l].header \in Blocks(g)
       /\ \A m \in 1..T : m # s => a \notin In(ls, m)
       /\ ~Dominates(g, a, h)
  <2>1. \A l \in 1..T : ls[l].header \in In(ls, l) /\ ls[l].header \in Blocks(g)
    BY <1>1, LoopKinds DEF LoopsSo, Headed
  <2>2. \A m \in 1..T : m # s => a \notin In(ls, m)
    BY <1>4, <1>5 DEF LoopsSo, Nested
  <2>3. ~Dominates(g, a, h)
    BY <1>1, <1>4 DEF LoopsSo, Headed
  <2> QED BY <2>1, <2>2, <2>3
<1>11. In(ls, s) = Natural(g, a) /\ \A m \in 1..T : m # T => In(ls, m) = Natural(g, ls[m].header)
  <2>1. \A m \in 1..T : m # T => m \in 1..(T - 1)
    BY <1>1
  <2> QED BY <1>4, <2>1 DEF Whole
<1>12. a \in N /\ a # h /\ Natural(g, a) \subseteq N
  <2>1. x \in N /\ x \in Natural(g, a)
    BY <1>2, <1>3, <1>9, <1>11
  <2>2. a \in N /\ Natural(g, a) \subseteq N
    BY <1>1, <1>10, <2>1, LoopsShare
  <2>3. a # h
    BY <1>1, <1>4, <1>10
  <2> QED BY <2>2, <2>3
<1>13. I \cap In(ls, s) = {}
  <2> SUFFICES ASSUME I \cap In(ls, s) # {} PROVE FALSE
    OBVIOUS
  <2>1. In(ls, s) \subseteq I
    BY <1>4, <1>9
  <2> QED BY <1>1, <1>4, <1>10, <2>1
<1>14. /\ wk2 \in Seq(Blocks(g)) /\ Members(wk2) = Members(u) \cup P
       /\ P = {p \in Blocks(g) : a \in Succ(g, p)}
  <2> DEFINE pr == g.preds[a]
  <2>1. a \in Blocks(g)
    BY <1>4, <1>10
  <2> HIDE DEF u, a
  <2>2. pr \in Seq(Blocks(g)) /\ Members(pr) = {p \in Blocks(g) : a \in Succ(g, p)}
    BY <1>1, <2>1, PredsAre
  <2>3. wk2 = u \o pr
    BY DEF u, a, WorkOn
  <2> HIDE DEF pr
  <2>4. u \o pr \in Seq(Blocks(g)) /\ Members(u \o pr) = Members(u) \cup Members(pr)
    BY <1>2, <2>2, MembersConcat
  <2> QED BY <2>2, <2>3, <2>4 DEF pr
<1>15. Headed(g, ls2, rs)
  <2>1. \A l \in 1..T : In(ls, l) \subseteq In(ls2, l)
    BY <1>8
  <2> QED BY <1>1, <1>6, <2>1, HeadedAlike DEF LoopsSo
<1>16. Claimed(g, ls2, inl)
  <2> SUFFICES ASSUME NEW b \in Blocks(g)
               PROVE  /\ inl[b] \in 0..T
                      /\ inl[b] = 0 => \A l \in 1..T : b \notin In(ls2, l)
                      /\ inl[b] # 0 => /\ b \in In(ls2, inl[b])
                                       /\ \A m \in 1..T : m < inl[b] => b \notin In(ls2, m)
    BY <1>7 DEF Claimed
  <2>1. /\ inl[b] \in 0..T
        /\ inl[b] = 0 => \A l \in 1..T : b \notin In(ls, l)
        /\ inl[b] # 0 => /\ b \in In(ls, inl[b])
                         /\ \A m \in 1..T : m < inl[b] => b \notin In(ls, m)
    BY DEF LoopsSo, Claimed
  <2>2. inl[b] = 0 => \A l \in 1..T : b \notin In(ls2, l)
    BY <1>4, <1>8, <2>1
  <2>3. ASSUME inl[b] # 0 PROVE b \in In(ls2, inl[b])
    <3>1. inl[b] \in 1..T
      BY <2>1, <2>3
    <3> QED BY <1>8, <2>1, <2>3, <3>1
  <2>4. ASSUME inl[b] # 0, NEW m \in 1..T, m < inl[b] PROVE b \notin In(ls2, m)
    <3>1. m # T
      BY <1>1, <2>1, <2>4
    <3> QED BY <1>8, <2>1, <2>4, <3>1
  <2> QED BY <2>1, <2>2, <2>3, <2>4
<1>17. Nested(ls2)
  <2> SUFFICES ASSUME NEW l \in 1..T
               PROVE  /\ ls2[l].parent \in 0..T /\ ls2[l].parent # l
                      /\ ls2[l].parent = 0 => \A m \in 1..T : m # l => ls2[l].header \notin In(ls2, m)
                      /\ ls2[l].parent # 0 =>
                            /\ ls2[l].header \in In(ls2, ls2[l].parent)
                            /\ \A m \in 1..T : m # l /\ m < ls2[l].parent => ls2[l].header \notin In(ls2, m)
    BY <1>7 DEF Nested
  <2>1. ls2[l].header = ls[l].header
    BY <1>7
  <2>2. CASE l = s
    <3>1. ls2[l].parent = T /\ ls[l].header = a
      BY <1>6, <2>2
    <3>2. a \in In(ls2, T)
      BY <1>4, <1>8, <1>10
    <3>3. ASSUME NEW m \in 1..T, m # s, m < T PROVE a \notin In(ls2, m)
      <4>1. m # T
        BY <1>1, <3>3
      <4> QED BY <1>8, <1>10, <3>3, <4>1
    <3>4. T \in 0..T /\ T # 0
      BY <1>1
    <3> HIDE DEF T
    <3> QED BY <1>4, <2>1, <2>2, <3>1, <3>2, <3>3, <3>4
  <2>3. CASE l # s
    <3>1. ls2[l].parent = ls[l].parent
      BY <1>6, <2>3
    <3>2. /\ ls[l].parent \in 0..T /\ ls[l].parent # l
          /\ ls[l].parent = 0 => \A m \in 1..T : m # l => ls[l].header \notin In(ls, m)
          /\ ls[l].parent # 0 => /\ ls[l].header \in In(ls, ls[l].parent)
                                 /\ \A m \in 1..T : m # l /\ m < ls[l].parent => ls[l].header \notin In(ls, m)
      BY DEF LoopsSo, Nested
    <3>3. ASSUME ls[l].parent = 0, NEW m \in 1..T, m # l PROVE ls[l].header \notin In(ls2, m)
      BY <1>4, <1>8, <2>3, <3>2, <3>3
    <3>4. ASSUME ls[l].parent # 0 PROVE ls[l].header \in In(ls2, ls[l].parent)
      <4>1. ls[l].parent \in 1..T
        BY <3>2, <3>4
      <4> QED BY <1>8, <3>2, <3>4, <4>1
    <3>5. ASSUME ls[l].parent # 0, NEW m \in 1..T, m # l, m < ls[l].parent PROVE ls[l].header \notin In(ls2, m)
      <4>1. m # T
        BY <1>1, <3>2, <3>5
      <4> QED BY <1>8, <3>2, <3>5, <4>1
    <3> QED BY <2>1, <3>1, <3>2, <3>3, <3>4, <3>5
  <2> QED BY <2>2, <2>3
<1>18. Listed(ls2)
  <2> SUFFICES ASSUME NEW k \in 1..T, NEW l \in Nat
               PROVE  Occurrences(ls2[k].subs, l) = IF l \in 1..T /\ ls2[l].parent = k THEN 1 ELSE 0
    BY <1>7 DEF Listed
  <2>1. Occurrences(ls[k].subs, l) = IF l \in 1..T /\ ls[l].parent = k THEN 1 ELSE 0
    BY DEF LoopsSo, Listed
  <2>2. CASE k # T
    <3>1. ls2[k].subs = ls[k].subs
      BY <1>6, <2>2
    <3>2. l \in 1..T => (ls2[l].parent = k <=> ls[l].parent = k)
      <4>1. k # 0
        OBVIOUS
      <4> QED BY <1>5, <1>6, <2>2, <4>1
    <3> QED BY <2>1, <3>1, <3>2
  <2>3. CASE k = T
    <3>1. ls[T].subs \in Seq(Nat) /\ s \in Nat
      BY <1>1, <1>4, LoopKinds
    <3>2. ls2[T].subs = Append(ls[T].subs, s)
      BY <1>1, <1>6
    <3> DEFINE sb == ls[T].subs
    <3> HIDE DEF sb
    <3>3. Occurrences(Append(sb, s), l) = IF s = l THEN Occurrences(sb, l) + 1 ELSE Occurrences(sb, l)
      BY <3>1, OccurrencesAppend DEF sb
    <3>4. CASE l = s
      <4>1. Occurrences(sb, l) = 0
        BY <1>1, <1>4, <1>5, <2>1, <2>3, <3>4 DEF sb
      <4>2. ls2[l].parent = T /\ l \in 1..T
        BY <1>4, <1>6, <3>4
      <4> QED BY <2>3, <3>2, <3>3, <3>4, <4>1, <4>2 DEF sb
    <3>5. CASE l # s
      <4>1. l \in 1..T => ls2[l].parent = ls[l].parent
        BY <1>6, <3>5
      <4> QED BY <2>1, <2>3, <3>2, <3>3, <3>5, <4>1 DEF sb
    <3> QED BY <3>4, <3>5
  <2> QED BY <2>2, <2>3
<1>19. ASSUME NEW l \in 1..T PROVE Unrepeated(ls2[l].blocks)
  <2>1. CASE l # T
    BY <1>6, <2>1 DEF LoopsSo
  <2>2. CASE l = T
    <3> DEFINE p == ls[T].blocks
               q == ls[s].blocks
    <3>1. p \in Seq(Blocks(g)) /\ q \in Seq(Blocks(g)) /\ Unrepeated(p) /\ Unrepeated(q)
      BY <1>1, <1>4, LoopKinds DEF LoopsSo
    <3>2. Members(p) \cap Members(q) = {}
      BY <1>13 DEF In
    <3>3. ls2[T].blocks = p \o q
      BY <1>1, <1>6
    <3> HIDE DEF p, q
    <3> QED BY <2>2, <3>1, <3>2, <3>3, UnrepeatedConcat
  <2> QED BY <2>1, <2>2
<1>20. Whole(g, ls2, T - 1)
  <2>1. \A l \in 1..(T - 1) : l \in 1..T /\ l # T
    BY <1>1
  <2> QED BY <1>7, <1>8, <1>11, <2>1 DEF Whole
<1>21. Walking(g, ls2, inl, wk2)
  <2> DEFINE U == Members(wk2)
             K == In(ls, s)
  <2>1. h = ls2[T].header /\ Len(ls2) = T
    BY <1>1, <1>7
  <2>2. a \in K /\ x \in K
    BY <1>3, <1>4, <1>10
  <2> HIDE DEF T, u, h, a, I, N, P, U, K
  <2>3. I2 = I \cup K /\ U = Members(u) \cup P /\ Members(wk) = Members(u) \cup {x}
    BY <1>2, <1>8, <1>14 DEF K, U
  <2>4. I2 \subseteq N
    BY <1>9, <1>11, <1>12, <2>3 DEF K
  <2>5. U \subseteq N
    <3>1. P \subseteq N
      BY <1>1, <1>12, <1>14, NaturalLeast DEF N
    <3> QED BY <1>9, <2>3, <3>1
  <2>6. ASSUME NEW m \in 1..T, m # T, I2 \cap In(ls2, m) # {} PROVE In(ls2, m) \subseteq I2
    <3>1. In(ls2, m) = In(ls, m)
      BY <1>8, <2>6
    <3>2. CASE I \cap In(ls, m) # {}
      BY <1>9, <2>3, <2>6, <3>1, <3>2
    <3>3. CASE K \cap In(ls, m) # {}
      <4>1. CASE m = s
        BY <2>3, <3>1, <4>1 DEF K
      <4>2. CASE m # s
        <5>1. PICK z : z \in K /\ z \in In(ls, m)
          BY <3>3
        <5>2. z \in Natural(g, a) /\ z \in Natural(g, ls[m].header)
          BY <1>11, <2>6, <5>1 DEF K
        <5>3. a \notin Natural(g, ls[m].header)
          BY <1>10, <1>11, <2>6, <4>2
        <5>4. Natural(g, ls[m].header) \subseteq Natural(g, a)
          BY <1>1, <5>2, <5>3, LoopsShare
        <5>5. In(ls, m) \subseteq K
          BY <1>11, <2>6, <5>4 DEF K
        <5> QED BY <2>3, <3>1, <5>5
      <4> QED BY <4>1, <4>2
    <3> QED BY <2>3, <2>6, <3>1, <3>2, <3>3
  <2>7. Back(g, h) \subseteq I2 \cup U
    BY <1>9, <2>2, <2>3
  <2>8. ASSUME NEW y \in I2 \ {h}, NEW p \in Blocks(g), y \in Succ(g, p) PROVE p \in I2 \cup U
    <3>1. CASE y \in I
      BY <1>9, <2>2, <2>3, <2>8, <3>1
    <3>2. CASE y = a
      BY <1>14, <2>3, <2>8, <3>2
    <3>3. CASE y \in K /\ y # a
      <4>1. y \in Natural(g, a)
        BY <1>11, <3>3 DEF K
      <4>2. p \in Natural(g, a)
        BY <1>1, <2>8, <3>3, <4>1, NaturalLeast
      <4> QED BY <1>11, <2>3, <4>2 DEF K
    <3> QED BY <2>3, <2>8, <3>1, <3>2, <3>3
  <2>9. ASSUME NEW z \in U
        PROVE  \E y \in I2 : /\ y \in Succ(g, z)
                             /\ inl[y] = T \/ \E m \in 1..T : ls2[m].header = y /\ ls2[m].parent = T
    <3>1. CASE z \in P
      <4>1. a \in I2 /\ a \in Succ(g, z)
        BY <1>14, <2>2, <2>3, <3>1
      <4>2. ls2[s].header = a /\ ls2[s].parent = T
        BY <1>4, <1>6, <1>7 DEF a
      <4> QED BY <1>4, <4>1, <4>2
    <3>2. CASE z \in Members(wk)
      <4>1. PICK y \in I : /\ y \in Succ(g, z)
                           /\ inl[y] = T \/ \E m \in 1..T : ls[m].header = y /\ ls[m].parent = T
        BY <1>9, <3>2
      <4>2. (\E m \in 1..T : ls[m].header = y /\ ls[m].parent = T)
              => \E m \in 1..T : ls2[m].header = y /\ ls2[m].parent = T
        BY <1>6, <1>7
      <4>3. y \in I2
        BY <2>3, <4>1
      <4> QED BY <4>1, <4>2, <4>3
    <3> QED BY <2>3, <2>9, <3>1, <3>2
  <2>10. /\ I2 \subseteq Natural(g, h) /\ U \subseteq Natural(g, h)
         /\ \A m \in 1..T : m # T /\ I2 \cap In(ls2, m) # {} => In(ls2, m) \subseteq I2
         /\ Back(g, h) \subseteq I2 \cup U
         /\ \A y \in I2 \ {h} : \A p \in Blocks(g) : y \in Succ(g, p) => p \in I2 \cup U
         /\ \A z \in U : \E y \in I2 :
               /\ y \in Succ(g, z)
               /\ inl[y] = T \/ \E m \in 1..T : ls2[m].header = y /\ ls2[m].parent = T
    BY <2>4, <2>5, <2>6, <2>7, <2>8, <2>9 DEF N
  <2> QED BY ONLY <2>1, <2>10 DEF Walking, U
<1>22. Kinds(g, ls2, inl, rs, wk2)
  BY <1>1, <1>7, <1>14 DEF Kinds
<1>23. LoopsSo(g, ls2, inl, rs)
  BY <1>7, <1>15, <1>16, <1>17, <1>18, <1>19 DEF LoopsSo
<1> QED BY <1>4, <1>5, <1>7, <1>20, <1>21, <1>22, <1>23

-----------------------------------------------------------------------------
(* From the dominators to the loops.                                       *)

\* Where the runner of create_dominance_frontier has been and was not lost,
\* control comes from blocks that it has reached.
LEMMA CleanOfBlock ==
    ASSUME Linked(cfg), PostOrder(cfg, post), TreeRight(cfg, idom), NEW b \in Reachable(cfg),
           Dom!None \notin Walked(b), NEW p \in Blocks(cfg), b \in Succ(cfg, p)
    PROVE  p \in Reachable(cfg)
<1> DEFINE P == Members(cfg.preds[b])
<1>1. /\ Routed(cfg) /\ b \in Blocks(cfg) /\ b # Entry /\ p \in P /\ cfg.preds[b] \in Seq(Blocks(cfg))
      /\ \A q \in Reachable(cfg) : q \in Blocks(cfg)
  BY LiveLeast DEF Linked
<1>2. CASE Len(cfg.preds[b]) > 1
  <2>1. SUFFICES ASSUME p \notin Reachable(cfg) PROVE FALSE
    OBVIOUS
  <2>2. Child(cfg, idom[b], b)
    BY <1>1 DEF TreeRight
  <2>3. idom[b] \in Reachable(cfg)
    BY <1>1, <2>2, ChildIs, DominatesIs
  <2>4. Dom!None \in Dom!Walk(p, idom[b])
    BY <2>1, <2>3, WalkFromDead
  <2> QED BY <1>1, <1>2, <2>4 DEF Walked
<1>3. CASE ~(Len(cfg.preds[b]) > 1)
  <2>1. PICK q \in Reachable(cfg) : b \in Succ(cfg, q)
    BY <1>1, FirstArrival
  <2>2. q \in P
    BY <1>1, <2>1 DEF Linked
  <2>3. PICK i \in 1..Len(cfg.preds[b]) : cfg.preds[b][i] = p
    BY <1>1 DEF Members
  <2>4. PICK j \in 1..Len(cfg.preds[b]) : cfg.preds[b][j] = q
    BY <1>1, <2>2 DEF Members
  <2>5. Len(cfg.preds[b]) \in Nat
    BY <1>1
  <2>6. i = j
    BY <1>3, <2>3, <2>4, <2>5
  <2> QED BY <2>1, <2>3, <2>4, <2>6
<1> QED BY <1>2, <1>3

\* The analysis has come to the end of its frontiers only where this is so.
CleanSoFar ==
    /\ phase = "frontier" =>
          \A b \in Reachable(cfg) : b < at => \A p \in Blocks(cfg) : b \in Succ(cfg, p) => p \in Reachable(cfg)
    /\ phase \in {"number", "done"} => Clean(cfg)

\* The runner is what finds it out; a dead predecessor would have lost it.
LEMMA CleanStep ==
    ASSUME BuilderInv, Structured, DomInv, CleanSoFar, [LNext]_<<vars, lvars>>
    PROVE  CleanSoFar'
<1>1. CASE UNCHANGED dvars /\ UNCHANGED bvars
  <2>1. cfg' = cfg /\ phase' = phase /\ at' = at
    BY <1>1 DEF dvars, bvars
  <2> QED BY <2>1 DEF CleanSoFar
<1>2. CASE Build
  <2>1. outcome = "running" /\ phase' = phase
    BY <1>2, BuildStepRuns DEF Build, dvars
  <2>2. phase' = "idle"
    BY <2>1 DEF DomInv
  <2> QED BY <2>2 DEF CleanSoFar
<1>3. CASE Analyse
  <2>1. outcome = "done" /\ Dom!Analyse /\ cfg' = cfg
    BY <1>3 DEF Analyse, bvars
  <2>2. Linked(cfg) /\ Routed(cfg)
    BY <2>1, BuiltLinked DEF Linked
  <2>3. CASE phase' \notin {"frontier", "number", "done"}
    BY <2>3 DEF CleanSoFar
  <2>4. CASE Dom!IdomRoundEnds
    <3>1. at' = 1 /\ phase' \in {"idom", "frontier"}
      BY <2>4 DEF Dom!IdomRoundEnds
    <3>2. \A b \in Reachable(cfg) : b \in Nat \ {0}
      BY <2>2, LiveLeast DEF Blocks
    <3>3. \A b \in Reachable(cfg) : ~(b < 1)
      BY <3>2
    <3> QED BY <2>1, <3>1, <3>3 DEF CleanSoFar
  <2>5. CASE Dom!FrontierOfBlock
    <3>1. phase = "frontier" /\ phase' \in {"lost", "frontier"} /\ Framing /\ at <= cfg.n
      BY <2>5 DEF Dom!FrontierOfBlock, DomInv
    <3>2. CASE phase' = "lost"
      BY <3>2 DEF CleanSoFar
    <3>3. CASE phase' = "frontier"
      <4>1. Dom!Members(cfg.preds[at]) = Members(cfg.preds[at])
        BY SameGraph
      <4>2. Dom!None \notin Walked(at) /\ at' = at + 1
        BY <2>5, <3>3, <4>1 DEF Dom!FrontierOfBlock, Walked
      <4>3. PostOrder(cfg, post) /\ TreeRight(cfg, idom) /\ at \in Nat
        BY <3>1 DEF Framing
      <4>4. ASSUME NEW b \in Reachable(cfg), b < at', NEW p \in Blocks(cfg), b \in Succ(cfg, p)
            PROVE  p \in Reachable(cfg)
        <5>1. b \in Nat
          BY <2>2, LiveLeast DEF Blocks
        <5>2. b < at \/ b = at
          BY <4>2, <4>3, <4>4, <5>1
        <5>3. CASE b < at
          BY <3>1, <4>4, <5>3 DEF CleanSoFar
        <5>4. CASE b = at
          BY <2>2, <4>2, <4>3, <4>4, <5>4, CleanOfBlock
        <5> QED BY <5>2, <5>3, <5>4
      <4> QED BY <2>1, <3>3, <4>4 DEF CleanSoFar
    <3> QED BY <3>1, <3>2, <3>3
  <2>6. CASE Dom!FrontierEnds
    <3>1. phase = "frontier" /\ phase' = "number" /\ at > cfg.n /\ Framing
      BY <2>6 DEF Dom!FrontierEnds, DomInv
    <3>2. at \in Nat /\ cfg.n \in Nat /\ Reachable(cfg) \subseteq Blocks(cfg)
      BY <2>2, <3>1, LiveLeast DEF Framing, Routed
    <3>3. \A b \in Blocks(cfg) : b < at
      BY <3>1, <3>2 DEF Blocks
    <3>4. Clean(cfg)
      BY <3>1, <3>2, <3>3 DEF CleanSoFar, Clean
    <3> QED BY <2>1, <3>1, <3>4 DEF CleanSoFar
  <2>7. ASSUME NEW c \in Dom!Blocks(cfg), Dom!NumberDown(c)
        PROVE  CleanSoFar'
    <3>1. phase = "number" /\ phase' = "number"
      BY <2>7 DEF Dom!NumberDown
    <3> QED BY <2>1, <3>1 DEF CleanSoFar
  <2>8. CASE Dom!NumberUp
    <3>1. phase = "number" /\ phase' \in {"number", "done"}
      BY <2>8 DEF Dom!NumberUp
    <3> QED BY <2>1, <3>1 DEF CleanSoFar
  <2>9. CASE Dom!Enter \/ Dom!OrderDown \/ Dom!OrderUp \/ Dom!OrderEnds \/ Dom!IdomOfBlock
    <3>1. phase' \in {"order", "idom"}
      BY <2>9 DEF Dom!Enter, Dom!OrderDown, Dom!OrderUp, Dom!OrderEnds, Dom!IdomOfBlock
    <3> QED BY <2>3, <3>1
  <2> QED BY <2>1, <2>4, <2>5, <2>6, <2>7, <2>8, <2>9 DEF Dom!Analyse
<1>4. CASE Start \/ Detect
  BY <1>1, <1>4 DEF Start, Detect
<1>5. CASE UNCHANGED <<vars, lvars>>
  BY <1>1, <1>5 DEF vars, bvars
<1> QED BY <1>2, <1>3, <1>4, <1>5 DEF LNext, Analysing, DNext

\* When the analysis is done, it stays so.
LEMMA DoneStays ==
    ASSUME DomInv, phase = "done", [LNext]_<<vars, lvars>>
    PROVE  UNCHANGED <<bvars, dvars>>
<1>1. outcome = "done"
  BY DEF DomInv
<1>2. ~Build
  BY <1>1, BuildStepRuns DEF Build
<1>3. ~Analyse
  <2>1. \A c : ~Dom!NumberDown(c)
    BY DEF Dom!NumberDown
  <2> QED BY <2>1 DEF Analyse, Dom!Analyse, Dom!Enter, Dom!OrderDown, Dom!OrderUp, Dom!OrderEnds, Dom!IdomOfBlock,
          Dom!IdomRoundEnds, Dom!FrontierOfBlock, Dom!FrontierEnds, Dom!NumberUp
<1> QED BY <1>2, <1>3 DEF LNext, Analysing, DNext, Start, Detect, vars, bvars

\* What LoopDetection calls its graph is the same.
LEMMA SameLoopGraph ==
    /\ Detection!NoLoop = 0 /\ Detection!Entry = Entry
    /\ \A s : Detection!Members(s) = Members(s)
    /\ \A g : Detection!Blocks(g) = Blocks(g)
    /\ \A g, b : Detection!Targets(g, b) = Targets(g, b)
    /\ \A S : Detection!Cardinality(S) = Cardinality(S)
    /\ \A s, x : Detection!Occurrences(s, x) = Occurrences(s, x)
<1>1. \A S : Detection!Cardinality(S) = Cardinality(S)
  BY DEF Detection!Cardinality, Cardinality, Detection!IsFiniteSet, IsFiniteSet
<1>2. \A s, x : Detection!Occurrences(s, x) = Occurrences(s, x)
  BY <1>1 DEF Detection!Occurrences, Occurrences
<1>3. \A g, b : Detection!Targets(g, b) = Targets(g, b)
  BY DEF Detection!Targets, Targets
<1> QED BY <1>1, <1>2, <1>3 DEF Detection!NoLoop, Detection!Entry, Entry, Detection!Members, Members,
       Detection!Blocks, Blocks

\* So are the paths through it.
LEMMA SameLoopPaths ==
    ASSUME NEW g
    PROVE  /\ \A S, next : Detection!Closure(g, S, next) = Closure(g, S, next)
           /\ Detection!Dominance(g) = Dominance(g)
<1>1. \A S, next : Detection!Closure(g, S, next) = Closure(g, S, next)
  BY DEF Detection!Closure, Closure, Detection!Blocks, Blocks
<1>3. \A S, avoid : Detection!ReachableAvoiding(g, S, avoid) = ReachableAvoiding(g, S, avoid)
  BY <1>1, SameLoopGraph DEF Detection!ReachableAvoiding, ReachableAvoiding
<1>4. Detection!Reachable(g) = Reachable(g)
  BY <1>3, SameLoopGraph DEF Detection!Reachable, Reachable
<1> DEFINE Avoid(a)  == ReachableAvoiding(g, {Entry}, {a})
           DetAvoid(a) == Detection!ReachableAvoiding(g, {Entry}, {a})
           Row(a)     == {<<a, b>> : b \in Reachable(g) \ Avoid(a)}
           DetRow(a)  == {<<a, b>> : b \in Reachable(g) \ DetAvoid(a)}
<1>5. Dominance(g) = UNION {Row(a) : a \in Reachable(g)}
  BY DEF Dominance
<1>6. Detection!Dominance(g) = UNION {DetRow(a) : a \in Reachable(g)}
  BY <1>4, SameLoopGraph DEF Detection!Dominance
<1>7. \A a : DetAvoid(a) = Avoid(a)
  BY <1>3
<1> HIDE DEF Avoid, DetAvoid
<1>8. \A a : DetRow(a) = Row(a)
  BY <1>7
<1> HIDE DEF Row, DetRow
<1> QED BY <1>1, <1>5, <1>6, <1>8

\* What LoopDetection has found out so far.
Finding ==
    IF lphase = "idle" THEN Detection!LoopIdle
    ELSE /\ phase = "done" /\ lphase \in {"headers", "discover", "found"} /\ dom = Dominance(cfg)
         /\ Kinds(cfg, loops, inLoop, rest, work) /\ LoopsSo(cfg, loops, inLoop, rest)
         /\ lphase # "discover" => Whole(cfg, loops, Len(loops))
         /\ lphase = "discover" =>
               /\ loops # <<>> /\ Whole(cfg, loops, Len(loops) - 1)
               /\ Walking(cfg, loops, inLoop, work)
         /\ lphase = "found" => rest = <<>>

\* The function that the dominator analysis has been through.
LEMMA AnalysedTidy ==
    ASSUME BuilderInv, Structured, DomInv, CleanSoFar, phase = "done"
    PROVE  Tidy(cfg)
<1>1. outcome = "done" /\ Clean(cfg)
  BY DEF DomInv, CleanSoFar
<1>2. Linked(cfg)
  BY <1>1, BuiltLinked
<1>3. \E J : Laid(cfg, J)
  BY <1>1 DEF Structured
<1> QED BY <1>1, <1>2, <1>3 DEF Tidy

\* The latches are the sources of the edges back.
LEMMA LatchesAre ==
    ASSUME Linked(cfg), dom = Dominance(cfg), NEW b \in Blocks(cfg)
    PROVE  Detection!Latches(b) = Back(cfg, b)
<1>1. Members(cfg.preds[b]) = {p \in Blocks(cfg) : b \in Succ(cfg, p)}
  BY PredsAre
<1>2. Detection!Latches(b) = {p \in Members(cfg.preds[b]) : <<b, p>> \in dom}
  BY SameLoopGraph DEF Detection!Latches
<1> QED BY <1>1, <1>2 DEF Back, Dominates

\* The answers that the dominator analysis gives.
LEMMA AnswersAre ==
    ASSUME Linked(cfg), Numbering, path = <<>>
    PROVE  LET d  == {e \in Members(dfsOrder) \X Members(dfsOrder) : Dom!IsDominate(e[1], e[2])}
               rs == [i \in DOMAIN dfsOrder |-> dfsOrder[Len(dfsOrder) + 1 - i]]
           IN  /\ d = Dominance(cfg) /\ rs \in Seq(Blocks(cfg))
               /\ \A i, j \in 1..Len(rs) : i < j => ~Dominates(cfg, rs[i], rs[j])
               /\ \A b : Back(cfg, b) # {} => b \in Members(rs)
<1> DEFINE R == Reachable(cfg)
           n == Len(dfsOrder)
           d == {e \in Members(dfsOrder) \X Members(dfsOrder) : Dom!IsDominate(e[1], e[2])}
           rs == [i \in DOMAIN dfsOrder |-> dfsOrder[n + 1 - i]]
<1>1. /\ Members(dfsOrder) = R /\ Routed(cfg)
      /\ \A a, b \in R : Dom!IsDominate(a, b) <=> Dominates(cfg, a, b)
  BY NumberingEnds DEF Linked
<1>2. d = Dominance(cfg)
  <2>1. d = {e \in R \X R : Dominates(cfg, e[1], e[2])}
    BY <1>1
  <2>2. ASSUME NEW e \in Dominance(cfg) PROVE e \in R \X R /\ Dominates(cfg, e[1], e[2])
    <3>1. PICK a \in R : e \in {<<a, b>> : b \in R \ ReachableAvoiding(cfg, {Entry}, {a})}
      BY DEF Dominance
    <3>2. PICK b \in R : e = <<a, b>>
      BY <3>1
    <3> QED BY <3>2 DEF Dominates
  <2>3. ASSUME NEW e \in R \X R, Dominates(cfg, e[1], e[2]) PROVE e \in Dominance(cfg)
    <3>1. e = <<e[1], e[2]>>
      OBVIOUS
    <3> QED BY <2>3, <3>1 DEF Dominates
  <2> HIDE DEF d, R
  <2> QED BY <2>1, <2>2, <2>3
<1>3. /\ n \in Nat /\ DOMAIN dfsOrder = 1..n /\ dfsOrder \in Seq(Blocks(cfg))
      /\ \A i \in 1..n : dfsOrder[i] \in Entered /\ left[dfsOrder[i]] = i
      /\ Entered \subseteq Blocks(cfg)
  BY LenProperties DEF Numbering, Entered
<1>4. \A i \in 1..n : n + 1 - i \in 1..n
  BY <1>3
<1>5. rs \in [1..n -> Blocks(cfg)]
  BY <1>3, <1>4
<1>6. rs \in Seq(Blocks(cfg)) /\ Len(rs) = n /\ \A i \in 1..n : rs[i] = dfsOrder[n + 1 - i]
  <2>1. \A i \in 1..n : rs[i] = dfsOrder[n + 1 - i]
    BY <1>3
  <2>2. DOMAIN rs = 1..n
    BY <1>3
  <2> HIDE DEF rs
  <2>3. rs \in Seq(Blocks(cfg))
    <3>1. \A S : Seq(S) = UNION {[1..m -> S] : m \in Nat}
      BY SeqDef
    <3> QED BY <1>3, <1>5, <3>1
  <2> QED BY <1>3, <2>1, <2>2, <2>3, LenProperties
<1> HIDE DEF rs, d
<1>7. ASSUME NEW i \in 1..n, NEW j \in 1..n, i < j PROVE ~Dominates(cfg, rs[i], rs[j])
  <2> DEFINE a == rs[i]
             c == rs[j]
  <2>1. /\ a \in Entered /\ c \in Entered /\ left[a] = n + 1 - i /\ left[c] = n + 1 - j
    BY <1>3, <1>4, <1>6
  <2>2. ~(left[a] <= left[c])
    BY <1>3, <1>7, <2>1
  <2>3. Members(path) = {}
    BY DEF Members
  <2>4. (left[a] <= left[c] /\ left[c] <= right[a]) <=> Dominates(cfg, a, c)
    BY <2>1, <2>3 DEF Numbering
  <2> QED BY <2>2, <2>4
<1>8. ASSUME NEW b, Back(cfg, b) # {} PROVE b \in Members(rs)
  <2>1. PICK p : p \in Back(cfg, b)
    BY <1>8
  <2>2. b \in R
    BY <1>1, <2>1, DominatesIs DEF Back
  <2>3. PICK i \in 1..n : dfsOrder[i] = b
    BY <1>1, <1>3, <2>2 DEF Members
  <2>4. n + 1 - i \in 1..n /\ n + 1 - (n + 1 - i) = i
    BY <1>3
  <2>5. rs[n + 1 - i] = b
    BY <1>6, <2>3, <2>4
  <2>6. n + 1 - i \in DOMAIN rs
    BY <1>6, <2>4, LenProperties
  <2> QED BY <2>5, <2>6 DEF Members
<1> QED BY <1>2, <1>6, <1>7, <1>8 DEF rs, d

\* With nothing found yet.
LEMMA NothingFound ==
    ASSUME NEW g, NEW rs \in Seq(Blocks(g)),
           \A i, j \in 1..Len(rs) : i < j => ~Dominates(g, rs[i], rs[j]),
           \A b : Back(g, b) # {} => b \in Members(rs),
           NEW inl, inl = [b \in Blocks(g) |-> 0]
    PROVE  Kinds(g, <<>>, inl, rs, <<>>) /\ LoopsSo(g, <<>>, inl, rs) /\ Whole(g, <<>>, 0)
<1>1. Len(<<>>) = 0 /\ 1..0 = {} /\ <<>> \in Seq(LoopOf(g)) /\ <<>> \in Seq(Blocks(g))
  OBVIOUS
<1>2. inl \in [Blocks(g) -> Nat] /\ \A b \in Blocks(g) : inl[b] = 0
  OBVIOUS
<1>3. Headed(g, <<>>, rs)
  BY <1>1 DEF Headed
<1>4. Claimed(g, <<>>, inl)
  BY <1>1, <1>2 DEF Claimed
<1>5. Nested(<<>>) /\ Listed(<<>>) /\ Whole(g, <<>>, 0)
  BY <1>1 DEF Nested, Listed, Whole
<1> QED BY <1>1, <1>2, <1>3, <1>4, <1>5 DEF Kinds, LoopsSo

\* LoopDetection starts from the answers of the dominator analysis.
LEMMA StartFinds ==
    ASSUME BuilderInv, Structured, DomInv, CleanSoFar, Finding, Start
    PROVE  Finding'
<1>1. /\ phase = "done" /\ lphase = "idle" /\ UNCHANGED <<bvars, dvars>> /\ Detection!LoopIdle
  BY DEF Start, Detection!StartDetection, Finding
<1>2. cfg' = cfg /\ phase' = "done"
  BY <1>1 DEF bvars, dvars
<1>3. Tidy(cfg) /\ Numbering /\ path = <<>> /\ Linked(cfg)
  BY <1>1, AnalysedTidy DEF DomInv, Tidy
<1> DEFINE d  == {e \in Members(dfsOrder) \X Members(dfsOrder) : Dom!IsDominate(e[1], e[2])}
           rs == [i \in DOMAIN dfsOrder |-> dfsOrder[Len(dfsOrder) + 1 - i]]
           inl == [b \in Blocks(cfg) |-> 0]
<1>4. /\ lphase' = "headers" /\ dom' = d /\ rest' = rs /\ inLoop' = inl /\ loops' = <<>> /\ work' = <<>>
  BY <1>1, SameLoopGraph DEF Start, Detection!StartDetection, Detection!LoopIdle
<1>5. /\ d = Dominance(cfg) /\ rs \in Seq(Blocks(cfg))
      /\ \A i, j \in 1..Len(rs) : i < j => ~Dominates(cfg, rs[i], rs[j])
      /\ \A b : Back(cfg, b) # {} => b \in Members(rs)
  BY <1>3, AnswersAre
<1> HIDE DEF d, rs
<1>6. Kinds(cfg, <<>>, inl, rs, <<>>) /\ LoopsSo(cfg, <<>>, inl, rs) /\ Whole(cfg, <<>>, 0)
  BY <1>5, NothingFound
<1> HIDE DEF inl
<1>7. Len(<<>>) = 0
  OBVIOUS
<1>8. Kinds(cfg, loops', inLoop', rest', work') /\ LoopsSo(cfg, loops', inLoop', rest')
      /\ Whole(cfg, loops', Len(loops'))
  BY <1>4, <1>6, <1>7
<1> QED BY <1>2, <1>4, <1>5, <1>8 DEF Finding

\* What a step of the detection starts from.
LEMMA DetectFrom ==
    ASSUME BuilderInv, Structured, DomInv, CleanSoFar, Finding, Detect
    PROVE  /\ lphase # "idle" /\ phase = "done" /\ cfg' = cfg /\ phase' = "done"
           /\ Tidy(cfg) /\ Linked(cfg) /\ Routed(cfg) /\ dom = Dominance(cfg)
           /\ Kinds(cfg, loops, inLoop, rest, work) /\ LoopsSo(cfg, loops, inLoop, rest)
<1>1. lphase \in {"headers", "discover"} /\ cfg' = cfg /\ phase' = phase
  BY DEF Detect, bvars, dvars, Detection!Detect, Detection!VisitHeader, Detection!Join, Detection!Meet,
         Detection!EndDiscovery, Detection!EndDetection
<1>2. lphase # "idle"
  BY <1>1
<1>3. /\ phase = "done" /\ dom = Dominance(cfg)
      /\ Kinds(cfg, loops, inLoop, rest, work) /\ LoopsSo(cfg, loops, inLoop, rest)
  BY <1>2 DEF Finding
<1>4. Tidy(cfg) /\ Linked(cfg) /\ Routed(cfg)
  BY <1>3, AnalysedTidy DEF Tidy, Linked
<1> QED BY <1>1, <1>2, <1>3, <1>4

\* A block of run_on_func: it starts a loop, or is passed over.
LEMMA VisitHeaderKeeps ==
    ASSUME BuilderInv, Structured, DomInv, CleanSoFar, Finding, Detect, Detection!VisitHeader
    PROVE  Finding'
<1>1. /\ cfg' = cfg /\ phase' = "done" /\ Tidy(cfg) /\ Linked(cfg) /\ Routed(cfg) /\ dom = Dominance(cfg)
      /\ Kinds(cfg, loops, inLoop, rest, work) /\ LoopsSo(cfg, loops, inLoop, rest)
  BY DetectFrom
<1>2. /\ lphase = "headers" /\ rest # <<>> /\ rest' = Tail(rest) /\ dom' = dom
  BY DEF Detection!VisitHeader
<1>3. Whole(cfg, loops, Len(loops))
  BY <1>2 DEF Finding
<1> DEFINE b == Head(rest)
<1>4. b \in Blocks(cfg)
  <2>1. rest \in Seq(Blocks(cfg))
    BY <1>1 DEF Kinds
  <2> QED BY <1>2, <2>1, TailOfRest
<1>5. Detection!Latches(b) = Back(cfg, b)
  BY <1>1, <1>4, LatchesAre
<1>6. CASE Back(cfg, b) = {}
  <2>1. UNCHANGED <<lphase, loops, inLoop, work>>
    BY <1>5, <1>6 DEF Detection!VisitHeader
  <2>2. Kinds(cfg, loops, inLoop, Tail(rest), work) /\ LoopsSo(cfg, loops, inLoop, Tail(rest))
    BY <1>1, <1>2, <1>6, SkipKeeps
  <2> QED BY <1>1, <1>2, <1>3, <2>1, <2>2 DEF Finding
<1>7. CASE Back(cfg, b) # {}
  <2> DEFINE new == [header |-> b, latches |-> Back(cfg, b), blocks |-> <<b>>, subs |-> <<>>, parent |-> 0]
  <2>1. new = Detection!NewLoop(b, Detection!Latches(b))
    BY <1>5, SameLoopGraph DEF Detection!NewLoop
  <2>2. /\ loops' = Append(loops, new) /\ inLoop' = [inLoop EXCEPT ![b] = Len(loops) + 1]
        /\ work' \in {s \in [1..Detection!Cardinality(Detection!Latches(b)) -> Detection!Latches(b)] :
                         Detection!Members(s) = Detection!Latches(b)}
        /\ lphase' = "discover"
    <3> HIDE DEF new
    <3> QED BY <1>5, <1>7, <2>1 DEF Detection!VisitHeader
  <2>3. work' \in Seq(Blocks(cfg)) /\ Members(work') = Back(cfg, b)
    <3> DEFINE L == Back(cfg, b)
               k == Cardinality(L)
    <3>1. IsFiniteSet(L)
      <4>1. L \subseteq 1..cfg.n /\ cfg.n \in Nat
        BY <1>1 DEF Back, Blocks, Routed
      <4>2. IsFiniteSet(1..cfg.n)
        BY <4>1, FS_Interval
      <4> QED BY <4>1, <4>2, FS_Subset
    <3>2. k \in Nat /\ L \subseteq Blocks(cfg)
      BY <3>1, FS_CardinalityType DEF Back
    <3>3. work' \in [1..k -> L] /\ Members(work') = L
      BY <1>5, <2>2, SameLoopGraph
    <3> HIDE DEF k, L
    <3>4. work' \in [1..k -> Blocks(cfg)]
      BY <3>2, <3>3
    <3>5. \A S : Seq(S) = UNION {[1..m -> S] : m \in Nat}
      BY SeqDef
    <3>6. work' \in Seq(Blocks(cfg))
      BY <3>2, <3>4, <3>5
    <3> QED BY <3>3, <3>6 DEF L
  <2> DEFINE inl2 == [inLoop EXCEPT ![b] = Len(loops) + 1]
             ls2 == Append(loops, new)
  <2>4. /\ Kinds(cfg, ls2, inl2, Tail(rest), work') /\ LoopsSo(cfg, ls2, inl2, Tail(rest))
        /\ Whole(cfg, ls2, Len(ls2) - 1) /\ ls2 # <<>> /\ Walking(cfg, ls2, inl2, work')
    BY <1>1, <1>2, <1>3, <1>7, <2>3, BeginKeeps
  <2>5. loops' = ls2 /\ inLoop' = inl2
    BY <2>2
  <2> HIDE DEF ls2, inl2
  <2> QED BY <1>1, <1>2, <2>2, <2>4, <2>5 DEF Finding
<1> QED BY <1>6, <1>7

\* What holds while a loop is discovered.
LEMMA DiscoverFrom ==
    ASSUME Finding, lphase = "discover"
    PROVE  loops # <<>> /\ Whole(cfg, loops, Len(loops) - 1) /\ Walking(cfg, loops, inLoop, work)
BY DEF Finding

\* A block that is in no loop yet.
LEMMA JoinStep ==
    ASSUME BuilderInv, Structured, DomInv, CleanSoFar, Finding, Detect, Detection!Join
    PROVE  Finding'
<1>1. /\ cfg' = cfg /\ phase' = "done" /\ Tidy(cfg) /\ dom = Dominance(cfg)
      /\ Kinds(cfg, loops, inLoop, rest, work) /\ LoopsSo(cfg, loops, inLoop, rest)
  BY DetectFrom
<1> DEFINE x == work[Len(work)]
           ls2 == JoinLoops(loops, x)
           inl2 == [inLoop EXCEPT ![x] = Len(loops)]
           wk2 == SubSeq(work, 1, Len(work) - 1) \o cfg.preds[x]
<1>2. /\ lphase = "discover" /\ work # <<>> /\ inLoop[x] = 0
      /\ loops' = ls2 /\ inLoop' = inl2 /\ work' = wk2 /\ UNCHANGED <<lphase, dom, rest>>
  BY SameLoopGraph DEF Detection!Join, Detection!Popped, Detection!Unpopped, Detection!This, JoinLoops
<1>3. loops # <<>> /\ Whole(cfg, loops, Len(loops) - 1) /\ Walking(cfg, loops, inLoop, work)
  BY <1>2, DiscoverFrom
<1>4. /\ Kinds(cfg, ls2, inl2, rest, wk2) /\ LoopsSo(cfg, ls2, inl2, rest)
      /\ Whole(cfg, ls2, Len(ls2) - 1) /\ ls2 # <<>> /\ Walking(cfg, ls2, inl2, wk2)
  <2>1. x = work[Len(work)] /\ ls2 = JoinLoops(loops, x)
    OBVIOUS
  <2>2. inl2 = [inLoop EXCEPT ![x] = Len(loops)]
    OBVIOUS
  <2>3. wk2 = SubSeq(work, 1, Len(work) - 1) \o cfg.preds[x]
    OBVIOUS
  <2> HIDE DEF x, ls2, inl2, wk2
  <2> QED BY <1>1, <1>2, <1>3, <2>1, <2>2, <2>3, JoinKeeps
<1> HIDE DEF ls2, inl2, wk2
<1> QED BY <1>1, <1>2, <1>4 DEF Finding

\* A step of Meet passes over the block, or takes the loop that holds it.
LEMMA MeetIs ==
    ASSUME Detection!Meet
    PROVE  LET x == work[Len(work)]
           IN  /\ lphase = "discover" /\ work # <<>> /\ inLoop[x] # 0
               /\ UNCHANGED <<lphase, dom, rest, inLoop>>
               /\ \/ /\ inLoop[x] = Len(loops) \/ loops[inLoop[x]].parent = Len(loops)
                     /\ work' = SubSeq(work, 1, Len(work) - 1) /\ loops' = loops
                  \/ /\ inLoop[x] # Len(loops) /\ loops[inLoop[x]].parent # Len(loops)
                     /\ loops' = NestLoops(loops, inLoop[x])
                     /\ work' = WorkOn(cfg, work, loops[inLoop[x]].header)
BY SameLoopGraph DEF Detection!Meet, Detection!Nest, Detection!Popped, Detection!Unpopped, Detection!This,
   NestLoops, WorkOn

\* A block that is in a loop already.
LEMMA MeetStep ==
    ASSUME BuilderInv, Structured, DomInv, CleanSoFar, Finding, Detect, Detection!Meet
    PROVE  Finding'
<1>1. /\ cfg' = cfg /\ phase' = "done" /\ Tidy(cfg) /\ dom = Dominance(cfg)
      /\ Kinds(cfg, loops, inLoop, rest, work) /\ LoopsSo(cfg, loops, inLoop, rest)
  BY DetectFrom
<1> DEFINE x == work[Len(work)]
<1>2. /\ lphase = "discover" /\ work # <<>> /\ inLoop[x] # 0
      /\ UNCHANGED <<lphase, dom, rest, inLoop>>
  BY MeetIs
<1>3. loops # <<>> /\ Whole(cfg, loops, Len(loops) - 1) /\ Walking(cfg, loops, inLoop, work)
  BY <1>2, DiscoverFrom
<1>4. CASE /\ inLoop[x] = Len(loops) \/ loops[inLoop[x]].parent = Len(loops)
           /\ work' = SubSeq(work, 1, Len(work) - 1) /\ loops' = loops
  <2> DEFINE wk2 == SubSeq(work, 1, Len(work) - 1)
  <2>1. Kinds(cfg, loops, inLoop, rest, wk2) /\ Walking(cfg, loops, inLoop, wk2)
    BY <1>1, <1>2, <1>3, <1>4, PassKeeps
  <2>2. work' = wk2
    BY <1>4
  <2> HIDE DEF wk2
  <2> QED BY <1>1, <1>2, <1>3, <1>4, <2>1, <2>2 DEF Finding
<1>5. CASE /\ inLoop[x] # Len(loops) /\ loops[inLoop[x]].parent # Len(loops)
           /\ loops' = NestLoops(loops, inLoop[x])
           /\ work' = WorkOn(cfg, work, loops[inLoop[x]].header)
  <2> DEFINE ls2 == NestLoops(loops, inLoop[x])
             wk2 == WorkOn(cfg, work, loops[inLoop[x]].header)
  <2>1. /\ Kinds(cfg, ls2, inLoop, rest, wk2) /\ LoopsSo(cfg, ls2, inLoop, rest)
        /\ Whole(cfg, ls2, Len(ls2) - 1) /\ ls2 # <<>> /\ Walking(cfg, ls2, inLoop, wk2)
    BY <1>1, <1>2, <1>3, <1>5, NestKeeps
  <2>2. loops' = ls2 /\ work' = wk2
    BY <1>5
  <2> HIDE DEF ls2, wk2
  <2> QED BY <1>1, <1>2, <2>1, <2>2 DEF Finding
<1> QED BY <1>4, <1>5, MeetIs

\* A loop is complete, or all of them are.
LEMMA EndsKeep ==
    ASSUME BuilderInv, Structured, DomInv, CleanSoFar, Finding, Detect,
           Detection!EndDiscovery \/ Detection!EndDetection
    PROVE  Finding'
<1>1. /\ cfg' = cfg /\ phase' = "done" /\ Tidy(cfg) /\ dom = Dominance(cfg)
      /\ Kinds(cfg, loops, inLoop, rest, work) /\ LoopsSo(cfg, loops, inLoop, rest)
  BY DetectFrom
<1>2. CASE Detection!EndDiscovery
  <2>1. lphase = "discover" /\ work = <<>> /\ lphase' = "headers" /\ UNCHANGED <<dom, rest, loops, inLoop, work>>
    BY <1>2 DEF Detection!EndDiscovery
  <2>2. loops # <<>> /\ Whole(cfg, loops, Len(loops) - 1) /\ Walking(cfg, loops, inLoop, work)
    BY <2>1, DiscoverFrom
  <2>3. Whole(cfg, loops, Len(loops))
    BY <1>1, <2>1, <2>2, EndKeeps
  <2> QED BY <1>1, <2>1, <2>3 DEF Finding
<1>3. CASE Detection!EndDetection
  <2>1. lphase = "headers" /\ rest = <<>> /\ lphase' = "found" /\ UNCHANGED <<dom, rest, loops, inLoop, work>>
    BY <1>3 DEF Detection!EndDetection
  <2>2. Whole(cfg, loops, Len(loops))
    BY <2>1 DEF Finding
  <2> QED BY <1>1, <2>1, <2>2 DEF Finding
<1> QED BY <1>2, <1>3

\* LoopDetection is right as far as it has come, whatever else runs.
LEMMA FindingStep ==
    ASSUME BuilderInv, Structured, DomInv, CleanSoFar, Finding, [LNext]_<<vars, lvars>>
    PROVE  Finding'
<1>1. CASE UNCHANGED lvars
  <2>1. /\ lphase' = lphase /\ dom' = dom /\ rest' = rest /\ loops' = loops /\ inLoop' = inLoop /\ work' = work
    BY <1>1 DEF lvars
  <2>2. CASE lphase = "idle"
    BY <2>1, <2>2 DEF Finding, Detection!LoopIdle
  <2>3. CASE lphase # "idle"
    <3>1. phase = "done"
      BY <2>3 DEF Finding
    <3>2. cfg' = cfg /\ phase' = phase
      BY <3>1, DoneStays DEF bvars, dvars
    <3> QED BY <2>1, <2>3, <3>2 DEF Finding
  <2> QED BY <2>2, <2>3
<1>2. CASE Start
  BY <1>2, StartFinds
<1>3. CASE Detect
  <2>1. \/ Detection!VisitHeader \/ Detection!Join \/ Detection!Meet \/ Detection!EndDiscovery
        \/ Detection!EndDetection
    BY <1>3 DEF Detect, Detection!Detect
  <2> QED BY <1>3, <2>1, VisitHeaderKeeps, JoinStep, MeetStep, EndsKeep
<1>4. UNCHANGED lvars \/ Start \/ Detect
  BY DEF LNext, Analysing, lvars
<1> QED BY <1>1, <1>2, <1>3, <1>4

\* The invariants of the builder, the dominator analysis and the loop detection.
LEMMA LoopsInvariant == LSpec => [](BuilderInv /\ Structured /\ DomInv /\ CleanSoFar /\ Finding)
<1>1. LInit => CleanSoFar /\ Finding
  BY DEF LInit, DInit, Dom!Idle, CleanSoFar, Finding, Detection!LoopIdle
<1>2. (BuilderInv /\ Structured /\ DomInv) /\ CleanSoFar /\ Finding /\ [LNext]_<<vars, lvars>>
        => (CleanSoFar /\ Finding)'
  BY CleanStep, FindingStep
<1> QED BY <1>1, <1>2, AnalysesInvariant, PTL DEF LSpec

-----------------------------------------------------------------------------
(* What LICM may rely on.                                                  *)

\* The loops of the proofs are those of the properties.
LEMMA NaturalIs ==
    ASSUME Routed(cfg), NEW h
    PROVE  Detection!NaturalLoop(cfg, Detection!Dominance(cfg), h) = Natural(cfg, h)
<1> DEFINE latches == {p \in Blocks(cfg) : h \in Members(Targets(cfg, p)) /\ <<h, p>> \in Dominance(cfg)}
           back == [b \in Blocks(cfg) |->
                       IF b = h THEN {} ELSE {p \in Blocks(cfg) : b \in Members(Targets(cfg, p))}]
           L == {p \in Detection!Blocks(cfg) : h \in Detection!Members(Detection!Targets(cfg, p))
                                                 /\ <<h, p>> \in Detection!Dominance(cfg)}
           K == [b \in Detection!Blocks(cfg) |->
                    IF b = h THEN {}
                    ELSE {p \in Detection!Blocks(cfg) : b \in Detection!Members(Detection!Targets(cfg, p))}]
<1>1. L = latches
  BY SameLoopGraph, SameLoopPaths
<1>2. K = back
  BY SameLoopGraph
<1>3. latches = Back(cfg, h)
  BY DEF Back, Succ, Dominates
<1>4. back = [b \in Blocks(cfg) |-> IF b = h THEN {} ELSE {p \in Blocks(cfg) : b \in Succ(cfg, p)}]
  BY DEF Succ
<1>5. Detection!NaturalLoop(cfg, Detection!Dominance(cfg), h)
        = IF L = {} THEN {} ELSE {h} \cup Detection!Closure(cfg, L, K)
  BY DEF Detection!NaturalLoop
<1>6. Detection!Closure(cfg, L, K) = Closure(cfg, latches, back)
  <2> HIDE DEF L, K, latches, back
  <2> QED BY <1>1, <1>2, SameLoopPaths
<1> HIDE DEF L, K, latches, back
<1> QED BY <1>1, <1>3, <1>4, <1>5, <1>6 DEF Natural

\* What has been found when the detection has ended.
LEMMA Found ==
    ASSUME BuilderInv, Structured, DomInv, CleanSoFar, Finding, lphase = "found"
    PROVE  /\ outcome = "done" /\ Tidy(cfg) /\ Linked(cfg) /\ Routed(cfg) /\ Clean(cfg)
           /\ Kinds(cfg, loops, inLoop, <<>>, work) /\ LoopsSo(cfg, loops, inLoop, <<>>)
           /\ Whole(cfg, loops, Len(loops))
           /\ Len(loops) \in Nat /\ DOMAIN loops = 1..Len(loops) /\ loops \in Seq(LoopOf(cfg))
<1>1. lphase # "idle" /\ lphase # "discover"
  OBVIOUS
<1>2. /\ phase = "done" /\ rest = <<>> /\ Whole(cfg, loops, Len(loops))
      /\ Kinds(cfg, loops, inLoop, rest, work) /\ LoopsSo(cfg, loops, inLoop, rest)
  BY <1>1 DEF Finding
<1>3. Tidy(cfg) /\ Linked(cfg) /\ Routed(cfg) /\ Clean(cfg)
  BY <1>2, AnalysedTidy DEF Tidy, Linked
<1>4. outcome = "done"
  BY <1>2 DEF DomInv
<1>5. Len(loops) \in Nat /\ DOMAIN loops = 1..Len(loops) /\ loops \in Seq(LoopOf(cfg))
  BY <1>2, LenProperties DEF Kinds
<1> QED BY <1>2, <1>3, <1>4, <1>5

\* The loops found are the natural loops of the function, each once, with each
\* of its blocks once: discover_loop_and_sub_loops misses no block of a loop,
\* claims none that is not in it, and takes over the blocks of every loop inside
\* exactly once, in whichever order the latches are walked from.
THEOREM NaturalLoops == LSpec => []LoopsNatural
<1>1. ASSUME BuilderInv, Structured, DomInv, CleanSoFar, Finding
      PROVE  LoopsNatural
  <2> DEFINE N(h) == Detection!NaturalLoop(cfg, Detection!Dominance(cfg), h)
  <2>1. SUFFICES ASSUME lphase = "found"
                 PROVE  /\ \A l \in DOMAIN loops :
                             /\ Detection!Members(loops[l].blocks) = N(loops[l].header)
                             /\ Len(loops[l].blocks) = Detection!Cardinality(Detection!Members(loops[l].blocks))
                        /\ \A b \in Detection!Blocks(cfg) :
                             N(b) # {} => Detection!Cardinality({l \in DOMAIN loops : loops[l].header = b}) = 1
    BY DEF LoopsNatural, Detection!LoopsNatural
  <2>2. /\ Routed(cfg) /\ LoopsSo(cfg, loops, inLoop, <<>>) /\ Whole(cfg, loops, Len(loops))
        /\ Len(loops) \in Nat /\ DOMAIN loops = 1..Len(loops) /\ loops \in Seq(LoopOf(cfg))
    BY <1>1, <2>1, Found
  <2>3. \A h : N(h) = Natural(cfg, h)
    BY <2>2, NaturalIs
  <2> HIDE DEF N
  <2>4. ASSUME NEW l \in 1..Len(loops)
        PROVE  /\ Members(loops[l].blocks) = Natural(cfg, loops[l].header)
               /\ Len(loops[l].blocks) = Cardinality(Members(loops[l].blocks))
    <3>1. Members(loops[l].blocks) = Natural(cfg, loops[l].header)
      BY <2>2 DEF Whole, In
    <3>2. loops[l].blocks \in Seq(Blocks(cfg)) /\ Unrepeated(loops[l].blocks)
      BY <2>2, LoopKinds DEF LoopsSo
    <3> QED BY <3>1, <3>2, UnrepeatedCounts
  <2>5. ASSUME NEW b, N(b) # {} PROVE Cardinality({l \in 1..Len(loops) : loops[l].header = b}) = 1
    <3>1. Back(cfg, b) # {}
      BY <2>2, <2>3, <2>5, NaturalLeast
    <3>2. b \notin Members(<<>>)
      BY DEF Members
    <3>3. Headed(cfg, loops, <<>>)
      BY <2>2 DEF LoopsSo
    <3>4. PICK l \in 1..Len(loops) : loops[l].header = b
      BY <3>1, <3>2, <3>3 DEF Headed
    <3>5. \A m \in 1..Len(loops) : m # l => loops[m].header # b
      BY <2>2, <3>3, <3>4, HeadersDiffer
    <3>6. {m \in 1..Len(loops) : loops[m].header = b} = {l}
      BY <3>4, <3>5
    <3> QED BY <3>6, FS_Singleton
  <2> QED BY <2>2, <2>3, <2>4, <2>5, SameLoopGraph
<1> QED BY <1>1, LoopsInvariant, PTL

\* The parent of a loop is the smallest of the loops around it, and has it once
\* among its sub-loops, although discover_loop_and_sub_loops asks a loop that it
\* meets for its own parent only, not for the outermost loop around.
THEOREM ExactNesting == LSpec => []NestingExact
<1>1. ASSUME BuilderInv, Structured, DomInv, CleanSoFar, Finding
      PROVE  NestingExact
  <2>1. SUFFICES ASSUME lphase = "found", NEW l \in DOMAIN loops
                 PROVE  LET blocks(k) == Detection!Members(loops[k].blocks)
                            around == {k \in DOMAIN loops : k # l /\ loops[l].header \in blocks(k)}
                        IN  /\ loops[l].parent =
                                  IF around = {} THEN Detection!NoLoop
                                  ELSE CHOOSE k \in around : \A j \in around : blocks(k) \subseteq blocks(j)
                            /\ \A k \in DOMAIN loops :
                                  Detection!Occurrences(loops[k].subs, l) = IF loops[l].parent = k THEN 1 ELSE 0
    BY DEF NestingExact, Detection!NestingExact
  <2>2. /\ Routed(cfg) /\ Clean(cfg) /\ LoopsSo(cfg, loops, inLoop, <<>>) /\ Whole(cfg, loops, Len(loops))
        /\ Len(loops) \in Nat /\ DOMAIN loops = 1..Len(loops) /\ loops \in Seq(LoopOf(cfg))
    BY <1>1, <2>1, Found
  <2> DEFINE T == Len(loops)
             a == loops[l].header
             p == loops[l].parent
             around == {k \in 1..T : k # l /\ a \in In(loops, k)}
  <2>3. /\ l \in 1..T /\ p \in 0..T /\ p # l
        /\ p = 0 => \A m \in 1..T : m # l => a \notin In(loops, m)
        /\ p # 0 => /\ a \in In(loops, p)
                    /\ \A m \in 1..T : m # l /\ m < p => a \notin In(loops, m)
    BY <2>2 DEF LoopsSo, Nested
  <2>4. \A k \in 1..T : Occurrences(loops[k].subs, l) = IF p = k THEN 1 ELSE 0
    <3>1. l \in Nat
      BY <2>3
    <3> QED BY <2>2, <2>3, <3>1 DEF LoopsSo, Listed
  <2>5. p = 0 <=> around = {}
    <3>1. p # 0 => p \in around
      BY <2>2, <2>3
    <3>2. p = 0 => around = {}
      BY <2>3
    <3> QED BY <3>1, <3>2
  <2>6. ASSUME p # 0
        PROVE  p = CHOOSE k \in around : \A j \in around : In(loops, k) \subseteq In(loops, j)
    <3>1. p \in around /\ p \in 1..T
      BY <2>2, <2>3, <2>6
    <3>2. ASSUME NEW j \in around PROVE In(loops, p) \subseteq In(loops, j)
      <4>1. CASE j = p
        BY <4>1
      <4>2. CASE j # p
        <5>1. j \in 1..T /\ a \in In(loops, j) /\ a \in In(loops, p) /\ ~(j < p)
          BY <2>3, <2>6
        <5>2. p < j
          BY <2>2, <3>1, <4>2, <5>1
        <5>3. ~Dominates(cfg, loops[p].header, loops[j].header)
          BY <2>2, <3>1, <5>1, <5>2 DEF LoopsSo, Headed
        <5>4. In(loops, p) = Natural(cfg, loops[p].header) /\ In(loops, j) = Natural(cfg, loops[j].header)
          BY <2>2, <3>1, <5>1 DEF Whole
        <5> QED BY <2>2, <5>1, <5>3, <5>4, LoopsShare
      <4> QED BY <4>1, <4>2
    <3>3. ASSUME NEW k \in around, \A j \in around : In(loops, k) \subseteq In(loops, j)
          PROVE  k = p
      <4>1. k \in 1..T
        OBVIOUS
      <4>2. In(loops, k) = In(loops, p)
        BY <3>1, <3>2, <3>3
      <4>3. In(loops, p) = Natural(cfg, loops[p].header) /\ In(loops, k) = Natural(cfg, loops[k].header)
        BY <2>2, <3>1, <4>1 DEF Whole
      <4>4. loops[p].header \in In(loops, p) /\ loops[k].header \in In(loops, k)
        BY <2>2, <3>1, <4>1 DEF LoopsSo, Headed
      <4>5. Dominates(cfg, loops[p].header, loops[k].header) /\ Dominates(cfg, loops[k].header, loops[p].header)
        BY <2>2, <4>2, <4>3, <4>4, HeaderDominates
      <4>6. loops[p].header = loops[k].header
        BY <2>2, <4>5, DominatesAntisymmetric
      <4>7. Headed(cfg, loops, <<>>)
        BY <2>2 DEF LoopsSo
      <4> QED BY <2>2, <3>1, <4>1, <4>6, <4>7, HeadersDiffer
    <3> HIDE DEF around, p
    <3> QED BY <3>1, <3>2, <3>3
  <2> DEFINE around2 == {k \in DOMAIN loops : k # l /\ loops[l].header \in Detection!Members(loops[k].blocks)}
  <2>7. \A k : Detection!Members(loops[k].blocks) = In(loops, k)
    BY SameLoopGraph DEF In
  <2>8. around2 = around
    BY <2>2, <2>7
  <2>9. (CHOOSE k \in around2 : \A j \in around2 : Detection!Members(loops[k].blocks) \subseteq Detection!Members(loops[j].blocks))
          = CHOOSE k \in around : \A j \in around : In(loops, k) \subseteq In(loops, j)
    <3> HIDE DEF around, around2
    <3> QED BY <2>7, <2>8
  <2>10. p = IF around2 = {} THEN Detection!NoLoop
             ELSE CHOOSE k \in around2 : \A j \in around2 :
                     Detection!Members(loops[k].blocks) \subseteq Detection!Members(loops[j].blocks)
    <3> HIDE DEF around, around2, p
    <3> QED BY <2>5, <2>6, <2>8, <2>9, SameLoopGraph
  <2>11. \A k \in DOMAIN loops : Detection!Occurrences(loops[k].subs, l) = IF p = k THEN 1 ELSE 0
    BY <2>2, <2>4, SameLoopGraph
  <2> QED BY <2>10, <2>11
<1> QED BY <1>1, LoopsInvariant, PTL

\* Every branch into a loop from outside is unconditional, so that operand 0 of
\* it, which LICM overwrites with the preheader, is its target.
THEOREM UnconditionalEntries == LSpec => []EntriesUnconditional
<1>1. ASSUME BuilderInv, Structured, DomInv, CleanSoFar, Finding
      PROVE  EntriesUnconditional
  <2>1. SUFFICES ASSUME lphase = "found", NEW l \in DOMAIN loops,
                        NEW p \in Members(cfg.preds[loops[l].header]) \ loops[l].latches
                 PROVE  cfg.term[p] = JumpTerm(loops[l].header)
    BY DEF EntriesUnconditional
  <2> DEFINE h == loops[l].header
  <2>2. /\ Routed(cfg) /\ Linked(cfg) /\ Tidy(cfg) /\ LoopsSo(cfg, loops, inLoop, <<>>)
        /\ l \in 1..Len(loops) /\ loops \in Seq(LoopOf(cfg))
    BY <1>1, <2>1, Found
  <2>3. h \in Blocks(cfg) /\ Back(cfg, h) # {}
    BY <2>2, LoopKinds DEF LoopsSo, Headed
  <2>4. p \in Blocks(cfg) /\ h \in Succ(cfg, p)
    BY <2>2, <2>3, PredsAre
  <2>5. PICK J : Laid(cfg, J)
    BY <2>2 DEF Tidy
  <2>6. cfg.term[p].kind # "cond"
    BY <2>2, <2>3, <2>4, <2>5, HeaderIsPlain DEF Plain
  <2>7. cfg.term[p] \in Terms(Tests)
    <3>1. cfg.term \in Seq(Terms(Tests)) /\ Len(cfg.term) = cfg.n
      BY <1>1, BuilderGraph DEF Sound, Shaped, Graphs
    <3> HIDE DEF h
    <3> QED BY <2>4, <3>1, ElementOfSeq DEF Blocks
  <2> HIDE DEF h
  <2>8. cfg.term[p] = Open \/ cfg.term[p] = RetTerm \/ (\E c \in Nat : cfg.term[p] = JumpTerm(c))
    BY <2>6, <2>7 DEF Terms, CondTerm
  <2>9. PICK c \in Nat : cfg.term[p] = JumpTerm(c)
    <3>1. cfg.term[p] # Open /\ cfg.term[p] # RetTerm
      BY <2>4 DEF Succ, Targets, Members, Open, RetTerm
    <3> QED BY <2>8, <3>1
  <2>10. Succ(cfg, p) = {c}
    BY <2>9 DEF Succ, Targets, Members, JumpTerm
  <2> QED BY <2>4, <2>9, <2>10 DEF h
<1> QED BY <1>1, LoopsInvariant, PTL


-----------------------------------------------------------------------------
(* The walk ends.                                                          *)

\* Taking an element out of a finite set makes it smaller.
LEMMA OneLess ==
    ASSUME NEW S, IsFiniteSet(S), NEW x \in S
    PROVE  Cardinality(S \ {x}) \in Nat /\ Cardinality(S) \in Nat /\ Cardinality(S \ {x}) < Cardinality(S)
<1>1. Cardinality(S) \in Nat /\ IsFiniteSet(S \ {x}) /\ Cardinality(S \ {x}) \in Nat
  BY FS_CardinalityType, FS_Subset
<1>2. Cardinality(S \ {x}) = Cardinality(S) - 1
  BY FS_RemoveElement
<1> QED BY <1>1, <1>2

\* What the walk over the last loop can still claim.
Free(g, ls, inl) ==
    Cardinality({b \in Blocks(g) : inl[b] = 0})
      + Cardinality({l \in 1..Len(ls) : l # Len(ls) /\ ls[l].parent = 0})

\* What a walk can claim is finite.
LEMMA FreeBlocks ==
    ASSUME NEW n \in Nat, NEW P
    PROVE  IsFiniteSet({b \in 1..n : b \in P}) /\ Cardinality({b \in 1..n : b \in P}) \in Nat
<1>1. IsFiniteSet(1..n)
  BY FS_Interval
<1>2. {b \in 1..n : b \in P} \subseteq 1..n
  OBVIOUS
<1> QED BY <1>1, <1>2, FS_Subset, FS_CardinalityType

\* A block that joins is claimed, ...
LEMMA JoinFrees ==
    ASSUME NEW g, g.n \in Nat, NEW ls \in Seq(LoopOf(g)), ls # <<>>, NEW inl \in [Blocks(g) -> Nat],
           NEW x \in Blocks(g), inl[x] = 0
    PROVE  Free(g, JoinLoops(ls, x), [inl EXCEPT ![x] = Len(ls)]) < Free(g, ls, inl)
<1> DEFINE T == Len(ls)
           ls2 == JoinLoops(ls, x)
           inl2 == [inl EXCEPT ![x] = T]
           A == {b \in Blocks(g) : inl[b] = 0}
           A2 == {b \in Blocks(g) : inl2[b] = 0}
           C == {l \in 1..T : l # T /\ ls[l].parent = 0}
           C2 == {l \in 1..Len(ls2) : l # Len(ls2) /\ ls2[l].parent = 0}
<1>1. T \in Nat /\ T # 0
  BY LenProperties, EmptySeq
<1>2. Len(ls2) = T /\ \A l \in 1..T : ls2[l].parent = ls[l].parent
  BY JoinLoopsAre DEF Alike
<1>3. A2 = A \ {x} /\ x \in A
  BY <1>1
<1>4. C2 = C
  <2> HIDE DEF ls2
  <2> QED BY <1>2
<1>5. IsFiniteSet(A) /\ Cardinality(C) \in Nat
  <2> DEFINE P == {b \in Blocks(g) : inl[b] = 0}
             Q == {l \in 1..T : l # T /\ ls[l].parent = 0}
  <2>1. A = {b \in 1..g.n : b \in P} /\ C = {l \in 1..T : l \in Q}
    BY DEF Blocks
  <2> HIDE DEF A, C, P, Q
  <2> QED BY <1>1, <2>1, FreeBlocks
<1>6. Free(g, ls, inl) = Cardinality(A) + Cardinality(C) /\ Free(g, ls2, inl2) = Cardinality(A2) + Cardinality(C2)
  BY DEF Free
<1> HIDE DEF A, A2, C, C2, ls2, inl2
<1>7. Cardinality(A2) \in Nat /\ Cardinality(A) \in Nat /\ Cardinality(A2) < Cardinality(A)
  BY <1>3, <1>5, OneLess
<1>8. Free(g, ls2, inl2) < Free(g, ls, inl)
  BY <1>4, <1>5, <1>6, <1>7
<1> QED BY <1>8 DEF ls2, inl2

\* ... and so is a loop that the walk meets.
LEMMA NestFrees ==
    ASSUME NEW g, g.n \in Nat, NEW ls \in Seq(LoopOf(g)), ls # <<>>, NEW inl \in [Blocks(g) -> Nat],
           NEW s \in 1..Len(ls), s # Len(ls), ls[s].parent = 0
    PROVE  Free(g, NestLoops(ls, s), inl) < Free(g, ls, inl)
<1> DEFINE T == Len(ls)
           ls2 == NestLoops(ls, s)
           A == {b \in Blocks(g) : inl[b] = 0}
           C == {l \in 1..T : l # T /\ ls[l].parent = 0}
           C2 == {l \in 1..Len(ls2) : l # Len(ls2) /\ ls2[l].parent = 0}
<1>1. T \in Nat /\ T # 0
  BY LenProperties, EmptySeq
<1>2. Len(ls2) = T /\ \A l \in 1..T : ls2[l].parent = IF l = s THEN T ELSE ls[l].parent
  BY NestLoopsAre DEF Alike
<1>3. C2 = C \ {s} /\ s \in C
  <2> HIDE DEF ls2
  <2> QED BY <1>1, <1>2
<1>4. IsFiniteSet(C) /\ Cardinality(A) \in Nat
  <2> DEFINE P == {b \in Blocks(g) : inl[b] = 0}
             Q == {l \in 1..T : l # T /\ ls[l].parent = 0}
  <2>1. A = {b \in 1..g.n : b \in P} /\ C = {l \in 1..T : l \in Q}
    BY DEF Blocks
  <2> HIDE DEF A, C, P, Q
  <2> QED BY <1>1, <2>1, FreeBlocks
<1>5. Free(g, ls, inl) = Cardinality(A) + Cardinality(C) /\ Free(g, ls2, inl) = Cardinality(A) + Cardinality(C2)
  BY DEF Free
<1> HIDE DEF A, C, C2, ls2
<1>6. Cardinality(C2) \in Nat /\ Cardinality(C) \in Nat /\ Cardinality(C2) < Cardinality(C)
  BY <1>3, <1>4, OneLess
<1>7. Free(g, ls2, inl) < Free(g, ls, inl)
  BY <1>4, <1>5, <1>6
<1> QED BY <1>7 DEF ls2

\* It is what the property measures.
LEMMA UnclaimedIs ==
    ASSUME DOMAIN loops = 1..Len(loops)
    PROVE  Detection!Unclaimed = Free(cfg, loops, inLoop)
<1> DEFINE A == {b \in Blocks(cfg) : inLoop[b] = 0}
           C == {l \in 1..Len(loops) : l # Len(loops) /\ loops[l].parent = 0}
           A1 == {b \in Detection!Blocks(cfg) : inLoop[b] = Detection!NoLoop}
           C1 == {l \in DOMAIN loops \ {Detection!This} : loops[l].parent = Detection!NoLoop}
<1>1. A1 = A
  BY SameLoopGraph
<1>2. C1 = C
  BY SameLoopGraph DEF Detection!This
<1>3. Detection!Unclaimed = Detection!Cardinality(A1) + Detection!Cardinality(C1)
  BY DEF Detection!Unclaimed
<1>4. Free(cfg, loops, inLoop) = Cardinality(A) + Cardinality(C)
  BY DEF Free
<1> HIDE DEF A, C, A1, C1
<1> QED BY <1>1, <1>2, <1>3, <1>4, SameLoopGraph

\* The walk over the blocks of a loop never goes round: every step claims a
\* block or a loop that was not claimed, or else shortens the work list.
THEOREM WalkEnds == LSpec => Detection!WalkProgresses
<1>1. ASSUME BuilderInv, Structured, DomInv, CleanSoFar, Finding, [LNext]_<<vars, lvars>>, Finding'
      PROVE  [ lphase = "discover" /\ lphase' = "discover" =>
                 \/ Detection!Unclaimed' < Detection!Unclaimed
                 \/ Detection!Unclaimed' = Detection!Unclaimed /\ Len(work') < Len(work) ]_Detection!lvars
  <2>1. SUFFICES ASSUME lphase = "discover", lphase' = "discover", ~UNCHANGED Detection!lvars
                 PROVE  \/ Detection!Unclaimed' < Detection!Unclaimed
                        \/ Detection!Unclaimed' = Detection!Unclaimed /\ Len(work') < Len(work)
    OBVIOUS
  <2>2. Detect /\ (Detection!Join \/ Detection!Meet)
    <3>1. ~UNCHANGED lvars
      BY <2>1 DEF lvars, Detection!lvars
    <3>2. Start \/ Detect
      BY <1>1, <3>1 DEF LNext, Analysing, lvars
    <3>3. ~Start
      BY <2>1 DEF Start, Detection!StartDetection
    <3>4. ~Detection!VisitHeader /\ ~Detection!EndDiscovery /\ ~Detection!EndDetection
      BY <2>1 DEF Detection!VisitHeader, Detection!EndDiscovery, Detection!EndDetection
    <3> QED BY <3>2, <3>3, <3>4 DEF Detect, Detection!Detect
  <2>3. /\ cfg' = cfg /\ Tidy(cfg) /\ Routed(cfg) /\ cfg.n \in Nat
        /\ Kinds(cfg, loops, inLoop, rest, work) /\ LoopsSo(cfg, loops, inLoop, rest)
    BY <1>1, <2>2, DetectFrom DEF Routed
  <2>4. loops # <<>> /\ Whole(cfg, loops, Len(loops) - 1) /\ Walking(cfg, loops, inLoop, work)
    BY <1>1, <2>1, DiscoverFrom
  <2>5. /\ loops \in Seq(LoopOf(cfg)) /\ inLoop \in [Blocks(cfg) -> Nat] /\ work \in Seq(Blocks(cfg))
        /\ DOMAIN loops = 1..Len(loops)
    BY <2>3, LenProperties DEF Kinds
  <2>6. loops' \in Seq(LoopOf(cfg)) /\ DOMAIN loops' = 1..Len(loops')
    <3>1. lphase' # "idle"
      BY <2>1
    <3>2. Kinds(cfg', loops', inLoop', rest', work')
      BY <1>1, <3>1 DEF Finding
    <3>3. loops' \in Seq(LoopOf(cfg'))
      BY <3>2 DEF Kinds
    <3> QED BY <2>3, <3>3, LenProperties
  <2>7. /\ Detection!Unclaimed = Free(cfg, loops, inLoop)
        /\ Detection!Unclaimed' = Free(cfg, loops', inLoop')
    <3>1. (DOMAIN loops = 1..Len(loops) => Detection!Unclaimed = Free(cfg, loops, inLoop))'
      BY UnclaimedIs, PTL
    <3> QED BY <2>3, <2>5, <2>6, <3>1, UnclaimedIs
  <2> DEFINE x == work[Len(work)]
  <2>8. CASE Detection!Join
    <3>1. /\ work # <<>> /\ inLoop[x] = 0
          /\ loops' = JoinLoops(loops, x) /\ inLoop' = [inLoop EXCEPT ![x] = Len(loops)]
      BY <2>8, SameLoopGraph DEF Detection!Join, Detection!Popped, Detection!Unpopped, Detection!This, JoinLoops
    <3>2. x \in Blocks(cfg)
      BY <2>5, <3>1, FrontOfList
    <3> HIDE DEF x
    <3>3. Free(cfg, loops', inLoop') < Free(cfg, loops, inLoop)
      BY <2>3, <2>4, <2>5, <3>1, <3>2, JoinFrees
    <3> QED BY <2>7, <3>3
  <2>9. CASE Detection!Meet
    <3>1. work # <<>> /\ inLoop[x] # 0 /\ inLoop' = inLoop
      BY <2>9, MeetIs
    <3>2. CASE work' = SubSeq(work, 1, Len(work) - 1) /\ loops' = loops
      <4>1. Len(SubSeq(work, 1, Len(work) - 1)) < Len(work)
        BY <2>5, <3>1, FrontOfList
      <4> QED BY <2>7, <3>1, <3>2, <4>1
    <3>3. CASE /\ inLoop[x] # Len(loops) /\ loops[inLoop[x]].parent # Len(loops)
               /\ loops' = NestLoops(loops, inLoop[x])
      <4>1. inLoop[x] \in 1..Len(loops) /\ loops[inLoop[x]].parent = 0
        BY <2>3, <2>4, <3>1, <3>3, NestKeeps
      <4>2. Free(cfg, loops', inLoop') < Free(cfg, loops, inLoop)
        BY <2>3, <2>4, <2>5, <3>1, <3>3, <4>1, NestFrees
      <4> QED BY <2>7, <4>2
    <3> QED BY <2>9, <3>2, <3>3, MeetIs
  <2> QED BY <2>2, <2>8, <2>9
<1>2. LSpec => [][LNext]_<<vars, lvars>>
  BY PTL DEF LSpec
<1> QED BY <1>1, <1>2, LoopsInvariant, PTL DEF Detection!WalkProgresses
=============================================================================
