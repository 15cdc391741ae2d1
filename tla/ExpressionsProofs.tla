------------------------- MODULE ExpressionsProofs -------------------------
(***************************************************************************)
(* Proofs about Expressions, for any declarations and functions, programs  *)
(* of any length and expressions of any depth: names are resolved as C     *)
(* resolves them, what is built computes what the source says, and         *)
(* constructors fail only on results of comparisons.                       *)
(***************************************************************************)
EXTENDS Expressions, SequenceTheorems, WellFoundedInduction, TLAPS

-----------------------------------------------------------------------------
(* Scopes.                                                                 *)
Bound == Names \cup UNION {{f.params[n].name : n \in DOMAIN f.params} : f \in Functions}
Maps == UNION {[N -> Nat] : N \in SUBSET Bound}
Variables == [name : Bound, type : Types, kind : {"var", "array", "passed"}, length : Nat, block : Nat]

\* A block is numbered when it is opened: inner ones have greater numbers.
Opened ==
    /\ open \in Seq(Nat) /\ open # <<>> /\ blocks \in Nat
    /\ \A i, j \in DOMAIN open : i < j => open[i] < open[j]
    /\ \A i \in DOMAIN open : open[i] <= blocks
    /\ \A n \in DOMAIN vars : vars[n].block <= blocks
    /\ function \in Types \cup {"none"}
    /\ function = "none" <=> Len(open) = 1
    /\ function = "none" => blocks = 0

\* The map of each open block has exactly the variables declared in it, ...
Binds(k, x, n) == vars[n].name = x /\ vars[n].block = open[k]

Bindings ==
    /\ scope \in Seq(Maps) /\ Len(scope) = Len(open)
    /\ \A k \in DOMAIN open : \A x \in DOMAIN scope[k] :
          scope[k][x] \in DOMAIN vars /\ Binds(k, x, scope[k][x])
    /\ \A k \in DOMAIN open : \A n \in DOMAIN vars :
          vars[n].block = open[k] => vars[n].name \in DOMAIN scope[k] /\ scope[k][vars[n].name] = n

\* ... and those of an inner block were declared after those around it.
InnerLater ==
    \A i, j \in DOMAIN open : \A m, n \in DOMAIN vars :
        i < j /\ vars[m].block = open[i] /\ vars[n].block = open[j] => m < n

Scoped == vars \in Seq(Variables) /\ Opened /\ Bindings /\ InnerLater

ScopeInv == outcome = "running" => Scoped

-----------------------------------------------------------------------------
\* The greatest element of a set is the one that CHOOSE takes.
LEMMA Greatest ==
    ASSUME NEW S \in SUBSET Nat, NEW n \in S, \A k \in S : k <= n
    PROVE  S # {} /\ n = CHOOSE m \in S : \A k \in S : k <= m
<1>1. \A m \in S : (\A k \in S : k <= m) => m = n
  OBVIOUS
<1> QED BY <1>1

\* A set of numbers has a least one: what follows by induction follows from this.
LEMMA HasLeast ==
    ASSUME NEW S \in SUBSET Nat, S # {}
    PROVE  \E n \in S : \A k \in S : n <= k
<1> DEFINE R == OpToRel(<, Nat)
<1>1. IsWellFoundedOn(R, Nat)
  BY NatLessThanWellFounded
<1>2. \A x, y \in Nat : <<x, y>> \in R <=> x < y
  BY DEF OpToRel
<1> HIDE DEF R
<1>3. PICK x \in S : \A y \in S : ~(<<y, x>> \in R)
  BY <1>1, WFMin
<1>4. x \in Nat /\ \A y \in S : y \in Nat /\ ~(y < x)
  BY <1>2, <1>3
<1> QED BY <1>4

\* A finite set of levels has a greatest one.
LEMMA HasGreatest ==
    ASSUME NEW N \in Nat, NEW S \in SUBSET (1..N), S # {}
    PROVE  \E n \in S : \A k \in S : k <= n
<1> DEFINE Up == {u \in Nat : \A k \in S : k <= u}
<1>1. N \in Up /\ Up \in SUBSET Nat
  OBVIOUS
<1>2. PICK u \in Up : \A w \in Up : u <= w
  BY <1>1, HasLeast
<1>3. PICK s \in S : TRUE
  OBVIOUS
<1>4. u \in S
  <2>1. SUFFICES ASSUME u \notin S PROVE FALSE
    OBVIOUS
  <2>2. \A k \in S : k <= u - 1 /\ k \in Nat
    BY <1>2, <2>1
  <2>3. u - 1 \in Nat
    BY <1>2, <1>3, <2>2
  <2> QED BY <1>2, <2>2, <2>3
<1> QED BY <1>2, <1>4

\* In a state like this, Scope::find gives the variable that C means.
LEMMA ScopedResolves ==
    ASSUME Scoped, NEW x
    PROVE  Find(x) = Visible(x)
<1> DEFINE at == {k \in DOMAIN scope : x \in DOMAIN scope[k]}
           of == {n \in DOMAIN vars : vars[n].name = x /\ \E k \in DOMAIN open : open[k] = vars[n].block}
<1>1. /\ Len(open) \in Nat /\ DOMAIN open = 1..Len(open) /\ DOMAIN scope = DOMAIN open
      /\ DOMAIN vars = 1..Len(vars) /\ Len(vars) \in Nat
  BY DEF Scoped, Opened, Bindings
<1>2. \A k \in at : k \in DOMAIN open /\ scope[k][x] \in DOMAIN vars /\ Binds(k, x, scope[k][x])
  BY <1>1 DEF Scoped, Bindings
<1>3. \A n \in of : \A k \in DOMAIN open : vars[n].block = open[k] => k \in at /\ scope[k][x] = n
  BY <1>1 DEF Scoped, Bindings
<1>4. CASE at = {}
  <2>1. of = {}
    BY <1>3, <1>4
  <2> QED BY <1>4, <2>1 DEF Find, Visible
<1>5. CASE at # {}
  <2>1. PICK k \in at : \A j \in at : j <= k
    BY <1>1, <1>5, HasGreatest
  <2> DEFINE n == scope[k][x]
  <2>2. at \in SUBSET Nat /\ of \in SUBSET Nat
    BY <1>1
  <2>3. k = CHOOSE i \in at : \A j \in at : j <= i
    BY <2>1, <2>2, Greatest
  <2>4. Find(x) = n
    BY <1>5, <2>3 DEF Find
  <2>5. n \in of
    BY <1>2, <2>1 DEF Binds
  <2>6. \A m \in of : m <= n
    <3>1. TAKE m \in of
    <3>2. PICK j \in DOMAIN open : open[j] = vars[m].block
      OBVIOUS
    <3>3. j \in at /\ scope[j][x] = m /\ j <= k
      BY <1>3, <2>1, <3>2
    <3>4. CASE j = k
      BY <1>1, <3>3, <3>4
    <3>5. CASE j # k
      <4>1. j < k /\ k \in DOMAIN open /\ vars[n].block = open[k] /\ n \in DOMAIN vars /\ m \in DOMAIN vars
        BY <1>1, <1>2, <2>1, <3>3, <3>5 DEF Binds
      <4>2. m < n
        BY <3>2, <4>1 DEF Scoped, InnerLater
      <4> QED BY <1>1, <4>1, <4>2
    <3> QED BY <3>4, <3>5
  <2> HIDE DEF n
  <2>7. of # {} /\ n = CHOOSE m \in of : \A l \in of : l <= m
    BY <2>2, <2>5, <2>6, Greatest
  <2> QED BY <2>4, <2>7 DEF Visible
<1> QED BY <1>4, <1>5

\* The map g has x in addition to what f has.
Adds(g, f, x, n) ==
    /\ DOMAIN g = DOMAIN f \cup {x} /\ g[x] = n
    /\ \A y \in DOMAIN f : g[y] = f[y]

Pushed(t, s, x, n) ==
    /\ t \in Seq(Maps) /\ Len(t) = Len(s)
    /\ \A k \in 1..Len(s) : k # Len(s) => t[k] = s[k]
    /\ Adds(t[Len(s)], s[Len(s)], x, n)

LEMMA JoinedOne ==
    ASSUME NEW f, NEW x, NEW n, x \notin DOMAIN f
    PROVE  Adds(Joined(f, [y \in {x} |-> n]), f, x, n)
BY DEF Joined, Adds

\* Scope::push adds a name to the innermost map.
LEMMA PushAdds ==
    ASSUME NEW s \in Seq(Maps), s # <<>>, NEW x \in Bound, NEW n \in Nat, x \notin DOMAIN s[Len(s)]
    PROVE  Pushed(Push(s, x, n), s, x, n)
<1> DEFINE g == Joined(s[Len(s)], [y \in {x} |-> n])
           t == Push(s, x, n)
<1>1. Len(s) \in 1..Len(s)
  BY EmptySeq, LenProperties
<1>2. Adds(g, s[Len(s)], x, n)
  BY JoinedOne
<1>3. t = [s EXCEPT ![Len(s)] = g]
  BY DEF Push
<1>4. g \in Maps
  <2>1. s[Len(s)] \in Maps
    BY <1>1, ElementOfSeq
  <2>2. PICK N \in SUBSET Bound : s[Len(s)] \in [N -> Nat]
    BY <2>1 DEF Maps
  <2>3. g = [y \in DOMAIN g |-> g[y]]
    BY DEF Joined
  <2> HIDE DEF g
  <2>4. g \in [N \cup {x} -> Nat]
    BY <1>2, <2>2, <2>3 DEF Adds
  <2> QED BY <2>4 DEF Maps
<1> HIDE DEF g, t
<1>5. /\ t \in Seq(Maps) /\ Len(t) = Len(s)
      /\ \A k \in 1..Len(s) : t[k] = IF k = Len(s) THEN g ELSE s[k]
  BY <1>1, <1>3, <1>4, ExceptSeq
<1> QED BY <1>1, <1>2, <1>5 DEF t, Pushed

\* A variable is declared.
LEMMA DeclareScoped ==
    ASSUME Scoped, NEW decl \in Globals \cup Locals, Declare(decl)
    PROVE  Scoped'
<1> DEFINE n == Len(vars) + 1
           top == Len(open)
           v == Variable(decl, open[top])
<1>1. /\ top \in Nat /\ DOMAIN open = 1..top /\ top \in 1..top /\ top = Len(scope)
      /\ DOMAIN scope = 1..top
      /\ Len(vars) \in Nat /\ DOMAIN vars = 1..Len(vars)
  BY EmptySeq, LenProperties DEF Scoped, Opened, Bindings
<1>2. /\ vars' = Append(vars, v) /\ scope' = Push(scope, decl.name, n)
      /\ open' = open /\ blocks' = blocks /\ function' = function
      /\ \A m \in DOMAIN vars : vars[m].name = decl.name => vars[m].block # open[top]
  BY DEF Declare, Fresh
<1>3. /\ v \in Variables /\ v.name = decl.name /\ v.block = open[top] /\ decl.name \in Bound
      /\ open[top] \in Nat
  <2>1. open[top] \in Nat
    BY <1>1 DEF Scoped, Opened
  <2>2. /\ decl.name \in Names /\ decl.type \in Types /\ decl.kind \in {"var", "array"}
        /\ decl.length \in Nat
    BY ExpressionsAssumption DEF Names
  <2> QED BY <2>1, <2>2 DEF Variable, Variables, Bound
<1> HIDE DEF v
<1>4. /\ vars' \in Seq(Variables) /\ Len(vars') = n /\ vars'[n] = v /\ DOMAIN vars' = 1..n
      /\ \A m \in DOMAIN vars : vars'[m] = vars[m]
  <2>1. vars \in Seq(Variables)
    BY DEF Scoped
  <2>2. /\ vars' \in Seq(Variables) /\ Len(vars') = n /\ vars'[n] = v
        /\ \A m \in 1..Len(vars) : vars'[m] = vars[m]
    BY <1>2, <1>3, <2>1, AppendProperties
  <2> QED BY <1>1, <2>2, LenProperties
<1>5. decl.name \notin DOMAIN scope[top]
  <2> SUFFICES ASSUME decl.name \in DOMAIN scope[top] PROVE FALSE
    OBVIOUS
  <2>1. scope[top][decl.name] \in DOMAIN vars /\ Binds(top, decl.name, scope[top][decl.name])
    BY <1>1 DEF Scoped, Bindings
  <2> QED BY <1>2, <2>1 DEF Binds
<1>6. /\ scope' \in Seq(Maps) /\ Len(scope') = Len(scope)
      /\ \A k \in 1..top : k # top => scope'[k] = scope[k]
      /\ Adds(scope'[top], scope[top], decl.name, n)
  <2>1. scope \in Seq(Maps) /\ scope # <<>> /\ n \in Nat
    BY <1>1, EmptySeq DEF Scoped, Bindings
  <2> HIDE DEF n
  <2>2. Pushed(scope', scope, decl.name, n)
    BY <1>1, <1>2, <1>3, <1>5, <2>1, PushAdds
  <2> QED BY <1>1, <2>2 DEF Pushed
<1>7. \A i \in DOMAIN open : i # top => open[i] # open[top] /\ i < top
  BY <1>1 DEF Scoped, Opened
<1>8. Opened'
  <2>1. \A m \in DOMAIN vars' : vars'[m].block <= blocks
    <3>1. v.block <= blocks
      BY <1>1, <1>3 DEF Scoped, Opened
    <3>2. \A m \in DOMAIN vars : vars[m].block <= blocks
      BY DEF Scoped, Opened
    <3>3. \A m \in DOMAIN vars' : m \in DOMAIN vars \/ m = n
      BY <1>1, <1>4
    <3> QED BY <1>4, <3>1, <3>2, <3>3
  <2> QED BY <1>2, <2>1 DEF Scoped, Opened
<1>9. Bindings'
  <2>1. ASSUME NEW k \in DOMAIN open, NEW x \in DOMAIN scope'[k]
        PROVE  /\ scope'[k][x] \in DOMAIN vars'
               /\ vars'[scope'[k][x]].name = x /\ vars'[scope'[k][x]].block = open[k]
    <3>1. CASE k = top /\ x = decl.name
      <4>1. scope'[k][x] = n
        BY <1>6, <3>1 DEF Adds
      <4>2. n \in DOMAIN vars'
        BY <1>1, <1>4
      <4> QED BY <1>3, <1>4, <3>1, <4>1, <4>2
    <3>2. CASE ~(k = top /\ x = decl.name)
      <4>1. x \in DOMAIN scope[k] /\ scope'[k][x] = scope[k][x]
        <5>1. CASE k = top
          <6>1. x \in DOMAIN scope'[top] /\ x # decl.name
            BY <2>1, <3>2, <5>1
          <6> HIDE DEF n, top
          <6> QED BY <1>6, <5>1, <6>1 DEF Adds
        <5>2. CASE k # top
          <6>1. scope'[k] = scope[k]
            BY <1>1, <1>6, <5>2
          <6> QED BY <2>1, <6>1
        <5> QED BY <5>1, <5>2
      <4>2. scope[k][x] \in DOMAIN vars /\ Binds(k, x, scope[k][x])
        BY <4>1 DEF Scoped, Bindings
      <4> QED BY <1>1, <1>4, <4>1, <4>2 DEF Binds
    <3> QED BY <3>1, <3>2
  <2>2. ASSUME NEW k \in DOMAIN open, NEW m \in DOMAIN vars', vars'[m].block = open[k]
        PROVE  vars'[m].name \in DOMAIN scope'[k] /\ scope'[k][vars'[m].name] = m
    <3>1. CASE m = n
      <4>1. k = top
        BY <1>3, <1>4, <1>7, <2>2, <3>1
      <4> QED BY <1>3, <1>4, <1>6, <3>1, <4>1 DEF Adds
    <3>2. CASE m # n
      <4>1. m \in DOMAIN vars /\ vars'[m] = vars[m]
        BY <1>1, <1>4, <3>2
      <4>2. vars[m].name \in DOMAIN scope[k] /\ scope[k][vars[m].name] = m
        BY <2>2, <4>1 DEF Scoped, Bindings
      <4> QED BY <1>1, <1>6, <4>1, <4>2 DEF Adds
    <3> QED BY <3>1, <3>2
  <2>3. scope' \in Seq(Maps) /\ Len(scope') = Len(open')
    BY <1>1, <1>2, <1>6
  <2> QED BY <1>2, <2>1, <2>2, <2>3 DEF Bindings, Binds
<1>10. InnerLater'
  <2> SUFFICES ASSUME NEW i \in DOMAIN open, NEW j \in DOMAIN open,
                      NEW l \in DOMAIN vars', NEW m \in DOMAIN vars',
                      i < j, vars'[l].block = open[i], vars'[m].block = open[j]
               PROVE  l < m
    BY <1>2 DEF InnerLater
  <2>1. l # n
    BY <1>1, <1>3, <1>4, <1>7
  <2>2. CASE m = n
    BY <1>1, <1>4, <2>1, <2>2
  <2>3. CASE m # n
    BY <1>1, <1>4, <2>1, <2>3 DEF Scoped, InnerLater
  <2> QED BY <2>2, <2>3
<1> QED BY <1>4, <1>8, <1>9, <1>10 DEF Scoped

\* The names of the first parameters, and the variables they are bound to.
Firsts(params, n, first) ==
    [x \in {params[i].name : i \in 1..n} |-> first + CHOOSE i \in DOMAIN params : params[i].name = x]

\* One more parameter.
LEMMA NextFirst ==
    ASSUME NEW params, NEW N \in Nat, DOMAIN params = 1..N, NEW first \in Nat, NEW n \in 1..N,
           \A i, j \in DOMAIN params : params[i].name = params[j].name => i = j
    PROVE  Joined(Firsts(params, n - 1, first), [x \in {params[n].name} |-> first + n])
             = Firsts(params, n, first)
<1> DEFINE f == Firsts(params, n - 1, first)
           g == [x \in {params[n].name} |-> first + n]
           C(x) == CHOOSE i \in DOMAIN params : params[i].name = x
<1>1. \A i \in DOMAIN params : C(params[i].name) = i
  OBVIOUS
<1>2. {params[i].name : i \in 1..(n - 1)} \cup {params[n].name} = {params[i].name : i \in 1..n}
  OBVIOUS
<1>3. DOMAIN f = {params[i].name : i \in 1..(n - 1)} /\ DOMAIN g = {params[n].name}
  BY DEF Firsts
<1>4. \A x \in DOMAIN f : f[x] = first + C(x)
  BY DEF Firsts
<1>5. \A x \in DOMAIN g : g[x] = first + C(x)
  BY <1>1
<1>6. Firsts(params, n, first) = [x \in {params[i].name : i \in 1..n} |-> first + C(x)]
  BY DEF Firsts
<1> HIDE DEF f, g, C
<1>7. Joined(f, g) = [x \in {params[i].name : i \in 1..n} |-> first + C(x)]
  BY <1>2, <1>3, <1>4, <1>5 DEF Joined
<1> QED BY <1>6, <1>7 DEF f, g

\* visit(ASTParam) for all of them, into an empty map.
LEMMA ParamsPushed ==
    ASSUME NEW s \in Seq(Maps), s # <<>>, s[Len(s)] = <<>>,
           NEW params, Len(params) \in Nat, DOMAIN params = 1..Len(params), NEW first \in Nat,
           \A i, j \in DOMAIN params : params[i].name = params[j].name => i = j
    PROVE  PushParams(s, params, first) = [s EXCEPT ![Len(s)] = Firsts(params, Len(params), first)]
<1> DEFINE N == Len(params)
           top == Len(s)
           F(n) == Firsts(params, n, first)
           W == [n \in 0..N |-> [s EXCEPT ![top] = F(n)]]
           Body(f) == [n \in 0..N |-> IF n = 0 THEN s ELSE Push(f[n - 1], params[n].name, first + n)]
           pushed == CHOOSE f : f = Body(f)
<1> N \in Nat
  OBVIOUS
<1> HIDE DEF N
<1>1. top \in Nat /\ top \in 1..top /\ DOMAIN s = 1..top
  BY EmptySeq, LenProperties
<1>2. F(0) = <<>>
  BY DEF Firsts
<1>3. W[0] = s
  BY <1>1, <1>2
<1>4. \A n \in 1..N : W[n] = Push(W[n - 1], params[n].name, first + n)
  <2> TAKE n \in 1..N
  <2>1. W[n - 1] = [s EXCEPT ![top] = F(n - 1)] /\ W[n] = [s EXCEPT ![top] = F(n)]
    OBVIOUS
  <2>2. Joined(F(n - 1), [x \in {params[n].name} |-> first + n]) = F(n)
    <3>1. DOMAIN params = 1..N
      BY DEF N
    <3> QED BY <3>1, NextFirst
  <2> DEFINE w == W[n - 1]
  <2>3. Len(w) = top /\ w[top] = F(n - 1) /\ DOMAIN w = DOMAIN s
    BY <1>1, <2>1
  <2> HIDE DEF F, W
  <2>4. Push(w, params[n].name, first + n) = [w EXCEPT ![top] = F(n)]
    BY <2>2, <2>3 DEF Push
  <2> QED BY <1>1, <2>1, <2>4
<1>5. W = Body(W)
  <2> HIDE DEF F, W
  <2>1. \A n \in 0..N : W[n] = IF n = 0 THEN s ELSE Push(W[n - 1], params[n].name, first + n)
    BY <1>3, <1>4
  <2>2. W = [n \in 0..N |-> W[n]]
    BY DEF W
  <2> QED BY <2>1, <2>2
<1> HIDE DEF W
<1>6. pushed = Body(pushed)
  BY <1>5
<1>7. PushParams(s, params, first) = pushed[N]
  BY DEF PushParams, N
<1> HIDE DEF pushed
<1>8. \A n \in 0..N : pushed[n] = IF n = 0 THEN s ELSE Push(pushed[n - 1], params[n].name, first + n)
  BY <1>6
<1> DEFINE Differ == {n \in 0..N : pushed[n] # W[n]}
<1>9. Differ = {}
  <2> SUFFICES ASSUME Differ # {} PROVE FALSE
    OBVIOUS
  <2>5. Differ \in SUBSET Nat
    OBVIOUS
  <2>1. PICK n \in Differ : \A k \in Differ : n <= k
    <3> HIDE DEF Differ
    <3> QED BY <2>5, HasLeast
  <2>2. n # 0
    BY <1>3, <1>8, <2>1
  <2>3. n \in 1..N /\ n - 1 \in 0..N /\ n - 1 \notin Differ
    BY <2>1, <2>2
  <2>4. pushed[n] = Push(pushed[n - 1], params[n].name, first + n)
    <3>1. n \in 0..N
      BY <2>1
    <3> HIDE DEF Differ
    <3> QED BY <1>8, <2>2, <3>1
  <2> QED BY <1>4, <2>1, <2>3, <2>4
<1>10. pushed[N] = W[N]
  BY <1>9
<1>11. W[N] = [s EXCEPT ![top] = F(N)]
  BY DEF W
<1> QED BY <1>7, <1>10, <1>11 DEF N

\* The empty map.
LEMMA EmptyMap == <<>> \in Maps
<1>1. <<>> \in [{} -> Nat] /\ {} \in SUBSET Bound
  OBVIOUS
<1> QED BY <1>1 DEF Maps

\* A block is entered; it has a number of its own, and nothing in it.
LEMMA OpenBlockScoped ==
    ASSUME Scoped, OpenBlock
    PROVE  Scoped'
<1> DEFINE top == Len(open)
           b == blocks + 1
<1>1. /\ top \in Nat /\ DOMAIN open = 1..top /\ top = Len(scope) /\ DOMAIN scope = 1..top /\ top > 0
      /\ open \in Seq(Nat) /\ scope \in Seq(Maps) /\ b \in Nat /\ blocks \in Nat
      /\ DOMAIN vars = 1..Len(vars) /\ vars \in Seq(Variables)
  BY EmptySeq, LenProperties DEF Scoped, Opened, Bindings
<1>2. /\ scope' = Append(scope, <<>>) /\ open' = Append(open, b) /\ blocks' = b
      /\ vars' = vars /\ function' = function /\ function # "none"
  BY DEF OpenBlock
<1>3. /\ open' \in Seq(Nat) /\ Len(open') = top + 1 /\ open'[top + 1] = b /\ DOMAIN open' = 1..(top + 1)
      /\ \A k \in 1..top : open'[k] = open[k]
  <2>1. /\ open' \in Seq(Nat) /\ Len(open') = top + 1 /\ open'[top + 1] = b
        /\ \A k \in 1..top : open'[k] = open[k]
    BY <1>1, <1>2, AppendProperties
  <2> QED BY <2>1, LenProperties
<1>4. /\ scope' \in Seq(Maps) /\ Len(scope') = top + 1 /\ scope'[top + 1] = <<>>
      /\ \A k \in 1..top : scope'[k] = scope[k]
  BY <1>1, <1>2, EmptyMap, AppendProperties
<1>5. /\ \A i, j \in 1..top : i < j => open[i] < open[j]
      /\ \A i \in 1..top : open[i] <= blocks /\ open[i] \in Nat
      /\ \A n \in DOMAIN vars : vars[n].block <= blocks /\ vars[n].block \in Nat
  <2>1. \A i, j \in 1..top : i < j => open[i] < open[j]
    BY <1>1 DEF Scoped, Opened
  <2>2. \A i \in 1..top : open[i] <= blocks /\ open[i] \in Nat
    <3>1. \A i \in 1..top : open[i] <= blocks
      BY <1>1 DEF Scoped, Opened
    <3>2. open \in [1..top -> Nat]
      BY <1>1, LenProperties
    <3> QED BY <3>1, <3>2
  <2>3. \A n \in DOMAIN vars : vars[n].block <= blocks /\ vars[n] \in Variables
    BY <1>1, LenProperties DEF Scoped, Opened
  <2>4. \A v \in Variables : v.block \in Nat
    BY DEF Variables
  <2> QED BY <2>1, <2>2, <2>3, <2>4
<1> HIDE DEF b, top
<1>6. Opened'
  <2>1. \A i, j \in DOMAIN open' : i < j => open'[i] < open'[j]
    <3> SUFFICES ASSUME NEW i \in DOMAIN open', NEW j \in DOMAIN open', i < j PROVE open'[i] < open'[j]
      OBVIOUS
    <3>1. i \in 1..top
      BY <1>1, <1>3
    <3>2. CASE j = top + 1
      BY <1>1, <1>3, <1>5, <3>1, <3>2 DEF b
    <3>3. CASE j \in 1..top
      BY <1>1, <1>3, <1>5, <3>1, <3>3
    <3> QED BY <1>1, <1>3, <3>2, <3>3
  <2>2. \A i \in DOMAIN open' : open'[i] <= blocks'
    <3> TAKE i \in DOMAIN open'
    <3>1. CASE i = top + 1
      BY <1>1, <1>2, <1>3, <3>1
    <3>2. CASE i \in 1..top
      BY <1>1, <1>2, <1>3, <1>5, <3>2 DEF b
    <3> QED BY <1>1, <1>3, <3>1, <3>2
  <2>3. \A n \in DOMAIN vars' : vars'[n].block <= blocks'
    BY <1>1, <1>2, <1>5 DEF b
  <2>4. open' # <<>> /\ function' \in Types \cup {"none"} /\ (function' = "none" <=> Len(open') = 1)
    BY <1>1, <1>2, <1>3, EmptySeq DEF Scoped, Opened
  <2> QED BY <1>1, <1>2, <1>3, <2>1, <2>2, <2>3, <2>4 DEF Opened
<1>7. Bindings'
  <2>1. ASSUME NEW k \in DOMAIN open', NEW x \in DOMAIN scope'[k]
        PROVE  scope'[k][x] \in DOMAIN vars /\ vars[scope'[k][x]].name = x /\ vars[scope'[k][x]].block = open'[k]
    <3>1. k # top + 1
      BY <1>4, <2>1
    <3>2. k \in 1..top
      BY <1>1, <1>3, <3>1
    <3> QED BY <1>1, <1>3, <1>4, <2>1, <3>2 DEF Scoped, Bindings, Binds
  <2>2. ASSUME NEW k \in DOMAIN open', NEW n \in DOMAIN vars, vars[n].block = open'[k]
        PROVE  vars[n].name \in DOMAIN scope'[k] /\ scope'[k][vars[n].name] = n
    <3>1. k # top + 1
      BY <1>1, <1>3, <1>5, <2>2 DEF b
    <3>2. k \in 1..top
      BY <1>1, <1>3, <3>1
    <3>3. k \in DOMAIN open /\ vars[n].block = open[k] /\ scope'[k] = scope[k]
      BY <1>1, <1>3, <1>4, <2>2, <3>2
    <3> QED BY <3>3 DEF Scoped, Bindings
  <2> QED BY <1>2, <1>3, <1>4, <2>1, <2>2 DEF Bindings, Binds
<1>8. InnerLater'
  <2> SUFFICES ASSUME NEW i \in DOMAIN open', NEW j \in DOMAIN open',
                      NEW m \in DOMAIN vars, NEW n \in DOMAIN vars,
                      i < j, vars[m].block = open'[i], vars[n].block = open'[j]
               PROVE  m < n
    BY <1>2 DEF InnerLater
  <2>1. j # top + 1
    BY <1>1, <1>3, <1>5 DEF b
  <2>2. i \in 1..top /\ j \in 1..top
    BY <1>1, <1>3, <2>1
  <2> QED BY <1>1, <1>3, <2>2 DEF Scoped, InnerLater
<1> QED BY <1>1, <1>2, <1>6, <1>7, <1>8 DEF Scoped

\* A block is left: the rest is as it was.
LEMMA CloseBlockScoped ==
    ASSUME Scoped, CloseBlock
    PROVE  Scoped'
<1> DEFINE top == Len(open)
<1>1. /\ top \in Nat /\ DOMAIN open = 1..top /\ top = Len(scope) /\ DOMAIN scope = 1..top /\ top > 2
      /\ open \in Seq(Nat) /\ scope \in Seq(Maps)
  BY EmptySeq, LenProperties DEF Scoped, Opened, Bindings, CloseBlock
<1>2. /\ scope' = SubSeq(scope, 1, top - 1) /\ open' = SubSeq(open, 1, top - 1) /\ blocks' = blocks
      /\ vars' = vars /\ function' = function
  BY <1>1 DEF CloseBlock
<1>3. /\ open' \in Seq(Nat) /\ Len(open') = top - 1 /\ DOMAIN open' = 1..(top - 1)
      /\ \A k \in 1..(top - 1) : open'[k] = open[k]
  BY <1>1, <1>2
<1>4. /\ scope' \in Seq(Maps) /\ Len(scope') = top - 1
      /\ \A k \in 1..(top - 1) : scope'[k] = scope[k]
  BY <1>1, <1>2
<1>5. \A k \in 1..(top - 1) : k \in DOMAIN open
  BY <1>1
<1> HIDE DEF top
<1>6. Opened'
  <2>1. /\ open' # <<>> /\ function' \in Types \cup {"none"} /\ (function' = "none" <=> Len(open') = 1)
        /\ (function' = "none" => blocks' = 0)
    <3>1. function # "none" /\ function \in Types \cup {"none"}
      BY <1>1 DEF Scoped, Opened, top
    <3>2. Len(open') > 1
      BY <1>1, <1>3
    <3>3. open' # <<>>
      BY <3>2
    <3>4. Len(open') # 1
      BY <1>1, <1>3
    <3> QED BY <1>2, <3>1, <3>3, <3>4
  <2> QED BY <1>2, <1>3, <1>5, <2>1 DEF Scoped, Opened
<1>7. Bindings'
  <2>1. \A k \in DOMAIN open' : open'[k] = open[k] /\ scope'[k] = scope[k] /\ k \in DOMAIN open
    BY <1>3, <1>4, <1>5
  <2>2. scope' \in Seq(Maps) /\ Len(scope') = Len(open')
    BY <1>3, <1>4
  <2> QED BY <1>2, <2>1, <2>2 DEF Scoped, Bindings, Binds
<1>8. InnerLater'
  BY <1>2, <1>3, <1>5 DEF Scoped, InnerLater
<1> QED BY <1>2, <1>6, <1>7, <1>8 DEF Scoped

\* The function begins: its parameters are in block 1, and the only ones there.
LEMMA StartFunctionScoped ==
    ASSUME Scoped, NEW fun \in Functions, StartFunction(fun)
    PROVE  Scoped'
<1> DEFINE first == Len(vars)
           params == fun.params
           N == Len(params)
           added == [n \in DOMAIN params |-> Variable(params[n], 1)]
           map == Firsts(params, N, first)
<1>1. /\ first \in Nat /\ DOMAIN vars = 1..first /\ vars \in Seq(Variables)
      /\ scope \in Seq(Maps) /\ open \in Seq(Nat) /\ Len(open) = 1 /\ Len(scope) = 1
      /\ DOMAIN open = 1..1 /\ DOMAIN scope = 1..1 /\ open[1] = 0 /\ blocks = 0
  <2>1. function = "none"
    BY DEF StartFunction
  <2>2. Len(open) = 1 /\ blocks = 0
    BY <2>1 DEF Scoped, Opened
  <2>3. open[1] \in Nat /\ open[1] <= blocks
    BY <2>2, LenProperties, ElementOfSeq DEF Scoped, Opened
  <2> QED BY <2>2, <2>3, LenProperties DEF Scoped, Opened, Bindings
<1>2. /\ N \in Nat /\ DOMAIN params = 1..N
      /\ \A i, j \in DOMAIN params : params[i].name = params[j].name => i = j
      /\ \A n \in DOMAIN params : params[n].name \in Bound
      /\ \A n \in DOMAIN params : Variable(params[n], 1) \in Variables
  <2>1. params \in Seq({params[n] : n \in DOMAIN params})
    BY ExpressionsAssumption
  <2>2. N \in Nat /\ DOMAIN params = 1..N
    BY <2>1, LenProperties
  <2>3. \A i, j \in DOMAIN params : params[i].name = params[j].name => i = j
    BY ExpressionsAssumption
  <2>4. \A n \in DOMAIN params : params[n].name \in Bound
    BY DEF Bound
  <2>5. \A n \in DOMAIN params : params[n].type \in Types /\ params[n].kind \in {"var", "array", "passed"}
    BY ExpressionsAssumption
  <2>6. \A n \in DOMAIN params : params[n].length \in Nat
    <3>1. \A n \in DOMAIN params : params[n].length \in {1, PassedLength}
      BY ExpressionsAssumption
    <3> QED BY <3>1 DEF PassedLength
  <2>7. \A n \in DOMAIN params : Variable(params[n], 1) \in Variables
    BY <2>4, <2>5, <2>6 DEF Variable, Variables
  <2> QED BY <2>2, <2>3, <2>4, <2>7
<1>3. /\ vars' = vars \o added
      /\ scope' = PushParams(Append(scope, <<>>), params, first)
      /\ open' = Append(open, 1) /\ blocks' = 1 /\ function' = fun.returns
  BY DEF StartFunction
<1>4. /\ added \in Seq(Variables) /\ Len(added) = N
      /\ \A n \in 1..N : added[n].name = params[n].name /\ added[n].block = 1
  <2>1. added \in [1..N -> Variables]
    BY <1>2
  <2>2. added \in Seq(Variables) /\ Len(added) = N
    BY <1>2, <2>1
  <2>3. \A n \in 1..N : added[n] = Variable(params[n], 1)
    BY <1>2
  <2> HIDE DEF added
  <2>4. \A n \in 1..N : added[n].name = params[n].name /\ added[n].block = 1
    <3>1. \A d, b : Variable(d, b).name = d.name /\ Variable(d, b).block = b
      BY DEF Variable
    <3> HIDE DEF added, params, N
    <3> QED BY <2>3, <3>1
  <2> HIDE DEF params, N
  <2> QED BY <2>2, <2>4
<1> HIDE DEF added
<1>5. /\ vars' \in Seq(Variables) /\ DOMAIN vars' = 1..(first + N)
      /\ \A n \in 1..first : vars'[n] = vars[n]
      /\ \A n \in 1..N : vars'[first + n] = added[n]
  <2>1. /\ vars' \in Seq(Variables) /\ Len(vars') = first + N
        /\ \A n \in 1..(first + N) : vars'[n] = IF n <= first THEN vars[n] ELSE added[n - first]
    <3> HIDE DEF params, N
    <3>1. /\ vars \o added \in Seq(Variables) /\ Len(vars \o added) = first + N
          /\ \A n \in 1..(first + N) : (vars \o added)[n] = IF n <= first THEN vars[n] ELSE added[n - first]
      <4>1. vars \in Seq(Variables) /\ added \in Seq(Variables)
        BY <1>1, <1>4
      <4>2. /\ vars \o added \in Seq(Variables)
            /\ Len(vars \o added) = Len(vars) + Len(added)
            /\ \A n \in 1..(Len(vars) + Len(added)) :
                  (vars \o added)[n] = IF n <= Len(vars) THEN vars[n] ELSE added[n - Len(vars)]
        BY ONLY <4>1, ConcatProperties
      <4> QED BY <1>4, <4>2
    <3> QED BY <1>3, <3>1
  <2>2. \A n \in 1..N : first + n \in 1..(first + N) /\ ~(first + n <= first) /\ (first + n) - first = n
    BY <1>1, <1>2
  <2>3. \A n \in 1..first : n \in 1..(first + N) /\ n <= first
    BY <1>1, <1>2
  <2> QED BY <2>1, <2>2, <2>3, LenProperties
<1>6. /\ open' \in Seq(Nat) /\ Len(open') = 2 /\ DOMAIN open' = 1..2 /\ open'[1] = 0 /\ open'[2] = 1
  <2>1. /\ open' \in Seq(Nat) /\ Len(open') = 2 /\ open'[1] = 0 /\ open'[2] = 1
    <3>1. Len(open) + 1 = 2 /\ 1 \in 1..Len(open) /\ 1 \in Nat
      BY <1>1
    <3>2. open \in Seq(Nat) /\ open' = Append(open, 1)
      BY <1>1, <1>3
    <3>3. /\ Append(open, 1) \in Seq(Nat) /\ Len(Append(open, 1)) = Len(open) + 1
          /\ \A k \in 1..Len(open) : Append(open, 1)[k] = open[k]
          /\ Append(open, 1)[Len(open) + 1] = 1
      BY ONLY <3>1, <3>2, AppendProperties
    <3> QED BY <1>1, <3>1, <3>2, <3>3
  <2> QED BY <2>1, LenProperties
<1>7. map \in Maps /\ DOMAIN map = {params[n].name : n \in 1..N}
      /\ \A n \in 1..N : map[params[n].name] = first + n
  <2> DEFINE C(x) == CHOOSE i \in DOMAIN params : params[i].name = x
             S == {params[n].name : n \in 1..N}
  <2>1. \A n \in 1..N : C(params[n].name) = n
    BY <1>2
  <2>2. map = [x \in S |-> first + C(x)]
    BY DEF Firsts
  <2>3. \A x \in S : C(x) \in 1..N
    BY <2>1
  <2> HIDE DEF C, map
  <2>7. \A x \in S : first + C(x) \in Nat
    BY <1>1, <2>3
  <2>4. map \in [S -> Nat]
    BY <2>2, <2>7
  <2>5. S \in SUBSET Bound
    BY <1>2
  <2>6. \A n \in 1..N : map[params[n].name] = first + n
    BY <2>1, <2>2
  <2>8. map \in Maps
    BY <2>4, <2>5 DEF Maps
  <2>9. DOMAIN map = S
    BY <2>4
  <2> QED BY <2>6, <2>8, <2>9
<1>8. /\ scope' \in Seq(Maps) /\ Len(scope') = 2 /\ scope'[1] = scope[1] /\ scope'[2] = map
  <2> DEFINE s == Append(scope, <<>>)
  <2>1. s \in Seq(Maps) /\ Len(s) = 2 /\ s[1] = scope[1] /\ s[2] = <<>> /\ s # <<>>
    <3>1. Len(scope) + 1 = 2 /\ 1 \in 1..Len(scope)
      BY <1>1
    <3>2. /\ s \in Seq(Maps) /\ s # <<>> /\ Len(s) = Len(scope) + 1
          /\ \A k \in 1..Len(scope) : s[k] = scope[k]
          /\ s[Len(scope) + 1] = <<>>
      <4>1. scope \in Seq(Maps)
        BY <1>1
      <4> QED BY ONLY <4>1, EmptyMap, AppendProperties DEF s
    <3> HIDE DEF s
    <3> QED BY <1>1, <3>1, <3>2
  <2> HIDE DEF s, map
  <2>2. PushParams(s, params, first) = [s EXCEPT ![2] = map]
    <3>1. PushParams(s, params, first) = [s EXCEPT ![Len(s)] = Firsts(params, N, first)]
      <4>1. s[Len(s)] = <<>>
        BY <2>1
      <4> HIDE DEF params
      <4>2. N = Len(params)
        OBVIOUS
      <4>3. first \in Nat
        BY <1>1
      <4>4. Len(params) \in Nat /\ DOMAIN params = 1..Len(params)
        BY <1>2, <4>2
      <4>5. \A i, j \in DOMAIN params : params[i].name = params[j].name => i = j
        BY <1>2
      <4> HIDE DEF N, first
      <4>6. s \in Seq(Maps) /\ s # <<>>
        BY <2>1
      <4>7. PushParams(s, params, first) = [s EXCEPT ![Len(s)] = Firsts(params, Len(params), first)]
        BY ONLY <4>1, <4>3, <4>4, <4>5, <4>6, ParamsPushed
      <4> QED BY ONLY <4>2, <4>7
    <3> QED BY <2>1, <3>1 DEF map
  <2>3. scope' = [s EXCEPT ![2] = map]
    BY <1>3, <2>2 DEF s
  <2> QED BY <1>7, <2>1, <2>3, ExceptSeq
<1> HIDE DEF map, N, params
<1>9. \A n \in DOMAIN vars : vars[n].block = 0
  <2>1. \A n \in DOMAIN vars : vars[n].block <= 0 /\ vars[n] \in Variables
    BY <1>1, LenProperties DEF Scoped, Opened
  <2>2. \A v \in Variables : v.block \in Nat
    BY DEF Variables
  <2> QED BY <2>1, <2>2
<1>10. \A n \in DOMAIN vars' :
          \/ n \in DOMAIN vars /\ n <= first /\ vars'[n] = vars[n] /\ vars'[n].block = 0
          \/ \E i \in 1..N : n = first + i /\ vars'[n].name = params[i].name /\ vars'[n].block = 1
  <2> TAKE n \in DOMAIN vars'
  <2>1. CASE n <= first
    BY <1>1, <1>5, <1>9, <2>1
  <2>2. CASE n > first
    <3>1. n - first \in 1..N /\ n = first + (n - first)
      BY <1>1, <1>2, <1>5, <2>2
    <3> QED BY <1>4, <1>5, <3>1
  <2> QED BY <1>1, <1>5, <2>1, <2>2
<1>11. Opened'
  <2>1. \A i, j \in DOMAIN open' : i < j => open'[i] < open'[j]
    BY <1>6
  <2>2. \A i \in DOMAIN open' : open'[i] <= blocks'
    BY <1>3, <1>6
  <2>3. \A n \in DOMAIN vars' : vars'[n].block <= blocks'
    BY <1>3, <1>10
  <2>4. function' \in Types
    BY <1>3, ExpressionsAssumption
  <2>5. function' # "none"
    BY <2>4 DEF Types
  <2> QED BY <1>3, <1>6, <2>1, <2>2, <2>3, <2>4, <2>5, EmptySeq DEF Opened
<1>12. Bindings'
  <2>1. ASSUME NEW k \in DOMAIN open', NEW x \in DOMAIN scope'[k]
        PROVE  /\ scope'[k][x] \in DOMAIN vars'
               /\ vars'[scope'[k][x]].name = x /\ vars'[scope'[k][x]].block = open'[k]
    <3>1. CASE k = 1
      <4>1. /\ scope[1][x] \in DOMAIN vars /\ vars[scope[1][x]].name = x
            /\ vars[scope[1][x]].block = open[1] /\ scope'[k][x] = scope[1][x]
        BY <1>1, <1>8, <2>1, <3>1 DEF Scoped, Bindings, Binds
      <4>2. scope[1][x] \in DOMAIN vars'
        BY <1>1, <1>2, <1>5, <4>1
      <4> QED BY <1>1, <1>5, <1>6, <3>1, <4>1, <4>2
    <3>2. CASE k = 2
      <4>1. PICK i \in 1..N : x = params[i].name
        BY <1>7, <1>8, <2>1, <3>2
      <4>2. scope'[k][x] = first + i /\ first + i \in DOMAIN vars'
        <5>1. scope'[k][x] = first + i
          BY <1>7, <1>8, <3>2, <4>1
        <5>2. first + i \in 1..(first + N)
          BY <1>1, <1>2
        <5> QED BY <1>5, <5>1, <5>2
      <4> QED BY <1>4, <1>5, <1>6, <3>2, <4>1, <4>2
    <3> QED BY <1>6, <3>1, <3>2
  <2>2. ASSUME NEW k \in DOMAIN open', NEW n \in DOMAIN vars', vars'[n].block = open'[k]
        PROVE  vars'[n].name \in DOMAIN scope'[k] /\ scope'[k][vars'[n].name] = n
    <3>1. CASE n \in DOMAIN vars /\ vars'[n] = vars[n] /\ vars'[n].block = 0
      <4>1. k = 1 /\ vars[n].block = open[1]
        BY <1>1, <1>6, <2>2, <3>1
      <4> QED BY <1>1, <1>8, <3>1, <4>1 DEF Scoped, Bindings
    <3>2. CASE \E i \in 1..N : n = first + i /\ vars'[n].name = params[i].name /\ vars'[n].block = 1
      <4>1. PICK i \in 1..N : n = first + i /\ vars'[n].name = params[i].name /\ vars'[n].block = 1
        BY <3>2
      <4>2. k = 2
        BY <1>6, <2>2, <4>1
      <4> QED BY <1>7, <1>8, <4>1, <4>2
    <3> QED BY <1>10, <3>1, <3>2
  <2> QED BY <1>6, <1>8, <2>1, <2>2 DEF Bindings, Binds
<1>13. InnerLater'
  <2> SUFFICES ASSUME NEW i \in DOMAIN open', NEW j \in DOMAIN open',
                      NEW m \in DOMAIN vars', NEW n \in DOMAIN vars',
                      i < j, vars'[m].block = open'[i], vars'[n].block = open'[j]
               PROVE  m < n
    BY DEF InnerLater
  <2>1. vars'[m].block = 0 /\ vars'[n].block = 1
    BY <1>6
  <2>2. m \in Nat /\ m <= first
    BY <1>1, <1>5, <1>10, <2>1
  <2>3. PICK l \in 1..N : n = first + l
    BY <1>10, <2>1
  <2> QED BY <1>1, <2>2, <2>3
<1> QED BY <1>5, <1>11, <1>12, <1>13 DEF Scoped

LEMMA InitScoped ==
    ASSUME Init PROVE ScopeInv
<1>1. /\ scope = <<<<>>>> /\ vars = <<>> /\ open = <<0>> /\ blocks = 0 /\ function = "none"
  BY DEF Init
<1>2. scope \in Seq(Maps) /\ Len(scope) = 1 /\ scope[1] = <<>>
  BY <1>1, EmptyMap
<1>3. vars \in Seq(Variables) /\ DOMAIN vars = {}
  BY <1>1
<1>4. Opened
  BY <1>1, <1>3 DEF Opened
<1>5. DOMAIN open = {1} /\ Len(open) = 1
  BY <1>1
<1>6. Bindings
  BY <1>2, <1>3, <1>5 DEF Bindings
<1>7. InnerLater
  BY <1>3 DEF InnerLater
<1> QED BY <1>3, <1>4, <1>6, <1>7 DEF ScopeInv, Scoped

\* Visitors of expressions leave the scopes alone.
Elsewhere == outcome = "running" /\ UNCHANGED <<scope, vars, open, blocks, function>>

LEMMA ElsewhereScoped ==
    ASSUME Scoped, Elsewhere PROVE Scoped'
<1>1. scope' = scope /\ vars' = vars /\ open' = open /\ blocks' = blocks /\ function' = function
  BY DEF Elsewhere
<1>2. Opened'
  BY <1>1 DEF Scoped, Opened
<1>3. Bindings'
  BY <1>1 DEF Scoped, Bindings, Binds
<1>4. InnerLater'
  BY <1>1 DEF Scoped, InnerLater
<1> QED BY <1>1, <1>2, <1>3, <1>4 DEF Scoped

LEMMA NextScoped ==
    ASSUME ScopeInv, Next PROVE ScopeInv'
<1> SUFFICES ASSUME outcome' = "running" PROVE Scoped'
  BY DEF ScopeInv
<1> USE DEF ScopeInv, Idle
<1>1. ASSUME NEW decl \in IF InGlobal THEN Globals ELSE Locals, Declare(decl) PROVE Scoped'
  <2>1. decl \in Globals \cup Locals /\ Scoped
    BY <1>1 DEF Declare
  <2> QED BY <1>1, <2>1, DeclareScoped
<1>2. ASSUME NEW fun \in Functions, StartFunction(fun) PROVE Scoped'
  <2>1. Scoped
    BY <1>2 DEF StartFunction
  <2> QED BY <1>2, <2>1, StartFunctionScoped
<1>3. CASE OpenBlock
  <2>1. Scoped
    BY <1>3 DEF OpenBlock
  <2> QED BY <1>3, <2>1, OpenBlockScoped
<1>4. CASE CloseBlock
  <2>1. Scoped
    BY <1>4 DEF CloseBlock
  <2> QED BY <1>4, <2>1, CloseBlockScoped
<1>5. CASE EndFunction
  BY <1>5 DEF EndFunction
<1>6. CASE Start
  BY <1>6, ElsewhereScoped DEF Start, Elsewhere
<1>7. ASSUME NEW node, NEW op, Enter(node, op) PROVE Scoped'
  BY <1>7, ElsewhereScoped DEF Enter, Wants, Elsewhere, svars
<1>8. ASSUME NEW value \in Numbers, VisitNum(value) PROVE Scoped'
  BY <1>8, ElsewhereScoped DEF VisitNum, Wants, Elsewhere, svars
<1>9. ASSUME NEW name, VisitVar(name) PROVE Scoped'
  BY <1>9, ElsewhereScoped DEF VisitVar, Wants, Elsewhere, svars
<1>10. ASSUME NEW name, EnterIndex(name) PROVE Scoped'
  BY <1>7, <1>10 DEF EnterIndex
<1>11. CASE FinishSingle
  BY <1>11, ElsewhereScoped DEF FinishSingle, Complete, Elsewhere, svars
<1>12. CASE LoadOperand
  BY <1>12, ElsewhereScoped DEF LoadOperand, Elsewhere, svars
<1>13. ASSUME NEW node, FinishArithmetic(node) PROVE Scoped'
  BY <1>13, ElsewhereScoped DEF FinishArithmetic, Complete, Elsewhere, svars
<1>14. CASE FinishSimple
  BY <1>14, ElsewhereScoped DEF FinishSimple, Complete, Elsewhere, svars
<1>15. CASE FinishAssign
  BY <1>15, ElsewhereScoped DEF FinishAssign, Complete, Elsewhere, svars
<1>16. CASE FinishIndex
  BY <1>16, ElsewhereScoped DEF FinishIndex, Complete, Elsewhere, svars
<1>17. CASE FinishArgument
  BY <1>17, ElsewhereScoped DEF FinishArgument, Elsewhere, svars
<1>18. CASE FinishCall
  BY <1>18, ElsewhereScoped DEF FinishCall, Complete, Elsewhere, svars
<1>19. CASE FinishCondition
  BY <1>19, ElsewhereScoped DEF FinishCondition, Expressed, Complete, Elsewhere, svars
<1>20. CASE FinishReturn
  BY <1>20, ElsewhereScoped DEF FinishReturn, Expressed, Complete, Elsewhere, svars
<1>21. CASE FinishStatement
  BY <1>21, ElsewhereScoped DEF FinishStatement, Expressed, Complete, Elsewhere, svars
<1> QED BY <1>1, <1>2, <1>3, <1>4, <1>5, <1>6, <1>7, <1>8, <1>9, <1>10, <1>11, <1>12, <1>13, <1>14,
           <1>15, <1>16, <1>17, <1>18, <1>19, <1>20, <1>21 DEF Next

\* The state of the scopes is always like this.
LEMMA SpecScoped == Spec => []ScopeInv
<1>1. Init => ScopeInv
  BY InitScoped
<1>2. ScopeInv /\ [Next]_evars => ScopeInv'
  <2>1. ASSUME ScopeInv, UNCHANGED evars PROVE ScopeInv'
    <3>1. outcome = "running" => Elsewhere
      BY <2>1 DEF evars, svars, Elsewhere
    <3>2. outcome' = outcome
      BY <2>1 DEF evars
    <3> QED BY <2>1, <3>1, <3>2, ElsewhereScoped DEF ScopeInv
  <2> QED BY <2>1, NextScoped
<1> QED BY <1>1, <1>2, PTL DEF Spec

\* Scope::find gives a name the variable that C means by it: whatever blocks
\* are open and declare the same names again, and after those that were left.
THEOREM NamesResolved == Spec => []NamesResolve
<1>1. ScopeInv => NamesResolve
  BY ScopedResolves DEF ScopeInv, NamesResolve
<1> QED BY <1>1, SpecScoped, PTL

-----------------------------------------------------------------------------
(* What visitors hold.                                                     *)
\* A value and what it means: numbers, places of variables and of elements,
\* and the first cells of arrays of integers, cells being in C.
Ints == {Kid(Int32(d), Num(d)) : d \in Int}
Bits == {Kid(Value("i1", d), Num(d)) : d \in {0, 1}}
Floats == {Kid(Value("float", d), Float(d)) : d \in Int}
Scalars == Ints \cup Bits \cup Floats
Places(C) == {Kid(Value(PointerTo(t), c), Place(t, c)) : t \in Types, c \in C}
Arrays(C) == {Kid(Value(p, c), Place("i32", c)) : p \in {"i32*", "[i32]*"}, c \in C}
Kids(C) == Scalars \cup Places(C) \cup Arrays(C)

\* An argument that is converted.
Passed(type, C) ==
    CASE type = "i32" -> Ints
      [] type = "float" -> Floats
      [] type = "i32*" -> {Kid(Value("i32*", c), Place("i32", c)) : c \in C}

\* Child k of a frame; array says if that frame is a term that is to be one.
KidsAt(frame, array, k, C) ==
    CASE frame.node = "call" -> IF k <= frame.ready THEN Passed(Callee[frame.op].params[k], C)
                                ELSE IF PassesArray(frame, k) THEN Arrays(C) ELSE Scalars
      [] frame.node = "mul" -> IF k = 2 /\ frame.ready < 2 THEN Scalars \cup Places(C) ELSE Scalars
      [] frame.node = "single" -> IF array THEN Arrays(C) ELSE Places(C)
      [] frame.node = "assign" -> IF k = 1 THEN Places(C) ELSE Scalars
      [] OTHER -> Scalars

Nodes == (Operand \ {"num"}) \cup {"statement", "index"}
Ops == {"", "mul"} \cup Operators \cup Relations \cup DOMAIN Callee \cup Names
Frames(C) == [node : Nodes, op : Ops, kids : Seq(Kids(C)), ready : Nat]

\* A visitor in the course of its work; A are the names of arrays.
FrameOp(frame, A) ==
    /\ frame.node = "simple" => frame.op \in Relations
    /\ frame.node = "additive" => frame.op \in Operators
    /\ frame.node = "mul" => frame.op = "mul"
    /\ frame.node = "call" => frame.op \in DOMAIN Callee
    /\ frame.node = "index" => frame.op \in A

FrameOK(frame, array, C, A) ==
    /\ FrameOp(frame, A)
    /\ Len(frame.kids) <= Arity(frame)
    /\ \A k \in DOMAIN frame.kids : frame.kids[k] \in KidsAt(frame, array, k, C)
    /\ frame.node \in {"call", "mul"} =>
          frame.ready <= Len(frame.kids) /\ Len(frame.kids) <= frame.ready + 1

\* Visitor p is of a term that is to be an array.
ArrayAt(v, p) ==
    p > 1 /\ v[p].node = "single" /\ PassesArray(v[p - 1], Len(v[p - 1].kids) + 1)

\* A visitor that can visit, or is visiting, a child, and one like this.
Takes(frame) ==
    /\ Len(frame.kids) < Arity(frame)
    /\ frame.node \in {"call", "mul"} => frame.ready = Len(frame.kids)

Waits(frame, node) == Takes(frame) /\ node \in Wanted(frame, Len(frame.kids) + 1)

More(frame, kid) == [frame EXCEPT !.kids = Append(@, kid)]

\* A visitor whose last child is converted to this.
ReadyKids(frame, C) ==
    IF frame.node = "call" THEN Passed(Callee[frame.op].params[Len(frame.kids)], C) ELSE Scalars

Turns(frame) ==
    /\ frame.node \in {"call", "mul", "statement"} /\ Len(frame.kids) > 0
    /\ frame.node \in {"call", "mul"} => Len(frame.kids) > frame.ready

Turned(frame, kid) == [frame EXCEPT !.kids[Len(frame.kids)] = kid, !.ready = Len(frame.kids)]

StackOK(v, C, A) ==
    /\ v \in Seq(Frames(C))
    /\ v # <<>> => v[1].node = "statement"
    /\ \A p \in DOMAIN v : FrameOK(v[p], ArrayAt(v, p), C, A)
    /\ \A p \in DOMAIN v : p # Len(v) =>
          /\ Waits(v[p], v[p + 1].node)
          /\ v[p + 1].node = "index" => ~ArrayAt(v, p)

\* An array comes next, for a call or for a term that is its argument.
ArrayNext(v) ==
    v # <<>> /\ (PassesArray(v[Len(v)], v[Len(v)].ready + 1) \/ ArrayAt(v, Len(v)))

\* The names of arrays, where there can be an index.
ArrayNames == {x \in Names : Visible(x) # 0 /\ vars[Visible(x)].kind # "var"}

\* Memory has the cells of every variable, with numbers in them.
Stored ==
    /\ mem = store
    /\ DOMAIN store \subseteq Int \X Int
    /\ store \in [DOMAIN store -> Int]
    /\ \A i \in 0..(PassedLength - 1) : <<0, i>> \in DOMAIN store
    /\ \A n \in DOMAIN vars :
          /\ vars[n].kind = "passed" => vars[n].length = PassedLength
          /\ vars[n].kind = "var" => vars[n].length = 1
          /\ vars[n].kind # "passed" =>
                \A i \in 0..(vars[n].length - 1) : <<n, i>> \in DOMAIN store

Visiting ==
    /\ StackOK(visits, DOMAIN store, ArrayNames)
    /\ inCall <=> ArrayNext(visits)
    /\ visits # <<>> => function # "none"

AgreeInv ==
    /\ ExpressionsAgree /\ FailsOnlyOnComparisons
    /\ outcome = "running" => Scoped /\ Stored /\ Visiting

-----------------------------------------------------------------------------
(* Values.                                                                 *)
\* A number, in its parts.
LEMMA ScalarParts ==
    ASSUME NEW k \in Scalars
    PROVE  /\ k.ir.type \in {"i1", "i32", "float"} /\ k.ir.d \in Int
           /\ k.ir.type = "i1" => k.ir.d \in {0, 1}
           /\ k.ir = Value(k.ir.type, k.ir.d)
           /\ k.means = (IF k.ir.type = "float" THEN Float(k.ir.d) ELSE Num(k.ir.d))
           /\ k.means.n = k.ir.d /\ (k.means.t = "float" <=> k.ir.type = "float") /\ k.means.t \in {"int", "float"}
<1>1. CASE k \in Ints
  BY <1>1 DEF Ints, Kid, Int32, Value, Num, Means
<1>2. CASE k \in Bits
  BY <1>2 DEF Bits, Kid, Value, Num, Means
<1>3. CASE k \in Floats
  BY <1>3 DEF Floats, Kid, Value, Float, Means
<1> QED BY <1>1, <1>2, <1>3 DEF Scalars

\* And made of them.
LEMMA ScalarMade ==
    /\ \A d \in Int : Kid(Int32(d), Num(d)) \in Ints \cap Scalars
    /\ \A d \in Int : Kid(Value("float", d), Float(d)) \in Floats \cap Scalars
    /\ \A b \in BOOLEAN : Kid(Value("i1", Bit(b)), Num(Bit(b))) \in Scalars
<1>1. \A b \in BOOLEAN : Bit(b) \in {0, 1}
  BY DEF Bit
<1> QED BY <1>1 DEF Ints, Bits, Floats, Scalars

\* A place, in its parts.
LEMMA PlaceParts ==
    ASSUME NEW C, NEW k \in Places(C)
    PROVE  \E t \in Types :
              /\ k.ir = Value(PointerTo(t), k.ir.d) /\ k.means = Place(t, k.ir.d) /\ k.ir.d \in C
              /\ IsScalarPointer(k.ir) /\ IsPointer(k.ir) /\ Pointee(k.ir) = t /\ PlaceType(k.means) = t
              /\ k.means.n = k.ir.d /\ k.ir.type \in {"i32*", "float*"}
<1>1. PICK t \in Types, c \in C : k = Kid(Value(PointerTo(t), c), Place(t, c))
  BY DEF Places
<1>2. k.ir = Value(PointerTo(t), c) /\ k.means = Place(t, c) /\ k.ir.d = c /\ k.ir.type = PointerTo(t)
  BY <1>1 DEF Kid, Value
<1>3. k.means.n = c /\ k.means.t = IF t = "i32" THEN "int*" ELSE "float*"
  BY <1>2 DEF Place, Means
<1>4. t = "i32" \/ t = "float"
  BY DEF Types
<1> QED BY <1>2, <1>3, <1>4 DEF IsScalarPointer, IsPointer, IsArrayPointer, Pointee, PlaceType, PointerTo

\* An array of integers, in its parts.
LEMMA ArrayParts ==
    ASSUME NEW C, NEW k \in Arrays(C)
    PROVE  /\ k.ir.type \in {"i32*", "[i32]*"} /\ k.ir = Value(k.ir.type, k.ir.d)
           /\ k.ir.d \in C /\ k.means = Place("i32", k.ir.d) /\ IsPointer(k.ir) /\ Pointee(k.ir) = "i32"
           /\ k.means.n = k.ir.d
<1>1. PICK p \in {"i32*", "[i32]*"}, c \in C : k = Kid(Value(p, c), Place("i32", c))
  BY DEF Arrays
<1>2. k.ir = Value(p, c) /\ k.means = Place("i32", c) /\ k.ir.d = c /\ k.ir.type = p
  BY <1>1 DEF Kid, Value
<1>3. k.means.n = c
  BY <1>2 DEF Place, Means
<1> QED BY <1>2, <1>3 DEF IsScalarPointer, IsPointer, IsArrayPointer, Pointee

LEMMA ToZeroInt == ASSUME NEW n \in Int PROVE ToZero(n) \in Int
BY DEF ToZero, Unit

\* The parameters of those that are called.
Parameters == {"i32", "float", "i32*"}

\* A number is converted as C converts it.
LEMMA ConvertAgrees ==
    ASSUME NEW k \in Scalars, NEW type \in Types
    PROVE  /\ Kid(Convert(k.ir, type), Converted(k.means, type)) \in Passed(type, {}) \cap Scalars
           /\ Convert(k.ir, type).type = type
           /\ Convert(k.ir, type).d = Converted(k.means, type).n
           /\ Convert(k.ir, type) # Failed
<1> DEFINE d == k.ir.d
<1>1. /\ d \in Int /\ k.ir = Value(k.ir.type, d) /\ k.ir.type \in {"i1", "i32", "float"} /\ type \in {"i32", "float"}
      /\ k.means = (IF k.ir.type = "float" THEN Float(d) ELSE Num(d))
  BY ScalarParts DEF Types
<1> HIDE DEF d
<1>2. ToZero(d) \in Int /\ 16 * d \in Int
  BY <1>1, ToZeroInt
<1>3. CASE type = "i32"
  <2>1. PICK e \in Int : Convert(k.ir, type) = Int32(e) /\ Converted(k.means, type) = Num(e)
    <3>1. CASE k.ir.type = "float"
      <4>1. Convert(k.ir, type) = Int32(ToZero(d))
        BY <1>1, <1>3, <3>1 DEF Convert, FPToSI, IsFloat, Value
      <4>2. Converted(k.means, type) = Num(ToZero(d))
        BY <1>1, <1>3, <3>1 DEF Converted, AsInt, Float, Means
      <4> QED BY <1>2, <4>1, <4>2
    <3>2. CASE k.ir.type # "float"
      <4>1. Convert(k.ir, type) = Int32(d)
        <5>1. CASE k.ir.type = "i32"
          <6>1. Convert(k.ir, type) = k.ir
            BY <1>3, <5>1 DEF Convert
          <6> QED BY <1>1, <5>1, <6>1 DEF Int32
        <5>2. CASE k.ir.type = "i1"
          <6>1. Convert(k.ir, type) = ZExt(k.ir)
            BY <1>3, <5>2 DEF Convert
          <6>2. ZExt(k.ir) = Int32(k.ir.d)
            BY <5>2 DEF ZExt
          <6> QED BY <6>1, <6>2 DEF d
        <5> QED BY <1>1, <3>2, <5>1, <5>2
      <4>2. Converted(k.means, type) = Num(d)
        BY <1>1, <1>3, <3>2 DEF Converted, AsInt, Num, Means
      <4> QED BY <1>1, <4>1, <4>2
    <3> QED BY <3>1, <3>2
  <2>2. Int32(e).type = "i32" /\ Int32(e).d = Num(e).n /\ Int32(e) # Failed
    BY DEF Int32, Value, Num, Means, Failed
  <2> QED BY <1>3, <2>1, <2>2, ScalarMade DEF Passed
<1>4. CASE type = "float"
  <2>1. PICK e \in Int : Convert(k.ir, type) = Value("float", e) /\ Converted(k.means, type) = Float(e)
    <3>1. CASE k.ir.type = "float"
      <4>1. Convert(k.ir, type) = Value("float", d)
        <5>1. Convert(k.ir, type) = k.ir
          BY <1>4, <3>1 DEF Convert
        <5> QED BY <1>1, <3>1, <5>1
      <4>2. Converted(k.means, type) = Float(d)
        BY <1>1, <1>4, <3>1 DEF Converted, AsFloat, Float, Means
      <4> QED BY <1>1, <4>1, <4>2
    <3>2. CASE k.ir.type # "float"
      <4>1. Convert(k.ir, type) = Value("float", 16 * d)
        BY <1>1, <1>4, <3>2 DEF Convert, ZExt, SIToFP, Value, Int32, Unit
      <4>2. Converted(k.means, type) = Float(16 * d)
        BY <1>1, <1>4, <3>2 DEF Converted, AsFloat, Num, Means, Unit
      <4> QED BY <1>2, <4>1, <4>2
    <3> QED BY <3>1, <3>2
  <2>2. Value("float", e).type = "float" /\ Value("float", e).d = Float(e).n /\ Value("float", e) # Failed
    BY DEF Value, Float, Means, Failed
  <2> QED BY <1>4, <2>1, <2>2, ScalarMade DEF Passed
<1> QED BY <1>1, <1>3, <1>4

\* What is in a visitor is not what a failed constructor gives.
LEMMA ScalarNotFailed ==
    ASSUME NEW v, NEW m, Kid(v, m) \in Scalars PROVE v # Failed
<1>1. Kid(v, m).ir = v
  BY DEF Kid
<1>2. v.type \in {"i1", "i32", "float"}
  BY <1>1, ScalarParts
<1> QED BY <1>2 DEF Failed, Value

Relational == {"eq", "ne", "lt", "le", "gt", "ge"}
Arithmetical == {"add", "sub", "mul"}

LEMMA CompareTypes ==
    /\ \A rel \in Relational : \A m, n \in Int :
          /\ Compare(rel, m, n) \in BOOLEAN
          /\ Compare(rel, 16 * m, 16 * n) = Compare(rel, m, n)
    /\ \A op \in Arithmetical : \A m, n \in Int :
          Calculate(op, m, n) \in Int /\ FloatCalculate(op, m, n) \in Int
<1>1. ASSUME NEW rel \in Relational, NEW m \in Int, NEW n \in Int
      PROVE  Compare(rel, m, n) \in BOOLEAN /\ Compare(rel, 16 * m, 16 * n) = Compare(rel, m, n)
  <2>1. CASE rel = "eq"
    BY <2>1 DEF Compare
  <2>2. CASE rel = "ne"
    BY <2>2 DEF Compare
  <2>3. CASE rel = "lt"
    BY <2>3 DEF Compare
  <2>4. CASE rel = "le"
    BY <2>4 DEF Compare
  <2>5. CASE rel = "gt"
    BY <2>5 DEF Compare
  <2>6. CASE rel = "ge"
    BY <2>6 DEF Compare
  <2> QED BY <2>1, <2>2, <2>3, <2>4, <2>5, <2>6 DEF Relational
<1>2. ASSUME NEW op \in Arithmetical, NEW m \in Int, NEW n \in Int
      PROVE  Calculate(op, m, n) \in Int /\ FloatCalculate(op, m, n) \in Int
  <2>1. m + n \in Int /\ m - n \in Int /\ m * n \in Int /\ (m * n) \div 16 \in Int
    OBVIOUS
  <2>2. CASE op = "add"
    BY <2>1, <2>2 DEF Calculate, FloatCalculate
  <2>3. CASE op = "sub"
    BY <2>1, <2>3 DEF Calculate, FloatCalculate
  <2>4. CASE op = "mul"
    BY <2>1, <2>4 DEF Calculate, FloatCalculate, Unit
  <2> QED BY <2>2, <2>3, <2>4 DEF Arithmetical
<1> QED BY <1>1, <1>2

\* A number as a float.
LEMMA AsFloatInt ==
    ASSUME NEW k \in Scalars
    PROVE  /\ AsFloat(k.means) \in Int
           /\ k.ir.type # "float" => AsFloat(k.means) = 16 * k.ir.d
           /\ Converted(k.means, "float") = Float(AsFloat(k.means))
           /\ AsFloat(k.means) = Converted(k.means, "float").n
<1>1. k.ir.d \in Int /\ k.means.n = k.ir.d /\ k.means.t \in {"int", "float"}
      /\ (k.means.t = "float" <=> k.ir.type = "float")
  BY ScalarParts
<1> QED BY <1>1 DEF AsFloat, Converted, Unit, Float, Means

LEMMA ArithmeticAgrees ==
    ASSUME NEW k \in Scalars, NEW l \in Scalars, NEW op \in Arithmetical
    PROVE  /\ ~(IsFloat(k.ir) \/ IsFloat(l.ir)) =>
                 \/ Kid(IBinary(op, k.ir, l.ir), Arithmetic(op, k.means, l.means)) \in Scalars
                 \/ IBinary(op, k.ir, l.ir) = Failed /\ "i1" \in {k.ir.type, l.ir.type}
           /\ (IsFloat(k.ir) \/ IsFloat(l.ir)) /\ ~Signed({k.ir, l.ir}) =>
                 Kid(FBinary(op, Promoted(k.ir), Promoted(l.ir)), Arithmetic(op, k.means, l.means)) \in Scalars
<1> DEFINE d == k.ir.d
           e == l.ir.d
<1>1. /\ d \in Int /\ k.ir.type \in {"i1", "i32", "float"} /\ k.means.n = d /\ k.ir = Value(k.ir.type, d)
      /\ k.means.t \in {"int", "float"} /\ (k.means.t = "float" <=> k.ir.type = "float")
  BY ScalarParts
<1>2. /\ e \in Int /\ l.ir.type \in {"i1", "i32", "float"} /\ l.means.n = e /\ l.ir = Value(l.ir.type, e)
      /\ l.means.t \in {"int", "float"} /\ (l.means.t = "float" <=> l.ir.type = "float")
  BY ScalarParts
<1>3. ASSUME ~(IsFloat(k.ir) \/ IsFloat(l.ir))
      PROVE  \/ Kid(IBinary(op, k.ir, l.ir), Arithmetic(op, k.means, l.means)) \in Scalars
             \/ IBinary(op, k.ir, l.ir) = Failed /\ "i1" \in {k.ir.type, l.ir.type}
  <2>1. k.means.t # "float" /\ l.means.t # "float"
    BY <1>1, <1>2, <1>3 DEF IsFloat
  <2>2. Arithmetic(op, k.means, l.means) = Num(Calculate(op, d, e))
    BY <1>1, <1>2, <2>1 DEF Arithmetic
  <2>3. CASE k.ir.type = "i32" /\ l.ir.type = "i32"
    <3>1. IBinary(op, k.ir, l.ir) = Int32(Calculate(op, d, e))
      BY <2>3 DEF IBinary
    <3>2. Calculate(op, d, e) \in Int
      BY <1>1, <1>2, CompareTypes
    <3> QED BY <2>2, <3>1, <3>2, ScalarMade
  <2>4. CASE ~(k.ir.type = "i32" /\ l.ir.type = "i32")
    BY <1>1, <1>2, <1>3, <2>4 DEF IBinary, IsFloat
  <2> QED BY <2>3, <2>4
<1>4. ASSUME IsFloat(k.ir) \/ IsFloat(l.ir), ~Signed({k.ir, l.ir})
      PROVE  Kid(FBinary(op, Promoted(k.ir), Promoted(l.ir)), Arithmetic(op, k.means, l.means)) \in Scalars
  <2>1. "float" \in {k.means.t, l.means.t}
    BY <1>1, <1>2, <1>4 DEF IsFloat
  <2>2. Arithmetic(op, k.means, l.means) = Float(FloatCalculate(op, AsFloat(k.means), AsFloat(l.means)))
    BY <2>1 DEF Arithmetic
  <2>3. ASSUME NEW x \in {k, l} PROVE Promoted(x.ir) = Value("float", AsFloat(x.means))
    <3>1. x.ir.type # "i1" /\ x \in Scalars
      BY <1>4, <2>3 DEF Signed
    <3>2. x.ir.type \in {"i1", "i32", "float"} /\ x.ir = Value(x.ir.type, x.ir.d) /\ x.means.n = x.ir.d
          /\ x.means.t \in {"int", "float"} /\ (x.means.t = "float" <=> x.ir.type = "float")
      BY <3>1, ScalarParts
    <3>3. CASE x.ir.type = "float"
      BY <3>2, <3>3 DEF Promoted, IsInteger, AsFloat
    <3>4. CASE x.ir.type = "i32"
      BY <3>2, <3>4 DEF Promoted, IsInteger, AsFloat, SIToFP
    <3> QED BY <3>1, <3>2, <3>3, <3>4
  <2>4. AsFloat(k.means) \in Int /\ AsFloat(l.means) \in Int
    BY AsFloatInt
  <2>5. FBinary(op, Promoted(k.ir), Promoted(l.ir))
          = Value("float", FloatCalculate(op, AsFloat(k.means), AsFloat(l.means)))
    BY <2>3 DEF FBinary, IsFloat, Value
  <2>6. FloatCalculate(op, AsFloat(k.means), AsFloat(l.means)) \in Int
    BY <2>4, CompareTypes
  <2> QED BY <2>2, <2>5, <2>6, ScalarMade
<1> QED BY <1>3, <1>4

LEMMA ComparisonAgrees ==
    ASSUME NEW k \in Scalars, NEW l \in Scalars, NEW rel \in Relational
    PROVE  Kid(IF k.ir.type = "i32" /\ l.ir.type = "i32" THEN ICmp(rel, k.ir, l.ir)
               ELSE FCmp(rel, Compared(k.ir), Compared(l.ir)),
               Comparison(rel, k.means, l.means)) \in Scalars
<1> DEFINE d == k.ir.d
           e == l.ir.d
<1>1. /\ d \in Int /\ k.ir.type \in {"i1", "i32", "float"} /\ k.means.n = d
      /\ k.means.t \in {"int", "float"} /\ (k.means.t = "float" <=> k.ir.type = "float")
  BY ScalarParts
<1>2. /\ e \in Int /\ l.ir.type \in {"i1", "i32", "float"} /\ l.means.n = e
      /\ l.means.t \in {"int", "float"} /\ (l.means.t = "float" <=> l.ir.type = "float")
  BY ScalarParts
<1>3. CASE k.ir.type = "i32" /\ l.ir.type = "i32"
  <2>1. ICmp(rel, k.ir, l.ir) = Value("i1", Bit(Compare(rel, d, e)))
    BY <1>3 DEF ICmp
  <2>2. Comparison(rel, k.means, l.means) = Num(Bit(Compare(rel, d, e)))
    BY <1>1, <1>2, <1>3 DEF Comparison
  <2>3. Compare(rel, d, e) \in BOOLEAN
    BY <1>1, <1>2, CompareTypes
  <2> QED BY <1>3, <2>1, <2>2, <2>3, ScalarMade
<1>4. CASE ~(k.ir.type = "i32" /\ l.ir.type = "i32")
  <2> DEFINE x == AsFloat(k.means)
             y == AsFloat(l.means)
  <2>1. /\ Compared(k.ir).type = "float" /\ Compared(k.ir).d = x
        /\ Compared(l.ir).type = "float" /\ Compared(l.ir).d = y
    BY ConvertAgrees, AsFloatInt DEF Compared, Types
  <2>2. FCmp(rel, Compared(k.ir), Compared(l.ir)) = Value("i1", Bit(Compare(rel, x, y)))
    BY <2>1 DEF FCmp, IsFloat
  <2>3. x \in Int /\ y \in Int
    BY AsFloatInt
  <2>4. Comparison(rel, k.means, l.means) = Num(Bit(Compare(rel, x, y)))
    <3>1. CASE "float" \in {k.means.t, l.means.t}
      BY <3>1 DEF Comparison
    <3>2. CASE "float" \notin {k.means.t, l.means.t}
      <4>1. x = 16 * d /\ y = 16 * e
        BY <1>1, <1>2, <3>2, AsFloatInt
      <4>2. Comparison(rel, k.means, l.means) = Num(Bit(Compare(rel, d, e)))
        BY <1>1, <1>2, <3>2 DEF Comparison
      <4>3. Compare(rel, x, y) = Compare(rel, d, e)
        BY <1>1, <1>2, <4>1, CompareTypes
      <4> QED BY <4>2, <4>3
    <3> QED BY <3>1, <3>2
  <2>5. Compare(rel, x, y) \in BOOLEAN
    BY <2>3, CompareTypes
  <2> QED BY <1>4, <2>2, <2>4, <2>5, ScalarMade
<1> QED BY <1>3, <1>4

\* A condition.
LEMMA TestAgrees ==
    ASSUME NEW k \in Scalars
    PROVE  Kid(Test(k.ir), Comparison("ne", k.means, Num(0))) \in Scalars
<1> DEFINE d == k.ir.d
           zero == Kid(Int32(0), Num(0))
<1>1. /\ d \in Int /\ k.ir.type \in {"i1", "i32", "float"} /\ k.means.n = d
      /\ k.means.t \in {"int", "float"} /\ (k.means.t = "float" <=> k.ir.type = "float")
      /\ (k.ir.type = "i1" => d \in {0, 1}) /\ k.ir = Value(k.ir.type, d)
  BY ScalarParts
<1>2. Num(0).t = "int" /\ Num(0).n = 0 /\ AsFloat(Num(0)) = 0
  BY DEF Num, Means, AsFloat, Unit
<1>3. (d # 0) \in BOOLEAN /\ Compare("ne", d, 0) = (d # 0)
  BY DEF Compare
<1>4. CASE k.ir.type = "float"
  <2>1. Test(k.ir) = Value("i1", Bit(d # 0))
    BY <1>3, <1>4 DEF Test, FCmp, IsFloat, Value
  <2>2. AsFloat(k.means) = d
    BY <1>1, <1>4 DEF AsFloat
  <2>3. Comparison("ne", k.means, Num(0)) = Num(Bit(d # 0))
    BY <1>1, <1>2, <1>3, <1>4, <2>2 DEF Comparison
  <2> QED BY <1>3, <2>1, <2>3, ScalarMade
<1>5. CASE k.ir.type # "float"
  <2>1. Comparison("ne", k.means, Num(0)) = Num(Bit(d # 0))
    BY <1>1, <1>2, <1>3, <1>5 DEF Comparison
  <2>2. Test(k.ir) = Value("i1", Bit(d # 0))
    <3>1. CASE k.ir.type = "i32"
      BY <1>3, <3>1 DEF Test, ICmp, IsFloat, Int32, Value
    <3>2. CASE k.ir.type = "i1"
      <4>1. Test(k.ir) = k.ir
        BY <3>2 DEF Test, IsFloat
      <4>2. d = Bit(d # 0)
        BY <1>1, <3>2 DEF Bit
      <4> QED BY <1>1, <3>2, <4>1, <4>2
    <3> QED BY <1>1, <1>5, <3>1, <3>2
  <2> QED BY <1>3, <2>1, <2>2, ScalarMade
<1> QED BY <1>4, <1>5

\* What a function returns.
LEMMA ReturnedAgrees ==
    ASSUME NEW k \in Scalars, function \in Types, ~(function = "float" /\ Signed({k.ir}))
    PROVE  \/ Kid(Returned(k.ir), Converted(k.means, function)) \in Scalars
           \/ Returned(k.ir) = Failed /\ k.ir.type = "i1"
<1> DEFINE d == k.ir.d
           c == Convert(k.ir, function)
<1>1. k.ir.type \in {"i1", "i32", "float"}
  BY ScalarParts
<1>2. Kid(c, Converted(k.means, function)) \in Scalars /\ c.type = function
  BY ConvertAgrees
<1>3. function = "i32" \/ function = "float"
  BY DEF Types
<1>4. CASE function = "i32"
  <2>1. CASE k.ir.type = "i1"
    BY <1>4, <2>1 DEF Returned, IsFloat
  <2>2. CASE k.ir.type # "i1"
    <3>1. c = IF IsFloat(k.ir) THEN FPToSI(k.ir, "i32") ELSE k.ir
      <4>1. CASE k.ir.type = "float"
        BY <1>4, <4>1 DEF Convert, IsFloat
      <4>2. CASE k.ir.type = "i32"
        BY <1>4, <4>2 DEF Convert, IsFloat
      <4> QED BY <1>1, <2>2, <4>1, <4>2
    <3> HIDE DEF c
    <3>2. Returned(k.ir) = c
      BY <1>2, <1>4, <3>1 DEF Returned
    <3> QED BY <1>2, <3>2
  <2> QED BY <2>1, <2>2
<1>5. CASE function = "float"
  <2>1. k.ir.type # "i1"
    BY <1>5 DEF Signed
  <2>2. c = IF IsFloat(k.ir) THEN k.ir ELSE SIToFP(k.ir)
    <3>1. CASE k.ir.type = "float"
      BY <1>5, <3>1 DEF Convert, IsFloat
    <3>2. CASE k.ir.type = "i32"
      BY <1>5, <3>2 DEF Convert, IsFloat
    <3> QED BY <1>1, <2>1, <3>1, <3>2
  <2> HIDE DEF c
  <2>3. Returned(k.ir) = c
    BY <1>2, <1>5, <2>2 DEF Returned
  <2> QED BY <1>2, <2>3
<1> QED BY <1>3, <1>4, <1>5

\* What a place holds.
LEMMA LoadAgrees ==
    ASSUME NEW k \in Places(DOMAIN store), mem = store, store \in [DOMAIN store -> Int]
    PROVE  Kid(Load(mem, k.ir), Evaluated(k.means)) \in Scalars
<1>1. PICK t \in Types : /\ k.means = Place(t, k.ir.d) /\ k.ir.d \in DOMAIN store
                         /\ IsScalarPointer(k.ir) /\ Pointee(k.ir) = t
  BY PlaceParts
<1> DEFINE x == store[k.ir.d]
<1>2. x \in Int
  BY <1>1
<1>3. Load(mem, k.ir) = Value(t, x)
  BY <1>1 DEF Load
<1>4. Evaluated(k.means) = IF t = "i32" THEN Num(x) ELSE Float(x)
  BY <1>1 DEF Evaluated, Place, Means, Types
<1> HIDE DEF x
<1>5. t = "i32" \/ t = "float"
  BY DEF Types
<1> QED BY <1>2, <1>3, <1>4, <1>5, ScalarMade DEF Int32

\* A number is no place, and what it means is no place either.
LEMMA ScalarStays ==
    ASSUME NEW k \in Scalars
    PROVE  ~IsPointer(k.ir) /\ Evaluated(k.means) = k.means /\ k = Kid(k.ir, k.means)
<1>1. k.ir.type \in {"i1", "i32", "float"} /\ k.means.t \in {"int", "float"}
  BY ScalarParts
<1>2. ~IsPointer(k.ir)
  BY <1>1 DEF IsPointer, IsScalarPointer, IsArrayPointer
<1>3. Evaluated(k.means) = k.means
  BY <1>1 DEF Evaluated
<1>4. k = Kid(k.ir, k.means)
  BY DEF Scalars, Ints, Bits, Floats, Kid
<1> QED BY <1>2, <1>3, <1>4

\* The first element of an array.
LEMMA ElementAgrees ==
    ASSUME NEW C, C \subseteq Int \X Int, NEW k \in Arrays(C)
    PROVE  /\ Kid(GetElementPtr(k.ir, Int32(0)), k.means) \in Passed("i32*", C)
           /\ GetElementPtr(k.ir, Int32(0)) # Failed
<1> DEFINE c == k.ir.d
<1>1. c \in C /\ k.means = Place("i32", c) /\ IsPointer(k.ir) /\ Pointee(k.ir) = "i32"
  BY ArrayParts
<1>2. c = <<c[1], c[2] + 0>>
  <2>1. c \in Int \X Int
    BY <1>1
  <2> HIDE DEF c
  <2> QED BY <2>1
<1>3. GetElementPtr(k.ir, Int32(0)) = Value("i32*", <<c[1], c[2] + 0>>)
  BY <1>1 DEF GetElementPtr, IsInteger, Int32, Value, PointerTo
<1> HIDE DEF c
<1>4. GetElementPtr(k.ir, Int32(0)) = Value("i32*", c)
  BY <1>2, <1>3
<1>5. Value("i32*", c) # Failed
  BY DEF Value, Failed
<1> QED BY <1>1, <1>4, <1>5 DEF Passed

-----------------------------------------------------------------------------
(* The stack of visitors.                                                  *)
LEMMA CalleeParts ==
    /\ DOMAIN Callee = {"f", "k"}
    /\ Callee["f"].params = <<"i32">> /\ Callee["f"].returns = "i32"
    /\ Callee["k"].params = <<"i32*", "float">> /\ Callee["k"].returns = "float"
BY DEF Callee

\* How many children, and which of them are arrays.
LEMMA ArityParts ==
    ASSUME NEW frame, frame.node = "call" => frame.op \in DOMAIN Callee
    PROVE  /\ Arity(frame) \in 1..2
           /\ frame.node \in {"assign", "simple", "additive", "mul"} => Arity(frame) = 2
           /\ frame.node \in {"statement", "single", "index"} => Arity(frame) = 1
           /\ frame.node = "call" => /\ Arity(frame) = Len(Callee[frame.op].params)
                                     /\ DOMAIN Callee[frame.op].params = 1..Arity(frame)
                                     /\ \A k \in 1..Arity(frame) : Callee[frame.op].params[k] \in Parameters
           /\ \A k \in 1..Arity(frame) :
                 PassesArray(frame, k) <=> frame.node = "call" /\ Callee[frame.op].params[k] = "i32*"
<1>1. CASE frame.node = "call"
  <2>1. Arity(frame) = Len(Callee[frame.op].params)
    BY <1>1 DEF Arity
  <2>2. CASE frame.op = "f"
    <3>1. Callee[frame.op].params = <<"i32">>
      BY <2>2, CalleeParts
    <3> QED BY <1>1, <2>1, <3>1 DEF PassesArray, Parameters
  <2>3. CASE frame.op = "k"
    <3>1. Callee[frame.op].params = <<"i32*", "float">>
      BY <2>3, CalleeParts
    <3> QED BY <1>1, <2>1, <3>1 DEF PassesArray, Parameters
  <2> QED BY <1>1, <2>2, <2>3, CalleeParts
<1>2. CASE frame.node # "call"
  <2>1. CASE frame.node \in {"assign", "simple", "additive", "mul"}
    BY <1>2, <2>1 DEF Arity, PassesArray
  <2>2. CASE frame.node \notin {"assign", "simple", "additive", "mul"}
    BY <1>2, <2>2 DEF Arity, PassesArray
  <2> QED BY <2>1, <2>2
<1> QED BY <1>1, <1>2

LEMMA KidsAtKids ==
    ASSUME NEW C, NEW frame, frame.node = "call" => frame.op \in DOMAIN Callee,
           NEW array \in BOOLEAN, NEW k \in 1..Arity(frame)
    PROVE  KidsAt(frame, array, k, C) \subseteq Kids(C)
<1>1. Passed("i32*", C) \subseteq Places(C)
  <2>1. Passed("i32*", C) = {Kid(Value("i32*", c), Place("i32", c)) : c \in C}
    BY DEF Passed
  <2>2. "i32" \in Types /\ PointerTo("i32") = "i32*"
    BY DEF Types, PointerTo
  <2>3. \A c \in C : Kid(Value("i32*", c), Place("i32", c)) \in Places(C)
    BY <2>2 DEF Places
  <2> QED BY <2>1, <2>3
<1>2. \A type \in Parameters : Passed(type, C) \subseteq Kids(C)
  BY <1>1 DEF Parameters, Passed, Kids, Scalars
<1>3. CASE frame.node = "call"
  <2>1. Callee[frame.op].params[k] \in Parameters
    BY <1>3, ArityParts
  <2> QED BY <1>2, <1>3, <2>1 DEF KidsAt, Kids
<1>4. CASE frame.node # "call"
  BY <1>4 DEF KidsAt, Kids
<1> QED BY <1>3, <1>4

\* A number goes wherever something other than a single variable is visited, ...
LEMMA ScalarFits ==
    ASSUME NEW C, NEW A, NEW array \in BOOLEAN, NEW frame \in Frames(C), FrameOK(frame, array, C, A),
           NEW node \in Operand \ {"single"}, Waits(frame, node)
    PROVE  Scalars \subseteq KidsAt(frame, array, Len(frame.kids) + 1, C)
<1> DEFINE k == Len(frame.kids) + 1
<1>1. node \notin PlaceNodes /\ node \notin {"single"} /\ node \in Wanted(frame, k)
  BY DEF Operand, PlaceNodes, Waits, Takes
<1>2. frame.node \in Nodes /\ Len(frame.kids) \in Nat
  BY DEF Frames
<1>3. ~PassesArray(frame, k)
  BY <1>1 DEF Wanted, PassesArray
<1>4. CASE frame.node = "call"
  <2>1. ~(k <= frame.ready)
    BY <1>2, <1>4 DEF Waits, Takes
  <2> QED BY <1>3, <1>4, <2>1 DEF KidsAt
<1>5. CASE frame.node = "mul"
  BY <1>5 DEF KidsAt
<1>6. frame.node # "single"
  BY <1>1, <1>3 DEF Wanted, PassesArray
<1>7. CASE frame.node = "assign"
  <2>1. k # 1
    BY <1>1, <1>3, <1>7 DEF Wanted
  <2> QED BY <1>7, <2>1 DEF KidsAt
<1>8. CASE frame.node \notin {"call", "mul", "single", "assign"}
  BY <1>8 DEF KidsAt
<1> QED BY <1>4, <1>5, <1>6, <1>7, <1>8

\* ... and the number or array that a single variable is, where that is; ...
LEMMA SingleFits ==
    ASSUME NEW C, NEW A, NEW array \in BOOLEAN, NEW frame \in Frames(C), FrameOK(frame, array, C, A),
           Waits(frame, "single")
    PROVE  IF PassesArray(frame, Len(frame.kids) + 1)
           THEN KidsAt(frame, array, Len(frame.kids) + 1, C) = Arrays(C)
           ELSE Scalars \subseteq KidsAt(frame, array, Len(frame.kids) + 1, C)
<1> DEFINE k == Len(frame.kids) + 1
<1>1. "single" \notin PlaceNodes /\ "single" \in Wanted(frame, k)
  BY DEF PlaceNodes, Waits, Takes
<1>2. Len(frame.kids) \in Nat
  BY DEF Frames
<1>3. CASE PassesArray(frame, k)
  <2>1. frame.node = "call"
    BY <1>3 DEF PassesArray
  <2>2. ~(k <= frame.ready)
    BY <1>2, <2>1 DEF Waits, Takes
  <2> QED BY <1>3, <2>1, <2>2 DEF KidsAt
<1>4. CASE ~PassesArray(frame, k)
  <2>1. CASE frame.node = "call"
    <3>1. ~(k <= frame.ready)
      BY <1>2, <2>1 DEF Waits, Takes
    <3> QED BY <1>4, <2>1, <3>1 DEF KidsAt
  <2>2. CASE frame.node = "mul"
    BY <1>4, <2>2 DEF KidsAt
  <2>3. frame.node # "single"
    BY <1>1, <1>4 DEF Wanted
  <2>4. CASE frame.node = "assign"
    <3>1. k # 1
      BY <1>1, <1>4, <2>4 DEF Wanted
    <3> QED BY <1>4, <2>4, <3>1 DEF KidsAt
  <2>5. CASE frame.node \notin {"call", "mul", "single", "assign"}
    BY <1>4, <2>5 DEF KidsAt
  <2> QED BY <1>4, <2>1, <2>2, <2>3, <2>4, <2>5
<1> QED BY <1>3, <1>4

\* ... and a place where a variable is visited.
LEMMA PlaceFits ==
    ASSUME NEW C, NEW A, NEW array \in BOOLEAN, NEW frame \in Frames(C), FrameOK(frame, array, C, A),
           NEW node \in PlaceNodes, Waits(frame, node)
    PROVE  IF array /\ frame.node = "single" THEN KidsAt(frame, array, Len(frame.kids) + 1, C) = Arrays(C)
           ELSE Places(C) \subseteq KidsAt(frame, array, Len(frame.kids) + 1, C)
<1> DEFINE k == Len(frame.kids) + 1
<1>1. node \notin Operand /\ node # "single" /\ node \in Wanted(frame, k)
  BY DEF PlaceNodes, Operand, Waits, Takes
<1>2. ~PassesArray(frame, k)
  BY <1>1 DEF Wanted, PassesArray
<1>3. \/ frame.node = "single"
      \/ frame.node = "assign" /\ k = 1
      \/ frame.node = "mul" /\ k = 2
  BY <1>1, <1>2 DEF Wanted
<1>4. CASE frame.node = "single"
  BY <1>4 DEF KidsAt
<1>5. CASE frame.node = "assign" /\ k = 1
  BY <1>5 DEF KidsAt
<1>6. CASE frame.node = "mul" /\ k = 2
  <2>1. frame.ready = 1
    <3>1. Len(frame.kids) = 1
      <4>1. Len(frame.kids) \in Nat
        BY DEF Frames
      <4>2. Len(frame.kids) + 1 = 2
        BY <1>6
      <4> DEFINE l == Len(frame.kids)
      <4> HIDE DEF l
      <4>3. l \in Nat /\ l + 1 = 2
        BY <4>1, <4>2 DEF l
      <4>4. l = 1
        BY ONLY <4>3
      <4> QED BY <4>4 DEF l
    <3> QED BY <1>6, <3>1 DEF Waits, Takes
  <2> QED BY <1>6, <2>1 DEF KidsAt
<1> QED BY <1>3, <1>4, <1>5, <1>6

\* A visitor gets one more child.
LEMMA AppendFrame ==
    ASSUME NEW C, NEW A, NEW array \in BOOLEAN, NEW frame \in Frames(C), FrameOK(frame, array, C, A),
           Takes(frame), NEW kid \in KidsAt(frame, array, Len(frame.kids) + 1, C)
    PROVE  /\ More(frame, kid) \in Frames(C) /\ FrameOK(More(frame, kid), array, C, A)
           /\ More(frame, kid).node = frame.node /\ More(frame, kid).op = frame.op
           /\ More(frame, kid).ready = frame.ready
<1> DEFINE g == More(frame, kid)
           kids == frame.kids
           L == Len(kids)
<1>1. /\ kids \in Seq(Kids(C)) /\ L \in Nat /\ frame.ready \in Nat
      /\ frame.node \in Nodes /\ frame.op \in Ops
      /\ frame = [node |-> frame.node, op |-> frame.op, kids |-> kids, ready |-> frame.ready]
  BY DEF Frames
<1>2. L + 1 \in 1..Arity(frame)
  BY <1>1, ArityParts DEF Takes, FrameOK, FrameOp
<1>3. kid \in Kids(C)
  BY <1>2, KidsAtKids DEF FrameOK, FrameOp
<1>4. g.kids = Append(kids, kid) /\ g.node = frame.node /\ g.op = frame.op /\ g.ready = frame.ready
      /\ g = [node |-> frame.node, op |-> frame.op, kids |-> g.kids, ready |-> frame.ready]
  <2>1. g = [frame EXCEPT !.kids = Append(frame.kids, kid)]
    BY DEF More
  <2> HIDE DEF g
  <2>2. g = [node |-> frame.node, op |-> frame.op, kids |-> Append(kids, kid), ready |-> frame.ready]
    BY <1>1, <2>1
  <2> QED BY <2>2
<1> HIDE DEF g, kids, L
<1>5. /\ g.kids \in Seq(Kids(C)) /\ Len(g.kids) = L + 1 /\ g.kids[L + 1] = kid
      /\ \A k \in 1..L : g.kids[k] = kids[k]
  BY <1>1, <1>3, <1>4, AppendProperties DEF L
<1>6. DOMAIN g.kids = 1..(L + 1) /\ DOMAIN kids = 1..L
  BY <1>1, <1>5, LenProperties DEF L
<1>7. g \in Frames(C)
  BY <1>1, <1>4, <1>5 DEF Frames
<1>8. Arity(g) = Arity(frame) /\ \A k : KidsAt(g, array, k, C) = KidsAt(frame, array, k, C)
  <2>1. Arity(g) = Arity(frame)
    BY <1>4 DEF Arity
  <2>2. \A k : PassesArray(g, k) = PassesArray(frame, k)
    BY <1>4, <2>1 DEF PassesArray
  <2> QED BY <1>4, <2>1, <2>2 DEF KidsAt
<1>9. FrameOK(g, array, C, A)
  <2>1. FrameOp(g, A)
    BY <1>4 DEF FrameOK, FrameOp
  <2>2. Len(g.kids) <= Arity(g)
    BY <1>2, <1>5, <1>8
  <2>3. \A k \in DOMAIN g.kids : g.kids[k] \in KidsAt(g, array, k, C)
    <3> TAKE k \in DOMAIN g.kids
    <3>1. CASE k = L + 1
      BY <1>5, <1>8, <3>1 DEF L, kids
    <3>2. CASE k \in 1..L
      BY <1>5, <1>6, <1>8, <3>2 DEF FrameOK, kids
    <3> QED BY <1>1, <1>6, <3>1, <3>2
  <2>4. g.node \in {"call", "mul"} => g.ready <= Len(g.kids) /\ Len(g.kids) <= g.ready + 1
    <3>1. frame.node \in {"call", "mul"} => frame.ready = L
      BY DEF Takes, L, kids
    <3> QED BY <1>1, <1>4, <1>5, <3>1
  <2> QED BY <2>1, <2>2, <2>3, <2>4 DEF FrameOK
<1> QED BY <1>4, <1>7, <1>9 DEF g

\* The last child of a visitor is converted.
LEMMA ReadyFrame ==
    ASSUME NEW C, NEW A, NEW array \in BOOLEAN, NEW frame \in Frames(C), FrameOK(frame, array, C, A),
           Turns(frame), NEW kid \in ReadyKids(frame, C)
    PROVE  /\ Turned(frame, kid) \in Frames(C) /\ FrameOK(Turned(frame, kid), array, C, A)
           /\ Turned(frame, kid).node = frame.node /\ Turned(frame, kid).op = frame.op
           /\ Turned(frame, kid).ready = Len(frame.kids)
<1> DEFINE kids == frame.kids
           n == Len(kids)
           g == Turned(frame, kid)
<1> USE DEF Turns, ReadyKids
<1>1. /\ kids \in Seq(Kids(C)) /\ n \in Nat /\ frame.ready \in Nat /\ n \in 1..n
      /\ frame.node \in Nodes /\ frame.op \in Ops
      /\ frame = [node |-> frame.node, op |-> frame.op, kids |-> kids, ready |-> frame.ready]
  BY DEF Frames
<1>2. n \in 1..Arity(frame) /\ Len(kids) = n /\ DOMAIN kids = 1..n
  BY <1>1, ArityParts, LenProperties DEF FrameOK, FrameOp
<1>3. kid \in Kids(C)
  <2>1. KidsAt([frame EXCEPT !.ready = n], array, n, C) \subseteq Kids(C)
    <3> DEFINE h == [frame EXCEPT !.ready = n]
    <3>1. h.node = frame.node /\ h.op = frame.op
      BY <1>1
    <3>2. Arity(h) = Arity(frame)
      BY <3>1 DEF Arity
    <3> HIDE DEF h
    <3> QED BY <1>2, <3>1, <3>2, KidsAtKids DEF FrameOK, FrameOp, h
  <2>2. CASE frame.node = "call"
    <3>1. kid \in KidsAt([frame EXCEPT !.ready = n], array, n, C)
      BY <1>1, <2>2 DEF KidsAt
    <3> QED BY <2>1, <3>1
  <2>3. CASE frame.node # "call"
    BY <2>3 DEF Kids
  <2> QED BY <2>2, <2>3
<1>4. g.kids = [kids EXCEPT ![n] = kid] /\ g.node = frame.node /\ g.op = frame.op /\ g.ready = n
      /\ g = [node |-> frame.node, op |-> frame.op, kids |-> g.kids, ready |-> n]
  <2>1. g = [frame EXCEPT !.kids[n] = kid, !.ready = n]
    BY DEF Turned
  <2> HIDE DEF g, n
  <2>2. g = [node |-> frame.node, op |-> frame.op, kids |-> [kids EXCEPT ![n] = kid], ready |-> n]
    BY <1>1, <2>1
  <2> QED BY <2>2
<1> HIDE DEF g, kids, n
<1>5. /\ g.kids \in Seq(Kids(C)) /\ Len(g.kids) = n
      /\ \A k \in 1..n : g.kids[k] = IF k = n THEN kid ELSE kids[k]
  BY <1>1, <1>2, <1>3, <1>4, ExceptSeq
<1>6. DOMAIN g.kids = 1..n
  BY <1>5, LenProperties
<1>7. g \in Frames(C)
  BY <1>1, <1>4, <1>5 DEF Frames
<1>8. Arity(g) = Arity(frame)
  BY <1>4 DEF Arity
<1>9. FrameOK(g, array, C, A)
  <2>1. FrameOp(g, A)
    BY <1>4 DEF FrameOK, FrameOp
  <2>2. Len(g.kids) <= Arity(g)
    BY <1>2, <1>5, <1>8
  <2>3. \A k \in DOMAIN g.kids : g.kids[k] \in KidsAt(g, array, k, C)
    <3> TAKE k \in DOMAIN g.kids
    <3>1. k <= g.ready /\ k \in 1..n
      BY <1>1, <1>4, <1>6
    <3>2. k # n => kids[k] \in KidsAt(frame, array, k, C)
      BY <1>2, <3>1 DEF FrameOK, kids
    <3>3. CASE frame.node = "call"
      <4>1. KidsAt(g, array, k, C) = Passed(Callee[frame.op].params[k], C)
        BY <1>4, <3>1, <3>3 DEF KidsAt
      <4>2. CASE k = n
        BY <1>5, <3>1, <3>3, <4>1, <4>2 DEF n, kids
      <4>3. CASE k # n
        <5>1. n <= frame.ready + 1
          BY <3>3 DEF FrameOK, n, kids
        <5>2. k <= frame.ready
          BY <1>1, <3>1, <4>3, <5>1
        <5>3. KidsAt(frame, array, k, C) = Passed(Callee[frame.op].params[k], C)
          BY <3>3, <5>2 DEF KidsAt
        <5> QED BY <1>5, <3>1, <3>2, <4>1, <4>3, <5>3
      <4> QED BY <4>2, <4>3
    <3>4. CASE frame.node = "mul"
      <4>1. KidsAt(g, array, k, C) = Scalars
        BY <1>1, <1>4, <3>1, <3>4 DEF KidsAt
      <4>2. CASE k = n
        BY <1>5, <3>1, <3>4, <4>1, <4>2
      <4>3. CASE k # n
        <5>1. n <= 2
          BY <1>2, <3>4, ArityParts
        <5>2. k # 2
          BY <1>1, <3>1, <4>3, <5>1
        <5>3. KidsAt(frame, array, k, C) = Scalars
          BY <3>4, <5>2 DEF KidsAt
        <5> QED BY <1>5, <3>1, <3>2, <4>1, <4>3, <5>3
      <4> QED BY <4>2, <4>3
    <3>5. CASE frame.node = "statement"
      <4>1. n = 1
        <5>1. Arity(frame) = 1
          BY <3>5, ArityParts
        <5> QED BY <1>2, <5>1
      <4>2. KidsAt(g, array, k, C) = Scalars
        BY <1>4, <3>5 DEF KidsAt
      <4>3. k = n
        BY <3>1, <4>1
      <4> QED BY <1>5, <3>1, <3>5, <4>2, <4>3
    <3> QED BY <3>3, <3>4, <3>5
  <2>4. g.node \in {"call", "mul"} => g.ready <= Len(g.kids) /\ Len(g.kids) <= g.ready + 1
    BY <1>1, <1>4, <1>5
  <2> QED BY <2>1, <2>2, <2>3, <2>4 DEF FrameOK
<1> QED BY <1>4, <1>7, <1>9 DEF g, kids, n

\* The stack, when the visitors above m are done and the last of them gives
\* its value to m.
Delivered(v, m, kid) == [SubSeq(v, 1, m) EXCEPT ![m].kids = Append(@, kid)]

LEMMA DeliveredParts ==
    ASSUME NEW C, NEW v \in Seq(Frames(C)), NEW m \in 1..Len(v), NEW kid,
           More(v[m], kid) \in Frames(C)
    PROVE  /\ Delivered(v, m, kid) \in Seq(Frames(C)) /\ Len(Delivered(v, m, kid)) = m
           /\ Delivered(v, m, kid)[m] = More(v[m], kid)
           /\ \A p \in 1..m : p # m => Delivered(v, m, kid)[p] = v[p]
<1> DEFINE s == SubSeq(v, 1, m)
           g == More(v[m], kid)
<1>1. Len(v) \in Nat /\ m \in Nat /\ m \in 1..m /\ DOMAIN v = 1..Len(v) /\ v \in [1..Len(v) -> Frames(C)]
  BY LenProperties
<1>2. s \in Seq(Frames(C)) /\ Len(s) = m /\ \A p \in 1..m : s[p] = v[p]
  BY <1>1
<1>3. DOMAIN s = 1..m
  BY <1>1, <1>2, LenProperties
<1> HIDE DEF s
<1>4. Delivered(v, m, kid) = [s EXCEPT ![m] = g]
  BY <1>1, <1>2, <1>3 DEF Delivered, More, s
<1> HIDE DEF g
<1>5. g \in Frames(C)
  BY DEF g
<1>6. /\ [s EXCEPT ![m] = g] \in Seq(Frames(C)) /\ Len([s EXCEPT ![m] = g]) = m
      /\ \A p \in 1..m : [s EXCEPT ![m] = g][p] = IF p = m THEN g ELSE s[p]
  BY <1>1, <1>2, <1>5, ExceptSeq
<1> QED BY <1>1, <1>2, <1>4, <1>6 DEF g

\* Visitors up to m wait as before.
LEMMA DeliveredOK ==
    ASSUME NEW C, NEW A, NEW v, StackOK(v, C, A), NEW m \in 1..Len(v),
           Takes(v[m]),
           NEW kid \in KidsAt(v[m], ArrayAt(v, m), Len(v[m].kids) + 1, C)
    PROVE  /\ StackOK(Delivered(v, m, kid), C, A) /\ Len(Delivered(v, m, kid)) = m
           /\ Delivered(v, m, kid)[m].node = v[m].node /\ Delivered(v, m, kid)[m].op = v[m].op
           /\ Delivered(v, m, kid)[m].ready = v[m].ready
           /\ ArrayAt(Delivered(v, m, kid), m) = ArrayAt(v, m)
<1> DEFINE g == More(v[m], kid)
           w == Delivered(v, m, kid)
<1>1. /\ Len(v) \in Nat /\ m \in Nat /\ DOMAIN v = 1..Len(v) /\ v \in Seq(Frames(C))
      /\ m \in DOMAIN v /\ v[m] \in Frames(C)
  BY LenProperties, ElementOfSeq DEF StackOK
<1>2. FrameOK(v[m], ArrayAt(v, m), C, A) /\ ArrayAt(v, m) \in BOOLEAN
  BY <1>1 DEF StackOK, ArrayAt
<1>3. /\ g \in Frames(C) /\ FrameOK(g, ArrayAt(v, m), C, A)
      /\ g.node = v[m].node /\ g.op = v[m].op /\ g.ready = v[m].ready
  <2> DEFINE frame == v[m]
             array == ArrayAt(v, m)
  <2>1. frame \in Frames(C) /\ array \in BOOLEAN /\ FrameOK(frame, array, C, A) /\ Takes(frame)
        /\ kid \in KidsAt(frame, array, Len(frame.kids) + 1, C)
    BY <1>1, <1>2
  <2> HIDE DEF frame, array
  <2>2. /\ More(frame, kid) \in Frames(C) /\ FrameOK(More(frame, kid), array, C, A)
        /\ More(frame, kid).node = frame.node /\ More(frame, kid).op = frame.op
        /\ More(frame, kid).ready = frame.ready
    BY ONLY <2>1, AppendFrame
  <2> QED BY <2>2 DEF frame, array
<1>4. /\ w \in Seq(Frames(C)) /\ Len(w) = m /\ w[m] = g
      /\ \A p \in 1..m : p # m => w[p] = v[p]
  BY <1>1, <1>3, DeliveredParts
<1> HIDE DEF g, w
<1>5. DOMAIN w = 1..m
  BY <1>4, LenProperties
<1>6. \A p \in 1..m : p \in DOMAIN v /\ w[p].node = v[p].node
  BY <1>1, <1>3, <1>4
<1>7. \A p \in 1..m : ArrayAt(w, p) = ArrayAt(v, p)
  <2> TAKE p \in 1..m
  <2>1. CASE p = 1
    BY <2>1 DEF ArrayAt
  <2>2. CASE p # 1
    <3>1. p - 1 \in 1..m /\ p - 1 # m
      BY <1>1, <2>2
    <3>2. w[p - 1] = v[p - 1]
      BY <1>4, <3>1
    <3> QED BY <1>6, <3>2 DEF ArrayAt
  <2> QED BY <2>1, <2>2
<1>8. StackOK(w, C, A)
  <2>1. w[1].node = "statement"
    <3>1. 1 \in 1..m /\ v # <<>>
      BY <1>1, EmptySeq
    <3> QED BY <1>6, <3>1 DEF StackOK
  <2>2. \A p \in DOMAIN w : FrameOK(w[p], ArrayAt(w, p), C, A)
    <3> TAKE p \in DOMAIN w
    <3>1. CASE p = m
      BY <1>3, <1>4, <1>5, <1>7, <3>1
    <3>2. CASE p # m
      <4>1. FrameOK(v[p], ArrayAt(v, p), C, A)
        BY <1>5, <1>6 DEF StackOK
      <4> QED BY <1>4, <1>5, <1>7, <3>2, <4>1
    <3> QED BY <3>1, <3>2
  <2>3. ASSUME NEW p \in DOMAIN w, p # Len(w)
        PROVE  Waits(w[p], w[p + 1].node) /\ (w[p + 1].node = "index" => ~ArrayAt(w, p))
    <3>1. p \in 1..m /\ p + 1 \in 1..m /\ p # m /\ p # Len(v) /\ p \in DOMAIN v
      BY <1>1, <1>4, <1>5, <2>3
    <3>2. Waits(v[p], v[p + 1].node) /\ (v[p + 1].node = "index" => ~ArrayAt(v, p))
      BY <3>1 DEF StackOK
    <3>3. w[p] = v[p] /\ w[p + 1].node = v[p + 1].node /\ ArrayAt(w, p) = ArrayAt(v, p)
      BY <1>4, <1>6, <1>7, <3>1
    <3> QED BY <3>2, <3>3
  <2> QED BY <1>4, <2>1, <2>2, <2>3 DEF StackOK
<1>9. m \in 1..m
  BY <1>1
<1> QED BY <1>3, <1>4, <1>7, <1>8, <1>9 DEF w

\* Whether an array comes next depends on little of a frame.
LEMMA PassesSame ==
    ASSUME NEW f, NEW g, f.node = g.node, f.op = g.op
    PROVE  \A n : PassesArray(f, n) = PassesArray(g, n)
<1>1. Arity(f) = Arity(g)
  BY DEF Arity
<1> QED BY <1>1 DEF PassesArray

\* It is the same after a value is delivered, be it a leaf's ...
LEMMA DeliveredNext ==
    ASSUME NEW C, NEW A, NEW v, StackOK(v, C, A), v # <<>>, Takes(v[Len(v)]),
           NEW kid \in KidsAt(v[Len(v)], ArrayAt(v, Len(v)), Len(v[Len(v)].kids) + 1, C)
    PROVE  ArrayNext(Delivered(v, Len(v), kid)) = ArrayNext(v)
<1> DEFINE L == Len(v)
           w == Delivered(v, L, kid)
<1>1. v \in Seq(Frames(C)) /\ L \in 1..L
  BY EmptySeq, LenProperties DEF StackOK
<1>2. /\ StackOK(w, C, A) /\ Len(w) = L /\ w[L].node = v[L].node /\ w[L].op = v[L].op
      /\ w[L].ready = v[L].ready /\ ArrayAt(w, L) = ArrayAt(v, L)
  BY <1>1, DeliveredOK
<1> HIDE DEF w, L
<1>3. w # <<>>
  BY <1>1, <1>2 DEF L
<1>4. PassesArray(w[L], w[L].ready + 1) = PassesArray(v[L], v[L].ready + 1)
  BY <1>2, PassesSame
<1> QED BY <1>2, <1>3, <1>4 DEF ArrayNext, L, w

\* ... or that of a visitor that is done.
LEMMA FinishedNext ==
    ASSUME NEW C, NEW A, NEW v, StackOK(v, C, A), NEW m \in Nat \ {0}, Len(v) = m + 1,
           v[Len(v)].node = "call" => v[Len(v)].ready = Arity(v[Len(v)]),
           NEW kid \in KidsAt(v[m], ArrayAt(v, m), Len(v[m].kids) + 1, C)
    PROVE  ArrayNext(Delivered(v, m, kid)) = ArrayNext(v)
<1> DEFINE L == Len(v)
           w == Delivered(v, m, kid)
           n == Len(v[m].kids) + 1
<1>1. v \in Seq(Frames(C)) /\ L \in Nat /\ m \in 1..L /\ L \in 1..L /\ m + 1 = L /\ m # L
      /\ DOMAIN v = 1..L /\ v # <<>>
  BY EmptySeq, LenProperties DEF StackOK
<1>2. Waits(v[m], v[L].node) /\ (v[L].node = "index" => ~ArrayAt(v, m))
  BY <1>1 DEF StackOK
<1>3. Takes(v[m]) /\ v[L].node \in Wanted(v[m], n)
  BY <1>2 DEF Waits
<1>4. /\ Len(w) = m /\ w[m].node = v[m].node /\ w[m].op = v[m].op
      /\ w[m].ready = v[m].ready /\ ArrayAt(w, m) = ArrayAt(v, m)
  BY <1>1, <1>3, DeliveredOK
<1> HIDE DEF w, n
<1>5. w # <<>>
  BY <1>1, <1>4
<1>6. PassesArray(w[m], w[m].ready + 1) = PassesArray(v[m], v[m].ready + 1)
  BY <1>4, PassesSame
<1>7. ArrayNext(w) = (PassesArray(v[m], v[m].ready + 1) \/ ArrayAt(v, m))
  BY <1>4, <1>5, <1>6 DEF ArrayNext
<1>8. PassesArray(v[m], v[m].ready + 1) = PassesArray(v[m], n)
  BY <1>3 DEF Takes, PassesArray, n
<1>9. ArrayNext(v) = (PassesArray(v[L], v[L].ready + 1) \/ ArrayAt(v, L))
  BY <1>1 DEF ArrayNext
<1>10. ~PassesArray(v[L], v[L].ready + 1)
  <2>1. CASE v[L].node = "call"
    <3>1. FrameOp(v[L], A)
      BY <1>1 DEF StackOK, FrameOK
    <3>2. Arity(v[L]) \in 1..2
      BY <3>1, ArityParts DEF FrameOp
    <3> QED BY <2>1, <3>2 DEF PassesArray
  <2> QED BY <2>1 DEF PassesArray
<1>11. ~ArrayAt(v, m)
  <2> SUFFICES ASSUME ArrayAt(v, m) PROVE FALSE
    OBVIOUS
  <2>1. v[m].node = "single"
    BY DEF ArrayAt
  <2>2. v[L].node \in PlaceNodes
    BY <1>3, <2>1 DEF Wanted, PassesArray
  <2>3. v[L].node # "index"
    BY <1>2
  <2>4. v[L] \in Frames(C)
    BY <1>1, ElementOfSeq
  <2>5. v[L].node \in Nodes
    BY <2>4 DEF Frames
  <2> QED BY <2>2, <2>3, <2>5 DEF PlaceNodes, Nodes, Operand
<1>12. ArrayAt(v, L) = PassesArray(v[m], n)
  <2>1. ArrayAt(v, L) = (v[L].node = "single" /\ PassesArray(v[m], n))
    <3>1. L > 1 /\ L - 1 = m
      BY <1>1
    <3> QED BY <3>1 DEF ArrayAt, n
  <2>2. PassesArray(v[m], n) => v[L].node = "single"
    BY <1>3 DEF Wanted, PassesArray
  <2> QED BY <2>1, <2>2 DEF PassesArray
<1> QED BY <1>7, <1>8, <1>9, <1>10, <1>11, <1>12 DEF w

\* A visitor begins.
LEMMA EnteredOK ==
    ASSUME NEW C, NEW A, NEW v, StackOK(v, C, A), v # <<>>,
           NEW node \in Nodes \ {"statement"}, NEW op \in Ops, FrameOp(Frame(node, op), A),
           Waits(v[Len(v)], node), node = "index" => ~ArrayAt(v, Len(v))
    PROVE  /\ StackOK(Append(v, Frame(node, op)), C, A)
           /\ ArrayNext(Append(v, Frame(node, op))) = (ArrayNext(v) \/ PassesArray(Frame(node, op), 1))
<1> DEFINE L == Len(v)
           f == Frame(node, op)
           w == Append(v, f)
<1>1. v \in Seq(Frames(C)) /\ L \in Nat /\ L \in 1..L /\ DOMAIN v = 1..L
  BY EmptySeq, LenProperties DEF StackOK
<1>2. f \in Frames(C) /\ f.node = node /\ f.op = op /\ f.kids = <<>> /\ f.ready = 0
  BY DEF Frame, Frames
<1> HIDE DEF f
<1>3. /\ w \in Seq(Frames(C)) /\ w # <<>> /\ Len(w) = L + 1 /\ w[L + 1] = f
      /\ \A p \in 1..L : w[p] = v[p]
  BY <1>1, <1>2, AppendProperties
<1> HIDE DEF w, L
<1>4. DOMAIN w = 1..(L + 1)
  BY <1>3, LenProperties
<1>5. \A p \in 1..L : ArrayAt(w, p) = ArrayAt(v, p)
  <2> TAKE p \in 1..L
  <2>1. CASE p = 1
    BY <2>1 DEF ArrayAt
  <2>2. CASE p # 1
    <3>1. p - 1 \in 1..L
      BY <1>1, <2>2
    <3>2. w[p - 1] = v[p - 1] /\ w[p] = v[p]
      BY <1>3, <3>1
    <3> QED BY <3>2 DEF ArrayAt
  <2> QED BY <2>1, <2>2
<1>6. FrameOK(f, ArrayAt(w, L + 1), C, A)
  <2>1. Arity(f) \in 1..2 /\ Len(f.kids) = 0 /\ DOMAIN f.kids = {}
    BY <1>2, ArityParts DEF FrameOp, f
  <2> QED BY <1>2, <2>1 DEF FrameOK, f
<1>7. Waits(v[L], node) /\ (node = "index" => ~ArrayAt(v, L))
  BY DEF L
<1>8. StackOK(w, C, A)
  <2>1. w[1].node = "statement"
    <3>1. 1 \in 1..L
      BY <1>1
    <3> QED BY <1>3, <3>1 DEF StackOK
  <2>2. \A p \in DOMAIN w : FrameOK(w[p], ArrayAt(w, p), C, A)
    <3> TAKE p \in DOMAIN w
    <3>1. CASE p = L + 1
      BY <1>3, <1>6, <3>1
    <3>2. CASE p \in 1..L
      <4>1. FrameOK(v[p], ArrayAt(v, p), C, A)
        BY <1>1, <3>2 DEF StackOK
      <4> QED BY <1>3, <1>5, <3>2, <4>1
    <3> QED BY <1>1, <1>4, <3>1, <3>2
  <2>3. ASSUME NEW p \in DOMAIN w, p # Len(w)
        PROVE  Waits(w[p], w[p + 1].node) /\ (w[p + 1].node = "index" => ~ArrayAt(w, p))
    <3>1. p \in 1..L
      BY <1>1, <1>3, <1>4, <2>3
    <3>2. CASE p = L
      BY <1>2, <1>3, <1>5, <1>7, <3>1, <3>2
    <3>3. CASE p # L
      <4>1. p + 1 \in 1..L /\ p \in DOMAIN v /\ p # Len(v)
        BY <1>1, <3>1, <3>3 DEF L
      <4>2. Waits(v[p], v[p + 1].node) /\ (v[p + 1].node = "index" => ~ArrayAt(v, p))
        BY <4>1 DEF StackOK
      <4> QED BY <1>3, <1>5, <3>1, <4>1, <4>2
    <3> QED BY <3>2, <3>3
  <2> QED BY <1>3, <2>1, <2>2, <2>3 DEF StackOK
<1>9. ArrayNext(w) = (ArrayNext(v) \/ PassesArray(f, 1))
  <2> DEFINE n == Len(v[L].kids) + 1
  <2>1. ArrayNext(w) = (PassesArray(f, 1) \/ ArrayAt(w, L + 1))
    BY <1>2, <1>3 DEF ArrayNext
  <2>2. ArrayNext(v) = (PassesArray(v[L], v[L].ready + 1) \/ ArrayAt(v, L))
    BY DEF ArrayNext, L
  <2>3. ArrayAt(w, L + 1) = (node = "single" /\ PassesArray(v[L], n))
    <3>1. L + 1 > 1 /\ (L + 1) - 1 = L
      BY <1>1
    <3>2. w[L] = v[L]
      BY <1>1, <1>3
    <3> QED BY <1>2, <1>3, <3>1, <3>2 DEF ArrayAt
  <2>4. PassesArray(v[L], n) => node = "single"
    BY <1>7 DEF Waits, Wanted, PassesArray
  <2>5. PassesArray(v[L], v[L].ready + 1) = PassesArray(v[L], n)
    BY <1>7 DEF Waits, Takes, PassesArray
  <2>6. ~ArrayAt(v, L)
    <3> SUFFICES ASSUME ArrayAt(v, L) PROVE FALSE
      OBVIOUS
    <3>1. v[L].node = "single"
      BY DEF ArrayAt
    <3>2. node \in PlaceNodes
      BY <1>7, <3>1 DEF Waits, Wanted, PassesArray
    <3> QED BY <1>7, <3>2 DEF PlaceNodes, Nodes, Operand
  <2>7. PassesArray(v[L], n) \in BOOLEAN /\ PassesArray(f, 1) \in BOOLEAN
    BY DEF PassesArray
  <2> QED BY <2>1, <2>2, <2>3, <2>4, <2>5, <2>6, <2>7
<1> QED BY <1>8, <1>9 DEF w, f

\* The last child of the innermost visitor is converted.
Readied(v, kid) == [v EXCEPT ![Len(v)] = Turned(@, kid)]

LEMMA ReadiedOK ==
    ASSUME NEW C, NEW A, NEW v, StackOK(v, C, A), v # <<>>,
           Turns(v[Len(v)]), NEW kid \in ReadyKids(v[Len(v)], C)
    PROVE  /\ StackOK(Readied(v, kid), C, A)
           /\ ArrayNext(Readied(v, kid)) = PassesArray(v[Len(v)], Len(v[Len(v)].kids) + 1)
           /\ v[Len(v)].node # "call" => ArrayNext(Readied(v, kid)) = ArrayNext(v)
<1> DEFINE L == Len(v)
           f == v[L]
           n == Len(f.kids)
           g == Turned(f, kid)
           w == Readied(v, kid)
<1>1. v \in Seq(Frames(C)) /\ L \in Nat /\ L \in 1..L /\ DOMAIN v = 1..L /\ f \in Frames(C)
      /\ v \in [1..L -> Frames(C)]
  BY EmptySeq, LenProperties, ElementOfSeq DEF StackOK
<1>2. FrameOK(f, ArrayAt(v, L), C, A) /\ ArrayAt(v, L) \in BOOLEAN
  BY <1>1 DEF StackOK, ArrayAt
<1>3. /\ g \in Frames(C) /\ FrameOK(g, ArrayAt(v, L), C, A)
      /\ g.node = f.node /\ g.op = f.op /\ g.ready = n
  <2> DEFINE array == ArrayAt(v, L)
  <2>1. /\ f \in Frames(C) /\ FrameOK(f, array, C, A) /\ array \in BOOLEAN
        /\ Turns(f) /\ kid \in ReadyKids(f, C)
    BY <1>1, <1>2
  <2> HIDE DEF f, array
  <2>2. /\ Turned(f, kid) \in Frames(C) /\ FrameOK(Turned(f, kid), array, C, A)
        /\ Turned(f, kid).node = f.node /\ Turned(f, kid).op = f.op
        /\ Turned(f, kid).ready = Len(f.kids)
    BY ONLY <2>1, ReadyFrame
  <2> QED BY <2>2 DEF array
<1>4. w = [v EXCEPT ![L] = g]
  BY <1>1 DEF Readied
<1> HIDE DEF g
<1>5. /\ w \in Seq(Frames(C)) /\ Len(w) = L
      /\ \A p \in 1..L : w[p] = IF p = L THEN g ELSE v[p]
  BY <1>1, <1>3, <1>4, ExceptSeq
<1> HIDE DEF w
<1>6. DOMAIN w = 1..L /\ w # <<>>
  BY <1>1, <1>5, LenProperties, EmptySeq
<1>7. \A p \in 1..L : w[p].node = v[p].node
  BY <1>3, <1>5
<1>8. \A p \in 1..L : ArrayAt(w, p) = ArrayAt(v, p)
  <2> TAKE p \in 1..L
  <2>1. CASE p = 1
    BY <2>1 DEF ArrayAt
  <2>2. CASE p # 1
    <3>1. p - 1 \in 1..L /\ p - 1 # L
      BY <1>1, <2>2
    <3>2. w[p - 1] = v[p - 1]
      BY <1>5, <3>1
    <3> QED BY <1>7, <3>2 DEF ArrayAt
  <2> QED BY <2>1, <2>2
<1> HIDE DEF L
<1>9. StackOK(w, C, A)
  <2>1. w[1].node = "statement"
    <3>1. 1 \in 1..L
      BY <1>1
    <3> QED BY <1>7, <3>1 DEF StackOK
  <2>2. \A p \in DOMAIN w : FrameOK(w[p], ArrayAt(w, p), C, A)
    <3> TAKE p \in DOMAIN w
    <3>1. CASE p = L
      BY <1>1, <1>3, <1>5, <1>8, <3>1
    <3>2. CASE p # L
      <4>1. FrameOK(v[p], ArrayAt(v, p), C, A)
        BY <1>1, <1>6 DEF StackOK
      <4> QED BY <1>5, <1>6, <1>8, <3>2, <4>1
    <3> QED BY <3>1, <3>2
  <2>3. ASSUME NEW p \in DOMAIN w, p # Len(w)
        PROVE  Waits(w[p], w[p + 1].node) /\ (w[p + 1].node = "index" => ~ArrayAt(w, p))
    <3>1. p \in 1..L /\ p + 1 \in 1..L /\ p # L /\ p \in DOMAIN v /\ p # Len(v)
      BY <1>1, <1>5, <1>6, <2>3 DEF L
    <3>2. Waits(v[p], v[p + 1].node) /\ (v[p + 1].node = "index" => ~ArrayAt(v, p))
      BY <3>1 DEF StackOK
    <3>3. w[p] = v[p] /\ w[p + 1].node = v[p + 1].node /\ ArrayAt(w, p) = ArrayAt(v, p)
      BY <1>5, <1>7, <1>8, <3>1
    <3> QED BY <3>2, <3>3
  <2> QED BY <1>5, <2>1, <2>2, <2>3 DEF StackOK
<1>10. w[L] = g /\ ~ArrayAt(v, L)
  <2>1. f.node # "single"
    BY DEF Turns, L
  <2> QED BY <1>1, <1>5, <2>1 DEF ArrayAt, L
<1>11. ArrayNext(w) = PassesArray(f, n + 1)
  <2>1. ArrayNext(w) = PassesArray(g, n + 1)
    <3>1. ~ArrayAt(w, L) /\ w[L] = g /\ g.ready = n /\ Len(w) = L
      BY <1>1, <1>3, <1>5, <1>8, <1>10
    <3>2. PassesArray(g, n + 1) \in BOOLEAN
      BY DEF PassesArray
    <3> HIDE DEF f, n
    <3> QED BY <1>6, <3>1, <3>2 DEF ArrayNext
  <2>2. PassesArray(g, n + 1) = PassesArray(f, n + 1)
    BY <1>3, PassesSame
  <2> QED BY <2>1, <2>2
<1>12. f.node # "call" => ArrayNext(w) = ArrayNext(v)
  BY <1>10, <1>11 DEF ArrayNext, PassesArray, L
<1> QED BY <1>9, <1>11, <1>12 DEF w, L

-----------------------------------------------------------------------------
(* States.                                                                 *)
\* What Agrees says, of memory with cells C.
AgreesIn(kid, C) ==
    CASE kid.ir.type \in {"i1", "i32"} -> kid.means = Num(kid.ir.d)
      [] kid.ir.type = "float" -> kid.means = Float(kid.ir.d)
      [] OTHER -> kid.means = Place(Pointee(kid.ir), kid.ir.d) /\ kid.ir.d \in C

LEMMA KidAgrees ==
    ASSUME NEW C, NEW kid \in Kids(C) PROVE AgreesIn(kid, C)
<1>1. CASE kid \in Scalars
  BY <1>1, ScalarParts DEF AgreesIn
<1>2. CASE kid \in Places(C)
  BY <1>2, PlaceParts DEF AgreesIn
<1>3. CASE kid \in Arrays(C)
  BY <1>3, ArrayParts DEF AgreesIn
<1> QED BY <1>1, <1>2, <1>3 DEF Kids

LEMMA StackAgrees ==
    ASSUME NEW C, NEW A, NEW v, StackOK(v, C, A), NEW n \in 1..Len(v), NEW k \in DOMAIN v[n].kids
    PROVE  AgreesIn(v[n].kids[k], C)
<1>1. v[n] \in Frames(C)
  BY ElementOfSeq DEF StackOK
<1>2. v[n].kids \in Seq(Kids(C))
  BY <1>1 DEF Frames
<1>3. v[n].kids[k] \in Kids(C)
  BY <1>2, ElementOfSeq, LenProperties
<1> QED BY <1>3, KidAgrees

\* While things are right and it runs, what is built agrees.
LEMMA RunningAgrees ==
    ASSUME outcome' = "running", Scoped', Stored', Visiting'
    PROVE  AgreeInv'
<1>1. \A n \in 1..Len(visits') : \A k \in DOMAIN visits'[n].kids : AgreesIn(visits'[n].kids[k], DOMAIN store')
  BY StackAgrees DEF Visiting
<1>2. ExpressionsAgree'
  BY <1>1 DEF ExpressionsAgree, Agrees, AgreesIn, Depth, Stored
<1>3. FailsOnlyOnComparisons'
  BY DEF FailsOnlyOnComparisons
<1> QED BY <1>2, <1>3 DEF AgreeInv

\* And where a visitor ends it all.
LEMMA StoppedAgrees ==
    ASSUME Stored, Visiting, visits # <<>>, visits' = visits, mem' = mem, store' = store,
           outcome' \in {"aborted", "signed", "exited", "undefined"},
           outcome' = "exited" => AsInt(Meaning(1)) < 0,
           outcome' \in {"aborted", "signed"} =>
               /\ Top.node \in {"additive", "mul", "index", "statement"}
               /\ \E k \in DOMAIN Top.kids : IR(k).type = "i1"
    PROVE  AgreeInv'
<1>1. \A n \in 1..Len(visits) : \A k \in DOMAIN visits[n].kids : AgreesIn(visits[n].kids[k], DOMAIN store)
  BY StackAgrees DEF Visiting
<1>2. Depth \in Nat /\ Depth # 0 /\ Depth > 0
  BY EmptySeq, LenProperties DEF Depth, Visiting, StackOK
<1>3. Depth' = Depth /\ Top' = Top /\ mem' = store'
  BY DEF Depth, Top, Stored
<1>4. ExpressionsAgree'
  <2>1. \A n \in 1..Depth : \A k \in DOMAIN visits[n].kids : Agrees(visits[n].kids[k])
    BY <1>1 DEF Agrees, AgreesIn, Depth
  <2>2. (\A n \in 1..Depth : \A k \in DOMAIN visits[n].kids : Agrees(visits[n].kids[k]))'
    BY <2>1 DEF Agrees, Depth
  <2>3. Meaning(1)' = Meaning(1)
    BY <1>3 DEF Meaning
  <2>4. (outcome = "exited" =>
           IF Depth = 0 THEN vars[Len(vars)].length = 0 ELSE AsInt(Meaning(1)) < 0)'
    BY <1>2, <1>3, <2>3 DEF AsInt
  <2> QED BY <1>3, <2>2, <2>4 DEF ExpressionsAgree
<1>5. FailsOnlyOnComparisons'
  <2>1. \A k : IR(k)' = IR(k)
    BY <1>3 DEF IR
  <2> QED BY <1>2, <1>3, <2>1 DEF FailsOnlyOnComparisons
<1>6. outcome' # "running"
  OBVIOUS
<1> QED BY <1>4, <1>5, <1>6 DEF AgreeInv

LEMMA NamesSame ==
    ASSUME vars' = vars, open' = open
    PROVE  ArrayNames' = ArrayNames /\ \A x : Visible(x)' = Visible(x)
<1>1. \A x : Visible(x)' = Visible(x)
  BY DEF Visible
<1> QED BY <1>1 DEF ArrayNames

LEMMA StoredSame ==
    ASSUME Stored, vars' = vars, mem' = mem, store' = store PROVE Stored'
BY DEF Stored

\* Between statements nothing is visited.
LEMMA IdleVisiting ==
    ASSUME visits' = <<>>, ~inCall' PROVE Visiting'
<1>1. StackOK(<<>>, DOMAIN store', ArrayNames')
  BY DEF StackOK
<1>2. ~ArrayNext(<<>>)
  BY DEF ArrayNext
<1> QED BY <1>1, <1>2 DEF Visiting

LEMMA IdleNotInCall ==
    ASSUME Visiting, visits = <<>> PROVE ~inCall
BY DEF Visiting, ArrayNext

\* The innermost visitor, and the one below it.
LEMMA TopFacts ==
    ASSUME Visiting, visits # <<>>
    PROVE  /\ Depth \in Nat /\ Depth > 0 /\ Depth = Len(visits) /\ Top = visits[Len(visits)]
           /\ Top \in Frames(DOMAIN store)
           /\ FrameOK(Top, ArrayAt(visits, Depth), DOMAIN store, ArrayNames)
           /\ ArrayAt(visits, Depth) \in BOOLEAN
           /\ Top.kids \in Seq(Kids(DOMAIN store)) /\ DOMAIN Top.kids = 1..Len(Top.kids) /\ Len(Top.kids) \in Nat
           /\ Top.node # "statement" =>
                 /\ Depth > 1 /\ Depth - 1 \in 1..Depth
                 /\ visits[Depth - 1] \in Frames(DOMAIN store)
                 /\ FrameOK(visits[Depth - 1], ArrayAt(visits, Depth - 1), DOMAIN store, ArrayNames)
                 /\ ArrayAt(visits, Depth - 1) \in BOOLEAN
                 /\ Waits(visits[Depth - 1], Top.node)
                 /\ Top.node = "index" => ~ArrayAt(visits, Depth - 1)
<1> DEFINE L == Len(visits)
<1>1. /\ visits \in Seq(Frames(DOMAIN store)) /\ L \in Nat /\ L \in 1..L /\ DOMAIN visits = 1..L /\ L > 0
      /\ Depth = L /\ Top = visits[L] /\ StackOK(visits, DOMAIN store, ArrayNames)
  BY EmptySeq, LenProperties DEF Visiting, StackOK, Depth, Top
<1>2. Top \in Frames(DOMAIN store) /\ FrameOK(Top, ArrayAt(visits, L), DOMAIN store, ArrayNames)
  BY <1>1, ElementOfSeq DEF StackOK
<1>3. Top.kids \in Seq(Kids(DOMAIN store))
  BY <1>2 DEF Frames
<1> HIDE DEF L
<1>4. ASSUME Top.node # "statement"
      PROVE  /\ L > 1 /\ L - 1 \in 1..L
             /\ visits[L - 1] \in Frames(DOMAIN store)
             /\ FrameOK(visits[L - 1], ArrayAt(visits, L - 1), DOMAIN store, ArrayNames)
             /\ Waits(visits[L - 1], Top.node)
             /\ Top.node = "index" => ~ArrayAt(visits, L - 1)
  <2>1. L # 1
    BY <1>1, <1>4 DEF StackOK
  <2>2. L > 1 /\ L - 1 \in 1..L /\ L - 1 # L /\ (L - 1) + 1 = L
    BY <1>1, <2>1
  <2>3. visits[L - 1] \in Frames(DOMAIN store)
    BY <1>1, <2>2, ElementOfSeq DEF L
  <2>4. L - 1 \in DOMAIN visits
    BY <1>1, <2>2
  <2>5. FrameOK(visits[L - 1], ArrayAt(visits, L - 1), DOMAIN store, ArrayNames)
    BY <1>1, <2>4 DEF StackOK
  <2>6. Waits(visits[L - 1], visits[(L - 1) + 1].node)
        /\ (visits[(L - 1) + 1].node = "index" => ~ArrayAt(visits, L - 1))
    BY <1>1, <2>2, <2>4 DEF StackOK, L
  <2> QED BY <1>1, <2>2, <2>3, <2>5, <2>6
<1>5. \A p : ArrayAt(visits, p) \in BOOLEAN
  BY DEF ArrayAt
<1> QED BY <1>1, <1>2, <1>3, <1>4, <1>5, LenProperties DEF L

\* A state while a program is visited, and a step that leaves variables alone.
Working == outcome = "running" /\ Scoped /\ Stored /\ Visiting

\* A visitor gives its value to visitor m: a leaf to the innermost one, one
\* that is done to the one below it.
LEMMA DeliverAgrees ==
    ASSUME Working, ScopeInv', visits # <<>>, outcome' = outcome, Stored', DOMAIN store' = DOMAIN store,
           svars' = svars, inCall' = inCall,
           NEW m \in {Depth, Depth - 1}, m > 0, Takes(visits[m]),
           m # Depth /\ Top.node = "call" => Top.ready = Arity(Top),
           NEW kid \in KidsAt(visits[m], ArrayAt(visits, m), Len(visits[m].kids) + 1, DOMAIN store),
           visits' = Delivered(visits, m, kid)
    PROVE  AgreeInv'
<1> DEFINE C == DOMAIN store
           A == ArrayNames
           v == visits
           w == Delivered(v, m, kid)
<1>1. StackOK(v, C, A) /\ v # <<>> /\ (inCall <=> ArrayNext(v)) /\ function # "none"
  BY DEF Working, Visiting
<1>2. Depth = Len(v) /\ Depth \in Nat /\ Depth > 0 /\ m \in 1..Len(v) /\ Top = v[Len(v)]
  BY TopFacts DEF Working
<1>3. ArrayNames' = A /\ function' = function
  BY NamesSame DEF svars
<1> HIDE DEF C, A, v
<1>4. StackOK(w, C, A)
  BY <1>1, <1>2, DeliveredOK DEF C, v
<1>5. ArrayNext(w) = ArrayNext(v)
  <2>1. CASE m = Depth
    <3>1. m = Len(v) /\ v # <<>> /\ Takes(v[m]) /\ kid \in KidsAt(v[m], ArrayAt(v, m), Len(v[m].kids) + 1, C)
          /\ StackOK(v, C, A)
      BY <1>1, <1>2, <2>1 DEF C, v
    <3> HIDE DEF w
    <3>2. ArrayNext(Delivered(v, Len(v), kid)) = ArrayNext(v)
      BY ONLY <3>1, DeliveredNext
    <3> QED BY <3>1, <3>2 DEF w
  <2>2. CASE m # Depth
    <3>1. m \in Nat \ {0} /\ Len(v) = m + 1
      BY <1>2, <2>2 DEF v
    <3>2. v[Len(v)].node = "call" => v[Len(v)].ready = Arity(v[Len(v)])
      BY <1>2, <2>2 DEF v
    <3>3. kid \in KidsAt(v[m], ArrayAt(v, m), Len(v[m].kids) + 1, C)
      BY DEF C, v
    <3>4. StackOK(v, C, A)
      BY <1>1
    <3> HIDE DEF w
    <3>5. ArrayNext(Delivered(v, m, kid)) = ArrayNext(v)
      BY ONLY <3>1, <3>2, <3>3, <3>4, FinishedNext
    <3> QED BY <3>5 DEF w
  <2> QED BY <2>1, <2>2
<1>6. visits' = w
  BY DEF v
<1> HIDE DEF w
<1>7. Visiting'
  <2>1. StackOK(visits, DOMAIN store, ArrayNames)'
    BY <1>3, <1>4, <1>6 DEF C
  <2>2. (inCall <=> ArrayNext(visits))'
    BY <1>1, <1>5, <1>6
  <2>3. function' # "none"
    BY <1>1, <1>3
  <2> QED BY <2>1, <2>2, <2>3 DEF Visiting
<1>8. outcome' = "running" /\ Scoped'
  BY DEF Working, ScopeInv
<1> QED BY <1>7, <1>8, RunningAgrees

\* What Deliver does with a value.
LEMMA DeliverIs ==
    ASSUME NEW level \in {1, 2}, NEW v, v # Failed, NEW means, Deliver(level, v, means)
    PROVE  visits' = Delivered(visits, Depth + 1 - level, Kid(v, means)) /\ outcome' = outcome
BY DEF Deliver, Delivered

\* The innermost visitor converts its last child.
LEMMA ReadyAgrees ==
    ASSUME Working, ScopeInv', visits # <<>>, outcome' = outcome, mem' = mem, store' = store,
           svars' = svars,
           Turns(Top), NEW kid \in ReadyKids(Top, DOMAIN store), visits' = Readied(visits, kid),
           inCall' = IF Top.node = "call" THEN PassesArray(Top, Len(Top.kids) + 1) ELSE inCall
    PROVE  AgreeInv'
<1>1. StackOK(visits, DOMAIN store, ArrayNames) /\ (inCall <=> ArrayNext(visits)) /\ function # "none"
  BY DEF Working, Visiting
<1>2. Top = visits[Len(visits)]
  BY DEF Top, Depth
<1>3. ArrayNames' = ArrayNames /\ function' = function /\ vars' = vars
  BY NamesSame DEF svars
<1>4. /\ StackOK(visits', DOMAIN store, ArrayNames)
      /\ ArrayNext(visits') = PassesArray(Top, Len(Top.kids) + 1)
      /\ Top.node # "call" => ArrayNext(visits') = ArrayNext(visits)
  BY <1>1, <1>2, ReadiedOK
<1>5. Visiting'
  <2>1. StackOK(visits, DOMAIN store, ArrayNames)'
    BY <1>3, <1>4
  <2>2. (inCall <=> ArrayNext(visits))'
    BY <1>1, <1>4
  <2>3. function' # "none"
    BY <1>1, <1>3
  <2> QED BY <2>1, <2>2, <2>3 DEF Visiting
<1>6. outcome' = "running" /\ Scoped' /\ Stored'
  BY <1>3, StoredSame DEF Working, ScopeInv
<1> QED BY <1>5, <1>6, RunningAgrees

\* What Ready does with a value.
LEMMA ReadyIs ==
    ASSUME Visiting, visits # <<>>, NEW v, v # Failed, NEW means, NEW n, n = Len(Top.kids), Ready(n, v, means)
    PROVE  visits' = Readied(visits, Kid(v, means)) /\ outcome' = outcome
<1>1. /\ visits' = [visits EXCEPT ![Depth].kids[n] = Kid(v, means), ![Depth].ready = n]
      /\ outcome' = outcome
  BY DEF Ready
<1> DEFINE kid == Kid(v, means)
           L == Len(visits)
<1> HIDE DEF kid, L
<1>2. visits' = [visits EXCEPT ![L].kids[n] = kid, ![L].ready = n] /\ Top = visits[L] /\ Depth = L
  BY <1>1 DEF Depth, Top, kid, L
<1>3. L \in DOMAIN visits /\ visits \in [DOMAIN visits -> Frames(DOMAIN store)] /\ Top \in Frames(DOMAIN store)
  BY TopFacts, LenProperties DEF Visiting, StackOK, L
<1>4. [visits EXCEPT ![L].kids[n] = kid, ![L].ready = n]
        = [visits EXCEPT ![L] = [Top EXCEPT !.kids[n] = kid, !.ready = n]]
  BY <1>2, <1>3 DEF Frames
<1>5. Readied(visits, kid) = [visits EXCEPT ![L] = Turned(Top, kid)]
  BY <1>2, <1>3 DEF Readied, L
<1> QED BY <1>1, <1>2, <1>4, <1>5 DEF Turned, kid

LEMMA VisibleDeclared ==
    ASSUME Scoped, NEW x, Visible(x) # 0
    PROVE  /\ Visible(x) \in DOMAIN vars /\ Visible(x) \in Int /\ vars[Visible(x)] \in Variables
<1> DEFINE of == {n \in DOMAIN vars : vars[n].name = x /\ \E k \in DOMAIN open : open[k] = vars[n].block}
<1>1. of # {} /\ Visible(x) = CHOOSE n \in of : \A k \in of : k <= n
  BY DEF Visible
<1>2. /\ vars \in Seq(Variables) /\ DOMAIN vars \subseteq Nat
      /\ \A n \in DOMAIN vars : vars[n] \in Variables
  BY ElementOfSeq, LenProperties DEF Scoped
<1>3. \E m \in of : \A k \in of : k <= m
  <2>1. /\ Len(vars) \in Nat /\ of \subseteq 1..Len(vars)
    BY <1>2, LenProperties
  <2> HIDE DEF of
  <2> QED BY <1>1, <2>1, HasGreatest
<1>4. Visible(x) \in of
  BY <1>1, <1>3
<1> QED BY <1>2, <1>4

LEMMA VisitNumAgrees ==
    ASSUME Working, ScopeInv', NEW value \in Numbers, VisitNum(value)
    PROVE  AgreeInv'
<1> DEFINE means == IF IsFloat(value) THEN Float(value.d) ELSE Num(value.d)
           kid == Kid(value, means)
<1>1. /\ Wants("num") /\ Deliver(1, value, means)
      /\ svars' = svars /\ inCall' = inCall /\ mem' = mem /\ store' = store
  BY DEF VisitNum
<1>2. visits # <<>> /\ Takes(Top) /\ Waits(Top, "num")
  <2>1. Depth > 0 /\ Len(Top.kids) < Arity(Top) /\ "num" \in Wanted(Top, Len(Top.kids) + 1)
        /\ (Top.node \in {"call", "mul"} => Top.ready = Len(Top.kids))
    BY <1>1 DEF Wants
  <2> QED BY <2>1, EmptySeq DEF Depth, Takes, Waits
<1>3. kid \in Scalars
  <2>1. value \in [type : Types, d : Int]
    BY ExpressionsAssumption
  <2>2. value = Value(value.type, value.d) /\ value.d \in Int /\ (value.type = "i32" \/ value.type = "float")
    BY <2>1 DEF Value, Types
  <2> QED BY <2>2, ScalarMade DEF IsFloat, Int32
<1>4. value # Failed
  BY <1>3, ScalarNotFailed
<1>5. Depth + 1 - 1 = Depth /\ Depth > 0 /\ Top = visits[Depth]
  BY <1>2, TopFacts DEF Working
<1> HIDE DEF means
<1>6. visits' = Delivered(visits, Depth, kid) /\ outcome' = outcome
  BY <1>1, <1>4, <1>5, DeliverIs
<1>7. kid \in KidsAt(Top, ArrayAt(visits, Depth), Len(Top.kids) + 1, DOMAIN store)
  <2> DEFINE array == ArrayAt(visits, Depth)
             C == DOMAIN store
             A == ArrayNames
  <2>1. Top \in Frames(C) /\ FrameOK(Top, array, C, A) /\ array \in BOOLEAN /\ Waits(Top, "num")
    BY <1>2, TopFacts DEF Working
  <2>2. "num" \in Operand \ {"single"}
    BY DEF Operand
  <2> HIDE DEF array, C, A, kid
  <2>3. Scalars \subseteq KidsAt(Top, array, Len(Top.kids) + 1, C)
    BY <2>1, <2>2, ScalarFits
  <2> QED BY <1>3, <2>3 DEF array, C, kid
<1>8. Stored'
  BY <1>1, StoredSame DEF Working, svars
<1> QED BY <1>1, <1>2, <1>5, <1>6, <1>7, <1>8, DeliverAgrees

\* ScalarWanted, said of the stack.
LEMMA ScalarWantedIs ==
    ASSUME Visiting, visits # <<>>
    PROVE  ScalarWanted <=> ~ArrayAt(visits, Depth)
<1>1. Top = visits[Depth] /\ Depth \in Nat /\ (Top.node = "single" => Depth > 1)
  BY TopFacts
<1> QED BY <1>1 DEF ScalarWanted, ArrayAt

\* What a declared name is bound to.
LEMMA AddressAgrees ==
    ASSUME Working, NEW n \in DOMAIN vars, n \in Int, n # 0, vars[n] \in Variables
    PROVE  /\ Address(n) # Failed /\ Address(n).d = First(n) /\ IsPointer(Address(n))
           /\ Pointee(Address(n)) = vars[n].type /\ vars[n].type \in Types
           /\ vars[n].kind = "var" => Address(n) = Value(PointerTo(vars[n].type), First(n))
           /\ vars[n].kind # "var" /\ vars[n].type = "i32" =>
                 \E p \in {"i32*", "[i32]*"} : Address(n) = Value(p, First(n))
           /\ \A i \in Int : 0 <= i /\ i < vars[n].length => <<First(n)[1], i>> \in DOMAIN store
           /\ vars[n].kind = "var" => vars[n].length = 1
           /\ First(n)[2] = 0 /\ First(n) = <<First(n)[1], 0>>
<1>1. vars[n].type \in {"i32", "float"} /\ vars[n].kind \in {"var", "array", "passed"} /\ vars[n].length \in Nat
  BY DEF Variables, Types
<1>2. \A i \in Int : 0 <= i /\ i < vars[n].length => <<First(n)[1], i>> \in DOMAIN store
  <2> SUFFICES ASSUME NEW i \in Int, 0 <= i, i < vars[n].length PROVE <<First(n)[1], i>> \in DOMAIN store
    OBVIOUS
  <2>1. CASE vars[n].kind = "passed"
    <3>1. vars[n].length = PassedLength /\ i \in 0..(PassedLength - 1)
      BY <1>1, <2>1 DEF Working, Stored, PassedLength
    <3> QED BY <2>1, <3>1 DEF Working, Stored, First
  <2>2. CASE vars[n].kind # "passed"
    <3>1. i \in 0..(vars[n].length - 1)
      BY <1>1
    <3> QED BY <2>2, <3>1 DEF Working, Stored, First
  <2> QED BY <2>1, <2>2
<1>3. vars[n].kind = "var" => vars[n].length = 1
  BY DEF Working, Stored
<1>4. First(n)[2] = 0 /\ First(n) = <<First(n)[1], 0>>
  BY DEF First
<1>5. CASE vars[n].kind = "var"
  <2>1. Address(n) = Value(PointerTo(vars[n].type), <<n, 0>>) /\ First(n) = <<n, 0>>
    BY <1>5 DEF Address, First
  <2> QED BY <1>1, <1>2, <1>3, <1>4, <1>5, <2>1
          DEF Value, PointerTo, Failed, IsPointer, IsScalarPointer, Pointee, Types
<1>6. CASE vars[n].kind = "array"
  <2>1. Address(n) = Value(ArrayOf(vars[n].type), <<n, 0>>) /\ First(n) = <<n, 0>>
    BY <1>6 DEF Address, First
  <2> QED BY <1>1, <1>2, <1>3, <1>4, <1>6, <2>1
          DEF Value, ArrayOf, Failed, IsPointer, IsArrayPointer, Pointee, Types
<1>7. CASE vars[n].kind = "passed"
  <2>1. Address(n) = Value(PointerTo(vars[n].type), <<0, 0>>) /\ First(n) = <<0, 0>>
    BY <1>7 DEF Address, First
  <2> QED BY <1>1, <1>2, <1>3, <1>4, <1>7, <2>1
          DEF Value, PointerTo, Failed, IsPointer, IsScalarPointer, Pointee, Types
<1> QED BY <1>1, <1>5, <1>6, <1>7

LEMMA VisitVarAgrees ==
    ASSUME Working, ScopeInv', NEW name, VisitVar(name)
    PROVE  AgreeInv'
<1> DEFINE n == Visible(name)
           means == Place(vars[n].type, First(n))
           kid == Kid(Address(n), means)
<1>1. /\ Wants("var") /\ n # 0 /\ Deliver(1, Address(n), means)
      /\ IF ScalarWanted THEN vars[n].kind = "var"
         ELSE vars[n].kind # "var" /\ vars[n].type = "i32" /\ vars[n].length > 0
      /\ svars' = svars /\ inCall' = inCall /\ mem' = mem /\ store' = store
  BY ScopedResolves DEF VisitVar, Working
<1>2. visits # <<>> /\ Takes(Top) /\ Waits(Top, "var")
  <2>1. Depth > 0 /\ Len(Top.kids) < Arity(Top) /\ "var" \in Wanted(Top, Len(Top.kids) + 1)
        /\ (Top.node \in {"call", "mul"} => Top.ready = Len(Top.kids))
    BY <1>1 DEF Wants
  <2> QED BY <2>1, EmptySeq DEF Depth, Takes, Waits
<1>3. n \in DOMAIN vars /\ n \in Int /\ vars[n] \in Variables
  BY <1>1, VisibleDeclared DEF Working
<1>4. Address(n) # Failed /\ Depth + 1 - 1 = Depth /\ Depth > 0 /\ Top = visits[Depth]
  BY <1>1, <1>2, <1>3, AddressAgrees, TopFacts DEF Working
<1>5. visits' = Delivered(visits, Depth, kid) /\ outcome' = outcome
  <2> HIDE DEF n, means
  <2> QED BY <1>1, <1>4, DeliverIs
<1>6. kid \in KidsAt(Top, ArrayAt(visits, Depth), Len(Top.kids) + 1, DOMAIN store)
  <2> DEFINE array == ArrayAt(visits, Depth)
             C == DOMAIN store
             A == ArrayNames
  <2>1. Top \in Frames(C) /\ FrameOK(Top, array, C, A) /\ array \in BOOLEAN /\ Waits(Top, "var")
    BY <1>2, TopFacts DEF Working
  <2>2. array => Top.node = "single"
    BY <1>4 DEF ArrayAt
  <2>3. "var" \in PlaceNodes
    BY DEF PlaceNodes
  <2>4. ScalarWanted <=> ~array
    BY <1>2, ScalarWantedIs DEF Working
  <2>5. vars[n].length > 0 => First(n) \in C
    BY <1>1, <1>3, AddressAgrees DEF Variables
  <2> HIDE DEF array, C, A
  <2>6. IF array THEN KidsAt(Top, array, Len(Top.kids) + 1, C) = Arrays(C)
        ELSE Places(C) \subseteq KidsAt(Top, array, Len(Top.kids) + 1, C)
    BY <2>1, <2>2, <2>3, PlaceFits
  <2>7. CASE array
    <3>1. vars[n].kind # "var" /\ vars[n].type = "i32" /\ vars[n].length > 0
      BY <1>1, <2>4, <2>7
    <3>2. PICK p \in {"i32*", "[i32]*"} : Address(n) = Value(p, First(n))
      BY <1>1, <1>3, <3>1, AddressAgrees
    <3>3. kid \in Arrays(C)
      BY <2>5, <3>1, <3>2 DEF Arrays
    <3> QED BY <2>6, <2>7, <3>3 DEF array, C
  <2>8. CASE ~array
    <3>1. vars[n].kind = "var"
      BY <1>1, <2>4, <2>8
    <3>2. vars[n].length > 0 /\ Address(n) = Value(PointerTo(vars[n].type), First(n)) /\ vars[n].type \in Types
      BY <1>1, <1>3, <3>1, AddressAgrees
    <3>3. kid \in Places(C)
      BY <2>5, <3>2 DEF Places
    <3> QED BY <2>6, <2>8, <3>3 DEF array, C
  <2> QED BY <2>7, <2>8
<1>7. Stored'
  BY <1>1, StoredSame DEF Working, svars
<1> QED BY <1>1, <1>2, <1>4, <1>5, <1>6, <1>7, DeliverAgrees

LEMMA EnterAgrees ==
    ASSUME Working, ScopeInv', NEW node \in Nodes \ {"statement"}, NEW op \in Ops,
           FrameOp(Frame(node, op), ArrayNames), node = "index" => ScalarWanted, Enter(node, op)
    PROVE  AgreeInv'
<1>1. /\ Wants(node) /\ visits' = Append(visits, Frame(node, op))
      /\ inCall' = (inCall \/ PassesArray(Frame(node, op), 1))
      /\ svars' = svars /\ mem' = mem /\ store' = store /\ outcome' = outcome
  BY DEF Enter
<1>2. visits # <<>> /\ Waits(Top, node)
  <2>1. Depth > 0 /\ Len(Top.kids) < Arity(Top) /\ node \in Wanted(Top, Len(Top.kids) + 1)
        /\ (Top.node \in {"call", "mul"} => Top.ready = Len(Top.kids))
    BY <1>1 DEF Wants
  <2> QED BY <2>1, EmptySeq DEF Depth, Takes, Waits
<1>3. /\ StackOK(visits, DOMAIN store, ArrayNames) /\ (inCall <=> ArrayNext(visits)) /\ function # "none"
      /\ Top = visits[Len(visits)] /\ Depth = Len(visits)
  <2>1. StackOK(visits, DOMAIN store, ArrayNames) /\ (inCall <=> ArrayNext(visits))
    BY DEF Working, Visiting
  <2>2. function # "none"
    BY <1>2 DEF Working, Visiting
  <2>3. Top = visits[Len(visits)] /\ Depth = Len(visits)
    BY DEF Top, Depth
  <2> QED BY <2>1, <2>2, <2>3
<1>4. node = "index" => ~ArrayAt(visits, Len(visits))
  BY <1>2, <1>3, ScalarWantedIs DEF Working
<1>5. /\ StackOK(visits', DOMAIN store, ArrayNames)
      /\ ArrayNext(visits') = (ArrayNext(visits) \/ PassesArray(Frame(node, op), 1))
  BY <1>1, <1>2, <1>3, <1>4, EnteredOK
<1>6. ArrayNames' = ArrayNames /\ function' = function /\ vars' = vars
  BY <1>1, NamesSame DEF svars
<1>7. Visiting'
  <2>1. StackOK(visits, DOMAIN store, ArrayNames)'
    BY <1>1, <1>5, <1>6
  <2>2. (inCall <=> ArrayNext(visits))'
    BY <1>1, <1>3, <1>5
  <2>3. function' # "none"
    BY <1>3, <1>6
  <2> QED BY <2>1, <2>2, <2>3 DEF Visiting
<1>8. outcome' = "running" /\ Scoped' /\ Stored'
  BY <1>1, <1>6, StoredSame DEF Working, ScopeInv
<1> QED BY <1>7, <1>8, RunningAgrees

LEMMA EnterIndexAgrees ==
    ASSUME Working, ScopeInv', NEW name \in Names, EnterIndex(name)
    PROVE  AgreeInv'
<1>1. name \in ArrayNames /\ ScalarWanted /\ Enter("index", name)
  BY DEF EnterIndex, ArrayNames
<1>2. "index" \in Nodes \ {"statement"} /\ name \in Ops
  BY DEF Nodes, Ops
<1>3. FrameOp(Frame("index", name), ArrayNames)
  BY <1>1 DEF FrameOp, Frame
<1> QED BY <1>1, <1>2, <1>3, EnterAgrees

\* The visitors of operands, their operators being what the parser accepts.
LEMMA EnterOperandAgrees ==
    ASSUME Working, ScopeInv', NEW node, NEW op, Enter(node, op),
           \/ node \in {"single", "assign"} /\ op = ""
           \/ node = "simple" /\ op \in Relations
           \/ node = "additive" /\ op \in Operators
           \/ node = "mul" /\ op = "mul"
           \/ node = "call" /\ op \in DOMAIN Callee
    PROVE  AgreeInv'
<1>1. node \in Nodes \ {"statement"} /\ op \in Ops /\ node # "index"
  BY DEF Nodes, Operand, Ops
<1>2. Frame(node, op).node = node /\ Frame(node, op).op = op
  BY DEF Frame
<1>3. FrameOp(Frame(node, op), ArrayNames)
  BY <1>2 DEF FrameOp
<1> QED BY <1>1, <1>3, EnterAgrees

\* A visitor with all its children, and the one below it.
LEMMA CompleteFacts ==
    ASSUME Working, NEW node, Complete(node)
    PROVE  /\ visits # <<>> /\ Top.node = node /\ Len(Top.kids) = Arity(Top) /\ Top \in Frames(DOMAIN store)
           /\ FrameOp(Top, ArrayNames)
           /\ \A k \in 1..Arity(Top) :
                 /\ Top.kids[k] \in KidsAt(Top, ArrayAt(visits, Depth), k, DOMAIN store)
                 /\ Top.kids[k] \in Kids(DOMAIN store)
                 /\ IR(k) = Top.kids[k].ir /\ Meaning(k) = Top.kids[k].means
           /\ DOMAIN Top.kids = 1..Arity(Top)
           /\ node # "statement" =>
                 /\ Depth + 1 - 2 = Depth - 1 /\ Depth - 1 > 0 /\ Depth - 1 # Depth
                 /\ visits[Depth - 1] \in Frames(DOMAIN store)
                 /\ FrameOK(visits[Depth - 1], ArrayAt(visits, Depth - 1), DOMAIN store, ArrayNames)
                 /\ ArrayAt(visits, Depth - 1) \in BOOLEAN
                 /\ Waits(visits[Depth - 1], node) /\ Takes(visits[Depth - 1])
                 /\ Top.node = "index" => ~ArrayAt(visits, Depth - 1)
<1>1. Depth > 0 /\ Top.node = node /\ Len(Top.kids) = Arity(Top)
  BY DEF Complete
<1>2. visits # <<>>
  BY <1>1, EmptySeq DEF Depth
<1>3. /\ Depth \in Nat /\ Top \in Frames(DOMAIN store)
      /\ FrameOK(Top, ArrayAt(visits, Depth), DOMAIN store, ArrayNames)
      /\ Top.kids \in Seq(Kids(DOMAIN store)) /\ DOMAIN Top.kids = 1..Len(Top.kids)
  BY <1>2, TopFacts DEF Working
<1>4. FrameOp(Top, ArrayNames) /\ \A k \in DOMAIN Top.kids :
         Top.kids[k] \in KidsAt(Top, ArrayAt(visits, Depth), k, DOMAIN store)
  BY <1>3 DEF FrameOK
<1>5. \A k \in 1..Arity(Top) : Top.kids[k] \in Kids(DOMAIN store)
  BY <1>1, <1>3, ElementOfSeq
<1>6. \A k : IR(k) = Top.kids[k].ir /\ Meaning(k) = Top.kids[k].means
  BY DEF IR, Meaning
<1>7. ASSUME node # "statement"
      PROVE  /\ Depth > 1
             /\ visits[Depth - 1] \in Frames(DOMAIN store)
             /\ FrameOK(visits[Depth - 1], ArrayAt(visits, Depth - 1), DOMAIN store, ArrayNames)
             /\ ArrayAt(visits, Depth - 1) \in BOOLEAN
             /\ Waits(visits[Depth - 1], node)
             /\ Top.node = "index" => ~ArrayAt(visits, Depth - 1)
  BY <1>1, <1>2, <1>7, TopFacts DEF Working
<1>8. node # "statement" => Takes(visits[Depth - 1])
  BY <1>7 DEF Waits
<1> QED BY <1>1, <1>2, <1>3, <1>4, <1>5, <1>6, <1>7, <1>8

\* It is done: its value is one of the values wanted below it.
LEMMA FinishAgrees ==
    ASSUME Working, ScopeInv', Stored', DOMAIN store' = DOMAIN store, svars' = svars, inCall' = inCall,
           NEW node \in Operand \cup {"index"}, Complete(node), node = "call" => Top.ready = Arity(Top),
           NEW v, v # Failed, NEW means, Deliver(2, v, means),
           Kid(v, means) \in KidsAt(visits[Depth - 1], ArrayAt(visits, Depth - 1),
                                    Len(visits[Depth - 1].kids) + 1, DOMAIN store)
    PROVE  AgreeInv'
<1>1. node # "statement"
  BY DEF Operand
<1>2. /\ visits # <<>> /\ Depth + 1 - 2 = Depth - 1 /\ Depth - 1 > 0 /\ Depth - 1 # Depth
      /\ Takes(visits[Depth - 1]) /\ Top.node = node
  BY <1>1, CompleteFacts
<1>3. visits' = Delivered(visits, Depth - 1, Kid(v, means)) /\ outcome' = outcome
  BY <1>2, DeliverIs
<1> DEFINE kid == Kid(v, means)
<1> HIDE DEF kid
<1>4. kid \in KidsAt(visits[Depth - 1], ArrayAt(visits, Depth - 1), Len(visits[Depth - 1].kids) + 1, DOMAIN store)
  BY DEF kid
<1>5. visits' = Delivered(visits, Depth - 1, kid)
  BY <1>3 DEF kid
<1> QED BY <1>2, <1>3, <1>4, <1>5, DeliverAgrees

\* A number is wanted below all but single variables and elements.
LEMMA FinishScalarAgrees ==
    ASSUME Working, ScopeInv', Stored', DOMAIN store' = DOMAIN store, svars' = svars, inCall' = inCall,
           NEW node \in Operand \ {"single"}, Complete(node), node = "call" => Top.ready = Arity(Top),
           NEW v, NEW means, Deliver(2, v, means), Kid(v, means) \in Scalars
    PROVE  AgreeInv'
<1>1. node # "statement"
  BY DEF Operand
<1>2. v # Failed
  BY ScalarNotFailed
<1>3. Kid(v, means) \in KidsAt(visits[Depth - 1], ArrayAt(visits, Depth - 1),
                               Len(visits[Depth - 1].kids) + 1, DOMAIN store)
  <2> DEFINE f == visits[Depth - 1]
             array == ArrayAt(visits, Depth - 1)
             C == DOMAIN store
             A == ArrayNames
  <2>1. f \in Frames(C) /\ FrameOK(f, array, C, A) /\ array \in BOOLEAN /\ Waits(f, node)
    BY <1>1, CompleteFacts
  <2> HIDE DEF f, array, C, A
  <2>2. Scalars \subseteq KidsAt(f, array, Len(f.kids) + 1, C)
    BY <2>1, ScalarFits
  <2> QED BY <2>2 DEF f, array, C
<1> QED BY <1>2, <1>3, FinishAgrees

LEMMA FinishSingleAgrees ==
    ASSUME Working, ScopeInv', FinishSingle
    PROVE  AgreeInv'
<1> DEFINE means == IF ScalarWanted THEN Evaluated(Meaning(1)) ELSE Meaning(1)
           kid == Kid(Factor(IR(1)), means)
<1>1. /\ Complete("single") /\ Deliver(2, Factor(IR(1)), means)
      /\ svars' = svars /\ inCall' = inCall /\ mem' = mem /\ store' = store
  BY DEF FinishSingle
<1>2. /\ visits # <<>> /\ Top.node = "single" /\ Arity(Top) = 1
      /\ Top.kids[1] \in KidsAt(Top, ArrayAt(visits, Depth), 1, DOMAIN store)
      /\ IR(1) = Top.kids[1].ir /\ Meaning(1) = Top.kids[1].means
  <2>1. Top.node = "single" /\ FrameOp(Top, ArrayNames)
    BY <1>1, CompleteFacts
  <2>2. Arity(Top) = 1
    BY <2>1, ArityParts
  <2> QED BY <1>1, <2>1, <2>2, CompleteFacts
<1>3. Top = visits[Len(visits)] /\ Depth = Len(visits) /\ (inCall <=> ArrayNext(visits))
      /\ (ScalarWanted <=> ~ArrayAt(visits, Depth))
  BY <1>2, ScalarWantedIs DEF Working, Visiting, Top, Depth
<1>4. inCall <=> ArrayAt(visits, Depth)
  BY <1>2, <1>3 DEF ArrayNext, PassesArray
<1>5. Stored' /\ "single" \in Operand
  BY <1>1, StoredSame DEF Working, svars, Operand
<1> DEFINE f == visits[Depth - 1]
           array == ArrayAt(visits, Depth - 1)
           C == DOMAIN store
<1>6. IF PassesArray(f, Len(f.kids) + 1) THEN KidsAt(f, array, Len(f.kids) + 1, C) = Arrays(C)
      ELSE Scalars \subseteq KidsAt(f, array, Len(f.kids) + 1, C)
  <2> DEFINE A == ArrayNames
  <2>1. f \in Frames(C) /\ FrameOK(f, array, C, A) /\ array \in BOOLEAN /\ Waits(f, "single")
    BY <1>1, CompleteFacts
  <2> HIDE DEF f, array, C, A
  <2> QED BY <2>1, SingleFits
<1>7. PassesArray(f, Len(f.kids) + 1) <=> ArrayAt(visits, Depth)
  <2>1. Depth > 1
    BY <1>2, TopFacts DEF Working
  <2> QED BY <1>2, <1>3, <2>1 DEF ArrayAt
<1> HIDE DEF f, array
<1>8. CASE ArrayAt(visits, Depth)
  <2>1. Top.kids[1] \in Arrays(C)
    BY <1>2, <1>8 DEF KidsAt
  <2>2. Factor(IR(1)) = IR(1) /\ means = Meaning(1)
    BY <1>3, <1>4, <1>8 DEF Factor
  <2>3. kid = Top.kids[1]
    BY <1>2, <2>1, <2>2 DEF Arrays, Kid
  <2>4. IR(1) # Failed
    <3>1. IR(1).type \in {"i32*", "[i32]*"}
      BY <1>2, <2>1, ArrayParts
    <3> QED BY <3>1 DEF Failed, Value
  <2>5. kid \in KidsAt(f, array, Len(f.kids) + 1, C)
    BY <1>6, <1>7, <1>8, <2>1, <2>3
  <2> HIDE DEF means
  <2> QED BY <1>1, <1>5, <2>2, <2>4, <2>5, FinishAgrees DEF f, array
<1>9. CASE ~ArrayAt(visits, Depth)
  <2>1. Top.kids[1] \in Places(C)
    BY <1>2, <1>9 DEF KidsAt
  <2>2. IsScalarPointer(IR(1))
    BY <1>2, <2>1, PlaceParts
  <2>3. Factor(IR(1)) = Load(mem, IR(1)) /\ means = Evaluated(Meaning(1))
    BY <1>3, <1>4, <1>9, <2>2 DEF Factor
  <2>4. kid \in Scalars
    BY <1>2, <2>1, <2>3, LoadAgrees DEF Working, Stored
  <2>5. Factor(IR(1)) # Failed
    BY <2>4, ScalarNotFailed
  <2>6. kid \in KidsAt(f, array, Len(f.kids) + 1, C)
    BY <1>6, <1>7, <1>9, <2>4
  <2> HIDE DEF means
  <2> QED BY <1>1, <1>5, <2>5, <2>6, FinishAgrees DEF f, array
<1> QED BY <1>8, <1>9

\* The innermost visitor, when it has a child that is not converted.
LEMMA TurnFacts ==
    ASSUME Working, Depth > 0, Turns(Top)
    PROVE  /\ visits # <<>> /\ Len(Top.kids) \in 1..Arity(Top) /\ FrameOp(Top, ArrayNames)
           /\ Top \in Frames(DOMAIN store)
           /\ Top.kids[Len(Top.kids)] \in
                 KidsAt(Top, ArrayAt(visits, Depth), Len(Top.kids), DOMAIN store)
           /\ IR(Len(Top.kids)) = Top.kids[Len(Top.kids)].ir
           /\ Meaning(Len(Top.kids)) = Top.kids[Len(Top.kids)].means
<1>1. visits # <<>>
  BY EmptySeq DEF Depth
<1>2. /\ Top \in Frames(DOMAIN store) /\ FrameOK(Top, ArrayAt(visits, Depth), DOMAIN store, ArrayNames)
      /\ DOMAIN Top.kids = 1..Len(Top.kids) /\ Len(Top.kids) \in Nat
  BY <1>1, TopFacts DEF Working
<1>3. Len(Top.kids) \in DOMAIN Top.kids
  BY <1>2 DEF Turns
<1>4. Arity(Top) \in 1..2 /\ Len(Top.kids) <= Arity(Top)
  BY <1>2, ArityParts DEF FrameOK, FrameOp
<1> QED BY <1>1, <1>2, <1>3, <1>4 DEF FrameOK, IR, Meaning

LEMMA LoadOperandAgrees ==
    ASSUME Working, ScopeInv', LoadOperand
    PROVE  AgreeInv'
<1> DEFINE n == Len(Top.kids)
           v == IF IsPointer(IR(n)) THEN Load(mem, IR(n)) ELSE IR(n)
           means == Evaluated(Meaning(n))
           C == DOMAIN store
<1>1. /\ Depth > 0 /\ Top.node = "mul" /\ n > Top.ready /\ Ready(n, v, means)
      /\ svars' = svars /\ inCall' = inCall /\ mem' = mem /\ store' = store
  BY DEF LoadOperand
<1>2. Turns(Top)
  <2>1. Top.ready \in Nat /\ n \in Nat
    <3>1. visits # <<>>
      BY <1>1, EmptySeq DEF Depth
    <3> QED BY <3>1, TopFacts DEF Working, Frames
  <2> QED BY <1>1, <2>1 DEF Turns
<1>3. /\ visits # <<>> /\ Top.kids[n] \in KidsAt(Top, ArrayAt(visits, Depth), n, C)
      /\ IR(n) = Top.kids[n].ir /\ Meaning(n) = Top.kids[n].means
  BY <1>1, <1>2, TurnFacts
<1> HIDE DEF n
<1>4. Top.kids[n] \in Scalars \cup Places(C)
  BY <1>1, <1>3 DEF KidsAt
<1>5. Kid(v, means) \in Scalars
  <2>1. CASE Top.kids[n] \in Scalars
    <3>1. ~IsPointer(IR(n)) /\ means = Meaning(n) /\ Top.kids[n] = Kid(IR(n), Meaning(n))
      BY <1>3, <2>1, ScalarStays
    <3> QED BY <2>1, <3>1
  <2>2. CASE Top.kids[n] \in Places(C)
    <3>1. IsPointer(IR(n))
      BY <1>3, <2>2, PlaceParts
    <3> QED BY <1>3, <2>2, <3>1, LoadAgrees DEF Working, Stored
  <2> QED BY <1>4, <2>1, <2>2
<1>6. v # Failed
  BY <1>5, ScalarNotFailed
<1> DEFINE kid == Kid(v, means)
<1>7. visits' = Readied(visits, kid) /\ outcome' = outcome
  <2> HIDE DEF v, means
  <2> QED BY <1>1, <1>3, <1>6, ReadyIs DEF Working, n
<1>8. kid \in ReadyKids(Top, C)
  BY <1>1, <1>5 DEF ReadyKids
<1> HIDE DEF kid
<1> QED BY <1>1, <1>2, <1>3, <1>7, <1>8, ReadyAgrees

\* The operands of a binary expression.
LEMMA OperandFacts ==
    ASSUME Working, NEW node \in {"additive", "mul", "simple"}, Complete(node),
           node = "mul" => Top.ready = 2
    PROVE  /\ Top.kids[1] \in Scalars /\ Top.kids[2] \in Scalars
           /\ IR(1) = Top.kids[1].ir /\ Meaning(1) = Top.kids[1].means
           /\ IR(2) = Top.kids[2].ir /\ Meaning(2) = Top.kids[2].means
           /\ DOMAIN Top.kids = 1..2 /\ visits # <<>> /\ Top.node = node
           /\ node = "simple" => Top.op \in Relational
           /\ node # "simple" => Top.op \in Arithmetical
<1>1. /\ visits # <<>> /\ Top.node = node /\ FrameOp(Top, ArrayNames) /\ DOMAIN Top.kids = 1..Arity(Top)
  BY CompleteFacts
<1>2. Arity(Top) = 2
  BY <1>1, ArityParts
<1>3. \A k \in 1..2 : /\ Top.kids[k] \in KidsAt(Top, ArrayAt(visits, Depth), k, DOMAIN store)
                      /\ IR(k) = Top.kids[k].ir /\ Meaning(k) = Top.kids[k].means
  BY <1>2, CompleteFacts
<1>4. \A k : KidsAt(Top, ArrayAt(visits, Depth), k, DOMAIN store) = Scalars
  BY <1>1 DEF KidsAt
<1>5. (node = "simple" => Top.op \in Relational) /\ (node # "simple" => Top.op \in Arithmetical)
  BY <1>1, ExpressionsAssumption DEF FrameOp, Relational, Arithmetical
<1> QED BY <1>1, <1>2, <1>3, <1>4, <1>5

LEMMA FinishArithmeticAgrees ==
    ASSUME Working, ScopeInv', NEW node \in {"additive", "mul"}, FinishArithmetic(node)
    PROVE  AgreeInv'
<1> DEFINE v == IR(1)
           w == IR(2)
           means == Arithmetic(Top.op, Meaning(1), Meaning(2))
<1>1. /\ Complete(node) /\ (node = "mul" => Top.ready = 2)
      /\ IF ~(IsFloat(v) \/ IsFloat(w)) THEN Deliver(2, IBinary(Top.op, v, w), means)
         ELSE IF Signed({v, w}) THEN outcome' = "signed" /\ visits' = visits
         ELSE Deliver(2, FBinary(Top.op, Promoted(v), Promoted(w)), means)
      /\ svars' = svars /\ inCall' = inCall /\ mem' = mem /\ store' = store
  BY DEF FinishArithmetic
<1>2. /\ Top.kids[1] \in Scalars /\ Top.kids[2] \in Scalars
      /\ v = Top.kids[1].ir /\ Meaning(1) = Top.kids[1].means
      /\ w = Top.kids[2].ir /\ Meaning(2) = Top.kids[2].means
      /\ DOMAIN Top.kids = 1..2 /\ visits # <<>> /\ Top.node = node /\ Top.op \in Arithmetical
  BY <1>1, OperandFacts
<1>3. /\ ~(IsFloat(v) \/ IsFloat(w)) =>
             \/ Kid(IBinary(Top.op, v, w), means) \in Scalars
             \/ IBinary(Top.op, v, w) = Failed /\ "i1" \in {v.type, w.type}
      /\ (IsFloat(v) \/ IsFloat(w)) /\ ~Signed({v, w}) =>
             Kid(FBinary(Top.op, Promoted(v), Promoted(w)), means) \in Scalars
  BY <1>2, ArithmeticAgrees
<1>4. Stored' /\ node \in Operand \ {"single"} /\ node # "call" /\ DOMAIN store' = DOMAIN store
  BY <1>1, StoredSame DEF Working, svars, Operand
<1>5. ASSUME visits' = visits, outcome' \in {"aborted", "signed"}, "i1" \in {v.type, w.type} PROVE AgreeInv'
  <2>1. \E k \in DOMAIN Top.kids : IR(k).type = "i1"
    BY <1>2, <1>5
  <2> QED BY <1>1, <1>2, <1>5, <2>1, StoppedAgrees DEF Working
<1> HIDE DEF means
<1>6. ASSUME NEW x, Kid(x, means) \in Scalars, Deliver(2, x, means) PROVE AgreeInv'
  BY <1>1, <1>4, <1>6, FinishScalarAgrees
<1>7. CASE ~(IsFloat(v) \/ IsFloat(w))
  <2>1. CASE Kid(IBinary(Top.op, v, w), means) \in Scalars
    BY <1>1, <1>6, <1>7, <2>1
  <2>2. CASE IBinary(Top.op, v, w) = Failed /\ "i1" \in {v.type, w.type}
    BY <1>1, <1>5, <1>7, <2>2 DEF Deliver
  <2> QED BY <1>3, <1>7, <2>1, <2>2
<1>8. CASE (IsFloat(v) \/ IsFloat(w)) /\ Signed({v, w})
  BY <1>1, <1>5, <1>8 DEF Signed
<1>9. CASE (IsFloat(v) \/ IsFloat(w)) /\ ~Signed({v, w})
  BY <1>1, <1>3, <1>6, <1>9
<1> QED BY <1>7, <1>8, <1>9

LEMMA FinishSimpleAgrees ==
    ASSUME Working, ScopeInv', FinishSimple
    PROVE  AgreeInv'
<1> DEFINE v == IR(1)
           w == IR(2)
           means == Comparison(Top.op, Meaning(1), Meaning(2))
           compared == IF v.type = "i32" /\ w.type = "i32" THEN ICmp(Top.op, v, w)
                       ELSE FCmp(Top.op, Compared(v), Compared(w))
<1>1. /\ Complete("simple") /\ Deliver(2, compared, means)
      /\ svars' = svars /\ inCall' = inCall /\ mem' = mem /\ store' = store
  BY DEF FinishSimple
<1>2. /\ Top.kids[1] \in Scalars /\ Top.kids[2] \in Scalars
      /\ v = Top.kids[1].ir /\ Meaning(1) = Top.kids[1].means
      /\ w = Top.kids[2].ir /\ Meaning(2) = Top.kids[2].means /\ Top.op \in Relational
  BY <1>1, OperandFacts
<1>3. Kid(compared, means) \in Scalars
  BY <1>2, ComparisonAgrees
<1>4. Stored' /\ "simple" \in Operand \ {"single"} /\ DOMAIN store' = DOMAIN store
  BY <1>1, StoredSame DEF Working, svars, Operand
<1> HIDE DEF means, compared
<1> QED BY <1>1, <1>3, <1>4, FinishScalarAgrees

\* A cell is written, with the same number in both memories.
LEMMA StoredWrite ==
    ASSUME Stored, NEW c, NEW x \in Int, vars' = vars,
           mem' = [mem EXCEPT ![c] = x], store' = [store EXCEPT ![c] = x]
    PROVE  Stored' /\ DOMAIN store' = DOMAIN store
<1>1. DOMAIN store' = DOMAIN store /\ mem' = store' /\ store' \in [DOMAIN store -> Int]
  BY DEF Stored
<1> QED BY <1>1 DEF Stored

LEMMA FinishAssignAgrees ==
    ASSUME Working, ScopeInv', FinishAssign
    PROVE  AgreeInv'
<1> DEFINE v == Convert(IR(2), Pointee(IR(1)))
           means == Converted(Meaning(2), PlaceType(Meaning(1)))
           C == DOMAIN store
<1>1. /\ Complete("assign")
      /\ IF StoreTypesMatch(v, IR(1))
         THEN /\ mem' = [mem EXCEPT ![IR(1).d] = v.d]
              /\ store' = [store EXCEPT ![Meaning(1).n] = means.n]
              /\ Deliver(2, v, means)
         ELSE /\ outcome' = "aborted"
              /\ UNCHANGED <<visits, mem, store>>
      /\ svars' = svars /\ inCall' = inCall
  BY DEF FinishAssign
<1>2. Top.node = "assign" /\ Arity(Top) = 2
  BY <1>1, CompleteFacts, ArityParts DEF FrameOp
<1>3. /\ Top.kids[1] \in Places(C) /\ Top.kids[2] \in Scalars
      /\ IR(1) = Top.kids[1].ir /\ Meaning(1) = Top.kids[1].means
      /\ IR(2) = Top.kids[2].ir /\ Meaning(2) = Top.kids[2].means
  <2>1. \A k \in 1..2 : /\ Top.kids[k] \in KidsAt(Top, ArrayAt(visits, Depth), k, C)
                        /\ IR(k) = Top.kids[k].ir /\ Meaning(k) = Top.kids[k].means
    BY <1>1, <1>2, CompleteFacts
  <2>2. KidsAt(Top, ArrayAt(visits, Depth), 1, C) = Places(C) /\ KidsAt(Top, ArrayAt(visits, Depth), 2, C) = Scalars
    BY <1>2 DEF KidsAt
  <2> QED BY <2>1, <2>2
<1>4. PICK t \in Types : /\ IR(1).d \in C /\ IsScalarPointer(IR(1)) /\ Pointee(IR(1)) = t
                         /\ PlaceType(Meaning(1)) = t /\ Meaning(1).n = IR(1).d
  BY <1>3, PlaceParts
<1>5. /\ Kid(v, means) \in Passed(t, {}) \cap Scalars /\ v.type = t /\ v.d = means.n
  BY <1>3, <1>4, ConvertAgrees
<1>6. StoreTypesMatch(v, IR(1))
  BY <1>4, <1>5 DEF StoreTypesMatch
<1>7. means.n \in Int
  <2>1. Kid(v, means).means = means /\ Kid(v, means).ir = v
    BY DEF Kid
  <2> HIDE DEF v, means
  <2> QED BY <1>5, <2>1, ScalarParts
<1> HIDE DEF v, means
<1>8. /\ mem' = [mem EXCEPT ![IR(1).d] = means.n] /\ store' = [store EXCEPT ![IR(1).d] = means.n]
      /\ Deliver(2, v, means)
  BY <1>1, <1>4, <1>5, <1>6
<1>9. Stored' /\ DOMAIN store' = DOMAIN store
  BY <1>1, <1>7, <1>8, StoredWrite DEF Working, svars
<1>10. "assign" \in Operand \ {"single"}
  BY DEF Operand
<1> QED BY <1>1, <1>5, <1>8, <1>9, <1>10, FinishScalarAgrees

LEMMA FinishIndexAgrees ==
    ASSUME Working, ScopeInv', FinishIndex
    PROVE  AgreeInv'
<1> DEFINE k == Top.kids[1]
           i == IF IsFloat(IR(1)) THEN FPToSI(IR(1), "i32") ELSE IR(1)
           nonNegative == ICmp("ge", i, Int32(0))
           n == Visible(Top.op)
           index == AsInt(Meaning(1))
           ends == IF Failed \in {Address(n), nonNegative} THEN "aborted"
                   ELSE IF nonNegative = Value("i1", 0) THEN "exited"
                   ELSE IF index >= vars[n].length THEN "undefined"
                   ELSE "running"
           v == GetElementPtr(Address(n), i)
           means == Place(vars[n].type, <<First(n)[1], index>>)
           C == DOMAIN store
<1>1. /\ Complete("index")
      /\ IF ends = "running" THEN Deliver(2, v, means) ELSE outcome' = ends /\ visits' = visits
      /\ svars' = svars /\ inCall' = inCall /\ mem' = mem /\ store' = store
  BY ScopedResolves DEF FinishIndex, Working
<1>2. /\ Top.node = "index" /\ visits # <<>> /\ FrameOp(Top, ArrayNames) /\ DOMAIN Top.kids = 1..Arity(Top)
      /\ Arity(Top) = 1
  BY <1>1, CompleteFacts, ArityParts
<1>3. /\ k \in Scalars /\ IR(1) = k.ir /\ Meaning(1) = k.means
  <2>1. k \in KidsAt(Top, ArrayAt(visits, Depth), 1, C) /\ IR(1) = k.ir /\ Meaning(1) = k.means
    BY <1>1, <1>2, CompleteFacts
  <2> QED BY <1>2, <2>1 DEF KidsAt
<1>4. n # 0 /\ vars[n].kind # "var"
  BY <1>2 DEF FrameOp, ArrayNames
<1>5. n \in DOMAIN vars /\ n \in Int /\ vars[n] \in Variables
  BY <1>4, VisibleDeclared DEF Working
<1>6. /\ Address(n) # Failed /\ Address(n).d = <<First(n)[1], 0>> /\ IsPointer(Address(n))
      /\ Pointee(Address(n)) = vars[n].type /\ vars[n].type \in Types
      /\ \A j \in Int : 0 <= j /\ j < vars[n].length => <<First(n)[1], j>> \in C
  BY <1>4, <1>5, AddressAgrees
<1>7. vars[n].length \in Int
  BY <1>5 DEF Variables
<1>8. k.ir.type \in {"i1", "i32", "float"} /\ k.ir.d \in Int /\ k.ir = Value(k.ir.type, k.ir.d)
      /\ k.means.n = k.ir.d /\ (k.means.t = "float" <=> k.ir.type = "float")
  BY <1>3, ScalarParts
<1> HIDE DEF k, n
<1>9. CASE k.ir.type = "i1"
  <2>1. nonNegative = Failed
    BY <1>3, <1>9 DEF IsFloat, ICmp
  <2>2. outcome' = "aborted" /\ visits' = visits
    BY <1>1, <2>1
  <2>3. \E j \in DOMAIN Top.kids : IR(j).type = "i1"
    BY <1>2, <1>3, <1>9
  <2> QED BY <1>1, <1>2, <2>2, <2>3, StoppedAgrees DEF Working
<1>10. CASE k.ir.type # "i1"
  <2>1. index \in Int /\ i = Int32(index)
    <3>1. CASE k.ir.type = "float"
      <4>1. index = ToZero(k.ir.d) /\ i = Int32(ToZero(k.ir.d))
        BY <1>3, <1>8, <3>1 DEF AsInt, IsFloat, FPToSI
      <4> QED BY <1>8, <4>1, ToZeroInt
    <3>2. CASE k.ir.type = "i32"
      BY <1>3, <1>8, <3>2 DEF AsInt, IsFloat, Int32
    <3> QED BY <1>8, <1>10, <3>1, <3>2
  <2> HIDE DEF index, i
  <2>2. nonNegative = Value("i1", Bit(index >= 0)) /\ nonNegative # Failed
    BY <2>1 DEF ICmp, Int32, Value, Compare, Failed
  <2>3. nonNegative = Value("i1", 0) <=> index < 0
    BY <2>1, <2>2 DEF Bit, Value
  <2> HIDE DEF nonNegative
  <2>4. ends = IF index < 0 THEN "exited" ELSE IF index >= vars[n].length THEN "undefined" ELSE "running"
    BY <1>6, <2>2, <2>3
  <2> HIDE DEF ends
  <2>5. CASE index < 0
    BY <1>1, <1>2, <2>4, <2>5, StoppedAgrees DEF Working, index
  <2>6. CASE ~(index < 0) /\ index >= vars[n].length
    BY <1>1, <1>2, <2>4, <2>6, StoppedAgrees DEF Working
  <2>7. CASE ~(index < 0) /\ ~(index >= vars[n].length)
    <3> DEFINE c == <<First(n)[1], index>>
               f == visits[Depth - 1]
               array == ArrayAt(visits, Depth - 1)
               A == ArrayNames
    <3>1. c \in C
      BY <1>6, <1>7, <2>1, <2>7
    <3>2. v = Value(PointerTo(vars[n].type), c)
      <4>1. IsInteger(i) /\ i.d = index
        BY <2>1 DEF IsInteger, Int32, Value
      <4>2. Address(n).d[1] = First(n)[1] /\ Address(n).d[2] + index = index
        BY <1>6, <2>1
      <4> QED BY <1>6, <4>1, <4>2 DEF GetElementPtr
    <3>3. Kid(v, means) \in Places(C)
      BY <1>6, <3>1, <3>2 DEF Places
    <3>4. v # Failed
      BY <1>6, <3>2 DEF Value, PointerTo, Failed
    <3>5. f \in Frames(C) /\ FrameOK(f, array, C, A) /\ array \in BOOLEAN /\ Waits(f, "index") /\ ~array
      BY <1>1, <1>2, CompleteFacts
    <3>6. "index" \in PlaceNodes
      BY DEF PlaceNodes
    <3> HIDE DEF f, array, A, C
    <3>7. Places(C) \subseteq KidsAt(f, array, Len(f.kids) + 1, C)
      BY <3>5, <3>6, PlaceFits
    <3>8. Kid(v, means) \in KidsAt(f, array, Len(f.kids) + 1, C)
      BY <3>3, <3>7
    <3>9. Deliver(2, v, means)
      BY <1>1, <2>4, <2>7
    <3>10. Stored' /\ DOMAIN store' = DOMAIN store
      BY <1>1, StoredSame DEF Working, svars
    <3> HIDE DEF v, means
    <3> QED BY <1>1, <3>4, <3>8, <3>9, <3>10, FinishAgrees DEF f, array, C
  <2> QED BY <2>5, <2>6, <2>7
<1> QED BY <1>9, <1>10

LEMMA FinishArgumentAgrees ==
    ASSUME Working, ScopeInv', FinishArgument
    PROVE  AgreeInv'
<1> DEFINE n == Len(Top.kids)
           type == Callee[Top.op].params[n]
           array == ArrayAt(visits, Depth)
           C == DOMAIN store
           k == Top.kids[n]
           first == IF IsPointer(IR(n)) THEN GetElementPtr(IR(n), Int32(0)) ELSE IR(n)
           converted == Convert(IF IsPointer(IR(n)) THEN Load(mem, IR(n)) ELSE IR(n), type)
<1>1. /\ Depth > 0 /\ Top.node = "call" /\ n > Top.ready
      /\ IF type = "i32*" THEN Ready(n, first, Meaning(n)) ELSE Ready(n, converted, Converted(Meaning(n), type))
      /\ inCall' = PassesArray(Top, n + 1)
      /\ svars' = svars /\ mem' = mem /\ store' = store
  BY DEF FinishArgument
<1>2. Turns(Top)
  <2>1. Top.ready \in Nat /\ n \in Nat
    <3>1. visits # <<>>
      BY <1>1, EmptySeq DEF Depth
    <3> QED BY <3>1, TopFacts DEF Working, Frames
  <2> QED BY <1>1, <2>1 DEF Turns
<1>3. /\ visits # <<>> /\ k \in KidsAt(Top, array, n, C) /\ n \in 1..Arity(Top) /\ FrameOp(Top, ArrayNames)
      /\ IR(n) = k.ir /\ Meaning(n) = k.means /\ Top \in Frames(C)
  BY <1>1, <1>2, TurnFacts
<1>4. type \in Parameters /\ (PassesArray(Top, n) <=> type = "i32*")
  <2>1. Top.node = "call" => Top.op \in DOMAIN Callee
    BY <1>3 DEF FrameOp
  <2> HIDE DEF n
  <2> QED BY <1>1, <1>3, <2>1, ArityParts
<1>5. k \in IF type = "i32*" THEN Arrays(C) ELSE Scalars
  <2>1. ~(n <= Top.ready)
    BY <1>1, <1>3 DEF Frames
  <2> QED BY <1>1, <1>3, <1>4, <2>1 DEF KidsAt
<1> HIDE DEF n, k
<1>6. ASSUME NEW v, v # Failed, NEW means, Kid(v, means) \in Passed(type, C), Ready(n, v, means)
      PROVE  AgreeInv'
  <2> DEFINE kid == Kid(v, means)
  <2>1. visits' = Readied(visits, kid) /\ outcome' = outcome
    BY <1>3, <1>6, ReadyIs DEF Working, n
  <2>2. kid \in ReadyKids(Top, C)
    BY <1>1, <1>6 DEF ReadyKids, n
  <2> HIDE DEF kid
  <2> QED BY <1>1, <1>2, <1>3, <2>1, <2>2, ReadyAgrees DEF n
<1>7. CASE type = "i32*"
  <2>1. k \in Arrays(C) /\ C \subseteq Int \X Int
    BY <1>5, <1>7 DEF Working, Stored
  <2>2. first = GetElementPtr(k.ir, Int32(0))
    BY <1>3, <2>1, ArrayParts
  <2>3. Kid(first, Meaning(n)) \in Passed("i32*", C) /\ first # Failed
    BY <1>3, <2>1, <2>2, ElementAgrees
  <2> HIDE DEF first
  <2> QED BY <1>1, <1>6, <1>7, <2>3
<1>8. CASE type # "i32*"
  <2>1. type \in Types /\ k \in Scalars
    BY <1>4, <1>5, <1>8 DEF Parameters, Types
  <2>2. converted = Convert(k.ir, type)
    BY <1>3, <2>1, ScalarStays
  <2>3. Kid(converted, Converted(Meaning(n), type)) \in Passed(type, {}) /\ converted # Failed
    BY <1>3, <2>1, <2>2, ConvertAgrees
  <2>4. Passed(type, {}) = Passed(type, C)
    BY <2>1 DEF Types, Passed
  <2> HIDE DEF converted, type
  <2> QED BY <1>1, <1>6, <1>8, <2>3, <2>4
<1> QED BY <1>7, <1>8

\* An argument that is converted has the type of its parameter.
LEMMA PassedParts ==
    ASSUME NEW C, NEW type \in Parameters, NEW k \in Passed(type, C)
    PROVE  /\ k.ir.type = type /\ k.ir.d = k.means.n
           /\ type # "i32*" => k.ir.d \in Int
<1>1. CASE type = "i32"
  <2>1. k \in Ints
    BY <1>1 DEF Passed
  <2> QED BY <1>1, <2>1 DEF Ints, Kid, Int32, Value, Num, Means
<1>2. CASE type = "float"
  <2>1. k \in Floats
    BY <1>2 DEF Passed
  <2> QED BY <1>2, <2>1 DEF Floats, Kid, Value, Float, Means
<1>3. CASE type = "i32*"
  <2>1. PICK c \in C : k = Kid(Value("i32*", c), Place("i32", c))
    BY <1>3 DEF Passed
  <2> QED BY <1>3, <2>1 DEF Kid, Value, Place, Means
<1> QED BY <1>1, <1>2, <1>3 DEF Parameters

\* A function that is called writes the same to both memories.
LEMMA EffectStored ==
    ASSUME Stored, vars' = vars, NEW f, NEW args,
           f = "f" => args[1] \in Int, f # "f" => args[2] \in Int,
           mem' = Effect(mem, f, args), store' = Effect(store, f, args)
    PROVE  Stored' /\ DOMAIN store' = DOMAIN store
<1> DEFINE x == IF f = "f" THEN args[1] ELSE ToZero(args[2])
           written == IF f = "k" THEN {args[1]}
                      ELSE {<<n, 0>> : n \in {v \in DOMAIN vars :
                               vars[v].block = 0 /\ vars[v].kind = "var" /\ vars[v].type = "i32"}}
<1>1. x \in Int
  BY ToZeroInt
<1>2. store' = [c \in DOMAIN store |-> IF c \notin written THEN store[c] ELSE x]
  BY DEF Effect
<1> HIDE DEF x, written
<1>3. DOMAIN store' = DOMAIN store /\ store' \in [DOMAIN store -> Int]
  BY <1>1, <1>2 DEF Stored
<1>4. mem' = store'
  BY DEF Stored
<1> QED BY <1>3, <1>4 DEF Stored

LEMMA FinishCallAgrees ==
    ASSUME Working, ScopeInv', FinishCall
    PROVE  AgreeInv'
<1> DEFINE f == Top.op
           params == Callee[f].params
           passed == [n \in DOMAIN params |-> IR(n).d]
           meant == [n \in DOMAIN params |-> Meaning(n).n]
           returns == Callee[f].returns
           v == Value(returns, Result(f, passed))
           means == IF returns = "i32" THEN Num(Result(f, meant)) ELSE Float(Result(f, meant))
           C == DOMAIN store
<1>1. /\ Complete("call") /\ Top.ready = Len(params)
      /\ IF \A n \in DOMAIN params : IR(n).type = params[n]
         THEN /\ mem' = Effect(mem, f, passed)
              /\ store' = Effect(store, f, meant)
              /\ Deliver(2, v, means)
         ELSE outcome' = "aborted" /\ UNCHANGED <<visits, mem, store>>
      /\ svars' = svars /\ inCall' = inCall
  BY DEF FinishCall
<1>2. Top.node = "call" /\ f \in {"f", "k"} /\ f \in DOMAIN Callee
  BY <1>1, CompleteFacts, CalleeParts DEF FrameOp
<1>3. Arity(Top) = Len(params) /\ DOMAIN params = 1..Arity(Top) /\ \A n \in DOMAIN params : params[n] \in Parameters
  BY <1>2, ArityParts
<1>4. ASSUME NEW n \in DOMAIN params
      PROVE  /\ IR(n).type = params[n] /\ IR(n).d = Meaning(n).n
             /\ params[n] # "i32*" => IR(n).d \in Int
  <2>1. n \in 1..Arity(Top) /\ n <= Top.ready /\ params[n] \in Parameters
    BY <1>1, <1>3
  <2>2. Top.kids[n] \in KidsAt(Top, ArrayAt(visits, Depth), n, C) /\ IR(n) = Top.kids[n].ir
        /\ Meaning(n) = Top.kids[n].means
    BY <1>1, <2>1, CompleteFacts
  <2>3. Top.kids[n] \in Passed(params[n], C)
    BY <1>2, <2>1, <2>2 DEF KidsAt
  <2> HIDE DEF params, f, C
  <2> QED BY <2>1, <2>2, <2>3, PassedParts
<1>5. passed = meant
  BY <1>4
<1> HIDE DEF meant
<1>6. /\ mem' = Effect(mem, f, passed) /\ store' = Effect(store, f, passed) /\ Deliver(2, v, means)
  BY <1>1, <1>4, <1>5
<1>7. /\ f = "f" => passed[1] \in Int
      /\ f # "f" => passed[2] \in Int
  <2>1. CASE f = "f"
    <3>1. params = <<"i32">>
      BY <2>1, CalleeParts
    <3>2. 1 \in DOMAIN params /\ params[1] = "i32"
      BY <3>1
    <3> QED BY <1>4, <2>1, <3>2
  <2>2. CASE f = "k"
    <3>1. params = <<"i32*", "float">>
      BY <2>2, CalleeParts
    <3>2. 2 \in DOMAIN params /\ params[2] = "float"
      BY <3>1
    <3> QED BY <1>4, <2>2, <3>2
  <2> QED BY <1>2, <2>1, <2>2
<1>8. Stored' /\ C' = C
  <2> HIDE DEF passed
  <2>1. vars' = vars
    BY <1>1 DEF svars
  <2> QED BY <1>6, <1>7, <2>1, EffectStored DEF Working
<1>9. Kid(v, means) \in Scalars
  <2>1. CASE f = "f"
    <3>1. returns = "i32" /\ Result(f, passed) = passed[1] - 1
      BY <2>1, CalleeParts DEF Result
    <3>2. passed[1] - 1 \in Int
      BY <1>7, <2>1
    <3>3. v = Int32(passed[1] - 1) /\ means = Num(passed[1] - 1)
      BY <1>5, <3>1 DEF Int32
    <3> HIDE DEF v, means, passed
    <3> QED BY <3>2, <3>3, ScalarMade
  <2>2. CASE f = "k"
    <3>1. returns = "float" /\ Result(f, passed) = passed[2] + Unit
      BY <2>2, CalleeParts DEF Result
    <3>2. passed[2] + Unit \in Int
      BY <1>7, <2>2 DEF Unit
    <3>3. v = Value("float", passed[2] + Unit) /\ means = Float(passed[2] + Unit)
      BY <1>5, <3>1
    <3> HIDE DEF v, means, passed
    <3> QED BY <3>2, <3>3, ScalarMade
  <2> QED BY <1>2, <2>1, <2>2
<1>10. "call" \in Operand \ {"single"} /\ Top.ready = Arity(Top)
  BY <1>1, <1>3 DEF Operand
<1> HIDE DEF v, means
<1> QED BY <1>1, <1>6, <1>8, <1>9, <1>10, FinishScalarAgrees

\* An expression that is done, of a statement.
LEMMA ExpressedFacts ==
    ASSUME Working, Expressed
    PROVE  /\ visits # <<>> /\ Top.node = "statement" /\ Turns(Top) /\ Len(Top.kids) = 1
           /\ Top.kids[1] \in Scalars /\ IR(1) = Top.kids[1].ir /\ Meaning(1) = Top.kids[1].means
           /\ 1 \in DOMAIN Top.kids
           /\ \A C : ReadyKids(Top, C) = Scalars
<1>1. Complete("statement")
  BY DEF Expressed
<1>2. Top.node = "statement" /\ Len(Top.kids) = Arity(Top) /\ visits # <<>> /\ DOMAIN Top.kids = 1..Arity(Top)
  BY <1>1, CompleteFacts
<1>3. Arity(Top) = 1
  BY <1>2, ArityParts
<1>4. Top.kids[1] \in KidsAt(Top, ArrayAt(visits, Depth), 1, DOMAIN store) /\ IR(1) = Top.kids[1].ir
      /\ Meaning(1) = Top.kids[1].means
  BY <1>1, <1>3, CompleteFacts
<1>5. Top.kids[1] \in Scalars
  BY <1>2, <1>4 DEF KidsAt
<1> QED BY <1>2, <1>3, <1>4, <1>5 DEF Turns, ReadyKids

\* What a statement makes of its expression.
LEMMA StatementReadyAgrees ==
    ASSUME Working, ScopeInv', Expressed, svars' = svars, inCall' = inCall, mem' = mem, store' = store,
           NEW v, NEW means, Kid(v, means) \in Scalars, Ready(1, v, means)
    PROVE  AgreeInv'
<1> DEFINE kid == Kid(v, means)
<1>1. v # Failed
  BY ScalarNotFailed
<1>2. visits # <<>> /\ Top.node = "statement" /\ Turns(Top) /\ 1 = Len(Top.kids)
  BY ExpressedFacts
<1>3. visits' = Readied(visits, kid) /\ outcome' = outcome
  BY <1>1, <1>2, ReadyIs DEF Working
<1>4. kid \in ReadyKids(Top, DOMAIN store)
  BY ExpressedFacts
<1> HIDE DEF kid
<1> QED BY <1>2, <1>3, <1>4, ReadyAgrees

LEMMA FinishConditionAgrees ==
    ASSUME Working, ScopeInv', FinishCondition
    PROVE  AgreeInv'
<1> DEFINE v == Test(IR(1))
           means == Comparison("ne", Meaning(1), Num(0))
<1>1. /\ Expressed /\ Ready(1, v, means)
      /\ svars' = svars /\ inCall' = inCall /\ mem' = mem /\ store' = store
  BY DEF FinishCondition
<1>2. Kid(v, means) \in Scalars
  BY <1>1, ExpressedFacts, TestAgrees
<1> HIDE DEF v, means
<1> QED BY <1>1, <1>2, StatementReadyAgrees

LEMMA FinishReturnAgrees ==
    ASSUME Working, ScopeInv', FinishReturn
    PROVE  AgreeInv'
<1> DEFINE v == Returned(IR(1))
           means == Converted(Meaning(1), function)
           k == Top.kids[1]
<1>1. /\ Expressed
      /\ IF function = "float" /\ Signed({IR(1)}) THEN outcome' = "signed" /\ visits' = visits
         ELSE Ready(1, v, means)
      /\ svars' = svars /\ inCall' = inCall /\ mem' = mem /\ store' = store
  BY DEF FinishReturn
<1>2. /\ visits # <<>> /\ Top.node = "statement" /\ 1 \in DOMAIN Top.kids
      /\ k \in Scalars /\ IR(1) = k.ir /\ Meaning(1) = k.means
  BY <1>1, ExpressedFacts
<1>3. function \in Types
  BY <1>2 DEF Working, Visiting, Scoped, Opened
<1>4. ASSUME visits' = visits, outcome' \in {"aborted", "signed"}, IR(1).type = "i1" PROVE AgreeInv'
  BY <1>1, <1>2, <1>4, StoppedAgrees DEF Working
<1>5. CASE function = "float" /\ Signed({IR(1)})
  BY <1>1, <1>4, <1>5 DEF Signed
<1>6. CASE ~(function = "float" /\ Signed({IR(1)}))
  <2>1. Ready(1, v, means)
    BY <1>1, <1>6
  <2>2. Kid(v, means) \in Scalars \/ (v = Failed /\ IR(1).type = "i1")
    BY <1>2, <1>3, <1>6, ReturnedAgrees
  <2>3. CASE Kid(v, means) \in Scalars
    <3> HIDE DEF v, means
    <3> QED BY <1>1, <2>1, <2>3, StatementReadyAgrees
  <2>4. CASE v = Failed /\ IR(1).type = "i1"
    BY <1>4, <2>1, <2>4 DEF Ready
  <2> QED BY <2>2, <2>3, <2>4
<1> QED BY <1>5, <1>6

LEMMA FinishStatementAgrees ==
    ASSUME Working, ScopeInv', FinishStatement
    PROVE  AgreeInv'
<1>1. /\ Expressed /\ visits' = <<>> /\ svars' = svars /\ inCall' = inCall
      /\ mem' = mem /\ store' = store /\ outcome' = outcome
  BY DEF FinishStatement
<1>2. Top.node = "statement" /\ visits # <<>> /\ Top = visits[Len(visits)]
  BY <1>1, ExpressedFacts DEF Top, Depth
<1>3. ~ArrayNext(visits)
  BY <1>2 DEF ArrayNext, PassesArray, ArrayAt
<1>4. ~inCall'
  BY <1>1, <1>3 DEF Working, Visiting
<1>5. Visiting'
  BY <1>1, <1>4, IdleVisiting
<1>6. outcome' = "running" /\ Scoped' /\ Stored'
  BY <1>1, StoredSame DEF Working, ScopeInv, svars
<1> QED BY <1>5, <1>6, RunningAgrees

-----------------------------------------------------------------------------
(* Steps between statements.                                               *)
LEMMA IdleAgrees ==
    ASSUME Idle, Working, ScopeInv', visits' = <<>>, inCall' = inCall, outcome' = "running", Stored'
    PROVE  AgreeInv'
<1>1. ~inCall'
  BY IdleNotInCall DEF Idle, Working
<1> QED BY <1>1, IdleVisiting, RunningAgrees DEF ScopeInv

\* The end between statements.
LEMMA EndAgrees ==
    ASSUME visits' = <<>>, mem' = store', outcome' \in {"built", "exited"},
           outcome' = "exited" => vars'[Len(vars')].length = 0
    PROVE  AgreeInv'
<1>1. Depth' = 0
  BY DEF Depth
<1>2. outcome' \notin {"running", "aborted", "signed"}
  OBVIOUS
<1>3. ExpressionsAgree'
  <2>1. (\A n \in 1..Depth : \A k \in DOMAIN visits[n].kids : Agrees(visits[n].kids[k]))'
    BY <1>1
  <2>2. (outcome = "exited" => IF Depth = 0 THEN vars[Len(vars)].length = 0 ELSE AsInt(Meaning(1)) < 0)'
    BY <1>1
  <2> QED BY <2>1, <2>2 DEF ExpressionsAgree
<1>4. FailsOnlyOnComparisons'
  BY <1>2 DEF FailsOnlyOnComparisons
<1> QED BY <1>2, <1>3, <1>4 DEF AgreeInv

\* Cells are added, with the same numbers in both memories.
LEMMA StoredJoin ==
    ASSUME Stored, NEW g, DOMAIN g \subseteq Int \X Int, g \in [DOMAIN g -> Int],
           mem' = Joined(mem, g), store' = Joined(store, g)
    PROVE  /\ mem' = store' /\ store' \in [DOMAIN store' -> Int] /\ DOMAIN store' \subseteq Int \X Int
           /\ DOMAIN store' = DOMAIN store \cup DOMAIN g
           /\ \A i \in 0..(PassedLength - 1) : <<0, i>> \in DOMAIN store'
<1>1. mem' = store'
  BY DEF Stored
<1>2. store' = [c \in DOMAIN store \cup DOMAIN g |-> IF c \in DOMAIN store THEN store[c] ELSE g[c]]
  BY DEF Joined
<1>3. DOMAIN store' = DOMAIN store \cup DOMAIN g
  BY <1>2
<1>4. store' \in [DOMAIN store' -> Int]
  BY <1>2 DEF Stored
<1> QED BY <1>1, <1>3, <1>4 DEF Stored

LEMMA DeclareAgrees ==
    ASSUME Working, ScopeInv', NEW decl \in Globals \cup Locals, Declare(decl)
    PROVE  AgreeInv'
<1> DEFINE n == Len(vars) + 1
           d == IF InGlobal THEN 0 ELSE Garbage(n)
           v == Variable(decl, open[Len(open)])
           g == Cells(n, decl.length, d)
<1>1. /\ Idle /\ vars' = Append(vars, v) /\ mem' = Joined(mem, g) /\ store' = Joined(store, g)
      /\ outcome' = IF decl.length = 0 /\ ~InGlobal THEN "exited" ELSE outcome
      /\ visits' = visits /\ inCall' = inCall
  BY DEF Declare
<1>2. /\ Len(vars) \in Nat /\ DOMAIN vars = 1..Len(vars) /\ vars \in Seq(Variables)
  BY LenProperties DEF Working, Scoped
<1>3. n \in Int /\ d \in Int
  BY <1>2 DEF Garbage
<1>4. decl.length \in Nat /\ decl.kind \in {"var", "array"} /\ (decl.kind = "var" => decl.length = 1)
  BY ExpressionsAssumption
<1>5. v.length = decl.length /\ v.kind = decl.kind
  BY DEF Variable
<1>6. Len(vars') = n /\ vars'[n] = v /\ \A m \in 1..Len(vars) : vars'[m] = vars[m]
  BY <1>1, <1>2
<1>7. DOMAIN g = {n} \X (0..(decl.length - 1)) /\ g \in [DOMAIN g -> Int]
  <2>1. g = [c \in {n} \X (0..(decl.length - 1)) |-> d]
    BY DEF Cells
  <2> HIDE DEF g, d, n
  <2> QED BY <1>3, <2>1
<1> HIDE DEF g
<1>8. DOMAIN g \subseteq Int \X Int
  BY <1>3, <1>4, <1>7
<1>9. /\ mem' = store' /\ store' \in [DOMAIN store' -> Int] /\ DOMAIN store' \subseteq Int \X Int
      /\ DOMAIN store' = DOMAIN store \cup DOMAIN g
      /\ \A i \in 0..(PassedLength - 1) : <<0, i>> \in DOMAIN store'
  BY <1>1, <1>7, <1>8, StoredJoin DEF Working
<1>10. visits' = <<>>
  BY <1>1 DEF Idle
<1>11. CASE decl.length = 0 /\ ~InGlobal
  <2>1. outcome' = "exited" /\ vars'[Len(vars')].length = 0
    BY <1>1, <1>5, <1>6, <1>11
  <2> QED BY <1>9, <1>10, <2>1, EndAgrees
<1>12. CASE ~(decl.length = 0 /\ ~InGlobal)
  <2>1. outcome' = "running"
    BY <1>1, <1>12 DEF Idle
  <2>2. ASSUME NEW m \in DOMAIN vars'
        PROVE  /\ vars'[m].kind = "passed" => vars'[m].length = PassedLength
               /\ vars'[m].kind = "var" => vars'[m].length = 1
               /\ vars'[m].kind # "passed" => \A i \in 0..(vars'[m].length - 1) : <<m, i>> \in DOMAIN store'
    <3>1. m \in 1..n
      <4>1. vars' \in Seq(Variables)
        BY <2>1 DEF ScopeInv, Scoped
      <4> QED BY <1>6, <4>1, LenProperties
    <3>2. CASE m = n
      <4>1. vars'[m].kind \in {"var", "array"} /\ (vars'[m].kind = "var" => vars'[m].length = 1)
            /\ vars'[m].length = decl.length
        BY <1>4, <1>5, <1>6, <3>2
      <4>2. \A i \in 0..(decl.length - 1) : <<m, i>> \in DOMAIN g
        BY <1>7, <3>2
      <4> QED BY <1>9, <4>1, <4>2
    <3>3. CASE m # n
      <4>1. m \in DOMAIN vars /\ vars'[m] = vars[m]
        BY <1>2, <1>6, <3>1, <3>3
      <4> QED BY <1>9, <4>1 DEF Working, Stored
    <3> QED BY <3>2, <3>3
  <2>3. Stored'
    BY <1>9, <2>2 DEF Stored
  <2> QED BY <1>1, <1>10, <2>1, <2>3, IdleAgrees
<1> QED BY <1>11, <1>12

LEMMA StartFunctionAgrees ==
    ASSUME Working, ScopeInv', NEW fun \in Functions, StartFunction(fun)
    PROVE  AgreeInv'
<1> DEFINE first == Len(vars)
           params == fun.params
           added == [n \in DOMAIN params |-> Variable(params[n], 1)]
           scalars == {n \in DOMAIN params : params[n].kind = "var"}
           g == [c \in {first + n : n \in scalars} \X {0} |-> Given]
<1>1. /\ Idle /\ vars' = vars \o added /\ mem' = Joined(mem, g) /\ store' = Joined(store, g)
      /\ outcome' = outcome /\ visits' = visits /\ inCall' = inCall
  BY DEF StartFunction
<1>2. /\ Len(vars) \in Nat /\ DOMAIN vars = 1..first /\ vars \in Seq(Variables)
  BY LenProperties DEF Working, Scoped
<1>3. DOMAIN params = 1..Len(params) /\ Len(params) \in Nat
  <2>1. params \in Seq({params[n] : n \in DOMAIN params})
    BY ExpressionsAssumption
  <2> QED BY <2>1, LenProperties
<1>4. \A n \in DOMAIN params : /\ params[n].kind \in {"var", "passed"}
                               /\ params[n].length = IF params[n].kind = "passed" THEN PassedLength ELSE 1
  BY ExpressionsAssumption
<1>5. /\ DOMAIN g = {first + n : n \in scalars} \X {0} /\ g \in [DOMAIN g -> Int]
  <2>1. Given \in Int
    BY DEF Given
  <2> HIDE DEF scalars
  <2> QED BY <2>1
<1>6. \A n \in scalars : <<first + n, 0>> \in DOMAIN g
  BY <1>5
<1>7. DOMAIN g \subseteq Int \X Int
  <2>1. \A n \in scalars : first + n \in Int
    BY <1>2, <1>3
  <2> HIDE DEF g, scalars
  <2> QED BY <1>5, <2>1
<1> HIDE DEF g
<1>8. /\ mem' = store' /\ store' \in [DOMAIN store' -> Int] /\ DOMAIN store' \subseteq Int \X Int
      /\ DOMAIN store' = DOMAIN store \cup DOMAIN g
      /\ \A i \in 0..(PassedLength - 1) : <<0, i>> \in DOMAIN store'
  BY <1>1, <1>5, <1>7, StoredJoin DEF Working
<1>9. /\ \A n \in DOMAIN params : added[n].kind = params[n].kind /\ added[n].length = params[n].length
      /\ Len(added) = Len(params)
  <2>1. \A n \in DOMAIN params : added[n] = Variable(params[n], 1)
    OBVIOUS
  <2>2. \A x : Variable(x, 1).kind = x.kind /\ Variable(x, 1).length = x.length
    BY DEF Variable
  <2>3. Len(added) = Len(params)
    BY <1>3
  <2> HIDE DEF added
  <2> QED BY <2>1, <2>2, <2>3
<1>10. /\ DOMAIN vars' = 1..(first + Len(params))
       /\ \A m \in 1..first : vars'[m] = vars[m]
       /\ \A m \in 1..(first + Len(params)) : ~(m <= first) => vars'[m] = added[m - first]
  <2> DEFINE S == Variables \cup {added[n] : n \in DOMAIN params}
  <2>1. added \in Seq(S)
    <3>1. added \in [1..Len(params) -> S]
      BY <1>3
    <3> HIDE DEF added, S
    <3> QED BY <1>3, <3>1
  <2>2. vars \in Seq(S)
    BY <1>2, LenProperties
  <2> HIDE DEF S, added
  <2>3. /\ vars \o added \in Seq(S) /\ Len(vars \o added) = Len(vars) + Len(added)
        /\ \A m \in 1..(Len(vars) + Len(added)) :
              (vars \o added)[m] = IF m <= Len(vars) THEN vars[m] ELSE added[m - Len(vars)]
    BY ONLY <2>1, <2>2, ConcatProperties
  <2>4. DOMAIN (vars \o added) = 1..(first + Len(params))
    BY <1>9, <2>3, LenProperties
  <2> HIDE DEF params
  <2> QED BY <1>1, <1>2, <1>3, <1>9, <2>3, <2>4
<1> HIDE DEF added
<1>11. ASSUME NEW m \in DOMAIN vars'
       PROVE  /\ vars'[m].kind = "passed" => vars'[m].length = PassedLength
              /\ vars'[m].kind = "var" => vars'[m].length = 1
              /\ vars'[m].kind # "passed" => \A i \in 0..(vars'[m].length - 1) : <<m, i>> \in DOMAIN store'
  <2>1. CASE m <= first
    <3>1. m \in DOMAIN vars /\ vars'[m] = vars[m]
      BY <1>2, <1>3, <1>10, <2>1
    <3> QED BY <1>8, <3>1 DEF Working, Stored
  <2>2. CASE ~(m <= first)
    <3> DEFINE n == m - first
    <3>1. n \in DOMAIN params /\ vars'[m] = added[n] /\ first + n = m
      BY <1>2, <1>3, <1>10, <2>2
    <3> HIDE DEF n
    <3>2. /\ vars'[m].kind \in {"var", "passed"} /\ vars'[m].kind = params[n].kind
          /\ vars'[m].length = IF vars'[m].kind = "passed" THEN PassedLength ELSE 1
      BY <1>4, <1>9, <3>1
    <3>3. CASE vars'[m].kind = "passed"
      BY <3>2, <3>3
    <3>4. CASE vars'[m].kind # "passed"
      <4>1. n \in scalars /\ vars'[m].length = 1 /\ \A i \in 0..(1 - 1) : i = 0
        BY <3>1, <3>2, <3>4
      <4>2. <<m, 0>> \in DOMAIN store'
        BY <1>6, <1>8, <3>1, <4>1
      <4> QED BY <3>4, <4>1, <4>2
    <3> QED BY <3>3, <3>4
  <2> QED BY <2>1, <2>2
<1>12. Stored'
  BY <1>8, <1>11 DEF Stored
<1>13. visits' = <<>> /\ outcome' = "running"
  BY <1>1 DEF Idle
<1> QED BY <1>1, <1>12, <1>13, IdleAgrees

LEMMA BlockAgrees ==
    ASSUME Working, ScopeInv', OpenBlock \/ CloseBlock \/ EndFunction
    PROVE  AgreeInv'
<1>1. Idle /\ vars' = vars /\ visits' = visits /\ inCall' = inCall /\ mem' = mem /\ store' = store
  BY DEF OpenBlock, CloseBlock, EndFunction
<1>2. visits' = <<>> /\ Stored'
  BY <1>1, StoredSame DEF Idle, Working
<1>3. CASE outcome' = "running"
  BY <1>1, <1>2, <1>3, IdleAgrees
<1>4. CASE outcome' # "running"
  <2>1. outcome' = "built"
    BY <1>1, <1>4 DEF OpenBlock, CloseBlock, EndFunction, Idle
  <2> QED BY <1>2, <2>1, EndAgrees DEF Stored
<1> QED BY <1>3, <1>4

LEMMA StartAgrees ==
    ASSUME Working, ScopeInv', Start
    PROVE  AgreeInv'
<1> DEFINE op == ""
           f == Frame("statement", op)
           C == DOMAIN store
<1>1. /\ Idle /\ Len(open) > 2 /\ visits' = <<f>> /\ inCall' = inCall /\ function' = function
      /\ vars' = vars /\ open' = open /\ mem' = mem /\ store' = store /\ outcome' = outcome
  BY DEF Start
<1> HIDE DEF op
<1>2. function # "none"
  <2>1. Opened
    BY DEF Working, Scoped
  <2>2. Len(open) # 1
    <3> DEFINE n == Len(open)
    <3>1. n \in Nat /\ n > 2
      BY <1>1, <2>1, LenProperties DEF Opened
    <3> HIDE DEF n
    <3>2. n # 1
      BY ONLY <3>1
    <3> QED BY <3>2 DEF n
  <2> QED BY <2>1, <2>2 DEF Opened
<1>3. ~inCall'
  BY <1>1, IdleNotInCall DEF Idle, Working
<1>4. f \in Frames(C) /\ f.node = "statement" /\ f.kids = <<>> /\ f.ready = 0
  <2>1. "statement" \in Nodes /\ op \in Ops
    BY DEF Nodes, Ops, op
  <2>2. <<>> \in Seq(Kids(C)) /\ 0 \in Nat
    OBVIOUS
  <2> HIDE DEF C
  <2> QED BY <2>1, <2>2 DEF Frame, Frames
<1> HIDE DEF f
<1>5. <<f>> \in Seq(Frames(C)) /\ Len(<<f>>) = 1 /\ DOMAIN <<f>> = {1} /\ <<f>>[1] = f /\ <<f>> # <<>>
  <2> HIDE DEF C
  <2>1. <<f>> \in Seq(Frames(C))
    BY <1>4
  <2> QED BY <2>1
<1>6. FrameOK(f, ArrayAt(<<f>>, 1), C, ArrayNames)
  <2>1. Arity(f) = 1
    BY <1>4, ArityParts
  <2>2. FrameOp(f, ArrayNames)
    BY <1>4 DEF FrameOp
  <2>3. Len(f.kids) = 0 /\ DOMAIN f.kids = {}
    BY <1>4
  <2> QED BY <1>4, <2>1, <2>2, <2>3 DEF FrameOK
<1>7. StackOK(<<f>>, C, ArrayNames)
  BY <1>4, <1>5, <1>6 DEF StackOK
<1>8. ~ArrayNext(<<f>>)
  BY <1>4, <1>5 DEF ArrayNext, ArrayAt, PassesArray
<1>9. ArrayNames' = ArrayNames
  BY <1>1, NamesSame
<1>10. Visiting'
  <2>1. StackOK(visits, DOMAIN store, ArrayNames)'
    BY <1>1, <1>7, <1>9
  <2>2. (inCall <=> ArrayNext(visits))'
    BY <1>1, <1>3, <1>8
  <2>3. function' # "none"
    BY <1>1, <1>2
  <2> QED BY <2>1, <2>2, <2>3 DEF Visiting
<1>11. outcome' = "running" /\ Scoped' /\ Stored'
  BY <1>1, StoredSame DEF Idle, Working, ScopeInv
<1> QED BY <1>10, <1>11, RunningAgrees

-----------------------------------------------------------------------------
(* What is built computes what the source says.                            *)
LEMMA InitAgrees ==
    ASSUME Init PROVE AgreeInv
<1> DEFINE g == Cells(0, PassedLength, Given)
<1>1. /\ vars = <<>> /\ visits = <<>> /\ ~inCall /\ store = g /\ mem = store /\ outcome = "running"
  BY DEF Init
<1>2. DOMAIN g = {0} \X (0..(PassedLength - 1)) /\ g \in [DOMAIN g -> Int]
  BY DEF Cells, Given
<1>3. PassedLength \in Int
  BY DEF PassedLength
<1> HIDE DEF g
<1>4. Stored
  <2>1. DOMAIN vars = {}
    BY <1>1
  <2>2. DOMAIN g \subseteq Int \X Int /\ \A i \in 0..(PassedLength - 1) : <<0, i>> \in DOMAIN g
    BY <1>2, <1>3
  <2> QED BY <1>1, <1>2, <2>1, <2>2 DEF Stored
<1>5. Visiting
  BY <1>1 DEF Visiting, StackOK, ArrayNext
<1>6. ExpressionsAgree
  <2>1. Depth = 0
    BY <1>1 DEF Depth
  <2> QED BY <1>1, <2>1 DEF ExpressionsAgree
<1>7. FailsOnlyOnComparisons
  BY <1>1 DEF FailsOnlyOnComparisons
<1> QED BY <1>1, <1>4, <1>5, <1>6, <1>7, InitScoped DEF AgreeInv, ScopeInv

LEMMA NextAgrees ==
    ASSUME AgreeInv, Next PROVE AgreeInv'
<1>1. outcome = "running"
  BY DEF Next, Declare, StartFunction, OpenBlock, CloseBlock, EndFunction, Start, VisitNum, VisitVar, EnterIndex,
         Enter, FinishSingle, LoadOperand, FinishArithmetic, FinishSimple, FinishAssign, FinishIndex,
         FinishArgument, FinishCall, FinishCondition, FinishReturn, FinishStatement, Expressed, Complete, Wants, Idle
<1>2. Working
  BY <1>1 DEF AgreeInv, Working
<1>3. ScopeInv'
  BY <1>2, NextScoped DEF ScopeInv, Working
<1>4. ASSUME NEW decl \in IF InGlobal THEN Globals ELSE Locals, Declare(decl) PROVE AgreeInv'
  <2>1. decl \in Globals \cup Locals
    BY <1>4
  <2> QED BY <1>2, <1>3, <1>4, <2>1, DeclareAgrees
<1>5. ASSUME NEW fun \in Functions, StartFunction(fun) PROVE AgreeInv'
  BY <1>2, <1>3, <1>5, StartFunctionAgrees
<1>6. CASE OpenBlock \/ CloseBlock \/ EndFunction
  BY <1>2, <1>3, <1>6, BlockAgrees
<1>7. CASE Start
  BY <1>2, <1>3, <1>7, StartAgrees
<1>8. ASSUME NEW value \in Numbers, VisitNum(value) PROVE AgreeInv'
  BY <1>2, <1>3, <1>8, VisitNumAgrees
<1>9. ASSUME NEW name \in Names, VisitVar(name) PROVE AgreeInv'
  BY <1>2, <1>3, <1>9, VisitVarAgrees
<1>10. ASSUME NEW name \in Names, EnterIndex(name) PROVE AgreeInv'
  BY <1>2, <1>3, <1>10, EnterIndexAgrees
<1>11. ASSUME NEW node, NEW op, Enter(node, op),
              \/ node \in {"single", "assign"} /\ op = ""
              \/ node = "simple" /\ op \in Relations
              \/ node = "additive" /\ op \in Operators
              \/ node = "mul" /\ op = "mul"
              \/ node = "call" /\ op \in DOMAIN Callee
       PROVE  AgreeInv'
  BY <1>2, <1>3, <1>11, EnterOperandAgrees
<1>12. CASE FinishSingle
  BY <1>2, <1>3, <1>12, FinishSingleAgrees
<1>13. CASE LoadOperand
  BY <1>2, <1>3, <1>13, LoadOperandAgrees
<1>14. ASSUME NEW node \in {"additive", "mul"}, FinishArithmetic(node) PROVE AgreeInv'
  BY <1>2, <1>3, <1>14, FinishArithmeticAgrees
<1>15. CASE FinishSimple
  BY <1>2, <1>3, <1>15, FinishSimpleAgrees
<1>16. CASE FinishAssign
  BY <1>2, <1>3, <1>16, FinishAssignAgrees
<1>17. CASE FinishIndex
  BY <1>2, <1>3, <1>17, FinishIndexAgrees
<1>18. CASE FinishArgument
  BY <1>2, <1>3, <1>18, FinishArgumentAgrees
<1>19. CASE FinishCall
  BY <1>2, <1>3, <1>19, FinishCallAgrees
<1>20. CASE FinishCondition
  BY <1>2, <1>3, <1>20, FinishConditionAgrees
<1>21. CASE FinishReturn
  BY <1>2, <1>3, <1>21, FinishReturnAgrees
<1>22. CASE FinishStatement
  BY <1>2, <1>3, <1>22, FinishStatementAgrees
<1> QED BY <1>4, <1>5, <1>6, <1>7, <1>8, <1>9, <1>10, <1>11, <1>12, <1>13, <1>14, <1>15, <1>16, <1>17,
           <1>18, <1>19, <1>20, <1>21, <1>22 DEF Next

\* The inductive invariant, of scopes, memory and visitors.
LEMMA SpecAgrees == Spec => []AgreeInv
<1>1. Init => AgreeInv
  BY InitAgrees
<1>2. AgreeInv /\ [Next]_evars => AgreeInv'
  <2>1. ASSUME AgreeInv, UNCHANGED evars PROVE AgreeInv'
    <3>1. /\ scope' = scope /\ vars' = vars /\ open' = open /\ blocks' = blocks /\ function' = function
          /\ visits' = visits /\ mem' = mem /\ store' = store /\ outcome' = outcome
      BY <2>1 DEF evars, svars
    <3>2. inCall' = inCall
      BY <2>1 DEF evars
    <3>3. CASE outcome = "running"
      <4>1. Scoped'
        BY <2>1, <3>1, <3>3, ElsewhereScoped DEF AgreeInv, Elsewhere
      <4>2. Stored'
        BY <2>1, <3>1, <3>3, StoredSame DEF AgreeInv
      <4>3. ArrayNames' = ArrayNames
        BY <3>1, NamesSame
      <4>4. Visiting'
        <5>1. Visiting
          BY <2>1, <3>3 DEF AgreeInv
        <5> QED BY <3>1, <3>2, <4>3, <5>1 DEF Visiting
      <4> QED BY <3>1, <3>3, <4>1, <4>2, <4>4, RunningAgrees
    <3>4. CASE outcome # "running"
      <4>1. Depth' = Depth /\ Top' = Top /\ \A k : IR(k)' = IR(k) /\ Meaning(k)' = Meaning(k)
        BY <3>1 DEF Depth, Top, IR, Meaning
      <4>2. ExpressionsAgree'
        BY <2>1, <3>1, <4>1 DEF AgreeInv, ExpressionsAgree, Agrees, AsInt
      <4>3. FailsOnlyOnComparisons'
        BY <2>1, <3>1, <4>1 DEF AgreeInv, FailsOnlyOnComparisons
      <4> QED BY <3>1, <3>4, <4>2, <4>3 DEF AgreeInv
    <3> QED BY <3>3, <3>4
  <2> QED BY <2>1, NextAgrees
<1> QED BY <1>1, <1>2, PTL DEF Spec

\* Every load, conversion, comparison, index, argument and assignment that the
\* visitors build computes what the source says: memory is the same, and each
\* value a visitor holds.  The program exits only where C lets it.
THEOREM BuiltAgrees == Spec => []ExpressionsAgree
<1>1. AgreeInv => ExpressionsAgree
  BY DEF AgreeInv
<1> QED BY <1>1, SpecAgrees, PTL

\* No constructor's assertion fails, and no -1 is computed for a 1, but where
\* the result of a comparison is an operand, an index or returned.
THEOREM FailureExplained == Spec => []FailsOnlyOnComparisons
<1>1. AgreeInv => FailsOnlyOnComparisons
  BY DEF AgreeInv
<1> QED BY <1>1, SpecAgrees, PTL
=============================================================================
