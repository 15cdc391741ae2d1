----------------------------- MODULE HoistedRun -----------------------------
(***************************************************************************)
(* LICM on the functions CminusfBuilder builds, and the function with      *)
(* moved instructions run next to the original one.  The run follows the   *)
(* original graph; where the new graph takes it through a preheader, what  *)
(* was moved there is computed.  There are two kinds of data, and Undef.   *)
(***************************************************************************)
EXTENDS BlockBuilder

CONSTANTS Kind, Undef

VARIABLES hphase, phis, uses, loops, started, path, invariant,
          before,   \* the function before LICM
          pc,       \* <<block, instruction number>> of before, <<0, 0>> if not started
          memory,   \* the global that loads and stores access
          vals,     \* per value, what the original computed last
          regs      \* the same in the new function

hvars == <<hphase, phis, uses, loops, started, path, invariant>>
xvars == <<pc, memory, vals, regs>>
vars == <<program, nodes, cfg, cur, todo, outcome, hvars, before, xvars>>

Pass == INSTANCE LICM

Datum == {0, 1}

HInit ==
    /\ Init /\ Pass!HoistIdle
    /\ before = <<>> /\ pc = <<0, 0>> /\ memory = 0 /\ vals = <<>> /\ regs = <<>>

Build == BuildStep /\ UNCHANGED <<hvars, before, xvars>>

-----------------------------------------------------------------------------
(* The function as Mem2Reg leaves it, and its loops as LoopDetection finds *)
(* them: the run analyses shows that it finds these.                       *)
LatchesOf(d, h) == {p \in Blocks(cfg) : h \in Members(Targets(cfg, p)) /\ <<h, p>> \in d}

LoopBlocks(d, h) ==
    LET back == [b \in Blocks(cfg) |-> IF b = h THEN {} ELSE Members(cfg.preds[b])]
    IN  {h} \cup Closure(cfg, LatchesOf(d, h), back)

AnyOrder(S) == {s \in [1..Cardinality(S) -> S] : Members(s) = S}

\* The order of blocks_ in a loop is never looked at.
Ascending(S) ==
    [k \in 1..Cardinality(S) |->
        CHOOSE b \in S : Cardinality({a \in S : a < b}) = k - 1]

\* heads is in the order of loops_: inner loops first.
LoopsOn(d, heads) ==
    LET in(k) == LoopBlocks(d, heads[k])
        around(k) == {j \in DOMAIN heads : j # k /\ heads[k] \in in(j)}
        parent(k) == IF around(k) = {} THEN Pass!NoLoop
                     ELSE CHOOSE j \in around(k) : \A i \in around(k) : in(j) \subseteq in(i)
        isSub(k, j) == parent(j) = k
    IN  [k \in DOMAIN heads |->
            [header |-> heads[k], latches |-> LatchesOf(d, heads[k]),
             blocks |-> Ascending(in(k)),
             subs   |-> SelectSeq([j \in DOMAIN heads |-> j], LAMBDA j : isSub(k, j)),
             parent |-> parent(k)]]

\* Operands: "calc" takes the value before it in its block, "step" the phi of
\* the innermost loop it is in.
Value(i) == Kind[i[1]] \in {"load", "calc", "pure"}
OperandsAt(ls, b, k) ==
    LET what == cfg.code[b][k][1]
        around == {l \in DOMAIN ls : b \in Members(ls[l].blocks)}
        inner == CHOOSE l \in around : \A j \in around : l <= j
    IN  CASE what = "calc" /\ k > 1 /\ Value(cfg.code[b][k - 1]) -> {Pass!Val(cfg.code[b][k - 1][2])}
          [] what = "step" /\ around # {} -> {Pass!Phi(ls[inner].header)}
          [] OTHER -> {}

StartHoisting ==
    /\ outcome = "done" /\ hphase = "idle" /\ CleanPreds(cfg)
    /\ LET d == Dominance(cfg)
           heads == {h \in Reachable(cfg) : LatchesOf(d, h) # {}}
       IN  \E s \in AnyOrder(heads) :
              /\ \A i, j \in DOMAIN s : s[i] \in LoopBlocks(d, s[j]) => i <= j
              /\ loops' = LoopsOn(d, s)
              /\ phis' = [b \in Blocks(cfg) |->
                            IF b \in heads
                            THEN [k \in DOMAIN cfg.preds[b] |->
                                     <<<<"from", cfg.preds[b][k]>>, cfg.preds[b][k]>>]
                            ELSE <<>>]
    /\ uses' = [id \in 1..nodes |->
                  UNION {OperandsAt(loops', at[1], at[2]) :
                     at \in UNION {{<<b, k>> : k \in {j \in DOMAIN cfg.code[b] :
                                       cfg.code[b][j][2] = id}} : b \in Blocks(cfg)}}]
    /\ hphase' = "traverse"
    /\ before' = cfg
    /\ UNCHANGED <<program, nodes, cfg, cur, todo, outcome, started, path, invariant, xvars>>

Hoisting ==
    /\ Pass!HoistStep
    /\ UNCHANGED <<program, nodes, cur, todo, outcome, before, xvars>>

-----------------------------------------------------------------------------
ValueNames == {Pass!Val(k) : k \in 1..nodes} \cup {Pass!Phi(b) : b \in Blocks(before)}

Start ==
    /\ hphase = "done" /\ pc = <<0, 0>>
    /\ pc' = <<Entry, 1>>
    /\ vals' = [x \in ValueNames |-> Undef]
    /\ regs' = [x \in ValueNames |-> Undef]
    /\ UNCHANGED <<program, nodes, cfg, cur, todo, outcome, hvars, before, memory>>

\* What instruction i computes when its operands are in r.
Result(i, r) ==
    CASE Kind[i[1]] = "load" -> memory
      [] Kind[i[1]] = "calc" /\ uses[i[2]] # {} -> r[CHOOSE x \in uses[i[2]] : TRUE]
      [] OTHER -> 0

\* One instruction of the original.  Stores change the global, impure calls
\* may do so; the new function computes what it still has in this place.
Execute(d) ==
    /\ pc[1] # 0 /\ pc[2] <= Len(before.code[pc[1]])
    /\ LET i == before.code[pc[1]][pc[2]]
       IN  /\ memory' = CASE Kind[i[1]] = "store"  -> 1 - memory
                          [] Kind[i[1]] = "impure" -> d
                          [] OTHER                 -> memory
           /\ Kind[i[1]] # "impure" => d = 0
           /\ vals' = [vals EXCEPT ![Pass!Val(i[2])] = Result(i, vals)]
           /\ regs' = IF i \in Members(cfg.code[pc[1]])
                      THEN [regs EXCEPT ![Pass!Val(i[2])] = Result(i, regs)] ELSE regs
    /\ pc' = <<pc[1], pc[2] + 1>>
    /\ UNCHANGED <<program, nodes, cfg, cur, todo, outcome, hvars, before>>

\* The values after a preheader's instructions.
Through(code, r) ==
    LET after[k \in 0..Len(code)] ==
            IF k = 0 THEN r ELSE [after[k - 1] EXCEPT ![Pass!Val(code[k][2])] = Result(code[k], after[k - 1])]
    IN  after[Len(code)]

\* Along the j-th branch.  The phi of the target gets the datum d, in the new
\* function if the pair for the block it comes from is the right one.
Branch(j, d) ==
    /\ pc[1] # 0 /\ pc[2] = Len(before.code[pc[1]]) + 1
    /\ j \in DOMAIN Targets(before, pc[1])
    /\ LET c    == Targets(before, pc[1])[j]
           via  == Targets(cfg, pc[1])[j]
           last == IF via = c THEN pc[1] ELSE via
           r    == IF via = c THEN regs ELSE Through(cfg.code[via], regs)
       IN  /\ phis[c] = <<>> => d = 0
           /\ pc' = <<c, 1>>
           /\ vals' = IF phis[c] = <<>> THEN vals ELSE [vals EXCEPT ![Pass!Phi(c)] = d]
           /\ regs' = IF phis[c] = <<>> THEN r
                      ELSE [r EXCEPT ![Pass!Phi(c)] =
                               IF <<<<"from", pc[1]>>, last>> \in Members(phis[c])
                               THEN d ELSE Undef]
    /\ UNCHANGED <<program, nodes, cfg, cur, todo, outcome, hvars, before, memory>>

Run == \/ Start
       \/ \E d \in Datum : Execute(d)
       \/ \E j \in {1, 2}, d \in Datum : Branch(j, d)

HNext == Build \/ StartHoisting \/ Hoisting \/ Run

HSpec == HInit /\ [][HNext]_vars

-----------------------------------------------------------------------------
NothingInvariantLeft == Pass!NothingInvariantLeft
PhisFollowEdges == Pass!PhisFollowEdges

\* With every preheader passed over, the branches are what they were, and each
\* instruction is still there exactly once.
PreheadersTransparent ==
    hphase = "done" =>
        LET past(c) == IF c <= before.n THEN c ELSE Targets(cfg, c)[1]
            times(i) == {<<b, k>> \in Blocks(cfg) \X (1..nodes) :
                            k <= Len(cfg.code[b]) /\ cfg.code[b][k] = i}
        IN  /\ \A b \in Blocks(before) :
                  LET t == Targets(cfg, b)
                  IN  [j \in DOMAIN t |-> past(t[j])] = Targets(before, b)
            /\ \A i \in UNION {Members(before.code[b]) : b \in Blocks(before)} :
                  Cardinality(times(i)) = 1

\* The loops that instruction id has left and that change the global.
Clobbering(id) ==
    LET ids(B) == {i[2] : i \in UNION {Members(before.code[b]) : b \in B}}
        now == {b \in Blocks(cfg) : \E i \in Members(cfg.code[b]) : i[2] = id}
        was(l) == Members(loops[l].blocks) \cap Blocks(before)
        changes(l) == \E b \in was(l) : \E i \in Members(before.code[b]) :
                         Kind[i[1]] \in {"store", "impure"}
    IN  {l \in DOMAIN loops : id \in ids(was(l)) /\ now \cap Members(loops[l].blocks) = {}
                                /\ changes(l)}

\* A load that left such a loop, or a value computed from one.
Stale(id) ==
    LET load(k) == \E b \in Blocks(before) : \E i \in Members(before.code[b]) :
                      i[2] = k /\ Kind[i[1]] = "load"
        stale[k \in 1..nodes] ==
            \/ load(k) /\ Clobbering(k) # {}
            \/ \E j \in 1..nodes : Pass!Val(j) \in uses[k] /\ stale[j]
    IN  stale[id]

Executed == before.code[pc[1]][pc[2] - 1][2]

\* Whatever the original computes, the new function has computed too, except
\* for loads that were moved out of a loop that changes what they load.
StableValuesSame ==
    pc[1] # 0 =>
        /\ phis[pc[1]] # <<>> => regs[Pass!Phi(pc[1])] = vals[Pass!Phi(pc[1])]
        /\ pc[2] > 1 /\ ~Stale(Executed) => regs[Pass!Val(Executed)] = vals[Pass!Val(Executed)]

\* The comment at LICM.cpp:112: loads of globals are treated with care, so
\* they too have the value they had in the loop.
AllValuesSame ==
    pc[1] # 0 /\ pc[2] > 1 => regs[Pass!Val(Executed)] = vals[Pass!Val(Executed)]
=============================================================================
