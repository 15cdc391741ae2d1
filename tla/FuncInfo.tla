------------------------------ MODULE FuncInfo ------------------------------
(***************************************************************************)
(* Which functions are pure (src/passes/FuncInfo.cpp): a function that     *)
(* touches memory other than its own frame is not, and neither is one that *)
(* calls such a function.  DeadCode removes unused calls of pure functions *)
(* and LICM moves them.                                                    *)
(*                                                                         *)
(* An address is the chain of the values it is computed from, outermost    *)
(* first: get_first_addr follows it through getelementptr.  The deque      *)
(* worklist is a set: its order cannot be observed in the result.          *)
(***************************************************************************)
EXTENDS Naturals, Sequences

CONSTANTS
    Funcs,      \* the functions of the module
    Shapes,     \* what a function may look like, by its own code only
    Main        \* the function called main

\* An alloca, a global and an argument have no address operand to follow.
Leaf == {"alloca", "global", "argument"}
Address(a) ==
    /\ a \in Seq({"gep", "load"} \cup Leaf) /\ a # <<>>
    /\ \A i \in DOMAIN a : a[i] \in Leaf <=> i = Len(a)

ASSUME FuncInfoAssumption ==
    /\ Main \in Funcs
    /\ \A s \in Shapes : /\ s.declaration \in BOOLEAN /\ s.array \in BOOLEAN
                         /\ \A a \in s.loads \cup s.stores : Address(a)

VARIABLES
    shape,      \* per function: declaration, array parameters, and the
                \* addresses of its loads and of its stores
    calls,      \* <<f, g>>: g has a use in an instruction of f
    unmarked,   \* functions trivial_mark has not seen yet
    is_pure,
    worklist

fvars == <<shape, calls, unmarked, is_pure, worklist>>

InfoInit ==
    /\ shape \in [Funcs -> Shapes]
    /\ calls \in SUBSET (Funcs \X Funcs)
    /\ \A f, g \in Funcs : <<f, g>> \in calls => ~shape[f].declaration
    /\ ~shape[Main].declaration
    /\ unmarked = Funcs
    /\ is_pure = [f \in Funcs |-> FALSE]
    /\ worklist = {}

-----------------------------------------------------------------------------
\* Mutants: a getelementptr is not followed; loads are followed too.
IsLocalFlat(a) == a[1] = "alloca"
IsLocalThroughLoads(a) == a[Len(a)] = "alloca"

\* is_local_load, is_local_store: get_first_addr ends at an alloca.
IsLocal(a) == \E i \in DOMAIN a : a[i] = "alloca" /\ \A j \in 1..(i - 1) : a[j] = "gep"

\* The outcome of trivial_mark.
TriviallyPure(f) ==
    /\ ~shape[f].declaration /\ f # Main
    /\ ~shape[f].array
    /\ \A a \in shape[f].loads \cup shape[f].stores : IsLocal(a)

\* The first loop of run.
TrivialMark(f) ==
    /\ f \in unmarked
    /\ unmarked' = unmarked \ {f}
    /\ is_pure' = [is_pure EXCEPT ![f] = TriviallyPure(f)]
    /\ worklist' = IF TriviallyPure(f) THEN worklist ELSE worklist \cup {f}
    /\ UNCHANGED <<shape, calls>>

\* Mutant: callers that are already impure are queued again.
PureCallersAll(f) == {g \in Funcs : <<g, f>> \in calls}

PureCallers(f) == {g \in Funcs : <<g, f>> \in calls /\ is_pure[g]}

\* process: the functions that use f lose their purity and are queued.
Process(f) ==
    /\ unmarked = {} /\ f \in worklist
    /\ is_pure' = [g \in Funcs |-> is_pure[g] /\ g \notin PureCallers(f)]
    /\ worklist' = (worklist \ {f}) \cup PureCallers(f)
    /\ UNCHANGED <<shape, calls, unmarked>>

InfoNext == \E f \in Funcs : TrivialMark(f) \/ Process(f)

InfoSpec == InfoInit /\ [][InfoNext]_fvars

-----------------------------------------------------------------------------
\* The types; and what is queued is known to be impure.
FuncInfoTypeOK ==
    /\ shape \in [Funcs -> Shapes] /\ calls \subseteq Funcs \X Funcs
    /\ unmarked \subseteq Funcs
    /\ is_pure \in [Funcs -> BOOLEAN]
    /\ worklist \subseteq {f \in Funcs : ~is_pure[f]}

Done == unmarked = {} /\ worklist = {}

\* The address stays inside the frame: only pointer arithmetic on an alloca.
InOwnFrame(a) == /\ a[Len(a)] = "alloca"
                 /\ \A i \in 1..(Len(a) - 1) : a[i] = "gep"

\* The reason that FuncInfo.hpp:12 gives in the function itself: it writes a
\* global variable or an array passed to it.
WritesOutside(f) == \E a \in shape[f].stores : ~InOwnFrame(a)

\* The reasons it does not give, and for which the code calls a function impure
\* all the same: no code to be seen, the name main, an array taken though only
\* read, and a load from anywhere but the own frame.
StricterThanSaid(f) ==
    \/ shape[f].declaration \/ f = Main \/ shape[f].array
    \/ \E a \in shape[f].loads : ~InOwnFrame(a)

\* In the end a pure function neither writes nor reads beyond its frame nor
\* calls a function that is not pure: by induction over calls it does not at
\* any depth.  The calls DeadCode takes away must not write; a call that LICM
\* moves in front of a loop must not read what the loop writes either.
PuritySound ==
    Done => \A f \in Funcs :
                is_pure[f] => /\ ~WritesOutside(f) /\ ~StricterThanSaid(f)
                              /\ \A g \in Funcs : <<f, g>> \in calls => is_pure[g]

\* Nothing is called impure without a reason.  FuncInfo.hpp:12 would have it that
\* the impure functions are the least set that has those which write and is
\* closed under callers; that is so but for the named reasons of the code.
PurityComplete ==
    Done => \A S \in SUBSET Funcs :
                /\ \A f \in Funcs : WritesOutside(f) \/ StricterThanSaid(f) => f \in S
                /\ \A f, g \in Funcs : <<f, g>> \in calls /\ g \in S => f \in S
                => \A f \in Funcs : is_pure[f] \/ f \in S

\* Each function is queued at most once, recursion or not: one that leaves the
\* worklist never comes back.
QueuedOnce ==
    [][ \A f \in Funcs : unmarked = {} /\ f \notin worklist /\ ~is_pure[f]
                            => f \notin worklist' ]_fvars

\* The propagation ends.
PropagationEnds == <>Done
=============================================================================
