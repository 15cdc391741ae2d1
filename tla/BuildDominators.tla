-------------------------- MODULE BuildDominators --------------------------
(***************************************************************************)
(* The dominator analysis on the functions CminusfBuilder builds: what     *)
(* Mem2Reg does first.                                                     *)
(***************************************************************************)
EXTENDS BlockBuilder

VARIABLES phase, at, changed, post, idom, frontier, path, left, right, dfsOrder

Dom == INSTANCE Dominators

dvars == <<phase, at, changed, post, idom, frontier, path, left, right, dfsOrder>>

vars == <<program, nodes, cfg, cur, todo, outcome, dvars>>

DInit == Init /\ Dom!Idle

Build == BuildStep /\ UNCHANGED dvars

Analyse == outcome = "done" /\ Dom!Analyse /\ UNCHANGED bvars

DNext == Build \/ Analyse

DSpec == DInit /\ [][DNext]_vars

-----------------------------------------------------------------------------
IdomClimbs == Dom!IdomClimbs
IdomCorrect == Dom!IdomCorrect
FrontierCorrect == Dom!FrontierCorrect
IsDominateCorrect == Dom!IsDominateCorrect

\* The analysis fails only on a function in which a block that control can
\* reach has a predecessor that it cannot; the builder makes one behind an if
\* whose branches both return.
LostOnlyOnDeadPreds == phase = "lost" => ~CleanPreds(cfg)
=============================================================================
