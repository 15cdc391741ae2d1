----------------------------- MODULE BuildLoops -----------------------------
(***************************************************************************)
(* LoopDetection on the functions CminusfBuilder builds, with the answers  *)
(* that the dominator analysis has given for the same function.            *)
(***************************************************************************)
EXTENDS BuildDominators

VARIABLES lphase, dom, rest, loops, inLoop, work

Detection == INSTANCE LoopDetection

lvars == <<lphase, dom, rest, loops, inLoop, work>>

LInit == DInit /\ Detection!LoopIdle

Analysing == DNext /\ UNCHANGED lvars

\* run_on_func takes the numbering of the dominator tree backwards.
Start ==
    /\ phase = "done"
    /\ LET d == {e \in Members(dfsOrder) \X Members(dfsOrder) : Dom!IsDominate(e[1], e[2])}
           postOrder == [i \in DOMAIN dfsOrder |-> dfsOrder[Len(dfsOrder) + 1 - i]]
       IN  Detection!StartDetection(d, postOrder)
    /\ UNCHANGED <<bvars, dvars>>

Detect == Detection!Detect /\ UNCHANGED <<bvars, dvars>>

LNext == Analysing \/ Start \/ Detect

LSpec == LInit /\ [][LNext]_<<vars, lvars>> /\ WF_<<vars, lvars>>(LNext)

-----------------------------------------------------------------------------
\* While the dominator analysis runs, intersect climbs; when it has ended,
\* before its answers are used, idom and is_dominate answer dominance by paths.
TreeCorrect == IdomClimbs /\ (lphase = "idle" => IdomCorrect /\ IsDominateCorrect)

\* At the same moment the frontiers are those of dominance by paths.
FrontiersCorrect == lphase = "idle" => FrontierCorrect

LoopsNatural == Detection!LoopsNatural
NestingExact == Detection!NestingExact

\* Every function built gets its loops, or is one on which the dominator
\* analysis fails; the walk over the blocks of a loop never goes round.
AnalysesEnd ==
    /\ (outcome = "done") ~> (phase = "lost" \/ lphase = "found")
    /\ Detection!WalkProgresses

\* The functions built have no loops but these: every cycle has a block that
\* dominates the rest of it.
LoopsReducible == lphase = "found" => CyclesThroughDominators

\* A loop is entered from outside through unconditional branches only: LICM
\* redirects them by overwriting operand 0, which of a conditional branch is
\* the condition.
EntriesUnconditional ==
    lphase = "found" =>
        \A l \in DOMAIN loops :
            \A p \in Members(cfg.preds[loops[l].header]) \ loops[l].latches :
                cfg.term[p] = JumpTerm(loops[l].header)
=============================================================================
