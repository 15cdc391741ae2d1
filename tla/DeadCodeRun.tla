---------------------------- MODULE DeadCodeRun ----------------------------
(***************************************************************************)
(* DeadCode::run: FuncInfo first finds out which functions of the module   *)
(* are pure, then dead code is eliminated in a function that calls them.   *)
(*                                                                         *)
(* Of the module only the answers of is_pure_function are used later, and  *)
(* of these only which instructions are critical: Answer and StartRounds   *)
(* put one fixed module, and no answers, in the place of what is not used  *)
(* any more, so that the function is not drawn anew for every module.      *)
(***************************************************************************)
EXTENDS DeadCode, FuncInfo

VARIABLES
    pass,       \* "info", "answers" or "dead code"
    pure        \* the functions is_pure_function accepts, while pass is "answers"

rvars == <<home, critical, succ, ops, wait_del, left, blocks, pred, ins, marked, work, changed,
           phase, shape, calls, unmarked, is_pure, worklist, pass, pure>>

RunInit ==
    /\ InfoInit
    /\ home = [i \in Ins |-> EntryBlock] /\ ops = [i \in Ins |-> {}]
    /\ critical = {} /\ succ = [b \in Blocks |-> {}]
    /\ blocks = {} /\ pred = [b \in Blocks |-> {}] /\ ins = {}
    /\ marked = {} /\ work = {} /\ wait_del = {} /\ left = {}
    /\ changed = FALSE /\ phase = "idle"
    /\ pass = "info" /\ pure = {}

\*\* The analysis: func_info->run().
Analyse == pass = "info" /\ InfoNext /\ UNCHANGED <<dvars, pass, pure>>

Answer ==
    /\ pass = "info" /\ Done
    /\ pure' = {f \in Funcs : is_pure[f]}
    /\ shape' = [f \in Funcs |-> CHOOSE s \in Shapes : s.array]
    /\ is_pure' = [f \in Funcs |-> FALSE]
    /\ calls' = {}
    /\ pass' = "answers"
    /\ UNCHANGED <<dvars, unmarked, worklist>>

\* What an instruction may be: the call of a function, a branch, return or store,
\* or something else.
Kinds == Funcs \cup {"br, ret or store", "other"}

\* is_critical.
IsCritical(kind) == kind = "br, ret or store" \/ (kind \in Funcs /\ kind \notin pure)

\* The first round begins.
StartRounds ==
    /\ pass = "answers"
    /\ \E kind \in [Ins -> Kinds] : critical' = {i \in Ins : IsCritical(kind[i])}
    /\ home' \in [Ins -> Blocks] /\ ops' \in [Ins -> SUBSET Ins]
    /\ succ' \in [Blocks -> SUBSET (Blocks \ {EntryBlock})]
    /\ blocks' = Blocks /\ ins' = Ins
    /\ pred' = [b \in Blocks |-> {p \in Blocks : b \in succ'[p]}]
    /\ phase' = "clear"
    /\ pass' = "dead code" /\ pure' = {}
    /\ UNCHANGED <<marked, work, wait_del, left, changed, fvars>>

Round == pass = "dead code" /\ Eliminate /\ UNCHANGED <<fvars, pass, pure>>

Run == Analyse \/ Answer \/ StartRounds \/ Round

\* One thread runs the pass to its end.
FairRun == RunInit /\ [][Run]_rvars /\ WF_rvars(Run)
=============================================================================
