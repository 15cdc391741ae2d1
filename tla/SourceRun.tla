----------------------------- MODULE SourceRun -----------------------------
(***************************************************************************)
(* What the statements of C-minus mean: the structured execution of the    *)
(* program tree that BlockBuilder visits, next to an execution of the      *)
(* control-flow graph it built.  Both are driven by the same answers to    *)
(* the tests; the builder is right if they always agree on what comes      *)
(* next.                                                                   *)
(***************************************************************************)
EXTENDS BlockBuilder

VARIABLES
    konts,  \* source side: positions in statement lists, innermost first
    stage,  \* how far the current statement is: "index", "error" or "main"
    pc      \* graph side: <<block, index of the next instruction>>

rvars == <<konts, stage, pc>>
vars == <<program, nodes, cfg, cur, todo, outcome, konts, stage, pc>>

NotStarted == konts = <<>> /\ pc = <<0, 0>>

Statement(ks) == program[Head(ks).list][Head(ks).pos]
Beyond(ks) == <<[Head(ks) EXCEPT !.pos = @ + 1]>> \o Tail(ks)

\* Pass by what does nothing, and leave the lists that are finished; finishing
\* the body of a loop returns to the loop statement, which tests again.
RECURSIVE Settle(_)
Settle(ks) ==
    IF ks = <<>> THEN ks
    ELSE IF Head(ks).pos > Len(program[Head(ks).list]) THEN Settle(Tail(ks))
    ELSE IF Statement(ks).is \in Silent THEN Settle(Beyond(ks))
    ELSE ks

FirstStage(ks) ==
    IF ks # <<>> /\ Statement(ks).index THEN "index" ELSE "main"

Into(l, ks) == <<[list |-> l, pos |-> 1]>> \o ks

\* What the source does next.
SourceNext ==
    IF konts = <<>> THEN <<"return">>
    ELSE LET s == Statement(konts)
         IN  IF stage = "index" THEN <<"test", IndexTest(s.id)>>
             ELSE IF stage = "error" THEN <<"effect", IndexError(s.id)>>
             ELSE CASE s.is = "expr"   -> <<"effect", Effect(s.does, s.id)>>
                    [] s.is = "return" -> <<"return">>
                    [] OTHER           -> <<"test", CondTest(s.id)>>

\* What the graph does next; an unconditional branch does nothing.
RECURSIVE Follow(_)
Follow(at) ==
    IF at[2] > Len(cfg.code[at[1]]) /\ cfg.term[at[1]].kind = "br"
    THEN Follow(<<cfg.term[at[1]].to, 1>>)
    ELSE at

GraphNext ==
    LET b == pc[1]
    IN  IF pc[2] <= Len(cfg.code[b]) THEN <<"effect", cfg.code[b][pc[2]]>>
        ELSE IF cfg.term[b].kind = "cond" THEN <<"test", cfg.term[b].test>>
        ELSE <<"return">>

-----------------------------------------------------------------------------
RunInit == Init /\ konts = <<>> /\ stage = "main" /\ pc = <<0, 0>>

Build == BuildStep /\ UNCHANGED rvars

Start ==
    /\ outcome = "done" /\ NotStarted
    /\ konts' = Settle(Into(1, <<>>))
    /\ stage' = FirstStage(konts')
    /\ pc' = Follow(<<Entry, 1>>)
    /\ UNCHANGED bvars

\* The source goes to the statement after the current one, or into list l.
GoTo(ks) == konts' = Settle(ks) /\ stage' = FirstStage(konts')
Stay(st) == konts' = konts /\ stage' = st

SourceEffect ==
    IF stage = "error" THEN Stay("main") ELSE GoTo(Beyond(konts))

SourceTest(yes) ==
    LET s == Statement(konts)
    IN  IF stage = "index" THEN Stay(IF yes THEN "main" ELSE "error")
        ELSE IF s.is = "while" /\ yes THEN GoTo(Into(s.do, konts))
        ELSE IF s.is \in {"if", "ifelse"} /\ yes THEN GoTo(Into(s.then, Beyond(konts)))
        ELSE IF s.is = "ifelse" THEN GoTo(Into(s.else, Beyond(konts)))
        ELSE GoTo(Beyond(konts))

RunEffect ==
    /\ ~NotStarted /\ GraphNext[1] = "effect" /\ SourceNext[1] = "effect"
    /\ pc' = Follow(<<pc[1], pc[2] + 1>>)
    /\ SourceEffect
    /\ UNCHANGED bvars

RunTest(yes) ==
    /\ ~NotStarted /\ GraphNext[1] = "test" /\ SourceNext[1] = "test"
    /\ LET t == cfg.term[pc[1]]
       IN  pc' = Follow(<<IF yes THEN t.yes ELSE t.no, 1>>)
    /\ SourceTest(yes)
    /\ UNCHANGED bvars

Next ==
    \/ Build
    \/ Start
    \/ RunEffect
    \/ \E yes \in BOOLEAN : RunTest(yes)

RunSpec == RunInit /\ [][Next]_vars

-----------------------------------------------------------------------------
\* The graph does what the source says, in the same order, under every outcome
\* of every test: the visitors wired the blocks of if, else, while, return and
\* index checks to each other as the statements nest.
GraphFollowsSource == ~NotStarted => GraphNext = SourceNext
=============================================================================
