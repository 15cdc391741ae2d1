--------------------------- MODULE MCDeadCodeRun ---------------------------
(* Three functions, main among them, with every call graph.  A function is *)
(* a declaration, takes an array, uses its own frame only, writes to where *)
(* an address it loaded points, or reads a global.  Then every use graph   *)
(* of the instructions of Ins, spread over Blocks in every way, with every *)
(* flow graph on Blocks.                                                   *)
EXTENDS DeadCodeRun

Code(loads, stores) ==
    [declaration |-> FALSE, array |-> FALSE, loads |-> loads, stores |-> stores]
Declared == [declaration |-> TRUE, array |-> FALSE, loads |-> {}, stores |-> {}]
TakesArray == [declaration |-> FALSE, array |-> TRUE, loads |-> {}, stores |-> {}]

MCShapes ==
    {Declared, TakesArray,
     Code({<<"alloca">>, <<"gep", "alloca">>}, {<<"gep", "alloca">>}),
     Code({<<"alloca">>}, {<<"gep", "load", "alloca">>}),
     Code({<<"gep", "global">>}, {<<"alloca">>})}
=============================================================================
