--------------------------- MODULE MCFunctionRun ----------------------------
(* Functions of up to three values; the long array takes the frame beyond   *)
(* the reach of 12 bits.                                                    *)
EXTENDS FunctionRun

MCSizes == [type \in {"i1", "i32", "float", "i32*", "float*", "array*"} |-> WidthOf(type)]
=============================================================================
