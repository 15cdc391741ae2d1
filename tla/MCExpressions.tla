---------------------------- MODULE MCExpressions ----------------------------
(* Two names, each of an integer or of floats, as global, parameter and    *)
(* local; an array may be empty.                                           *)
EXTENDS Expressions

Decl(name, type, kind, length) == [name |-> name, type |-> type, kind |-> kind, length |-> length]

MCGlobals == {Decl("x", "i32", "var", 1), Decl("a", "float", "array", 2)}

MCLocals ==
    {Decl("x", "float", "var", 1), Decl("a", "i32", "array", 2), Decl("a", "float", "array", 0)}

MCFunctions ==
    {[returns |-> "i32", params |-> <<Decl("x", "i32", "var", 1)>>],
     [returns |-> "float",
      params |-> <<Decl("a", "i32", "passed", PassedLength), Decl("x", "float", "var", 1)>>]}

MCNumbers == {Int32(2), Value("float", 8)}
=============================================================================
