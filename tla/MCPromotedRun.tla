--------------------------- MODULE MCPromotedRun ---------------------------
(* Two local variables and a global: definitions, a copy, and uses.        *)
EXTENDS PromotedRun

CONSTANTS varx, vary, global, none, undef

OneVar == {varx}
TwoVars == {varx, vary}
Cells == {global}

Uses(l, s) == [load |-> l, store |-> s]

\* One variable, defined, and saved in a global.
AccessOne ==
    [w \in {"def", "save"} |->
        IF w = "def" THEN Uses(none, varx) ELSE Uses(varx, global)]

PayloadTwo == {"def", "copy", "back", "save"}

\* Two variables, copied into each other.
AccessTwo ==
    [w \in PayloadTwo |->
        CASE w = "def"  -> Uses(none, varx)
          [] w = "save" -> Uses(varx, global)
          [] w = "copy" -> Uses(varx, vary)
          [] w = "back" -> Uses(vary, varx)]

PayloadOne == {"def", "save"}
=============================================================================
