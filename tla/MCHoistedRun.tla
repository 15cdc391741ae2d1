--------------------------- MODULE MCHoistedRun ---------------------------
(* Loops over one global that is loaded, stored and changed by calls.      *)
EXTENDS HoistedRun

CONSTANTS undef

MCKind == [w \in {"load", "store", "calc", "step", "pure", "impure"} |->
              IF w = "step" THEN "calc" ELSE w]

AllPayload == DOMAIN MCKind
=============================================================================
