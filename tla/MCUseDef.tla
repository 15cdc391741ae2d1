------------------------------ MODULE MCUseDef ------------------------------
(* UseDef on a phi, one other instruction, two blocks and a constant.      *)
EXTENDS UseDef

CONSTANTS phi, ins, b1, b2, c, nil

MCInst == {phi, ins}
MCPhi == {phi}
MCBlock == {b1, b2}
MCLeaf == {c}
=============================================================================
