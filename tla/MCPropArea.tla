------------------------------ MODULE MCPropArea ------------------------------
(* Two properties of one area, set to values of one and of two cells.        *)
EXTENDS PropArea

MCValue == {<<1>>, <<2, 2>>}
MCWant == <<2, 2>>
=============================================================================
