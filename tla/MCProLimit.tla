------------------------------ MODULE MCProLimit ------------------------------
(* The bounds of MCPro for the engine with its history of overlaps.         *)
EXTENDS MCPro, ProLimit
=============================================================================
