----------------------------- MODULE MCInttable -----------------------------
(* Tables of three and seven slots.  All keys start their probe at the     *)
(* same slot of the small table, 34 with another step.                     *)
EXTENDS Inttable

MCKeys == {1, 34, -1}
MCPrimeTbl == <<3, 7, 17>>
=============================================================================
