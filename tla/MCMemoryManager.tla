-------------------------- MODULE MCMemoryManager --------------------------
(* The heap with room for four small blocks at an arbitrary address. *)
EXTENDS MemoryManager

MCBase == 8
MCSize == 184
MCRequests == {5, 32}
=============================================================================
