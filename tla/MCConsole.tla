----------------------------- MODULE MCConsole -----------------------------
(* Five rows of two columns, two of them on the screen: paging back from   *)
(* the last position ends on a middle one.  The tab stop divides the       *)
(* width, as 4 divides 80.                                                 *)
EXTENDS Console

MCWidth == 2
MCTabStop == 2
MCMaxColumn == 2
MCWindowHeight == 2
MCBufferHeight == 5
=============================================================================
