---------------------------- MODULE MCThreading ----------------------------
(* Model values for the threads of Threading; the cfg files say which of   *)
(* them are workers, and which return.                                     *)
EXTENDS Threading

CONSTANTS w1, w2, w3
=============================================================================
