----------------------------- MODULE MCKeyInput -----------------------------
(* Three key strokes of every kind: a letter and a page key whose codes    *)
(* share a column of the two tables with PAD_9, an editing key, the two    *)
(* keys that stop the machine.                                             *)
EXTENDS KeyInput

MCUserKeys == {"A", "PAD_9", "PAGEUP", "BACKSPACE", "RETURN", "ESC"}
MCMaxPresses == 3
MCBlock == 2
=============================================================================
