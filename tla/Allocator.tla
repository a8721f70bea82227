----------------------------- MODULE Allocator -----------------------------
(***************************************************************************)
(* What a heap promises its callers, whatever its lists look like: the     *)
(* blocks that are out lie inside the arena and never share a byte.        *)
(***************************************************************************)
EXTENDS Integers

CONSTANTS
  Arena,    \* the addresses that may be handed out
  Requests  \* the sizes callers ask for, in bytes

VARIABLE blocks  \* the blocks that are out: first address -> size asked for

Bytes(a, n) == a .. a + n - 1

Init == blocks = [a \in {} |-> 0]

Give(a, n) ==
  /\ Bytes(a, n) \subseteq Arena
  /\ \A b \in DOMAIN blocks : Bytes(a, n) \cap Bytes(b, blocks[b]) = {}
  /\ blocks' = [b \in DOMAIN blocks \cup {a} |->
                  IF b = a THEN n ELSE blocks[b]]

Take(a) ==
  /\ a \in DOMAIN blocks
  /\ blocks' = [b \in DOMAIN blocks \ {a} |-> blocks[b]]

\* realloc: the new block must be clear of the old one, which is given up.
Move(a, b, n) ==
  /\ a \in DOMAIN blocks
  /\ Bytes(b, n) \subseteq Arena
  /\ \A c \in DOMAIN blocks : Bytes(b, n) \cap Bytes(c, blocks[c]) = {}
  /\ blocks' = [c \in (DOMAIN blocks \ {a}) \cup {b} |->
                  IF c = b THEN n ELSE blocks[c]]

Next ==
  \/ \E a \in Arena, n \in Requests : Give(a, n)
  \/ \E a \in DOMAIN blocks : Take(a)
  \/ \E a \in DOMAIN blocks, b \in Arena, n \in Requests : Move(a, b, n)

Spec == Init /\ [][Next]_blocks
=============================================================================
