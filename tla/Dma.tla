-------------------------------- MODULE Dma ---------------------------------
(***************************************************************************)
(* One channel of the DMA controller (kernel/dma.cpp).  The device writes  *)
(* to a buffer of the channel's own in low memory; EndTransfer copies what *)
(* was announced to the caller.  Sizes are counted in sectors and kept     *)
(* modulo SizeWrap, as a uint16 of bytes wraps at 128 sectors.             *)
(***************************************************************************)
EXTENDS Integers

CONSTANT SizeWrap

Closed == [open |-> FALSE, size |-> 0, counter |-> 0, at |-> 0]

\* The counter is loaded with size-1: size 0 is a full round.
BeginTransfer(size) ==
  [open |-> TRUE, size |-> size % SizeWrap,
   counter |-> ((size - 1) % SizeWrap) + 1, at |-> 0]

\* What the caller's buffer holds after the copy.
EndTransfer(ch, bounce, buffer) ==
  [i \in DOMAIN buffer |-> IF i < ch.size THEN bounce[i] ELSE buffer[i]]

(* The device's side: a closed channel, or one that has run out, takes     *)
(* nothing.                                                                *)
Accepts(ch) == ch.open /\ ch.counter > 0
Moved(ch) == [ch EXCEPT !.counter = @ - 1, !.at = @ + 1]
Stored(ch, bounce, sector) == [bounce EXCEPT ![ch.at] = sector]
=============================================================================
