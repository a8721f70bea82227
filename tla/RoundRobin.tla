----------------------------- MODULE RoundRobin -----------------------------
(***************************************************************************)
(* What the kernel's scheduler promises: one thread runs, the others wait  *)
(* in a queue; a switch takes the thread that has waited longest and sends *)
(* the one that ran to the end.  A new thread may be put anywhere in the   *)
(* queue (CreateThread appends to a vector that is read round from the     *)
(* current slot), which delays each waiting thread by one turn at most.    *)
(***************************************************************************)
EXTENDS Naturals, Sequences

CONSTANTS Main, Workers

VARIABLES running, queue

Init == running = Main /\ queue = <<>>

Switch ==
  /\ queue # <<>>
  /\ running' = Head(queue)
  /\ queue' = Append(Tail(queue), running)

Admit(w) ==
  /\ running # w
  /\ \A i \in DOMAIN queue : queue[i] # w
  /\ \E n \in 0 .. Len(queue) :
        queue' = SubSeq(queue, 1, n) \o <<w>> \o SubSeq(queue, n + 1, Len(queue))
  /\ UNCHANGED running

Next == Switch \/ \E w \in Workers : Admit(w)

Spec == Init /\ [][Next]_<<running, queue>>
=============================================================================
