-------------------------------- MODULE Disk --------------------------------
(***************************************************************************)
(* What a driver of a block device promises its callers (IMedia in         *)
(* kernel/storage.h: Seek to a block, Read a number of blocks): a read     *)
(* that succeeds returns the blocks of the drive that were asked for.  A   *)
(* block's content is its drive and number.                                *)
(***************************************************************************)
EXTENDS Integers

CONSTANTS
  Request,  \* what callers ask for: a drive, a block and a count
  Nothing   \* no data

VARIABLES
  status,   \* "idle", "asked", "ok" or "failed"
  request,  \* the last one
  data      \* what a successful read has returned
vars == <<status, request, data>>

Init == status = "idle" /\ request \in Request /\ data = Nothing

Seek ==
  /\ status # "asked"
  /\ status' = "idle" /\ request' \in Request /\ data' = Nothing

Read ==
  /\ status # "asked"
  /\ status' = "asked" /\ data' = Nothing
  /\ UNCHANGED request

Succeed ==
  /\ status = "asked"
  /\ status' = "ok"
  /\ data' = [i \in 0 .. request.count - 1 |-> <<request.drive, request.block + i>>]
  /\ UNCHANGED request

Fail ==
  /\ status = "asked"
  /\ status' = "failed"
  /\ UNCHANGED <<request, data>>

Next == Seek \/ Read \/ Succeed \/ Fail

Spec == Init /\ [][Next]_vars
=============================================================================
