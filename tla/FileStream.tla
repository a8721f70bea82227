----------------------------- MODULE FileStream -----------------------------
(***************************************************************************)
(* What a file promises who reads it (IStream in kernel/storage.h): one    *)
(* read after the other returns the file from its beginning to its end.    *)
(* IStream has no way to say that a device has failed: from then on the    *)
(* stream still moves on but promises nothing of the data.                 *)
(***************************************************************************)
EXTENDS Integers

CONSTANTS
  Length,    \* of the file, in units
  Contents,  \* the unit at each offset
  Nothing    \* no data

VARIABLES
  place,     \* where the next read begins
  asked,     \* units of the read in progress, 0 when there is none
  data,      \* what the last read has returned
  sound      \* no device has failed
vars == <<place, asked, data, sound>>

Init == place = 0 /\ asked = 0 /\ data = Nothing /\ sound = TRUE

Read ==
  /\ asked = 0
  /\ asked' \in 1 .. Length - place /\ data' = Nothing
  /\ UNCHANGED <<place, sound>>

Spoil ==
  /\ asked > 0
  /\ sound' = FALSE
  /\ UNCHANGED <<place, asked, data>>

Return ==
  /\ asked > 0
  /\ asked' = 0 /\ place' = place + asked
  /\ data' = IF sound THEN [i \in 1 .. asked |-> Contents[place + i - 1]]
             ELSE Nothing
  /\ UNCHANGED sound

Next == Read \/ Spoil \/ Return

Spec == Init /\ [][Next]_vars
=============================================================================
