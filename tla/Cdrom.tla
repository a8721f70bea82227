------------------------------- MODULE Cdrom --------------------------------
(***************************************************************************)
(* Reading a file of a CD-ROM: BufferedStream::Read (kernel/storage.cpp)   *)
(* over File::Read (kernel/iso9660.cpp) over the ATAPI device of module    *)
(* Atapi, whose units and sectors these are.  A block of the file system   *)
(* is a sector, and the buffer of the stream holds one.  Nobody seeks in a *)
(* stream, so Seek, which moves only the file below it, is left out.       *)
(***************************************************************************)
EXTENDS Atapi

CONSTANTS
  FileDrive,  \* the device the file is on
  Extent,     \* its first block, LocationOfExtent
  Length,     \* its length in units, DataLength
  Sizes       \* how many units readers ask for at once

ASSUME FileAssumption ==
  /\ FileDrive \in Drive /\ Extent \in Nat /\ Length \in Nat \ {0}
  /\ Sizes \subseteq Nat \ {0}
  /\ Nothing \notin Drive \X Nat \X Nat

VARIABLES
  stage,          \* "ready", "blocks", "direct", "fill" or "panic"
  position,       \* of the stream
  bufpos, cache,  \* bufpos and buffer
  current_block,  \* of the file
  rest,           \* units that are still to be read
  out,            \* what the reader has got of this read
  spoilt          \* history: a read of the device has gone wrong
stream == <<stage, position, bufpos, cache, current_block, rest, out, spoilt>>
cdvars == <<vars, stream>>

NoBlock == -1
bufsize == SectorSize

-----------------------------------------------------------------------------
(* What the buffer holds from the position on.                             *)
Held == IF bufpos # NoBlock /\ position < bufpos + bufsize
        THEN bufpos + bufsize - position ELSE 0

(* BufferedStream::Read: the size is cut at the end of the file, and what  *)
(* the buffer holds is taken first.  When it holds nothing, the file below *)
(* is moved to the position; before the first block it is there anyway.    *)
StreamRead(n) ==
  LET size == Least(n, Length - position)
      k == Least(Held, size)
  IN  /\ stage = "ready" /\ size > 0
      /\ stage' = "blocks"
      /\ out' = SubSeq(cache, position - bufpos + 1, position - bufpos + k)
      /\ position' = position + k
      /\ rest' = size - k
      /\ current_block' = IF bufpos # NoBlock /\ Held = 0
                          THEN position \div bufsize ELSE current_block
      /\ UNCHANGED <<vars, bufpos, cache, spoilt>>

\* File::Read and ReadExtent: the device is moved and asked for the blocks.
Ask(blocks) ==
  /\ Seek
  /\ request' = [drive |-> FileDrive, block |-> Extent + current_block,
                 count |-> blocks]

Blocks ==
  /\ stage = "blocks"
  /\ \/ rest = 0 /\ stage' = "ready" /\ UNCHANGED vars
     \/ rest > bufsize /\ stage' = "direct" /\ Ask(rest \div bufsize)
     \/ /\ rest > 0 /\ rest <= bufsize
        /\ IF rest >= bufsize THEN stage' = "panic" /\ UNCHANGED vars
           ELSE stage' = "fill" /\ Ask(1)
  /\ UNCHANGED <<position, bufpos, cache, current_block, rest, out, spoilt>>

ReadMedia ==
  /\ stage \in {"direct", "fill"} /\ outcome = "idle"
  /\ Read
  /\ UNCHANGED stream

Answered(kind) ==
  /\ stage = kind /\ pc = "ready" /\ ~irq /\ outcome \in {"ok", "failed"}
  /\ stage' = "blocks"
  /\ spoilt' = (spoilt \/ outcome = "failed" \/ excess)
  /\ current_block' = current_block + request.count
  /\ UNCHANGED vars

\* Whole blocks go into the reader's memory.
Direct ==
  LET n == request.count * bufsize
  IN  /\ Answered("direct")
      /\ out' = out \o [i \in 1 .. n |-> buffer[i - 1]]
      /\ position' = position + n /\ rest' = rest - n
      /\ UNCHANGED <<bufpos, cache>>

\* Mutant: the buffer is said to hold what follows the read.
FilledFrom == position + rest
FilledAt == position

\* What a read that failed has not filled stays as it was.
Fill ==
  /\ Answered("fill")
  /\ cache' = [i \in 1 .. bufsize |->
                 IF buffer[i - 1] = Nothing THEN cache[i] ELSE buffer[i - 1]]
  /\ bufpos' = FilledAt
  /\ out' = out \o SubSeq(cache', 1, rest)
  /\ position' = position + rest /\ rest' = 0

-----------------------------------------------------------------------------
CdInit ==
  /\ Init
  /\ stage = "ready" /\ position = 0 /\ current_block = 0 /\ rest = 0
  /\ bufpos = NoBlock /\ cache = [i \in 1 .. bufsize |-> Nothing]
  /\ out = <<>> /\ spoilt = FALSE

Stream == Blocks \/ ReadMedia \/ Direct \/ Fill

CdNext ==
  \/ \E n \in Sizes : StreamRead(n)
  \/ Stream
  \/ Works /\ UNCHANGED stream

CdSpec == CdInit /\ [][CdNext]_cdvars

(* The thread that reads is scheduled, the device works and interrupts     *)
(* come.                                                                   *)
CdFairSpec ==
  /\ CdSpec
  /\ WF_cdvars(Stream \/ (Driver /\ UNCHANGED stream))
  /\ WF_cdvars(DeviceWorks /\ UNCHANGED stream)
  /\ WF_cdvars(IDE_atapi_packet_interrupt /\ UNCHANGED stream)

-----------------------------------------------------------------------------
(* The state of the stream; where the file below it stands is a block that *)
(* follows from the position while no read is under way.                   *)
CdTypeOK ==
  /\ TypeOK
  /\ stage \in {"ready", "blocks", "direct", "fill", "panic"}
  /\ position \in 0 .. Length /\ rest \in 0 .. Length - position
  /\ bufpos \in {NoBlock} \cup 0 .. Length
  /\ Len(out) <= Length

(* A read of the stream returns, unless a panic ends it: neither the loops *)
(* over blocks and packet commands nor the wait for a state that only the  *)
(* interrupt handler sets goes on for ever.                                *)
ReadsReturn ==
  stage # "ready" ~> stage \in {"ready", "panic"} \/ pc \in {"panic", "break"} \/ excess

(* The stream is the file: reads that follow each other return it from the *)
(* beginning to the end, each as much as was asked for, whether it comes   *)
(* from the buffer, from whole blocks or from both, as long as no read of  *)
(* the device has failed.                                                  *)
File == INSTANCE FileStream WITH
  Contents <- [p \in 0 .. Length - 1 |->
                 <<FileDrive, Extent + (p \div bufsize), p % bufsize>>],
  place <- IF stage = "ready" THEN position ELSE position - Len(out),
  asked <- IF stage = "ready" THEN 0 ELSE Len(out) + rest,
  data <- IF stage = "ready" /\ ~spoilt /\ out # <<>> THEN out ELSE Nothing,
  sound <- ~spoilt
ImplementsFileStream == File!Spec

(* The stream panics with the words that the rest is larger than its       *)
(* buffer (storage.cpp:82) when it is.                                     *)
RestLarger == stage = "panic" => rest > bufsize
=============================================================================
