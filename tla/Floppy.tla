------------------------------- MODULE Floppy -------------------------------
(***************************************************************************)
(* The floppy driver (kernel/fdd.cpp) with the DMA channel it uses: a      *)
(* driver that sends commands and polls a flag, the interrupt handler that *)
(* sets the flag, and the controller chip.  The chip is external: it is    *)
(* what the driver's status tests and result reads take it to be.          *)
(*                                                                         *)
(* The driver does nothing between its tests of the chip's status and of   *)
(* the flag that others could see, so each test and what follows it is one *)
(* step.  Interrupts are on: one that is due comes before the next step.   *)
(***************************************************************************)
EXTENDS Dma

CONSTANTS
  MaxDrives,         \* drives DetectDrives looks for, 4 in the program
  Present,           \* drives that exist
  SectorsPerHead, Cylinders,
  Overlapped,        \* whether the chip takes commands while a head moves
  Request,           \* what the file systems read: block and count
  Nothing

Drive == 0 .. MaxDrives - 1
SectorsPerCylinder == 2 * SectorsPerHead
Block == 0 .. SectorsPerCylinder * Cylinders - 1

ASSUME DriveAssumption ==
  /\ MaxDrives \in Nat \ {0} /\ Present \subseteq 0 .. MaxDrives - 1
  /\ SectorsPerHead \in Nat \ {0} /\ Cylinders \in Nat \ {0}
  /\ SizeWrap \in Nat \ {0} /\ Overlapped \in BOOLEAN
ASSUME RequestAssumption ==
  /\ Request # {} /\ Nothing \notin Drive \X Block /\ Nothing \notin Int
  /\ \A q \in Request :
       /\ q.block \in Block /\ q.count \in Nat \ {0}
       /\ (q.block % SectorsPerHead) + q.count <= SectorsPerHead

Offset == 0 .. SectorsPerHead - 1
\* A place on the disk, or the one that would follow the last.
Place == [c : 0 .. Cylinders, h : 0 .. 1, r : Nat]

VARIABLES
  pc,       \* what the driver does: "ready", or the test it is waiting at
  op,       \* the call: kind, drive and the request it serves
  flag,     \* InterruptedFlag
  drives,   \* the drives found, and whether the search is over
  current,  \* current_cylinder, current_head, current_sector of each drive
  result,   \* st0.ic of the last read, NotYet before it has come
  buffer,   \* the caller's
  channel, bounce,  \* the DMA channel and its memory
  fdc,      \* the chip
  irq       \* an interrupt that is due
NotYet == 4
driver == <<pc, op, drives, current, result, buffer>>
vars == <<driver, flag, channel, bounce, fdc, irq>>

-----------------------------------------------------------------------------
(* The chip: heads on their way, seeks that are done and not sensed yet,   *)
(* and the phase of a command: "idle", "reading" or "result".              *)

Still(f) == \A d \in Drive : f.moving[d] = Nothing

\* RQM is set, DIO and CB are not, or will be once the results are discarded.
waitForIdle(f) == f.phase # "reading" /\ (Overlapped \/ Still(f))
discardData(f) == [f EXCEPT !.phase = IF @ = "result" THEN "idle" ELSE @]

\* The interrupt line is up until the driver asks why.
LineUp(f) == f.done # {} \/ f.phase = "result"
Raise == irq' = (irq \/ ~LineUp(fdc))

Arrive(d) ==
  /\ fdc.moving[d] # Nothing
  /\ fdc' = [fdc EXCEPT !.moving[d] = Nothing,
               !.pos[d] = IF d \in Present THEN fdc.moving[d] ELSE @,
               !.done = @ \cup {[drive |-> d,
                                 ic |-> IF d \in Present THEN 0 ELSE 1]}]
  /\ Raise
  /\ UNCHANGED <<driver, flag, channel, bounce>>

SectorAt(d, p) ==
  <<d, p.c * SectorsPerCylinder + p.h * SectorsPerHead + p.r - 1>>

\* The head is where the command says, and the sector is on the track.
SectorThere ==
  /\ fdc.unit \in Present /\ fdc.pos[fdc.unit] = fdc.place.c
  /\ fdc.place.r <= SectorsPerHead

TransferSector ==
  /\ fdc.phase = "reading" /\ fdc.place.r <= fdc.eot
  /\ SectorThere /\ Accepts(channel)
  /\ bounce' = Stored(channel, bounce, SectorAt(fdc.unit, fdc.place))
  /\ channel' = Moved(channel)
  /\ fdc' = [fdc EXCEPT !.place.r = @ + 1]
  /\ UNCHANGED <<driver, flag, irq>>

Finish(ic, place) ==
  /\ fdc' = [fdc EXCEPT !.phase = "result", !.ic = ic, !.place = place]
  /\ Raise
  /\ UNCHANGED <<driver, flag, channel, bounce>>

(* After the last sector the chip, which reads both sides (MT), names the  *)
(* first one of the other side: after side 1, of the next cylinder.        *)
EndRead ==
  LET last == fdc.place
  IN  /\ fdc.phase = "reading" /\ last.r > fdc.eot
      /\ Finish(0, [c |-> last.c + last.h, h |-> 1 - last.h, r |-> 1])
RefuseRead ==
  /\ fdc.phase = "reading" /\ fdc.place.r <= fdc.eot
  /\ ~(SectorThere /\ Accepts(channel))
  /\ Finish(1, fdc.place)
MediumError ==
  /\ fdc.phase = "reading" /\ fdc.place.r <= fdc.eot
  /\ SectorThere
  /\ Finish(1, fdc.place)

\* FDCInterruptHandler
FDCInterruptHandler ==
  /\ irq
  /\ irq' = FALSE /\ flag' = TRUE
  /\ UNCHANGED <<driver, channel, bounce, fdc>>

-----------------------------------------------------------------------------
(* The driver's calls begin by selecting the drive.  Seek and ReadData     *)
(* clear the flag before they wait for the chip; Recalibrate does not.     *)

\* Mutant: no call clears the flag.
KeepFlag(kind) == flag
ClearFlag(kind) == IF kind = "recalibrate" THEN flag ELSE FALSE

Call(o) == pc' = "command" /\ op' = o /\ flag' = ClearFlag(o.kind)

DetectDrive ==
  /\ pc = "detect" /\ ~irq
  /\ Call([op EXCEPT !.kind = "recalibrate"])
  /\ UNCHANGED <<drives, current, result, buffer, channel, bounce, fdc, irq>>

Seek(d, q) ==
  /\ pc = "ready" /\ ~irq /\ d \in drives /\ op.kind # "seek"
  /\ Call([kind |-> "seek", drive |-> d, request |-> q])
  /\ UNCHANGED <<drives, current, result, buffer, channel, bounce, fdc, irq>>

\* The file systems read as many blocks as they have sought to.
Read ==
  /\ pc = "ready" /\ ~irq /\ op.kind = "seek"
  /\ Call([op EXCEPT !.kind = "read"])
  /\ result' = NotYet
  /\ UNCHANGED <<drives, current, buffer, channel, bounce, fdc, irq>>

(* Where a block is, sectors counted from 0 as the driver does.            *)
\* Mutant: the sectors of one head are taken for a cylinder.
OneHead(b) ==
  [c |-> b \div SectorsPerHead, h |-> 0, r |-> b % SectorsPerHead]
PlaceOf(b) ==
  [c |-> b \div SectorsPerCylinder,
   h |-> (b % SectorsPerCylinder) \div SectorsPerHead,
   r |-> b % SectorsPerHead]

(* The chip is idle: the command is sent.  Seek's drive byte is always 0.  *)
SendSeek ==
  LET unit == IF op.kind = "seek" THEN 0 ELSE op.drive
      target == IF op.kind = "seek"
                THEN PlaceOf(op.request.block).c ELSE 0
  IN  /\ pc = "command" /\ ~irq /\ op.kind # "read" /\ waitForIdle(fdc)
      /\ pc' = "wait"
      /\ fdc' = [discardData(fdc) EXCEPT !.moving[unit] = target]
      /\ UNCHANGED <<op, drives, current, result, buffer, flag, channel,
                     bounce, irq>>

\* Mutant: current_sector is taken for the sector's number on the track.
FirstSectorAsCounted(d) == current[d]
FirstSector(d) == [current[d] EXCEPT !.r = @ + 1]

SendRead ==
  /\ pc = "command" /\ ~irq /\ op.kind = "read" /\ waitForIdle(fdc)
  /\ pc' = "wait"
  /\ channel' = BeginTransfer(op.request.count)
  /\ fdc' = [discardData(fdc) EXCEPT !.phase = "reading", !.unit = op.drive,
               !.place = FirstSector(op.drive),
               !.eot = current[op.drive].r + op.request.count]
  /\ UNCHANGED <<op, drives, current, result, buffer, flag, bounce, irq>>

(* The flag is set.  What Read makes of the result bytes: a byte that is   *)
(* not there reads 0xFF, and the place the chip names becomes the current  *)
(* one although it counts sectors from 1.                                  *)
NoByte == 255

WaitRead ==
  LET come == fdc.phase = "result"
  IN  /\ pc = "wait" /\ ~irq /\ op.kind = "read" /\ flag
      /\ pc' = "ready"
      /\ buffer' = EndTransfer(channel, bounce, buffer)
      /\ channel' = Closed
      /\ result' = IF come THEN fdc.ic ELSE 3
      /\ current' = [current EXCEPT ![op.drive] =
           IF come THEN fdc.place ELSE [c |-> NoByte, h |-> NoByte, r |-> NoByte]]
      /\ fdc' = discardData(fdc)
      /\ UNCHANGED <<op, drives, flag, bounce, irq>>

WaitSeek ==
  /\ pc = "wait" /\ ~irq /\ op.kind # "read" /\ flag
  /\ pc' = "sense"
  /\ UNCHANGED <<op, drives, current, result, buffer, flag, channel, bounce,
                 fdc, irq>>

(* SENSE INTERRUPT, st0.ic of its answer; 2 when there is nothing to say.  *)
Sensed == IF fdc.done = {} THEN {[drive |-> 0, ic |-> 2]} ELSE fdc.done

\* Mutant: a drive is taken for found whatever the answer.
AnyAnswer(answer) == drives \cup {op.drive}
Found(answer) == IF answer.ic = 0 THEN drives \cup {op.drive} ELSE drives

\* The search goes on until a drive does not answer.
AfterRecalibrate(answer) ==
  LET more == answer.ic = 0 /\ op.drive + 1 < MaxDrives
  IN  /\ drives' = Found(answer)
      /\ pc' = IF more THEN "detect" ELSE "ready"
      /\ op' = IF more THEN [op EXCEPT !.drive = @ + 1] ELSE op
      /\ UNCHANGED current

\* The answer is not looked at.
AfterSeek ==
  /\ pc' = "ready"
  /\ current' = [current EXCEPT ![op.drive] = PlaceOf(op.request.block)]
  /\ UNCHANGED <<op, drives>>

\* Mutant: the chip is not asked why it interrupted.
AskNothing(f, answer) == f
Acknowledged(f, answer) == [discardData(f) EXCEPT !.done = @ \ {answer}]

SenseInterrupt ==
  /\ pc = "sense" /\ ~irq /\ waitForIdle(fdc)
  /\ \E answer \in Sensed :
       /\ fdc' = Acknowledged(fdc, answer)
       /\ IF op.kind = "recalibrate" THEN AfterRecalibrate(answer) ELSE AfterSeek
  /\ UNCHANGED <<result, buffer, flag, channel, bounce, irq>>

-----------------------------------------------------------------------------
(* The chip has been initialised: the search for drives begins.            *)
Init ==
  /\ pc = "detect" /\ flag = FALSE /\ irq = FALSE /\ drives = {}
  /\ op = [kind |-> "none", drive |-> 0, request |-> CHOOSE q \in Request : TRUE]
  /\ current = [d \in Drive |-> [c |-> 0, h |-> 0, r |-> 0]]
  /\ result = NotYet
  /\ buffer = [i \in Offset |-> Nothing] /\ bounce = [i \in Offset |-> Nothing]
  /\ channel = Closed
  /\ fdc = [phase |-> "idle", unit |-> 0, ic |-> 0, eot |-> 0, done |-> {},
            place |-> [c |-> 0, h |-> 0, r |-> 0],
            moving |-> [d \in Drive |-> Nothing], pos |-> [d \in Drive |-> 0]]

Driver ==
  \/ DetectDrive
  \/ SendSeek \/ SendRead \/ WaitSeek \/ WaitRead \/ SenseInterrupt

Chip ==
  \/ \E d \in Drive : Arrive(d)
  \/ TransferSector \/ EndRead \/ RefuseRead

Works == Driver \/ Chip \/ MediumError \/ FDCInterruptHandler

Next == (\E d \in drives, q \in Request : Seek(d, q)) \/ Read \/ Works

Spec == Init /\ [][Next]_vars

-----------------------------------------------------------------------------
TypeOK ==
  /\ pc \in {"detect", "ready", "command", "wait", "sense"}
  /\ op \in [kind : {"none", "recalibrate", "seek", "read"}, drive : Drive,
             request : Request]
  /\ flag \in BOOLEAN /\ irq \in BOOLEAN /\ drives \subseteq Drive
  /\ \A d \in drives : current[d] \in Place
  /\ result \in 0 .. NotYet
  /\ {buffer, bounce} \subseteq [Offset -> (Drive \X Block) \cup {Nothing}]
  /\ channel.size <= SectorsPerHead /\ channel.at <= SectorsPerHead
  /\ fdc.phase \in {"idle", "reading", "result"} /\ fdc.place \in Place

(* getResult never finds nothing to read (fdd.cpp:210, where it prints     *)
(* FDC-REPLY-TIMEOUT and goes on with 0xFF): when the flag lets a read go  *)
(* on, its results are there, and when SENSE INTERRUPT is sent there is a  *)
(* seek it can answer for, although Recalibrate does not clear the flag.   *)
RepliesThere ==
  ~irq => /\ pc = "wait" /\ op.kind = "read" /\ flag => fdc.phase = "result"
          /\ pc = "sense" /\ waitForIdle(fdc) => fdc.done # {}

(* DetectDrives finds the drives that are there, up to the first gap.      *)
DetectsPresent ==
  pc = "ready" =>
    drives = {d \in Drive : \A e \in 0 .. d : e \in Present}

(* The driver is a disk: what a read without error leaves in the caller's  *)
(* buffer is what the Seek before it named, through the sector arithmetic, *)
(* the chip, the DMA channel's own memory and the copy.                    *)
Delivered ==
  IF result = 0 THEN [i \in 0 .. op.request.count - 1 |-> buffer[i]]
  ELSE Nothing

Promise == INSTANCE Disk WITH
  Request <- [drive : Drive, block : Block, count : 1 .. SectorsPerHead],
  request <- [drive |-> op.drive, block |-> op.request.block,
              count |-> op.request.count],
  status <- IF op.kind # "read" THEN "idle"
            ELSE IF pc # "ready" THEN "asked"
            ELSE IF result = 0 THEN "ok" ELSE "failed",
  data <- IF op.kind = "read" /\ pc = "ready" THEN Delivered ELSE Nothing
ImplementsDisk == Promise!Spec
=============================================================================
