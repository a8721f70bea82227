------------------------------- MODULE Atapi --------------------------------
(***************************************************************************)
(* Reading from an ATAPI device (kernel/atapi-device.cpp and               *)
(* kernel/atapi-controller.cpp): Device::Read divides a request into       *)
(* packet commands, polls the status register and the state the interrupt  *)
(* handler leaves, and the handler moves the data.  The device is          *)
(* external: it is what the handler's cases take it to be.  Data are       *)
(* counted in units, SectorSize of them in a sector.                       *)
(*                                                                         *)
(* Interrupts are on: one that is due comes before the driver's next step. *)
(***************************************************************************)
EXTENDS Integers, Sequences

CONSTANTS
  Drive,       \* devices of the controller
  SectorSize,  \* units in a sector
  MaxCount,    \* sectors in one command, 0x7FFF/device_secter_size
  Burst,       \* units a device moves at most before it is busy again
  Extra,       \* units a device may send beyond what was asked
  MaxShort,    \* bound: commands of one call that end early or go far beyond
  Request,     \* what callers ask for: drive, block and count
  CountWrap,   \* sectors count in a uint32
  Guard,       \* units of memory behind the caller's buffer
  Nothing

ASSUME SizeAssumption ==
  /\ SectorSize \in Nat \ {0} /\ MaxCount \in Nat \ {0}
  /\ Burst \in Nat \ {0} /\ MaxShort \in Nat /\ Guard \in Nat
  /\ Extra \in Nat /\ CountWrap \in Nat \ {0}
ASSUME RequestAssumption ==
  /\ \A q \in Request : /\ q.drive \in Drive /\ q.block \in Nat
                       /\ q.count \in Nat /\ q.count < CountWrap
  /\ \E q \in Request : \A p \in Request : p.count <= q.count

VARIABLES
  pc,        \* where Read is, or the panic that has ended it
  request,   \* the read in progress or the last one
  outcome,   \* what has become of it, as Disk has it
  loop,      \* lba, count, buff and iocount of IDE_Read_Sector
  asr,       \* the status register as it was read last
  state,     \* atapi_interrupt_state
  transfer,  \* atapi_datatransfer
  limit,     \* atapi_interrupt_limit
  place,     \* atapi_interrupt_buff, an offset in the caller's buffer
  buffer,    \* the caller's, with what lies behind it
  selected,  \* the drive the device/head register names
  dev,       \* the device
  shorts,    \* commands of the call that have ended early or went far beyond
  irq,       \* an interrupt that is due
  excess     \* history: more sectors than asked for have passed for too few
call == <<request, outcome, loop>>
handler == <<state, transfer, limit, place, buffer>>
outer == <<selected, dev, shorts, irq>>
vars == <<pc, call, asr, handler, outer, excess>>

Least(a, b) == IF a < b THEN a ELSE b
Size(q) == q.count * SectorSize
Largest ==
  CHOOSE s \in {Size(q) : q \in Request} : \A q \in Request : Size(q) <= s
Memory == 0 .. Largest + Guard - 1

-----------------------------------------------------------------------------
(* The device.  "accept" and "busy" show BSY, "packet" and "data" DRQ.     *)
(* When it has "taken" a packet it does not show BSY yet.                  *)

Bsy == dev.phase \in {"accept", "busy"}
Drq == dev.phase \in {"packet", "data"}

Device(d) == dev' = d /\ UNCHANGED <<pc, call, asr, handler, selected, excess>>

(* Ready for the packet; some devices interrupt then, and some refuse,     *)
(* with an error or without.                                               *)
Accept ==
  /\ dev.phase = "accept"
  /\ \/ Device([dev EXCEPT !.phase = "packet"]) /\ irq' \in BOOLEAN
     \/ \E err \in BOOLEAN :
          Device([dev EXCEPT !.phase = "idle", !.err = err]) /\ UNCHANGED irq
  /\ UNCHANGED shorts

Start ==
  /\ dev.phase = "taken"
  /\ \E e \in 0 .. Extra :
       /\ e > SectorSize => shorts < MaxShort
       /\ shorts' = IF e > SectorSize THEN shorts + 1 ELSE shorts
       /\ Device([dev EXCEPT !.phase = "busy", !.left = @ + e])
  /\ UNCHANGED irq

\* Data are ready: at most as much as the byte count registers allow.
Ready ==
  /\ dev.phase = "busy" /\ dev.left > 0
  /\ \E n \in 1 .. Least(Burst, dev.left) :
       Device([dev EXCEPT !.phase = "data", !.n = n])
  /\ irq' = TRUE /\ UNCHANGED shorts

Ended(err) == Device([dev EXCEPT !.phase = "idle", !.err = err]) /\ irq' = TRUE
End == dev.phase = "busy" /\ dev.left = 0 /\ Ended(FALSE) /\ UNCHANGED shorts
EndEarly ==
  /\ dev.phase = "busy" /\ shorts < MaxShort
  /\ \E err \in BOOLEAN : (dev.left > 0 \/ err) /\ Ended(err)
  /\ shorts' = shorts + 1

Unit(k) ==
  <<dev.unit, dev.lba + (k \div SectorSize), k % SectorSize>>

-----------------------------------------------------------------------------
(* IDE_atapi_packet_interrupt.  The device interrupts when it is ready for *)
(* the packet, has data or has ended: it releases no bus, has no messages, *)
(* wants no data, and shows no bits that are none of these (the branches   *)
(* at lines 370-375 and 383-396, 404-409 and 411-425).                     *)

\* Mutant: the handler takes all that is offered.
TakeAll(n) == n
\* What is more than the limit is read and thrown away.
Taken(n) == IF transfer + n > limit
            THEN IF limit > transfer THEN limit - transfer ELSE 0
            ELSE n

DataToHost ==
  LET w == Taken(dev.n)
  IN  /\ state' = "datatohost"
      /\ buffer' = [i \in DOMAIN buffer |->
                      IF place <= i /\ i < place + w
                      THEN Unit(dev.sent + i - place) ELSE buffer[i]]
      /\ place' = place + w
      /\ transfer' = transfer + dev.n
      /\ dev' = [dev EXCEPT !.phase = "busy", !.sent = @ + dev.n,
                            !.left = @ - dev.n, !.n = 0]
      /\ UNCHANGED limit

IDE_atapi_packet_interrupt ==
  /\ irq /\ irq' = FALSE
  /\ IF dev.phase = "data" THEN DataToHost
     ELSE /\ state' = IF Drq THEN "command" ELSE "status"
          /\ UNCHANGED <<transfer, limit, place, buffer, dev>>
  /\ UNCHANGED <<pc, call, asr, selected, shorts, excess>>

-----------------------------------------------------------------------------
(* Device::Seek and Device::Read.  A busy device cannot be selected.       *)
Seek ==
  /\ pc = "ready" /\ ~irq
  /\ request' \in Request /\ outcome' = "idle"
  /\ UNCHANGED <<pc, loop, asr, handler, outer, excess>>

Read ==
  /\ pc = "ready" /\ ~irq
  /\ outcome' = "asked" /\ shorts' = 0
  /\ buffer' = [i \in Memory |-> Nothing]
  /\ IF Bsy \/ Drq
     THEN pc' = "failed" /\ UNCHANGED <<loop, selected>>
     ELSE /\ pc' = "chunk"
          /\ loop' = [lba |-> request.block, count |-> request.count, at |-> 0,
                      io |-> 0]
          /\ selected' = request.drive
  /\ UNCHANGED <<request, asr, state, transfer, limit, place, dev, irq, excess>>

\* The locals of the call are gone with it.
NoLoop == [lba |-> 0, count |-> 0, at |-> 0, io |-> 0]
NoStatus == [bsy |-> FALSE, err |-> FALSE]
Return(o) == pc' = "ready" /\ outcome' = o /\ loop' = NoLoop

NotSelected ==
  /\ pc = "failed" /\ ~irq
  /\ Return("failed")
  /\ UNCHANGED <<request, asr, handler, outer, excess>>

(* The loop of IDE_Read_Sector, and the beginning of a packet command.     *)
Chunk ==
  /\ pc = "chunk" /\ ~irq
  /\ IF loop.count = 0
     THEN Return("ok") /\ UNCHANGED <<transfer, dev>>
     ELSE /\ pc' = "packet"
          /\ loop' = [loop EXCEPT !.io = Least(loop.count, MaxCount)]
          /\ transfer' = 0
          /\ dev' = [phase |-> "accept", unit |-> selected, err |-> FALSE,
                     lba |-> loop.lba, left |-> 0, sent |-> 0, n |-> 0]
          /\ UNCHANGED outcome
  /\ UNCHANGED <<request, asr, state, limit, place, buffer, selected, shorts,
                 irq, excess>>

(* A device that is no longer busy gets the packet, has an error to show,  *)
(* or else the kernel panics with "break".                                 *)
SendPacket ==
  /\ pc = "packet" /\ ~irq /\ ~Bsy
  /\ \/ dev.err /\ Return("failed") /\ UNCHANGED <<state, limit, place, dev>>
     \/ /\ ~dev.err /\ Drq
        /\ pc' = "poll" /\ UNCHANGED <<outcome, loop>>
        /\ state' = "idle"
        /\ limit' = loop.io * SectorSize
        /\ place' = loop.at
        /\ dev' = [dev EXCEPT !.phase = "taken",
                              !.left = loop.io * SectorSize]
     \/ /\ ~dev.err /\ ~Drq
        /\ pc' = "break"
        /\ UNCHANGED <<outcome, loop, state, limit, place, dev>>
  /\ UNCHANGED <<request, asr, transfer, buffer, selected, shorts, irq, excess>>

\* A million tests, and the device has not got ready for the packet.
PacketTimeout ==
  /\ pc = "packet" /\ ~irq /\ Bsy
  /\ Return("failed")
  /\ UNCHANGED <<request, asr, handler, outer, excess>>

ReadStatus ==
  /\ pc = "poll" /\ ~irq
  /\ asr' = [bsy |-> Bsy, err |-> ~Bsy /\ dev.err]
  /\ pc' = "check"
  /\ UNCHANGED <<call, handler, outer, excess>>

\* Mutant: any interrupt is taken for the end.
AnyInterrupt == ~asr.bsy /\ state # "idle"
Ending == ~asr.bsy /\ state = "status"

\* Mutant: the loop goes on by what was asked for.
AsAsked == loop.io
\* IDE_Get_Atapi_TransferByte: whole sectors only.
Moved == transfer \div SectorSize

(* What IDE_atapi_read10 makes of the number of units: too few are         *)
(* allowed, and whatever is not whole sectors counts as too few, even when *)
(* it is more than was asked for.                                          *)
Accepted ==
  /\ transfer # 0
  /\ ((transfer % SectorSize) # 0 \/ transfer <= loop.io * SectorSize)

\* Mutant: the loop forgets to count down.
CountStays == loop.count
Rest == (loop.count - Moved) % CountWrap

(* A command that has ended: the loop of IDE_Read_Sector goes on behind    *)
(* what it has moved, and by as many sectors less.                         *)
Completed ==
  /\ state' = "idle"
  /\ IF ~asr.err /\ Accepted
     THEN /\ pc' = "chunk"
          /\ loop' = [lba |-> loop.lba + Moved,
                      count |-> Rest,
                      at |-> loop.at + Moved * SectorSize, io |-> 0]
          /\ excess' = (excess \/ Moved > loop.io)
          /\ UNCHANGED outcome
     ELSE Return("failed") /\ UNCHANGED excess

CheckState ==
  /\ pc = "check" /\ ~irq
  /\ \/ Ending /\ Completed
     \/ ~Ending /\ pc' = "poll" /\ UNCHANGED <<outcome, loop, state, excess>>
  /\ asr' = NoStatus
  /\ UNCHANGED <<request, transfer, limit, place, buffer, outer>>

(* A million tests without the end of the command: the error in the status *)
(* that was read last, or the state the handler has set since, may still   *)
(* tell what has become of it.                                             *)
StatusTimeout ==
  /\ pc = "check" /\ ~irq /\ ~Ending
  /\ IF asr.err \/ state = "status" THEN Completed
     ELSE pc' = "panic" /\ UNCHANGED <<outcome, loop, state, excess>>
  /\ asr' = NoStatus
  /\ UNCHANGED <<request, transfer, limit, place, buffer, outer>>

-----------------------------------------------------------------------------
Init ==
  /\ pc = "ready" /\ outcome = "idle" /\ request \in Request
  /\ loop = NoLoop /\ asr = NoStatus
  /\ state = "idle" /\ transfer = 0 /\ limit = 0 /\ place = 0
  /\ buffer = [i \in Memory |-> Nothing]
  /\ selected \in Drive
  /\ dev = [phase |-> "idle", unit |-> selected, err |-> FALSE, lba |-> 0,
            left |-> 0, sent |-> 0, n |-> 0]
  /\ shorts = 0 /\ irq = FALSE /\ excess = FALSE

Driver == NotSelected \/ Chunk \/ SendPacket \/ ReadStatus \/ CheckState
DeviceWorks == Accept \/ Start \/ Ready \/ End

Works ==
  \/ Driver \/ PacketTimeout \/ StatusTimeout
  \/ DeviceWorks \/ EndEarly
  \/ IDE_atapi_packet_interrupt

Next == Seek \/ Read \/ Works

Spec == Init /\ [][Next]_vars

-----------------------------------------------------------------------------
TypeOK ==
  /\ pc \in {"ready", "failed", "chunk", "packet", "poll", "check", "panic", "break"}
  /\ request \in Request /\ outcome \in {"idle", "asked", "ok", "failed"}
  /\ ~excess => /\ loop.count \in 0 .. request.count
                /\ loop.at \in 0 .. request.count * SectorSize
  /\ loop.count \in 0 .. CountWrap - 1
  /\ loop.lba \in Nat /\ loop.io \in 0 .. MaxCount
  /\ state \in {"idle", "command", "datatohost", "status"}
  /\ transfer \in 0 .. MaxCount * SectorSize + Extra
  /\ selected \in Drive /\ dev.unit \in Drive
  /\ dev.phase \in {"idle", "accept", "packet", "taken", "busy", "data"}
  /\ excess \in BOOLEAN

(* The handler writes only while a read waits for it, and only to the part *)
(* of the buffer the command is for, however much the device offers and    *)
(* whatever became of the commands before.  That part belongs to what the  *)
(* caller asked for, until a command that has moved more sectors than it   *)
(* should passes for one that has moved too few: then the count of sectors *)
(* that are left wraps, and the loop goes on behind the buffer.            *)
NoOverrun ==
  [][\A i \in Memory :
       buffer'[i] # buffer[i] /\ outcome' = outcome =>
         /\ pc \in {"poll", "check", "panic"}
         /\ loop.at <= i /\ i < loop.at + loop.io * SectorSize
         /\ ~excess => i < request.count * SectorSize]_vars

(* The driver is a disk: a read it does not report as failed has filled    *)
(* the buffer with what was asked for, however the device divides the      *)
(* transfer, and although the status it looks at may be older than the     *)
(* state it is compared with.  Once a surplus has passed for too few it is *)
(* no disk any more: what it reports then counts as a failure.             *)
Delivered ==
  [i \in 0 .. request.count - 1 |->
     IF \A u \in 0 .. SectorSize - 1 :
          buffer[i * SectorSize + u] = <<request.drive, request.block + i, u>>
     THEN <<request.drive, request.block + i>> ELSE Nothing]

Kept == outcome = "ok" /\ ~excess
Promise == INSTANCE Disk WITH
  status <- IF outcome = "ok" /\ excess THEN "failed" ELSE outcome,
  data <- IF Kept THEN Delivered ELSE Nothing
ImplementsDisk == Promise!Spec
=============================================================================
