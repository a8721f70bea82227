---------------------------- MODULE Cdrom_proofs ----------------------------
(***************************************************************************)
(* Proofs about modules Atapi and Cdrom, for any sizes of sectors,         *)
(* commands and requests, and devices that offer any amount too much.      *)
(*                                                                         *)
(* The driver, under any caller: the interrupt handler never writes        *)
(* outside the part of the caller's buffer that the command in progress is *)
(* for; and until a command that has moved more sectors than it should     *)
(* passes for one that has moved too few, that part belongs to what the    *)
(* caller has asked for, and the driver implements module Disk: a read     *)
(* which it does not report as failed has filled the caller's buffer with  *)
(* what was asked for.                                                     *)
(*                                                                         *)
(* The file stream, for any file, block size and sizes of reads: whatever  *)
(* has been proved about the driver holds when the stream calls it, and    *)
(* the stream implements module FileStream, so that one read after the     *)
(* other returns the file.                                                 *)
(***************************************************************************)
EXTENDS Cdrom, SequenceTheorems, TLAPS

LoopState == [lba : Int, count : Int, at : Int, io : Int]
DevState ==
  [phase : {"idle", "accept", "packet", "taken", "busy", "data"}, unit : Drive,
   err : BOOLEAN, lba : Int, left : Int, sent : Int, n : Int]

Typed ==
  /\ pc \in {"ready", "failed", "chunk", "packet", "poll", "check", "panic", "break"}
  /\ request \in Request
  /\ loop \in LoopState /\ dev \in DevState
  /\ transfer \in Int /\ limit \in Int /\ place \in Int
  /\ buffer = [i \in Memory |-> buffer[i]]
  /\ selected \in Drive /\ excess \in BOOLEAN

\* The driver waits for the handler to report the end of a command.
Waiting == pc \in {"poll", "check", "panic"}

(* The device moves data only while the driver waits for it, so that the   *)
(* handler's limit and place are those of this command; the state it       *)
(* reports as the end is the device's last word on it, and so is an error  *)
(* in the status register.                                                 *)
DeviceInv ==
  /\ ~Waiting => /\ dev.phase \in {"idle", "accept", "packet"}
                 /\ irq => dev.phase = "packet"
                 /\ state # "status"
  /\ pc = "ready" <=> outcome # "asked"
  /\ irq => dev.phase \in {"packet", "data", "idle"}
  /\ state = "status" => dev.phase = "idle" /\ ~irq
  /\ dev.err => dev.phase = "idle"
  /\ pc = "check" /\ asr.err => dev.phase = "idle" /\ ~irq

(* How the loop stands: what is done and what is left make up the request, *)
(* unless more has been done than was asked for.                           *)
LoopInv ==
  pc # "ready" /\ pc # "failed" =>
    /\ loop.count >= 0 /\ loop.at >= 0 /\ loop.io <= loop.count /\ loop.io >= 0
    /\ loop.count < CountWrap
    /\ ~excess => loop.at + loop.count * SectorSize = request.count * SectorSize

(* How the handler stands: it has come no further than the limit, and the  *)
(* device has no more to offer than its surplus beyond that.               *)
HandlerInv ==
  /\ pc = "packet" => transfer = 0
  /\ Waiting =>
       /\ limit = loop.io * SectorSize
       /\ transfer >= 0
       /\ place = loop.at + (IF transfer <= limit THEN transfer ELSE limit)
       /\ dev.phase = "taken" => transfer = 0 /\ dev.left = limit
       /\ dev.left >= 0 /\ transfer + dev.left <= limit + Extra
       /\ dev.phase = "data" => dev.n > 0 /\ dev.n <= dev.left

AtapiInv == Typed /\ DeviceInv /\ LoopInv /\ HandlerInv

-----------------------------------------------------------------------------
(* Products and quotients of sizes.                                        *)

LEMMA SizesTyped == /\ SectorSize \in Nat /\ SectorSize > 0
                    /\ Extra \in Int /\ Extra >= 0
                    /\ MaxCount \in Nat /\ MaxCount > 0
                    /\ CountWrap \in Nat /\ CountWrap > 0
BY SizeAssumption

LEMMA ProductMonotone ==
  ASSUME NEW a \in Int, NEW b \in Int, NEW s \in Nat, a <= b
  PROVE  a * s <= b * s
<1>1. (b - a) * s >= 0
  OBVIOUS
<1>2. (b - a) * s = b * s - a * s
  OBVIOUS
<1> QED BY <1>1, <1>2

LEMMA QuotientNotNegative ==
  ASSUME NEW t \in Nat, NEW s \in Nat, s > 0
  PROVE  t \div s \in Int /\ t \div s >= 0
OBVIOUS

\* A counter that stays in its range does not wrap.
LEMMA NoWrap ==
  ASSUME NEW c \in Int, NEW w \in Nat, w > 0, 0 <= c, c < w
  PROVE  c % w = c
OBVIOUS

LEMMA Wraps ==
  ASSUME NEW c \in Int, NEW w \in Nat, w > 0
  PROVE  c % w \in Int /\ 0 <= c % w /\ c % w < w
OBVIOUS

-----------------------------------------------------------------------------
LEMMA InitEstablishes == Init => AtapiInv
<1> SUFFICES ASSUME Init PROVE AtapiInv
  OBVIOUS
<1>1. Typed
  <2>1. excess \in BOOLEAN
    BY DEF Init
  <2> QED BY <2>1 DEF Init, Typed, LoopState, DevState, NoLoop
<1>2. DeviceInv
  BY DEF Init, DeviceInv, Waiting
<1>3. LoopInv /\ HandlerInv
  BY DEF Init, LoopInv, HandlerInv, Waiting
<1> QED BY <1>1, <1>2, <1>3 DEF AtapiInv

-----------------------------------------------------------------------------
(* The device's steps leave the driver alone.                              *)

LEMMA DeviceKeeps ==
  ASSUME AtapiInv, NEW d \in DevState, Device(d), d.phase # "taken",
         Waiting \/ (d.phase \in {"idle", "packet"} /\ dev.phase = "accept"),
         irq' => d.phase \in {"packet", "data", "idle"},
         ~Waiting /\ irq' => d.phase = "packet",
         state # "status", dev.phase # "idle", d.err => d.phase = "idle",
         Waiting => /\ d.left >= 0
                    /\ transfer + d.left <= limit + Extra
                    /\ d.phase = "data" => d.n > 0 /\ d.n <= d.left
  PROVE  AtapiInv'
<1> USE DEF AtapiInv, Device, call, handler
<1>1. Typed'
  BY DEF Typed
<1>2. DeviceInv'
  BY DEF DeviceInv, Waiting
<1>3. LoopInv'
  BY DEF LoopInv
<1>4. HandlerInv'
  BY DEF HandlerInv, Waiting
<1> QED BY <1>1, <1>2, <1>3, <1>4

LEMMA AcceptKeeps ==
  ASSUME AtapiInv, Accept
  PROVE  AtapiInv'
<1>1. /\ dev \in DevState /\ dev.phase = "accept" /\ state # "status" /\ ~irq
      /\ ~dev.err
  BY DEF AtapiInv, Typed, DeviceInv, Accept
<1>2. Waiting => dev.left >= 0 /\ transfer + dev.left <= limit + Extra
  BY DEF AtapiInv, HandlerInv
<1>3. CASE Device([dev EXCEPT !.phase = "packet"]) /\ irq' \in BOOLEAN
  <2> DEFINE d == [dev EXCEPT !.phase = "packet"]
  <2>1. d \in DevState /\ d.phase = "packet" /\ d.left = dev.left /\ ~d.err
    BY <1>1 DEF DevState
  <2>2. Device(d)
    BY <1>3
  <2> HIDE DEF d
  <2> QED BY <1>1, <1>2, <1>3, <2>1, <2>2, DeviceKeeps
<1>4. ASSUME NEW err \in BOOLEAN,
             Device([dev EXCEPT !.phase = "idle", !.err = err]) /\ UNCHANGED irq
      PROVE  AtapiInv'
  <2> DEFINE d == [dev EXCEPT !.phase = "idle", !.err = err]
  <2>1. d \in DevState /\ d.phase = "idle" /\ d.left = dev.left
    BY <1>1 DEF DevState
  <2>2. Device(d)
    BY <1>4
  <2> HIDE DEF d
  <2> QED BY <1>1, <1>2, <1>4, <2>1, <2>2, DeviceKeeps
<1> QED BY <1>3, <1>4 DEF Accept

LEMMA StartKeeps ==
  ASSUME AtapiInv, Start
  PROVE  AtapiInv'
<1>1. /\ dev \in DevState /\ dev.phase = "taken" /\ state # "status"
      /\ Waiting /\ UNCHANGED irq /\ ~irq /\ ~dev.err
  BY DEF AtapiInv, Typed, DeviceInv, Start
<1>2. transfer = 0 /\ dev.left = limit /\ limit \in Int /\ dev.left >= 0
  BY <1>1 DEF AtapiInv, Typed, HandlerInv
<1>3. PICK e \in 0 .. Extra : Device([dev EXCEPT !.phase = "busy", !.left = @ + e])
  BY DEF Start
<1> DEFINE d == [dev EXCEPT !.phase = "busy", !.left = @ + e]
<1>4. dev.left + e \in Int /\ e \in Int /\ e >= 0 /\ e <= Extra
  BY <1>1, SizesTyped DEF DevState
<1>5. d \in DevState /\ d.phase = "busy" /\ d.left = dev.left + e /\ ~d.err
  BY <1>1, <1>4 DEF DevState
<1> HIDE DEF d
<1>6. d.left >= 0 /\ transfer + d.left <= limit + Extra
  BY <1>2, <1>4, <1>5, SizesTyped
<1> QED
  <2>1. Device(d)
    BY <1>3 DEF d
  <2> QED BY <1>1, <1>5, <1>6, <2>1, DeviceKeeps

LEMMA ReadyKeeps ==
  ASSUME AtapiInv, Ready
  PROVE  AtapiInv'
<1>1. /\ dev \in DevState /\ dev.phase = "busy" /\ state # "status"
      /\ Waiting /\ dev.left > 0 /\ ~dev.err
  BY DEF AtapiInv, Typed, DeviceInv, Ready
<1>2. dev.left >= 0 /\ transfer + dev.left <= limit + Extra
  BY <1>1 DEF AtapiInv, HandlerInv
<1>3. PICK n \in 1 .. Least(Burst, dev.left) :
        Device([dev EXCEPT !.phase = "data", !.n = n])
  BY DEF Ready
<1> DEFINE d == [dev EXCEPT !.phase = "data", !.n = n]
<1>4. n \in Int /\ n > 0 /\ n <= dev.left
  BY <1>1, SizeAssumption DEF Least, DevState
<1>5. d \in DevState /\ d.phase = "data" /\ d.left = dev.left /\ d.n = n /\ ~d.err
  BY <1>1, <1>4 DEF DevState
<1> HIDE DEF d
<1> QED
  <2>1. Device(d)
    BY <1>3 DEF d
  <2> QED BY <1>1, <1>2, <1>4, <1>5, <2>1, DeviceKeeps

LEMMA EndKeeps ==
  ASSUME AtapiInv, End \/ EndEarly
  PROVE  AtapiInv'
<1>1. /\ dev \in DevState /\ dev.phase = "busy" /\ state # "status" /\ Waiting
  BY DEF AtapiInv, Typed, DeviceInv, End, EndEarly
<1>2. dev.left >= 0 /\ transfer + dev.left <= limit + Extra
  BY <1>1 DEF AtapiInv, HandlerInv
<1>3. PICK err \in BOOLEAN : Ended(err)
  BY DEF End, EndEarly
<1> DEFINE d == [dev EXCEPT !.phase = "idle", !.err = err]
<1>4. d \in DevState /\ d.phase = "idle" /\ d.left = dev.left
  BY <1>1 DEF DevState
<1>5. Device(d)
  BY <1>3 DEF Ended
<1> HIDE DEF d
<1> QED BY <1>1, <1>2, <1>4, <1>5, DeviceKeeps

-----------------------------------------------------------------------------
(* The interrupt handler.                                                  *)

LEMMA TakenBounds ==
  ASSUME Typed, HandlerInv, Waiting, dev.phase = "data"
  PROVE  LET w == Taken(dev.n) IN
         /\ w \in Int /\ w >= 0
         /\ place + w = loop.at + (IF transfer + dev.n <= limit
                                   THEN transfer + dev.n ELSE limit)
<1>1. dev.n \in Int /\ transfer \in Int /\ limit \in Int /\ loop.at \in Int
  BY DEF Typed, DevState, LoopState
<1>2. /\ dev.n > 0 /\ transfer >= 0
      /\ place = loop.at + (IF transfer <= limit THEN transfer ELSE limit)
  BY DEF HandlerInv
<1> QED BY <1>1, <1>2 DEF Taken

LEMMA HandlerKeeps ==
  ASSUME AtapiInv, IDE_atapi_packet_interrupt
  PROVE  AtapiInv'
<1>1. irq /\ ~irq' /\ UNCHANGED <<pc, call, asr, selected, excess>>
  BY DEF IDE_atapi_packet_interrupt
<1>2. CASE dev.phase = "data"
  <2>1. Waiting /\ dev \in DevState /\ pc # "ready" /\ ~dev.err
    BY <1>1, <1>2 DEF AtapiInv, DeviceInv, Typed, Waiting
  <2>2. DataToHost
    BY <1>2 DEF IDE_atapi_packet_interrupt
  <2> DEFINE w == Taken(dev.n)
  <2>3. /\ w \in Int /\ w >= 0
        /\ place + w = loop.at + (IF transfer + dev.n <= limit
                                  THEN transfer + dev.n ELSE limit)
    BY <1>2, <2>1, TakenBounds DEF AtapiInv
  <2>4. /\ state' = "datatohost" /\ place' = place + w
        /\ transfer' = transfer + dev.n /\ limit' = limit
        /\ dev' = [dev EXCEPT !.phase = "busy", !.sent = @ + dev.n,
                              !.left = @ - dev.n, !.n = 0]
    BY <2>2 DEF DataToHost
  <2> HIDE DEF w
  <2>5. /\ dev.n \in Int /\ dev.left \in Int /\ dev.sent \in Int
        /\ dev.sent + dev.n \in Int /\ dev.left - dev.n \in Int
    BY <2>1 DEF DevState
  <2>6. /\ dev' \in DevState /\ dev'.phase = "busy" /\ dev'.left = dev.left - dev.n
        /\ ~dev'.err
    <3> DEFINE a == [dev EXCEPT !.phase = "busy"]
               b == [a EXCEPT !.sent = dev.sent + dev.n]
               c == [b EXCEPT !.left = dev.left - dev.n]
    <3>1. a \in DevState /\ a.phase = "busy" /\ ~a.err
      BY <2>1 DEF DevState
    <3>2. b \in DevState /\ b.phase = "busy" /\ ~b.err
      <4> HIDE DEF a
      <4> QED BY <2>5, <3>1 DEF DevState
    <3>3. c \in DevState /\ c.phase = "busy" /\ c.left = dev.left - dev.n /\ ~c.err
      <4> HIDE DEF b
      <4> QED BY <2>5, <3>2 DEF DevState
    <3>4. dev' = [c EXCEPT !.n = 0]
      BY <2>1, <2>4 DEF DevState
    <3> HIDE DEF c
    <3> QED BY <3>3, <3>4 DEF DevState
  <2>7. buffer' = [i \in Memory |-> buffer'[i]]
    <3>1. DOMAIN buffer = Memory
      BY DEF AtapiInv, Typed
    <3> QED BY <2>2, <3>1 DEF DataToHost
  <2>8. Typed'
    BY <1>1, <2>3, <2>4, <2>5, <2>6, <2>7 DEF AtapiInv, Typed, call
  <2>9. DeviceInv'
    BY <1>1, <2>1, <2>4, <2>6 DEF AtapiInv, DeviceInv, Waiting, call
  <2>10. LoopInv'
    BY <1>1 DEF AtapiInv, LoopInv, call
  <2>11. HandlerInv'
    <3>1. transfer \in Int /\ limit \in Int /\ loop' = loop /\ SectorSize \in Int
      BY <1>1, SizesTyped DEF AtapiInv, Typed, call
    <3>2. /\ limit = loop.io * SectorSize /\ transfer >= 0 /\ dev.left >= 0
          /\ transfer + dev.left <= limit + Extra
          /\ dev.n > 0 /\ dev.n <= dev.left
      BY <1>2, <2>1 DEF AtapiInv, HandlerInv
    <3>3. limit' = loop'.io * SectorSize
      BY <2>4, <3>1, <3>2
    <3>4. place' = loop'.at + (IF transfer' <= limit' THEN transfer' ELSE limit')
      BY <2>3, <2>4, <3>1
    <3>5. /\ transfer' >= 0 /\ dev'.left >= 0
          /\ transfer' + dev'.left <= limit' + Extra
      BY <2>4, <2>5, <2>6, <3>1, <3>2
    <3>6. pc' # "packet"
      BY <1>1, <2>1 DEF call, Waiting
    <3> QED BY <2>6, <3>3, <3>4, <3>5, <3>6 DEF HandlerInv
  <2> QED BY <2>8, <2>9, <2>10, <2>11 DEF AtapiInv
<1>3. CASE dev.phase # "data"
  <2>1. /\ state' = IF Drq THEN "command" ELSE "status"
        /\ UNCHANGED <<transfer, limit, place, buffer, dev>>
    BY <1>3 DEF IDE_atapi_packet_interrupt
  <2>2. Typed'
    BY <1>1, <2>1 DEF AtapiInv, Typed, call
  <2>3. DeviceInv'
    <3>1. dev.phase \in {"packet", "idle"} /\ (~Waiting => dev.phase = "packet")
      BY <1>1, <1>3 DEF AtapiInv, DeviceInv
    <3> QED BY <1>1, <2>1, <3>1 DEF AtapiInv, DeviceInv, Waiting, Drq, call
  <2>4. LoopInv'
    BY <1>1 DEF AtapiInv, LoopInv, call
  <2>5. HandlerInv'
    BY <1>1, <2>1 DEF AtapiInv, HandlerInv, Waiting, call
  <2> QED BY <2>2, <2>3, <2>4, <2>5 DEF AtapiInv
<1> QED BY <1>2, <1>3

-----------------------------------------------------------------------------
(* The driver's steps.                                                     *)

LEMMA SeekKeeps ==
  ASSUME AtapiInv, Seek
  PROVE  AtapiInv'
<1> USE DEF AtapiInv, Seek, handler, outer
<1>1. Typed'
  BY DEF Typed
<1>2. DeviceInv'
  BY DEF DeviceInv, Waiting
<1>3. LoopInv' /\ HandlerInv'
  BY DEF LoopInv, HandlerInv, Waiting
<1> QED BY <1>1, <1>2, <1>3

LEMMA ReadKeeps ==
  ASSUME AtapiInv, Read
  PROVE  AtapiInv'
<1>1. /\ pc = "ready" /\ ~irq /\ outcome' = "asked"
      /\ UNCHANGED <<request, asr, state, transfer, limit, place, dev, irq, excess>>
      /\ buffer' = [i \in Memory |-> Nothing]
  BY DEF Read
<1>2. \/ pc' = "failed" /\ UNCHANGED <<loop, selected>>
      \/ /\ pc' = "chunk" /\ selected' = request.drive
         /\ loop' = [lba |-> request.block, count |-> request.count, at |-> 0,
                     io |-> 0]
  BY DEF Read
<1>3. /\ request.block \in Nat /\ request.count \in Nat /\ request.drive \in Drive
      /\ request.count < CountWrap
  BY RequestAssumption DEF AtapiInv, Typed
<1>4. Typed'
  BY <1>1, <1>2, <1>3 DEF AtapiInv, Typed, LoopState
<1>5. DeviceInv'
  BY <1>1, <1>2 DEF AtapiInv, DeviceInv, Waiting
<1>6. LoopInv'
  <2>1. request.count * SectorSize \in Int
    BY <1>3, SizesTyped
  <2> QED BY <1>1, <1>2, <1>3, <2>1 DEF LoopInv
<1>7. HandlerInv'
  BY <1>2 DEF HandlerInv, Waiting
<1> QED BY <1>4, <1>5, <1>6, <1>7 DEF AtapiInv

\* A call that ends leaves nothing behind that a later one would use.
LEMMA ReturnKeeps ==
  ASSUME AtapiInv, NEW o \in {"ok", "failed"}, Return(o), UNCHANGED <<request, place,
           limit, buffer, selected, dev, irq>>,
         transfer' \in Int, excess' \in BOOLEAN,
         dev.phase \in {"idle", "accept", "packet"},
         ~irq, state' # "status"
  PROVE  AtapiInv'
<1> USE DEF Return
<1>1. Typed'
  BY DEF AtapiInv, Typed, NoLoop, LoopState
<1>2. DeviceInv'
  BY DEF AtapiInv, DeviceInv, Waiting
<1>3. LoopInv' /\ HandlerInv'
  BY DEF LoopInv, HandlerInv, Waiting
<1> QED BY <1>1, <1>2, <1>3 DEF AtapiInv

LEMMA FailsKeep ==
  ASSUME AtapiInv, NotSelected \/ PacketTimeout
  PROVE  AtapiInv'
<1>1. /\ ~irq /\ Return("failed") /\ UNCHANGED <<request, handler, outer, excess>>
      /\ pc \in {"failed", "packet"}
  BY DEF NotSelected, PacketTimeout
<1>2. dev.phase \in {"idle", "accept", "packet"} /\ state # "status"
  BY <1>1 DEF AtapiInv, DeviceInv, Waiting
<1>3. transfer' \in Int /\ excess' \in BOOLEAN
  BY <1>1 DEF AtapiInv, Typed, handler
<1> QED BY <1>1, <1>2, <1>3, ReturnKeeps DEF handler, outer

LEMMA ChunkKeeps ==
  ASSUME AtapiInv, Chunk
  PROVE  AtapiInv'
<1>1. /\ pc = "chunk" /\ ~irq
      /\ UNCHANGED <<request, state, limit, place, buffer, selected, irq, excess>>
  BY DEF Chunk
<1>2. dev.phase \in {"idle", "accept", "packet"} /\ state # "status"
  BY <1>1 DEF AtapiInv, DeviceInv, Waiting
<1>3. CASE loop.count = 0
  <2>1. Return("ok") /\ UNCHANGED <<transfer, dev>>
    BY <1>3 DEF Chunk
  <2>2. transfer' \in Int /\ excess' \in BOOLEAN
    BY <1>1, <2>1 DEF AtapiInv, Typed
  <2> QED BY <1>1, <1>2, <2>1, <2>2, ReturnKeeps
<1>4. CASE loop.count # 0
  <2> DEFINE io == Least(loop.count, MaxCount)
  <2>1. /\ pc' = "packet" /\ loop' = [loop EXCEPT !.io = io]
        /\ transfer' = 0 /\ outcome' = outcome
        /\ dev' = [phase |-> "accept", unit |-> selected, err |-> FALSE,
                   lba |-> loop.lba, left |-> 0, sent |-> 0, n |-> 0]
    BY <1>4 DEF Chunk
  <2>2. loop \in LoopState /\ loop.count >= 0
    BY <1>1 DEF AtapiInv, Typed, LoopInv
  <2>3. io \in Int /\ io >= 0 /\ io <= loop.count
    BY <2>2, SizesTyped DEF Least, LoopState
  <2> HIDE DEF io
  <2>4. /\ loop' \in LoopState /\ loop'.io = io /\ loop'.count = loop.count
        /\ loop'.at = loop.at
    BY <2>1, <2>2, <2>3 DEF LoopState
  <2>5. dev' \in DevState /\ dev'.phase = "accept" /\ ~dev'.err
    BY <2>1, <2>2 DEF DevState, LoopState, AtapiInv, Typed
  <2>6. Typed'
    BY <1>1, <2>1, <2>4, <2>5 DEF AtapiInv, Typed
  <2>7. DeviceInv'
    BY <1>1, <1>2, <2>1, <2>5 DEF AtapiInv, DeviceInv, Waiting
  <2>8. LoopInv'
    BY <1>1, <2>3, <2>4 DEF AtapiInv, LoopInv
  <2>9. HandlerInv'
    BY <2>1 DEF HandlerInv, Waiting
  <2> QED BY <2>6, <2>7, <2>8, <2>9 DEF AtapiInv
<1> QED BY <1>3, <1>4

LEMMA SendPacketKeeps ==
  ASSUME AtapiInv, SendPacket
  PROVE  AtapiInv'
<1>1. /\ pc = "packet" /\ ~irq
      /\ UNCHANGED <<request, transfer, buffer, selected, irq, excess>>
  BY DEF SendPacket
<1>2. dev.phase \in {"idle", "accept", "packet"} /\ state # "status" /\ transfer = 0
  BY <1>1 DEF AtapiInv, DeviceInv, HandlerInv, Waiting
<1>3. CASE dev.err
  <2>1. Return("failed") /\ UNCHANGED <<state, limit, place, dev>>
    BY <1>3 DEF SendPacket
  <2>2. transfer' \in Int /\ excess' \in BOOLEAN
    BY <1>1 DEF AtapiInv, Typed
  <2> QED BY <1>1, <1>2, <2>1, <2>2, ReturnKeeps
<1>4. CASE ~dev.err /\ Drq
  <2> DEFINE l == loop.io * SectorSize
  <2>1. /\ pc' = "poll" /\ UNCHANGED <<outcome, loop>> /\ state' = "idle"
        /\ limit' = l /\ place' = loop.at
        /\ dev' = [dev EXCEPT !.phase = "taken", !.left = l]
    BY <1>4 DEF SendPacket
  <2>2. /\ loop.io \in Int /\ loop.io >= 0 /\ loop.at \in Int /\ dev \in DevState
    BY <1>1 DEF AtapiInv, Typed, LoopInv, LoopState
  <2>3. l \in Int /\ l >= 0 /\ l = loop.io * SectorSize
    BY <2>2, SizesTyped, ProductMonotone
  <2> HIDE DEF l
  <2>4. dev' \in DevState /\ dev'.phase = "taken" /\ dev'.left = l /\ ~dev'.err
    BY <1>4, <2>1, <2>2, <2>3 DEF DevState
  <2>5. Typed'
    BY <1>1, <2>1, <2>2, <2>3, <2>4 DEF AtapiInv, Typed
  <2>6. DeviceInv'
    BY <1>1, <2>1, <2>4 DEF AtapiInv, DeviceInv, Waiting
  <2>7. LoopInv'
    BY <1>1, <2>1 DEF AtapiInv, LoopInv
  <2>8. HandlerInv'
    BY <1>1, <1>2, <2>1, <2>2, <2>3, <2>4, SizesTyped DEF HandlerInv
  <2> QED BY <2>5, <2>6, <2>7, <2>8 DEF AtapiInv
<1>5. CASE ~dev.err /\ ~Drq
  <2>1. pc' = "break" /\ UNCHANGED <<outcome, loop, state, limit, place, dev>>
    BY <1>5 DEF SendPacket
  <2> USE DEF AtapiInv
  <2>2. Typed'
    BY <1>1, <2>1 DEF Typed
  <2>3. DeviceInv'
    BY <1>1, <2>1 DEF DeviceInv, Waiting
  <2>4. LoopInv'
    BY <1>1, <2>1 DEF LoopInv
  <2>5. HandlerInv'
    BY <2>1 DEF HandlerInv, Waiting
  <2> QED BY <2>2, <2>3, <2>4, <2>5
<1> QED BY <1>3, <1>4, <1>5

LEMMA PollKeeps ==
  ASSUME AtapiInv, ReadStatus
  PROVE  AtapiInv'
<1>1. /\ pc = "poll" /\ pc' = "check" /\ ~irq
      /\ asr' = [bsy |-> Bsy, err |-> ~Bsy /\ dev.err]
      /\ UNCHANGED <<call, handler, outer, excess>>
  BY DEF ReadStatus
<1> USE DEF AtapiInv, call, handler, outer
<1>2. Typed'
  BY <1>1 DEF Typed
<1>3. DeviceInv'
  BY <1>1 DEF DeviceInv, Waiting
<1>4. LoopInv'
  BY <1>1 DEF LoopInv
<1>5. HandlerInv'
  BY <1>1 DEF HandlerInv, Waiting
<1> QED BY <1>2, <1>3, <1>4, <1>5

LEMMA MovedTyped ==
  ASSUME AtapiInv, Waiting
  PROVE  Moved \in Int /\ Moved >= 0
<1>1. transfer \in Nat
  BY DEF AtapiInv, HandlerInv, Typed
<1> QED BY <1>1, SizesTyped, QuotientNotNegative DEF Moved

(* A command has ended.  As long as it has moved no more sectors than it   *)
(* should, the count of those that are left does not wrap.                 *)
LEMMA RestTyped ==
  ASSUME AtapiInv, Waiting
  PROVE  /\ Rest \in Int /\ Rest >= 0 /\ Rest < CountWrap
         /\ Moved <= loop.io => Rest = loop.count - Moved
<1>1. Moved \in Int /\ Moved >= 0
  BY MovedTyped
<1>2. /\ loop.count \in Int /\ loop.io \in Int /\ loop.io <= loop.count
      /\ loop.count < CountWrap
  BY DEF AtapiInv, Typed, LoopState, LoopInv, Waiting
<1> HIDE DEF Moved
<1> DEFINE c == loop.count - Moved
<1>3. c \in Int /\ c < CountWrap /\ (Moved <= loop.io => c >= 0)
  BY <1>1, <1>2, SizesTyped
<1>4. Rest = c % CountWrap
  BY DEF Rest
<1> HIDE DEF c
<1>5. Rest \in Int /\ Rest >= 0 /\ Rest < CountWrap
  BY <1>3, <1>4, SizesTyped, Wraps
<1>6. Moved <= loop.io => Rest = c
  BY <1>3, <1>4, SizesTyped, NoWrap
<1> QED BY <1>5, <1>6 DEF c

LEMMA CompletedKeeps ==
  ASSUME AtapiInv, Completed, pc = "check", ~irq, dev.phase = "idle",
         UNCHANGED <<request, transfer, limit, place, buffer, selected, dev, irq>>
  PROVE  AtapiInv'
<1>1. state' = "idle" /\ Waiting
  BY DEF Completed, Waiting
<1>2. CASE ~asr.err /\ Accepted
  <2>1. /\ pc' = "chunk" /\ UNCHANGED outcome
        /\ loop' = [lba |-> loop.lba + Moved, count |-> Rest,
                    at |-> loop.at + Moved * SectorSize, io |-> 0]
        /\ excess' = (excess \/ Moved > loop.io)
    BY <1>2 DEF Completed
  <2>2. /\ Moved \in Int /\ Moved >= 0 /\ Rest \in Int /\ Rest >= 0
        /\ Rest < CountWrap /\ (Moved <= loop.io => Rest = loop.count - Moved)
    BY <1>1, MovedTyped, RestTyped
  <2>3. /\ loop.count \in Int /\ loop.at \in Int /\ loop.lba \in Int
        /\ loop.io \in Int /\ loop.io <= loop.count /\ loop.at >= 0
        /\ ~excess =>
             loop.at + loop.count * SectorSize = request.count * SectorSize
    BY <1>1 DEF AtapiInv, Typed, LoopState, LoopInv, Waiting
  <2> HIDE DEF Moved, Rest
  <2>4. /\ Moved * SectorSize \in Int /\ Moved * SectorSize >= 0
        /\ (loop.count - Moved) * SectorSize
             = loop.count * SectorSize - Moved * SectorSize
        /\ loop.count * SectorSize \in Int
    BY <2>2, <2>3, SizesTyped, ProductMonotone
  <2>5. loop' \in LoopState
    BY <2>1, <2>2, <2>3, <2>4 DEF LoopState
  <2>6. Typed'
    BY <2>1, <2>5 DEF AtapiInv, Typed
  <2>7. DeviceInv'
    BY <1>1, <2>1 DEF AtapiInv, DeviceInv, Waiting
  <2>8. LoopInv'
    <3>1. /\ loop'.count = Rest /\ loop'.io = 0
          /\ loop'.at = loop.at + Moved * SectorSize
      BY <2>1
    <3>2. ~excess' => ~excess /\ Moved <= loop.io
      <4>1. ~excess' => ~excess /\ ~(Moved > loop.io)
        BY <2>1
      <4> QED BY <2>2, <2>3, <4>1
    <3>3. ASSUME ~excess'
          PROVE  loop'.at + loop'.count * SectorSize = request.count * SectorSize
      <4>1. loop'.count = loop.count - Moved
        BY <2>2, <3>1, <3>2, <3>3
      <4> QED BY <2>3, <2>4, <3>1, <3>2, <3>3, <4>1
    <3>4. /\ loop'.count >= 0 /\ loop'.at >= 0 /\ loop'.io <= loop'.count
          /\ loop'.io >= 0 /\ loop'.count < CountWrap
      BY <2>2, <2>3, <2>4, <3>1
    <3> QED BY <3>3, <3>4 DEF LoopInv
  <2>9. HandlerInv'
    BY <2>1 DEF HandlerInv, Waiting
  <2> QED BY <2>6, <2>7, <2>8, <2>9 DEF AtapiInv
<1>3. CASE ~(~asr.err /\ Accepted)
  <2>1. Return("failed") /\ UNCHANGED excess
    BY <1>3 DEF Completed
  <2>2. transfer' \in Int /\ excess' \in BOOLEAN
    BY <2>1 DEF AtapiInv, Typed
  <2> QED BY <1>1, <2>1, <2>2, ReturnKeeps
<1> QED BY <1>2, <1>3

LEMMA CheckStateKeeps ==
  ASSUME AtapiInv, CheckState \/ StatusTimeout
  PROVE  AtapiInv'
<1>1. /\ pc = "check" /\ ~irq
      /\ UNCHANGED <<request, transfer, limit, place, buffer, selected, dev, irq>>
      /\ asr' = NoStatus
  BY DEF CheckState, StatusTimeout, outer
<1>2. CASE Completed /\ (asr.err \/ state = "status")
  <2>1. dev.phase = "idle"
    BY <1>1, <1>2 DEF AtapiInv, DeviceInv
  <2> QED BY <1>1, <1>2, <2>1, CompletedKeeps
<1>3. CASE pc' \in {"poll", "panic"} /\ UNCHANGED <<outcome, loop, state, excess>>
  <2> USE DEF AtapiInv
  <2>1. Typed'
    BY <1>1, <1>3 DEF Typed
  <2>2. DeviceInv'
    BY <1>1, <1>3 DEF DeviceInv, Waiting
  <2>3. LoopInv'
    BY <1>1, <1>3 DEF LoopInv
  <2>4. HandlerInv'
    BY <1>1, <1>3 DEF HandlerInv, Waiting
  <2> QED BY <2>1, <2>2, <2>3, <2>4
<1> QED BY <1>2, <1>3 DEF CheckState, StatusTimeout, Ending

LEMMA NextKeeps ==
  ASSUME AtapiInv, [Next]_vars
  PROVE  AtapiInv'
<1>1. CASE Seek
  BY <1>1, SeekKeeps
<1>2. CASE Read
  BY <1>2, ReadKeeps
<1>3. CASE Driver \/ PacketTimeout \/ StatusTimeout
  BY <1>3, FailsKeep, ChunkKeeps, SendPacketKeeps, PollKeeps, CheckStateKeeps
  DEF Driver
<1>4. CASE DeviceWorks \/ EndEarly
  BY <1>4, AcceptKeeps, StartKeeps, ReadyKeeps, EndKeeps DEF DeviceWorks
<1>5. CASE IDE_atapi_packet_interrupt
  BY <1>5, HandlerKeeps
<1>6. CASE UNCHANGED vars
  <2> USE <1>6 DEF vars, call, handler, outer, AtapiInv
  <2>1. Typed'
    BY DEF Typed
  <2>2. DeviceInv'
    BY DEF DeviceInv, Waiting
  <2>3. LoopInv'
    BY DEF LoopInv
  <2>4. HandlerInv'
    BY DEF HandlerInv, Waiting
  <2> QED BY <2>1, <2>2, <2>3, <2>4
<1> QED BY <1>1, <1>2, <1>3, <1>4, <1>5, <1>6 DEF Next, Works

LEMMA Invariance == Spec => []AtapiInv
BY InitEstablishes, NextKeeps, PTL DEF Spec

-----------------------------------------------------------------------------
\* What NoOverrun says of a step.
Within ==
  \A i \in Memory :
    buffer'[i] # buffer[i] /\ outcome' = outcome =>
      /\ pc \in {"poll", "check", "panic"}
      /\ loop.at <= i /\ i < loop.at + loop.io * SectorSize
      /\ ~excess => i < request.count * SectorSize

LEMMA HandlerWithin ==
  ASSUME AtapiInv, IDE_atapi_packet_interrupt
  PROVE  Within
<1> SUFFICES ASSUME NEW i \in Memory, buffer'[i] # buffer[i]
             PROVE  /\ Waiting
                    /\ loop.at <= i /\ i < loop.at + loop.io * SectorSize
                    /\ ~excess => i < request.count * SectorSize
  BY DEF Within, Waiting
<1>1. dev.phase = "data" /\ DataToHost
  BY DEF IDE_atapi_packet_interrupt
<1>2. Waiting
  BY <1>1 DEF AtapiInv, DeviceInv
<1> DEFINE w == Taken(dev.n)
<1>3. place <= i /\ i < place + w
  <2>1. DOMAIN buffer = Memory
    BY DEF AtapiInv, Typed
  <2> HIDE DEF w
  <2>2. buffer'[i] = IF place <= i /\ i < place + w
                     THEN Unit(dev.sent + i - place) ELSE buffer[i]
    BY <1>1, <2>1 DEF DataToHost, w
  <2> QED BY <2>2
<1>4. /\ w \in Int
      /\ place + w = loop.at + (IF transfer + dev.n <= limit
                                THEN transfer + dev.n ELSE limit)
  BY <1>1, <1>2, TakenBounds DEF AtapiInv
<1> HIDE DEF w
<1>5. /\ transfer \in Int /\ limit \in Int /\ place \in Int /\ loop.at \in Int
      /\ dev.n \in Int /\ loop.io \in Int /\ loop.count \in Int
      /\ transfer >= 0 /\ limit = loop.io * SectorSize
      /\ place = loop.at + (IF transfer <= limit THEN transfer ELSE limit)
      /\ loop.io >= 0 /\ loop.io <= loop.count
      /\ ~excess =>
           loop.at + loop.count * SectorSize = request.count * SectorSize
  BY <1>2 DEF AtapiInv, Typed, LoopState, DevState, HandlerInv, LoopInv, Waiting
<1>6. i \in Int
  <2>1. ASSUME NEW j \in Memory PROVE j \in Int
    BY DEF Memory
  <2> QED BY <2>1
<1>7. limit <= loop.count * SectorSize /\ limit >= 0
      /\ loop.count * SectorSize \in Int
  BY <1>5, SizesTyped, ProductMonotone
<1>8. loop.at <= place
  BY <1>5, <1>7
<1>9. place + w <= loop.at + limit /\ limit \in Int
  BY <1>4, <1>5
<1>10. loop.at <= i /\ i < loop.at + limit
  BY <1>3, <1>4, <1>5, <1>6, <1>8, <1>9
<1>11. ASSUME ~excess PROVE i < request.count * SectorSize
  <2>1. loop.at + loop.count * SectorSize = request.count * SectorSize
    BY <1>5, <1>11
  <2>2. loop.at + limit <= loop.at + loop.count * SectorSize
    BY <1>5, <1>7
  <2> QED BY <1>5, <1>6, <1>7, <1>10, <2>1, <2>2
<1> QED BY <1>2, <1>5, <1>10, <1>11

(* However the device divides, shortens or overfills a transfer, and       *)
(* whatever became of the commands before, the handler writes only to the  *)
(* part of memory the command in progress is for                           *)
(* (atapi-controller.cpp:430-445), and this is a part of what the read in  *)
(* progress asked for, until a command that has moved more sectors than it *)
(* should passes for one that has moved too few (atapi-device.cpp:307).    *)
THEOREM HandlerStaysInside == Spec => NoOverrun
<1>1. AtapiInv /\ [Next]_vars => [Within]_vars
  <2> SUFFICES ASSUME AtapiInv, Next PROVE Within
    OBVIOUS
  <2>1. CASE IDE_atapi_packet_interrupt
    BY <2>1, HandlerWithin
  <2>2. CASE Read
    BY <2>2 DEF Read, AtapiInv, DeviceInv, Within
  <2>3. CASE Seek \/ Driver \/ PacketTimeout \/ StatusTimeout
    BY <2>3 DEF Seek, Driver, NotSelected, Chunk, SendPacket, ReadStatus,
       CheckState, PacketTimeout, StatusTimeout, handler, Within
  <2>4. CASE DeviceWorks \/ EndEarly
    BY <2>4 DEF DeviceWorks, Accept, Start, Ready, End, EndEarly, Ended,
       Device, handler, Within
  <2> QED BY <2>1, <2>2, <2>3, <2>4 DEF Next, Works
<1> QED BY <1>1, Invariance, PTL DEF Spec, NoOverrun, Within

-----------------------------------------------------------------------------
(* What is in the buffer.                                                  *)

\* What belongs into a unit of the caller's buffer.
Cell(i) ==
  <<request.drive, request.block + (i \div SectorSize), i % SectorSize>>

\* How many units of the buffer are filled for good.
Filled ==
  IF pc \in {"chunk", "packet"} THEN loop.at
  ELSE IF Waiting THEN place
  ELSE IF outcome = "ok" THEN request.count * SectorSize
  ELSE 0

(* The loop and the device stand where the unit after the filled ones      *)
(* comes from.                                                             *)
LoopStands ==
  pc # "ready" /\ pc # "failed" =>
    /\ selected = request.drive
    /\ loop.lba + loop.count = request.block + request.count
DeviceStands ==
  pc = "packet" \/ Waiting =>
    dev.unit = selected /\ dev.lba = loop.lba /\ dev.sent = transfer
FilledRight == \A i \in Nat : i < Filled => buffer[i] = Cell(i)

DataInv == LoopStands /\ DeviceStands /\ FilledRight

-----------------------------------------------------------------------------
(* Sectors and units.                                                      *)

LEMMA DivisionUnique ==
  ASSUME NEW q \in Int, NEW r \in Int, NEW s \in Nat, s > 0, 0 <= r, r < s
  PROVE  (q * s + r) \div s = q /\ (q * s + r) % s = r
OBVIOUS

LEMMA Shifted ==
  ASSUME NEW k \in Nat, NEW a \in Nat, NEW s \in Nat, s > 0
  PROVE  (a * s + k) \div s = a + (k \div s) /\ (a * s + k) % s = k % s
<1> DEFINE q == k \div s
           r == k % s
<1>1. q \in Int /\ r \in Int /\ k = q * s + r /\ 0 <= r /\ r < s
  OBVIOUS
<1> HIDE DEF q, r
<1>2. a * s + k = (a + q) * s + r
  <2>1. (a + q) * s = a * s + q * s
    BY <1>1
  <2> QED BY <1>1, <2>1
<1>3. a + q \in Int
  BY <1>1
<1>4. ((a + q) * s + r) \div s = a + q /\ ((a + q) * s + r) % s = r
  BY <1>1, <1>3, DivisionUnique
<1> QED BY <1>2, <1>4 DEF q, r

LEMMA QuotientTimes ==
  ASSUME NEW t \in Nat, NEW s \in Nat, s > 0
  PROVE  (t \div s) * s <= t
OBVIOUS

LEMMA FactorNotNegative ==
  ASSUME NEW a \in Int, NEW s \in Nat, s > 0, a * s >= 0
  PROVE  a >= 0
<1> SUFFICES ASSUME a <= -1 PROVE FALSE
  OBVIOUS
<1>1. a * s <= (-1) * s
  BY ProductMonotone
<1> QED BY <1>1

\* There is room for what was asked for.
LEMMA RequestFits ==
  ASSUME Typed, NEW i \in Nat, i < request.count * SectorSize
  PROVE  i \in Memory
<1> DEFINE S == {Size(q) : q \in Request}
<1>1. \A q \in Request : q.count \in Nat /\ Size(q) \in Int
  BY RequestAssumption, SizesTyped DEF Size
<1>2. \E s \in S : \A q \in Request : Size(q) <= s
  <2>1. PICK m \in Request : \A p \in Request : p.count <= m.count
    BY RequestAssumption
  <2>2. ASSUME NEW p \in Request PROVE Size(p) <= Size(m)
    BY <1>1, <2>1, SizesTyped, ProductMonotone DEF Size
  <2> QED BY <2>2
<1>3. Largest \in S /\ \A q \in Request : Size(q) <= Largest
  BY <1>2 DEF Largest
<1>4. Largest \in Int /\ Size(request) <= Largest
  BY <1>1, <1>3 DEF Typed
<1> HIDE DEF S
<1>5. i <= Largest + Guard - 1
  BY <1>1, <1>4, SizeAssumption DEF Size, Typed
<1> QED BY <1>4, <1>5, SizeAssumption DEF Memory

\* Before the first unit that is missing, only whole sectors are done with.
LEMMA LoopAtSector ==
  ASSUME AtapiInv, ~excess, pc # "ready", pc # "failed"
  PROVE  LET a == request.count - loop.count
         IN  a \in Nat /\ loop.at = a * SectorSize
<1> DEFINE a == request.count - loop.count
<1>1. /\ request.count \in Nat /\ loop.count \in Int /\ loop.at \in Int
      /\ loop.at >= 0
      /\ loop.at + loop.count * SectorSize = request.count * SectorSize
  BY RequestAssumption DEF AtapiInv, Typed, LoopInv, LoopState
<1>2. a * SectorSize = request.count * SectorSize - loop.count * SectorSize
  BY <1>1, SizesTyped
<1>3. loop.count * SectorSize \in Int /\ request.count * SectorSize \in Int
  BY <1>1, SizesTyped
<1>4. loop.at = a * SectorSize
  BY <1>1, <1>2, <1>3
<1>5. a \in Int
  BY <1>1
<1> HIDE DEF a
<1>6. a >= 0
  BY <1>1, <1>4, <1>5, SizesTyped, FactorNotNegative
<1> QED BY <1>4, <1>5, <1>6 DEF a

-----------------------------------------------------------------------------
(* The device leaves the driver and the place it sends from alone.         *)

LEMMA DeviceKeepsData ==
  ASSUME AtapiInv, DataInv, DeviceWorks \/ EndEarly
  PROVE  DataInv'
<1>1. UNCHANGED <<pc, call, handler, selected>>
  BY DEF DeviceWorks, Accept, Start, Ready, End, EndEarly, Ended, Device
<1>2. dev'.unit = dev.unit /\ dev'.lba = dev.lba /\ dev'.sent = dev.sent
  <2>1. dev \in DevState
    BY DEF AtapiInv, Typed
  <2>2. CASE Accept
    BY <2>1, <2>2 DEF Accept, Device, DevState
  <2>3. CASE Start
    BY <2>1, <2>3 DEF Start, Device, DevState
  <2>4. CASE Ready
    BY <2>1, <2>4 DEF Ready, Device, DevState
  <2>5. CASE End \/ EndEarly
    BY <2>1, <2>5 DEF End, EndEarly, Ended, Device, DevState
  <2> QED BY <2>2, <2>3, <2>4, <2>5 DEF DeviceWorks
<1> USE <1>1 DEF DataInv, call, handler
<1>3. LoopStands'
  BY DEF LoopStands
<1>4. DeviceStands'
  BY <1>2 DEF DeviceStands, Waiting
<1>5. FilledRight'
  BY DEF FilledRight, Filled, Waiting, Cell
<1> QED BY <1>3, <1>4, <1>5

-----------------------------------------------------------------------------
(* The interrupt handler: what it stores is what belongs there.            *)

LEMMA StoredRight ==
  ASSUME AtapiInv, DataInv, ~excess, Waiting, dev.phase = "data", DataToHost,
         NEW i \in Nat, i < place'
  PROVE  buffer'[i] = Cell(i)
<1> DEFINE w == Taken(dev.n)
<1>1. /\ w \in Int
      /\ place + w = loop.at + (IF transfer + dev.n <= limit
                                THEN transfer + dev.n ELSE limit)
  BY TakenBounds DEF AtapiInv
<1>2. place' = place + w
  BY DEF DataToHost
<1>3. /\ transfer \in Int /\ limit \in Int /\ place \in Int /\ loop.at \in Int
      /\ dev.n \in Int /\ loop.io \in Int /\ loop.count \in Int
      /\ transfer >= 0 /\ limit = loop.io * SectorSize
      /\ place = loop.at + (IF transfer <= limit THEN transfer ELSE limit)
      /\ loop.io >= 0 /\ loop.io <= loop.count
      /\ loop.at + loop.count * SectorSize = request.count * SectorSize
  BY DEF AtapiInv, Typed, LoopState, DevState, HandlerInv, LoopInv, Waiting
<1>4. limit <= loop.count * SectorSize /\ loop.count * SectorSize \in Int
  BY <1>3, SizesTyped, ProductMonotone
<1>5. i \in Memory
  <2>1. place + w <= loop.at + loop.count * SectorSize
    BY <1>1, <1>3, <1>4
  <2>2. i < request.count * SectorSize
    BY <1>1, <1>2, <1>3, <1>4, <2>1
  <2> QED BY <2>2, RequestFits DEF AtapiInv
<1>6. buffer'[i] = IF place <= i /\ i < place + w
                   THEN Unit(dev.sent + i - place) ELSE buffer[i]
  <2>1. DOMAIN buffer = Memory
    BY DEF AtapiInv, Typed
  <2> HIDE DEF w
  <2> QED BY <1>5, <2>1 DEF DataToHost, w
<1>7. CASE i < place
  <2>1. Filled = place
    BY DEF Filled, Waiting
  <2> HIDE DEF w
  <2> QED BY <1>3, <1>6, <1>7, <2>1 DEF DataInv, FilledRight
<1>8. CASE ~(i < place)
  <2> DEFINE a == request.count - loop.count
             k == i - loop.at
  <2>1. transfer < limit
    BY <1>2, <1>3, <1>8 DEF Taken
  <2>2. k \in Nat /\ dev.sent + i - place = k
    BY <1>3, <1>8, <2>1 DEF DataInv, DeviceStands
  <2>3. a \in Nat /\ loop.at = a * SectorSize
    BY LoopAtSector DEF Waiting
  <2>4. i = a * SectorSize + k
    BY <1>3, <2>3
  <2>5. dev.unit = request.drive /\ dev.lba = request.block + a
    <3>1. /\ dev.lba = loop.lba /\ dev.unit = selected /\ selected = request.drive
          /\ loop.lba + loop.count = request.block + request.count
      BY DEF DataInv, DeviceStands, LoopStands, Waiting
    <3>2. loop.lba \in Int /\ request.block \in Int /\ request.count \in Int
      BY RequestAssumption DEF AtapiInv, Typed, LoopState
    <3> QED BY <1>3, <3>1, <3>2
  <2> HIDE DEF a, k
  <2>6. i \div SectorSize = a + (k \div SectorSize) /\ i % SectorSize = k % SectorSize
    BY <2>2, <2>3, <2>4, SizesTyped, Shifted
  <2>7. k \div SectorSize \in Int /\ request.block \in Int
    BY <2>2, SizesTyped, RequestAssumption DEF AtapiInv, Typed
  <2>8. dev.lba + (k \div SectorSize) = request.block + (i \div SectorSize)
    BY <2>3, <2>5, <2>6, <2>7
  <2>9. buffer'[i] = Unit(k)
    <3>1. place <= i /\ i < place + w
      BY <1>2, <1>3, <1>8
    <3> HIDE DEF w
    <3> QED BY <1>6, <2>2, <3>1
  <2> QED BY <2>5, <2>6, <2>8, <2>9 DEF Unit, Cell
<1> QED BY <1>7, <1>8

LEMMA HandlerKeepsData ==
  ASSUME AtapiInv, DataInv, ~excess, IDE_atapi_packet_interrupt
  PROVE  DataInv'
<1>1. UNCHANGED <<pc, call, selected>>
  BY DEF IDE_atapi_packet_interrupt
<1>2. LoopStands'
  BY <1>1 DEF DataInv, LoopStands, call
<1>3. CASE dev.phase = "data"
  <2>1. Waiting /\ dev \in DevState /\ DataToHost
    BY <1>3 DEF AtapiInv, DeviceInv, Typed, IDE_atapi_packet_interrupt
  <2>2. /\ dev'.unit = dev.unit /\ dev'.lba = dev.lba
        /\ dev'.sent = dev.sent + dev.n /\ transfer' = transfer + dev.n
    BY <2>1 DEF DataToHost, DevState
  <2>3. DeviceStands'
    BY <1>1, <2>1, <2>2 DEF DataInv, DeviceStands, call
  <2>4. Filled' = place'
    BY <1>1, <2>1 DEF Filled, Waiting
  <2>5. ASSUME NEW i \in Nat, i < Filled'
        PROVE  buffer'[i] = Cell(i)'
    <3>1. buffer'[i] = Cell(i)
      BY <1>3, <2>1, <2>4, <2>5, StoredRight
    <3> QED BY <1>1, <3>1 DEF Cell, call
  <2> QED BY <1>2, <2>3, <2>5 DEF DataInv, FilledRight
<1>4. CASE dev.phase # "data"
  <2> USE <1>1, <1>4 DEF DataInv, IDE_atapi_packet_interrupt, call
  <2>1. DeviceStands'
    BY DEF DeviceStands, Waiting
  <2>2. FilledRight'
    BY DEF FilledRight, Filled, Waiting, Cell
  <2> QED BY <1>2, <2>1, <2>2
<1> QED BY <1>3, <1>4

-----------------------------------------------------------------------------
(* The driver's steps.                                                     *)

LEMMA SeekReadKeepData ==
  ASSUME AtapiInv, DataInv, Seek \/ Read
  PROVE  DataInv'
<1>1. CASE Seek
  <2>1. pc' = "ready" /\ outcome' = "idle"
    BY <1>1 DEF Seek
  <2>2. Filled' = 0
    BY <2>1 DEF Filled, Waiting
  <2> QED BY <2>1, <2>2 DEF DataInv, LoopStands, DeviceStands, FilledRight, Waiting
<1>2. CASE Read
  <2>1. /\ outcome' = "asked" /\ request' = request
        /\ \/ pc' = "failed"
           \/ /\ pc' = "chunk" /\ selected' = request.drive
              /\ loop' = [lba |-> request.block, count |-> request.count,
                          at |-> 0, io |-> 0]
    BY <1>2 DEF Read
  <2>2. Filled' = 0
    BY <2>1 DEF Filled, Waiting
  <2> QED BY <2>1, <2>2 DEF DataInv, LoopStands, DeviceStands, FilledRight, Waiting
<1> QED BY <1>1, <1>2

\* A call that has failed promises nothing.
LEMMA FailureKeepsData ==
  ASSUME Return("failed")
  PROVE  DataInv'
<1>1. pc' = "ready" /\ outcome' = "failed"
  BY DEF Return
<1>2. Filled' = 0
  BY <1>1 DEF Filled, Waiting
<1> QED BY <1>1, <1>2 DEF DataInv, LoopStands, DeviceStands, FilledRight, Waiting

LEMMA ChunkKeepsData ==
  ASSUME AtapiInv, DataInv, ~excess, Chunk
  PROVE  DataInv'
<1>1. pc = "chunk" /\ UNCHANGED <<request, buffer, selected>>
  BY DEF Chunk
<1>2. /\ loop \in LoopState /\ loop.count \in Int
      /\ loop.at + loop.count * SectorSize = request.count * SectorSize
  BY <1>1 DEF AtapiInv, Typed, LoopInv, LoopState
<1>3. Filled = loop.at
  BY <1>1 DEF Filled
<1>4. CASE loop.count = 0
  <2>1. pc' = "ready" /\ outcome' = "ok"
    BY <1>4 DEF Chunk, Return
  <2>2. Filled' = request.count * SectorSize
    BY <1>1, <2>1 DEF Filled, Waiting
  <2>3. request.count * SectorSize = loop.at
    BY <1>2, <1>4, SizesTyped DEF LoopState
  <2>4. FilledRight'
    BY <1>1, <1>3, <2>2, <2>3 DEF DataInv, FilledRight, Cell
  <2> QED BY <2>1, <2>4 DEF DataInv, LoopStands, DeviceStands, Waiting
<1>5. CASE loop.count # 0
  <2>1. /\ pc' = "packet" /\ transfer' = 0
        /\ loop' = [loop EXCEPT !.io = Least(loop.count, MaxCount)]
        /\ dev' = [phase |-> "accept", unit |-> selected, err |-> FALSE,
                   lba |-> loop.lba, left |-> 0, sent |-> 0, n |-> 0]
    BY <1>5 DEF Chunk
  <2>2. /\ loop'.lba = loop.lba /\ loop'.count = loop.count
        /\ loop'.at = loop.at
    BY <1>2, <2>1 DEF LoopState
  <2>3. LoopStands'
    BY <1>1, <2>2 DEF DataInv, LoopStands
  <2>4. DeviceStands'
    BY <1>1, <2>1, <2>2 DEF DeviceStands
  <2>5. Filled' = Filled
    BY <1>3, <2>1, <2>2 DEF Filled
  <2>6. FilledRight'
    BY <1>1, <2>5 DEF DataInv, FilledRight, Cell
  <2> QED BY <2>3, <2>4, <2>6 DEF DataInv
<1> QED BY <1>4, <1>5

LEMMA SendPacketKeepsData ==
  ASSUME AtapiInv, DataInv, SendPacket
  PROVE  DataInv'
<1>1. CASE dev.err
  BY <1>1, FailureKeepsData DEF SendPacket
<1>2. CASE ~dev.err /\ Drq
  <2>1. /\ pc = "packet" /\ pc' = "poll" /\ place' = loop.at
        /\ UNCHANGED <<request, transfer, buffer, selected, outcome, loop>>
        /\ dev' = [dev EXCEPT !.phase = "taken", !.left = loop.io * SectorSize]
    BY <1>2 DEF SendPacket
  <2>2. dev'.unit = dev.unit /\ dev'.lba = dev.lba /\ dev'.sent = dev.sent
    BY <2>1 DEF AtapiInv, Typed, DevState
  <2>3. LoopStands'
    BY <2>1 DEF DataInv, LoopStands
  <2>4. DeviceStands'
    BY <2>1, <2>2 DEF DataInv, DeviceStands
  <2>5. Filled' = Filled
    BY <2>1 DEF Filled, Waiting
  <2>6. FilledRight'
    BY <2>1, <2>5 DEF DataInv, FilledRight, Cell
  <2> QED BY <2>3, <2>4, <2>6 DEF DataInv
<1>3. CASE ~dev.err /\ ~Drq
  <2>1. pc' = "break" /\ UNCHANGED <<request, loop, selected>>
    BY <1>3 DEF SendPacket
  <2>2. /\ pc = "packet" /\ Filled' = IF outcome' = "ok" THEN Filled' ELSE 0
        /\ outcome' = outcome
    BY <1>3, <2>1 DEF SendPacket, Filled, Waiting
  <2>3. outcome = "asked"
    BY <2>2 DEF AtapiInv, DeviceInv
  <2>4. Filled' = 0
    BY <2>2, <2>3
  <2> QED BY <2>1, <2>2, <2>4
      DEF DataInv, LoopStands, DeviceStands, FilledRight, Waiting
<1> QED BY <1>1, <1>2, <1>3

LEMMA PollKeepsData ==
  ASSUME AtapiInv, DataInv, ReadStatus
  PROVE  DataInv'
<1>1. /\ Waiting /\ Waiting'
      /\ UNCHANGED <<call, handler, outer>>
  BY DEF ReadStatus, Waiting
<1> USE <1>1 DEF DataInv, call, handler, outer, Waiting
<1>2. LoopStands' /\ DeviceStands'
  BY DEF LoopStands, DeviceStands
<1>3. FilledRight'
  BY DEF FilledRight, Filled, Cell
<1> QED BY <1>2, <1>3

LEMMA CompletedKeepsData ==
  ASSUME AtapiInv, DataInv, ~excess', Completed, pc = "check",
         UNCHANGED <<request, transfer, place, buffer, selected, dev>>
  PROVE  DataInv'
<1>1. Waiting /\ Filled = place
  BY DEF Filled, Waiting
<1>2. CASE ~asr.err /\ Accepted
  <2>1. /\ pc' = "chunk" /\ excess' = (excess \/ Moved > loop.io)
        /\ loop' = [lba |-> loop.lba + Moved, count |-> Rest,
                    at |-> loop.at + Moved * SectorSize, io |-> 0]
    BY <1>2 DEF Completed
  <2>2. /\ loop.lba \in Int /\ loop.count \in Int /\ loop.at \in Int
        /\ loop.io \in Int /\ transfer \in Nat /\ place \in Int
        /\ limit = loop.io * SectorSize
        /\ place = loop.at + (IF transfer <= limit THEN transfer ELSE limit)
    BY <1>1 DEF AtapiInv, Typed, LoopState, HandlerInv
  <2>3. Moved * SectorSize <= transfer
    BY <2>2, SizesTyped, QuotientTimes DEF Moved
  <2>4. /\ Moved \in Int /\ Moved >= 0
        /\ Moved <= loop.io => Rest = loop.count - Moved
    BY <1>1, MovedTyped, RestTyped
  <2> HIDE DEF Moved, Rest
  <2>5. Moved <= loop.io
    <3>1. ~(Moved > loop.io)
      BY <2>1
    <3> QED BY <2>2, <2>4, <3>1
  <2>6. Moved * SectorSize <= limit /\ Moved * SectorSize \in Int /\ limit \in Int
    BY <2>2, <2>4, <2>5, SizesTyped, ProductMonotone
  <2>7. Filled' = loop.at + Moved * SectorSize
    BY <2>1 DEF Filled
  <2>8. Filled' <= Filled /\ Filled' \in Int
    BY <1>1, <2>2, <2>3, <2>6, <2>7
  <2>9. LoopStands'
    <3>1. selected = request.drive /\ loop.lba + loop.count = request.block + request.count
      BY <1>1 DEF DataInv, LoopStands, Waiting
    <3>2. loop'.lba + loop'.count = loop.lba + loop.count
      BY <2>1, <2>2, <2>4, <2>5
    <3> QED BY <3>1, <3>2 DEF LoopStands
  <2>10. DeviceStands'
    BY <2>1 DEF DeviceStands, Waiting
  <2>11. FilledRight'
    <3> SUFFICES ASSUME NEW i \in Nat, i < Filled' PROVE buffer'[i] = Cell(i)'
      BY DEF FilledRight
    <3>1. i < Filled
      BY <1>1, <2>2, <2>8
    <3>2. buffer[i] = Cell(i)
      BY <3>1 DEF DataInv, FilledRight
    <3> QED BY <3>2 DEF Cell
  <2> QED BY <2>9, <2>10, <2>11 DEF DataInv
<1>3. CASE ~(~asr.err /\ Accepted)
  BY <1>3, FailureKeepsData DEF Completed
<1> QED BY <1>2, <1>3

LEMMA CheckStateKeepsData ==
  ASSUME AtapiInv, DataInv, ~excess', CheckState \/ StatusTimeout
  PROVE  DataInv'
<1>1. /\ pc = "check" /\ Waiting
      /\ UNCHANGED <<request, transfer, place, buffer, selected, dev>>
  BY DEF CheckState, StatusTimeout, outer, Waiting
<1>2. CASE Completed
  BY <1>1, <1>2, CompletedKeepsData
<1>3. CASE pc' \in {"poll", "panic"} /\ UNCHANGED loop
  <2>1. LoopStands' /\ DeviceStands'
    BY <1>1, <1>3 DEF DataInv, LoopStands, DeviceStands, Waiting
  <2>2. Filled' = Filled
    BY <1>1, <1>3 DEF Filled, Waiting
  <2>3. FilledRight'
    BY <1>1, <2>2 DEF DataInv, FilledRight, Cell
  <2> QED BY <2>1, <2>3 DEF DataInv
<1> QED BY <1>2, <1>3 DEF CheckState, StatusTimeout

\* A surplus that has passed for too few is not forgotten.
LEMMA ExcessStays ==
  ASSUME [Next]_vars, ~excess'
  PROVE  ~excess
<1>1. CASE Seek \/ Read \/ Driver \/ PacketTimeout \/ StatusTimeout
  BY <1>1 DEF Seek, Read, Driver, NotSelected, Chunk, SendPacket, ReadStatus,
     CheckState, Completed, PacketTimeout, StatusTimeout
<1>2. CASE DeviceWorks \/ EndEarly \/ IDE_atapi_packet_interrupt
  BY <1>2 DEF DeviceWorks, Accept, Start, Ready, End, EndEarly, Ended, Device,
     IDE_atapi_packet_interrupt
<1>3. CASE UNCHANGED vars
  BY <1>3 DEF vars
<1> QED BY <1>1, <1>2, <1>3 DEF Next, Works

LEMMA NextKeepsData ==
  ASSUME AtapiInv, DataInv, ~excess', [Next]_vars
  PROVE  DataInv'
<1>0. ~excess
  BY ExcessStays
<1>1. CASE Seek \/ Read
  BY <1>1, SeekReadKeepData
<1>2. CASE NotSelected \/ PacketTimeout
  BY <1>2, FailureKeepsData DEF NotSelected, PacketTimeout
<1>3. CASE Chunk \/ SendPacket \/ ReadStatus \/ CheckState \/ StatusTimeout
  BY <1>0, <1>3, ChunkKeepsData, SendPacketKeepsData, PollKeepsData,
     CheckStateKeepsData
<1>4. CASE DeviceWorks \/ EndEarly
  BY <1>4, DeviceKeepsData
<1>5. CASE IDE_atapi_packet_interrupt
  BY <1>0, <1>5, HandlerKeepsData
<1>6. CASE UNCHANGED vars
  <2> USE <1>6 DEF vars, call, handler, outer, DataInv
  <2>1. LoopStands' /\ DeviceStands'
    BY DEF LoopStands, DeviceStands, Waiting
  <2>2. FilledRight'
    BY DEF FilledRight, Filled, Waiting, Cell
  <2> QED BY <2>1, <2>2
<1> QED BY <1>1, <1>2, <1>3, <1>4, <1>5, <1>6 DEF Next, Works, Driver

\* Until then, the buffer holds what it should.
SoundData == ~excess => DataInv

LEMMA DataInvariance == Spec => [](AtapiInv /\ SoundData)
<1>1. Init => DataInv
  <2> SUFFICES ASSUME Init PROVE DataInv
    OBVIOUS
  <2>1. pc = "ready" /\ outcome = "idle"
    BY DEF Init
  <2>2. Filled = 0
    BY <2>1 DEF Filled, Waiting
  <2> QED BY <2>1, <2>2 DEF DataInv, LoopStands, DeviceStands, FilledRight, Waiting
<1>2. AtapiInv /\ SoundData /\ [Next]_vars => SoundData'
  BY ExcessStays, NextKeepsData DEF SoundData
<1>3. Init => SoundData
  BY <1>1 DEF SoundData
<1> QED BY <1>2, <1>3, Invariance, PTL DEF Spec

-----------------------------------------------------------------------------
(* The refinement.                                                         *)

Wanted ==
  [i \in 0 .. request.count - 1 |-> <<request.drive, request.block + i>>]

\* A read that has not failed delivers what was asked for.
DeliveryInv == Kept => Delivered = Wanted

LEMMA DeliveredIsWanted == AtapiInv /\ SoundData => DeliveryInv
<1> SUFFICES ASSUME AtapiInv, DataInv, outcome = "ok"
             PROVE  Delivered = Wanted
  BY DEF DeliveryInv, SoundData, Kept
<1>1. /\ request.count \in Nat /\ request.block \in Nat
      /\ Filled = request.count * SectorSize
  BY RequestAssumption DEF AtapiInv, Typed, DeviceInv, Filled, Waiting
<1>2. ASSUME NEW i \in 0 .. request.count - 1, NEW u \in 0 .. SectorSize - 1
      PROVE  buffer[i * SectorSize + u] = <<request.drive, request.block + i, u>>
  <2> DEFINE j == i * SectorSize + u
  <2>1. i * SectorSize \in Nat /\ (i + 1) * SectorSize = i * SectorSize + SectorSize
    BY <1>1, SizesTyped, ProductMonotone
  <2>2. (i + 1) * SectorSize <= request.count * SectorSize
    BY <1>1, SizesTyped, ProductMonotone
  <2>3. u \in Nat /\ u < SectorSize /\ request.count * SectorSize \in Int
    BY <1>1, SizesTyped
  <2>4. j \in Nat /\ j < Filled
    BY <1>1, <2>1, <2>2, <2>3, SizesTyped
  <2>5. j \div SectorSize = i /\ j % SectorSize = u
    BY <1>1, <2>3, SizesTyped, DivisionUnique
  <2> HIDE DEF j
  <2>6. buffer[j] = Cell(j)
    BY <2>4 DEF DataInv, FilledRight
  <2> QED BY <2>5, <2>6 DEF Cell, j
<1> QED BY <1>2 DEF Delivered, Wanted

Shown == IF outcome = "ok" /\ excess THEN "failed" ELSE outcome
Mapped == IF Kept THEN Delivered ELSE Nothing

\* A step that ends no call changes nothing the caller sees.
LEMMA QuietStep ==
  ASSUME UNCHANGED <<request, outcome>>, outcome = "ok" => UNCHANGED <<buffer, excess>>
  PROVE  UNCHANGED <<Shown, request, Mapped>>
<1>1. Delivered' = Delivered \/ outcome # "ok"
  BY DEF Delivered
<1> QED BY <1>1 DEF Shown, Mapped, Kept

\* A call that ends without delivering anything is a read that has failed.
LEMMA FailedStep ==
  ASSUME outcome = "asked", UNCHANGED request,
         outcome' = "failed" \/ (outcome' = "ok" /\ excess')
  PROVE  Promise!Fail
<1>1. Shown = "asked" /\ Mapped = Nothing
  BY DEF Shown, Mapped, Kept
<1>2. Shown' = "failed" /\ Mapped' = Nothing
  BY DEF Shown, Mapped, Kept
<1> QED BY <1>1, <1>2 DEF Promise!Fail, Shown, Mapped

LEMMA StepIsDisk ==
  ASSUME AtapiInv, DeliveryInv', Next
  PROVE  Promise!Next \/ UNCHANGED Promise!vars
<1> USE DEF Promise!Next, Promise!vars
<1>1. pc = "ready" <=> outcome # "asked"
  BY DEF AtapiInv, DeviceInv
<1>2. CASE Seek
  <2>1. /\ Shown # "asked" /\ Shown' = "idle" /\ Mapped' = Nothing
        /\ request' \in Request
    BY <1>1, <1>2 DEF Seek, Shown, Mapped, Kept
  <2>2. Promise!Seek
    BY <2>1 DEF Promise!Seek, Shown, Mapped
  <2> QED BY <2>2
<1>3. CASE Read
  <2>1. /\ Shown # "asked" /\ Shown' = "asked" /\ Mapped' = Nothing
        /\ request' = request
    BY <1>1, <1>3 DEF Read, Shown, Mapped, Kept
  <2>2. Promise!Read
    BY <2>1 DEF Promise!Read, Shown, Mapped
  <2> QED BY <2>2
<1>4. ASSUME Return("failed"), pc # "ready", UNCHANGED request
      PROVE  Promise!Fail
  BY <1>1, <1>4, FailedStep DEF Return
<1>5. ASSUME UNCHANGED <<request, outcome>>,
             outcome = "ok" => UNCHANGED <<buffer, excess>>
      PROVE  UNCHANGED Promise!vars
  BY <1>5, QuietStep DEF Shown, Mapped
<1>6. CASE NotSelected \/ PacketTimeout
  BY <1>4, <1>6 DEF NotSelected, PacketTimeout
<1>7. CASE Chunk
  <2>1. CASE loop.count = 0
    <3>1. outcome' = "ok" /\ outcome = "asked" /\ request' = request
      BY <1>1, <1>7, <2>1 DEF Chunk, Return
    <3>2. CASE excess'
      BY <3>1, <3>2, FailedStep
    <3>3. CASE ~excess'
      <4>1. Delivered' = Wanted' /\ Wanted' = Wanted
        BY <3>1, <3>3 DEF DeliveryInv, Kept, Wanted
      <4>2. Shown = "asked" /\ Shown' = "ok" /\ Mapped' = Wanted
        BY <3>1, <3>3, <4>1 DEF Shown, Mapped, Kept
      <4>3. Promise!Succeed
        BY <3>1, <4>2 DEF Promise!Succeed, Shown, Mapped, Wanted
      <4> QED BY <4>3
    <3> QED BY <3>2, <3>3
  <2>2. CASE loop.count # 0
    BY <1>1, <1>5, <1>7, <2>2 DEF Chunk
  <2> QED BY <2>1, <2>2
<1>8. CASE SendPacket
  BY <1>1, <1>4, <1>5, <1>8 DEF SendPacket
<1>9. CASE CheckState \/ StatusTimeout
  <2>1. pc = "check" /\ UNCHANGED <<request, buffer>> /\ outcome # "ok"
    BY <1>1, <1>9 DEF CheckState, StatusTimeout
  <2>2. Return("failed") \/ UNCHANGED outcome
    BY <1>9 DEF CheckState, StatusTimeout, Completed
  <2> QED BY <1>4, <1>5, <2>1, <2>2
<1>10. CASE ReadStatus
  BY <1>5, <1>10 DEF ReadStatus, call, handler
<1>11. CASE DeviceWorks \/ EndEarly
  <2>1. UNCHANGED <<call, handler, excess>>
    BY <1>11 DEF DeviceWorks, Accept, Start, Ready, End, EndEarly, Ended, Device
  <2> QED BY <1>5, <2>1 DEF call, handler
<1>12. CASE IDE_atapi_packet_interrupt
  <2>1. UNCHANGED <<request, outcome, excess>>
    BY <1>12 DEF IDE_atapi_packet_interrupt, call
  <2>2. outcome = "ok" => UNCHANGED buffer
    BY <1>1, <1>12 DEF IDE_atapi_packet_interrupt, AtapiInv, DeviceInv, Waiting
  <2> QED BY <1>5, <2>1, <2>2
<1> QED BY <1>2, <1>3, <1>6, <1>7, <1>8, <1>9, <1>10, <1>11, <1>12
    DEF Next, Works, Driver

(* The driver is a disk: whatever devices do with the packet commands, a   *)
(* read that Device::Read does not report as failed (atapi-device.cpp:33)  *)
(* has brought every sector that was asked for, each to its place, until a *)
(* command that has moved more sectors than it should passes for one that  *)
(* has moved too few (atapi-device.cpp:307).                               *)
THEOREM DriverIsADisk == Spec => ImplementsDisk
<1>1. Init => Promise!Init
  BY DEF Init, Promise!Init, Kept
<1>2. AtapiInv /\ DeliveryInv' /\ [Next]_vars => [Promise!Next]_(Promise!vars)
  <2> SUFFICES ASSUME AtapiInv, DeliveryInv', [Next]_vars
               PROVE  Promise!Next \/ UNCHANGED Promise!vars
    OBVIOUS
  <2>1. CASE Next
    BY <2>1, StepIsDisk
  <2>2. CASE UNCHANGED vars
    <3>1. UNCHANGED <<request, outcome, buffer, excess>>
      BY <2>2 DEF vars, call, handler
    <3> QED BY <3>1, QuietStep DEF Shown, Mapped, Promise!vars
  <2> QED BY <2>1, <2>2
<1> QED BY <1>1, <1>2, DataInvariance, DeliveredIsWanted, PTL
    DEF Spec, ImplementsDisk, Promise!Spec
-----------------------------------------------------------------------------
(* What the variables hold, beyond their types.                            *)

\* The rest of TypeOK: what the driver counts, and what it has to expect.
Counted ==
  /\ outcome \in {"idle", "asked", "ok", "failed"}
  /\ state \in {"idle", "command", "datatohost", "status"}
  /\ pc \in {"ready", "failed"} => loop = NoLoop
  /\ loop.lba \in Nat /\ loop.io \in 0 .. MaxCount
  /\ transfer \in 0 .. MaxCount * SectorSize + Extra
  /\ Waiting => transfer + dev.left <= limit + Extra

\* A command never asks for more than MaxCount sectors.
LEMMA LimitBounded ==
  ASSUME AtapiInv, Counted, Waiting
  PROVE  limit \in Int /\ limit <= MaxCount * SectorSize
<1>1. limit = loop.io * SectorSize /\ loop.io \in Nat /\ loop.io <= MaxCount
  BY DEF AtapiInv, HandlerInv, Counted
<1>2. loop.io * SectorSize <= MaxCount * SectorSize
  BY <1>1, SizesTyped, ProductMonotone
<1>3. loop.io * SectorSize \in Int
  BY <1>1, SizesTyped
<1> QED BY <1>1, <1>2, <1>3

LEMMA MaxUnits == MaxCount * SectorSize + Extra \in Nat
<1>1. MaxCount * SectorSize \in Nat
  BY SizesTyped
<1> QED BY <1>1, SizesTyped

LEMMA InitCounted == Init => Counted
BY SizesTyped, MaxUnits DEF Init, Counted, NoLoop, Waiting

LEMMA DeviceTyped ==
  ASSUME AtapiInv, DeviceWorks \/ EndEarly
  PROVE  dev'.left \in Int
<1>1. AtapiInv'
  BY AcceptKeeps, StartKeeps, ReadyKeeps, EndKeeps DEF DeviceWorks
<1> QED BY <1>1 DEF AtapiInv, Typed, DevState

LEMMA DeviceCounts ==
  ASSUME AtapiInv, Counted, DeviceWorks \/ EndEarly
  PROVE  Counted'
<1>1. /\ UNCHANGED <<pc, outcome, state, loop, transfer, limit>>
      /\ Waiting => dev'.left = dev.left \/ (dev.phase = "taken" /\ dev'.left <= dev.left + Extra)
  <2>1. CASE Accept
    BY <2>1 DEF Accept, Device, call, handler, AtapiInv, Typed, DevState
  <2>2. CASE Start
    <3>1. PICK e \in 0 .. Extra : Device([dev EXCEPT !.phase = "busy", !.left = @ + e])
      BY <2>2 DEF Start
    <3>2. dev.left \in Int /\ dev'.left = dev.left + e /\ dev.phase = "taken"
      BY <2>2, <3>1 DEF Start, Device, AtapiInv, Typed, DevState
    <3> QED BY <3>1, <3>2, SizesTyped DEF Device, call, handler
  <2>3. CASE Ready
    BY <2>3 DEF Ready, Device, call, handler, AtapiInv, Typed, DevState
  <2>4. CASE End \/ EndEarly
    BY <2>4 DEF End, EndEarly, Ended, Device, call, handler, AtapiInv, Typed, DevState
  <2> QED BY <2>1, <2>2, <2>3, <2>4 DEF DeviceWorks
<1>2. Waiting => transfer + dev'.left <= limit + Extra
  <2> SUFFICES ASSUME Waiting PROVE transfer + dev'.left <= limit + Extra
    OBVIOUS
  <2>1. /\ transfer \in Int /\ limit \in Int /\ dev.left \in Int
        /\ dev.phase = "taken" => transfer = 0 /\ dev.left = limit
        /\ transfer + dev.left <= limit + Extra
    BY DEF AtapiInv, Typed, HandlerInv, DevState, Counted
  <2>2. dev'.left \in Int
    BY DeviceTyped
  <2> QED BY <1>1, <2>1, <2>2, SizesTyped
<1> QED BY <1>1, <1>2 DEF Counted, Waiting

LEMMA HandlerCounts ==
  ASSUME AtapiInv, Counted, IDE_atapi_packet_interrupt
  PROVE  Counted'
<1>1. irq /\ UNCHANGED <<pc, outcome, loop>>
  BY DEF IDE_atapi_packet_interrupt, call
<1>2. CASE dev.phase = "data"
  <2>1. Waiting /\ dev \in DevState /\ transfer \in Int /\ limit \in Int
    BY <1>1, <1>2 DEF AtapiInv, DeviceInv, Typed
  <2>2. /\ state' = "datatohost" /\ transfer' = transfer + dev.n /\ limit' = limit
        /\ dev' = [dev EXCEPT !.phase = "busy", !.sent = @ + dev.n,
                              !.left = @ - dev.n, !.n = 0]
    BY <1>2 DEF IDE_atapi_packet_interrupt, DataToHost
  <2>3. dev.n \in Int /\ dev.left \in Int /\ dev'.left = dev.left - dev.n
    BY <2>1, <2>2 DEF DevState
  <2>4. /\ dev.n > 0 /\ dev.n <= dev.left /\ transfer >= 0
        /\ transfer + dev.left <= limit + Extra
    BY <1>2, <2>1 DEF AtapiInv, HandlerInv, Counted
  <2>5. limit <= MaxCount * SectorSize
    BY <2>1, LimitBounded
  <2>6. transfer' + dev'.left <= limit' + Extra
    BY <2>1, <2>2, <2>3, <2>4, SizesTyped
  <2>7. transfer' \in 0 .. MaxCount * SectorSize + Extra
    <3>1. MaxCount * SectorSize \in Int
      BY SizesTyped
    <3> QED BY <2>1, <2>2, <2>3, <2>4, <2>5, <3>1, SizesTyped
  <2> QED BY <1>1, <2>2, <2>6, <2>7 DEF Counted
<1>3. CASE dev.phase # "data"
  <2>1. state' \in {"command", "status"} /\ UNCHANGED <<transfer, limit, dev>>
    BY <1>3 DEF IDE_atapi_packet_interrupt
  <2> QED BY <1>1, <2>1 DEF Counted, Waiting
<1> QED BY <1>2, <1>3

LEMMA ChunkCounts ==
  ASSUME AtapiInv, Counted, Chunk
  PROVE  Counted'
<1>1. pc = "chunk" /\ UNCHANGED <<state, limit>>
  BY DEF Chunk
<1>2. CASE loop.count = 0
  BY <1>1, <1>2, SizesTyped DEF Chunk, Return, Counted, NoLoop, Waiting
<1>3. CASE loop.count # 0
  <2> DEFINE io == Least(loop.count, MaxCount)
  <2>1. /\ pc' = "packet" /\ loop' = [loop EXCEPT !.io = io]
        /\ transfer' = 0 /\ outcome' = outcome
    BY <1>3 DEF Chunk
  <2>2. loop \in LoopState /\ loop.count >= 0
    BY <1>1 DEF AtapiInv, Typed, LoopInv
  <2>3. io \in 0 .. MaxCount
    BY <2>2, SizesTyped DEF Least, LoopState
  <2> HIDE DEF io
  <2>4. loop'.io = io /\ loop'.lba = loop.lba
    BY <2>1, <2>2 DEF LoopState
  <2> QED BY <1>1, <2>1, <2>3, <2>4, MaxUnits DEF Counted, Waiting
<1> QED BY <1>2, <1>3

LEMMA SendPacketCounts ==
  ASSUME AtapiInv, Counted, SendPacket
  PROVE  Counted'
<1>1. pc = "packet" /\ UNCHANGED transfer
  BY DEF SendPacket
<1>2. CASE dev.err
  BY <1>1, <1>2, SizesTyped DEF SendPacket, Return, Counted, NoLoop, Waiting
<1>3. CASE ~dev.err /\ Drq
  <2> DEFINE l == loop.io * SectorSize
  <2>1. /\ pc' = "poll" /\ UNCHANGED <<outcome, loop>> /\ state' = "idle"
        /\ limit' = l
        /\ dev' = [dev EXCEPT !.phase = "taken", !.left = l]
    BY <1>3 DEF SendPacket
  <2>2. loop.io \in Int /\ transfer = 0 /\ dev \in DevState
    BY <1>1 DEF AtapiInv, HandlerInv, Counted, Typed
  <2>3. l \in Int
    BY <2>2, SizesTyped
  <2> HIDE DEF l
  <2>4. dev'.left = l
    BY <2>1, <2>2 DEF DevState
  <2>5. transfer' + dev'.left <= limit' + Extra
    BY <1>1, <2>1, <2>2, <2>3, <2>4, SizesTyped
  <2> QED BY <1>1, <2>1, <2>5 DEF Counted
<1>4. CASE ~dev.err /\ ~Drq
  BY <1>1, <1>4 DEF SendPacket, Counted, Waiting
<1> QED BY <1>2, <1>3, <1>4

LEMMA CheckStateCounts ==
  ASSUME AtapiInv, Counted, CheckState \/ StatusTimeout
  PROVE  Counted'
<1>1. pc = "check" /\ UNCHANGED <<transfer, limit, dev>>
  BY DEF CheckState, StatusTimeout, outer
<1>2. CASE pc' = "chunk"
  <2>1. /\ loop'.lba = loop.lba + Moved /\ loop'.io = 0
        /\ outcome' = outcome /\ state' = "idle"
    BY <1>2 DEF CheckState, StatusTimeout, Completed, Return
  <2>2. Moved \in Nat
    BY <1>1, MovedTyped DEF Waiting
  <2> HIDE DEF Moved
  <2>3. loop'.lba \in Nat
    BY <2>1, <2>2 DEF Counted
  <2> QED BY <1>1, <1>2, <2>1, <2>3, SizesTyped DEF Counted, Waiting
<1>3. CASE pc' # "chunk"
  BY <1>1, <1>3, SizesTyped
  DEF CheckState, StatusTimeout, Completed, Return, Counted, NoLoop, Waiting
<1> QED BY <1>2, <1>3

LEMMA NextCounts ==
  ASSUME AtapiInv, Counted, [Next]_vars
  PROVE  Counted'
<1>1. CASE Seek \/ Read
  <2>1. request \in Request /\ request.block \in Nat
    BY RequestAssumption DEF AtapiInv, Typed
  <2> QED BY <1>1, <2>1, SizesTyped
      DEF Seek, Read, handler, outer, Counted, NoLoop, Waiting
<1>2. CASE NotSelected \/ PacketTimeout
  BY <1>2, SizesTyped
  DEF NotSelected, PacketTimeout, Return, handler, Counted, NoLoop, Waiting
<1>3. CASE ReadStatus
  BY <1>3 DEF ReadStatus, call, handler, outer, Counted, Waiting
<1>4. CASE UNCHANGED vars
  BY <1>4 DEF vars, call, handler, outer, Counted, Waiting
<1> QED BY <1>1, <1>2, <1>3, <1>4, ChunkCounts, SendPacketCounts,
           CheckStateCounts, DeviceCounts, HandlerCounts DEF Next, Works, Driver

LEMMA CountedTypes == AtapiInv /\ Counted => TypeOK
<1> SUFFICES ASSUME AtapiInv, Counted PROVE TypeOK
  OBVIOUS
<1>1. request \in Request /\ request.count \in Nat
  BY RequestAssumption DEF AtapiInv, Typed
<1>2. ASSUME ~excess
      PROVE  /\ loop.count \in 0 .. request.count
             /\ loop.at \in 0 .. request.count * SectorSize
  <2>1. CASE pc \in {"ready", "failed"}
    <3>1. request.count * SectorSize \in Nat
      BY <1>1, SizesTyped
    <3> QED BY <1>1, <2>1, <3>1 DEF Counted, NoLoop
  <2>2. CASE pc \notin {"ready", "failed"}
    <3>1. /\ loop.count \in Nat /\ loop.at \in Nat
          /\ loop.at + loop.count * SectorSize = request.count * SectorSize
      BY <1>2, <2>2 DEF AtapiInv, LoopInv, Typed, LoopState
    <3>2. /\ loop.count * SectorSize \in Nat /\ request.count * SectorSize \in Nat
          /\ (request.count - loop.count) * SectorSize
               = request.count * SectorSize - loop.count * SectorSize
      BY <1>1, <3>1, SizesTyped
    <3>3. request.count - loop.count >= 0
      <4>1. request.count - loop.count \in Int
        BY <1>1, <3>1
      <4> QED BY <3>1, <3>2, <4>1, SizesTyped, FactorNotNegative
    <3> QED BY <1>1, <3>1, <3>2, <3>3
  <2> QED BY <2>1, <2>2
<1>3. loop.count \in 0 .. CountWrap - 1
  <2>1. CASE pc \in {"ready", "failed"}
    BY <2>1, SizesTyped DEF Counted, NoLoop
  <2>2. CASE pc \notin {"ready", "failed"}
    <3>1. loop.count \in Int /\ loop.count >= 0 /\ loop.count < CountWrap
      BY <2>2 DEF AtapiInv, LoopInv, Typed, LoopState
    <3> QED BY <3>1, SizesTyped
  <2> QED BY <2>1, <2>2
<1> QED BY <1>1, <1>2, <1>3 DEF AtapiInv, Typed, DevState, Counted, TypeOK

LEMMA CountedInvariance == Spec => [](AtapiInv /\ Counted)
BY InitEstablishes, NextKeeps, InitCounted, NextCounts, PTL DEF Spec

(* Under any caller, the handler never counts more than a command may move *)
(* and the device offers beyond it (atapi-controller.cpp:424), and the     *)
(* loop stays inside the request until a command that has moved more       *)
(* sectors than it should passes for one that has moved too few.           *)
THEOREM DriverTyping == Spec => []TypeOK
BY CountedInvariance, CountedTypes, PTL

-----------------------------------------------------------------------------
(* The file stream above the driver.                                       *)

(* The stream uses the driver as it is to be used: every step of the file  *)
(* system is a step of the driver or none, so that what holds of the       *)
(* driver holds below the stream.                                          *)
THEOREM StreamUsesDriver == CdSpec => Spec
<1>1. CdInit => Init
  BY DEF CdInit
<1>2. [CdNext]_cdvars => [Next]_vars
  <2> SUFFICES ASSUME CdNext PROVE Next \/ UNCHANGED vars
    BY DEF cdvars
  <2>1. CASE \E n \in Sizes : StreamRead(n)
    BY <2>1 DEF StreamRead
  <2>2. CASE Stream
    <3>1. ASSUME NEW blocks, Ask(blocks) PROVE Next
      BY <3>1 DEF Ask, Next
    <3>2. CASE Blocks
      BY <3>1, <3>2 DEF Blocks
    <3>3. CASE ReadMedia
      BY <3>3 DEF ReadMedia, Next
    <3>4. CASE Direct \/ Fill
      BY <3>4 DEF Direct, Fill, Answered
    <3> QED BY <2>2, <3>2, <3>3, <3>4 DEF Stream
  <2>3. CASE Works /\ UNCHANGED stream
    BY <2>3 DEF Next
  <2> QED BY <2>1, <2>2, <2>3 DEF CdNext
<1> QED BY <1>1, <1>2, PTL DEF CdSpec, Spec

(* No read of a file, in whatever pieces, lets the handler write outside   *)
(* the part of memory the command in progress is for, which belongs to     *)
(* what the stream has given it for as long as the driver keeps count.     *)
THEOREM StreamOverrunsNothing == CdSpec => NoOverrun
BY StreamUsesDriver, HandlerStaysInside

(* Below the stream, the driver is the disk that it is for other callers.  *)
THEOREM StreamReadsADisk == CdSpec => ImplementsDisk
BY StreamUsesDriver, DriverIsADisk

-----------------------------------------------------------------------------
(* The invariant of the stream.                                            *)

\* What the file has at an offset, and what memory may hold.
UnitAt(p) == <<FileDrive, Extent + (p \div bufsize), p % bufsize>>
Content == (Drive \X Int \X Int) \cup {Nothing}

StreamTyped ==
  /\ stage \in {"ready", "blocks", "direct", "fill", "panic"}
  /\ position \in Nat /\ rest \in Nat /\ position + rest <= Length
  /\ current_block \in Nat /\ bufpos \in Nat \cup {NoBlock}
  /\ cache \in [1 .. bufsize -> Content]
  /\ out \in Seq(Content) /\ Len(out) <= position
  /\ (stage # "ready" => Len(out) + rest > 0)
  /\ spoilt \in BOOLEAN

(* While the buffer holds what comes next, the file below the stream       *)
(* stands behind the buffer; otherwise it stands at the position.          *)
Holds == bufpos # NoBlock /\ position < bufpos + bufsize
PlaceInv ==
  IF Holds
  THEN /\ bufpos <= position /\ current_block * bufsize = bufpos + bufsize
       /\ stage # "ready" => rest = 0
  ELSE current_block * bufsize = position

\* The device is asked for the blocks that come next.
AskInv ==
  stage \in {"direct", "fill"} =>
    /\ request.drive = FileDrive /\ request.block = Extent + current_block
    /\ rest > 0 /\ ~Holds
    /\ request.count = IF stage = "fill" THEN 1 ELSE rest \div bufsize
    /\ stage = "fill" => rest < bufsize

\* What the reader and the buffer have got is what the file has there.
OutRight ==
  \A j \in 1 .. Len(out) : out[j] = UnitAt(position - Len(out) + j - 1)
CacheRight ==
  bufpos # NoBlock => \A j \in 1 .. bufsize : cache[j] = UnitAt(bufpos + j - 1)
ReadRight == ~spoilt => OutRight /\ CacheRight

BufferTyped == buffer \in [Memory -> Content]

CdInv == StreamTyped /\ PlaceInv /\ AskInv /\ ReadRight /\ BufferTyped

-----------------------------------------------------------------------------
LEMMA FileTyped ==
  /\ bufsize = SectorSize /\ bufsize \in Nat /\ bufsize > 0 /\ NoBlock = -1
  /\ FileDrive \in Drive /\ Extent \in Nat /\ Length \in Nat /\ Length > 0
  /\ \A n \in Sizes : n \in Nat /\ n > 0
BY SizeAssumption, FileAssumption DEF bufsize, NoBlock

\* A part of a sequence of units.
LEMMA Cut ==
  ASSUME NEW s, NEW a \in Int, NEW k \in Nat,
         \A j \in a + 1 .. a + k : s[j] \in Content
  PROVE  /\ SubSeq(s, a + 1, a + k) \in Seq(Content)
         /\ Len(SubSeq(s, a + 1, a + k)) = k
         /\ \A j \in 1 .. k : SubSeq(s, a + 1, a + k)[j] = s[a + j]
<1> DEFINE m == a + 1
           h == a + k
<1>1. m \in Int /\ h \in Int
  OBVIOUS
<1>2. \A j \in m .. h : s[j] \in Content
  OBVIOUS
<1>3. h - m + 1 = k /\ (m <= h <=> k > 0)
  OBVIOUS
<1>4. \A j \in 1 .. k : m + j - 1 = a + j
  OBVIOUS
<1> HIDE DEF m, h
<1> DEFINE t == SubSeq(s, m, h)
<1>5. /\ t \in Seq(Content) /\ Len(t) = IF m <= h THEN h - m + 1 ELSE 0
      /\ \A j \in 1 .. h - m + 1 : t[j] = s[m + j - 1]
  <2> HIDE DEF Content
  <2> QED BY <1>1, <1>2, SubSeqProperties
<1> HIDE DEF t
<1>6. t \in Seq(Content) /\ Len(t) = k /\ \A j \in 1 .. k : t[j] = s[a + j]
  <2>1. Len(t) = k
    BY <1>1, <1>3, <1>5
  <2>2. ASSUME NEW j \in 1 .. k PROVE t[j] = s[a + j]
    BY <1>3, <1>4, <1>5
  <2> QED BY <1>5, <2>1, <2>2
<1> QED BY <1>6 DEF t, m, h

\* The buffer of a read holds units and nothing else.
LEMMA BufferStays ==
  ASSUME AtapiInv, BufferTyped, [Next]_vars
  PROVE  BufferTyped'
<1>1. CASE UNCHANGED buffer
  BY <1>1 DEF BufferTyped
<1>2. CASE Read
  BY <1>2 DEF Read, BufferTyped, Content
<1>3. CASE IDE_atapi_packet_interrupt /\ dev.phase = "data"
  <2>1. DataToHost
    BY <1>3 DEF IDE_atapi_packet_interrupt
  <2>2. dev.unit \in Drive /\ dev.lba \in Int /\ dev.sent \in Int /\ place \in Int
    BY DEF AtapiInv, Typed, DevState
  <2>3. ASSUME NEW k \in Int PROVE Unit(k) \in Content
    <3>1. k \div SectorSize \in Int /\ k % SectorSize \in Int
      BY SizesTyped
    <3> QED BY <2>2, <3>1 DEF Unit, Content
  <2>4. ASSUME NEW i \in Memory
        PROVE  buffer'[i] \in Content
    <3>1. i \in Int
      BY DEF Memory
    <3>2. dev.sent + i - place \in Int
      BY <2>2, <3>1
    <3>3. DOMAIN buffer = Memory /\ buffer[i] \in Content
      BY DEF BufferTyped
    <3> QED BY <2>1, <2>3, <3>2, <3>3 DEF DataToHost
  <2>5. buffer' = [i \in Memory |-> buffer'[i]]
    BY <2>1 DEF DataToHost, BufferTyped
  <2> QED BY <2>4, <2>5 DEF BufferTyped
<1>4. CASE IDE_atapi_packet_interrupt /\ dev.phase # "data"
  BY <1>1, <1>4 DEF IDE_atapi_packet_interrupt
<1>5. CASE Seek \/ Driver \/ PacketTimeout \/ StatusTimeout \/ UNCHANGED vars
  BY <1>1, <1>5 DEF Seek, Driver, NotSelected, Chunk, SendPacket, ReadStatus,
     CheckState, PacketTimeout, StatusTimeout, handler, vars
<1>6. CASE DeviceWorks \/ EndEarly
  BY <1>1, <1>6 DEF DeviceWorks, Accept, Start, Ready, End, EndEarly, Ended,
     Device, handler
<1> QED BY <1>2, <1>3, <1>4, <1>5, <1>6 DEF Next, Works

LEMMA InitStream == CdInit => CdInv
<1> SUFFICES ASSUME CdInit PROVE CdInv
  OBVIOUS
<1>1. StreamTyped
  <2>1. cache \in [1 .. bufsize -> Content]
    BY DEF CdInit, Content
  <2>2. out \in Seq(Content) /\ Len(out) = 0
    BY EmptySeq DEF CdInit
  <2>3. /\ stage = "ready" /\ position = 0 /\ current_block = 0 /\ rest = 0
        /\ bufpos = NoBlock /\ spoilt = FALSE
    BY DEF CdInit
  <2>4. position + rest <= Length /\ Len(out) <= position
    BY <2>2, <2>3, FileTyped
  <2>5. stage # "ready" => Len(out) + rest > 0
    BY <2>3
  <2>6. position \in Nat /\ rest \in Nat /\ current_block \in Nat
    BY <2>3
  <2>7. bufpos \in Nat \cup {NoBlock} /\ spoilt \in BOOLEAN
    BY <2>3
  <2> QED BY <2>1, <2>2, <2>3, <2>4, <2>5, <2>6, <2>7 DEF StreamTyped
<1>2. PlaceInv /\ AskInv
  BY FileTyped DEF CdInit, PlaceInv, Holds, AskInv
<1>3. ReadRight
  BY FileTyped, EmptySeq DEF CdInit, ReadRight, OutRight, CacheRight
<1>4. BufferTyped
  BY DEF CdInit, Init, BufferTyped, Content
<1> QED BY <1>1, <1>2, <1>3, <1>4 DEF CdInv

-----------------------------------------------------------------------------
(* A read of the stream takes what the buffer holds.                       *)

LEMMA StreamReadKeeps ==
  ASSUME CdInv, NEW n \in Sizes, StreamRead(n)
  PROVE  /\ CdInv' /\ position' - Len(out') = position
         /\ Len(out') + rest' \in 1 .. Length - position
<1> DEFINE size == Least(n, Length - position)
           k == Least(Held, size)
<1>1. /\ stage = "ready" /\ size > 0 /\ stage' = "blocks"
      /\ out' = SubSeq(cache, position - bufpos + 1, position - bufpos + k)
      /\ position' = position + k /\ rest' = size - k
      /\ current_block' = IF bufpos # NoBlock /\ Held = 0
                          THEN position \div bufsize ELSE current_block
      /\ UNCHANGED <<vars, bufpos, cache, spoilt>>
  BY DEF StreamRead
<1>2. /\ position \in Nat /\ position <= Length /\ bufpos \in Int /\ bufpos >= -1
      /\ current_block \in Nat /\ cache \in [1 .. bufsize -> Content]
  BY FileTyped DEF CdInv, StreamTyped
<1>3. size \in Nat /\ position + size <= Length
  BY <1>1, <1>2, FileTyped DEF Least
<1> HIDE DEF size
<1>4. Held = (IF Holds THEN bufpos + bufsize - position ELSE 0) /\ Held \in Nat
  BY <1>2, FileTyped DEF Held, Holds
<1>5. k \in Nat /\ k <= size /\ k <= Held /\ (k = Held \/ k = size)
  BY <1>3, <1>4 DEF Least
<1> HIDE DEF k
<1>6. k > 0 => Holds /\ bufpos <= position /\ position + k <= bufpos + bufsize
  BY <1>2, <1>4, <1>5, FileTyped DEF CdInv, PlaceInv
<1> DEFINE a == position - bufpos
<1>7. /\ a \in Int
      /\ \A j \in a + 1 .. a + k : j \in 1 .. bufsize /\ j \in DOMAIN cache
  BY <1>2, <1>5, <1>6, FileTyped
<1>8. /\ out' \in Seq(Content) /\ Len(out') = k
      /\ \A j \in 1 .. k : out'[j] = cache[a + j]
  <2>1. \A j \in a + 1 .. a + k : cache[j] \in Content
    BY <1>2, <1>7
  <2>2. out' = SubSeq(cache, a + 1, a + k)
    BY <1>1
  <2> HIDE DEF a
  <2> QED BY <1>5, <1>7, <2>1, <2>2, Cut
<1>9. current_block' = current_block
  <2>1. CASE Holds
    BY <1>1, <1>2, <1>4, <2>1, FileTyped DEF Holds
  <2>2. CASE ~Holds
    <3>1. current_block * bufsize = position
      BY <2>2 DEF CdInv, PlaceInv
    <3>2. (current_block * bufsize + 0) \div bufsize = current_block
      BY <1>2, FileTyped, DivisionUnique
    <3>3. position \div bufsize = current_block
      BY <1>2, <3>1, <3>2, FileTyped
    <3> QED BY <1>1, <3>3
  <2> QED BY <2>1, <2>2
<1>10. StreamTyped'
  <2>1. position' \in Nat /\ rest' \in Nat /\ position' + rest' <= Length
    BY <1>1, <1>2, <1>3, <1>5
  <2>2. Len(out') <= position' /\ Len(out') + rest' > 0
    BY <1>1, <1>2, <1>3, <1>5, <1>8
  <2> QED BY <1>1, <1>8, <1>9, <2>1, <2>2 DEF CdInv, StreamTyped
<1>11. PlaceInv'
  <2>1. CASE Holds'
    <3>1. Holds /\ rest' = 0
      BY <1>1, <1>2, <1>3, <1>4, <1>5, <2>1, FileTyped DEF Holds
    <3> QED BY <1>1, <1>2, <1>5, <1>9, <2>1, <3>1 DEF CdInv, PlaceInv
  <2>2. CASE ~Holds'
    <3>1. CASE Holds
      <4>1. position' = bufpos + bufsize
        BY <1>1, <1>2, <1>4, <1>5, <1>6, <2>2, <3>1, FileTyped DEF Holds
      <4> QED BY <1>9, <2>2, <3>1, <4>1 DEF CdInv, PlaceInv
    <3>2. CASE ~Holds
      <4>1. position' = position
        BY <1>1, <1>2, <1>5, <1>6, <3>2
      <4> QED BY <1>9, <2>2, <3>2, <4>1 DEF CdInv, PlaceInv
    <3> QED BY <3>1, <3>2
  <2> QED BY <2>1, <2>2
<1>12. AskInv'
  BY <1>1 DEF AskInv
<1>13. ReadRight'
  <2> SUFFICES ASSUME ~spoilt PROVE OutRight' /\ CacheRight'
    BY <1>1 DEF ReadRight
  <2>1. CacheRight'
    BY <1>1 DEF CdInv, ReadRight, CacheRight
  <2>2. ASSUME NEW j \in 1 .. Len(out')
        PROVE  out'[j] = UnitAt(position' - Len(out') + j - 1)
    <3>1. j \in 1 .. k /\ k > 0
      BY <1>5, <1>8
    <3>2. bufpos # NoBlock /\ a + j \in 1 .. bufsize
      BY <1>2, <1>5, <1>6, <3>1, FileTyped DEF Holds
    <3>3. cache[a + j] = UnitAt(bufpos + (a + j) - 1)
      BY <3>2 DEF CdInv, ReadRight, CacheRight
    <3>4. bufpos + (a + j) - 1 = position' - Len(out') + j - 1
      BY <1>1, <1>2, <1>5, <1>8, <3>1
    <3> QED BY <1>8, <3>1, <3>3, <3>4
  <2> QED BY <2>1, <2>2 DEF OutRight, UnitAt
<1>14. BufferTyped'
  BY <1>1 DEF CdInv, BufferTyped, vars, handler
<1>15. /\ position' - Len(out') = position
       /\ Len(out') + rest' \in 1 .. Length - position
  BY <1>1, <1>2, <1>3, <1>5, <1>8, FileTyped
<1> QED BY <1>10, <1>11, <1>12, <1>13, <1>14, <1>15 DEF CdInv

-----------------------------------------------------------------------------
(* The loop over blocks, and the device.                                   *)

LEMMA BlocksKeeps ==
  ASSUME CdInv, Blocks
  PROVE  CdInv'
<1>1. /\ stage = "blocks"
      /\ UNCHANGED <<position, bufpos, cache, current_block, rest, out, spoilt>>
  BY DEF Blocks
<1>2. buffer' = buffer
  BY DEF Blocks, Ask, Seek, vars, handler
<1>3. stage' \in {"ready", "direct", "fill", "panic"}
  BY DEF Blocks
<1>4. StreamTyped'
  BY <1>1, <1>3 DEF CdInv, StreamTyped
<1>5. PlaceInv'
  BY <1>1 DEF CdInv, PlaceInv, Holds
<1>6. rest \in Nat /\ (Holds => rest = 0)
  BY <1>1 DEF CdInv, StreamTyped, PlaceInv
<1>7. AskInv'
  <2> SUFFICES ASSUME stage' \in {"direct", "fill"} PROVE AskInv'
    BY DEF AskInv
  <2> DEFINE blocks == IF stage' = "fill" THEN 1 ELSE rest \div bufsize
  <2>1. Ask(blocks) /\ rest > 0 /\ (stage' = "fill" => rest < bufsize)
    BY <1>6, FileTyped DEF Blocks
  <2>2. /\ request'.drive = FileDrive /\ request'.block = Extent + current_block
        /\ request'.count = blocks
    BY <2>1 DEF Ask
  <2>3. ~Holds'
    BY <1>1, <1>6, <2>1 DEF Holds
  <2> QED BY <1>1, <2>1, <2>2, <2>3 DEF AskInv
<1>8. ReadRight' /\ BufferTyped'
  BY <1>1, <1>2 DEF CdInv, ReadRight, OutRight, CacheRight, BufferTyped
<1> QED BY <1>4, <1>5, <1>7, <1>8 DEF CdInv

LEMMA DriverLeavesStream ==
  ASSUME AtapiInv, CdInv, [Next]_vars, UNCHANGED <<request, stream>>
  PROVE  CdInv'
<1>1. BufferTyped'
  BY BufferStays DEF CdInv
<1> QED BY <1>1 DEF stream, CdInv, StreamTyped, PlaceInv, Holds, AskInv,
           ReadRight, OutRight, CacheRight

\* What the device is asked for lies in the buffer.
LEMMA MediaTyped ==
  ASSUME AtapiInv, CdInv, NEW i \in Nat, i < request.count * bufsize
  PROVE  buffer[i] \in Content
<1>1. i \in Memory
  BY RequestFits DEF AtapiInv, bufsize
<1> QED BY <1>1 DEF CdInv, BufferTyped

\* A read that has not failed has brought what the file has there.
LEMMA MediaRight ==
  ASSUME AtapiInv, SoundData, ~excess, CdInv, stage \in {"direct", "fill"},
         pc = "ready", outcome = "ok", NEW i \in Nat, i < request.count * bufsize
  PROVE  buffer[i] = UnitAt(position + i) /\ buffer[i] # Nothing
<1>1. Filled = request.count * bufsize
  BY DEF Filled, Waiting, bufsize
<1>2. buffer[i] = Cell(i)
  BY <1>1 DEF SoundData, DataInv, FilledRight
<1>3. /\ request.drive = FileDrive /\ request.block = Extent + current_block
      /\ position = current_block * bufsize
      /\ current_block \in Nat
  BY DEF CdInv, StreamTyped, AskInv, PlaceInv
<1> DEFINE q == i \div bufsize
           r == i % bufsize
<1>4. q \in Nat /\ r \in Nat
  <2>1. (0 * bufsize + i) \div bufsize = 0 + q
    BY FileTyped, Shifted
  <2> QED BY FileTyped
<1>5. (position + i) \div bufsize = current_block + q /\ (position + i) % bufsize = r
  BY <1>3, FileTyped, Shifted
<1>6. Cell(i) = <<FileDrive, Extent + current_block + q, r>>
  BY <1>3, FileTyped DEF Cell
<1> HIDE DEF q, r
<1>7. Extent + (current_block + q) = Extent + current_block + q
      /\ Extent + current_block + q \in Nat
  BY <1>3, <1>4, FileTyped
<1>8. UnitAt(position + i) = Cell(i)
  BY <1>5, <1>6, <1>7 DEF UnitAt
<1>9. Cell(i) \in Drive \X Nat \X Nat
  BY <1>4, <1>6, <1>7, FileTyped
<1> QED BY <1>2, <1>8, <1>9, FileAssumption

-----------------------------------------------------------------------------
(* What the device has read reaches the reader.                            *)

LEMMA Joined ==
  ASSUME StreamTyped, NEW t \in Seq(Content), out' = out \o t,
         position' = position + Len(t)
  PROVE  /\ out' \in Seq(Content) /\ Len(out') = Len(out) + Len(t)
         /\ OutRight /\ (\A j \in 1 .. Len(t) : t[j] = UnitAt(position + j - 1))
              => OutRight'
<1>1. out \in Seq(Content) /\ Len(out) \in Nat /\ Len(t) \in Nat /\ position \in Nat
  BY LenProperties DEF StreamTyped
<1>2. /\ out' \in Seq(Content) /\ Len(out') = Len(out) + Len(t)
      /\ \A j \in 1 .. Len(out) + Len(t) :
           out'[j] = IF j <= Len(out) THEN out[j] ELSE t[j - Len(out)]
  BY <1>1, ConcatProperties
<1>3. ASSUME OutRight, \A j \in 1 .. Len(t) : t[j] = UnitAt(position + j - 1),
             NEW j \in 1 .. Len(out')
      PROVE  out'[j] = UnitAt(position' - Len(out') + j - 1)
  <2>1. position' - Len(out') + j - 1 = position - Len(out) + j - 1
    BY <1>1, <1>2
  <2>2. CASE j <= Len(out)
    <3>1. out[j] = UnitAt(position - Len(out) + j - 1)
      BY <1>1, <1>2, <1>3, <2>2 DEF OutRight
    <3> QED BY <1>1, <1>2, <2>1, <2>2, <3>1
  <2>3. CASE ~(j <= Len(out))
    <3> DEFINE l == j - Len(out)
    <3>1. l \in 1 .. Len(t) /\ position + l - 1 = position - Len(out) + j - 1
      BY <1>1, <1>2, <2>3
    <3>2. out'[j] = t[l]
      BY <1>1, <1>2, <2>3
    <3> HIDE DEF l
    <3>3. t[l] = UnitAt(position + l - 1)
      BY <1>3, <3>1
    <3> QED BY <2>1, <3>1, <3>2, <3>3
  <2> QED BY <2>2, <2>3
<1> QED BY <1>2, <1>3 DEF OutRight, UnitAt

LEMMA DirectKeeps ==
  ASSUME AtapiInv, SoundData, CdInv, Direct
  PROVE  /\ CdInv' /\ Len(out') + rest' = Len(out) + rest
         /\ position' - Len(out') = position - Len(out)
<1> DEFINE c == request.count
           n == c * bufsize
           t == [i \in 1 .. n |-> buffer[i - 1]]
<1>1. /\ stage = "direct" /\ pc = "ready" /\ outcome \in {"ok", "failed"}
      /\ stage' = "blocks" /\ spoilt' = (spoilt \/ outcome = "failed" \/ excess)
      /\ current_block' = current_block + c
      /\ out' = out \o t /\ position' = position + n /\ rest' = rest - n
      /\ UNCHANGED <<vars, bufpos, cache>>
  BY DEF Direct, Answered
<1>2. /\ position \in Nat /\ rest \in Nat /\ current_block \in Nat
      /\ position + rest <= Length /\ bufpos \in Int
      /\ out \in Seq(Content) /\ Len(out) \in Nat /\ Len(out) <= position
      /\ Len(out) + rest > 0
  BY <1>1, FileTyped, LenProperties DEF CdInv, StreamTyped
<1>3. /\ rest > 0 /\ ~Holds /\ current_block * bufsize = position
      /\ c = rest \div bufsize
  BY <1>1 DEF CdInv, AskInv, PlaceInv
<1>4. c \in Nat
  BY RequestAssumption DEF AtapiInv, Typed
<1>5. n \in Nat /\ n <= rest
  BY <1>2, <1>3, <1>4, FileTyped, QuotientTimes
<1>6. current_block' * bufsize = position'
  BY <1>1, <1>2, <1>3, <1>4, FileTyped
<1>7. t \in Seq(Content) /\ Len(t) = n
  <2>1. \A i \in 1 .. n : buffer[i - 1] \in Content
    BY <1>5, MediaTyped
  <2> QED BY <1>5, <2>1
<1>8. /\ out' \in Seq(Content) /\ Len(out') = Len(out) + n
      /\ OutRight /\ (\A j \in 1 .. n : t[j] = UnitAt(position + j - 1))
           => OutRight'
  BY <1>1, <1>7, Joined DEF CdInv
<1>9. StreamTyped'
  <2> HIDE DEF n, t
  <2>1. position' \in Nat /\ rest' \in Nat /\ position' + rest' <= Length
    BY <1>1, <1>2, <1>5
  <2>2. Len(out') <= position' /\ Len(out') + rest' > 0
    BY <1>1, <1>2, <1>5, <1>8
  <2>3. current_block' \in Nat
    BY <1>1, <1>2, <1>4
  <2>4. spoilt' \in BOOLEAN
    BY <1>1
  <2> QED BY <1>1, <1>8, <2>1, <2>2, <2>3, <2>4 DEF CdInv, StreamTyped
<1>10. ~Holds'
  BY <1>1, <1>2, <1>3, <1>5, FileTyped DEF Holds
<1>11. PlaceInv' /\ AskInv'
  BY <1>1, <1>6, <1>10 DEF PlaceInv, AskInv
<1>12. ReadRight'
  <2> SUFFICES ASSUME ~spoilt' PROVE OutRight' /\ CacheRight'
    BY DEF ReadRight
  <2>1. ~spoilt /\ outcome = "ok" /\ ~excess
    BY <1>1
  <2>2. OutRight /\ CacheRight
    BY <2>1 DEF CdInv, ReadRight
  <2>3. ASSUME NEW j \in 1 .. n
        PROVE  t[j] = UnitAt(position + j - 1)
    <3>1. j - 1 \in Nat /\ j - 1 < request.count * bufsize
      BY <1>5
    <3>2. buffer[j - 1] = UnitAt(position + (j - 1))
      BY <1>1, <2>1, <3>1, MediaRight
    <3>3. position + (j - 1) = position + j - 1
      BY <1>2, <1>5
    <3> QED BY <3>2, <3>3
  <2>4. CacheRight'
    BY <1>1, <2>2 DEF CacheRight
  <2> HIDE DEF n, t
  <2> QED BY <1>8, <2>2, <2>3, <2>4
<1>13. BufferTyped'
  BY <1>1 DEF CdInv, BufferTyped, vars, handler
<1>14. /\ Len(out') + rest' = Len(out) + rest
       /\ position' - Len(out') = position - Len(out)
  <2> HIDE DEF n, t
  <2> QED BY <1>1, <1>2, <1>5, <1>8
<1> QED BY <1>9, <1>11, <1>12, <1>13, <1>14 DEF CdInv

LEMMA FillKeeps ==
  ASSUME AtapiInv, SoundData, CdInv, Fill
  PROVE  /\ CdInv' /\ Len(out') + rest' = Len(out) + rest
         /\ position' - Len(out') = position - Len(out)
<1> DEFINE t == SubSeq(cache', 0 + 1, 0 + rest)
<1>1. /\ stage = "fill" /\ pc = "ready" /\ outcome \in {"ok", "failed"}
      /\ stage' = "blocks" /\ spoilt' = (spoilt \/ outcome = "failed" \/ excess)
      /\ current_block' = current_block + request.count
      /\ bufpos' = position /\ position' = position + rest /\ rest' = 0
      /\ cache' = [i \in 1 .. bufsize |->
                     IF buffer[i - 1] = Nothing THEN cache[i] ELSE buffer[i - 1]]
      /\ UNCHANGED vars
  BY DEF Fill, Answered, FilledAt
<1>2. /\ position \in Nat /\ rest \in Nat /\ current_block \in Nat
      /\ position + rest <= Length
      /\ out \in Seq(Content) /\ Len(out) \in Nat /\ Len(out) <= position
      /\ Len(out) + rest > 0
  BY <1>1, LenProperties DEF CdInv, StreamTyped
<1>3. /\ rest > 0 /\ rest < bufsize /\ current_block * bufsize = position
      /\ request.count = 1
  BY <1>1 DEF CdInv, AskInv, PlaceInv
<1>4. ASSUME NEW i \in 1 .. bufsize
      PROVE  i - 1 \in Nat /\ i - 1 < request.count * bufsize
  BY <1>3, FileTyped
<1>5. cache' \in [1 .. bufsize -> Content]
  <2>1. \A i \in 1 .. bufsize : cache[i] \in Content /\ buffer[i - 1] \in Content
    BY <1>4, MediaTyped DEF CdInv, StreamTyped
  <2> QED BY <1>1, <2>1
<1>6. out' = out \o t
  <2>1. out' = out \o SubSeq(cache', 1, rest)
    BY DEF Fill
  <2>2. 0 + 1 = 1 /\ 0 + rest = rest
    BY <1>2
  <2> QED BY <2>1, <2>2
<1>7. /\ t \in Seq(Content) /\ Len(t) = rest
      /\ \A j \in 1 .. rest : t[j] = cache'[0 + j]
  <2>1. \A j \in 0 + 1 .. 0 + rest : j \in 1 .. bufsize
    BY <1>2, <1>3, FileTyped
  <2>2. \A j \in 0 + 1 .. 0 + rest : cache'[j] \in Content
    BY <1>5, <2>1
  <2> QED BY <1>2, <2>2, Cut
<1> HIDE DEF t
<1>8. /\ out' \in Seq(Content) /\ Len(out') = Len(out) + rest
      /\ OutRight /\ (\A j \in 1 .. rest : t[j] = UnitAt(position + j - 1))
           => OutRight'
  BY <1>1, <1>6, <1>7, Joined DEF CdInv
<1>9. StreamTyped'
  <2>1. position' \in Nat /\ rest' \in Nat /\ position' + rest' <= Length
    BY <1>1, <1>2
  <2>2. Len(out') <= position' /\ Len(out') + rest' > 0
    BY <1>1, <1>2, <1>8
  <2>3. current_block' \in Nat /\ bufpos' \in Nat
    BY <1>1, <1>2, <1>3
  <2>4. spoilt' \in BOOLEAN
    BY <1>1
  <2> QED BY <1>1, <1>5, <1>8, <2>1, <2>2, <2>3, <2>4 DEF StreamTyped
<1>10. PlaceInv' /\ AskInv'
  <2>1. current_block' * bufsize = bufpos' + bufsize
    BY <1>1, <1>2, <1>3, FileTyped
  <2>2. Holds' /\ bufpos' <= position'
    BY <1>1, <1>2, <1>3, FileTyped DEF Holds
  <2> QED BY <1>1, <2>1, <2>2 DEF PlaceInv, AskInv
<1>11. ReadRight'
  <2> SUFFICES ASSUME ~spoilt' PROVE OutRight' /\ CacheRight'
    BY DEF ReadRight
  <2>1. ~spoilt /\ outcome = "ok" /\ ~excess
    BY <1>1
  <2>2. OutRight
    BY <2>1 DEF CdInv, ReadRight
  <2>3. ASSUME NEW j \in 1 .. bufsize
        PROVE  cache'[j] = UnitAt(position + j - 1)
    <3>1. buffer[j - 1] = UnitAt(position + (j - 1)) /\ buffer[j - 1] # Nothing
      BY <1>1, <1>4, <2>1, MediaRight
    <3>2. position + (j - 1) = position + j - 1
      BY <1>2, FileTyped
    <3> QED BY <1>1, <3>1, <3>2
  <2>4. CacheRight'
    BY <1>1, <2>3 DEF CacheRight, UnitAt
  <2>5. ASSUME NEW j \in 1 .. rest
        PROVE  t[j] = UnitAt(position + j - 1)
    <3>1. j \in 1 .. bufsize /\ 0 + j = j
      BY <1>2, <1>3, FileTyped
    <3> QED BY <1>7, <2>3, <3>1
  <2> QED BY <1>8, <2>2, <2>4, <2>5
<1>12. BufferTyped'
  BY <1>1 DEF CdInv, BufferTyped, vars, handler
<1>13. /\ Len(out') + rest' = Len(out) + rest
       /\ position' - Len(out') = position - Len(out)
  BY <1>1, <1>2, <1>8
<1> QED BY <1>9, <1>10, <1>11, <1>12, <1>13 DEF CdInv

-----------------------------------------------------------------------------
LEMMA WorksKeepsRequest == Works => UNCHANGED request
BY DEF Works, Driver, DeviceWorks, NotSelected, Chunk, SendPacket,
   ReadStatus, CheckState, PacketTimeout, StatusTimeout, Accept, Start, Ready,
   End, EndEarly, Ended, Device, IDE_atapi_packet_interrupt, call

LEMMA CdInvariance == CdSpec => [](AtapiInv /\ SoundData /\ CdInv)
<1>1. AtapiInv /\ SoundData /\ CdInv /\ [CdNext]_cdvars => CdInv'
  <2> SUFFICES ASSUME AtapiInv, SoundData, CdInv, [CdNext]_cdvars PROVE CdInv'
    OBVIOUS
  <2>1. CASE \E n \in Sizes : StreamRead(n)
    BY <2>1, StreamReadKeeps
  <2>2. CASE Blocks \/ Direct \/ Fill
    BY <2>2, BlocksKeeps, DirectKeeps, FillKeeps
  <2>3. CASE ReadMedia
    BY <2>3, DriverLeavesStream DEF ReadMedia, Read, Next
  <2>4. CASE Works /\ UNCHANGED stream
    BY <2>4, WorksKeepsRequest, DriverLeavesStream DEF Next
  <2>5. CASE UNCHANGED cdvars
    BY <2>5, DriverLeavesStream DEF cdvars, vars, call
  <2> QED BY <2>1, <2>2, <2>3, <2>4, <2>5 DEF CdNext, Stream
<1> QED BY <1>1, InitStream, StreamUsesDriver, DataInvariance, PTL DEF CdSpec

(* The position never passes the end of the file, and neither does the     *)
(* buffer's; what is left of a read fits between the position and the end  *)
(* (BufferedStream::Read, storage.cpp:47).                                 *)
THEOREM StreamTypeCorrect == CdSpec => []CdTypeOK
<1> DEFINE B == bufpos # NoBlock => bufpos <= Length
<1>1. CdInit => B
  BY DEF CdInit
<1>2. CdInv /\ B /\ [CdNext]_cdvars => B'
  <2> SUFFICES ASSUME CdInv, B, [CdNext]_cdvars PROVE B'
    OBVIOUS
  <2>1. CASE Fill
    BY <2>1, FileTyped DEF Fill, FilledAt, CdInv, StreamTyped, NoBlock
  <2>2. CASE UNCHANGED bufpos
    BY <2>2
  <2> QED BY <2>1, <2>2 DEF CdNext, StreamRead, Stream, Blocks, ReadMedia, Direct,
          stream, cdvars
<1>3. CdInv /\ B /\ TypeOK => CdTypeOK
  <2> SUFFICES ASSUME CdInv, B, TypeOK PROVE CdTypeOK
    OBVIOUS
  <2>1. /\ position \in Nat /\ rest \in Nat /\ position + rest <= Length
        /\ bufpos \in Nat \cup {NoBlock} /\ Length \in Nat
        /\ Len(out) <= position /\ Len(out) \in Nat
    BY FileTyped, LenProperties DEF CdInv, StreamTyped
  <2>2. stage \in {"ready", "blocks", "direct", "fill", "panic"}
    BY DEF CdInv, StreamTyped
  <2> QED BY <2>1, <2>2 DEF CdTypeOK
<1> QED BY <1>1, <1>2, <1>3, CdInvariance, StreamUsesDriver, DriverTyping, PTL
    DEF CdSpec

-----------------------------------------------------------------------------
(* The steps of the stream are those of a file.                            *)

LEMMA QuietStream ==
  ASSUME UNCHANGED stream
  PROVE  UNCHANGED File!vars
BY DEF stream, File!vars

LEMMA ReadBegins ==
  ASSUME CdInv, NEW n \in Sizes, StreamRead(n)
  PROVE  File!Read
<1>1. /\ stage = "ready" /\ stage' = "blocks" /\ spoilt' = spoilt
      /\ position' - Len(out') = position
      /\ Len(out') + rest' \in 1 .. Length - position
  BY StreamReadKeeps DEF StreamRead
<1> QED BY <1>1 DEF File!Read

LEMMA PiecesAreQuiet ==
  ASSUME AtapiInv, SoundData, CdInv, Direct \/ Fill
  PROVE  File!Spoil \/ UNCHANGED File!vars
<1>1. /\ stage # "ready" /\ stage' # "ready"
      /\ spoilt' = (spoilt \/ outcome = "failed" \/ excess)
  BY DEF Direct, Fill, Answered
<1>2. /\ Len(out') + rest' = Len(out) + rest
      /\ position' - Len(out') = position - Len(out)
  BY DirectKeeps, FillKeeps
<1>3. Len(out) + rest > 0 /\ spoilt \in BOOLEAN
  BY <1>1 DEF CdInv, StreamTyped
<1>4. CASE spoilt' = spoilt
  BY <1>1, <1>2, <1>4 DEF File!vars
<1>5. CASE spoilt' # spoilt
  BY <1>1, <1>2, <1>3, <1>5 DEF File!Spoil
<1> QED BY <1>4, <1>5

LEMMA ReadEnds ==
  ASSUME CdInv, Blocks
  PROVE  File!Return \/ UNCHANGED File!vars
<1>1. /\ stage = "blocks" /\ stage' \in {"ready", "direct", "fill", "panic"}
      /\ stage' = "ready" => rest = 0
      /\ UNCHANGED <<position, rest, out, spoilt>>
  BY DEF Blocks
<1>2. CASE stage' # "ready"
  BY <1>1, <1>2 DEF File!vars
<1>3. CASE stage' = "ready"
  <2> DEFINE l == Len(out)
  <2>1. /\ position \in Nat /\ position <= Length /\ l \in Nat /\ l <= position
        /\ l > 0 /\ rest = 0 /\ out \in Seq(Content)
    BY <1>1, <1>3, FileTyped, LenProperties DEF CdInv, StreamTyped
  <2>2. out # <<>>
    BY <2>1
  <2> DEFINE file == [p \in 0 .. Length - 1 |->
                       <<FileDrive, Extent + (p \div bufsize), p % bufsize>>]
             wanted == [i \in 1 .. l |-> file[position - l + i - 1]]
  <2>3. ~spoilt => out = wanted
    <3> SUFFICES ASSUME ~spoilt PROVE out = wanted
      OBVIOUS
    <3>1. ASSUME NEW i \in 1 .. l
          PROVE  out[i] = file[position - l + i - 1]
      <4>1. position - l + i - 1 \in 0 .. Length - 1
        BY <2>1, FileTyped
      <4>2. out[i] = UnitAt(position - l + i - 1)
        BY DEF CdInv, ReadRight, OutRight
      <4> QED BY <4>1, <4>2 DEF UnitAt
    <3>2. out = [i \in 1 .. l |-> out[i]]
      BY <2>1, LenProperties
    <3> HIDE DEF file
    <3> QED BY <3>1, <3>2
  <2>4. /\ position - l + (l + rest) = position /\ l + rest = l /\ l + rest > 0
    BY <2>1
  <2> HIDE DEF l
  <2>5. File!Return
    BY <1>1, <1>3, <2>1, <2>2, <2>3, <2>4 DEF File!Return, l
  <2> QED BY <2>5
<1> QED BY <1>2, <1>3

(* The stream is the file: whatever the sizes of the reads, the buffer, the*)
(* blocks and the device, reads that follow each other return it from the  *)
(* beginning to the end (BufferedStream::Read, storage.cpp:36), until a    *)
(* read of the device fails, which nobody is told, or its driver takes a   *)
(* surplus for too few.                                                    *)
THEOREM StreamIsTheFile == CdSpec => ImplementsFileStream
<1>1. CdInit => File!Init
  BY FileTyped DEF CdInit, File!Init
<1>2. /\ AtapiInv /\ SoundData /\ CdInv /\ [CdNext]_cdvars
      => [File!Next]_(File!vars)
  <2> SUFFICES ASSUME AtapiInv, SoundData, CdInv, [CdNext]_cdvars
               PROVE  File!Next \/ UNCHANGED File!vars
    OBVIOUS
  <2>1. CASE \E n \in Sizes : StreamRead(n)
    BY <2>1, ReadBegins DEF File!Next
  <2>2. CASE Blocks
    BY <2>2, ReadEnds DEF File!Next
  <2>3. CASE Direct \/ Fill
    BY <2>3, PiecesAreQuiet DEF File!Next
  <2>4. CASE UNCHANGED stream
    BY <2>4, QuietStream
  <2> QED BY <2>1, <2>2, <2>3, <2>4 DEF CdNext, Stream, ReadMedia, cdvars
<1> QED BY <1>1, <1>2, CdInvariance, PTL
    DEF CdSpec, ImplementsFileStream, File!Spec
=============================================================================
