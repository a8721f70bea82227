----------------------------- MODULE Fat_proofs -----------------------------
(***************************************************************************)
(* Proofs about modules Floppy and Fat.                                    *)
(*                                                                         *)
(* Floppy (Spec), for any number of drives and any geometry, and a chip    *)
(* that takes no command while a head moves: results are there when the    *)
(* driver reads them, the drives it finds are those present, and it is a   *)
(* disk.  Recalibrate waits for a flag it has not cleared, so that the     *)
(* flag alone would not do: what saves it is that the chip does not get    *)
(* ready for SENSE INTERRUPT before the head has arrived.  This part uses  *)
(* none of Fat's definitions and assumptions.                              *)
(*                                                                         *)
(* Fat (FatSpec), for any layout of the disk, any table and any files that *)
(* LayoutAssumption and PlacementAssumption allow: what the file system    *)
(* asks is within what the driver promises, so that all that is proved of  *)
(* the driver holds of it here, and the slot of a read holds the file.     *)
(***************************************************************************)
EXTENDS Fat, SequenceTheorems, WellFoundedInduction, TLAPS

-----------------------------------------------------------------------------
(* Module Floppy.                                                          *)


OneAtATime == Overlapped = FALSE

FdcState ==
  [phase : {"idle", "reading", "result"}, unit : Drive, ic : Int, eot : Int,
   done : SUBSET [drive : Drive, ic : Int], place : [c : Int, h : Int, r : Int],
   moving : [Drive -> Int \cup {Nothing}], pos : [Drive -> Int]]

Typed ==
  /\ pc \in {"detect", "ready", "command", "wait", "sense"}
  /\ op \in [kind : {"none", "recalibrate", "seek", "read"}, drive : Drive,
             request : Request]
  /\ drives \subseteq Drive
  /\ current \in [Drive -> [c : Int, h : Int, r : Int]]
  /\ fdc \in FdcState

\* Which call is under way.
CallInv ==
  /\ op.kind = "none" => pc = "detect"
  /\ pc = "detect" => op.kind \in {"none", "recalibrate"}
  /\ pc = "sense" => op.kind # "read"

(* The drive a seek moves, and the three states a chip is in that has been *)
(* told to seek at most once since it was asked the last time.             *)
Unit == IF op.kind = "seek" THEN 0 ELSE op.drive

Quiet == Still(fdc) /\ fdc.done = {} /\ fdc.phase = "idle"
OnItsWay ==
  /\ fdc.moving[Unit] # Nothing
  /\ \A d \in Drive \ {Unit} : fdc.moving[d] = Nothing
  /\ fdc.done = {} /\ fdc.phase = "idle" /\ irq = FALSE
Arrived ==
  /\ Still(fdc) /\ fdc.phase = "idle"
  /\ fdc.done = {[drive |-> Unit, ic |-> IF Unit \in Present THEN 0 ELSE 1]}

ChipInv ==
  /\ pc \in {"detect", "ready", "command"} => Quiet /\ irq = FALSE
  /\ pc = "command" /\ op.kind # "recalibrate" => flag = FALSE
  /\ pc = "wait" /\ op.kind = "read" =>
       /\ Still(fdc) /\ fdc.done = {}
       /\ \/ fdc.phase = "reading" /\ irq = FALSE /\ flag = FALSE
          \/ fdc.phase = "result"
  /\ pc = "wait" /\ op.kind # "read" => OnItsWay \/ Arrived
  /\ pc = "sense" => OnItsWay \/ Arrived

\* The drives there are up to the first gap, and those up to drive n.
Reachable == {d \in Drive : \A e \in 0 .. d : e \in Present}
Searching == pc # "ready" /\ op.kind \in {"none", "recalibrate"}
SearchInv ==
  /\ Searching => drives = {d \in Drive : d < op.drive} /\ drives \subseteq Present
  /\ ~Searching => drives = Reachable

IInv == Typed /\ CallInv /\ ChipInv /\ SearchInv

-----------------------------------------------------------------------------
LEMMA Shape ==
  /\ MaxDrives \in Nat /\ MaxDrives > 0 /\ 0 \in Drive /\ Drive \subseteq Nat
  /\ Nothing \notin Int
BY DriveAssumption, RequestAssumption DEF Drive

LEMMA PlaceTyped ==
  ASSUME NEW q \in Request
  PROVE  PlaceOf(q.block) \in [c : Int, h : Int, r : Int]
<1>1. /\ SectorsPerHead \in Nat /\ SectorsPerHead > 0
      /\ SectorsPerCylinder \in Nat /\ SectorsPerCylinder > 0
  BY DriveAssumption DEF SectorsPerCylinder
<1>2. q.block \in Int
  BY RequestAssumption DEF Block
<1> HIDE DEF SectorsPerCylinder
<1> DEFINE c == q.block \div SectorsPerCylinder
           t == q.block % SectorsPerCylinder
           h == t \div SectorsPerHead
           r == q.block % SectorsPerHead
<1>3. c \in Int /\ t \in Int /\ r \in Int
  BY <1>1, <1>2
<1>4. h \in Int
  <2> HIDE DEF t
  <2> QED BY <1>1, <1>3
<1>5. PlaceOf(q.block) = [c |-> c, h |-> h, r |-> r]
  BY Zenon DEF PlaceOf
<1> HIDE DEF c, h, r
<1> QED BY <1>3, <1>4, <1>5

LEMMA InitEstablishes == Init => IInv
<1> SUFFICES ASSUME Init PROVE IInv
  OBVIOUS
<1>1. \E q \in Request : TRUE
  BY RequestAssumption
<1>2. Typed
  BY <1>1, Shape DEF Init, Typed, FdcState
<1>3. CallInv
  BY DEF Init, CallInv
<1>4. ChipInv
  BY Shape DEF Init, ChipInv, Quiet, Still
<1>5. SearchInv
  <2>0. /\ pc = "detect" /\ drives = {}
        /\ op = [kind |-> "none", drive |-> 0, request |-> CHOOSE q \in Request : TRUE]
    BY DEF Init
  <2>1. Searching /\ drives = {} /\ op.drive = 0
    BY <2>0 DEF Searching
  <2>2. {d \in Drive : d < 0} = {}
    BY DEF Drive
  <2> QED BY <2>1, <2>2 DEF SearchInv
<1> QED BY <1>2, <1>3, <1>4, <1>5 DEF IInv

-----------------------------------------------------------------------------
(* The driver's steps, one lemma each.                                     *)

LEMMA DetectKeeps ==
  ASSUME IInv, DetectDrive
  PROVE  IInv'
<1> USE DEF IInv, DetectDrive, Call
<1>1. Typed'
  BY DEF Typed
<1>2. CallInv'
  BY DEF Typed, CallInv
<1>3. ChipInv'
  BY DEF Typed, ChipInv, Quiet, Still
<1>4. SearchInv'
  BY DEF Typed, CallInv, SearchInv, Searching
<1> QED BY <1>1, <1>2, <1>3, <1>4

LEMMA SeekKeeps ==
  ASSUME IInv, NEW d \in drives, NEW q \in Request, Seek(d, q)
  PROVE  IInv'
<1> USE DEF IInv, Seek, Call
<1>1. Typed'
  BY DEF Typed
<1>2. CallInv'
  BY DEF Typed, CallInv
<1>3. ChipInv'
  BY DEF Typed, ChipInv, Quiet, Still, ClearFlag
<1>4. SearchInv'
  BY DEF Typed, SearchInv, Searching, Reachable
<1> QED BY <1>1, <1>2, <1>3, <1>4

LEMMA ReadKeeps ==
  ASSUME IInv, Read
  PROVE  IInv'
<1> USE DEF IInv, Read, Call
<1>1. Typed'
  BY DEF Typed
<1>2. CallInv'
  BY DEF Typed, CallInv
<1>3. ChipInv'
  BY DEF Typed, ChipInv, Quiet, Still, ClearFlag
<1>4. SearchInv'
  BY DEF Typed, SearchInv, Searching, Reachable
<1> QED BY <1>1, <1>2, <1>3, <1>4

LEMMA SendSeekKeeps ==
  ASSUME IInv, SendSeek
  PROVE  IInv'
<1> DEFINE target == IF op.kind = "seek" THEN PlaceOf(op.request.block).c ELSE 0
<1>1. /\ pc = "command" /\ op.kind # "read" /\ pc' = "wait" /\ irq = FALSE
      /\ fdc' = [discardData(fdc) EXCEPT !.moving[Unit] = target]
      /\ UNCHANGED <<op, drives, current, flag, irq>>
  BY DEF SendSeek, Unit, IInv, ChipInv, Quiet
<1>2. target \in Int /\ target # Nothing
  BY PlaceTyped, Shape DEF IInv, Typed
<1>3. Unit \in Drive /\ Unit' = Unit
  BY <1>1, Shape DEF IInv, Typed, Unit
<1>4. Quiet /\ fdc \in FdcState
  BY <1>1 DEF IInv, ChipInv, Typed
<1>5. fdc' = [fdc EXCEPT !.moving[Unit] = target]
  <2>1. [fdc EXCEPT !.phase = "idle"] = fdc
    BY <1>4 DEF FdcState, Quiet
  <2> QED BY <1>1, <1>4, <2>1 DEF discardData, Quiet, FdcState
<1> HIDE DEF target
<1>6. fdc' \in FdcState /\ fdc'.done = {} /\ fdc'.phase = "idle"
      /\ fdc'.moving[Unit] = target
      /\ \A d \in Drive \ {Unit} : fdc'.moving[d] = Nothing
  BY <1>2, <1>3, <1>4, <1>5 DEF FdcState, Quiet, Still
<1>7. Typed'
  BY <1>1, <1>6 DEF IInv, Typed
<1>8. CallInv'
  BY <1>1 DEF IInv, CallInv
<1>9. ChipInv'
  <2>1. OnItsWay'
    BY <1>1, <1>2, <1>3, <1>6 DEF OnItsWay
  <2> QED BY <1>1, <2>1 DEF ChipInv
<1>10. SearchInv'
  BY <1>1 DEF IInv, SearchInv, Searching, Reachable
<1> QED BY <1>7, <1>8, <1>9, <1>10 DEF IInv

LEMMA SendReadKeeps ==
  ASSUME IInv, SendRead
  PROVE  IInv'
<1>1. /\ pc = "command" /\ op.kind = "read" /\ pc' = "wait"
      /\ flag = FALSE /\ irq = FALSE /\ Quiet /\ fdc \in FdcState
      /\ UNCHANGED <<op, drives, current, flag, irq>>
  BY DEF SendRead, IInv, ChipInv, Typed
<1>2. /\ fdc'.phase = "reading" /\ fdc'.done = {} /\ fdc'.moving = fdc.moving
      /\ fdc' \in FdcState
  <2>1. op.drive \in Drive /\ current[op.drive] \in [c : Int, h : Int, r : Int]
    BY DEF IInv, Typed
  <2>2. FirstSector(op.drive) \in [c : Int, h : Int, r : Int]
    BY <2>1 DEF FirstSector
  <2>3. current[op.drive].r + op.request.count \in Int
    BY <2>1, RequestAssumption DEF IInv, Typed
  <2>4. discardData(fdc) \in FdcState /\ discardData(fdc).done = {}
        /\ discardData(fdc).moving = fdc.moving
    BY <1>1 DEF discardData, FdcState, Quiet
  <2>5. fdc' = [discardData(fdc) EXCEPT !.phase = "reading", !.unit = op.drive,
                  !.place = FirstSector(op.drive),
                  !.eot = current[op.drive].r + op.request.count]
    BY DEF SendRead
  <2> HIDE DEF discardData, FirstSector
  <2> QED BY <2>1, <2>2, <2>3, <2>4, <2>5 DEF FdcState
<1>3. Typed'
  BY <1>1, <1>2 DEF IInv, Typed
<1>4. CallInv'
  BY <1>1 DEF IInv, CallInv
<1>5. ChipInv'
  BY <1>1, <1>2 DEF ChipInv, Quiet, Still
<1>6. SearchInv'
  BY <1>1 DEF IInv, SearchInv, Searching, Reachable
<1> QED BY <1>3, <1>4, <1>5, <1>6 DEF IInv

LEMMA WaitReadKeeps ==
  ASSUME IInv, WaitRead
  PROVE  IInv'
<1>1. /\ pc = "wait" /\ op.kind = "read" /\ flag /\ ~irq /\ pc' = "ready"
      /\ fdc' = discardData(fdc) /\ fdc \in FdcState
      /\ UNCHANGED <<op, drives, flag, irq>>
  BY DEF WaitRead, IInv, Typed
<1>2. Still(fdc) /\ fdc.done = {} /\ fdc.phase = "result"
  BY <1>1 DEF IInv, ChipInv
<1>3. /\ fdc'.phase = "idle" /\ fdc'.done = {} /\ fdc'.moving = fdc.moving
      /\ fdc' \in FdcState
  BY <1>1, <1>2 DEF discardData, FdcState
<1>4. current' \in [Drive -> [c : Int, h : Int, r : Int]]
  BY <1>2 DEF WaitRead, IInv, Typed, FdcState
<1>5. Typed'
  BY <1>1, <1>3, <1>4 DEF IInv, Typed
<1>6. CallInv'
  BY <1>1 DEF IInv, CallInv
<1>7. ChipInv'
  <2>1. Quiet'
    BY <1>2, <1>3 DEF Quiet, Still
  <2>2. irq' = FALSE
    BY <1>1 DEF WaitRead
  <2> QED BY <1>1, <2>1, <2>2 DEF ChipInv
<1>8. SearchInv'
  BY <1>1 DEF IInv, SearchInv, Searching, Reachable
<1> QED BY <1>5, <1>6, <1>7, <1>8 DEF IInv

LEMMA WaitSeekKeeps ==
  ASSUME IInv, WaitSeek
  PROVE  IInv'
<1> USE DEF IInv, WaitSeek
<1>1. Typed'
  BY DEF Typed
<1>2. CallInv'
  BY DEF CallInv
<1>3. ChipInv'
  BY DEF ChipInv, OnItsWay, Arrived, Unit, Still
<1>4. SearchInv'
  BY DEF SearchInv, Searching, Reachable
<1> QED BY <1>1, <1>2, <1>3, <1>4

(* The answer of SENSE INTERRUPT is about the drive that was moved; in a   *)
(* search that is the drive that was looked for.                           *)
LEMMA SenseKeeps ==
  ASSUME IInv, OneAtATime, SenseInterrupt
  PROVE  IInv'
<1>1. PICK answer \in Sensed :
        /\ fdc' = Acknowledged(fdc, answer)
        /\ IF op.kind = "recalibrate" THEN AfterRecalibrate(answer) ELSE AfterSeek
  BY DEF SenseInterrupt
<1>2. pc = "sense" /\ op.kind # "read" /\ Still(fdc) /\ fdc \in FdcState /\ irq = FALSE
  <2>1. pc = "sense" /\ ~irq /\ waitForIdle(fdc)
    BY DEF SenseInterrupt
  <2>2. irq = FALSE
    <3>1. OnItsWay \/ Arrived
      BY <2>1 DEF IInv, ChipInv
    <3> QED BY <2>1
  <2> QED BY <2>1, <2>2 DEF OneAtATime, waitForIdle, IInv, CallInv, Typed
<1>3. /\ Arrived
      /\ answer = [drive |-> Unit, ic |-> IF Unit \in Present THEN 0 ELSE 1]
  <2>1. Unit \in Drive
    BY Shape DEF IInv, Typed, Unit
  <2>2. ~OnItsWay
    BY <1>2, <2>1 DEF OnItsWay, Still
  <2>3. Arrived
    BY <1>2, <2>2 DEF IInv, ChipInv
  <2>4. Sensed = fdc.done
    BY <2>3 DEF Sensed, Arrived
  <2> QED BY <2>3, <2>4 DEF Arrived
<1>4. /\ fdc' \in FdcState /\ fdc'.done = {} /\ fdc'.phase = "idle"
      /\ fdc'.moving = fdc.moving
  <2>1. discardData(fdc) = fdc
    BY <1>2, <1>3 DEF discardData, Arrived, FdcState
  <2>2. fdc' = [fdc EXCEPT !.done = @ \ {answer}]
    BY <1>1, <2>1 DEF Acknowledged
  <2>3. fdc.done \ {answer} = {}
    BY <1>3 DEF Arrived
  <2> QED BY <1>2, <1>3, <2>2, <2>3 DEF FdcState, Arrived
<1>5. Quiet' /\ irq' = FALSE
  BY <1>2, <1>4 DEF Quiet, Still, SenseInterrupt
<1>6. UNCHANGED flag
  BY DEF SenseInterrupt
<1>7. CASE op.kind = "recalibrate"
  <2> DEFINE more == answer.ic = 0 /\ op.drive + 1 < MaxDrives
  <2>1. /\ drives' = IF answer.ic = 0 THEN drives \cup {op.drive} ELSE drives
        /\ pc' = IF more THEN "detect" ELSE "ready"
        /\ op' = IF more THEN [op EXCEPT !.drive = @ + 1] ELSE op
        /\ current' = current
    BY <1>1, <1>7 DEF AfterRecalibrate, Found
  <2>2. op.drive \in Drive /\ (answer.ic = 0 <=> op.drive \in Present)
    BY <1>3, <1>7 DEF IInv, Typed, Unit
  <2>3. more => op.drive + 1 \in Drive
    BY <2>2, Shape DEF Drive
  <2>4. op' \in [kind : {"none", "recalibrate", "seek", "read"}, drive : Drive,
                 request : Request]
        /\ op'.kind = "recalibrate" /\ (more => op'.drive = op.drive + 1)
    BY <1>7, <2>1, <2>2, <2>3 DEF IInv, Typed
  <2>5. Typed'
    BY <1>4, <2>1, <2>2, <2>4 DEF IInv, Typed
  <2>6. CallInv'
    BY <2>1, <2>4 DEF CallInv
  <2>7. ChipInv'
    BY <1>5, <2>1, <2>4 DEF ChipInv
  <2>8. SearchInv'
    <3>1. drives = {d \in Drive : d < op.drive} /\ drives \subseteq Present
      BY <1>2, <1>7 DEF IInv, SearchInv, Searching
    <3>2. CASE more
      <4>1. drives' = drives \cup {op.drive} /\ Searching'
        BY <2>1, <2>4, <3>2 DEF Searching
      <4>2. drives' \subseteq Present
        BY <2>2, <3>1, <3>2, <4>1
      <4>3. drives' = {d \in Drive : d < op.drive + 1}
        BY <2>2, <3>1, <4>1 DEF Drive
      <4> QED BY <2>4, <3>2, <4>1, <4>2, <4>3 DEF SearchInv
    <3>3. CASE ~more /\ answer.ic = 0
      <4>1. drives' = drives \cup {op.drive} /\ ~Searching' /\ op.drive \in Present
        BY <2>1, <2>2, <3>3 DEF Searching
      <4>2. drives' = Drive /\ drives' \subseteq Present
        BY <2>2, <3>1, <3>3, <4>1, Shape DEF Drive
      <4>3. Reachable = Drive
        BY <4>2, Shape DEF Reachable, Drive
      <4> QED BY <4>1, <4>2, <4>3 DEF SearchInv, Reachable
    <3>4. CASE answer.ic # 0
      <4>1. drives' = drives /\ ~Searching' /\ op.drive \notin Present
        BY <2>1, <2>2, <3>4 DEF Searching
      <4>2. ASSUME NEW d \in Drive PROVE d \in drives <=> d \in Reachable
        <5>1. CASE d < op.drive
          <6>1. 0 .. d \subseteq drives
            BY <2>2, <3>1, <5>1, Shape DEF Drive
          <6> QED BY <3>1, <5>1, <6>1 DEF Reachable
        <5>2. CASE ~(d < op.drive)
          <6>1. op.drive \in 0 .. d
            BY <2>2, <5>2 DEF Drive
          <6> QED BY <3>1, <4>1, <5>2, <6>1 DEF Reachable
        <5> QED BY <5>1, <5>2
      <4>3. drives = Reachable
        BY <4>2 DEF IInv, Typed, Reachable
      <4> QED BY <4>1, <4>3 DEF SearchInv, Reachable
    <3> QED BY <3>2, <3>3, <3>4
  <2> QED BY <2>5, <2>6, <2>7, <2>8 DEF IInv
<1>8. CASE op.kind # "recalibrate"
  <2>1. /\ pc' = "ready" /\ op' = op /\ drives' = drives
        /\ current' = [current EXCEPT ![op.drive] = PlaceOf(op.request.block)]
    BY <1>1, <1>8 DEF AfterSeek
  <2>2. op.kind = "seek"
    BY <1>2, <1>8 DEF IInv, Typed, CallInv
  <2>3. PlaceOf(op.request.block) \in [c : Int, h : Int, r : Int]
    BY PlaceTyped DEF IInv, Typed
  <2>4. Typed'
    BY <1>4, <2>1, <2>3 DEF IInv, Typed
  <2>5. CallInv'
    BY <2>1, <2>2 DEF CallInv
  <2>6. ChipInv'
    BY <1>5, <2>1 DEF ChipInv
  <2>7. SearchInv'
    BY <2>1, <2>2 DEF IInv, SearchInv, Searching, Reachable
  <2> QED BY <2>4, <2>5, <2>6, <2>7 DEF IInv
<1> QED BY <1>7, <1>8

-----------------------------------------------------------------------------
(* The chip's steps leave the driver alone.                                *)

LEMMA DriverKept ==
  ASSUME IInv, UNCHANGED driver, fdc' \in FdcState
  PROVE  Typed' /\ CallInv' /\ SearchInv'
<1> USE DEF driver, IInv
<1>1. Typed'
  BY DEF Typed
<1>2. CallInv'
  BY DEF CallInv
<1>3. SearchInv'
  BY DEF SearchInv, Searching, Reachable
<1> QED BY <1>1, <1>2, <1>3

LEMMA ArriveKeeps ==
  ASSUME IInv, NEW d \in Drive, Arrive(d)
  PROVE  IInv'
<1> DEFINE to == IF d \in Present THEN fdc.moving[d] ELSE fdc.pos[d]
           said == [drive |-> d, ic |-> IF d \in Present THEN 0 ELSE 1]
<1>1. /\ fdc.moving[d] # Nothing
      /\ fdc' = [fdc EXCEPT !.moving[d] = Nothing, !.pos[d] = to,
                   !.done = @ \cup {said}]
      /\ UNCHANGED <<driver, flag>>
  BY DEF Arrive
<1>2. fdc \in FdcState
  BY DEF IInv, Typed
<1>3. to \in Int /\ said \in [drive : Drive, ic : Int]
  BY <1>1, <1>2 DEF FdcState
<1> HIDE DEF to, said
<1>4. /\ fdc' \in FdcState /\ fdc'.done = fdc.done \cup {said}
      /\ fdc'.phase = fdc.phase /\ fdc'.moving = [fdc.moving EXCEPT ![d] = Nothing]
  BY <1>1, <1>2, <1>3 DEF FdcState
<1>5. Typed' /\ CallInv' /\ SearchInv'
  BY <1>1, <1>4, DriverKept
<1>6. pc \in {"wait", "sense"} /\ op.kind # "read" /\ OnItsWay
  BY <1>1 DEF IInv, Typed, CallInv, ChipInv, Quiet, Still, Arrived
<1>7. d = Unit /\ Unit' = Unit
  BY <1>1, <1>6 DEF OnItsWay, Unit, driver
<1>8. Arrived'
  <2>1. fdc'.done = {said} /\ fdc'.phase = "idle"
    BY <1>4, <1>6 DEF OnItsWay
  <2>2. Still(fdc')
    BY <1>2, <1>4, <1>6, <1>7 DEF OnItsWay, Still, FdcState
  <2> QED BY <1>7, <2>1, <2>2 DEF Arrived, said, Still
<1>9. ChipInv'
  BY <1>1, <1>6, <1>8 DEF ChipInv, driver
<1> QED BY <1>5, <1>9 DEF IInv

\* A transfer goes on or ends only while the driver waits for a read.
LEMMA ReadingMeansRead ==
  ASSUME IInv, fdc.phase = "reading"
  PROVE  /\ pc = "wait" /\ op.kind = "read" /\ Still(fdc) /\ fdc.done = {}
         /\ irq = FALSE /\ flag = FALSE /\ fdc \in FdcState
BY DEF IInv, Typed, CallInv, ChipInv, Quiet, OnItsWay, Arrived

LEMMA TransferKeeps ==
  ASSUME IInv, TransferSector
  PROVE  IInv'
<1>1. /\ fdc.phase = "reading" /\ UNCHANGED <<driver, flag, irq>>
      /\ fdc' = [fdc EXCEPT !.place.r = @ + 1]
  BY DEF TransferSector
<1>2. /\ pc = "wait" /\ op.kind = "read" /\ Still(fdc) /\ fdc.done = {}
      /\ irq = FALSE /\ flag = FALSE /\ fdc \in FdcState
  BY <1>1, ReadingMeansRead
<1>3. /\ fdc' \in FdcState /\ fdc'.done = {} /\ fdc'.phase = "reading"
      /\ fdc'.moving = fdc.moving
  BY <1>1, <1>2 DEF FdcState
<1>4. Typed' /\ CallInv' /\ SearchInv'
  BY <1>1, <1>3, DriverKept
<1>5. ChipInv'
  BY <1>1, <1>2, <1>3 DEF ChipInv, Still, driver
<1> QED BY <1>4, <1>5 DEF IInv

LEMMA FinishKeeps ==
  ASSUME IInv, fdc.phase = "reading", NEW ic \in Int,
         NEW place \in [c : Int, h : Int, r : Int], Finish(ic, place)
  PROVE  IInv'
<1>1. /\ fdc' = [fdc EXCEPT !.phase = "result", !.ic = ic, !.place = place]
      /\ UNCHANGED <<driver, flag>>
  BY DEF Finish
<1>2. /\ pc = "wait" /\ op.kind = "read" /\ Still(fdc) /\ fdc.done = {}
      /\ fdc \in FdcState
  BY ReadingMeansRead
<1>3. /\ fdc' \in FdcState /\ fdc'.done = {} /\ fdc'.phase = "result"
      /\ fdc'.moving = fdc.moving
  BY <1>1, <1>2 DEF FdcState
<1>4. Typed' /\ CallInv' /\ SearchInv'
  BY <1>1, <1>3, DriverKept
<1>5. ChipInv'
  BY <1>1, <1>2, <1>3 DEF ChipInv, Still, driver
<1> QED BY <1>4, <1>5 DEF IInv

LEMMA EndsKeep ==
  ASSUME IInv, EndRead \/ RefuseRead \/ MediumError
  PROVE  IInv'
<1>1. fdc.phase = "reading"
  BY DEF EndRead, RefuseRead, MediumError
<1>2. fdc.place \in [c : Int, h : Int, r : Int]
  BY <1>1, ReadingMeansRead DEF FdcState
<1>3. CASE EndRead
  <2> DEFINE next == [c |-> fdc.place.c + fdc.place.h, h |-> 1 - fdc.place.h,
                      r |-> 1]
  <2>1. Finish(0, next)
    BY <1>3 DEF EndRead
  <2>2. next \in [c : Int, h : Int, r : Int]
    BY <1>2
  <2> HIDE DEF next
  <2> QED BY <1>1, <2>1, <2>2, FinishKeeps
<1>4. CASE RefuseRead \/ MediumError
  <2>1. Finish(1, fdc.place)
    BY <1>4 DEF RefuseRead, MediumError
  <2> QED BY <1>1, <1>2, <2>1, FinishKeeps
<1> QED BY <1>3, <1>4

LEMMA HandlerKeeps ==
  ASSUME IInv, FDCInterruptHandler
  PROVE  IInv'
<1>1. irq /\ irq' = FALSE /\ UNCHANGED <<driver, fdc>>
  BY DEF FDCInterruptHandler
<1>2. Typed' /\ CallInv' /\ SearchInv'
  BY <1>1, DriverKept DEF IInv, Typed
<1>3. /\ pc \in {"wait", "sense"}
      /\ pc = "wait" /\ op.kind = "read" =>
           Still(fdc) /\ fdc.done = {} /\ fdc.phase = "result"
      /\ ~(pc = "wait" /\ op.kind = "read") => Arrived
  BY <1>1 DEF IInv, Typed, ChipInv, OnItsWay
<1>4. pc' = pc /\ op' = op /\ fdc' = fdc
  BY <1>1 DEF driver
<1>5. Arrived => Arrived'
  BY <1>4 DEF Arrived, Still, Unit
<1>6. ChipInv'
  BY <1>3, <1>4, <1>5 DEF ChipInv, Still
<1> QED BY <1>2, <1>6 DEF IInv

LEMMA NextKeeps ==
  ASSUME IInv, OneAtATime, [Next]_vars
  PROVE  IInv'
<1>1. CASE \E d \in drives, q \in Request : Seek(d, q)
  BY <1>1, SeekKeeps
<1>2. CASE Read
  BY <1>2, ReadKeeps
<1>3. CASE Driver
  BY <1>3, DetectKeeps, SendSeekKeeps, SendReadKeeps, WaitSeekKeeps,
     WaitReadKeeps, SenseKeeps DEF Driver
<1>4. CASE Chip
  BY <1>4, ArriveKeeps, TransferKeeps, EndsKeep DEF Chip
<1>5. CASE MediumError
  BY <1>5, EndsKeep
<1>6. CASE FDCInterruptHandler
  BY <1>6, HandlerKeeps
<1>7. CASE UNCHANGED vars
  <2>1. UNCHANGED driver /\ UNCHANGED <<flag, fdc, irq>>
    BY <1>7 DEF vars
  <2>2. Typed' /\ CallInv' /\ SearchInv'
    BY <2>1, DriverKept DEF IInv, Typed
  <2>3. ChipInv'
    BY <2>1 DEF IInv, ChipInv, Quiet, OnItsWay, Arrived, Still, Unit, driver
  <2> QED BY <2>2, <2>3 DEF IInv
<1> QED BY <1>1, <1>2, <1>3, <1>4, <1>5, <1>6, <1>7 DEF Next, Works

LEMMA Invariance ==
  ASSUME OneAtATime
  PROVE  Spec => []IInv
<1>1. IInv /\ [Next]_vars => IInv'
  BY NextKeeps
<1> QED BY <1>1, InitEstablishes, PTL DEF Spec

-----------------------------------------------------------------------------
(* A read that goes on finds its results, and SENSE INTERRUPT a seek it    *)
(* can answer for, whatever the interleaving of driver, chip and interrupt *)
(* (fdd.cpp:210 never runs out of patience).                               *)
THEOREM RepliesAreThere ==
  ASSUME OneAtATime
  PROVE  Spec => []RepliesThere
<1>1. IInv => RepliesThere
  <2> SUFFICES ASSUME IInv, ~irq PROVE
        /\ pc = "wait" /\ op.kind = "read" /\ flag => fdc.phase = "result"
        /\ pc = "sense" /\ waitForIdle(fdc) => fdc.done # {}
    BY DEF RepliesThere
  <2>1. ASSUME pc = "wait", op.kind = "read", flag PROVE fdc.phase = "result"
    BY <2>1 DEF IInv, ChipInv
  <2>2. ASSUME pc = "sense", waitForIdle(fdc) PROVE fdc.done # {}
    <3>1. Unit \in Drive /\ Still(fdc)
      BY <2>2, Shape DEF OneAtATime, waitForIdle, IInv, Typed, Unit
    <3>2. Arrived
      BY <2>2, <3>1 DEF IInv, ChipInv, OnItsWay, Still
    <3> QED BY <3>2 DEF Arrived
  <2> QED BY <2>1, <2>2
<1> QED BY <1>1, Invariance, PTL

(* DetectDrives ends with the drives there are up to the first gap, and no *)
(* later call changes that.                                                *)
THEOREM DrivesAreFound ==
  ASSUME OneAtATime
  PROVE  Spec => []DetectsPresent
<1>1. IInv => DetectsPresent
  BY DEF IInv, SearchInv, Searching, Reachable, DetectsPresent
<1> QED BY <1>1, Invariance, PTL

-----------------------------------------------------------------------------
(* Places and blocks.                                                      *)

LEMMA Tracks ==
  /\ SectorsPerHead \in Nat /\ SectorsPerHead > 0 /\ Cylinders \in Nat
  /\ SizeWrap \in Nat /\ SizeWrap > 0
  /\ SectorsPerCylinder = 2 * SectorsPerHead
BY DriveAssumption DEF SectorsPerCylinder

LEMMA Requested ==
  ASSUME NEW q \in Request
  PROVE  /\ q.block \in Block /\ q.block \in Nat /\ q.count \in Nat /\ q.count > 0
         /\ (q.block % SectorsPerHead) + q.count <= SectorsPerHead
         /\ q.count <= SectorsPerHead
<1>1. /\ q.block \in Block /\ q.block \in Nat /\ q.count \in Nat /\ q.count > 0
      /\ (q.block % SectorsPerHead) + q.count <= SectorsPerHead
  BY RequestAssumption DEF Block
<1> DEFINE r == q.block % SectorsPerHead
<1>2. r \in Nat
  BY <1>1, Tracks
<1> HIDE DEF r
<1>3. r + q.count <= SectorsPerHead
  BY <1>1 DEF r
<1> QED BY <1>1, <1>2, <1>3, Tracks

LEMMA ProductMonotone ==
  ASSUME NEW a \in Int, NEW b \in Int, NEW s \in Nat, a <= b
  PROVE  a * s <= b * s
<1>1. (b - a) * s >= 0
  OBVIOUS
<1>2. (b - a) * s = b * s - a * s
  OBVIOUS
<1> QED BY <1>1, <1>2

LEMMA QuotientBelow ==
  ASSUME NEW t \in Nat, NEW b \in Nat, NEW s \in Nat, s > 0, t < b * s
  PROVE  t \div s \in Nat /\ t \div s < b
<1> DEFINE q == t \div s
<1>1. q \in Nat /\ q * s <= t
  OBVIOUS
<1> HIDE DEF q
<1>2. q < b
  <2> SUFFICES ASSUME b <= q PROVE FALSE
    BY <1>1
  <2>1. b * s <= q * s
    BY <1>1, ProductMonotone
  <2>2. b * s \in Int /\ q * s \in Int
    BY <1>1
  <2> QED BY <1>1, <2>1, <2>2
<1> QED BY <1>1, <1>2 DEF q

LEMMA DivMod ==
  ASSUME NEW x \in Nat, NEW s \in Nat, s > 0
  PROVE  /\ x \div s \in Nat /\ x % s \in 0 .. s - 1
         /\ x = s * (x \div s) + (x % s)
OBVIOUS

LEMMA ModUnique ==
  ASSUME NEW s \in Nat, s > 0, NEW k \in Nat, NEW r \in 0 .. s - 1,
         NEW x, x = s * k + r
  PROVE  x % s = r
OBVIOUS

(* Where a block is, and what is there: the two ways of counting agree.    *)
LEMMA PlaceIsThere ==
  ASSUME NEW q \in Request
  PROVE  LET p == PlaceOf(q.block) IN
         /\ p \in [c : 0 .. Cylinders - 1, h : 0 .. 1, r : Offset]
         /\ p.r = q.block % SectorsPerHead
         /\ p.c * SectorsPerCylinder + p.h * SectorsPerHead + p.r = q.block
<1> DEFINE b == q.block
           c == b \div SectorsPerCylinder
           t == b % SectorsPerCylinder
           h == t \div SectorsPerHead
           r == b % SectorsPerHead
           u == t % SectorsPerHead
<1>1. PlaceOf(q.block) = [c |-> c, h |-> h, r |-> r]
  BY DEF PlaceOf
<1>2. b \in Nat /\ b < Cylinders * SectorsPerCylinder
  <2>1. b \in Nat /\ b <= SectorsPerCylinder * Cylinders - 1
    BY Requested DEF Block
  <2>2. SectorsPerCylinder * Cylinders = Cylinders * SectorsPerCylinder
        /\ SectorsPerCylinder * Cylinders \in Int
    BY Tracks
  <2> QED BY <2>1, <2>2
<1>3. SectorsPerCylinder \in Nat /\ SectorsPerCylinder > 0
  BY Tracks
<1> HIDE DEF b
<1>4. c \in Nat /\ t \in 0 .. SectorsPerCylinder - 1 /\ b = SectorsPerCylinder * c + t
  BY <1>2, <1>3, DivMod
<1>5. c < Cylinders
  BY <1>2, <1>3, Tracks, QuotientBelow
<1> HIDE DEF c, t
<1>6. h \in Nat /\ u \in 0 .. SectorsPerHead - 1 /\ t = SectorsPerHead * h + u
  BY <1>4, Tracks, DivMod
<1>7. h < 2
  BY <1>4, Tracks, QuotientBelow
<1> HIDE DEF h, u
<1>8. b = SectorsPerHead * (2 * c + h) + u
  <2>1. SectorsPerCylinder * c = SectorsPerHead * (2 * c)
    BY <1>4, Tracks
  <2>2. SectorsPerHead * (2 * c + h) = SectorsPerHead * (2 * c) + SectorsPerHead * h
    BY <1>4, <1>6, Tracks
  <2> QED BY <1>4, <1>6, <2>1, <2>2, Tracks
<1>9. r = u
  <2> DEFINE k == 2 * c + h
  <2>1. k \in Nat
    BY <1>4, <1>6
  <2>2. b = SectorsPerHead * k + u
    BY <1>8
  <2> HIDE DEF k
  <2>3. b % SectorsPerHead = u
    BY <1>6, <2>1, <2>2, Tracks, ModUnique
  <2> QED BY <2>3
<1>10. c * SectorsPerCylinder + h * SectorsPerHead + r = b
  BY <1>4, <1>6, <1>9, Tracks
<1> HIDE DEF r
<1>11. c \in 0 .. Cylinders - 1 /\ h \in 0 .. 1 /\ r \in Offset
  BY <1>4, <1>5, <1>6, <1>7, <1>9, Tracks DEF Offset
<1>12. /\ PlaceOf(q.block).c = c /\ PlaceOf(q.block).h = h /\ PlaceOf(q.block).r = r
       /\ PlaceOf(q.block) \in [c : 0 .. Cylinders - 1, h : 0 .. 1, r : Offset]
  BY <1>1, <1>11
<1> QED BY <1>10, <1>12 DEF b, r

\* A request stays on its track, and so do its blocks on the disk.
LEMMA RequestOnTrack ==
  ASSUME NEW q \in Request, NEW i \in 0 .. q.count - 1
  PROVE  /\ q.block + i \in Block /\ i \in Offset
         /\ (q.block % SectorsPerHead) + i + 1 <= SectorsPerHead
<1> DEFINE k == q.block \div SectorsPerHead
           r == q.block % SectorsPerHead
<1>1. /\ q.block \in Nat /\ q.count \in Nat /\ i \in Nat /\ i < q.count
      /\ r + q.count <= SectorsPerHead
  BY Requested
<1>2. k \in Nat /\ r \in 0 .. SectorsPerHead - 1 /\ q.block = SectorsPerHead * k + r
  BY <1>1, Tracks, DivMod
<1>3. q.block < (2 * Cylinders) * SectorsPerHead
  <2>1. q.block <= SectorsPerCylinder * Cylinders - 1
    BY Requested DEF Block
  <2>2. /\ SectorsPerCylinder * Cylinders = (2 * Cylinders) * SectorsPerHead
        /\ SectorsPerCylinder * Cylinders \in Int
    BY Tracks
  <2> QED BY <1>1, <2>1, <2>2
<1>4. k < 2 * Cylinders
  BY <1>1, <1>3, Tracks, QuotientBelow
<1> HIDE DEF k, r
<1>5. (k + 1) * SectorsPerHead <= (2 * Cylinders) * SectorsPerHead
  BY <1>2, <1>4, Tracks, ProductMonotone
<1>6. (k + 1) * SectorsPerHead = SectorsPerHead * k + SectorsPerHead
      /\ SectorsPerHead * k \in Int
  BY <1>2, Tracks
<1>7. q.block + i < SectorsPerCylinder * Cylinders
  <2>1. q.block + i + 1 <= SectorsPerHead * k + SectorsPerHead
    BY <1>1, <1>2, <1>6, Tracks
  <2> DEFINE all == (2 * Cylinders) * SectorsPerHead
             track == SectorsPerHead * k
  <2>2. SectorsPerCylinder * Cylinders = all /\ all \in Int
    BY Tracks
  <2>3. track + SectorsPerHead <= all /\ track \in Int
    BY <1>5, <1>6
  <2>4. q.block + i + 1 <= track + SectorsPerHead
    BY <2>1
  <2> HIDE DEF all, track
  <2> QED BY <1>1, <2>2, <2>3, <2>4, Tracks
<1>8. q.block + i \in Block
  <2>1. SectorsPerCylinder * Cylinders \in Int
    BY Tracks
  <2> QED BY <1>1, <1>7, <2>1 DEF Block
<1> QED BY <1>1, <1>2, <1>8, Tracks DEF r, Offset

-----------------------------------------------------------------------------
(* What is in the memory of the channel and of the caller.                 *)

Sector == (Drive \X Block) \cup {Nothing}
ChannelState ==
  [open : BOOLEAN, size : 0 .. SectorsPerHead, counter : Int,
   at : 0 .. SectorsPerHead]

MemoryInv ==
  /\ flag \in BOOLEAN /\ irq \in BOOLEAN /\ result \in 0 .. NotYet
  /\ buffer \in [Offset -> Sector] /\ bounce \in [Offset -> Sector]
  /\ channel \in ChannelState
  /\ fdc.ic \in {0, 1} /\ fdc.place \in Place
  /\ \A d \in Drive : current[d] \in Place

(* Between a seek and the end of the read that follows it, the current     *)
(* place is the one the seek named.                                        *)
Named == PlaceOf(op.request.block)
SoughtInv ==
  \/ pc = "ready" /\ op.kind = "seek"
  \/ pc # "ready" /\ op.kind = "read"
  => current[op.drive] = Named

(* While sectors come, the chip is as many of them behind the first as the *)
(* channel has stored, and these are the ones that were asked for.         *)
Reading == pc = "wait" /\ op.kind = "read"
TransferInv ==
  Reading =>
    /\ channel.size = op.request.count % SizeWrap
    /\ channel.at \in 0 .. op.request.count
    /\ \A i \in 0 .. channel.at - 1 : bounce[i] = <<op.drive, op.request.block + i>>
    /\ fdc.phase = "reading" =>
         /\ fdc.unit = op.drive /\ fdc.eot = Named.r + op.request.count
         /\ fdc.place = [Named EXCEPT !.r = @ + 1 + channel.at]
    /\ fdc.phase = "result" /\ fdc.ic = 0 => channel.at = op.request.count

DataInv == MemoryInv /\ SoughtInv /\ TransferInv

\* A sector of the disk, and what comes behind it on its track.
LEMMA OnTheDisk ==
  ASSUME NEW p \in [c : 0 .. Cylinders - 1, h : 0 .. 1, r : Offset]
  PROVE  p \in Place /\ \A r \in Nat : [p EXCEPT !.r = r] \in Place
<1>1. p.c \in 0 .. Cylinders /\ p.h \in 0 .. 1 /\ p.r \in Nat
  BY DriveAssumption DEF Offset
<1>2. p = [c |-> p.c, h |-> p.h, r |-> p.r]
  OBVIOUS
<1>3. ASSUME NEW r \in Nat
      PROVE  [p EXCEPT !.r = r] = [c |-> p.c, h |-> p.h, r |-> r]
  OBVIOUS
<1> QED BY <1>1, <1>2, <1>3 DEF Place

LEMMA InitData == Init => DataInv
<1> SUFFICES ASSUME Init PROVE DataInv
  OBVIOUS
<1>1. [c |-> 0, h |-> 0, r |-> 0] \in Place
  BY DriveAssumption DEF Place
<1>2. Closed \in ChannelState
  BY Tracks DEF Closed, ChannelState
<1>3. MemoryInv
  <2>1. flag = FALSE /\ irq = FALSE /\ result = NotYet /\ channel = Closed
    BY DEF Init
  <2>2. buffer \in [Offset -> Sector] /\ bounce \in [Offset -> Sector]
    BY DEF Init, Sector
  <2>3. /\ fdc.ic \in {0, 1} /\ fdc.place \in Place
        /\ \A d \in Drive : current[d] \in Place
    BY <1>1 DEF Init
  <2>4. flag \in BOOLEAN /\ irq \in BOOLEAN
    BY <2>1
  <2>5. result \in 0 .. NotYet
    BY <2>1 DEF NotYet
  <2>6. channel \in ChannelState
    BY <1>2, <2>1
  <2> QED BY <2>2, <2>3, <2>4, <2>5, <2>6, Zenon DEF MemoryInv
<1>4. SoughtInv /\ TransferInv
  BY DEF Init, SoughtInv, TransferInv, Reading
<1> QED BY <1>3, <1>4 DEF DataInv

\* Calls that begin leave the memory alone.
LEMMA CallsKeepData ==
  ASSUME IInv, DataInv,
         DetectDrive \/ (\E d \in drives, q \in Request : Seek(d, q)) \/ Read
  PROVE  DataInv'
<1>1. /\ pc' = "command" /\ flag' \in BOOLEAN /\ result' \in 0 .. NotYet
      /\ UNCHANGED <<drives, current, buffer, channel, bounce, fdc, irq>>
  <2>1. /\ pc' = "command" /\ result' \in {result, NotYet}
        /\ UNCHANGED <<drives, current, buffer, channel, bounce, fdc, irq>>
    BY DEF DetectDrive, Seek, Read, Call
  <2>2. flag' \in {flag, FALSE}
    BY DEF DetectDrive, Seek, Read, Call, ClearFlag
  <2>3. flag \in BOOLEAN /\ result \in 0 .. NotYet
    BY DEF DataInv, MemoryInv
  <2>4. result' \in 0 .. NotYet
    BY <2>1, <2>3 DEF NotYet
  <2>5. flag' \in BOOLEAN
    BY <2>2, <2>3
  <2> QED BY <2>1, <2>4, <2>5
<1>2. MemoryInv'
  BY <1>1 DEF DataInv, MemoryInv
<1>3. TransferInv'
  BY <1>1 DEF TransferInv, Reading
<1>4. SoughtInv'
  <2>1. CASE DetectDrive
    <3>1. op'.kind = "recalibrate"
      BY <2>1 DEF DetectDrive, Call, IInv, Typed
    <3> QED BY <1>1, <3>1 DEF SoughtInv
  <2>2. CASE \E d \in drives, q \in Request : Seek(d, q)
    <3>1. op'.kind = "seek"
      BY <2>2 DEF Seek, Call
    <3> QED BY <1>1, <3>1 DEF SoughtInv
  <2>3. CASE Read
    <3>1. pc = "ready" /\ op.kind = "seek" /\ op' = [op EXCEPT !.kind = "read"]
      BY <2>3 DEF Read, Call
    <3>2. op'.drive = op.drive /\ op'.request = op.request
      BY <3>1 DEF IInv, Typed
    <3> QED BY <1>1, <3>1, <3>2 DEF DataInv, SoughtInv, Named
  <2> QED BY <2>1, <2>2, <2>3
<1> QED BY <1>2, <1>3, <1>4 DEF DataInv

LEMMA SendSeekData ==
  ASSUME IInv, DataInv, SendSeek
  PROVE  DataInv'
<1>1. /\ pc = "command" /\ op.kind # "read" /\ pc' = "wait"
      /\ UNCHANGED <<op, drives, current, result, buffer, flag, channel, bounce, irq>>
  BY DEF SendSeek
<1>2. fdc'.ic = fdc.ic /\ fdc'.place = fdc.place
  BY DEF SendSeek, discardData, IInv, Typed, FdcState
<1> QED BY <1>1, <1>2 DEF DataInv, MemoryInv, SoughtInv, TransferInv, Reading, Named

LEMMA SendReadData ==
  ASSUME IInv, DataInv, SendRead
  PROVE  DataInv'
<1> DEFINE n == op.request.count
           p == current[op.drive]
<1>1. /\ pc = "command" /\ op.kind = "read" /\ pc' = "wait"
      /\ channel' = BeginTransfer(n)
      /\ UNCHANGED <<op, drives, current, result, buffer, flag, bounce, irq>>
  BY DEF SendRead
<1>2. op.drive \in Drive /\ op.request \in Request /\ fdc \in FdcState
  BY DEF IInv, Typed
<1>3. n \in Nat /\ n > 0 /\ n <= SectorsPerHead
  BY <1>2, Requested
<1>4. p = Named /\ p \in Place
  BY <1>1, <1>2 DEF DataInv, SoughtInv, MemoryInv
<1>5. /\ fdc'.unit = op.drive /\ fdc'.eot = p.r + n /\ fdc'.phase = "reading"
      /\ fdc'.place = [p EXCEPT !.r = @ + 1] /\ fdc'.ic = fdc.ic
  <2>1. discardData(fdc) \in FdcState /\ discardData(fdc).ic = fdc.ic
    BY <1>2 DEF discardData, FdcState
  <2>2. fdc' = [discardData(fdc) EXCEPT !.phase = "reading", !.unit = op.drive,
                  !.place = FirstSector(op.drive), !.eot = p.r + n]
    BY DEF SendRead
  <2>3. FirstSector(op.drive) = [p EXCEPT !.r = @ + 1]
    BY DEF FirstSector
  <2> HIDE DEF discardData, FirstSector, p, n
  <2> QED BY <2>1, <2>2, <2>3 DEF FdcState
<1>6. channel' \in ChannelState /\ channel'.size = n % SizeWrap /\ channel'.at = 0
  <2>1. n % SizeWrap \in 0 .. SectorsPerHead
    <3>1. /\ n \div SizeWrap \in Nat /\ n % SizeWrap \in 0 .. SizeWrap - 1
          /\ n = SizeWrap * (n \div SizeWrap) + (n % SizeWrap)
      BY <1>3, Tracks, DivMod
    <3>2. SizeWrap * (n \div SizeWrap) >= 0
      BY <3>1, Tracks
    <3> HIDE DEF n
    <3> QED BY <1>3, <3>1, <3>2, Tracks
  <2>2. ((n - 1) % SizeWrap) + 1 \in Int
    BY <1>3, Tracks
  <2> QED BY <1>1, <2>1, <2>2, Tracks DEF BeginTransfer, ChannelState
<1>7. MemoryInv'
  <2>1. [p EXCEPT !.r = @ + 1] \in Place
    BY <1>4 DEF Place
  <2> QED BY <1>1, <1>5, <1>6, <2>1 DEF DataInv, MemoryInv
<1>8. SoughtInv'
  BY <1>1, <1>4 DEF SoughtInv, Named
<1>9. TransferInv'
  <2>1. fdc'.place = [Named EXCEPT !.r = @ + 1 + 0]
    <3>1. p.r + 1 = p.r + 1 + 0
      BY <1>4 DEF Place
    <3> QED BY <1>4, <1>5, <3>1
  <2>2. n' = n /\ op' = op /\ Named' = Named
    BY <1>1 DEF Named
  <2>3. channel'.at \in 0 .. n
    BY <1>3, <1>6
  <2> QED BY <1>4, <1>5, <1>6, <2>1, <2>2, <2>3 DEF TransferInv, Reading
<1> QED BY <1>7, <1>8, <1>9 DEF DataInv

LEMMA WaitReadData ==
  ASSUME IInv, DataInv, WaitRead
  PROVE  /\ DataInv'
         /\ result' = fdc.ic /\ pc = "wait" /\ op.kind = "read" /\ pc' = "ready"
         /\ op' = op /\ fdc.phase = "result"
<1>1. /\ pc = "wait" /\ op.kind = "read" /\ flag /\ pc' = "ready"
      /\ buffer' = EndTransfer(channel, bounce, buffer) /\ channel' = Closed
      /\ UNCHANGED <<op, drives, flag, bounce, irq>>
      /\ fdc' = discardData(fdc) /\ fdc \in FdcState
  BY DEF WaitRead, IInv, Typed
<1>2. fdc.phase = "result"
  BY <1>1 DEF WaitRead, IInv, ChipInv
<1>3. result' = fdc.ic /\ current' = [current EXCEPT ![op.drive] = fdc.place]
  BY <1>2 DEF WaitRead
<1>4. fdc'.ic = fdc.ic /\ fdc'.place = fdc.place
  BY <1>1 DEF discardData, FdcState
<1>5. buffer' \in [Offset -> Sector]
  BY <1>1 DEF EndTransfer, DataInv, MemoryInv
<1>6. Closed \in ChannelState
  BY Tracks DEF Closed, ChannelState
<1>7. \A d \in Drive : current'[d] \in Place
  BY <1>3 DEF DataInv, MemoryInv, IInv, Typed
<1>8. MemoryInv'
  <2>1. result' \in 0 .. NotYet
    BY <1>3 DEF DataInv, MemoryInv, NotYet
  <2> QED BY <1>1, <1>4, <1>5, <1>6, <1>7, <2>1 DEF DataInv, MemoryInv
<1>9. SoughtInv' /\ TransferInv'
  BY <1>1 DEF SoughtInv, TransferInv, Reading
<1> QED BY <1>1, <1>2, <1>3, <1>8, <1>9 DEF DataInv

LEMMA WaitSeekData ==
  ASSUME IInv, DataInv, WaitSeek
  PROVE  DataInv'
<1>1. /\ op.kind # "read" /\ pc' = "sense"
      /\ UNCHANGED <<op, drives, current, result, buffer, flag, channel, bounce,
                     fdc, irq>>
  BY DEF WaitSeek
<1> QED BY <1>1 DEF DataInv, MemoryInv, SoughtInv, TransferInv, Reading

LEMMA SenseData ==
  ASSUME IInv, DataInv, SenseInterrupt
  PROVE  DataInv'
<1>1. PICK answer \in Sensed :
        /\ fdc' = Acknowledged(fdc, answer)
        /\ IF op.kind = "recalibrate" THEN AfterRecalibrate(answer) ELSE AfterSeek
  BY DEF SenseInterrupt
<1>2. /\ pc = "sense" /\ op.kind # "read" /\ fdc \in FdcState
      /\ op.drive \in Drive /\ op.request \in Request
      /\ UNCHANGED <<result, buffer, flag, channel, bounce, irq>>
  BY DEF SenseInterrupt, IInv, CallInv, Typed
<1>3. fdc'.ic = fdc.ic /\ fdc'.place = fdc.place
  BY <1>1, <1>2 DEF Acknowledged, discardData, FdcState
<1>4. CASE op.kind = "recalibrate"
  <2>1. UNCHANGED current /\ op'.kind = "recalibrate"
    BY <1>1, <1>4 DEF AfterRecalibrate, IInv, Typed
  <2> QED BY <1>2, <1>3, <2>1
      DEF DataInv, MemoryInv, SoughtInv, TransferInv, Reading
<1>5. CASE op.kind # "recalibrate"
  <2>1. /\ pc' = "ready" /\ op' = op
        /\ current' = [current EXCEPT ![op.drive] = PlaceOf(op.request.block)]
    BY <1>1, <1>5 DEF AfterSeek
  <2>2. PlaceOf(op.request.block) \in Place
    BY <1>2, PlaceIsThere, OnTheDisk
  <2>3. \A d \in Drive : current'[d] \in Place
    BY <2>1, <2>2 DEF DataInv, MemoryInv, IInv, Typed
  <2>4. MemoryInv'
    BY <1>2, <1>3, <2>3 DEF DataInv, MemoryInv
  <2>5. SoughtInv'
    BY <1>2, <2>1 DEF SoughtInv, Named, IInv, Typed
  <2>6. TransferInv'
    BY <2>1 DEF TransferInv, Reading
  <2> QED BY <2>4, <2>5, <2>6 DEF DataInv
<1> QED BY <1>4, <1>5

-----------------------------------------------------------------------------
(* The chip's side.                                                        *)

LEMMA ArriveData ==
  ASSUME IInv, DataInv, NEW d \in Drive, Arrive(d)
  PROVE  DataInv'
<1>1. /\ UNCHANGED <<pc, op, drives, current, result, buffer, flag, channel, bounce>>
      /\ irq' \in BOOLEAN
  BY DEF Arrive, driver, Raise, LineUp, DataInv, MemoryInv
<1>2. fdc'.ic = fdc.ic /\ fdc'.place = fdc.place /\ fdc'.phase = fdc.phase
      /\ fdc'.unit = fdc.unit /\ fdc'.eot = fdc.eot
  BY DEF Arrive, IInv, Typed, FdcState
<1> QED BY <1>1, <1>2 DEF DataInv, MemoryInv, SoughtInv, TransferInv, Reading, Named

LEMMA TransferData ==
  ASSUME IInv, DataInv, TransferSector
  PROVE  DataInv'
<1> DEFINE n == op.request.count
           b == op.request.block
           k == channel.at
<1>1. /\ fdc.phase = "reading" /\ fdc.place.r <= fdc.eot
      /\ bounce' = Stored(channel, bounce, SectorAt(fdc.unit, fdc.place))
      /\ channel' = Moved(channel)
      /\ fdc' = [fdc EXCEPT !.place.r = @ + 1]
      /\ UNCHANGED <<pc, op, drives, current, result, buffer, flag, irq>>
  BY DEF TransferSector, driver
<1>2. Reading /\ fdc \in FdcState /\ op.drive \in Drive /\ op.request \in Request
  BY <1>1, ReadingMeansRead DEF Reading, IInv, Typed
<1>3. /\ fdc.unit = op.drive /\ fdc.eot = Named.r + n
      /\ fdc.place = [Named EXCEPT !.r = @ + 1 + k] /\ k \in 0 .. n
      /\ channel.size = n % SizeWrap
      /\ \A i \in 0 .. k - 1 : bounce[i] = <<op.drive, b + i>>
  BY <1>1, <1>2 DEF DataInv, TransferInv
<1>4. /\ Named \in [c : 0 .. Cylinders - 1, h : 0 .. 1, r : Offset]
      /\ Named.c * SectorsPerCylinder + Named.h * SectorsPerHead + Named.r = b
  BY <1>2, PlaceIsThere DEF Named
<1>5. n \in Nat /\ b \in Nat /\ k \in Nat /\ Named.r \in Nat
  BY <1>2, <1>3, <1>4, Requested DEF Offset
<1>6. k < n
  <2>1. fdc.place.r = Named.r + 1 + k
    BY <1>3, <1>4
  <2> QED BY <1>1, <1>3, <1>5, <2>1
<1>7. k \in Offset /\ b + k \in Block /\ k + 1 <= SectorsPerHead
  <2>1. k \in 0 .. n - 1
    BY <1>5, <1>6
  <2>2. k \in Offset /\ b + k \in Block
    BY <1>2, <2>1, RequestOnTrack
  <2> QED BY <2>2, Tracks DEF Offset
<1>8. SectorAt(fdc.unit, fdc.place) = <<op.drive, b + k>>
  <2> DEFINE x == Named.c * SectorsPerCylinder
             y == Named.h * SectorsPerHead
  <2>1. SectorAt(fdc.unit, fdc.place) = <<op.drive, x + y + (Named.r + 1 + k) - 1>>
    BY <1>3, <1>4 DEF SectorAt
  <2>2. x \in Int /\ y \in Int /\ x + y + Named.r = b
    BY <1>4, Tracks
  <2> HIDE DEF x, y
  <2>3. x + y + (Named.r + 1 + k) - 1 = b + k
    BY <1>5, <2>2
  <2> QED BY <2>1, <2>3
<1>9. /\ bounce \in [Offset -> Sector] /\ bounce' = [bounce EXCEPT ![k] = <<op.drive, b + k>>]
      /\ channel \in ChannelState
      /\ channel' = [channel EXCEPT !.counter = @ - 1, !.at = @ + 1]
  BY <1>1, <1>8 DEF Stored, Moved, DataInv, MemoryInv
<1>10. bounce' \in [Offset -> Sector]
  BY <1>2, <1>7, <1>9 DEF Sector
<1>11. /\ channel' \in ChannelState /\ channel'.at = k + 1
       /\ channel'.size = channel.size
  <2>1. channel.counter - 1 \in Int /\ k + 1 \in 0 .. SectorsPerHead
    BY <1>5, <1>7, <1>9, Tracks DEF ChannelState
  <2> QED BY <1>9, <2>1 DEF ChannelState
<1>12. ASSUME NEW i \in 0 .. k PROVE bounce'[i] = <<op.drive, b + i>>
  <2>1. CASE i = k
    BY <1>7, <1>9, <2>1
  <2>2. CASE i # k
    <3>1. i \in 0 .. k - 1
      BY <1>5, <2>2
    <3>2. bounce[i] = <<op.drive, b + i>>
      BY <1>3, <3>1
    <3> QED BY <1>9, <2>2, <3>2
  <2> QED BY <2>1, <2>2
<1>13. /\ fdc'.place = [fdc.place EXCEPT !.r = @ + 1] /\ fdc'.phase = fdc.phase
       /\ fdc'.unit = fdc.unit /\ fdc'.eot = fdc.eot /\ fdc'.ic = fdc.ic
  BY <1>1, <1>2 DEF FdcState
<1>14. fdc'.place = [Named EXCEPT !.r = @ + 1 + (k + 1)] /\ fdc'.place \in Place
  <2>1. (Named.r + 1 + k) + 1 = Named.r + 1 + (k + 1)
    BY <1>5
  <2>2. Named.r + 1 + (k + 1) \in Nat
    BY <1>5
  <2>3. fdc'.place = [Named EXCEPT !.r = (Named.r + 1 + k) + 1]
    BY <1>3, <1>4, <1>13
  <2>4. [Named EXCEPT !.r = Named.r + 1 + (k + 1)] \in Place
    BY <1>4, <2>2, OnTheDisk
  <2> QED BY <2>1, <2>3, <2>4
<1>15. MemoryInv'
  BY <1>1, <1>10, <1>11, <1>13, <1>14 DEF DataInv, MemoryInv
<1>16. SoughtInv'
  BY <1>1 DEF DataInv, SoughtInv, Named
<1>17. TransferInv'
  <2>1. k + 1 \in 0 .. n
    BY <1>5, <1>6
  <2>2. 0 .. (k + 1) - 1 = 0 .. k
    BY <1>5
  <2>3. op' = op /\ Named' = Named
    BY <1>1 DEF Named
  <2>4. \A i \in 0 .. channel'.at - 1 : bounce'[i] = <<op.drive, b + i>>
    BY <1>11, <1>12, <2>2
  <2> QED BY <1>1, <1>3, <1>11, <1>13, <1>14, <2>1, <2>3, <2>4 DEF TransferInv
<1> QED BY <1>15, <1>16, <1>17 DEF DataInv

LEMMA EndsData ==
  ASSUME IInv, DataInv, EndRead \/ RefuseRead \/ MediumError
  PROVE  DataInv'
<1> DEFINE n == op.request.count
<1>1. /\ fdc.phase = "reading" /\ irq' \in BOOLEAN
      /\ UNCHANGED <<pc, op, drives, current, result, buffer, flag, channel, bounce>>
  BY DEF EndRead, RefuseRead, MediumError, Finish, Raise, LineUp, driver, DataInv,
         MemoryInv
<1>2. Reading /\ fdc \in FdcState /\ op.request \in Request
  BY <1>1, ReadingMeansRead DEF Reading, IInv, Typed
<1>3. /\ fdc.eot = Named.r + n /\ channel.at \in 0 .. n
      /\ fdc.place = [Named EXCEPT !.r = @ + 1 + channel.at]
  BY <1>1, <1>2 DEF DataInv, TransferInv
<1>4. fdc.place \in Place
  BY DEF DataInv, MemoryInv
<1>5. /\ fdc'.phase = "result" /\ fdc'.ic \in {0, 1} /\ fdc'.place \in Place
      /\ fdc'.ic = 0 => fdc.place.r > fdc.eot
  <2>1. CASE EndRead
    <3> DEFINE next == [c |-> fdc.place.c + fdc.place.h, h |-> 1 - fdc.place.h,
                        r |-> 1]
    <3>1. next \in Place
      <4>1. Named \in [c : 0 .. Cylinders - 1, h : 0 .. 1, r : Offset]
        BY <1>2, PlaceIsThere DEF Named
      <4>2. fdc.place.c = Named.c /\ fdc.place.h = Named.h
        BY <1>3, <4>1
      <4>3. Named.c \in 0 .. Cylinders - 1 /\ Named.h \in 0 .. 1
        BY <4>1
      <4>4. Named.c + Named.h \in 0 .. Cylinders /\ 1 - Named.h \in 0 .. 1
        BY <4>3, DriveAssumption
      <4> QED BY <4>2, <4>4 DEF Place
    <3>2. fdc' = [fdc EXCEPT !.phase = "result", !.ic = 0, !.place = next]
      BY <2>1 DEF EndRead, Finish
    <3> HIDE DEF next
    <3> QED BY <1>2, <2>1, <3>1, <3>2 DEF EndRead, FdcState
  <2>2. CASE RefuseRead \/ MediumError
    <3>1. fdc' = [fdc EXCEPT !.phase = "result", !.ic = 1, !.place = fdc.place]
      BY <2>2 DEF RefuseRead, MediumError, Finish
    <3> QED BY <1>2, <1>4, <3>1 DEF FdcState
  <2> QED BY <2>1, <2>2
<1>6. fdc'.ic = 0 => channel.at = n
  <2>1. Named.r \in Nat /\ n \in Nat
    BY <1>2, PlaceIsThere, Requested DEF Named, Offset
  <2>2. Named \in [c : 0 .. Cylinders - 1, h : 0 .. 1, r : Offset]
    BY <1>2, PlaceIsThere DEF Named
  <2>3. fdc.place.r = Named.r + 1 + channel.at
    BY <1>3, <2>2
  <2> QED BY <1>3, <1>5, <2>1, <2>3
<1>7. MemoryInv'
  BY <1>1, <1>5 DEF DataInv, MemoryInv
<1>8. SoughtInv'
  BY <1>1 DEF DataInv, SoughtInv, Named
<1>9. TransferInv'
  BY <1>1, <1>2, <1>5, <1>6 DEF DataInv, TransferInv, Reading
<1> QED BY <1>7, <1>8, <1>9 DEF DataInv

LEMMA NextData ==
  ASSUME IInv, DataInv, [Next]_vars
  PROVE  DataInv'
<1>1. CASE (\E d \in drives, q \in Request : Seek(d, q)) \/ Read
  BY <1>1, CallsKeepData
<1>2. CASE Driver
  BY <1>2, CallsKeepData, SendSeekData, SendReadData, WaitSeekData, WaitReadData,
     SenseData DEF Driver
<1>3. CASE Chip \/ MediumError
  BY <1>3, ArriveData, TransferData, EndsData DEF Chip
<1>4. CASE FDCInterruptHandler \/ UNCHANGED vars
  BY <1>4 DEF FDCInterruptHandler, vars, driver, DataInv, MemoryInv, SoughtInv,
     TransferInv, Reading, Named
<1> QED BY <1>1, <1>2, <1>3, <1>4 DEF Next, Works

LEMMA DataInvariance ==
  ASSUME OneAtATime
  PROVE  Spec => [](IInv /\ DataInv)
<1>1. IInv /\ DataInv /\ [Next]_vars => IInv' /\ DataInv'
  BY NextKeeps, NextData
<1> QED BY <1>1, InitEstablishes, InitData, PTL DEF Spec

(* The places the driver keeps are places of the disk, and the channel     *)
(* never stores behind its memory (fdd.cpp:375, dma.cpp:156).              *)
THEOREM FloppyTypeCorrect ==
  ASSUME OneAtATime
  PROVE  Spec => []TypeOK
<1>1. IInv /\ DataInv => TypeOK
  <2> SUFFICES ASSUME IInv, DataInv PROVE TypeOK
    OBVIOUS
  <2>1. channel.size <= SectorsPerHead /\ channel.at <= SectorsPerHead
    BY Tracks DEF DataInv, MemoryInv, ChannelState
  <2>2. {buffer, bounce} \subseteq [Offset -> (Drive \X Block) \cup {Nothing}]
    BY DEF DataInv, MemoryInv, Sector
  <2> QED BY <2>1, <2>2 DEF IInv, Typed, DataInv, MemoryInv, FdcState, TypeOK
<1> QED BY <1>1, DataInvariance, PTL

-----------------------------------------------------------------------------
(* The driver is a disk.                                                   *)

(* A track has fewer sectors than the channel can count, 18 and 128: what  *)
(* fills the channel exactly would have the size 0, and be left in its     *)
(* memory by EndTransfer (dma.cpp:182).                                    *)
FitsChannel == SectorsPerHead < SizeWrap

\* The sectors that have come are copied to the caller, each to its place.
BufferInv ==
  pc = "ready" /\ op.kind = "read" /\ result = 0 =>
    \A i \in 0 .. op.request.count - 1 : buffer[i] = <<op.drive, op.request.block + i>>

LEMMA SectorsCopied ==
  ASSUME IInv, DataInv, FitsChannel, WaitRead
  PROVE  op' = op /\ BufferInv'
<1> SUFFICES ASSUME result' = 0
             PROVE  op' = op /\ BufferInv'
  BY WaitReadData DEF BufferInv
<1> DEFINE n == op.request.count
           b == op.request.block
<1>1. /\ Reading /\ fdc.phase = "result" /\ fdc.ic = 0 /\ op' = op
      /\ op.request \in Request
  BY WaitReadData DEF Reading, IInv, Typed
<1>2. /\ channel.at = n /\ channel.size = n % SizeWrap
      /\ \A i \in 0 .. channel.at - 1 : bounce[i] = <<op.drive, b + i>>
  BY <1>1 DEF DataInv, TransferInv
<1>3. n \in Nat /\ n > 0 /\ n <= SectorsPerHead
  BY <1>1, Requested
<1>4. channel.size = n
  <2>1. n < SizeWrap
    BY <1>3, Tracks DEF FitsChannel
  <2>2. n \in 0 .. SizeWrap - 1 /\ n = SizeWrap * 0 + n
    BY <1>3, <2>1, Tracks
  <2> HIDE DEF n
  <2>3. n % SizeWrap = n
    BY <2>2, Tracks, ModUnique
  <2> QED BY <1>2, <2>3
<1>5. buffer' = EndTransfer(channel, bounce, buffer) /\ buffer \in [Offset -> Sector]
  BY DEF WaitRead, DataInv, MemoryInv
<1>6. ASSUME NEW i \in 0 .. n - 1
      PROVE  buffer'[i] = <<op.drive, b + i>>
  <2>1. i \in Offset
    BY <1>1, RequestOnTrack
  <2>2. i < channel.size
    BY <1>3, <1>4
  <2>3. buffer'[i] = bounce[i]
    BY <1>5, <2>1, <2>2 DEF EndTransfer
  <2> QED BY <1>2, <2>3
<1> QED BY <1>1, <1>6 DEF BufferInv

LEMMA BufferKeeps ==
  ASSUME IInv, DataInv, FitsChannel, BufferInv, [Next]_vars
  PROVE  BufferInv'
<1>1. CASE WaitRead
  BY <1>1, SectorsCopied
<1>2. CASE (\E d \in drives, q \in Request : Seek(d, q)) \/ Read \/ DetectDrive
           \/ SendSeek \/ SendRead \/ WaitSeek
  BY <1>2 DEF Seek, Read, DetectDrive, Call, SendSeek, SendRead, WaitSeek, BufferInv
<1>3. CASE SenseInterrupt
  <2>1. op.kind # "read" /\ op'.kind = op.kind
    BY <1>3 DEF SenseInterrupt, AfterRecalibrate, AfterSeek, IInv, CallInv, Typed
  <2> QED BY <2>1 DEF BufferInv
<1>4. CASE Chip \/ MediumError \/ FDCInterruptHandler \/ UNCHANGED vars
  <2>1. UNCHANGED driver
    BY <1>4 DEF Chip, Arrive, TransferSector, EndRead, RefuseRead, Finish,
       MediumError, FDCInterruptHandler, vars
  <2> QED BY <2>1 DEF driver, BufferInv
<1> QED BY <1>1, <1>2, <1>3, <1>4 DEF Next, Works, Driver

LEMMA DeliveredRight ==
  ASSUME IInv, DataInv, FitsChannel, WaitRead, result' = 0
  PROVE  Delivered' = [i \in 0 .. op.request.count - 1 |->
                         <<op.drive, op.request.block + i>>]
<1> DEFINE n == op.request.count
           b == op.request.block
<1>1. pc' = "ready" /\ op' = op /\ op.kind = "read" /\ BufferInv'
  BY WaitReadData, SectorsCopied
<1>2. \A i \in 0 .. n - 1 : buffer'[i] = <<op.drive, b + i>>
  BY <1>1 DEF BufferInv
<1>3. Delivered' = [i \in 0 .. n - 1 |-> buffer'[i]]
  BY <1>1 DEF Delivered
<1> HIDE DEF n, b
<1> QED BY <1>2, <1>3 DEF n, b

\* What the abstract disk sees of a call.
Status ==
  IF op.kind # "read" THEN "idle"
  ELSE IF pc # "ready" THEN "asked"
  ELSE IF result = 0 THEN "ok" ELSE "failed"
Asked == [drive |-> op.drive, block |-> op.request.block, count |-> op.request.count]
Data == IF op.kind = "read" /\ pc = "ready" THEN Delivered ELSE Nothing
AnyRequest == [drive : Drive, block : Block, count : 1 .. SectorsPerHead]

LEMMA AskedIsAny ==
  ASSUME op.drive \in Drive, op.request \in Request
  PROVE  Asked \in AnyRequest
<1>1. op.request.count \in 1 .. SectorsPerHead
  BY Requested, Tracks
<1>2. op.request.block \in Block
  BY Requested
<1> QED BY <1>1, <1>2 DEF Asked, AnyRequest

LEMMA AskedNext ==
  ASSUME op' = op
  PROVE  Asked' = Asked
BY DEF Asked

\* Steps the disk does not see.
LEMMA QuietStep ==
  ASSUME op'.kind = op.kind, op'.drive = op.drive, op'.request = op.request,
         op.kind = "read" =>
           \/ pc' # "ready" /\ pc # "ready"
           \/ UNCHANGED <<pc, op, result, buffer>>
  PROVE  UNCHANGED <<Status, Asked, Data>>
<1>1. Asked' = Asked
  BY DEF Asked
<1>2. CASE op.kind # "read"
  BY <1>1, <1>2 DEF Status, Data
<1>3. CASE pc' # "ready" /\ pc # "ready"
  BY <1>1, <1>3 DEF Status, Data
<1>4. CASE UNCHANGED <<pc, op, result, buffer>>
  BY <1>1, <1>4 DEF Status, Data, Delivered
<1> QED BY <1>2, <1>3, <1>4

\* A call, or the search going on to the next drive, is a seek of the disk.
LEMMA NewRequest ==
  ASSUME Status # "asked", op'.kind # "read", op'.drive \in Drive,
         op'.request \in Request
  PROVE  Promise!Seek
<1>1. Asked' \in AnyRequest
  <2>1. op'.request.count \in 1 .. SectorsPerHead
    BY Requested, Tracks
  <2>2. op'.request.block \in Block
    BY Requested
  <2> QED BY <2>1, <2>2 DEF Asked, AnyRequest
<1>2. Status' = "idle" /\ Data' = Nothing
  BY DEF Status, Data
<1> QED BY <1>1, <1>2 DEF Promise!Seek, Status, Asked, Data, AnyRequest

LEMMA StepIsDisk ==
  ASSUME IInv, DataInv, FitsChannel, [Next]_vars
  PROVE  Promise!Next \/ UNCHANGED <<Status, Asked, Data>>
<1>1. CASE \E d \in drives, q \in Request : Seek(d, q)
  <2>1. PICK d \in drives, q \in Request : Seek(d, q)
    BY <1>1
  <2>2. op' = [kind |-> "seek", drive |-> d, request |-> q] /\ pc = "ready"
    BY <2>1 DEF Seek, Call
  <2>3. d \in Drive /\ Status # "asked"
    BY <2>2 DEF IInv, Typed, Status
  <2> QED BY <2>2, <2>3, NewRequest DEF Promise!Next
<1>2. CASE Read
  <2>1. /\ pc = "ready" /\ op.kind = "seek" /\ pc' = "command"
        /\ op' = [op EXCEPT !.kind = "read"]
    BY <1>2 DEF Read, Call
  <2>2. op'.kind = "read" /\ op'.drive = op.drive /\ op'.request = op.request
    BY <2>1 DEF IInv, Typed
  <2>3. Status = "idle" /\ Status' = "asked" /\ Data' = Nothing /\ Asked' = Asked
    BY <2>1, <2>2 DEF Status, Data, Asked
  <2>4. Promise!Read
    BY <2>3 DEF Promise!Read, Status, Data, Asked
  <2> QED BY <2>4 DEF Promise!Next
<1>3. CASE DetectDrive
  <2>1. op' = [op EXCEPT !.kind = "recalibrate"] /\ pc = "detect" /\ pc' = "command"
    BY <1>3 DEF DetectDrive, Call
  <2>2. /\ op'.kind # "read" /\ op'.drive = op.drive /\ op'.request = op.request
        /\ op.kind # "read"
    BY <2>1 DEF IInv, Typed, CallInv
  <2>3. UNCHANGED <<Status, Asked, Data>>
    BY <2>2 DEF Status, Asked, Data
  <2> QED BY <2>3
<1>4. CASE SendSeek \/ WaitSeek
  BY <1>4, QuietStep DEF SendSeek, WaitSeek
<1>5. CASE SendRead
  BY <1>5, QuietStep DEF SendRead
<1>6. CASE WaitRead
  <2>1. /\ result' = fdc.ic /\ pc = "wait" /\ op.kind = "read" /\ pc' = "ready"
        /\ op' = op /\ fdc.ic \in {0, 1}
    BY <1>6, WaitReadData DEF DataInv, MemoryInv
  <2>2. Status = "asked" /\ Asked' = Asked /\ Data = Nothing
    BY <2>1 DEF Status, Asked, Data
  <2>3. CASE result' = 0
    <3>1. Status' = "ok" /\ Data' = Delivered'
      BY <2>1, <2>3 DEF Status, Data
    <3>2. Data' = [i \in 0 .. Asked.count - 1 |-> <<Asked.drive, Asked.block + i>>]
      BY <1>6, <2>3, <3>1, DeliveredRight DEF Asked
    <3>3. Promise!Succeed
      BY <2>2, <3>1, <3>2 DEF Promise!Succeed, Status, Asked, Data
    <3> QED BY <3>3 DEF Promise!Next
  <2>4. CASE result' = 1
    <3>1. Status' = "failed" /\ Data' = Nothing
      BY <2>1, <2>4 DEF Status, Data, Delivered
    <3>2. Promise!Fail
      BY <2>2, <3>1 DEF Promise!Fail, Status, Asked, Data
    <3> QED BY <3>2 DEF Promise!Next
  <2> QED BY <2>1, <2>3, <2>4
<1>7. CASE SenseInterrupt
  <2>1. PICK answer \in Sensed :
          IF op.kind = "recalibrate" THEN AfterRecalibrate(answer) ELSE AfterSeek
    BY <1>7 DEF SenseInterrupt
  <2>2. pc = "sense" /\ op.kind # "read" /\ op.drive \in Drive /\ op.request \in Request
    BY <1>7 DEF SenseInterrupt, IInv, CallInv, Typed
  <2>3. CASE op' = op
    BY <2>2, <2>3, QuietStep
  <2>4. CASE op' = [op EXCEPT !.drive = @ + 1] /\ op.drive + 1 < MaxDrives
    <3>1. op.drive + 1 \in Drive
      BY <2>2, <2>4, Shape DEF Drive
    <3>2. /\ op'.kind = op.kind /\ op'.request = op.request
          /\ op'.drive = op.drive + 1
      BY <2>4 DEF IInv, Typed
    <3>3. Status # "asked"
      BY <2>2 DEF Status
    <3> QED BY <2>2, <3>1, <3>2, <3>3, NewRequest DEF Promise!Next
  <2> QED BY <2>1, <2>3, <2>4 DEF AfterRecalibrate, AfterSeek
<1>8. CASE Chip \/ MediumError \/ FDCInterruptHandler \/ UNCHANGED vars
  <2>1. UNCHANGED driver
    BY <1>8 DEF Chip, Arrive, TransferSector, EndRead, RefuseRead, Finish,
       MediumError, FDCInterruptHandler, vars
  <2> QED BY <2>1, QuietStep DEF driver
<1> QED BY <1>1, <1>2, <1>3, <1>4, <1>5, <1>6, <1>7, <1>8 DEF Next, Works, Driver

(* A read without error leaves in the caller's buffer what the Seek before *)
(* it named: the arithmetic of sectors, the place the driver keeps, the    *)
(* chip, the channel's memory and the copy agree, although Read stores a   *)
(* place that counts from 1 (fdd.cpp:375).                                 *)
THEOREM FloppyIsADisk ==
  ASSUME OneAtATime, FitsChannel
  PROVE  Spec => ImplementsDisk
<1>1. Init => Promise!Init
  <2> SUFFICES ASSUME Init PROVE Promise!Init
    OBVIOUS
  <2>1. op.kind = "none" /\ op.drive \in Drive /\ op.request \in Request
    BY InitEstablishes DEF Init, IInv, Typed
  <2>2. Status = "idle" /\ Data = Nothing /\ Asked \in AnyRequest
    BY <2>1, AskedIsAny DEF Status, Data
  <2> QED BY <2>2 DEF Promise!Init, Status, Data, Asked, AnyRequest
<1>2. IInv /\ DataInv /\ [Next]_vars => [Promise!Next]_(Promise!vars)
  <2> SUFFICES ASSUME IInv, DataInv, [Next]_vars
               PROVE  Promise!Next \/ UNCHANGED Promise!vars
    OBVIOUS
  <2>1. Promise!Next \/ UNCHANGED <<Status, Asked, Data>>
    BY StepIsDisk
  <2> QED BY <2>1 DEF Promise!vars, Status, Asked, Data
<1> QED BY <1>1, <1>2, DataInvariance, PTL DEF Spec, ImplementsDisk, Promise!Spec

-----------------------------------------------------------------------------
(* Module Fat.                                                             *)

LEMMA LeastNumber ==
  ASSUME NEW T, T \subseteq Nat, T # {}
  PROVE  \E x \in T : \A y \in T : x <= y
<1> DEFINE R == {p \in Nat \X Nat : p[1] < p[2]}
<1>1. IsWellFoundedOn(R, Nat)
  BY NatLessThanWellFounded DEF OpToRel
<1>2. \A x, y \in Nat : y < x => <<y, x>> \in R
  <2> SUFFICES ASSUME NEW x \in Nat, NEW y \in Nat, y < x
               PROVE  <<y, x>> \in R
    OBVIOUS
  <2> DEFINE p == <<y, x>>
  <2>1. p \in Nat \X Nat /\ p[1] < p[2]
    OBVIOUS
  <2> HIDE DEF p
  <2>2. p \in R
    BY <2>1
  <2> QED BY <2>2 DEF p
<1> HIDE DEF R
<1>3. PICK x \in T : \A y \in T : <<y, x>> \notin R
  BY <1>1, WFMin
<1>4. \A y \in T : ~(y < x)
  BY <1>2, <1>3
<1> QED BY <1>3, <1>4

-----------------------------------------------------------------------------
(* The clusters of a chain: each is what the table says of the one before. *)

\* The first clusters of a chain, up to the k-th after the first.
ChainTo(d, first, k, g) ==
  [i \in 0 .. k |-> IF i = 0 THEN first ELSE Entry(d, g[i - 1])]
ChainAll(d, first, g) ==
  [i \in Nat |-> IF i = 0 THEN first ELSE Entry(d, g[i - 1])]

\* Of any length there is a beginning: there is no least one that is not.
LEMMA ChainBegins ==
  ASSUME NEW d, NEW first
  PROVE  \A k \in Nat : \E g : g = ChainTo(d, first, k, g)
<1> DEFINE E(k) == \E g : g = ChainTo(d, first, k, g)
           T == {k \in Nat : ~E(k)}
<1>1. E(0)
  <2> DEFINE g0 == [i \in 0 .. 0 |-> first]
  <2>1. ChainTo(d, first, 0, g0) = g0
    BY DEF ChainTo
  <2> HIDE DEF g0
  <2> QED BY <2>1
<1>2. ASSUME NEW k \in Nat, k > 0, E(k - 1) PROVE E(k)
  <2>1. PICK g : g = ChainTo(d, first, k - 1, g)
    BY <1>2
  <2> DEFINE G == [i \in 0 .. k |-> IF i = k THEN ChainTo(d, first, k, g)[k] ELSE g[i]]
  <2>2. /\ \A i \in 0 .. k : G[i] = IF i = k THEN ChainTo(d, first, k, g)[k] ELSE g[i]
        /\ G = [i \in 0 .. k |-> G[i]]
    OBVIOUS
  <2>3. \A i \in 0 .. k : i > 0 => i - 1 \in 0 .. k - 1 /\ i - 1 \in 0 .. k /\ i - 1 # k
    BY <1>2
  <2> HIDE DEF G
  <2>4. \A i \in 0 .. k : i > 0 => G[i-1] = g[i-1]
    BY <2>2, <2>3
  <2>5. ASSUME NEW i \in 0 .. k PROVE ChainTo(d, first, k, G)[i] = G[i]
    <3>1. ChainTo(d, first, k, G)[i] = ChainTo(d, first, k, g)[i]
      BY <2>4 DEF ChainTo
    <3>2. CASE i = k
      BY <2>2, <3>1, <3>2
    <3>3. CASE i # k
      <4>1. i \in 0 .. k - 1
        BY <1>2, <3>3
      <4>2. ChainTo(d, first, k, g)[i] = ChainTo(d, first, k - 1, g)[i]
        BY <4>1 DEF ChainTo
      <4>3. G[i] = g[i]
        BY <2>2, <3>3
      <4> QED BY <2>1, <3>1, <4>2, <4>3
    <3> QED BY <3>2, <3>3
  <2>6. ChainTo(d, first, k, G) = [i \in 0 .. k |-> ChainTo(d, first, k, G)[i]]
    BY DEF ChainTo
  <2>7. ChainTo(d, first, k, G) = G
    BY <2>2, <2>5, <2>6
  <2> QED BY <2>7
<1> HIDE DEF E
<1>3. ASSUME T # {} PROVE FALSE
  <2>1. T \subseteq Nat
    OBVIOUS
  <2>2. PICK k \in T : \A y \in T : k <= y
    <3> HIDE DEF T
    <3> QED BY <1>3, <2>1, LeastNumber
  <2>3. k \in Nat /\ k > 0 /\ k - 1 \in Nat /\ k - 1 \notin T
    BY <1>1, <2>2
  <2> QED BY <1>2, <2>2, <2>3
<1>4. \A k \in Nat : E(k)
  BY <1>3
<1> QED BY <1>4 DEF E

\* Two beginnings of a chain agree.
LEMMA ChainAgrees ==
  ASSUME NEW d, NEW first, NEW k \in Nat, NEW g, g = ChainTo(d, first, k, g),
         NEW l \in Nat, NEW h, h = ChainTo(d, first, l, h), k <= l
  PROVE  \A i \in 0 .. k : g[i] = h[i]
<1> DEFINE T == {i \in 0 .. k : g[i] # h[i]}
<1>1. \A i \in 0 .. k : g[i] = IF i = 0 THEN first ELSE Entry(d, g[i - 1])
  BY DEF ChainTo
<1>2. \A i \in 0 .. k : h[i] = IF i = 0 THEN first ELSE Entry(d, h[i - 1])
  BY DEF ChainTo
<1>3. ASSUME T # {} PROVE FALSE
  <2>1. T \subseteq Nat
    OBVIOUS
  <2>2. PICK i \in T : \A y \in T : i <= y
    <3> HIDE DEF T
    <3> QED BY <1>3, <2>1, LeastNumber
  <2>3. i # 0
    BY <1>1, <1>2, <2>2
  <2>4. i - 1 \in 0 .. k /\ i - 1 \notin T
    BY <2>2, <2>3
  <2>5. g[i - 1] = h[i - 1]
    BY <2>4
  <2> QED BY <1>1, <1>2, <2>2, <2>3, <2>5
<1> QED BY <1>3

LEMMA ChainIs ==
  ASSUME NEW d, NEW first
  PROVE  /\ Chain(d, first)[0] = first
         /\ \A i \in Nat : Chain(d, first)[i + 1] = Entry(d, Chain(d, first)[i])
<1> DEFINE G(k) == CHOOSE g : g = ChainTo(d, first, k, g)
           h == [i \in Nat |-> G(i)[i]]
<1>1. \A k \in Nat : G(k) = ChainTo(d, first, k, G(k))
  BY ChainBegins
<1> HIDE DEF G
<1>2. \A i \in Nat : i > 0 => G(i - 1)[i - 1] = G(i)[i - 1]
  <2> SUFFICES ASSUME NEW i \in Nat, i > 0 PROVE G(i - 1)[i - 1] = G(i)[i - 1]
    OBVIOUS
  <2>1. i - 1 \in Nat /\ i - 1 <= i /\ i - 1 \in 0 .. i - 1
    OBVIOUS
  <2>2. G(i) = ChainTo(d, first, i, G(i)) /\ G(i - 1) = ChainTo(d, first, i - 1, G(i - 1))
    BY <1>1, <2>1
  <2> QED BY <2>1, <2>2, ChainAgrees
<1>3. \A i \in Nat : G(i)[i] = IF i = 0 THEN first ELSE Entry(d, G(i)[i - 1])
  <2> SUFFICES ASSUME NEW i \in Nat
               PROVE  G(i)[i] = IF i = 0 THEN first ELSE Entry(d, G(i)[i - 1])
    OBVIOUS
  <2>1. ChainTo(d, first, i, G(i))[i] = IF i = 0 THEN first ELSE Entry(d, G(i)[i - 1])
    BY DEF ChainTo
  <2> QED BY <1>1, <2>1
<1>4. h = ChainAll(d, first, h)
  <2>1. \A i \in Nat : h[i] = G(i)[i]
    OBVIOUS
  <2>2. h = [i \in Nat |-> h[i]]
    OBVIOUS
  <2> HIDE DEF h
  <2>3. \A i \in Nat : h[i] = IF i = 0 THEN first ELSE Entry(d, h[i - 1])
    BY <1>2, <1>3, <2>1
  <2> QED BY <2>2, <2>3 DEF ChainAll
<1>5. Chain(d, first) = CHOOSE g : g = ChainAll(d, first, g)
  BY DEF Chain, ChainAll
<1> HIDE DEF h
<1>6. Chain(d, first) = ChainAll(d, first, Chain(d, first))
  BY <1>4, <1>5
<1> HIDE DEF G
<1> DEFINE C == Chain(d, first)
<1>7. C = ChainAll(d, first, C)
  BY <1>6
<1> HIDE DEF C
<1>8. C[0] = first /\ \A i \in Nat : C[i + 1] = Entry(d, C[i])
  BY <1>7 DEF ChainAll
<1> QED BY <1>8 DEF C

LEMMA EntryTyped ==
  ASSUME NEW d \in Present, NEW m
  PROVE  Entry(d, m) \in 0 .. EndOfChain
<1>1. Link[d] \in [DOMAIN Link[d] -> 0 .. EndOfChain]
  BY LayoutAssumption
<1>2. 0 \in 0 .. EndOfChain
  BY DEF EndOfChain
<1> HIDE DEF EndOfChain
<1> QED BY <1>1, <1>2 DEF Entry

-----------------------------------------------------------------------------
(* The table that was read as sectors says of a cluster what the formatter *)
(* wrote in twelve bits.                                                   *)

LEMMA Layout ==
  /\ bytesPerSector \in Nat /\ bytesPerSector > 0
  /\ sectorsPerCluster \in Nat /\ sectorsPerCluster > 0
  /\ sectorsPerFat \in Nat /\ sectorsPerFat > 0
  /\ numberOfReservedSectors \in Nat /\ FirstDataSector \in Nat
  /\ bpc \in Nat /\ bpc > 0
<1>1. /\ bytesPerSector \in Nat /\ bytesPerSector > 0
      /\ sectorsPerCluster \in Nat /\ sectorsPerCluster > 0
      /\ sectorsPerFat \in Nat /\ sectorsPerFat > 0
      /\ numberOfReservedSectors \in Nat /\ numberOfFats \in Nat
      /\ RootDirSectors \in Nat
  BY LayoutAssumption
<1>2. numberOfFats * sectorsPerFat \in Nat
  BY <1>1
<1>3. FirstDataSector \in Nat
  <2> DEFINE fats == numberOfFats * sectorsPerFat
  <2>1. /\ FirstDataSector = (numberOfReservedSectors + fats) + RootDirSectors
        /\ fats \in Nat
    BY <1>2 DEF FirstDataSector, FirstRootDirSectorNum
  <2> HIDE DEF fats
  <2> QED BY <1>1, <2>1
<1>4. bpc \in Nat /\ bpc > 0
  BY <1>1 DEF bpc
<1> QED BY <1>1, <1>3, <1>4

TableRight ==
  \A q \in 0 .. sectorsPerFat - 1 :
    fatbuf[q] = <<attached, numberOfReservedSectors + q>>

LEMMA ByteOfTable ==
  ASSUME TableRight, attached \in Drive,
         [block |-> numberOfReservedSectors, count |-> sectorsPerFat] \in Request,
         NEW k \in Nat, k < bytesPerSector * sectorsPerFat
  PROVE  FatByte(k) = TableByte(attached, k)
<1> DEFINE q == k \div bytesPerSector
           r == k % bytesPerSector
<1>1. q \in Nat /\ r \in 0 .. bytesPerSector - 1 /\ k = bytesPerSector * q + r
  BY Layout, DivMod
<1>2. q < sectorsPerFat
  <2>1. k < sectorsPerFat * bytesPerSector
    BY Layout
  <2> QED BY <2>1, Layout, QuotientBelow
<1> DEFINE sector == fatbuf[q]
           block == sector[2] - numberOfReservedSectors
<1>3. FatByte(k) = IF sector # Nothing /\ block \in 0 .. sectorsPerFat - 1
                   THEN TableByte(sector[1], block * bytesPerSector + r) ELSE 0
  BY DEF FatByte
<1> HIDE DEF q, r
<1>4. q \in 0 .. sectorsPerFat - 1
  BY <1>1, <1>2, Layout
<1>5. sector = <<attached, numberOfReservedSectors + q>>
  BY <1>4 DEF TableRight
<1>6. numberOfReservedSectors + q \in Block
  <2> DEFINE w == [block |-> numberOfReservedSectors, count |-> sectorsPerFat]
  <2>1. w \in Request /\ w.block = numberOfReservedSectors /\ q \in 0 .. w.count - 1
    BY <1>4
  <2> HIDE DEF w
  <2>2. w.block + q \in Block
    BY <2>1, RequestOnTrack
  <2> QED BY <2>1, <2>2
<1>7. sector # Nothing
  BY <1>5, <1>6, RequestAssumption
<1>8. sector[1] = attached /\ block = q
  BY <1>1, <1>5, Layout
<1>9. block * bytesPerSector + r = k
  BY <1>1, <1>8, Layout
<1> HIDE DEF sector, block
<1> QED BY <1>3, <1>4, <1>7, <1>8, <1>9

LEMMA HighBits ==
  ASSUME NEW e \in 0 .. 4095
  PROVE  /\ e % 256 \in 0 .. 255 /\ e \div 256 \in 0 .. 15
         /\ e = 256 * (e \div 256) + (e % 256)
         /\ e % 16 \in 0 .. 15 /\ e \div 16 \in 0 .. 255
         /\ e = 16 * (e \div 16) + (e % 16)
OBVIOUS

LEMMA TableDecodes ==
  ASSUME TableRight, attached \in Drive \cap Present,
         [block |-> numberOfReservedSectors, count |-> sectorsPerFat] \in Request,
         NEW n \in Nat, InTable(n)
  PROVE  getFATEntry(n) = Entry(attached, n)
<1> DEFINE m == n \div 2
           o == getFATOffset(n)
           a == Entry(attached, 2 * m)
           b == Entry(attached, 2 * m + 1)
<1>1. m \in Nat /\ n % 2 \in 0 .. 1 /\ n = 2 * m + (n % 2)
  BY DivMod
<1>2. o = n + m
  BY DEF getFATOffset
<1> HIDE DEF m
<1>3. a \in 0 .. 4095 /\ b \in 0 .. 4095
  BY EntryTyped DEF EndOfChain
<1>4. o \in Nat /\ o + 1 \in Nat /\ o + 1 < bytesPerSector * sectorsPerFat
  BY <1>1, <1>2 DEF InTable
<1>5. o < bytesPerSector * sectorsPerFat
  <2> DEFINE all == bytesPerSector * sectorsPerFat
  <2>1. all \in Int
    BY Layout
  <2>2. o \in Nat /\ o + 1 < all
    BY <1>4
  <2> HIDE DEF all, o
  <2>3. o < all
    BY <2>1, <2>2
  <2> QED BY <2>3 DEF all
<1>6. /\ FatByte(o) = TableByte(attached, o)
      /\ FatByte(o + 1) = TableByte(attached, o + 1)
  <2> HIDE DEF o
  <2> QED BY <1>4, <1>5, ByteOfTable
<1> DEFINE word == TableByte(attached, o) + 256 * TableByte(attached, o + 1)
<1>7. getFATEntry(n) = IF n % 2 = 1 THEN word \div 16 ELSE word % 4096
  BY <1>6 DEF getFATEntry
<1>8. \A k \in Nat :
        /\ k = 3 * m => TableByte(attached, k) = a % 256
        /\ k = 3 * m + 1 => TableByte(attached, k) = (a \div 256) + 16 * (b % 16)
        /\ k = 3 * m + 2 => TableByte(attached, k) = b \div 16
  <2> SUFFICES ASSUME NEW k \in Nat, NEW r \in 0 .. 2, k = 3 * m + r
               PROVE  TableByte(attached, k) =
                        IF r = 0 THEN a % 256
                        ELSE IF r = 1 THEN (a \div 256) + 16 * (b % 16)
                        ELSE b \div 16
    BY <1>1
  <2>1. k \div 3 = m /\ k % 3 = r
    BY <1>1
  <2> QED BY <2>1 DEF TableByte
<1> HIDE DEF a, b, o
<1>9. CASE n % 2 = 0
  <2>1. n = 2 * m /\ o = 3 * m /\ o + 1 = 3 * m + 1
    BY <1>1, <1>2, <1>9
  <2>2. word = (a % 256) + 256 * ((a \div 256) + 16 * (b % 16))
    BY <1>4, <1>8, <2>1
  <2>3. word = a + 4096 * (b % 16)
    BY <1>3, <2>2, HighBits
  <2>4. word % 4096 = a
    <3>1. b % 16 \in Nat
      BY <1>3, HighBits
    <3> DEFINE x == b % 16
    <3>2. word = 4096 * x + a /\ x \in Nat /\ a \in 0 .. 4096 - 1
      BY <1>3, <2>3, <3>1
    <3> HIDE DEF x, word
    <3> QED BY <3>2, ModUnique
  <2> HIDE DEF word
  <2>5. getFATEntry(n) = a
    BY <1>7, <1>9, <2>4
  <2> QED BY <2>1, <2>5 DEF a
<1>10. CASE n % 2 = 1
  <2>1. n = 2 * m + 1 /\ o = 3 * m + 1 /\ o + 1 = 3 * m + 2
    BY <1>1, <1>2, <1>10
  <2>2. word = ((a \div 256) + 16 * (b % 16)) + 256 * (b \div 16)
    BY <1>4, <1>8, <2>1
  <2>3. word = 16 * b + (a \div 256)
    BY <1>3, <2>2, HighBits
  <2>4. word \div 16 = b
    <3>1. a \div 256 \in 0 .. 15
      BY <1>3, HighBits
    <3> DEFINE x == a \div 256
    <3>2. word = 16 * b + x /\ x \in 0 .. 15
      BY <2>3, <3>1
    <3> HIDE DEF x, word
    <3> QED BY <1>3, <3>2
  <2> HIDE DEF word
  <2>5. getFATEntry(n) = b
    BY <1>7, <1>10, <2>4
  <2> QED BY <2>1, <2>5 DEF b
<1> QED BY <1>1, <1>9, <1>10

-----------------------------------------------------------------------------
(* The inductive invariant of the file system, on top of the driver's.     *)

\* Where the chain of the j-th file begins.
FirstOf(j) == Directory[attached][j].first

\* The file system is that of a drive that has been found, and a command of
\* it is under way, or none; no file has been read while it is attached.
AttachedInv ==
  /\ stage \in {"idle", "boot", "table", "root", "chain", "cluster", "lost"}
  /\ attached # Nothing => attached \in drives
  /\ stage # "idle" => attached # Nothing
  /\ stage \in {"boot", "table"} => slot = <<>>

\* What a stage waits for is what it has asked for.
AskedFor(first, n) ==
  /\ op.kind \in {"seek", "read"} /\ op.drive = attached
  /\ op.request = [block |-> first, count |-> n]
AskInv ==
  /\ stage = "table" => AskedFor(numberOfReservedSectors, sectorsPerFat)
  /\ stage = "cluster" =>
       AskedFor(DataBlock(Chain(attached, FirstOf(wanted))[ci]), sectorsPerCluster)

TableInv ==
  attached # Nothing /\ stage \notin {"boot", "table", "lost"} => TableRight

(* A list of clusters is the beginning of the chain, and the one that is   *)
(* looked at is the next of the last list.                                 *)
LinkedInv ==
  \A j \in 1 .. Len(clusterchain) : \A i \in 1 .. Len(clusterchain[j]) :
    clusterchain[j][i] = Chain(attached, FirstOf(j))[i - 1]
LastInv ==
  LET n == Len(clusterchain)
  IN  /\ n \in 1 .. Len(Directory[attached])
      /\ cluster = Chain(attached, FirstOf(n))[Len(clusterchain[n])]
ChainInv ==
  /\ clusterchain \in Seq(Seq(0 .. EndOfChain))
  /\ cluster \in 0 .. EndOfChain
  /\ stage \in {"root", "chain", "cluster"} => wanted \in 1 .. Len(Directory[attached])
  /\ stage \in {"chain", "cluster"} => LinkedInv
  /\ stage = "chain" => LastInv
  /\ stage = "cluster" => Len(clusterchain) = Len(Directory[attached])

(* The last cluster is read first, then the others in their order: those   *)
(* that have been read, and what the bytes of a file are.                  *)
Done(k) == ci # ci1 /\ (k = ci1 \/ k < ci)
FileByte(x) ==
  <<<<attached, DataBlock(Chain(attached, FirstOf(wanted))[x \div bpc])
                  + ((x % bpc) \div bytesPerSector)>>,
    x % bytesPerSector>>
SlotInv ==
  /\ ci \in Nat /\ spoilt \in BOOLEAN
  /\ stage = "cluster" =>
       /\ ci1 \in Nat /\ ci \in 0 .. ci1
       /\ \A x \in 0 .. file.size - 1 :
            ~spoilt /\ Done(x \div bpc) => slot[x] = FileByte(x)
  /\ SlotHoldsFile

FatInv == AttachedInv /\ AskInv /\ TableInv /\ ChainInv /\ SlotInv

LEMMA Files ==
  ASSUME NEW d \in Present, NEW n \in 1 .. Len(Directory[d])
  PROVE  /\ Directory[d][n].first \in 0 .. EndOfChain /\ Directory[d][n].size \in Nat
         /\ n \in 1 .. 16
<1>1. /\ Directory[d] \in Seq([first : 0 .. EndOfChain, size : Nat])
      /\ Len(Directory[d]) \in 1 .. 16
  BY LayoutAssumption
<1> DEFINE F == [first : 0 .. EndOfChain, size : Nat]
           files == Directory[d]
<1>2. files \in Seq(F) /\ n \in 1 .. Len(files) /\ Len(files) \in 1 .. 16
  BY <1>1
<1> HIDE DEF F, files
<1>3. files[n] \in F
  BY <1>2, ElementOfSeq
<1>4. n \in 1 .. 16
  <2> DEFINE l == Len(files)
  <2>1. l \in 1 .. 16 /\ n \in 1 .. l
    BY <1>2
  <2> HIDE DEF l
  <2> QED BY <2>1
<1> HIDE DEF EndOfChain
<1>5. files[n].first \in 0 .. EndOfChain /\ files[n].size \in Nat
  BY <1>3 DEF F
<1> QED BY <1>4, <1>5 DEF files

\* A drive that was found stays found, and a read goes on to its end.
LEMMA DriverGoesOn ==
  ASSUME IInv, [Next]_vars
  PROVE  drives \subseteq drives'
<1>1. CASE SenseInterrupt
  BY <1>1 DEF SenseInterrupt, AfterRecalibrate, AfterSeek, Found
<1>2. CASE DetectDrive \/ SendSeek \/ SendRead \/ WaitSeek \/ WaitRead
  BY <1>2 DEF DetectDrive, SendSeek, SendRead, WaitSeek, WaitRead
<1>3. CASE (\E d \in drives, q \in Request : Seek(d, q)) \/ Read
  BY <1>3 DEF Seek, Read
<1>4. CASE Chip \/ MediumError \/ FDCInterruptHandler \/ UNCHANGED vars
  <2>1. UNCHANGED driver
    BY <1>4 DEF Chip, Arrive, TransferSector, EndRead, RefuseRead, Finish,
       MediumError, FDCInterruptHandler, vars
  <2> QED BY <2>1 DEF driver
<1> QED BY <1>1, <1>2, <1>3, <1>4 DEF Next, Works, Driver

LEMMA CallGoesOn ==
  ASSUME IInv, Works \/ UNCHANGED vars, op.kind \in {"seek", "read"}
  PROVE  op' = op
<1>1. CASE SenseInterrupt
  BY <1>1 DEF SenseInterrupt, AfterSeek
<1>2. CASE DetectDrive
  BY <1>2 DEF DetectDrive, IInv, CallInv
<1>3. CASE SendSeek \/ SendRead \/ WaitSeek \/ WaitRead
  BY <1>3 DEF SendSeek, SendRead, WaitSeek, WaitRead
<1>4. CASE Chip \/ MediumError \/ FDCInterruptHandler \/ UNCHANGED vars
  <2>1. UNCHANGED driver
    BY <1>4 DEF Chip, Arrive, TransferSector, EndRead, RefuseRead, Finish,
       MediumError, FDCInterruptHandler, vars
  <2> QED BY <2>1 DEF driver
<1> QED BY <1>1, <1>2, <1>3, <1>4 DEF Works, Driver

LEMMA DrivesThere ==
  ASSUME IInv
  PROVE  drives \subseteq Drive /\ drives \subseteq Present
BY Shape DEF IInv, Typed, SearchInv, Reachable, Drive

\* Steps the file system has no part in.
LEMMA DriverKeepsFat ==
  ASSUME IInv, FatInv, drives \subseteq drives', UNCHANGED fs,
         op.kind \in {"seek", "read"} =>
           op'.kind \in {"seek", "read"} /\ op'.drive = op.drive
           /\ op'.request = op.request
  PROVE  FatInv'
<1>1. AttachedInv'
  BY DEF FatInv, AttachedInv, fs
<1>2. AskInv'
  BY DEF FatInv, AskInv, AskedFor, FirstOf, fs
<1>3. TableInv'
  BY DEF FatInv, TableInv, TableRight, fs
<1>4. ChainInv'
  BY DEF FatInv, ChainInv, LinkedInv, LastInv, FirstOf, fs
<1>5. SlotInv'
  BY DEF FatInv, SlotInv, SlotHoldsFile, FileContents, FileByte, Done, ci1, file,
     FirstOf, fs
<1> QED BY <1>1, <1>2, <1>3, <1>4, <1>5 DEF FatInv


-----------------------------------------------------------------------------
(* The file system's steps, one lemma each: each keeps the invariant, and  *)
(* is a step of the driver or none.                                        *)

LEMMA AskIsCall ==
  ASSUME IInv, NEW d, NEW first, NEW n, Ask(d, first, n),
         [block |-> first, count |-> n] \in Request
  PROVE  /\ Next /\ d \in drives /\ drives' = drives
         /\ op' = [kind |-> "seek", drive |-> d,
                   request |-> [block |-> first, count |-> n]]
<1> DEFINE q == [block |-> first, count |-> n]
<1>1. Seek(d, q) /\ q \in Request
  BY DEF Ask
<1>2. d \in drives /\ drives' = drives /\ op' = [kind |-> "seek", drive |-> d, request |-> q]
  BY <1>1 DEF Seek, Call
<1> HIDE DEF q
<1>3. Next
  BY <1>1, <1>2 DEF Next
<1> QED BY <1>2, <1>3 DEF q

LEMMA NothingTyped ==
  <<>> \in Seq(Seq(0 .. EndOfChain)) /\ 0 \in 0 .. EndOfChain
<1>1. 0 \in 0 .. EndOfChain
  BY DEF EndOfChain
<1> QED BY <1>1

LEMMA AttachKeeps ==
  ASSUME IInv, FatInv, NEW d \in drives, Attach(d)
  PROVE  Next /\ FatInv'
<1>1. /\ Ask(d, 0, 1) /\ stage' = "boot" /\ attached' = d /\ clusterchain' = <<>>
      /\ cluster' = 0 /\ ci' = 0 /\ slot' = <<>> /\ spoilt' = FALSE
  BY DEF Attach, NoFile
<1>2. Next /\ drives' = drives
  BY <1>1, AskIsCall, PlacementAssumption
<1>3. AttachedInv'
  <2>1. d \in Nat
    BY DrivesThere, Shape
  <2>2. d # Nothing
    BY <2>1, Shape
  <2> QED BY <1>1, <1>2, <2>2 DEF AttachedInv
<1>4. AskInv' /\ TableInv'
  BY <1>1 DEF AskInv, TableInv
<1>5. ChainInv'
  BY <1>1, NothingTyped DEF ChainInv
<1>6. SlotInv'
  BY <1>1 DEF SlotInv, SlotHoldsFile
<1> QED BY <1>2, <1>3, <1>4, <1>5, <1>6 DEF FatInv

LEMMA ReadTableKeeps ==
  ASSUME IInv, FatInv, ReadTable
  PROVE  [Next]_vars /\ FatInv'
<1>1. /\ stage = "boot" /\ UNCHANGED <<attached, fatbuf, wanted, clusterchain, cluster,
                                      ci, slot, spoilt>>
      /\ \/ stage' = "table" /\ Ask(attached, numberOfReservedSectors, sectorsPerFat)
         \/ stage' = "lost" /\ UNCHANGED vars
  BY DEF ReadTable, Answered, Lost
<1>2. /\ [Next]_vars /\ drives' = drives
      /\ stage' = "table" =>
           op' = [kind |-> "seek", drive |-> attached,
                  request |-> [block |-> numberOfReservedSectors,
                               count |-> sectorsPerFat]]
  BY <1>1, AskIsCall, PlacementAssumption DEF vars, driver
<1>3. AttachedInv'
  BY <1>1, <1>2 DEF FatInv, AttachedInv
<1>4. AskInv'
  BY <1>1, <1>2 DEF AskInv, AskedFor
<1>5. TableInv'
  BY <1>1 DEF TableInv
<1>6. ChainInv'
  BY <1>1 DEF FatInv, ChainInv
<1>7. SlotInv'
  BY <1>1 DEF FatInv, SlotInv, SlotHoldsFile
<1> QED BY <1>2, <1>3, <1>4, <1>5, <1>6, <1>7 DEF FatInv

LEMMA TableReadKeeps ==
  ASSUME IInv, BufferInv, FatInv, TableRead
  PROVE  UNCHANGED vars /\ FatInv'
<1>1. /\ stage = "table" /\ pc = "ready" /\ op.kind = "read"
      /\ UNCHANGED <<vars, attached, wanted, clusterchain, cluster, ci, slot, spoilt>>
      /\ fatbuf' = [i \in 0 .. sectorsPerFat - 1 |-> buffer[i]]
      /\ stage' = IF result = 0 THEN "idle" ELSE "lost"
  BY DEF TableRead, Answered
<1>2. AskedFor(numberOfReservedSectors, sectorsPerFat) /\ slot = <<>>
  BY <1>1 DEF FatInv, AskInv, AttachedInv
<1>3. AttachedInv'
  BY <1>1 DEF FatInv, AttachedInv, vars, driver
<1>4. AskInv'
  BY <1>1 DEF AskInv
<1>5. TableInv'
  <2> SUFFICES ASSUME stage' # "lost" PROVE TableRight'
    BY DEF TableInv
  <2>1. result = 0
    BY <1>1
  <2>2. \A i \in 0 .. sectorsPerFat - 1 :
          buffer[i] = <<attached, numberOfReservedSectors + i>>
    BY <1>1, <1>2, <2>1 DEF BufferInv, AskedFor
  <2> QED BY <1>1, <2>2 DEF TableRight
<1>6. ChainInv'
  BY <1>1 DEF FatInv, ChainInv
<1>7. SlotInv'
  BY <1>1, <1>2 DEF FatInv, SlotInv, SlotHoldsFile
<1> QED BY <1>1, <1>3, <1>4, <1>5, <1>6, <1>7 DEF FatInv

LEMMA ReadRootKeeps ==
  ASSUME IInv, FatInv, NEW n \in 1 .. 16, ReadRootDirectoryData(n)
  PROVE  Next /\ FatInv'
<1>1. /\ Ask(attached, FirstRootDirSectorNum, RootDirSectors) /\ stage = "idle"
      /\ stage' = "root" /\ wanted' = n /\ UNCHANGED <<attached, fatbuf>>
      /\ clusterchain' = <<>> /\ cluster' = 0 /\ ci' = 0 /\ slot' = <<>>
      /\ spoilt' = FALSE /\ attached # Nothing /\ n <= Len(Directory[attached])
  BY DEF ReadRootDirectoryData, NoFile
<1>2. Next /\ drives' = drives
  BY <1>1, AskIsCall, PlacementAssumption
<1>3. AttachedInv'
  BY <1>1, <1>2 DEF FatInv, AttachedInv
<1>4. AskInv'
  BY <1>1 DEF AskInv
<1>5. TableInv'
  BY <1>1 DEF FatInv, TableInv, TableRight
<1>6. n \in 1 .. Len(Directory[attached])
  <2>1. attached \in Present
    BY <1>1, DrivesThere DEF FatInv, AttachedInv
  <2>2. Len(Directory[attached]) \in Nat
    BY <2>1, LayoutAssumption
  <2> QED BY <1>1, <2>2
<1>7. ChainInv'
  BY <1>1, <1>6, NothingTyped DEF ChainInv
<1>8. SlotInv'
  BY <1>1 DEF SlotInv, SlotHoldsFile
<1> QED BY <1>2, <1>3, <1>4, <1>5, <1>7, <1>8 DEF FatInv

LEMMA getFilesKeeps ==
  ASSUME IInv, FatInv, getFiles
  PROVE  UNCHANGED vars /\ FatInv'
<1>1. /\ stage = "root" /\ stage' \in {"chain", "lost"} /\ clusterchain' = <<<<>>>>
      /\ cluster' = Directory[attached][1].first
      /\ UNCHANGED <<vars, attached, fatbuf, wanted, ci, slot, spoilt>>
  BY DEF getFiles, Answered, NewFile
<1>2. UNCHANGED drives /\ attached \in Present
  BY <1>1, DrivesThere DEF vars, driver, FatInv, AttachedInv
<1>3. AttachedInv'
  BY <1>1, <1>2 DEF FatInv, AttachedInv
<1>4. AskInv'
  BY <1>1 DEF AskInv
<1>5. TableInv'
  BY <1>1 DEF FatInv, TableInv, TableRight
<1>6. wanted \in 1 .. Len(Directory[attached]) /\ 1 \in 1 .. Len(Directory[attached])
  <2>1. Len(Directory[attached]) \in 1 .. 16
    BY <1>2, LayoutAssumption
  <2>2. wanted \in 1 .. Len(Directory[attached])
    BY <1>1 DEF FatInv, ChainInv
  <2> QED BY <2>1, <2>2
<1>7. cluster' \in 0 .. EndOfChain
  BY <1>1, <1>2, <1>6, Files
<1>8. clusterchain' \in Seq(Seq(0 .. EndOfChain))
  <2> DEFINE C == 0 .. EndOfChain
  <2> HIDE DEF C
  <2>1. <<<<>>>> \in Seq(Seq(C))
    OBVIOUS
  <2> QED BY <1>1, <2>1 DEF C
<1>9. Len(clusterchain') = 1 /\ Len(clusterchain'[1]) = 0
  BY <1>1
<1>10. LinkedInv'
  <2>1. \A j \in 1 .. Len(clusterchain') : 1 .. Len(clusterchain'[j]) = {}
    BY <1>9
  <2> QED BY <2>1 DEF LinkedInv
<1>11. LastInv'
  <2>1. cluster' = Chain(attached, FirstOf(1))[0]
    BY <1>1, ChainIs DEF FirstOf
  <2> QED BY <1>1, <1>6, <1>9, <2>1 DEF LastInv, FirstOf
<1>12. ChainInv'
  BY <1>1, <1>6, <1>7, <1>8, <1>10, <1>11 DEF ChainInv
<1>13. SlotInv'
  BY <1>1 DEF FatInv, SlotInv, SlotHoldsFile
<1> QED BY <1>1, <1>3, <1>4, <1>5, <1>12, <1>13 DEF FatInv

LEMMA FollowKeeps ==
  ASSUME IInv, FatInv, FollowChain
  PROVE  UNCHANGED vars /\ FatInv'
<1> DEFINE n == Len(clusterchain)
           C == 0 .. EndOfChain
           list == clusterchain[n]
<1>1. /\ stage = "chain" /\ stage' \in {"chain", "lost"}
      /\ clusterchain' = [clusterchain EXCEPT ![n] = Append(list, cluster)]
      /\ UNCHANGED <<vars, attached, fatbuf, wanted, ci, slot, spoilt>>
      /\ \/ InTable(cluster) /\ cluster' = getFATEntry(cluster) /\ stage' = "chain"
         \/ stage' = "lost" /\ cluster' = cluster
  BY DEF FollowChain
<1>2. UNCHANGED drives /\ attached \in Present /\ attached \in Drive
  BY <1>1, DrivesThere DEF vars, driver, FatInv, AttachedInv
<1>3. AttachedInv'
  BY <1>1, <1>2 DEF FatInv, AttachedInv
<1>4. AskInv'
  BY <1>1 DEF AskInv
<1>5. TableInv'
  BY <1>1 DEF FatInv, TableInv, TableRight
<1>6. /\ clusterchain \in Seq(Seq(C)) /\ cluster \in C /\ LinkedInv /\ LastInv
      /\ n \in 1 .. Len(Directory[attached])
      /\ cluster = Chain(attached, FirstOf(n))[Len(list)]
      /\ wanted \in 1 .. Len(Directory[attached])
  BY <1>1 DEF FatInv, ChainInv, LastInv
<1>7. TableRight
  BY <1>1 DEF FatInv, TableInv, AttachedInv
<1>8. stage' = "chain" => cluster' = Entry(attached, cluster)
  <2>1. cluster \in Nat
    <3>1. C \subseteq Nat
      BY DEF EndOfChain
    <3> HIDE DEF C
    <3> QED BY <1>6, <3>1
  <2> QED BY <1>1, <1>2, <1>7, <2>1, TableDecodes, PlacementAssumption
<1>9. cluster' \in C
  BY <1>1, <1>2, <1>6, <1>8, EntryTyped
<1> HIDE DEF C
<1>10. n \in 1 .. Len(clusterchain) /\ list \in Seq(C)
  <2>1. Len(clusterchain) \in Nat
    BY <1>6, LenProperties
  <2>2. n \in 1 .. n
    BY <1>6, <2>1
  <2> QED BY <1>6, <2>2, ElementOfSeq
<1> DEFINE longer == Append(list, cluster)
<1>11. /\ longer \in Seq(C) /\ Len(list) \in Nat /\ Len(longer) = Len(list) + 1
       /\ \A i \in 1 .. Len(list) : longer[i] = list[i]
       /\ longer[Len(list) + 1] = cluster
  BY <1>6, <1>10, AppendProperties, LenProperties
<1> HIDE DEF longer, list
<1>12. /\ clusterchain' \in Seq(Seq(C)) /\ Len(clusterchain') = n
       /\ \A j \in 1 .. n : clusterchain'[j] = IF j = n THEN longer ELSE clusterchain[j]
  <2>1. clusterchain' = [clusterchain EXCEPT ![n] = longer]
    BY <1>1 DEF longer
  <2> QED BY <1>6, <1>10, <1>11, <2>1, ExceptSeq
<1>13. LinkedInv'
  <2>0. Len(clusterchain') = n /\ attached' = attached
    BY <1>1, <1>12
  <2> HIDE DEF n
  <2> SUFFICES ASSUME NEW j \in 1 .. n, NEW i \in 1 .. Len(clusterchain'[j])
               PROVE  clusterchain'[j][i] = Chain(attached, FirstOf(j))[i - 1]
    BY <2>0 DEF LinkedInv, FirstOf
  <2>1. CASE j # n
    <3>1. j \in 1 .. Len(clusterchain)
      BY DEF n
    <3>2. clusterchain'[j] = clusterchain[j]
      BY ONLY <1>12, <2>1, j \in 1 .. n
    <3>3. LinkedInv
      BY <1>6
    <3>4. i \in 1 .. Len(clusterchain[j])
      BY ONLY <3>2, i \in 1 .. Len(clusterchain'[j])
    <3>5. clusterchain[j][i] = Chain(attached, FirstOf(j))[i - 1]
      BY ONLY <3>1, <3>3, <3>4 DEF LinkedInv
    <3> QED BY ONLY <3>2, <3>5
  <2>2. CASE j = n /\ i \in 1 .. Len(list)
    <3>1. clusterchain'[j][i] = list[i]
      BY <1>11, <1>12, <2>2
    <3>2. list[i] = Chain(attached, FirstOf(n))[i - 1]
      BY <1>6, <1>10, <2>2 DEF LinkedInv, list
    <3> QED BY <2>2, <3>1, <3>2
  <2>3. CASE j = n /\ i = Len(list) + 1
    <3>1. i - 1 = Len(list)
      BY <1>11, <2>3
    <3> QED BY <1>6, <1>11, <1>12, <2>3, <3>1
  <2> QED BY <1>11, <1>12, <2>1, <2>2, <2>3
<1>14. stage' = "chain" => LastInv'
  <2> SUFFICES ASSUME stage' = "chain" PROVE LastInv'
    OBVIOUS
  <2>1. cluster' = Chain(attached, FirstOf(n))[Len(list) + 1]
    BY <1>6, <1>8, <1>11, ChainIs
  <2>2. Len(clusterchain') = n /\ Len(clusterchain'[n]) = Len(list) + 1
    BY <1>10, <1>11, <1>12
  <2> HIDE DEF n
  <2> QED BY <1>1, <1>6, <2>1, <2>2 DEF LastInv, FirstOf
<1>15. ChainInv'
  BY <1>1, <1>6, <1>9, <1>12, <1>13, <1>14 DEF ChainInv, C
<1>16. SlotInv'
  BY <1>1 DEF FatInv, SlotInv, SlotHoldsFile
<1> QED BY <1>1, <1>3, <1>4, <1>5, <1>15, <1>16 DEF FatInv

LEMMA NextFileKeeps ==
  ASSUME IInv, FatInv, NextFile
  PROVE  UNCHANGED vars /\ FatInv'
<1> DEFINE n == Len(clusterchain)
           S == Seq(0 .. EndOfChain)
<1>1. /\ stage = "chain" /\ n < Len(Directory[attached])
      /\ clusterchain' = Append(clusterchain, <<>>)
      /\ cluster' = Directory[attached][n + 1].first
      /\ UNCHANGED <<vars, stage, attached, fatbuf, wanted, ci, slot, spoilt>>
  BY DEF NextFile, NewFile
<1>2. UNCHANGED drives /\ attached \in Present
  BY <1>1, DrivesThere DEF vars, driver, FatInv, AttachedInv
<1>3. AttachedInv'
  BY <1>1, <1>2 DEF FatInv, AttachedInv
<1>4. AskInv'
  BY <1>1 DEF AskInv
<1>5. TableInv'
  BY <1>1 DEF FatInv, TableInv, TableRight
<1>6. /\ clusterchain \in Seq(S) /\ LinkedInv /\ LastInv
      /\ wanted \in 1 .. Len(Directory[attached])
  BY <1>1 DEF FatInv, ChainInv
<1>7. <<>> \in S /\ Len(<<>>) = 0
  OBVIOUS
<1> HIDE DEF S
<1>8. /\ clusterchain' \in Seq(S) /\ n \in Nat /\ Len(clusterchain') = n + 1
      /\ \A j \in 1 .. n : clusterchain'[j] = clusterchain[j]
      /\ clusterchain'[n + 1] = <<>>
  BY <1>1, <1>6, <1>7, AppendProperties, LenProperties
<1>9. n + 1 \in 1 .. Len(Directory[attached])
  <2> DEFINE l == Len(Directory[attached])
  <2>1. l \in 1 .. 16
    BY <1>2, LayoutAssumption
  <2>2. n < l
    BY <1>1
  <2> HIDE DEF l, n
  <2>3. n + 1 \in 1 .. l
    BY <1>8, <2>1, <2>2
  <2> QED BY <2>3 DEF l
<1> HIDE DEF n
<1>10. cluster' \in 0 .. EndOfChain
  BY <1>1, <1>2, <1>9, Files
<1>11. LinkedInv'
  <2> SUFFICES ASSUME NEW j \in 1 .. n + 1, NEW i \in 1 .. Len(clusterchain'[j])
               PROVE  clusterchain'[j][i] = Chain(attached, FirstOf(j))[i - 1]
    BY <1>1, <1>8 DEF LinkedInv, FirstOf
  <2>1. j # n + 1
    BY <1>7, <1>8
  <2>2. j \in 1 .. n
    BY <1>8, <2>1
  <2> QED BY <1>6, <1>8, <2>2 DEF LinkedInv, n
<1>12. LastInv'
  <2>1. cluster' = Chain(attached, FirstOf(n + 1))[0]
    BY <1>1, ChainIs DEF FirstOf
  <2>2. Len(clusterchain'[n + 1]) = 0
    BY <1>7, <1>8
  <2> QED BY <1>1, <1>8, <1>9, <2>1, <2>2 DEF LastInv, FirstOf
<1>13. ChainInv'
  BY <1>1, <1>6, <1>8, <1>10, <1>11, <1>12 DEF ChainInv, S
<1>14. SlotInv'
  BY <1>1 DEF FatInv, SlotInv, SlotHoldsFile
<1> QED BY <1>1, <1>3, <1>4, <1>5, <1>13, <1>14 DEF FatInv

-----------------------------------------------------------------------------
(* Reading a file's clusters.                                              *)

LEMMA QuotientMonotone ==
  ASSUME NEW x \in Nat, NEW y \in Nat, x <= y, NEW s \in Nat, s > 0
  PROVE  x \div s \in Nat /\ x \div s <= y \div s
<1> DEFINE q == y \div s
<1>1. q \in Nat /\ y % s \in 0 .. s - 1 /\ y = s * q + (y % s)
  BY DivMod
<1> HIDE DEF q
<1>2. y < (q + 1) * s
  <2>1. (q + 1) * s = s * q + s /\ s * q \in Nat
    BY <1>1
  <2> QED BY <1>1, <2>1
<1>3. x < (q + 1) * s
  <2> DEFINE all == (q + 1) * s
  <2>1. all \in Int /\ y < all
    BY <1>1, <1>2
  <2> HIDE DEF all
  <2>2. x < all
    BY <2>1
  <2> QED BY <2>2 DEF all
<1>4. x \div s \in Nat /\ x \div s < q + 1
  BY <1>1, <1>3, QuotientBelow
<1> DEFINE p == x \div s
<1>5. p \in Nat /\ p < q + 1
  BY <1>4
<1> HIDE DEF p
<1>6. p \in Nat /\ p <= q
  BY <1>1, <1>5
<1> QED BY <1>6 DEF p, q

\* The bytes of a file are in its clusters from 0 to the last one.
LEMMA ByteInCluster ==
  ASSUME file.size \in Nat, NEW x \in 0 .. file.size - 1
  PROVE  x \div bpc \in 0 .. ci1
<1> DEFINE y == file.size - 1
<1>1. x \in Nat /\ y \in Nat /\ x <= y
  OBVIOUS
<1>2. ci1 = y \div bpc
  BY DEF ci1
<1> HIDE DEF y
<1>3. x \div bpc \in Nat /\ x \div bpc <= ci1 /\ ci1 \in Nat
  BY <1>1, <1>2, Layout, QuotientMonotone
<1> QED BY <1>3

\* The one that is read next is asked for at its place on the disk.
LEMMA ClusterAsked ==
  ASSUME IInv, attached \in Present, wanted \in 1 .. Len(Directory[attached]),
         clusterchain \in Seq(Seq(0 .. EndOfChain)), LinkedInv,
         Len(clusterchain) = Len(Directory[attached]),
         NEW i \in Int, i <= ci1, ReadCluster(i)
  PROVE  /\ Next /\ drives' = drives /\ stage' = "cluster" /\ ci' = i
         /\ i \in Nat /\ i \in 0 .. ci1 /\ ci1 \in Nat
         /\ op' = [kind |-> "seek", drive |-> attached, request |->
              [block |-> DataBlock(Chain(attached, FirstOf(wanted))[i]),
               count |-> sectorsPerCluster]]
<1> DEFINE C == 0 .. EndOfChain
           list == clusterchain[wanted]
           c == list[i + 1]
<1>1. /\ i + 1 \in DOMAIN list /\ ci' = i /\ stage' = "cluster"
      /\ Ask(attached, getFirstSectorOfCluster(c), sectorsPerCluster)
  BY DEF ReadCluster
<1>2. /\ file.size \in Nat /\ FirstOf(wanted) = file.first
      /\ wanted \in 1 .. 16 /\ wanted \in 1 .. Len(clusterchain)
      /\ wanted <= Len(Directory[attached])
  <2>1. /\ Directory[attached][wanted].size \in Nat /\ wanted \in 1 .. 16
    BY Files
  <2>2. wanted <= Len(Directory[attached])
    <3> DEFINE l == Len(Directory[attached])
    <3>1. l \in 1 .. 16 /\ wanted \in 1 .. l
      BY LayoutAssumption
    <3> HIDE DEF l
    <3>2. wanted <= l
      BY <3>1
    <3> QED BY <3>2 DEF l
  <2> QED BY <2>1, <2>2 DEF file, FirstOf
<1>3. C \subseteq Nat
  BY DEF EndOfChain
<1> HIDE DEF C
<1>4. list \in Seq(C)
  <2>1. clusterchain \in Seq(Seq(C))
    BY DEF C
  <2> QED BY <1>2, <2>1, ElementOfSeq
<1>5. i + 1 \in 1 .. Len(list) /\ list[i + 1] \in C
  BY <1>1, <1>4, ElementOfSeq, LenProperties
<1>6. c = Chain(attached, FirstOf(wanted))[i]
  <2>1. c = Chain(attached, FirstOf(wanted))[(i + 1) - 1]
    BY <1>2, <1>5 DEF LinkedInv
  <2>2. (i + 1) - 1 = i
    OBVIOUS
  <2> QED BY <2>1, <2>2
<1>7. c \in Nat
  BY <1>3, <1>5
<1> HIDE DEF list, c
<1>8. i \in Nat
  BY <1>5
<1>9. ci1 \in Int
  <2> DEFINE y == file.size - 1
  <2>1. y \in Int
    BY <1>2
  <2> HIDE DEF y
  <2>2. y \div bpc \in Int
    BY <2>1, Layout
  <2> QED BY <2>2 DEF y, ci1
<1>10. i \in 0 .. ci1 /\ ci1 \in Nat
  BY <1>8, <1>9
<1>11. getFirstSectorOfCluster(c) = DataBlock(c)
  <2> DEFINE k == (c - 2) * sectorsPerCluster
  <2>1. k \in Int
    BY <1>7, Layout
  <2> HIDE DEF k
  <2>2. k + FirstDataSector = FirstDataSector + k
    BY <2>1, Layout
  <2> QED BY <2>2 DEF k, getFirstSectorOfCluster, DataBlock
<1> DEFINE q == [block |-> DataBlock(c), count |-> sectorsPerCluster]
<1>12. q \in Request
  BY <1>2, <1>6, <1>10, PlacementAssumption DEF ci1, file
<1>13. /\ Next /\ drives' = drives
       /\ op' = [kind |-> "seek", drive |-> attached, request |-> q]
  BY <1>1, <1>11, <1>12, AskIsCall
<1> QED BY <1>1, <1>6, <1>8, <1>10, <1>13

LEMMA ReadFileKeeps ==
  ASSUME IInv, FatInv, ReadFile
  PROVE  Next /\ FatInv'
<1>1. /\ stage = "chain" /\ Len(clusterchain) = Len(Directory[attached])
      /\ ReadCluster(ci1)
      /\ UNCHANGED <<attached, fatbuf, wanted, clusterchain, cluster, spoilt>>
  BY DEF ReadFile
<1>2. /\ attached \in Present /\ LinkedInv
      /\ wanted \in 1 .. Len(Directory[attached])
      /\ clusterchain \in Seq(Seq(0 .. EndOfChain))
  BY <1>1, DrivesThere DEF FatInv, AttachedInv, ChainInv
<1>3. ci1 \in Int
  <2> DEFINE y == file.size - 1
  <2>1. y \in Int
    BY <1>2, Files DEF file
  <2> HIDE DEF y
  <2>2. y \div bpc \in Int
    BY <2>1, Layout
  <2> QED BY <2>2 DEF y, ci1
<1>4. /\ Next /\ drives' = drives /\ stage' = "cluster" /\ ci' = ci1 /\ ci1 \in Nat
      /\ op' = [kind |-> "seek", drive |-> attached, request |->
                [block |-> DataBlock(Chain(attached, FirstOf(wanted))[ci1]),
                 count |-> sectorsPerCluster]]
  BY <1>1, <1>2, <1>3, ClusterAsked
<1>5. ci1' = ci1
  BY <1>1 DEF ci1, file
<1>6. AttachedInv'
  BY <1>1, <1>4 DEF FatInv, AttachedInv
<1>7. AskInv'
  BY <1>1, <1>4 DEF AskInv, AskedFor, FirstOf
<1>8. TableInv'
  BY <1>1, <1>4 DEF FatInv, TableInv, TableRight
<1>9. ChainInv'
  BY <1>1, <1>4 DEF FatInv, ChainInv, LinkedInv, FirstOf
<1>10. SlotInv'
  <2>1. ci' = ci1' /\ ci1' \in Nat
    BY <1>4, <1>5
  <2>2. \A k : ~Done(k)'
    BY <2>1 DEF Done
  <2>3. spoilt' \in BOOLEAN
    BY <1>1 DEF FatInv, SlotInv
  <2> QED BY <1>4, <2>1, <2>2, <2>3 DEF SlotInv, SlotHoldsFile
<1> QED BY <1>4, <1>6, <1>7, <1>8, <1>9, <1>10 DEF FatInv

\* The bytes of a cluster that was read without error are where they belong.
LEMMA PlacedRight ==
  ASSUME BufferInv, FatInv, Answered("cluster"), ~(spoilt \/ result # 0),
         file.size \in Nat, NEW x \in 0 .. file.size - 1,
         x \div bpc = ci \/ Done(x \div bpc)
  PROVE  Placed[x] = FileByte(x)
<1> DEFINE i == (x % bpc) \div bytesPerSector
<1>1. /\ stage = "cluster" /\ pc = "ready" /\ op.kind = "read" /\ result = 0 /\ ~spoilt
  BY DEF Answered
<1>2. CASE x \div bpc = ci
  <2>1. i \in 0 .. sectorsPerCluster - 1
    <3> DEFINE t == x % bpc
    <3>1. t \in Nat /\ t < bpc
      BY Layout, DivMod
    <3>2. bpc = sectorsPerCluster * bytesPerSector
      BY Layout DEF bpc
    <3> HIDE DEF t
    <3>3. t \div bytesPerSector \in Nat /\ t \div bytesPerSector < sectorsPerCluster
      BY <3>1, <3>2, Layout, QuotientBelow
    <3> QED BY <3>3, Layout DEF t
  <2>2. AskedFor(DataBlock(Chain(attached, FirstOf(wanted))[ci]), sectorsPerCluster)
    BY <1>1 DEF FatInv, AskInv
  <2> DEFINE b == DataBlock(Chain(attached, FirstOf(wanted))[ci])
  <2>3. /\ op.drive = attached /\ op.request.block = b
        /\ op.request.count = sectorsPerCluster
    BY <2>2 DEF AskedFor
  <2> HIDE DEF b
  <2>4. \A a \in 0 .. op.request.count - 1 :
          buffer[a] = <<op.drive, op.request.block + a>>
    BY <1>1 DEF BufferInv
  <2> HIDE DEF i
  <2>5. buffer[i] = <<attached, b + i>>
    BY <2>1, <2>3, <2>4
  <2>6. Placed[x] = <<buffer[i], x % bytesPerSector>>
    BY <1>2 DEF Placed, i
  <2>7. FileByte(x) = <<<<attached, b + i>>, x % bytesPerSector>>
    BY <1>2 DEF FileByte, b, i
  <2> QED BY <2>5, <2>6, <2>7
<1>3. CASE x \div bpc # ci
  <2>1. Placed[x] = slot[x]
    BY <1>3 DEF Placed
  <2>2. Done(x \div bpc)
    BY <1>3
  <2>3. slot[x] = FileByte(x)
    BY <1>1, <2>2 DEF FatInv, SlotInv
  <2> QED BY <2>1, <2>3
<1> QED BY <1>2, <1>3

LEMMA ClusterReadKeeps ==
  ASSUME IInv, BufferInv, FatInv, ClusterRead
  PROVE  [Next]_vars /\ FatInv'
<1> DEFINE next == IF ci = ci1 THEN 0 ELSE ci + 1
           last == ci1 = 0 \/ ci = ci1 - 1
<1>1. /\ Answered("cluster") /\ stage = "cluster" /\ slot' = Placed
      /\ spoilt' = (spoilt \/ result # 0)
      /\ UNCHANGED <<attached, fatbuf, wanted, clusterchain, cluster>>
      /\ \/ last /\ stage' = "idle" /\ UNCHANGED <<vars, ci>>
         \/ ~last /\ ReadCluster(next)
  BY DEF ClusterRead, Answered
<1>2. /\ attached \in Present /\ LinkedInv
      /\ wanted \in 1 .. Len(Directory[attached])
      /\ clusterchain \in Seq(Seq(0 .. EndOfChain))
      /\ Len(clusterchain) = Len(Directory[attached])
  BY <1>1, DrivesThere DEF FatInv, AttachedInv, ChainInv
<1>3. file.size \in Nat
  BY <1>2, Files DEF file
<1>4. ci1 \in Nat /\ ci \in 0 .. ci1
  BY <1>1 DEF FatInv, SlotInv
<1>5. ~last => next \in Int /\ next <= ci1
  BY <1>4
<1>6. \/ /\ ~last /\ Next /\ drives' = drives /\ stage' = "cluster" /\ ci' = next
         /\ op' = [kind |-> "seek", drive |-> attached, request |->
                   [block |-> DataBlock(Chain(attached, FirstOf(wanted))[next]),
                    count |-> sectorsPerCluster]]
      \/ last /\ stage' = "idle" /\ UNCHANGED <<vars, ci>>
  <2> HIDE DEF next, last
  <2> QED BY <1>1, <1>2, <1>5, ClusterAsked
<1>7. ci1' = ci1 /\ file' = file
  BY <1>1 DEF ci1, file
<1>8. AttachedInv'
  BY <1>1, <1>6 DEF FatInv, AttachedInv, vars, driver
<1>9. AskInv'
  BY <1>1, <1>6 DEF AskInv, AskedFor, FirstOf
<1>10. TableInv'
  BY <1>1, <1>6 DEF FatInv, TableInv, TableRight
<1>11. ChainInv'
  BY <1>1, <1>6 DEF FatInv, ChainInv, LinkedInv, FirstOf
<1>12. \A x \in 0 .. file.size - 1 :
         ~spoilt' /\ (x \div bpc = ci \/ Done(x \div bpc)) => Placed[x] = FileByte(x)
  BY <1>1, <1>3, PlacedRight
<1>13. ci' \in Nat /\ spoilt' \in BOOLEAN
  <2>1. ci' \in Nat
    BY <1>4, <1>6
  <2>2. spoilt \in BOOLEAN
    BY DEF FatInv, SlotInv
  <2> QED BY <1>1, <2>1, <2>2
<1>14. CASE last /\ stage' = "idle"
  <2>1. ASSUME ~spoilt' PROVE Placed = FileContents
    <3>1. ASSUME NEW x \in 0 .. file.size - 1 PROVE Placed[x] = FileByte(x)
      <4>1. x \div bpc \in 0 .. ci1
        BY <1>3, ByteInCluster
      <4> DEFINE k == x \div bpc
      <4>2. k \in 0 .. ci1
        BY <4>1
      <4> HIDE DEF k
      <4>3. k = ci \/ Done(k)
        BY <1>4, <1>14, <4>2 DEF Done
      <4> QED BY <1>12, <2>1, <4>3 DEF k
    <3>2. /\ Placed = [x \in 0 .. file.size - 1 |-> Placed[x]]
          /\ FileContents = [x \in 0 .. file.size - 1 |-> FileByte(x)]
      BY DEF Placed, FileContents, FileByte, FirstOf, file
    <3> QED BY <3>1, <3>2
  <2>2. FileContents' = FileContents
    BY <1>1 DEF FileContents, file
  <2>3. SlotHoldsFile'
    BY <1>1, <2>1, <2>2 DEF SlotHoldsFile
  <2>4. SlotInv'
    BY <1>13, <1>14, <2>3 DEF SlotInv
  <2> QED BY <1>6, <1>8, <1>9, <1>10, <1>11, <1>14, <2>4 DEF FatInv
<1>15. CASE ~last /\ stage' = "cluster" /\ Next
  <2>1. ci' = next /\ ci' \in 0 .. ci1'
    BY <1>4, <1>6, <1>7, <1>15
  <2>2. ASSUME NEW x \in 0 .. file'.size - 1, ~spoilt', Done(x \div bpc)'
        PROVE  slot'[x] = FileByte(x)'
    <3>1. x \in 0 .. file.size - 1 /\ x \div bpc \in 0 .. ci1
      BY <1>3, <1>7, <2>2, ByteInCluster
    <3> DEFINE k == x \div bpc
    <3>2. k \in 0 .. ci1 /\ ci' # ci1 /\ (k = ci1 \/ k < ci')
      BY <1>7, <2>2, <3>1 DEF Done
    <3> HIDE DEF k
    <3>3. k = ci \/ Done(k)
      BY <1>4, <1>15, <2>1, <3>2 DEF Done
    <3>4. Placed[x] = FileByte(x)
      BY <1>12, <2>2, <3>1, <3>3 DEF k
    <3>5. FileByte(x)' = FileByte(x)
      BY <1>1 DEF FileByte, FirstOf
    <3> QED BY <1>1, <3>4, <3>5
  <2>3. SlotInv'
    BY <1>4, <1>7, <1>13, <1>15, <2>1, <2>2 DEF SlotInv, SlotHoldsFile
  <2> QED BY <1>6, <1>8, <1>9, <1>10, <1>11, <1>15, <2>3 DEF FatInv
<1> HIDE DEF next, last
<1> QED BY <1>6, <1>14, <1>15

-----------------------------------------------------------------------------
LEMMA FatInitEstablishes == FatInit => Init /\ BufferInv /\ FatInv
<1> SUFFICES ASSUME FatInit PROVE Init /\ BufferInv /\ FatInv
  OBVIOUS
<1>1. Init /\ BufferInv
  BY DEF FatInit, Init, BufferInv
<1>2. /\ stage = "idle" /\ attached = Nothing /\ clusterchain = <<>> /\ cluster = 0
      /\ ci = 0 /\ slot = <<>> /\ spoilt = FALSE
  BY DEF FatInit
<1>3. AttachedInv /\ AskInv /\ TableInv
  BY <1>2 DEF AttachedInv, AskInv, TableInv
<1>4. ChainInv
  BY <1>2, NothingTyped DEF ChainInv
<1>5. SlotInv
  BY <1>2 DEF SlotInv, SlotHoldsFile
<1> QED BY <1>1, <1>3, <1>4, <1>5 DEF FatInv

LEMMA FatKeeps ==
  ASSUME IInv, BufferInv, FatInv, [FatNext]_fatvars
  PROVE  [Next]_vars /\ FatInv'
<1>1. CASE Command
  BY <1>1, AttachKeeps, ReadRootKeeps DEF Command
<1>2. CASE ReadTable \/ TableRead \/ getFiles \/ FollowChain \/ NextFile
           \/ ReadFile \/ ClusterRead
  BY <1>2, ReadTableKeeps, TableReadKeeps, getFilesKeeps, FollowKeeps,
     NextFileKeeps, ReadFileKeeps, ClusterReadKeeps
<1>3. CASE ReadMedia
  <2>1. Read /\ UNCHANGED fs
    BY <1>3 DEF ReadMedia
  <2>2. /\ [Next]_vars /\ op' = [op EXCEPT !.kind = "read"] /\ drives' = drives
    BY <2>1 DEF Next, Read, Call
  <2>3. op'.kind = "read" /\ op'.drive = op.drive /\ op'.request = op.request
    BY <2>2 DEF IInv, Typed
  <2> QED BY <2>1, <2>2, <2>3, DriverKeepsFat
<1>4. CASE (Works \/ UNCHANGED vars) /\ UNCHANGED fs
  <2>1. [Next]_vars
    BY <1>4 DEF Next
  <2>2. drives \subseteq drives'
    BY <2>1, DriverGoesOn
  <2>3. op.kind \in {"seek", "read"} => op' = op
    BY <1>4, CallGoesOn
  <2> QED BY <1>4, <2>1, <2>2, <2>3, DriverKeepsFat
<1> QED BY <1>1, <1>2, <1>3, <1>4 DEF FatNext, FileSystem, fatvars

LEMMA FatInvariance ==
  ASSUME OneAtATime, FitsChannel
  PROVE  FatSpec => Spec /\ [](IInv /\ DataInv /\ FatInv)
<1> DEFINE All == IInv /\ DataInv /\ BufferInv /\ FatInv
<1>1. FatInit => Init /\ All
  BY FatInitEstablishes, InitEstablishes, InitData
<1>2. All /\ [FatNext]_fatvars => [Next]_vars /\ All'
  BY FatKeeps, NextKeeps, NextData, BufferKeeps
<1>3. All => IInv /\ DataInv /\ FatInv
  OBVIOUS
<1> HIDE DEF All
<1> QED BY <1>1, <1>2, <1>3, PTL DEF FatSpec, Spec

(* The file system asks the driver for nothing but what it can read: one   *)
(* call at a time, of blocks on one track of a drive that was found.  So   *)
(* all that is proved of the driver holds of it under the file system, its *)
(* being a disk among it.                                                  *)
THEOREM FatUsesDriver ==
  ASSUME OneAtATime, FitsChannel
  PROVE  FatSpec => Spec /\ ImplementsDisk
BY FatInvariance, FloppyIsADisk, PTL

(* The drive that is attached stays one that was found, and the entries    *)
(* that getFATEntry puts together (fat.cpp:331) are of twelve bits.        *)
THEOREM FatTypeCorrect ==
  ASSUME OneAtATime, FitsChannel
  PROVE  FatSpec => []FatTypeOK
<1>1. TypeOK /\ FatInv => FatTypeOK
  BY DEF FatInv, AttachedInv, ChainInv, SlotInv, FatTypeOK
<1> QED BY <1>1, FatInvariance, FloppyTypeCorrect, PTL

(* What "read" leaves in its slot is the file, byte for byte, through the  *)
(* table that was read as sectors, the chain (fat.cpp:375), the order in   *)
(* which Read takes the clusters (fat.cpp:419) and the driver, whatever    *)
(* the chip and its errors do to it, if no read of a cluster failed.       *)
THEOREM FileIsRead ==
  ASSUME OneAtATime, FitsChannel
  PROVE  FatSpec => []SlotHoldsFile
<1>1. FatInv => SlotHoldsFile
  BY DEF FatInv, SlotInv
<1> QED BY <1>1, FatInvariance, PTL
=============================================================================
