------------------------------ MODULE MCCdrom -------------------------------
(* Two devices with sectors of two units and commands of at most two       *)
(* sectors.  The file has four sectors, the last one half full, and is     *)
(* read in pieces that end in the middle and at the end of a sector: the   *)
(* largest takes two commands, more when some of them end early.  A device *)
(* may offer up to three units too many, which is more than a sector and   *)
(* not whole sectors; four is the least at which no request wraps.         *)
EXTENDS Cdrom

MCDrive == {0, 1}
MCSectorSize == 2
MCMaxCount == 2
MCBurst == 3
MCExtra == 3
MCCountWrap == 4
MCMaxShort == 1
MCGuard == 2
MCRequest ==
  [drive : {1}, block : 3 .. 6, count : 1 .. 3]

MCFileDrive == 1
MCExtent == 3
MCLength == 7
MCSizes == {1, 3, 7}

\* A file of one sector, read as a whole.
MCOneSector == 2
MCWhole == {2}
=============================================================================
