-------------------------------- MODULE Fat ---------------------------------
(***************************************************************************)
(* Reading a file of a FAT12 floppy disk (kernel/fat.cpp) as the shell     *)
(* does (kernel/commands.cpp): "drive" attaches the file system, which     *)
(* reads boot sector and table, "read" lists the root directory, follows   *)
(* the cluster chain of each file, and reads one as a whole.  The disk is  *)
(* the driver of module Floppy.  Names and attributes are left out.        *)
(*                                                                         *)
(* The driver tells nobody that a read has failed.  What becomes of a      *)
(* table or directory that is not there is not followed ("lost").          *)
(***************************************************************************)
EXTENDS Floppy, Sequences

CONSTANTS
  bytesPerSector,
  numberOfReservedSectors, numberOfFats, sectorsPerFat, RootDirSectors,
  sectorsPerCluster,
  Link,       \* the table of each drive's disk: what follows each cluster
  Directory   \* the files of each disk: first cluster and size in bytes

FirstRootDirSectorNum == numberOfReservedSectors + numberOfFats * sectorsPerFat
FirstDataSector == FirstRootDirSectorNum + RootDirSectors
bpc == bytesPerSector * sectorsPerCluster
EndOfChain == 4095

(* What a formatter leaves: entries of 12 bits, and of each file the first *)
(* cluster and the size.  The directory is listed up to its 16th entry, so *)
(* disks with more files than that are left out.                           *)
ASSUME LayoutAssumption ==
  /\ {bytesPerSector, sectorsPerCluster, sectorsPerFat} \subseteq Nat \ {0}
  /\ {numberOfReservedSectors, numberOfFats, RootDirSectors} \subseteq Nat
  /\ \A d \in Present :
       /\ Link[d] \in [DOMAIN Link[d] -> 0 .. EndOfChain]
       /\ Directory[d] \in Seq([first : 0 .. EndOfChain, size : Nat])
       /\ Len(Directory[d]) \in 1 .. 16

\* What the table says of a cluster, the clusters of a chain from the first
\* one, and where the data of a cluster are.
Entry(d, m) == IF m \in DOMAIN Link[d] THEN Link[d][m] ELSE 0
Chain(d, first) ==
  LET follow[i \in Nat] == IF i = 0 THEN first ELSE Entry(d, follow[i - 1])
  IN  follow
DataBlock(c) == FirstDataSector + (c - 2) * sectorsPerCluster

(* Boot sector, table, root directory and each cluster of a file lie on    *)
(* one track, as FloppyDiskDrive::Read needs it.                           *)
ASSUME PlacementAssumption ==
  /\ [block |-> 0, count |-> 1] \in Request
  /\ [block |-> numberOfReservedSectors, count |-> sectorsPerFat] \in Request
  /\ [block |-> FirstRootDirSectorNum, count |-> RootDirSectors] \in Request
  /\ \A d \in Present, n \in 1 .. 16 : n <= Len(Directory[d]) =>
       LET f == Directory[d][n] IN
       \A i \in 0 .. (f.size - 1) \div bpc :
         [block |-> DataBlock(Chain(d, f.first)[i]), count |-> sectorsPerCluster]
           \in Request

VARIABLES
  stage,         \* what the shell's command waits for; "idle" without one
  attached,      \* the drive whose file system is the shell's
  fatbuf,        \* the sectors of the table
  wanted,        \* the file that is to be read, by its number
  clusterchain,  \* of each file that has been listed
  cluster,       \* where the chain that is followed stands
  ci,            \* the index of the cluster that is being read
  slot,          \* the memory it is read to
  spoilt         \* a read of a cluster has failed: nobody is told
fs == <<stage, attached, fatbuf, wanted, clusterchain, cluster, ci, slot, spoilt>>
fatvars == <<vars, fs>>

file == Directory[attached][wanted]

-----------------------------------------------------------------------------
(* The table as it lies on the disk: 12 bits for each cluster, three bytes *)
(* for two, the lower half byte of the second for the first of them.       *)
TableByte(d, k) ==
  LET n == 2 * (k \div 3)
  IN  CASE k % 3 = 0 -> Entry(d, n) % 256
        [] k % 3 = 1 -> (Entry(d, n) \div 256) + 16 * (Entry(d, n + 1) % 16)
        [] OTHER -> Entry(d, n + 1) \div 16

\* A byte of what has been read as the table; 0 if it is of another sector.
FatByte(k) ==
  LET sector == fatbuf[k \div bytesPerSector]
      block == sector[2] - numberOfReservedSectors
  IN  IF sector # Nothing /\ block \in 0 .. sectorsPerFat - 1
      THEN TableByte(sector[1], block * bytesPerSector + (k % bytesPerSector))
      ELSE 0

getFATOffset(n) == n + (n \div 2)

getFATEntry(n) ==
  LET word == FatByte(getFATOffset(n)) + 256 * FatByte(getFATOffset(n) + 1)
  IN  IF n % 2 = 1 THEN word \div 16 ELSE word % 4096

IsEOC(entry) == entry >= 4088  \* 0xFF8

\* Mutant: the first cluster is number 0.
FromZero(n) == n * sectorsPerCluster + FirstDataSector
getFirstSectorOfCluster(n) == (n - 2) * sectorsPerCluster + FirstDataSector

InTable(n) == getFATOffset(n) + 1 < bytesPerSector * sectorsPerFat

-----------------------------------------------------------------------------
(* IMedia: a seek, and a read that follows it.                             *)
Ask(d, first, n) == Seek(d, [block |-> first, count |-> n])

ReadMedia ==
  /\ stage \in {"boot", "table", "root", "cluster"}
  /\ Read
  /\ UNCHANGED fs

Answered(s) == stage = s /\ pc = "ready" /\ ~irq /\ op.kind = "read"

Lost == stage' = "lost" /\ UNCHANGED vars

\* What the last command has read is of no interest to the next one.
NoFile == clusterchain' = <<>> /\ cluster' = 0 /\ ci' = 0 /\ slot' = <<>>
          /\ spoilt' = FALSE

\* The command "drive": FileSystem's constructor.
Attach(d) ==
  /\ stage = "idle"
  /\ Ask(d, 0, 1)
  /\ stage' = "boot" /\ attached' = d /\ NoFile
  /\ UNCHANGED <<fatbuf, wanted>>

ReadTable ==
  /\ Answered("boot")
  /\ IF result = 0
     THEN /\ stage' = "table"
          /\ Ask(attached, numberOfReservedSectors, sectorsPerFat)
     ELSE Lost
  /\ UNCHANGED <<attached, fatbuf, wanted, clusterchain, cluster, ci, slot,
                 spoilt>>

TableRead ==
  /\ Answered("table")
  /\ stage' = IF result = 0 THEN "idle" ELSE "lost"
  /\ fatbuf' = [i \in 0 .. sectorsPerFat - 1 |-> buffer[i]]
  /\ UNCHANGED <<vars, attached, wanted, clusterchain, cluster, ci, slot,
                 spoilt>>

\* The command "read": the root directory, then the file.
ReadRootDirectoryData(n) ==
  /\ stage = "idle" /\ attached # Nothing /\ n <= Len(Directory[attached])
  /\ Ask(attached, FirstRootDirSectorNum, RootDirSectors)
  /\ stage' = "root" /\ wanted' = n /\ NoFile
  /\ UNCHANGED <<attached, fatbuf>>

\* A file's chain begins: no cluster yet, and the first one to come.
NewFile(n) == cluster' = Directory[attached][n].first

getFiles ==
  /\ Answered("root")
  /\ stage' = IF result = 0 THEN "chain" ELSE "lost"
  /\ clusterchain' = <<<<>>>> /\ NewFile(1)
  /\ UNCHANGED <<vars, attached, fatbuf, wanted, ci, slot, spoilt>>

(* FATFile's constructor, a step for each cluster.  An entry is read at    *)
(* any offset; beyond the table it is anything.                            *)
FollowChain ==
  LET n == Len(clusterchain)
  IN  /\ stage = "chain" /\ ~IsEOC(cluster)
      /\ clusterchain' = [clusterchain EXCEPT ![n] = Append(@, cluster)]
      /\ IF InTable(cluster)
         THEN cluster' = getFATEntry(cluster) /\ UNCHANGED stage
         ELSE stage' = "lost" /\ UNCHANGED cluster
      /\ UNCHANGED <<vars, attached, fatbuf, wanted, ci, slot, spoilt>>

NextFile ==
  LET n == Len(clusterchain)
  IN  /\ stage = "chain" /\ IsEOC(cluster) /\ n < Len(Directory[attached])
      /\ clusterchain' = Append(clusterchain, <<>>) /\ NewFile(n + 1)
      /\ UNCHANGED <<vars, stage, attached, fatbuf, wanted, ci, slot, spoilt>>

-----------------------------------------------------------------------------
(* FATFile::Read of a whole file from position 0, where the shell has just *)
(* made it: a last cluster that is not full, or the only one, goes through *)
(* a buffer of its own and comes first.                                    *)
ci1 == (file.size - 1) \div bpc

ReadCluster(i) ==
  /\ i + 1 \in DOMAIN clusterchain[wanted]
  /\ ci' = i /\ stage' = "cluster"
  /\ Ask(attached, getFirstSectorOfCluster(clusterchain[wanted][i + 1]),
         sectorsPerCluster)

ReadFile ==
  /\ stage = "chain" /\ IsEOC(cluster)
  /\ Len(clusterchain) = Len(Directory[attached])
  /\ ReadCluster(ci1)
  /\ slot' = [i \in 0 .. file.size - 1 |-> Nothing]
  /\ UNCHANGED <<attached, fatbuf, wanted, clusterchain, cluster, spoilt>>

\* The bytes of the cluster go where they are in the file, and no further.
Placed ==
  [i \in 0 .. file.size - 1 |->
     IF i \div bpc = ci
     THEN <<buffer[(i % bpc) \div bytesPerSector], i % bytesPerSector>>
     ELSE slot[i]]

ClusterRead ==
  /\ Answered("cluster")
  /\ slot' = Placed
  /\ spoilt' = (spoilt \/ result # 0)
  /\ IF ci1 = 0 \/ ci = ci1 - 1
     THEN stage' = "idle" /\ UNCHANGED <<vars, ci>>
     ELSE ReadCluster(IF ci = ci1 THEN 0 ELSE ci + 1)
  /\ UNCHANGED <<attached, fatbuf, wanted, clusterchain, cluster>>

-----------------------------------------------------------------------------
FatInit ==
  /\ Init
  /\ stage = "idle" /\ attached = Nothing /\ wanted = 1
  /\ fatbuf = [i \in 0 .. sectorsPerFat - 1 |-> Nothing]
  /\ clusterchain = <<>> /\ cluster = 0 /\ ci = 0
  /\ slot = <<>> /\ spoilt = FALSE

Command ==
  \/ \E d \in drives : Attach(d)
  \/ \E n \in 1 .. 16 : ReadRootDirectoryData(n)

FileSystem ==
  \/ ReadMedia \/ ReadTable \/ TableRead \/ getFiles \/ FollowChain
  \/ NextFile \/ ReadFile \/ ClusterRead

FatNext == Command \/ FileSystem \/ (Works /\ UNCHANGED fs)

FatSpec == FatInit /\ [][FatNext]_fatvars

(* The shell's thread is scheduled, the chip ends what it was told to do   *)
(* and its interrupt comes; nobody need enter a command.                   *)
FatFairSpec ==
  /\ FatSpec
  /\ WF_fatvars(FileSystem \/ (Driver /\ UNCHANGED fs))
  /\ WF_fatvars(Chip /\ UNCHANGED fs)
  /\ WF_fatvars(FDCInterruptHandler /\ UNCHANGED fs)

-----------------------------------------------------------------------------
FatTypeOK ==
  /\ TypeOK
  /\ stage \in {"idle", "boot", "table", "root", "chain", "cluster", "lost"}
  /\ attached \in drives \cup {Nothing}
  /\ cluster \in 0 .. EndOfChain
  /\ ci \in Nat /\ spoilt \in BOOLEAN

(* A command returns to the prompt: no wait of the driver for its flag,    *)
(* the chip or a result goes on for ever (fdd.cpp:175, 244, 260, 319), the *)
(* loop over a chain ends (fat.cpp:375), and so does the one over          *)
(* clusters, of which none is read twice or beyond the chain.              *)
CommandsReturn ==
  stage # "idle" \/ pc # "ready" ~> stage \in {"idle", "lost"} /\ pc = "ready"

(* What "read" leaves in its slot is the file, byte for byte and in the    *)
(* order of its chain, through the 12-bit entries of a table that was read *)
(* as sectors, the driver, the chip and its memory, if no cluster failed.  *)
FileContents ==
  [i \in 0 .. file.size - 1 |->
     <<<<attached, DataBlock(Chain(attached, file.first)[i \div bpc])
                     + ((i % bpc) \div bytesPerSector)>>,
       i % bytesPerSector>>]

SlotHoldsFile ==
  stage = "idle" /\ slot # <<>> /\ ~spoilt => slot = FileContents
=============================================================================
