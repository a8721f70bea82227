# CooS: specifications and proofs

CooS is an operating system in two languages. A small C++ kernel
(`src/kernel`) boots on IA-32, drives the timer, the keyboard, the console and
the disks, and interprets the CLI code of the managed kernel (`src/cskernel`),
which brings its own drivers, file systems and compiler. The libraries they
share are in `src/csutility`, `src/csreflection`, `src/csexecution` and
`src/cscli`; `src/cscorlib`, `src/flex` and `src/libcli` hold earlier copies.

These TLA+ modules model the parts of that code in which order matters: threads
and the interrupt flag, the heap, the console, keyboard input, the floppy and
ATAPI drivers with their interrupt handlers and the file systems above them, and
the two tables the managed side keeps its handles and names in. TLC checks them
on small instances; for each of them TLAPS proves safety properties for every
value of the constants, under the conditions section 4 names, and that the
drivers, the file stream, the scheduler, the heap, the hash table and the name
table (when the names that are removed part from the others) implement what they
promise.

    tlc -workers 2 -config MCThreading.cfg MCThreading.tla
    tlapm Threading_proofs.tla

## 1. Inventory

### Modelled

| Component | State | Operations | Module |
|---|---|---|---|
| Threads and interrupt nesting (`kernel/threading.cpp`, `kernel.h:90-104`, `timer.cpp`) | vector `contexts`, `currentThreadId`, nesting count `intref`, the CPU's interrupt flag and those saved in frames | `DisableInterrupt`, `EnableInterrupt`, `CreateThread`, `disposeThread`, `SwitchThread`, `Reschedule`, start-up | `Threading` |
| The kernel's own heap (`kernel/memory.cpp`) | units with headers and boundary tags, free and used list | constructor, `Allocate`, `Release`, `Reallocate` | `MemoryManager` |
| Console (`kernel/console.cpp`, `consoleex.cpp`) | line buffer, window position, caret, video memory | `Write` of each kind of character, `setWindowBaseline` | `Console` |
| Keyboard input and main loop (`kernel/keyboard.cpp`, `scancode.cpp`, `kernel.cpp`) | code table in use, queue `typedkeys`, the loop's copy, command line | IRQ1 handler, `KeyboardHandler`, loop | `KeyInput` |
| Floppy driver and DMA channel (`kernel/fdd.cpp`, `dma.cpp`) | `InterruptedFlag`, drives found, current place of each drive, the channel's size, counter and memory | `DetectDrives`, `Recalibrate`, `Seek`, `ReadData`, `SenseInterrupt`, the interrupt handler, `BeginTransfer`, `EndTransfer` | `Floppy`, `Dma` |
| FAT12 (`kernel/fat.cpp`, the commands "drive" and "read") | sectors of the table, cluster chains, the memory a file is read to | attaching, listing the root directory, following chains, reading a file | `Fat` |
| ATAPI driver (`kernel/atapi-device.cpp`, `atapi-controller.cpp`) | the loop over packet commands, `atapi_interrupt_state`, limit, place and transfer of the handler | `Seek`, `Read`, `IDE_atapi_packet_interrupt` | `Atapi` |
| Files of a CD (`kernel/storage.cpp`, `iso9660.cpp`) | the stream's position and block buffer, the file's current block | `BufferedStream::Read`, `File::Read`, `ReadExtent` | `Cdrom` |
| Hash table (`csutility/Collections/Inttable.cs`) | slots, count, modification stamp | `Add`, indexer, `Remove`, `Clear`, enumeration | `Inttable` |
| Name table (`csutility/Collections/TrieTree.cs`) | compressed trie, count | `Add`, indexer, `Find`, `Remove` | `TrieTree` |

### How they interact

* The timer interrupt (IRQ0) calls `SwitchThread`; the keyboard interrupt
  (IRQ1) calls `KeyboardHandler`, which fills `typedkeys`, moves the console
  window, or stops or resets the machine. Both are interrupt gates: they run
  with interrupts off, on the stack of whatever they interrupted.
* `DisableInterrupt`/`EnableInterrupt` guard the gates of the IDT and the
  vector of contexts. The main loop guards `typedkeys` by a `cli` and `sti` of
  its own. The heap and the console are guarded by nothing.
* The main loop runs shell commands; one of them, `thread`, is the only caller
  of `CreateThread`. `Reschedule` has no caller.
* Storage is a stack of calls: a command ("drive", "read", "load") calls the file
  system, which moves a device with `Seek` and then calls `Read`; the driver
  sends its command, polls the chip's status and waits for what its interrupt
  handler leaves behind: a flag (`fdd.cpp`), or a state and a count
  (`atapi-controller.cpp`). A failed transfer is printed; neither `IMedia` nor
  `IStream` hands it on.
* `operator new` goes to an `mspace` of the vendored `malloc.c`. The
  `MemoryManager` of `memory.cpp` is what `malloc` and `free` of the kernel's C
  library are written for; its installation in `kernel_main` is commented out
  at present (`kernel.cpp:204-205`), and `Reallocate` has no caller.
* `AssemblyManager` and `TypeInfo` map handles to objects by `Inttable`; the
  assemblies of `cscli` find their types by name in a `TrieTree` they only add
  to, and `TrieTree.Remove` is called by a test only.

### Not modelled

`PROJECT.json` lists the parts with the reason.

* **Interrupt controller** (`kernel/pic.cpp`): two mask bytes changed by
  read-modify-write with interrupts on. No handler of the kernel changes a mask,
  so nothing comes of it today; `Threading` and `KeyInput` use the latch.
* **Keyboard controller dialogue** (`keyboard.cpp:64-169`): polled commands and
  answers, between which a key may arrive.
* **Managed drivers and file systems** (`cskernel/Drivers`, `cskernel/FileSystem`):
  parallel forms of the C++ drivers modelled here.
* **Left out of modelled parts**: ATA commands, device identification and reset;
  FAT16 and FAT32, names and attributes, reads that begin inside a file (the
  shell reads files as a whole); volume descriptors and directory records of
  ISO 9660; `BufferedStream::Seek`, which nobody calls and which would leave the
  buffer behind.
* **Sequential code over data**: the IL interpreter, reflection, metadata and
  compiler translate tables that are filled once; graphics draws; the boot
  loader calls the BIOS. There is no order of events in them to check.
* **Vendored or superseded code**: `malloc.c`, FreeType with its character tables,
  PERWAPI, and the older copies of the managed kernel. They make up most of the
  repository's lines, so the map from definitions to source lines covers a small
  share of it whatever is modelled of CooS itself.

### What is hard

`PROJECT.json` lists each hazard at its line. The main ones: a tick between any
two instructions of `DisableInterrupt`, whose count is changed before the `cli`
(`kernel.h:95`); a context vector that is half updated when a tick reads it;
boundary tags left in memory by earlier calls; a window that output scrolls
under a reader; a key between `sti` and `hlt`; an interrupt handler that
allocates; removed slots that later lookups must pass over; keys that arrive in
an order that splits trie nodes. In the drivers: a flag that is still set from
the request before; a status that is read before, and compared with, a state an
interrupt may have changed since; transfers that a device divides, shortens or
overfills; a sector counted from 0 here and from 1 there; a buffer whose
position and that of the file below must move together; errors that are printed
and not reported.

## 2. The modules

Abstract specifications are modules of their own, and the detailed ones
instantiate them with a refinement mapping:

| Detailed | implements | Mapping |
|---|---|---|
| `Threading` | `RoundRobin`: the thread that runs and a queue of those that wait; a tick moves the head of the queue to the CPU | `queue <- Waiting`, the slots after the current one, then those before it |
| `MemoryManager` | `Allocator`: blocks that are out lie in the arena and share no byte | `blocks <- held` |
| `Floppy`, `Atapi` | `Disk`: a read that does not fail returns the blocks of the drive that were asked for | `status` from the call in progress and its result, `data <- Delivered`, what the caller's buffer then holds |
| `Cdrom` | `FileStream`: one read after the other returns the file from its beginning to its end, until a device has failed | `place <- position` as it was before the read, `data <- out`, `sound <- ~spoilt` |
| `Inttable`, `TrieTree` | `Dictionary`: a finite map with the result of the last call | the live slots; the nodes with a value, by their whole key |

### Threading

State as in the table above; `running` is the thread whose stack the CPU is on,
`frameIF[t]` the interrupt flag `iretd` will restore for `t`. The slot of the
running thread is stale until the next switch writes it.

`DisableInterrupt` is `if(intref++==0) cli` on a volatile integer. It is three
steps here (`DisableLoad`, `DisableStore`, `Cli`), `EnableInterrupt` likewise,
and `push_back` and `erase` are a read (`Enter`) and a write (`Commit`), because
a tick may come between any two of these. `TimerInterrupt` is one step: the
gate keeps interrupts off in it. `boot` orders start-up as `kernel_main` does:
IDT, `Threading::Initialize`, gate of int 0x80, first `EnableInterrupt`, gate of
IRQ0, unmasking, main loop.

`overlap` is a history variable: two threads were inside a section at once. As
the count is taken before the flag is cleared, nothing can be promised after
that (a second thread then counts to 2 and never executes its `cli`), and the
safety properties say "until then". In the kernel as it is used nothing
overlaps, `NeverOverlaps`: only the main loop creates threads and no
`threadmain` returns (`Returning = {}`).

With `Returning` non-empty the threads dispose of themselves. After the `sti`
that ends `disposeThread` (`kernel.h:99`) a tick may come at any moment, before
its `ret` or after (`pc = "wild"`; the code it then runs is not followed).
`SwitchThread` has no test for it: it stores the dead thread's stack pointer in
the slot `currentThreadId` names by now (`threading.cpp:53-58`). That is the slot
of the next live thread, whose context is lost and whose place in the rotation
goes to the dead thread; or no slot at all, where `at()` ends in `abort()` and
the machine stops; and when a single slot is left, no switch takes place at all.
All of this happens in the model. What can be promised is how far it goes, and
`ContextsSurvive` says it: the context of a live thread gets lost only by a tick
that finds a dead thread running.

Fairness. The interrupt controller keeps IRQ0 latched while interrupts are off,
so a tick that is possible again and again is taken: `SF_vars(TimerInterrupt)`.
Code that has been entered goes on while its thread runs: weak fairness of each
section, of `KeysTaken` and of start-up. Nobody has to create a thread or enter
the key section.

### MemoryManager

`heap` keeps headers and marks **by address**, so that a header stays behind
when its unit is merged away, as in the program; a caller who gets the bytes
writes over them (`Overwritten`). `insert`, `remove`, `replace` are the methods
of `UnitList` with their magic-number checks; `Given`, `Merged` are the branches
of `Allocate` and `Release`. The class takes no lock, so a call is one step.
`ReleaseAgain` releases a pointer twice while its old header is not inside
somebody else's block.

The model stops where the program does or where its memory is no longer the
heap's: a panic, a failed request ("reported", or "null read" through the head of
an empty list), and the copy of `Reallocate` that overruns a smaller block.

### Console

`con` holds buffer, window position and caret, `vram` the rows on the screen.
Each character is one step: `WriteLetter` breaks a full line (`Broken`), stores
and writes the screen itself (`OnScreen`); line feed, vertical tab and form feed
call `Refresh`. `PageUp` and `PageDown` are what `KeyboardHandler` calls. A page
key in the middle of `Put` or `Refresh` is a hazard the model does not have:
calls are atomic here.

### KeyInput

Keyboard, controller buffer, latch of IRQ1, handler, queue and loop. The handler
is one step (interrupts are off in it); the loop is one step per statement: `Cli`,
`Copy`, `Clear`, `Sti`, one step per key, `Hlt`. `pc = "append"` is the time
inside the heap while the command line grows, `"startup"` the last heap call
before the loop. The history variable `pending` lists the keys typed and not yet
handled. Scan codes are numbers, and the two tables keep one column of each kind:
keys that share a code and differ by the 0xE0 prefix, keys whose extended entry
is missing, and the keys that stop the machine.

Fairness. The program goes on (`WF_vars(MainStep)`), the controller passes codes
on, the latched IRQ1 is taken if interrupts are on again and again
(`SF_vars(KeyInterrupt)`), and the timer ticks (`WF_vars(TimerInterrupt)`), which
is what ends a `hlt` whose key came just before it.

### Floppy, Dma, Fat

The driver is sequential: `pc` is the test it is waiting at, and each test with
what follows it up to the next is one step. `Call` is the beginning of
`Recalibrate`, `Seek` and `ReadData`; the first of them does not clear `flag`
(`ClearFlag`), and `Seek` sends drive 0 whatever drive is meant (`SendSeek`), so
that other drives stay on cylinder 0. The chip `fdc` is external: heads that
move (`Arrive`), sectors that go through the DMA channel one by one, the result
phase, an interrupt line that stays up until it is asked why. `Overlapped` says
whether the chip takes commands while a head moves; the runs and the proofs have
it FALSE, what `waitForIdle` waits for, so that what becomes of the flag
`Recalibrate` does not clear is left to "Seen while modelling" below. `WaitRead`
stores the place the chip names as the current one, and a result byte that is
not there as 255. After the last sector of a track the chip names the first one
of the other side (`EndRead`, the MT bit is set in the command), after side 1 on
the next cylinder, which need not be on the disk: `Place` includes it. The next
`Seek` overwrites it.

`Dma` keeps a channel's size modulo `SizeWrap` as `uint16` does, and copies in
`EndTransfer` what was announced, not what has come.

`Fat` is the commands "drive" (boot sector, table) and "read" (root directory,
chains of all files, one file) over these drives. The table is bytes, three for
two entries, so that an entry may lie in two sectors; `getFATEntry` reads it as
the code does. `FATFile::Read` takes the last cluster first, through a buffer of
its own (`ci1`), then the others. `stage = "lost"` is a table or directory whose
read has failed, or a lookup beyond the table (an empty file's first cluster 0
leads there): what the program does with such memory is not followed. A cluster
that fails is only printed, so `spoilt` remembers it. `LayoutAssumption` is what
a boot sector says, `PlacementAssumption` that the table, the root directory and
each cluster of a file lie on one track, beyond which `FloppyDiskDrive::Read`
cannot read.

Fairness. The shell's thread is scheduled (`WF` of the file system's and the
driver's steps), the chip ends what it was told (`WF` of `Chip`), its interrupt
comes (`WF` of `FDCInterruptHandler`). `MediumError` is not fair, and nobody need
enter a command.

### Atapi, Cdrom

`Chunk`, `SendPacket`, `ReadStatus` and `CheckState` are the loop of
`IDE_Read_Sector` and the polls of `ide_atapi_packet_cmd`. `ReadStatus` and
`CheckState` are two steps because the handler may run between the read of the
status register and the test of `atapi_interrupt_state`. `PacketTimeout` and
`StatusTimeout` are the ends of the counted loops. The latter fails when the last
status showed an error, succeeds when the handler has set the state since, and
panics otherwise; after a panic the device goes on and its interrupts still come
(the `cli` of `panic` is commented out, `stdlib.cpp:52`). A device that refuses
the packet without an error makes `SendPacket` panic with "break". The handler
moves at most the rest of the limit to the buffer and throws away the rest
(`Taken`). The device is external: it refuses, divides a transfer, ends it early
(`EndEarly`), or offers any number of units too many, up to `Extra`. `MaxShort`
is a bound of the model: of one call, at most so many commands end early or offer
more than a sector too much. The handler's branches for what such a device does
not do are left out: the release of the bus, messages, data from the host, and
bits that mean nothing (`atapi-controller.cpp:370-375`, `383-396`, `404-409`,
`411-425`).

`excess` is a history variable. `IDE_atapi_read10` means to allow for a transfer
that is too short (`atapi-device.cpp:307-309`), but tests only whether it is whole
sectors. A transfer that is too long by more than a sector and not whole sectors
passes, and `IDE_Read_Sector` takes more sectors off its unsigned count than it
asked for (`:360`): the count wraps, at `CountWrap` here, at 2^32 there, and the
loop goes on behind the caller's buffer. The model does the same, and sets
`excess`. Until then the driver is a disk and overruns nothing, which is what the
properties say; after it each command still writes only to the memory it is for,
and what is reported counts as a failure of the device.

`Cdrom` puts `File::Read` and the stream above it. `StreamRead` cuts the size at
the end of the file and takes what the buffer holds; `Blocks` chooses between
whole blocks, one buffered block and the panic; `Direct` and `Fill` take the
answers. `Fill` keeps what a failed read has not filled, as the code does.

Fairness. As above: the reading thread, the device and its interrupt. `EndEarly`
and the timeouts are not fair; nobody need read.

### Inttable

`Probe` is the order in which a key visits slots (double hashing); `Find`,
`PutImpl`, `RemovedSlot` and `Rehash` follow the code slot by slot, with the
chain marker as a field of its own (the sign bit of `hashMix`). `KeyEquals`
compares two boxed integers by reference and is therefore always false.
`en` is one `Enumerator`; its stamp is kept as a flag, "nothing has changed since".
`Overwriting` says whether callers put keys that are in the table; if they do, the
table is not a dictionary (below). `CalcPrime`, for tables larger than the
last prime of the list, is left out: `GrowthAssumption` says that the list has a
size for the keys. `PrimeAssumption` says that the sizes are primes, which
`TestPrime` does not ensure for what it finds (it tries divisors below the square
root only, and takes a square for a prime), and that their squares fit in 31
bits: `put` and `Rehash` add `incr` to `spot` without reducing it, `Find` and the
indexer reduce, and from 47431 slots on the sum may wrap.

### TrieTree

The nodes are a heap, each with its part of the key, a value or blank, and its
branches by first character. What stands for the reference to a node is its name,
the characters from the root to its end: splitting a node leaves it as it is
(`AddBranch` gives the new node above it the shorter name), and the merge passes
the references on (`Renamed`). Only a merge with a blank child, which throws after
it has changed the key, would part a node from its name; no instance and no name
that `Apart` allows leads there. `Search` walks by a function over the positions
of the key, `AddBranch` has the cases of insertion, `RemoveBranch` and
`MargeWithChildrenIfBlank` the removal with its exceptions. `Remove` is restricted
to names that are in the tree and in `Removable`; `Apart` says which names can be
removed without harm.

## 3. The runs

| Run | Instance | Shows |
|---|---|---|
| `threading` | main thread, three workers that never return | exclusion, no context lost, interrupts come back, every thread keeps running, rotation is a round robin |
| `thread_exit` | main thread, two workers, both return | exclusion until two sections overlap; after a disposal no context is resumed twice, and a live thread's context is lost only by a tick that finds a dead thread running |
| `heap` | arena of 184 bytes: both sentinels and up to four blocks of two sizes | units tile the arena and each is held, free or merged (`Accounted`), links, merging, double release caught, refinement of `Allocator` |
| `console` | five rows of two columns, two rows on the screen | screen and buffer agree, output stays visible, a reader who paged back is not disturbed |
| `keys` | six keys, three presses, queue blocks of two | no key lost, doubled, swapped or misread; each is handled in the end |
| `keys_heap` | the same | violation: see findings |
| `floppy` | three drives of two cylinders, two heads and four sectors, a fourth that is looked for; sectors of eight bytes, clusters of two sectors | results are there when the flag lets the driver go on, the drives are found, commands return, a read delivers what its seek named, a file is what its chain says |
| `cdrom` | two devices, sectors of two units, commands of at most two sectors, up to three units too many, counts below `CountWrap` = 4, a file of seven units read by 1, 3 and 7 | the handler stays inside the command and, until `excess`, inside the request; reads return; until `excess` the driver is a `Disk`, the stream a `FileStream` |
| `cdrom_sector` | a file of one sector, read as a whole | violation |
| `inttable` | three keys that collide in the small table, two values, tables of 3, 7 and 17 slots | chains stay intact through removal, reuse and growth; count; exact enumeration; refinement of `Dictionary` |
| `trie` | three nested names, three flat ones that are removed, two values | the trie stays compressed and refines `Dictionary` |
| `trie_prefix` | a name and a longer one | violation |

Why the bounds are enough. Three workers give a rotation in which the current
slot is first, middle and last while a thread is pushed or erased. Four blocks
give every combination of free and used neighbours on either side, and an arena
that is exactly full. Five rows with a window of two let the window be at the
top, in the middle and at the bottom. Three presses let a key arrive while one
is in the controller and one in the queue, across a block boundary of the deque.
Three colliding keys fill the small table to its threshold, so that the third
one grows it, and make chains in which the first, middle or last is removed.
Nested names cover every case of `AddBranch`. The search for drives goes through
three that are present and ends at one that is not; the chain 5, 2, 6 is out of
order, crosses both cylinders and reads the entry of cluster 5 out of two
sectors of the table; the other files are one full cluster, two clusters with a
rest, and empty. Seven units are three whole sectors and a half one: reads end
in a buffered sector, at its end, take whole sectors, or all of these, and the
largest needs two packet commands, more when one ends early. A burst of three
units ends inside a sector. Three units too many are more than a sector and not
whole sectors, so that a command for one sector passes for two and the count
wraps; 4 is the smallest `CountWrap` above the requests.

`CHECK_DEADLOCK FALSE` is given where the system may stop: the machine breaks or
resets (`KeyInput`), the heap, console or driver panics, a worker returns to no
address or a tick finds no slot for it, the shell has read what it can.

### Findings

* `keys_heap`: the keyboard handler's `push_back` may enter the heap while the
  program it interrupts is inside it; `malloc.c:114` says it is not safe.
* `cdrom_sector`: a rest of exactly one sector is read neither directly
  (`rest>bufsize`) nor through the buffer (`rest>=bufsize` panics with "The size
  of rest is larger than buffer size.", `storage.cpp:82`).
* `trie_prefix`: a removed name that is a prefix of another stays, with the
  default value; the test `Remove1` (`TrieTreeTest.cs:80-86`) expects otherwise.

Seen while modelling, without a run of their own:

* When all memory is handed out, `Allocate` reads `p->size` through NULL
  (`memory.cpp:187`) before the test that reports the failure (`:195`).
* A tab at the right edge moves the caret beyond the line, where only
  `cx==getWidth()` breaks it, and the next letter panics (`consoleex.cpp:19`).
* `Inttable.Add` of a key that is there stores it twice instead of throwing
  (`Inttable.cs:310`, `:445`): with `Overwriting = TRUE`, `RefinesDictionary` is
  violated. The key -2 is taken for a removed slot (`:50`).
* With a chip that takes commands while a head moves (`Overlapped = TRUE`),
  `RepliesThere` and `DetectsPresent` are violated: `Recalibrate` (`fdd.cpp:244`)
  does not clear the flag, and the second drive is asked for too early.
* A device that offers more than a sector too much, and not whole sectors, makes
  the count of `IDE_Read_Sector` wrap (`atapi-device.cpp:307-309`, `:360`): without
  the exception for `excess`, TLC finds `NoOverrun` and `ImplementsDisk` violated.
* After `disposeThread` a tick overwrites another thread's context or stops the
  machine (`threading.cpp:53-58`, `78-80`). No `threadmain` returns at present.
* A transfer that fills a DMA channel exactly, 64K or 128 sectors, would get
  size 0 in `BeginTransfer` and be copied nowhere (`dma.cpp:182`). A track has 18
  sectors.
* `Seek` of the floppy driver moves the head of drive 0 whatever drive it is for.
* `FATFile::Read` does not advance its position after a read of one cluster, and
  rounds a beginning inside a cluster up. Both matter to readers in pieces only,
  of which there are none.
* `Reallocate` to a smaller size copies the old work area over the next block
  (`memory.cpp:162`); it has no caller.
* `TrieTree.Remove` compares one character only (`TrieTree.cs:172`) and so may
  remove another name; a blank node takes its child's value after its key (`:163`).
  `Add` and the indexer's `set` do not count a name whose node was there blank
  (`:198`, `:248`).
* RETURN is the break key of `callbackKeyHandler`, so that a command line can
  never be executed, although the prompt invites to type `help` (`kernel.cpp:391`).

## 4. The proofs

`Threading_proofs`, for any sets of workers and any number of steps, from
`ThreadAssumption` (Main is not a worker, NoContext is no thread):

| Theorem | Statement |
|---|---|
| `Exclusion` | `Spec => []CriticalSectionsExclude` |
| `Restoration` | `Spec => []InterruptsComeBack` |
| `SlotPerThread` | `Spec => []OneSlotPerThread` |
| `OnlyTheDeadOverwrite` | `Spec => ContextsSurvive` |
| `Typing` | under `NoReturn`: `Spec => []TypeOK` |
| `OneClientOnly` | under `NoReturn`: `Spec => []NeverOverlaps` |
| `SchedulerIsRoundRobin` | under `NoReturn`: `Spec => RefinesRoundRobin` |

None of them is inductive alone. What holds until two threads overlap is

    IInv == TypeOK /\ PastInv /\ CountInv /\ FlagInv /\ BootInv /\ GoneInv
              /\ SectionInv /\ SlotInv

`PastInv`: one thread at a time is past the load of `DisableInterrupt`; others
may stand before it. `CountInv`: `intref` is the reference start-up began with
and that of the open section, and what a thread has loaded from it is still its
value. `FlagInv`: the interrupt flag, and that no thread is switched away where
it is off. `GoneInv`: a thread that has disposed of itself never gets out of
`EnableInterrupt` again. `SectionInv`: what has been read when a section is
entered is still the vector when it is stored. `SlotInv`: the owners of the slots
are threads that have been created, each once, and all of them until one disposes
of itself; the current slot is in range (`CurrentSlot`) unless the thread that
runs is such a one. Exclusion needs the flag, the flag needs the count, and the count needs
that nobody else is between its load and its store. `SwitchKeepsOwners` is the
lemma about rotation: saving the running thread in its slot and moving on leaves
the owners as they were, also when that thread is dead, since the current slot
stands for it from the erase on. `EraseSlots` says what `erase` leaves. That a
dead thread comes to own a live thread's slot is not excluded by any of this;
`OnlyTheDeadOverwrite` says that no other step, `erase` and `push_back` included,
loses the context of a live thread.

`NoReturn == Returning = {}` is the kernel as it is. Under it `OneClient` is
inductive too: only the main thread is ever inside a section. In the refinement
the queue of the abstract scheduler is `Round(contexts, current)`, and three
lemmas about it carry the proof: `RoundProperties` (its length and elements),
`RoundTurns` (a switch takes its head and appends the running thread),
`RoundJoins` (`push_back` inserts the new thread behind those whose slots follow
the current one). `SwitchIsSwitch` and `CommitIsAdmit` apply them to a tick and
to the store that ends `CreateThread`; every other step is a stutter.

`MemoryManager_proofs`, for an arena of any size and any sizes of requests
(`ArenaAssumption`, `RequestAssumption`):

| Theorem | Statement |
|---|---|
| `HeapTypeCorrect` | `Spec => []TypeOK` |
| `HeapAccounted` | `Spec => []Accounted` |
| `HeapLinked` | `Spec => []Linked` |
| `HeapMerged` | `Spec => []NoFreeNeighbours` |
| `HeapCatchesDoubleRelease` | `Spec => DoubleReleaseCaught` |
| `HeapImplementsAllocator` | `Spec => RefinesAllocator` |

`IInv` says of the heap that it is `Sound`: each list is a sequence of units whose
links are that sequence's (`ListIs`), the units of both lists tile the arena
(`Tiles`: the end of each is the beginning of the next), the mark behind each
repeats its header (`MarksRight`), of two neighbours one is used (`FreeApart`),
and the first and last unit are the constructor's (`Sentinels`); and that the used
units are the callers' (`Owned`). A marker of a unit that was merged away is still
in memory; what makes reading it harmless is that `Allocate` and `Release` look at
tiles only. `insert` and `remove` are lemmas about sequences, cutting and joining
lemmas about tiles. A pointer that is released twice has a header that is free, or
was merged away and is plain: it is never used, unless the place is inside a block
since, which `ReleaseAgain` excludes.

`Inttable_proofs`, for any keys, values and list of sizes that the module's
assumptions allow, and `~Overwriting`:

| Theorem | Statement |
|---|---|
| `TableTypeCorrect` | `Spec => []TypeOK` |
| `TableKeepsChains` | `Spec => []ChainsIntact` |
| `TableCounts` | `Spec => []CountRight` |
| `TableEnumerates` | `Spec => []EnumerationExact` |
| `TableImplementsDictionary` | `Spec => RefinesDictionary` |

The invariant, `IInv`, says where a key is kept: at a slot of its own probe such that all
slots before it on that probe are marked as passed (`KeptAt`). Marking another slot,
reusing a removed one and removing a key keep that for the others (`MarkedGood`,
`PutGood`, `RemovedGood`). As the size is a prime, a probe visits every slot once
(`ProbeVisits`), so that a table below its threshold has room for every key.
`Rehash` refills slot by slot; that each beginning of it is right is shown by
taking the least one that is not (`RefilledIs`). The count is a bijection between
live slots and keys, kept by each call.

`Console_proofs`, for any geometry (`ShapeAssumption`):

| Theorem | Statement |
|---|---|
| `ConsoleTyping` | `Spec => []TypeOK` |
| `ScreenIsWindow` | `Spec => []ScreenShowsWindow` |
| `OutputStaysVisible` | `Spec => FollowsOutput` |
| `ReaderUndisturbed` | `Spec => ReaderNotDisturbed` |

The invariant is `TypeOK /\ ScreenShowsWindow`: a letter changes one cell of the
screen, which shows the window only if it did before. A lemma for each operation
says that it makes a console of a console; `LineFeedStays` and `LineFeedSlides`
say what a line feed does to the window, from which the two step properties
follow.

`KeyInput_proofs`, for any subset of the keys the tables are modelled for, any
number of presses and any block size of the deque:

| Theorem | Statement |
|---|---|
| `KeysAreKeys` | `Spec => []TypeOK` |
| `NoKeyIsLost` | `Spec => []KeysInOrder` |

    IInv == TypeOK /\ LoopInv /\ InOrder

`LoopInv`: from `Cli` to `Sti` interrupts are off, and what has been copied is
still the queue when it is cleared. `InOrder`: the keys typed and not handled
are those the loop holds, those in the queue, and then the keys that the codes
in the controller and on the wire spell, which end in the table "plain". What a
sequence of codes spells is said without recursion, by a numbering `m` that
grows by one at each code that types a key (`Counts`). `SpellsMore`,
`SpellsLess` and `SpellsSent` are what happens to such a sequence when the
keyboard sends a code, the handler takes one, and a key goes down or up;
`HandlerKeeps` and `HandledKeeps` put that together with the queue.

`Fat_proofs` begins with the driver (`Floppy`), for any drives and geometry, from the module's assumptions and
`OneAtATime == Overlapped = FALSE`; `FitsChannel` says that a track has fewer
sectors than the DMA channel can count:

| Theorem | Statement |
|---|---|
| `RepliesAreThere` | `Spec => []RepliesThere` |
| `DrivesAreFound` | `Spec => []DetectsPresent` |
| `FloppyTypeCorrect` | `Spec => []TypeOK` |
| `FloppyIsADisk` | under `FitsChannel`: `Spec => ImplementsDisk` |

    IInv    == Typed /\ CallInv /\ ChipInv /\ SearchInv
    DataInv == MemoryInv /\ SoughtInv /\ TransferInv

`OneAtATime` excludes the case in which the detection goes wrong, a flag that is
still set when the second drive is asked for (`fdd.cpp:244`): `DrivesAreFound` says
that with such a chip the flag does no harm, not that the code is right with any.

As `Recalibrate` does not clear the flag, the flag says nothing when it waits.
`ChipInv` says what saves it: between calls the chip is quiet, and after a seek
has been sent a head is on its way, and the chip not ready, or it has arrived and
waits to be asked. `SearchInv`: the drives found are those below the one that is
being asked, all of them present. `SoughtInv`: between a seek and the read it is
for, the place the driver remembers is the one the request names.
`TransferInv`: while sectors come, the chip is as many of them behind the first
as the channel has stored, and these are the ones asked for. `PlaceIsThere` and
`RequestOnTrack` are the arithmetic: the place of a block is on the drive, and
counting sectors on a track counts blocks. `OnTheDisk`: a place a seek has reached
is on the drive, while the one the chip names after a read may be a cylinder
further.

The file system (`Fat`) stands on that, for any layout, table and files (`LayoutAssumption`,
`PlacementAssumption`), under `OneAtATime` and `FitsChannel`:

| Theorem | Statement |
|---|---|
| `FatUsesDriver` | `FatSpec => Spec /\ ImplementsDisk` |
| `FatTypeCorrect` | `FatSpec => []FatTypeOK` |
| `FileIsRead` | `FatSpec => []SlotHoldsFile` |

    FatInv == AttachedInv /\ AskInv /\ TableInv /\ ChainInv /\ SlotInv

`FatUsesDriver` is why the two can be joined: every call of the file system is one
the driver's promise is about. `AskInv`: what is asked for at each stage.
`TableInv` and `ChainInv`: the bytes in memory are the table's, and the clusters
followed are the beginning of the file's chain; `TableDecodes` is the lemma about
entries of 12 bits, of which two share a byte and which may begin in one sector and
end in the next. `SlotInv`: the bytes of the clusters read so far, the last cluster
first, are the file's. That a chain is what its recursive function says is proved
by the least length for which it were not (`ChainBegins`, `ChainIs`).

`Cdrom_proofs`, for any requests and sizes, and any devices, however much they
offer. What is said of the caller's buffer, of the counts and of the disk holds
until `excess`; what is said of the command in progress holds always:

| Theorem | Statement |
|---|---|
| `HandlerStaysInside` | `Spec => NoOverrun` (the driver under any caller) |
| `DriverIsADisk` | `Spec => ImplementsDisk` |
| `DriverTyping` | `Spec => []TypeOK` |
| `StreamUsesDriver` | `CdSpec => Spec` |
| `StreamOverrunsNothing` | `CdSpec => NoOverrun` |
| `StreamReadsADisk` | `CdSpec => ImplementsDisk` |
| `StreamTypeCorrect` | `CdSpec => []CdTypeOK` |
| `StreamIsTheFile` | `CdSpec => ImplementsFileStream` |

    AtapiInv == Typed /\ DeviceInv /\ LoopInv /\ HandlerInv
    DataInv  == LoopStands /\ DeviceStands /\ FilledRight
    CdInv    == StreamTyped /\ PlaceInv /\ AskInv /\ ReadRight /\ BufferTyped

`Spec => []TypeOK` is the ranges of the counts, `NoOverrun` the memory that is
written. Under `excess`, `ImplementsDisk` takes every read for a failed one.

`DeviceInv`: the device moves data only while the driver waits, and the state
"status" is its last word, so that no interrupt of an old command meets the limit
of a new one. `LoopInv`: what the loop has done and what is left make up the
request, until `excess`; the count is always that of a command at least and below
`CountWrap`. `HandlerInv`: the handler is where the units it has taken say, no
further than its limit, and the device has at most `Extra` units more to offer than
that. A command that has moved no more sectors than it was sent for leaves the
count without a wrap (`NoWrap`), and one that has moved more sets `excess`
(`CompletedKeeps`); `RestTyped` bounds the count in both cases. The lemmas about
products and quotients (`ProductMonotone`, `QuotientTimes`) are what the arithmetic
of sectors and units rests on. `Counted` bounds the numbers, which the types of
`TypeOK` need.

On top of that, `SoundData == ~excess => DataInv`. `DataInv` says what is in the
caller's memory: the units below `Filled` are those of the drive (`FilledRight`),
which needs that the loop and the device both stand where the next unit comes from. `Shifted` and `DivisionUnique`
say that a unit's place in the buffer and its sector on the drive determine each
other. A read that ends with "ok" has filled the whole request. `ExcessStays`: what has
gone wrong once stays so, and every call that ends from then on is a failed one of
the abstract disk (`FailedStep`).

`CdInv` does the same for the stream. `PlaceInv` is the relation the code never
states: the file below stands behind the buffer while the buffer holds what comes
next, and at the stream's own position otherwise. `AskInv`: the device is asked for
the blocks that come next. `ReadRight`: until a device has failed or taken a
surplus for too few, what the reader
and the buffer have got is what the file has there. The proof rests on
`FileAssumption`, in particular that no unit of a drive is `Nothing`, the content
that a failed read leaves; without that a reader could not tell the two apart.

`TrieTree_proofs`, for any names, which are sequences of characters, and any
values (`TrieAssumption`), under `Apart(Keys, Removable)`:

| Theorem | Statement |
|---|---|
| `TrieIsCompressed` | `Spec => []Compressed` |
| `TrieRemoves` | `Spec => RemovedCanBeAdded` |
| `TrieImplementsDictionary` | `Spec => RefinesDictionary` |

    Sound(h) == Shaped(h) /\ Filled(h) /\ Ended(h) /\ Forked(h, DOMAIN h \ {Root})

`Apart` is about removals alone: a name that is removed has two characters, none
goes on after it, and of the names that part from it at one place no two go on
with the same character. It holds of the program's own use, which removes nothing
(`Removable = {}`), and of the names of run `trie` (`FlatIsApart`, which TLC
evaluates); run `trie_prefix` shows what happens to a name others go on from. The
three theorems put no condition on names that are added and looked up.

`Compressed` alone is not inductive: it does not say that a search finds the node.
`Shaped` does: from a node to every node whose name goes on after its own there is
a way by the branches, so that `Search` ends at the longest name the key begins
with (`SearchLongest`); `Search` is a function over the positions of the key, and
that its walk goes on until it can go no further is proved by the least position
where it had not (`WalkBegins`, `SearchIs`). `LeafShaped`, `AboveShaped`,
`PrunedShaped` and `RenamedShaped` say for the four changes of the tree - a leaf is
linked, a node goes between two, a leaf is taken out, a node is taken over by its
child - that it stays `Shaped`. `Ended` (below every node there is a value) and
`Forked` (a blank node has two branches) are what removal needs: what remains
beside the removed leaf has a value, and by `Apart` it is a leaf (`LeafLeft`), so
that merging loses no branches. `Stored` and `Erased` say what a call has changed
in the dictionary the tree stands for.

Only model-checked: all liveness (`EveryThreadRuns`, `EveryKeyHandled`,
`CommandsReturn`, `ReadsReturn`), which is out of the prover's reach; `TypeOK` of
`Threading` when threads return (after an overlap the index may lie behind the
vector). The library's induction theorems take an operator as a parameter, which the provers cannot instantiate:
where a proof needs induction it takes the least number for which a statement
fails (`LeastNumber`).

## 5. Plan

What would add most from here, in this order:

1. `Console` with `Put` and `Refresh` split, composed with the page keys of
   `KeyInput`.
2. The keyboard controller's dialogue at start-up; the managed drivers.
