------------------------------ MODULE KeyInput ------------------------------
(***************************************************************************)
(* From a key to the command line of the C++ kernel: the keyboard and its  *)
(* controller, the handler of IRQ1 (kernel/keyboard.cpp), the queue        *)
(* typedkeys it fills (kernel/kernel.cpp, KeyboardHandler) and the main    *)
(* loop that empties it (kernel_main).  The loop copies and clears the     *)
(* queue with interrupts off, works on the copy with interrupts on and     *)
(* then halts until some interrupt comes.                                  *)
(*                                                                         *)
(* Scan codes are numbers as in the program; of the two tables only the    *)
(* columns of the keys that behave differently are kept.                   *)
(***************************************************************************)
EXTENDS Integers, SequencesExt

CONSTANTS
  UserKeys,    \* the keys somebody types
  MaxPresses,  \* bound: how many times a key goes down
  Block        \* keys in one block of the deque, 32 in the program

Codes == {1, 14, 28, 30, 73}
Released == 128  \* the bit of a key that goes up
Prefix == 224    \* 0xe0: the next code is of the extended table
Ack == 250       \* 0xfa: the keyboard acknowledges a command

ScanCodeToKeyCode ==
  [c \in Codes |-> CASE c = 1  -> "ESC"
                     [] c = 14 -> "BACKSPACE"
                     [] c = 28 -> "RETURN"
                     [] c = 30 -> "A"
                     [] c = 73 -> "PAD_9"]
ExtendedScanCodeToKeyCode ==
  [c \in Codes |-> CASE c = 28 -> "PAD_ENTER"
                     [] c = 73 -> "PAGEUP"
                     [] OTHER  -> "NONE"]

Plain == {ScanCodeToKeyCode[c] : c \in Codes}
Extended == {"PAD_ENTER", "PAGEUP"}

ASSUME KeyAssumption ==
  /\ UserKeys \subseteq Plain \cup Extended
  /\ MaxPresses \in Nat /\ Block \in Nat \ {0}

VARIABLES
  wire,       \* codes the keyboard has sent and the controller not yet taken
  ob,         \* the controller's output buffer: nothing, or one code
  irq1,       \* IRQ1 is latched in the interrupt controller
  flagIF,     \* the CPU's interrupt flag
  keymap,     \* the table the handler will use next
  typedkeys,  \* the queue between the handler and the loop
  buf,        \* the loop's copy of it
  cmdline,    \* the command line so far
  pc,         \* where the main program is
  machine,    \* "running", or how it came to a stop
  down,       \* keys that are down
  presses,    \* how many keys went down
  pending,    \* history: keys typed and not handled by the loop yet
  reentered   \* history: the handler entered the heap in the middle of a call

device == <<wire, ob>>
main   == <<buf, cmdline>>
user   == <<down, presses>>
vars == <<device, irq1, flagIF, keymap, typedkeys, main, pc, machine, user,
          pending, reentered>>

-----------------------------------------------------------------------------
(* The keyboard: a key sends its code when it goes down and, with the bit  *)
(* of release, when it goes up.                                            *)
CodeOf(k) == IF k \in Plain
             THEN CHOOSE c \in Codes : ScanCodeToKeyCode[c] = k
             ELSE CHOOSE c \in Codes : ExtendedScanCodeToKeyCode[c] = k

Sent(k, bit) == IF k \in Plain THEN <<CodeOf(k) + bit>>
                ELSE <<Prefix, CodeOf(k) + bit>>

\* What the main loop is to receive of a key that goes down.
Queued(k) == IF k = "PAGEUP" THEN <<>> ELSE <<k>>

Press(k) ==
  /\ presses < MaxPresses /\ k \notin down
  /\ presses' = presses + 1 /\ down' = down \cup {k}
  /\ wire' = wire \o Sent(k, 0)
  /\ pending' = pending \o Queued(k)
  /\ UNCHANGED <<ob, irq1, flagIF, keymap, typedkeys, main, pc, machine,
                 reentered>>

Release(k) ==
  /\ k \in down
  /\ down' = down \ {k}
  /\ wire' = wire \o Sent(k, Released)
  /\ UNCHANGED <<ob, irq1, flagIF, keymap, typedkeys, main, pc, machine,
                 presses, pending, reentered>>

\* An answer to a command that somebody sent to the keyboard.
Acknowledge ==
  /\ presses < MaxPresses
  /\ presses' = presses + 1
  /\ wire' = Append(wire, Ack)
  /\ UNCHANGED <<ob, irq1, flagIF, keymap, typedkeys, main, pc, machine, down,
                 pending, reentered>>

(* The controller takes the next code when its buffer is empty; that is    *)
(* the edge on IRQ1.                                                       *)
Fill ==
  /\ ob = <<>> /\ wire # <<>>
  /\ ob' = <<Head(wire)>> /\ wire' = Tail(wire)
  /\ irq1' = TRUE
  /\ UNCHANGED <<flagIF, keymap, typedkeys, main, pc, machine, user, pending,
                 reentered>>

-----------------------------------------------------------------------------
(* handleKeyInterrupt and callbackKeyHandler.  Interrupts are off in it;   *)
(* an interrupt ends the hlt of the main loop.                             *)
Awake == IF pc = "hlt" THEN "cli" ELSE pc

InHeap == pc \in {"startup", "append"}

\* deque::push_back takes a new block from the heap with the last free slot.
TakesBlock == (Len(typedkeys) + 1) % Block = 0

(* KeyboardHandler: the page keys move the window of the console. *)
KeyboardHandler(k, up) ==
  IF up \/ k = "PAGEUP" THEN UNCHANGED <<typedkeys, reentered>>
  ELSE /\ typedkeys' = Append(typedkeys, k)
       /\ reentered' = (reentered \/ (InHeap /\ TakesBlock))

\* Mutant: the table stays the extended one.
KeepMap == keymap
NextMap == "plain"

KeyCode(sc) == LET c == sc % 128
               IN  IF keymap = "plain" THEN ScanCodeToKeyCode[c]
                   ELSE ExtendedScanCodeToKeyCode[c]

(* RETURN is the break key: clrpanic stops the machine inside the handler; *)
(* ESC resets it when it goes up.                                          *)
callbackKeyHandler(sc) ==
  \/ /\ sc = Ack
     /\ UNCHANGED <<keymap, typedkeys, machine, reentered>>
  \/ /\ sc = Prefix
     /\ keymap' = "extended"
     /\ UNCHANGED <<typedkeys, machine, reentered>>
  \/ /\ sc \notin {Ack, Prefix}
     /\ keymap' = NextMap
     /\ LET k == KeyCode(sc)
            up == sc >= Released
        IN  \/ /\ k = "RETURN"
               /\ machine' = "break"
               /\ UNCHANGED <<typedkeys, reentered>>
            \/ /\ k = "ESC" /\ up
               /\ machine' = "reset"
               /\ UNCHANGED <<typedkeys, reentered>>
            \/ /\ k # "RETURN" /\ ~(k = "ESC" /\ up)
               /\ UNCHANGED machine
               /\ KeyboardHandler(k, up)

KeyInterrupt ==
  /\ machine = "running" /\ irq1 /\ flagIF
  /\ irq1' = FALSE
  /\ pc' = Awake
  /\ ob # <<>>
  /\ ob' = <<>>
  /\ callbackKeyHandler(Head(ob))
  /\ UNCHANGED <<wire, flagIF, main, user, pending>>

(* IRQ0 matters here only because it ends the hlt. *)
TimerInterrupt ==
  /\ machine = "running" /\ flagIF /\ pc = "hlt"
  /\ pc' = "cli"
  /\ UNCHANGED <<device, irq1, flagIF, keymap, typedkeys, main, machine, user,
                 pending, reentered>>

-----------------------------------------------------------------------------
(* The main program.  Of what it does before the loop only its last call   *)
(* to the heap ("startup") and what follows that ("started") matter.       *)
At(here, there) == machine = "running" /\ pc = here /\ pc' = there

LeaveHeap ==
  /\ At("startup", "started")
  /\ UNCHANGED <<device, irq1, flagIF, keymap, typedkeys, main, machine, user,
                 pending, reentered>>

EnterLoop ==
  /\ At("started", "cli")
  /\ UNCHANGED <<device, irq1, flagIF, keymap, typedkeys, main, machine, user,
                 pending, reentered>>

\* Mutant: the cli is missing.
LeftOn == flagIF
TurnedOff == FALSE

Cli ==
  /\ At("cli", "copy")
  /\ flagIF' = TurnedOff
  /\ UNCHANGED <<device, irq1, keymap, typedkeys, main, machine, user, pending,
                 reentered>>

Copy ==
  /\ At("copy", "clear")
  /\ buf' = typedkeys
  /\ UNCHANGED <<device, irq1, flagIF, keymap, typedkeys, cmdline,
                 machine, user, pending, reentered>>

Clear ==
  /\ At("clear", "sti")
  /\ typedkeys' = <<>>
  /\ UNCHANGED <<device, irq1, flagIF, keymap, main, machine, user, pending,
                 reentered>>

Sti ==
  /\ At("sti", "loop")
  /\ flagIF' = TRUE
  /\ UNCHANGED <<device, irq1, keymap, typedkeys, main, machine, user, pending,
                 reentered>>

(* One key of the copy.  An ordinary key makes a new string of the command *)
(* line, so the loop is inside the heap ("append") before it has it.       *)
\* Mutant: BACKSPACE is appended like a letter.
NotBackspace == {"RETURN", "ESC"}
Special == {"RETURN", "ESC", "BACKSPACE"}

Handled ==
  /\ buf' = Tail(buf)
  /\ pending' = Tail(pending)
  /\ UNCHANGED <<device, irq1, flagIF, keymap, typedkeys, machine, user,
                 reentered>>

HandleSpecial ==
  /\ At("loop", "loop")
  /\ buf # <<>> /\ Head(buf) \in Special
  /\ cmdline' = CASE Head(buf) = "RETURN"    -> <<>>
                  [] Head(buf) = "ESC"       -> cmdline
                  [] Head(buf) = "BACKSPACE" -> IF cmdline = <<>> THEN <<>>
                                                ELSE Front(cmdline)
  /\ Handled

StartAppend ==
  /\ At("loop", "append")
  /\ buf # <<>> /\ Head(buf) \notin Special
  /\ UNCHANGED <<device, irq1, flagIF, keymap, typedkeys, main, machine, user,
                 pending, reentered>>

EndAppend ==
  /\ At("append", "loop")
  /\ cmdline' = Append(cmdline, Head(buf))
  /\ Handled

Hlt ==
  /\ At("loop", "hlt")
  /\ buf = <<>>
  /\ UNCHANGED <<device, irq1, flagIF, keymap, typedkeys, main, machine, user,
                 pending, reentered>>

MainStep == \/ LeaveHeap \/ EnterLoop \/ Cli \/ Copy \/ Clear \/ Sti
            \/ HandleSpecial \/ StartAppend \/ EndAppend \/ Hlt

-----------------------------------------------------------------------------
Init ==
  /\ wire = <<>> /\ ob = <<>> /\ irq1 = FALSE /\ flagIF = TRUE
  /\ keymap = "plain" /\ typedkeys = <<>> /\ buf = <<>> /\ cmdline = <<>>
  /\ pc = "startup" /\ machine = "running" /\ down = {} /\ presses = 0
  /\ pending = <<>> /\ reentered = FALSE

Next ==
  \/ \E k \in UserKeys : Press(k) \/ Release(k)
  \/ Acknowledge
  \/ Fill
  \/ KeyInterrupt
  \/ TimerInterrupt
  \/ MainStep

(* The program goes on; the controller passes codes on; the interrupt      *)
(* controller keeps IRQ1 latched while interrupts are off, so that it is   *)
(* taken if they are on again and again; the timer keeps ticking.  Nobody  *)
(* has to type.                                                            *)
\* Mutant: IRQ0 stays masked.
NoTimer == TRUE
TimerTicks == WF_vars(TimerInterrupt)

Fairness ==
  /\ WF_vars(MainStep)
  /\ WF_vars(Fill)
  /\ SF_vars(KeyInterrupt)
  /\ TimerTicks

Spec == Init /\ [][Next]_vars /\ Fairness

-----------------------------------------------------------------------------
Key == Plain \cup Extended \cup {"NONE"}

(* The queues hold keys, and codes are those a keyboard sends. *)
TypeOK ==
  /\ typedkeys \in Seq(Key) /\ buf \in Seq(Key) /\ pending \in Seq(Key)
  /\ cmdline \in Seq(Key \ {"RETURN", "ESC", "BACKSPACE"})
  /\ ob \in Seq(0 .. 255) /\ Len(ob) <= 1 /\ wire \in Seq(0 .. 255)
  /\ keymap \in {"plain", "extended"}
  /\ pc \in {"startup", "started", "cli", "copy", "clear", "sti", "loop",
             "append", "hlt"}
  /\ machine \in {"running", "break", "reset"}
  /\ down \subseteq UserKeys /\ presses \in 0 .. MaxPresses
  /\ {irq1, flagIF, reentered} \subseteq BOOLEAN

(* The keys in the loop's copy and in the queue are the next keys that     *)
(* were typed: the E0 prefix, the bit of release, the handler that fills   *)
(* the queue and the loop that empties it neither lose, double, swap nor   *)
(* misread one.                                                            *)
KeysInOrder ==
  pc # "clear" => IsPrefix(buf \o typedkeys, pending)

(* Whatever is typed is handled in the end, also a key whose interrupt     *)
(* comes between the sti and the hlt of the loop.                          *)
EveryKeyHandled == []<>(pending = <<>> \/ machine # "running")

(* "Thread-safety: NOT thread-safe unless USE_LOCKS defined"               *)
(* (malloc.c:114), and it is not defined: the handler must not enter the   *)
(* heap while the program it interrupts is inside it.                      *)
HeapNotReentered == ~reentered
=============================================================================
