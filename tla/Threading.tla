------------------------------ MODULE Threading ------------------------------
(***************************************************************************)
(* The preemptive threads of the C++ kernel: the contexts vector and       *)
(* SwitchThread (kernel/threading.cpp), the interrupt nesting count intref *)
(* (kernel/kernel.h) that is to protect the vector, the timer interrupt    *)
(* that preempts (kernel/timer.cpp) and the part of kernel start-up that   *)
(* brings them into being (kernel/kernel.cpp).                             *)
(*                                                                         *)
(* DisableInterrupt() and EnableInterrupt() are "if(intref++==0) cli" and  *)
(* "if(--intref==0) sti" on a volatile int: a load, a store and, last, the *)
(* change of the interrupt flag, each of them a step of the thread here,   *)
(* because the timer may preempt between any two of them.                  *)
(***************************************************************************)
EXTENDS Integers, Sequences

CONSTANTS
  Main,       \* the thread that runs kernel_main
  Workers,    \* the threads that CreateThread may start
  Returning,  \* the workers whose threadmain returns
  NoContext   \* the SwitchContext(0,0) of slot 0 before the first switch

ASSUME ThreadAssumption ==
  /\ Main \notin Workers
  /\ Returning \subseteq Workers
  /\ NoContext \notin Workers \cup {Main}

Thread == Workers \cup {Main}

VARIABLES
  contexts,         \* the vector: the thread whose stack pointer a slot holds
  currentThreadId,  \* index into the vector, from 0
  running,          \* the thread whose stack the CPU is on
  flagIF,           \* the CPU's interrupt flag
  frameIF,          \* the interrupt flag in the frame iretd will restore
  intref,           \* the nesting count of DisableInterrupt
  pc,               \* where each thread is
  reg,              \* the value of intref each thread has loaded
  op,               \* why the thread is in a critical section
  seen,             \* what push_back or erase read when it started
  boot,             \* the stage of kernel start-up
  irq0,             \* IRQ0 is unmasked
  created,          \* the workers pushed on the vector so far
  gone,             \* the workers that disposed of themselves
  overlap           \* history: DisableInterrupt was entered in the middle of another

cpu  == <<running, flagIF, frameIF>>
vec  == <<contexts, currentThreadId>>
proc == <<pc, reg, op, seen>>
hist == <<boot, irq0, created, gone, overlap>>
vars == <<cpu, vec, intref, proc, hist>>

Op == [kind : {"gate", "create", "dispose"}, thread : Thread]
GateOp == [kind |-> "gate", thread |-> Main]

PCs == {"run", "keys", "dload", "dstore", "cli", "enter", "commit",
        "eload", "estore", "sti", "wild"}

\* The stages of start-up: the IDT, the vector, the gate of int 0x80, the
\* first EnableInterrupt, the gate of IRQ0, its mask, the main loop.
LastStage == 6

-----------------------------------------------------------------------------
Goto(t, l) == pc' = [pc EXCEPT ![t] = l]

(* Kernel entry: interrupts are off and intref is already 1. *)
Init ==
  /\ contexts = <<>>  /\ currentThreadId = 0
  /\ running = Main   /\ flagIF = FALSE
  /\ frameIF = [t \in Thread |-> FALSE]
  /\ intref = 1
  /\ pc = [t \in Thread |-> "run"]
  /\ reg = [t \in Thread |-> 0]
  /\ op = [t \in Thread |-> GateOp]
  /\ seen = [t \in Thread |-> <<>>]
  /\ boot = 0 /\ irq0 = FALSE /\ created = {} /\ gone = {} /\ overlap = FALSE

-----------------------------------------------------------------------------
(* SwitchThread, entered on the interrupt frame of the running thread: it  *)
(* saves that thread in the current slot, goes round to the next slot and  *)
(* loads its stack; iretd then restores the flag saved in its frame.       *)
(* A vector with one slot, or none, is left alone.  The running thread may *)
(* be one that has disposed of itself: its stack pointer then goes to the  *)
(* slot that currentThreadId names by now, another thread's.  When there   *)
(* is none at that index, at() ends in abort(), which halts the machine    *)
(* with interrupts off: no step is possible any more.                      *)
\* Mutant: the assignment to contexts->at(currentThreadId) is missing.
NotSaved == contexts
Saved == [contexts EXCEPT ![currentThreadId + 1] = running]

NextId(i) == IF i + 1 >= Len(contexts) THEN 0 ELSE i + 1

SwitchThread ==
  IF Len(contexts) > 1
  THEN /\ currentThreadId < Len(contexts)
       /\ LET id   == NextId(currentThreadId)
              next == Saved[id + 1]
          IN  /\ contexts' = Saved
              /\ currentThreadId' = id
              /\ running' = next
              /\ frameIF' = [frameIF EXCEPT ![running] = flagIF]
              /\ flagIF' = IF next = running THEN flagIF ELSE frameIF[next]
  ELSE UNCHANGED <<vec, cpu>>

(* raw_timer_handler: an interrupt gate, so it runs with interrupts off.   *)
(* It needs the vector SwitchThread dereferences.                          *)
TimerInterrupt ==
  /\ irq0 /\ flagIF
  /\ SwitchThread
  /\ UNCHANGED <<intref, proc, hist>>

(* Reschedule(): int 0x80 from a thread that is in no critical section. *)
Reschedule(t) ==
  /\ running = t /\ pc[t] = "run" /\ boot = LastStage
  /\ SwitchThread
  /\ UNCHANGED <<intref, proc, hist>>

-----------------------------------------------------------------------------
(* DisableInterrupt().  A thread that is preempted between the store and    *)
(* the cli leaves intref at 1 with interrupts on; a second thread that     *)
(* comes here then counts to 2 and never executes the cli.  overlap        *)
(* records that two threads have been here at once.                        *)
Inside(t) == pc[t] \notin {"run", "keys", "wild"}

\* Mutant: cli on the second reference, "if(++intref>1) cli".
SecondReference(old) == old = 1
FirstReference(old) == old = 0

\* Mutant: sti one count too late, "if(intref--==0) sti".
BelowReference(new) == new = -1
LastReference(new) == new = 0

DisableLoad(t) ==
  /\ running = t /\ pc[t] = "dload"
  /\ reg' = [reg EXCEPT ![t] = intref]
  /\ Goto(t, "dstore")
  /\ overlap' = (overlap \/ \E u \in Thread \ {t} : Inside(u))
  /\ UNCHANGED <<cpu, vec, intref, op, seen, boot, irq0, created, gone>>

DisableStore(t) ==
  /\ running = t /\ pc[t] = "dstore"
  /\ intref' = reg[t] + 1
  /\ Goto(t, IF FirstReference(reg[t]) THEN "cli" ELSE "enter")
  /\ UNCHANGED <<cpu, vec, reg, op, seen, hist>>

Cli(t) ==
  /\ running = t /\ pc[t] = "cli"
  /\ flagIF' = FALSE
  /\ Goto(t, "enter")
  /\ UNCHANGED <<running, frameIF, vec, intref, reg, op, seen, hist>>

(* EnableInterrupt() *)
EnableLoad(t) ==
  /\ running = t /\ pc[t] = "eload"
  /\ reg' = [reg EXCEPT ![t] = intref]
  /\ Goto(t, "estore")
  /\ UNCHANGED <<cpu, vec, intref, op, seen, hist>>

(* A thread that has disposed of itself returns to no address at all.  A   *)
(* tick may still come, before that ret and after; the code it runs        *)
(* meanwhile is not followed.                                              *)
AfterEnable(t) == IF t \in gone THEN "wild" ELSE "run"

EnableStore(t) ==
  /\ running = t /\ pc[t] = "estore"
  /\ intref' = reg[t] - 1
  /\ Goto(t, IF LastReference(reg[t] - 1) THEN "sti" ELSE AfterEnable(t))
  /\ UNCHANGED <<cpu, vec, reg, op, seen, hist>>

Sti(t) ==
  /\ running = t /\ pc[t] = "sti"
  /\ flagIF' = TRUE
  /\ Goto(t, AfterEnable(t))
  /\ UNCHANGED <<running, frameIF, vec, intref, reg, op, seen, hist>>

-----------------------------------------------------------------------------
(* The critical sections.  push_back and erase read the vector, work on a  *)
(* copy and store the result: a switch in between would be lost.           *)
Enter(t) ==
  /\ running = t /\ pc[t] = "enter"
  /\ seen' = [seen EXCEPT ![t] = contexts]
  /\ Goto(t, "commit")
  /\ UNCHANGED <<cpu, vec, intref, reg, op, hist>>

\* Mutant: the new context goes to the front of the vector.
AtFront(s, t) == <<t>> \o s
AtBack(s, t) == Append(s, t)

\* Mutant: erases the element after position i.
WithoutNext(s, i) == SubSeq(s, 1, i) \o SubSeq(s, i + 2, Len(s))
Without(s, i) == SubSeq(s, 1, i - 1) \o SubSeq(s, i + 1, Len(s))

SetGate(t) ==
  /\ op[t].kind = "gate"
  /\ UNCHANGED <<contexts, created, gone>>

PushBack(t) ==
  /\ op[t].kind = "create"
  /\ contexts' = AtBack(seen[t], op[t].thread)
  /\ created' = created \cup {op[t].thread}
  /\ UNCHANGED gone

Erase(t) ==
  /\ op[t].kind = "dispose"
  /\ contexts' = Without(seen[t], currentThreadId + 1)
  /\ gone' = gone \cup {t}
  /\ UNCHANGED created

Commit(t) ==
  /\ running = t /\ pc[t] = "commit"
  /\ SetGate(t) \/ PushBack(t) \/ Erase(t)
  /\ Goto(t, "eload")
  /\ UNCHANGED <<cpu, currentThreadId, intref, reg, op, seen, boot, irq0, overlap>>

-----------------------------------------------------------------------------
Begin(t, o) == op' = [op EXCEPT ![t] = o] /\ Goto(t, "dload")

(* CreateThread(w): eflags, with the interrupt flag, goes to the new frame *)
(* before interrupts are disabled.  Its only caller is the thread command, *)
(* which the main loop executes.                                           *)
\* Mutant: the worker threads execute commands too.
AnyCreator(t) == TRUE
Creator(t) == t = Main

\* Mutant: eflags is pushed after interrupts have been disabled.
MaskedFlag == FALSE
CallerFlag == flagIF

CreateThread(w) ==
  /\ Creator(running) /\ pc[running] = "run" /\ boot = LastStage
  /\ w \notin created
  /\ \A t \in Thread : op[t] # [kind |-> "create", thread |-> w]
  /\ frameIF' = [frameIF EXCEPT ![w] = CallerFlag]
  /\ Begin(running, [kind |-> "create", thread |-> w])
  /\ UNCHANGED <<running, flagIF, vec, intref, reg, seen, hist>>

(* threadmain returns into disposeThread. *)
disposeThread(w) ==
  /\ running = w /\ pc[w] = "run" /\ w \in Returning
  /\ Begin(w, [kind |-> "dispose", thread |-> w])
  /\ UNCHANGED <<cpu, vec, intref, reg, seen, hist>>

(* The main loop takes the typed keys between a cli and a sti of its own. *)
TakeKeys ==
  /\ running = Main /\ pc[Main] = "run" /\ boot = LastStage
  /\ flagIF' = FALSE
  /\ Goto(Main, "keys")
  /\ UNCHANGED <<running, frameIF, vec, intref, reg, op, seen, hist>>

KeysTaken ==
  /\ running = Main /\ pc[Main] = "keys"
  /\ flagIF' = TRUE
  /\ Goto(Main, "run")
  /\ UNCHANGED <<running, frameIF, vec, intref, reg, op, seen, hist>>

-----------------------------------------------------------------------------
(* Start-up: each stage starts when the code of the stage before is done. *)
Stage(n) == running = Main /\ pc[Main] = "run" /\ boot = n /\ boot' = n + 1

(* Interrupt::Initialize, the gate of int 0x80 and the gate of IRQ0. *)
RegisterGate ==
  /\ Stage(0) \/ Stage(2) \/ Stage(4)
  /\ Begin(Main, GateOp)
  /\ UNCHANGED <<cpu, vec, intref, reg, seen, irq0, created, gone, overlap>>

(* Threading::Initialize, up to the gate of int 0x80. *)
\* Mutant: it ends with an EnableInterrupt of its own.
InitializeAndEnable ==
  /\ Stage(1)
  /\ contexts' = <<NoContext>>
  /\ Goto(Main, "eload")
  /\ UNCHANGED <<cpu, currentThreadId, intref, reg, op, seen, irq0, created, gone, overlap>>

InitializeThreading ==
  /\ Stage(1)
  /\ contexts' = <<NoContext>>
  /\ UNCHANGED <<cpu, currentThreadId, intref, proc, irq0, created, gone, overlap>>

FirstEnable ==
  /\ Stage(3)
  /\ Goto(Main, "eload")
  /\ UNCHANGED <<cpu, vec, intref, reg, op, seen, irq0, created, gone, overlap>>

UnmaskTimer ==
  /\ Stage(5)
  /\ irq0' = TRUE
  /\ UNCHANGED <<cpu, vec, intref, proc, created, gone, overlap>>

Boot == RegisterGate \/ InitializeThreading \/ FirstEnable \/ UnmaskTimer

-----------------------------------------------------------------------------
(* One step inside DisableInterrupt .. EnableInterrupt. *)
Section(t) ==
  \/ DisableLoad(t) \/ DisableStore(t) \/ Cli(t)
  \/ Enter(t) \/ Commit(t)
  \/ EnableLoad(t) \/ EnableStore(t) \/ Sti(t)

Next ==
  \/ TimerInterrupt
  \/ \E t \in Thread : Section(t) \/ Reschedule(t)
  \/ \E w \in Workers : CreateThread(w) \/ disposeThread(w)
  \/ TakeKeys \/ KeysTaken
  \/ Boot

(* The PIC keeps IRQ0 latched until interrupts are enabled, so a tick that *)
(* is possible again and again is taken; code that has been entered goes   *)
(* on for as long as its thread runs.                                      *)
Fairness ==
  /\ SF_vars(TimerInterrupt)
  /\ \A t \in Thread : WF_vars(Section(t))
  /\ WF_vars(KeysTaken)
  /\ WF_vars(Boot)

Spec == Init /\ [][Next]_vars /\ Fairness
-----------------------------------------------------------------------------
TypeOK ==
  /\ contexts \in Seq(Thread \cup {NoContext})
  /\ currentThreadId \in Nat
  /\ running \in Thread
  /\ flagIF \in BOOLEAN
  /\ frameIF \in [Thread -> BOOLEAN]
  /\ intref \in Int /\ (overlap \/ intref >= 0)
  /\ pc \in [Thread -> PCs]
  /\ reg \in [Thread -> Int]
  /\ op \in [Thread -> Op]
  /\ seen \in [Thread -> Seq(Thread \cup {NoContext})]
  /\ boot \in 0 .. LastStage
  /\ irq0 \in BOOLEAN
  /\ created \subseteq Workers
  /\ gone \subseteq created
  /\ overlap \in BOOLEAN

Critical == {"enter", "commit", "eload", "estore"}

(* A thread that is between the end of DisableInterrupt and the last step  *)
(* of EnableInterrupt runs with interrupts off and is the running thread,  *)
(* so that nothing can preempt it and no other thread can be there too:    *)
(* what DisableInterrupt in kernel.h is for.  It is so until two threads   *)
(* are inside DisableInterrupt .. EnableInterrupt at once, and only then:  *)
(* a count that is taken before the flag is cleared cannot do better.      *)
CriticalSectionsExclude ==
  ~overlap => \A t \in Thread : pc[t] \in Critical => running = t /\ ~flagIF

(* intref is the number of sections that are open: once start-up has given *)
(* back the reference it began with, a thread that is outside every        *)
(* section runs with interrupts on, and when every thread is outside the   *)
(* count is 0.                                                             *)
InterruptsComeBack ==
  (~overlap /\ boot > 3 /\ pc[running] = "run") =>
    /\ flagIF
    /\ (\A t \in Thread : ~Inside(t)) => intref = 0

(* The thread whose context a slot stands for: the current slot is stale   *)
(* until the next switch writes it, and stands for the running thread.     *)
Owner ==
  [i \in 1 .. Len(contexts) |->
     IF i = currentThreadId + 1 THEN running ELSE contexts[i]]
Live == (created \cup {Main}) \ gone

(* No context is resumed twice and slot 0 is never resumed before it has   *)
(* been saved, whatever the order of switches, creations and disposals;    *)
(* and until a thread disposes of itself, every live thread has exactly    *)
(* one slot of the vector.                                                 *)
OneSlotPerThread ==
  (~overlap /\ boot > 1) =>
    /\ \A i, j \in DOMAIN Owner : Owner[i] = Owner[j] => i = j
    /\ \A i \in DOMAIN Owner : Owner[i] \in created \cup {Main}
    /\ gone = {} => /\ currentThreadId < Len(contexts)
                   /\ {Owner[i] : i \in DOMAIN Owner} = Live

(* The contexts that are kept: on the CPU or in the vector. *)
Held == {running} \cup {contexts[i] : i \in DOMAIN contexts}

(* No step loses the context of a live thread, erase and push_back         *)
(* included, but one: a tick that finds a thread running that has disposed *)
(* of itself saves it in the slot currentThreadId names since the erase,   *)
(* and that slot's thread, no other, is lost.                              *)
ContextsSurvive ==
  [][(~overlap' /\ boot > 1) =>
       \A t \in (Live' \cap Held) \ Held' :
          running \in gone /\ t = contexts[currentThreadId + 1]]_vars

(* The only client of DisableInterrupt, once it is the main loop alone that *)
(* creates threads and no threadmain returns, is the main thread.          *)
NeverOverlaps == ~overlap

(* Every thread that has been created gets the CPU, again and again, for   *)
(* as long as the timer ticks: creating it with interrupts off, or losing  *)
(* the re-enabling of interrupts, would stop the rotation.                 *)
EveryThreadRuns ==
  \A t \in Workers \cup {Main} :
    (t = Main \/ t \in created) ~> (running = t)

(* What the rotation promises to its clients (RoundRobin): the threads     *)
(* that wait are the owners of the slots after the current one, then of    *)
(* the slots before it.                                                    *)
Waiting ==
  IF contexts = <<>> THEN <<>>
  ELSE SubSeq(contexts, currentThreadId + 2, Len(contexts))
         \o SubSeq(contexts, 1, currentThreadId)
Rotation == INSTANCE RoundRobin WITH queue <- Waiting
RefinesRoundRobin == Rotation!Spec
=============================================================================
