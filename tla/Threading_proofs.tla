--------------------------- MODULE Threading_proofs ---------------------------
(***************************************************************************)
(* Theorems about Threading for any set of workers.                        *)
(*                                                                         *)
(* The first part holds whichever threads return from their threadmain and *)
(* dispose of themselves, until two threads are inside DisableInterrupt .. *)
(* EnableInterrupt at once.  The second is about the kernel as it is: the  *)
(* one command that creates threads gives them a threadmain that never     *)
(* returns (kernel/commands.cpp), hence the assumption NoReturn.  Then no  *)
(* two threads are ever inside, and the vector of contexts with the index  *)
(* into it implements the queue of module RoundRobin: a switch takes the   *)
(* thread that has waited longest, a new thread joins the queue, and       *)
(* nothing else moves it.                                                  *)
(***************************************************************************)
EXTENDS Threading, SequenceTheorems, TLAPS

(* The steps of a thread that intref counts, those with interrupts off,    *)
(* and those behind the load that DisableInterrupt begins with.            *)
Counted == {"cli", "enter", "commit", "eload", "estore"}
Masked  == {"enter", "commit", "eload", "estore", "sti", "keys"}
Past    == {"dstore", "cli", "enter", "commit", "eload", "estore", "sti"}

(* One thread at a time is past its load; others may stand before it.      *)
PastInv ==
  /\ \A t, u \in Thread : pc[t] \in Past /\ pc[u] \in Past => t = u
  /\ \A w \in Workers : pc[w] # "keys"
  /\ pc[Main] # "wild"

(* intref is the reference start-up holds plus the one of the section that *)
(* is open.                                                                *)
Open == IF \E t \in Thread : pc[t] \in Counted THEN 1 ELSE 0
CountInv ==
  /\ intref = (IF boot <= 3 THEN 1 ELSE 0) + Open
  /\ \A t \in Thread : pc[t] \in {"dstore", "estore"} => reg[t] = intref
  /\ boot <= 3 => \A t \in Thread : pc[t] \notin {"cli", "sti", "keys"}

(* Where the interrupt flag is off: a thread is never switched away there. *)
FlagInv ==
  /\ boot <= 3 => ~flagIF
  /\ boot > 3 => (flagIF <=> pc[running] \notin Masked)
  /\ \A t \in Thread : t # running => pc[t] \notin Masked
  /\ \A t \in created \cup {Main} : t # running => frameIF[t]

(* What start-up has not reached, and who has run.                         *)
BootInv ==
  /\ boot < LastStage => /\ running = Main /\ created = {}
                         /\ op[Main] = GateOp /\ pc[Main] # "keys"
  /\ irq0 => boot = LastStage
  /\ running \in created \cup {Main}
  /\ \A w \in Workers \ created : pc[w] = "run"

(* A thread that has disposed of itself never gets out of EnableInterrupt. *)
GoneInv == \A t \in gone : pc[t] \in {"eload", "estore", "sti", "wild"}

(* What a thread that is in a section is about to do.                      *)
SectionInv ==
  /\ op[Main].kind # "dispose"
  /\ \A w \in Workers : pc[w] # "run" => op[w].kind = "dispose"
  /\ \A t \in Thread : pc[t] = "commit" => seen[t] = contexts
  /\ (op[Main].kind = "create" /\ pc[Main] \in {"dload", "dstore", "cli", "enter", "commit"})
       => op[Main].thread \in Workers \ created /\ frameIF[op[Main].thread]

(* The current slot is that of the running thread, unless it has disposed  *)
(* of itself; every other slot holds the context of a thread of its own,   *)
(* and until a thread disposes of itself no thread is without a slot.      *)
CurrentSlot ==
  /\ currentThreadId < Len(contexts)
  /\ contexts[currentThreadId + 1] \in {running, NoContext}
SlotInv ==
  /\ boot <= 1 => contexts = <<>> /\ currentThreadId = 0
  /\ boot > 1 =>
       /\ running \notin gone => CurrentSlot
       /\ \A i \in DOMAIN Owner : Owner[i] \in created \cup {Main}
       /\ \A i, j \in DOMAIN Owner : Owner[i] = Owner[j] => i = j
       /\ gone = {} => \A t \in created \cup {Main} : \E i \in DOMAIN Owner : Owner[i] = t

IInv == TypeOK /\ PastInv /\ CountInv /\ FlagInv /\ BootInv /\ GoneInv /\ SectionInv /\ SlotInv

-----------------------------------------------------------------------------
(* A switch loads the context of another slot's thread and changes the     *)
(* owner of no slot, even when it saves a thread that has disposed of      *)
(* itself: currentThreadId is in range, or at() would not have returned.   *)
LEMMA SwitchKeepsOwners ==
  ASSUME IInv, boot = LastStage, flagIF, SwitchThread
  PROVE  /\ contexts' \in Seq(Thread \cup {NoContext})
         /\ currentThreadId' \in Nat
         /\ running' \in created \cup {Main}
         /\ flagIF'
         /\ frameIF' \in [Thread -> BOOLEAN]
         /\ \A t \in Thread : frameIF[t] => frameIF'[t]
         /\ \A t \in created \cup {Main} : t # running' => frameIF'[t]
         /\ running' \notin gone => CurrentSlot'
         /\ Owner' = Owner
<1> USE ThreadAssumption
<1>0. TypeOK
  BY DEF IInv
<1>1. /\ running \in created \cup {Main}
      /\ running \notin gone => CurrentSlot
      /\ \A i \in DOMAIN Owner : Owner[i] \in created \cup {Main}
  BY DEF IInv, SlotInv, BootInv, LastStage
<1>2. created \cup {Main} \subseteq Thread
  BY <1>0 DEF Thread, TypeOK
<1>3. \A t \in created \cup {Main} : t # running => frameIF[t]
  BY DEF IInv, FlagInv
<1>4. CASE Len(contexts) > 1
  <2> DEFINE c == currentThreadId + 1
             n == NextId(currentThreadId) + 1
  <2>0. NextId(currentThreadId) \in Nat
    BY <1>0 DEF NextId, TypeOK
  <2>1. c \in 1 .. Len(contexts) /\ n \in 1 .. Len(contexts) /\ n # c
    BY <1>0, <1>4 DEF SwitchThread, NextId, TypeOK
  <2>2. /\ Saved \in Seq(Thread \cup {NoContext})
        /\ Len(Saved) = Len(contexts)
        /\ \A i \in 1 .. Len(contexts) : Saved[i] = Owner[i]
    BY <1>0, <2>1 DEF Saved, Owner, TypeOK
  <2>3. /\ contexts' = Saved
        /\ currentThreadId' = NextId(currentThreadId)
        /\ running' = Saved[n]
        /\ frameIF' = [frameIF EXCEPT ![running] = flagIF]
        /\ flagIF' = IF Saved[n] = running THEN flagIF ELSE frameIF[Saved[n]]
    BY <1>4, Zenon DEF SwitchThread
  <2>d. DOMAIN Owner = 1 .. Len(contexts)
    BY DEF Owner
  <2>4. running' = Owner[n] /\ running' \in created \cup {Main}
    BY <1>1, <2>d, <2>1, <2>2, <2>3
  <2>5. flagIF'
    BY <1>3, <2>3, <2>4
  <2>6. /\ frameIF' \in [Thread -> BOOLEAN]
        /\ \A t \in Thread : frameIF[t] => frameIF'[t]
        /\ \A t \in created \cup {Main} : frameIF'[t]
    BY <1>0, <1>1, <1>2, <1>3, <2>3 DEF TypeOK
  <2>7. Owner' = Owner
    <3>1. Owner' = [i \in 1 .. Len(contexts') |->
                      IF i = currentThreadId' + 1 THEN running' ELSE contexts'[i]]
      BY DEF Owner
    <3>2. Len(contexts') = Len(contexts) /\ currentThreadId' + 1 = n
      BY <2>0, <2>2, <2>3
    <3>3. Owner' = [i \in 1 .. Len(contexts) |-> Owner[i]]
      BY <2>2, <2>3, <2>4, <3>1, <3>2
    <3> QED
      BY <3>3 DEF Owner
  <2>8. currentThreadId' \in Nat /\ CurrentSlot'
    BY <2>0, <2>1, <2>2, <2>3 DEF CurrentSlot
  <2> QED
    BY <2>2, <2>3, <2>4, <2>5, <2>6, <2>7, <2>8
<1>5. CASE ~(Len(contexts) > 1)
  <2>1. UNCHANGED <<vec, cpu>>
    BY <1>5 DEF SwitchThread
  <2> QED
    BY <2>1, <1>0, <1>1, <1>2, <1>3 DEF vec, cpu, Owner, TypeOK, CurrentSlot
<1> QED
  BY <1>4, <1>5
LEMMA InitInv == Init => IInv
<1> SUFFICES ASSUME Init PROVE IInv
  OBVIOUS
<1> USE ThreadAssumption DEF Init
<1>1. TypeOK
  <2>1. GateOp \in Op /\ Main \in Thread
    BY DEF GateOp, Op, Thread
  <2>2. <<>> \in Seq(Thread \cup {NoContext})
    OBVIOUS
  <2>3. /\ contexts \in Seq(Thread \cup {NoContext})
        /\ op \in [Thread -> Op] /\ seen \in [Thread -> Seq(Thread \cup {NoContext})]
        /\ running \in Thread /\ frameIF \in [Thread -> BOOLEAN]
        /\ pc \in [Thread -> PCs]
    BY <2>1, <2>2 DEF PCs
  <2>4. flagIF \in BOOLEAN /\ irq0 \in BOOLEAN /\ overlap \in BOOLEAN
    BY Zenon
  <2>5. reg \in [Thread -> Int] /\ created \subseteq Workers /\ gone \subseteq created
    OBVIOUS
  <2>6. currentThreadId \in Nat /\ intref \in Int /\ intref >= 0 /\ boot \in 0 .. LastStage
    BY DEF LastStage
  <2> QED
    BY <2>3, <2>4, <2>5, <2>6, Zenon DEF TypeOK
<1>2. PastInv /\ CountInv /\ SlotInv /\ GoneInv
  BY DEF PastInv, Past, CountInv, Open, SlotInv, GoneInv, Thread, Counted
<1>3. FlagInv /\ BootInv /\ SectionInv
  BY DEF FlagInv, BootInv, SectionInv, Thread, Masked, GateOp, LastStage
<1> QED
  BY <1>1, <1>2, <1>3 DEF IInv

-----------------------------------------------------------------------------
(* A switch keeps the invariant: it is taken with interrupts on, and no    *)
(* thread is switched away in a masked step.                               *)
LEMMA SwitchKeepsInv ==
  ASSUME IInv, boot = LastStage, flagIF, SwitchThread,
         UNCHANGED <<intref, proc, hist>>
  PROVE  IInv'
<1> USE ThreadAssumption
<1>0. TypeOK /\ PastInv /\ CountInv /\ FlagInv /\ BootInv /\ GoneInv /\ SectionInv /\ SlotInv
  BY DEF IInv
<1>1. UNCHANGED <<intref, pc, reg, op, seen, boot, irq0, created, gone, overlap>>
  BY DEF proc, hist
<1>2. \A t \in Thread : pc[t] # "commit" /\ pc[t] \notin Masked
  BY <1>0 DEF FlagInv, Masked, LastStage
<1>3. created \cup {Main} \subseteq Thread
  BY <1>0 DEF Thread, TypeOK
<1>4. /\ contexts' \in Seq(Thread \cup {NoContext})
      /\ currentThreadId' \in Nat
      /\ running' \in created \cup {Main}
      /\ flagIF'
      /\ frameIF' \in [Thread -> BOOLEAN]
      /\ \A t \in Thread : frameIF[t] => frameIF'[t]
      /\ \A t \in created \cup {Main} : t # running' => frameIF'[t]
      /\ running' \notin gone => CurrentSlot'
      /\ Owner' = Owner
  BY SwitchKeepsOwners
<1>5. TypeOK'
  <2>1. running' \in Thread /\ flagIF' \in BOOLEAN
    BY <1>3, <1>4
  <2> QED
    BY <2>1, <1>0, <1>1, <1>4 DEF TypeOK
<1>6. PastInv' /\ CountInv' /\ GoneInv'
  BY <1>0, <1>1 DEF PastInv, CountInv, Open, GoneInv
<1>7. FlagInv'
  BY <1>1, <1>2, <1>3, <1>4 DEF FlagInv, LastStage
<1>8. BootInv'
  BY <1>0, <1>1, <1>4 DEF BootInv, LastStage
<1>9. SectionInv'
  <2>1. op[Main].thread \in Workers \ created => op[Main].thread \in Thread
    BY DEF Thread
  <2> QED
    BY <2>1, <1>0, <1>1, <1>2, <1>4 DEF SectionInv
<1>10. SlotInv'
  BY <1>0, <1>1, <1>4 DEF SlotInv, LastStage
<1> QED
  BY <1>5, <1>6, <1>7, <1>8, <1>9, <1>10 DEF IInv

-----------------------------------------------------------------------------
(* The steps of a section.                                                 *)

(* What each of them keeps, and that the thread which takes it is the only *)
(* one past its load.                                                      *)
Stays == UNCHANGED <<running, contexts, currentThreadId, boot, irq0, created, gone>>
Moves(t, l) ==
  /\ running = t /\ pc' = [pc EXCEPT ![t] = l]
  /\ \A u \in Thread \ {t} : pc[u] \notin Past

LEMMA DisableLoadKeeps ==
  ASSUME IInv, NEW t \in Thread, DisableLoad(t), ~overlap'
  PROVE  IInv'
<1> USE ThreadAssumption
<1>0. TypeOK /\ PastInv /\ CountInv /\ FlagInv /\ BootInv /\ GoneInv /\ SectionInv /\ SlotInv
  BY DEF IInv
<1> DEFINE l == "dstore"
<1>1. /\ running = t /\ pc[t] = "dload" /\ pc' = [pc EXCEPT ![t] = l]
      /\ reg' = [reg EXCEPT ![t] = intref]
      /\ Stays /\ UNCHANGED <<frameIF, flagIF, intref, op, seen>>
  BY DEF DisableLoad, Goto, Stays, cpu, vec, hist
<1>2. overlap' \in BOOLEAN /\ \A u \in Thread \ {t} : pc[u] \notin Past
  BY <1>0 DEF DisableLoad, Inside, Past, TypeOK
<1>3. l = "dstore"
  OBVIOUS
<1>4. Open = 0
  BY <1>0, <1>1, <1>2 DEF Open, Counted, Past
<1> HIDE DEF l
<1>5. pc'[t] = l /\ \A u \in Thread \ {t} : pc'[u] = pc[u]
  BY <1>0, <1>1 DEF TypeOK
<1>6. Open' = 0
  BY <1>2, <1>3, <1>5 DEF Open, Counted, Past
<1>7. TypeOK'
  BY <1>0, <1>1, <1>2, <1>3, <1>4 DEF TypeOK, Stays, PCs, CountInv
<1>8. PastInv'
  BY <1>0, <1>1, <1>2, <1>3, <1>5 DEF PastInv, Past, TypeOK, Thread
<1>9. CountInv'
  BY <1>0, <1>1, <1>2, <1>3, <1>4, <1>5, <1>6 DEF CountInv, Past, TypeOK, Stays
<1>10. FlagInv'
  BY <1>0, <1>1, <1>3, <1>4, <1>5 DEF FlagInv, Masked, TypeOK, Stays, Thread, CountInv
<1>11. BootInv'
  BY <1>0, <1>1, <1>3, <1>5 DEF BootInv, Stays, Thread, TypeOK
<1>12. GoneInv'
  BY <1>0, <1>1, <1>3, <1>4, <1>5 DEF GoneInv, BootInv, Stays, TypeOK, LastStage, Thread
<1>13. SectionInv'
  BY <1>0, <1>1, <1>3, <1>5 DEF SectionInv, Stays, Thread, TypeOK
<1>14. SlotInv'
  BY <1>0, <1>1 DEF SlotInv, CurrentSlot, Owner, Stays
<1> QED
  BY <1>7, <1>8, <1>9, <1>10, <1>11, <1>12, <1>13, <1>14 DEF IInv

LEMMA DisableStoreKeeps ==
  ASSUME IInv, NEW t \in Thread, DisableStore(t)
  PROVE  IInv'
<1> USE ThreadAssumption
<1>0. TypeOK /\ PastInv /\ CountInv /\ FlagInv /\ BootInv /\ GoneInv /\ SectionInv /\ SlotInv
  BY DEF IInv
<1> DEFINE l == IF reg[t] = 0 THEN "cli" ELSE "enter"
<1>1. /\ running = t /\ pc[t] = "dstore" /\ pc' = [pc EXCEPT ![t] = l]
      /\ intref' = reg[t] + 1
      /\ Stays /\ UNCHANGED <<frameIF, flagIF, reg, op, seen>>
  BY DEF DisableStore, Goto, Stays, cpu, vec, hist, FirstReference
<1>2. overlap' \in BOOLEAN /\ (overlap' => overlap) /\ \A u \in Thread \ {t} : pc[u] \notin Past
  BY <1>0, <1>1 DEF DisableStore, PastInv, Past, TypeOK, hist
<1>3. l \in {"cli", "enter"}
  OBVIOUS
<1>4. Open = 0 /\ reg[t] = intref /\ (boot > 3 => l = "cli") /\ (boot <= 3 => l = "enter")
  BY <1>0, <1>1, <1>2 DEF CountInv, Open, Counted, Past, TypeOK
<1> HIDE DEF l
<1>5. pc'[t] = l /\ \A u \in Thread \ {t} : pc'[u] = pc[u]
  BY <1>0, <1>1 DEF TypeOK
<1>6. Open' = 1
  BY <1>2, <1>3, <1>5 DEF Open, Counted, Past
<1>7. TypeOK'
  BY <1>0, <1>1, <1>2, <1>3, <1>4 DEF TypeOK, Stays, PCs, CountInv
<1>8. PastInv'
  BY <1>0, <1>1, <1>2, <1>3, <1>5 DEF PastInv, Past, TypeOK, Thread
<1>9. CountInv'
  BY <1>0, <1>1, <1>2, <1>3, <1>4, <1>5, <1>6 DEF CountInv, Past, TypeOK, Stays
<1>10. FlagInv'
  BY <1>0, <1>1, <1>3, <1>4, <1>5 DEF FlagInv, Masked, TypeOK, Stays, Thread, CountInv
<1>11. BootInv'
  BY <1>0, <1>1, <1>3, <1>5 DEF BootInv, Stays, Thread, TypeOK
<1>12. GoneInv'
  BY <1>0, <1>1, <1>3, <1>4, <1>5 DEF GoneInv, BootInv, Stays, TypeOK, LastStage, Thread
<1>13. SectionInv'
  BY <1>0, <1>1, <1>3, <1>5 DEF SectionInv, Stays, Thread, TypeOK
<1>14. SlotInv'
  BY <1>0, <1>1 DEF SlotInv, CurrentSlot, Owner, Stays
<1> QED
  BY <1>7, <1>8, <1>9, <1>10, <1>11, <1>12, <1>13, <1>14 DEF IInv

LEMMA CliKeeps ==
  ASSUME IInv, NEW t \in Thread, Cli(t)
  PROVE  IInv'
<1> USE ThreadAssumption
<1>0. TypeOK /\ PastInv /\ CountInv /\ FlagInv /\ BootInv /\ GoneInv /\ SectionInv /\ SlotInv
  BY DEF IInv
<1> DEFINE l == "enter"
<1>1. /\ running = t /\ pc[t] = "cli" /\ pc' = [pc EXCEPT ![t] = l]
      /\ flagIF' = FALSE
      /\ Stays /\ UNCHANGED <<frameIF, intref, reg, op, seen>>
  BY DEF Cli, Goto, Stays, cpu, vec, hist
<1>2. overlap' \in BOOLEAN /\ (overlap' => overlap) /\ \A u \in Thread \ {t} : pc[u] \notin Past
  BY <1>0, <1>1 DEF Cli, PastInv, Past, TypeOK, hist
<1>3. l = "enter"
  OBVIOUS
<1>4. Open = 1
  BY <1>1 DEF Open, Counted
<1>b. flagIF' \in BOOLEAN
  BY <1>1, Zenon
<1> HIDE DEF l
<1>5. pc'[t] = l /\ \A u \in Thread \ {t} : pc'[u] = pc[u]
  BY <1>0, <1>1 DEF TypeOK
<1>6. Open' = 1
  BY <1>2, <1>3, <1>5 DEF Open, Counted, Past
<1>7. TypeOK'
  BY <1>0, <1>1, <1>2, <1>3, <1>4, <1>b DEF TypeOK, Stays, PCs, CountInv
<1>8. PastInv'
  BY <1>0, <1>1, <1>2, <1>3, <1>5 DEF PastInv, Past, TypeOK, Thread
<1>9. CountInv'
  BY <1>0, <1>1, <1>2, <1>3, <1>4, <1>5, <1>6 DEF CountInv, Past, TypeOK, Stays
<1>10. FlagInv'
  BY <1>0, <1>1, <1>3, <1>4, <1>5 DEF FlagInv, Masked, TypeOK, Stays, Thread, CountInv
<1>11. BootInv'
  BY <1>0, <1>1, <1>3, <1>5 DEF BootInv, Stays, Thread, TypeOK
<1>12. GoneInv'
  BY <1>0, <1>1, <1>3, <1>4, <1>5 DEF GoneInv, BootInv, Stays, TypeOK, LastStage, Thread
<1>13. SectionInv'
  BY <1>0, <1>1, <1>3, <1>5 DEF SectionInv, Stays, Thread, TypeOK
<1>14. SlotInv'
  BY <1>0, <1>1 DEF SlotInv, CurrentSlot, Owner, Stays
<1> QED
  BY <1>7, <1>8, <1>9, <1>10, <1>11, <1>12, <1>13, <1>14 DEF IInv

LEMMA EnterKeeps ==
  ASSUME IInv, NEW t \in Thread, Enter(t)
  PROVE  IInv'
<1> USE ThreadAssumption
<1>0. TypeOK /\ PastInv /\ CountInv /\ FlagInv /\ BootInv /\ GoneInv /\ SectionInv /\ SlotInv
  BY DEF IInv
<1> DEFINE l == "commit"
<1>1. /\ running = t /\ pc[t] = "enter" /\ pc' = [pc EXCEPT ![t] = l]
      /\ seen' = [seen EXCEPT ![t] = contexts]
      /\ Stays /\ UNCHANGED <<frameIF, flagIF, intref, reg, op>>
  BY DEF Enter, Goto, Stays, cpu, vec, hist
<1>2. overlap' \in BOOLEAN /\ (overlap' => overlap) /\ \A u \in Thread \ {t} : pc[u] \notin Past
  BY <1>0, <1>1 DEF Enter, PastInv, Past, TypeOK, hist
<1>3. l = "commit"
  OBVIOUS
<1>4. Open = 1
  BY <1>1 DEF Open, Counted
<1> HIDE DEF l
<1>5. pc'[t] = l /\ \A u \in Thread \ {t} : pc'[u] = pc[u]
  BY <1>0, <1>1 DEF TypeOK
<1>6. Open' = 1
  BY <1>2, <1>3, <1>5 DEF Open, Counted, Past
<1>7. TypeOK'
  BY <1>0, <1>1, <1>2, <1>3, <1>4 DEF TypeOK, Stays, PCs, CountInv
<1>8. PastInv'
  BY <1>0, <1>1, <1>2, <1>3, <1>5 DEF PastInv, Past, TypeOK, Thread
<1>9. CountInv'
  BY <1>0, <1>1, <1>2, <1>3, <1>4, <1>5, <1>6 DEF CountInv, Past, TypeOK, Stays
<1>10. FlagInv'
  BY <1>0, <1>1, <1>3, <1>4, <1>5 DEF FlagInv, Masked, TypeOK, Stays, Thread, CountInv
<1>11. BootInv'
  BY <1>0, <1>1, <1>3, <1>5 DEF BootInv, Stays, Thread, TypeOK
<1>12. GoneInv'
  BY <1>0, <1>1, <1>3, <1>4, <1>5 DEF GoneInv, BootInv, Stays, TypeOK, LastStage, Thread
<1>13. SectionInv'
  BY <1>0, <1>1, <1>3, <1>5 DEF SectionInv, Stays, Thread, TypeOK
<1>14. SlotInv'
  BY <1>0, <1>1 DEF SlotInv, CurrentSlot, Owner, Stays
<1> QED
  BY <1>7, <1>8, <1>9, <1>10, <1>11, <1>12, <1>13, <1>14 DEF IInv

LEMMA EnableLoadKeeps ==
  ASSUME IInv, NEW t \in Thread, EnableLoad(t)
  PROVE  IInv'
<1> USE ThreadAssumption
<1>0. TypeOK /\ PastInv /\ CountInv /\ FlagInv /\ BootInv /\ GoneInv /\ SectionInv /\ SlotInv
  BY DEF IInv
<1> DEFINE l == "estore"
<1>1. /\ running = t /\ pc[t] = "eload" /\ pc' = [pc EXCEPT ![t] = l]
      /\ reg' = [reg EXCEPT ![t] = intref]
      /\ Stays /\ UNCHANGED <<frameIF, flagIF, intref, op, seen>>
  BY DEF EnableLoad, Goto, Stays, cpu, vec, hist
<1>2. overlap' \in BOOLEAN /\ (overlap' => overlap) /\ \A u \in Thread \ {t} : pc[u] \notin Past
  BY <1>0, <1>1 DEF EnableLoad, PastInv, Past, TypeOK, hist
<1>3. l = "estore"
  OBVIOUS
<1>4. Open = 1
  BY <1>1 DEF Open, Counted
<1> HIDE DEF l
<1>5. pc'[t] = l /\ \A u \in Thread \ {t} : pc'[u] = pc[u]
  BY <1>0, <1>1 DEF TypeOK
<1>6. Open' = 1
  BY <1>2, <1>3, <1>5 DEF Open, Counted, Past
<1>7. TypeOK'
  BY <1>0, <1>1, <1>2, <1>3, <1>4 DEF TypeOK, Stays, PCs, CountInv
<1>8. PastInv'
  BY <1>0, <1>1, <1>2, <1>3, <1>5 DEF PastInv, Past, TypeOK, Thread
<1>9. CountInv'
  BY <1>0, <1>1, <1>2, <1>3, <1>4, <1>5, <1>6 DEF CountInv, Past, TypeOK, Stays
<1>10. FlagInv'
  BY <1>0, <1>1, <1>3, <1>4, <1>5 DEF FlagInv, Masked, TypeOK, Stays, Thread, CountInv
<1>11. BootInv'
  BY <1>0, <1>1, <1>3, <1>5 DEF BootInv, Stays, Thread, TypeOK
<1>12. GoneInv'
  BY <1>0, <1>1, <1>3, <1>4, <1>5 DEF GoneInv, BootInv, Stays, TypeOK, LastStage, Thread
<1>13. SectionInv'
  BY <1>0, <1>1, <1>3, <1>5 DEF SectionInv, Stays, Thread, TypeOK
<1>14. SlotInv'
  BY <1>0, <1>1 DEF SlotInv, CurrentSlot, Owner, Stays
<1> QED
  BY <1>7, <1>8, <1>9, <1>10, <1>11, <1>12, <1>13, <1>14 DEF IInv

LEMMA EnableStoreKeeps ==
  ASSUME IInv, NEW t \in Thread, EnableStore(t)
  PROVE  IInv'
<1> USE ThreadAssumption
<1>0. TypeOK /\ PastInv /\ CountInv /\ FlagInv /\ BootInv /\ GoneInv /\ SectionInv /\ SlotInv
  BY DEF IInv
<1> DEFINE l == IF reg[t] - 1 = 0 THEN "sti" ELSE AfterEnable(t)
<1>1. /\ running = t /\ pc[t] = "estore" /\ pc' = [pc EXCEPT ![t] = l]
      /\ intref' = reg[t] - 1
      /\ Stays /\ UNCHANGED <<frameIF, flagIF, reg, op, seen>>
  BY DEF EnableStore, Goto, Stays, cpu, vec, hist, LastReference
<1>2. overlap' \in BOOLEAN /\ (overlap' => overlap) /\ \A u \in Thread \ {t} : pc[u] \notin Past
  BY <1>0, <1>1 DEF EnableStore, PastInv, Past, TypeOK, hist
<1>3. l \in {"sti", "run", "wild"} /\ (l = "wild" <=> l # "sti" /\ t \in gone)
  BY DEF AfterEnable
<1>4. Open = 1 /\ reg[t] = intref /\ (boot > 3 => l = "sti") /\ (boot <= 3 => l = "run")
  BY <1>0, <1>1 DEF CountInv, Open, Counted, AfterEnable, BootInv, TypeOK, LastStage
<1> HIDE DEF l
<1>5. pc'[t] = l /\ \A u \in Thread \ {t} : pc'[u] = pc[u]
  BY <1>0, <1>1 DEF TypeOK
<1>6. Open' = 0
  BY <1>2, <1>3, <1>5 DEF Open, Counted, Past
<1>7. TypeOK'
  BY <1>0, <1>1, <1>2, <1>3, <1>4 DEF TypeOK, Stays, PCs, CountInv
<1>8. PastInv'
  BY <1>0, <1>1, <1>2, <1>3, <1>5 DEF PastInv, Past, TypeOK, Thread
<1>9. CountInv'
  BY <1>0, <1>1, <1>2, <1>3, <1>4, <1>5, <1>6 DEF CountInv, Past, TypeOK, Stays
<1>10. FlagInv'
  BY <1>0, <1>1, <1>3, <1>4, <1>5 DEF FlagInv, Masked, TypeOK, Stays, Thread, CountInv
<1>11. BootInv'
  BY <1>0, <1>1, <1>3, <1>5 DEF BootInv, Stays, Thread, TypeOK
<1>12. GoneInv'
  BY <1>0, <1>1, <1>3, <1>4, <1>5 DEF GoneInv, BootInv, Stays, TypeOK, LastStage, Thread
<1>13. SectionInv'
  BY <1>0, <1>1, <1>3, <1>5 DEF SectionInv, Stays, Thread, TypeOK
<1>14. SlotInv'
  BY <1>0, <1>1 DEF SlotInv, CurrentSlot, Owner, Stays
<1> QED
  BY <1>7, <1>8, <1>9, <1>10, <1>11, <1>12, <1>13, <1>14 DEF IInv

LEMMA StiKeeps ==
  ASSUME IInv, NEW t \in Thread, Sti(t)
  PROVE  IInv'
<1> USE ThreadAssumption
<1>0. TypeOK /\ PastInv /\ CountInv /\ FlagInv /\ BootInv /\ GoneInv /\ SectionInv /\ SlotInv
  BY DEF IInv
<1> DEFINE l == AfterEnable(t)
<1>1. /\ running = t /\ pc[t] = "sti" /\ pc' = [pc EXCEPT ![t] = l]
      /\ flagIF' = TRUE
      /\ Stays /\ UNCHANGED <<frameIF, intref, reg, op, seen>>
  BY DEF Sti, Goto, Stays, cpu, vec, hist
<1>2. overlap' \in BOOLEAN /\ (overlap' => overlap) /\ \A u \in Thread \ {t} : pc[u] \notin Past
  BY <1>0, <1>1 DEF Sti, PastInv, Past, TypeOK, hist
<1>3. l \in {"run", "wild"} /\ (l = "wild" <=> t \in gone)
  BY DEF AfterEnable
<1>4. Open = 0 /\ boot > 3
  BY <1>0, <1>1, <1>2 DEF CountInv, Open, Counted, Past, TypeOK
<1>b. flagIF' \in BOOLEAN
  BY <1>1, Zenon
<1> HIDE DEF l
<1>5. pc'[t] = l /\ \A u \in Thread \ {t} : pc'[u] = pc[u]
  BY <1>0, <1>1 DEF TypeOK
<1>6. Open' = 0
  BY <1>2, <1>3, <1>5 DEF Open, Counted, Past
<1>7. TypeOK'
  BY <1>0, <1>1, <1>2, <1>3, <1>4, <1>b DEF TypeOK, Stays, PCs, CountInv
<1>8. PastInv'
  BY <1>0, <1>1, <1>2, <1>3, <1>5 DEF PastInv, Past, TypeOK, Thread
<1>9. CountInv'
  BY <1>0, <1>1, <1>2, <1>3, <1>4, <1>5, <1>6 DEF CountInv, Past, TypeOK, Stays
<1>10. FlagInv'
  BY <1>0, <1>1, <1>3, <1>4, <1>5 DEF FlagInv, Masked, TypeOK, Stays, Thread, CountInv
<1>11. BootInv'
  BY <1>0, <1>1, <1>3, <1>5 DEF BootInv, Stays, Thread, TypeOK
<1>12. GoneInv'
  BY <1>0, <1>1, <1>3, <1>4, <1>5 DEF GoneInv, BootInv, Stays, TypeOK, LastStage, Thread
<1>13. SectionInv'
  BY <1>0, <1>1, <1>3, <1>5 DEF SectionInv, Stays, Thread, TypeOK
<1>14. SlotInv'
  BY <1>0, <1>1 DEF SlotInv, CurrentSlot, Owner, Stays
<1> QED
  BY <1>7, <1>8, <1>9, <1>10, <1>11, <1>12, <1>13, <1>14 DEF IInv

(* The store that ends push_back: the vector has one slot more, for the    *)
(* new thread.                                                             *)
LEMMA PushBackSlots ==
  ASSUME IInv, running \notin gone, boot = LastStage,
         UNCHANGED <<running, currentThreadId, boot, gone>>,
         NEW w \in Workers \ created,
         contexts' = Append(contexts, w), created' = created \cup {w}
  PROVE  SlotInv'
<1> USE ThreadAssumption
<1> DEFINE n == Len(contexts)
<1>1. /\ currentThreadId \in Nat /\ n \in Nat
      /\ currentThreadId < n /\ running \in created \cup {Main}
      /\ contexts[currentThreadId + 1] \in {running, NoContext}
      /\ Len(contexts') = n + 1
      /\ contexts'[n + 1] = w
      /\ \A i \in 1 .. n : contexts'[i] = contexts[i]
  BY DEF IInv, SlotInv, CurrentSlot, BootInv, TypeOK, LastStage, Thread
<1>2. DOMAIN Owner = 1 .. n /\ DOMAIN Owner' = 1 .. n + 1
  BY <1>1 DEF Owner
<1>3. \A i \in 1 .. n : Owner'[i] = Owner[i]
  BY <1>1 DEF Owner
<1>4. Owner'[n + 1] = w
  BY <1>1 DEF Owner
<1>5. /\ \A i \in 1 .. n : Owner[i] \in created \cup {Main}
      /\ gone = {} => \A u \in created \cup {Main} : \E i \in 1 .. n : Owner[i] = u
      /\ \A i, j \in 1 .. n : Owner[i] = Owner[j] => i = j
  <2>1. /\ \A i \in DOMAIN Owner : Owner[i] \in created \cup {Main}
        /\ gone = {} => \A u \in created \cup {Main} : \E i \in DOMAIN Owner : Owner[i] = u
        /\ \A i, j \in DOMAIN Owner : Owner[i] = Owner[j] => i = j
    BY DEF IInv, SlotInv, LastStage
  <2> HIDE DEF n
  <2> QED BY <1>2, <2>1
<1>6. w \notin created \cup {Main}
  OBVIOUS
<1>7. /\ \A i \in 1 .. n + 1 : i \in 1 .. n \/ i = n + 1
      /\ n + 1 \in 1 .. n + 1 /\ 1 .. n \subseteq 1 .. n + 1
      /\ currentThreadId + 1 \in 1 .. n
  BY <1>1
<1>11. CurrentSlot' /\ boot' = LastStage
  BY <1>1, <1>7 DEF CurrentSlot
<1> HIDE DEF n
<1>8. \A i \in 1 .. n + 1 : Owner'[i] \in created' \cup {Main}
  BY <1>3, <1>4, <1>5, <1>7
<1>9. gone = {} => \A u \in created' \cup {Main} : \E i \in 1 .. n + 1 : Owner'[i] = u
  BY <1>3, <1>4, <1>5, <1>7
<1>10. \A i, j \in 1 .. n + 1 : Owner'[i] = Owner'[j] => i = j
  BY <1>3, <1>4, <1>5, <1>6, <1>7
<1> QED
  BY <1>2, <1>8, <1>9, <1>10, <1>11 DEF SlotInv, LastStage

(* The store that ends erase: every slot but the current one is still      *)
(* there, and what currentThreadId names now is stale, or nothing.         *)
LEMMA EraseSlots ==
  ASSUME IInv, boot > 1, NEW t \in created, running = t, t \notin gone,
         UNCHANGED <<running, currentThreadId, boot, created>>, gone' = gone \cup {t},
         contexts' = Without(contexts, currentThreadId + 1)
  PROVE  /\ contexts' \in Seq(Thread \cup {NoContext})
         /\ \A j \in 1 .. Len(contexts) : j # currentThreadId + 1 =>
              \E i \in 1 .. Len(contexts') : contexts'[i] = contexts[j]
         /\ SlotInv'
<1> DEFINE n == Len(contexts)
           c == currentThreadId + 1
           a == SubSeq(contexts, 1, c - 1)
           b == SubSeq(contexts, c + 1, n)
           S == Thread \cup {NoContext}
<1>1. /\ contexts \in Seq(S) /\ currentThreadId \in Nat /\ n \in Nat /\ c \in 1 .. n
      /\ \A i \in 1 .. n : contexts[i] \in S
  BY LenProperties, ElementOfSeq DEF IInv, TypeOK, SlotInv, CurrentSlot
<1>2. /\ a \in Seq(S) /\ Len(a) = c - 1
      /\ \A i \in 1 .. c - 1 : a[i] = contexts[i]
  <2>1. 1 \in Int /\ c - 1 \in Int /\ \A i \in 1 .. c - 1 : contexts[i] \in S
    BY <1>1
  <2>2. /\ a \in Seq(S) /\ Len(a) = IF 1 <= c - 1 THEN c - 1 - 1 + 1 ELSE 0
        /\ \A i \in 1 .. c - 1 - 1 + 1 : a[i] = contexts[1 + i - 1]
    BY <2>1, SubSeqProperties
  <2> HIDE DEF a, c, n, S
  <2> QED BY <1>1, <2>2
<1>3. /\ b \in Seq(S) /\ Len(b) = n - c
      /\ \A i \in 1 .. n - c : b[i] = contexts[c + i]
  <2>1. c + 1 \in Int /\ n \in Int /\ \A i \in c + 1 .. n : contexts[i] \in S
    BY <1>1
  <2>2. /\ b \in Seq(S) /\ Len(b) = IF c + 1 <= n THEN n - (c + 1) + 1 ELSE 0
        /\ \A i \in 1 .. n - (c + 1) + 1 : b[i] = contexts[c + 1 + i - 1]
    BY <2>1, SubSeqProperties
  <2> HIDE DEF b, c, n, S
  <2> QED BY <1>1, <2>2
<1>4. contexts' = a \o b
  BY DEF Without
<1> HIDE DEF a, b
<1>5. /\ contexts' \in Seq(S) /\ Len(contexts') = n - 1
      /\ \A i \in 1 .. n - 1 :
           contexts'[i] = IF i <= c - 1 THEN contexts[i] ELSE contexts[i + 1]
  <2>1. /\ a \o b \in Seq(S) /\ Len(a \o b) = Len(a) + Len(b)
        /\ \A i \in 1 .. Len(a) + Len(b) :
             (a \o b)[i] = IF i <= Len(a) THEN a[i] ELSE b[i - Len(a)]
    BY <1>2, <1>3, ConcatProperties
  <2>2. \A i \in 1 .. n - 1 :
          contexts'[i] = IF i <= c - 1 THEN a[i] ELSE b[i - (c - 1)]
    <3>1. Len(a) + Len(b) = n - 1
      BY <1>1, <1>2, <1>3
    <3>2. \A i \in 1 .. n - 1 : (a \o b)[i] = IF i <= Len(a) THEN a[i] ELSE b[i - Len(a)]
      BY <2>1, <3>1
    <3> QED BY <1>2, <1>4, <3>2
  <2>3. ASSUME NEW i \in 1 .. n - 1, i <= c - 1 PROVE contexts'[i] = contexts[i]
    BY <1>1, <1>2, <2>2, <2>3
  <2>4. ASSUME NEW i \in 1 .. n - 1, ~(i <= c - 1) PROVE contexts'[i] = contexts[i + 1]
    <3>1. i - (c - 1) \in 1 .. n - c /\ c + (i - (c - 1)) = i + 1
      BY <1>1, <2>4
    <3> QED BY <1>3, <2>2, <2>4, <3>1
  <2>5. contexts' \in Seq(S) /\ Len(contexts') = n - 1
    <3>1. contexts' \in Seq(S) /\ Len(contexts') = Len(a) + Len(b)
      BY <1>4, <2>1
    <3> HIDE DEF c, n, S
    <3> QED BY <1>1, <1>2, <1>3, <3>1
  <2> QED BY <2>3, <2>4, <2>5
<1>6. /\ \A i \in 1 .. n : Owner[i] = IF i = c THEN t ELSE contexts[i]
      /\ DOMAIN Owner = 1 .. n
  BY DEF Owner
<1>7. /\ \A i \in 1 .. n : Owner[i] \in created \cup {Main}
      /\ \A i, j \in 1 .. n : Owner[i] = Owner[j] => i = j
  BY <1>6 DEF IInv, SlotInv
<1>8. /\ \A i \in 1 .. n - 1 : Owner'[i] = IF i = c THEN t ELSE contexts'[i]
      /\ DOMAIN Owner' = 1 .. n - 1
  BY <1>5 DEF Owner
<1> DEFINE Old(i) == IF i <= c - 1 THEN i ELSE i + 1
<1>9. /\ \A i \in 1 .. n - 1 : Old(i) \in 1 .. n /\ Old(i) # c
      /\ \A i, j \in 1 .. n - 1 : Old(i) = Old(j) => i = j
  BY <1>1
<1>10. \A i \in 1 .. n - 1 : contexts'[i] = contexts[Old(i)]
  BY <1>5
<1>e. gone' # {} /\ running' \in gone' /\ boot' > 1 /\ ~(boot' <= 1) /\ created' = created
  BY DEF IInv, TypeOK
<1> HIDE DEF c, n, Old
<1>11. \A i \in 1 .. n - 1 : contexts'[i] = Owner[Old(i)] /\ Owner[Old(i)] # t
  <2>1. c \in 1 .. n /\ Owner[c] = t
    BY <1>1, <1>6
  <2> QED BY <2>1, <1>6, <1>7, <1>9, <1>10
<1>12. \A i \in 1 .. n - 1 : Owner'[i] \in created \cup {Main}
  BY <1>7, <1>8, <1>9, <1>11
<1>13. ASSUME NEW i \in 1 .. n - 1, NEW j \in 1 .. n - 1, Owner'[i] = Owner'[j]
       PROVE  i = j
  <2>1. CASE i = c \/ j = c
    BY <1>8, <1>11, <1>13, <2>1
  <2>2. CASE i # c /\ j # c
    <3>1. Owner[Old(i)] = Owner[Old(j)]
      BY <1>8, <1>11, <1>13, <2>2
    <3> QED BY <1>7, <1>9, <3>1
  <2> QED BY <2>1, <2>2
<1>14. SlotInv'
  BY <1>e, <1>8, <1>12, <1>13 DEF SlotInv
<1>15. ASSUME NEW j \in 1 .. n, j # c
       PROVE  \E i \in 1 .. n - 1 : contexts'[i] = contexts[j]
  <2>1. CASE j < c
    <3>1. j \in 1 .. n - 1 /\ j <= c - 1
      BY <1>1, <2>1
    <3> QED BY <1>5, <3>1
  <2>2. CASE j > c
    <3>1. j - 1 \in 1 .. n - 1 /\ ~(j - 1 <= c - 1) /\ j - 1 + 1 = j
      BY <1>1, <2>2
    <3> QED BY <1>5, <3>1
  <2> QED BY <1>1, <1>15, <2>1, <2>2
<1> QED BY <1>5, <1>14, <1>15 DEF c, n

(* Who commits what: Main a gate or a new thread, a worker its own end.    *)
LEMMA CommitCases ==
  ASSUME IInv, NEW t \in Thread, Commit(t)
  PROVE  /\ running = t /\ pc[t] = "commit" /\ t \notin gone /\ seen[t] = contexts
         /\ \/ UNCHANGED <<contexts, created, gone>>
            \/ /\ t = Main /\ boot = LastStage
               /\ op[Main].thread \in Workers \ created /\ frameIF[op[Main].thread]
               /\ contexts' = Append(contexts, op[Main].thread)
               /\ created' = created \cup {op[Main].thread} /\ gone' = gone
            \/ /\ t \in Workers /\ t \in created /\ boot = LastStage
               /\ contexts' = Without(contexts, currentThreadId + 1)
               /\ gone' = gone \cup {t} /\ created' = created
<1> USE ThreadAssumption
<1>0. TypeOK /\ BootInv /\ GoneInv /\ SectionInv
  BY DEF IInv
<1>1. running = t /\ pc[t] = "commit" /\ seen[t] = contexts /\ t \notin gone
  BY <1>0 DEF Commit, SectionInv, GoneInv
<1>2. CASE SetGate(t)
  BY <1>1, <1>2 DEF SetGate
<1>3. CASE PushBack(t)
  <2>1. t = Main
    BY <1>0, <1>1, <1>3 DEF PushBack, SectionInv, Thread
  <2>2. op[Main] # GateOp
    BY <1>3, <2>1 DEF PushBack, GateOp
  <2>3. boot = LastStage
    BY <1>0, <2>2 DEF BootInv, TypeOK, LastStage
  <2> QED
    BY <1>0, <1>1, <1>3, <2>1, <2>3 DEF PushBack, AtBack, SectionInv
<1>4. CASE Erase(t)
  <2>1. t \in Workers /\ t \in created
    BY <1>0, <1>1, <1>4 DEF Erase, SectionInv, BootInv, Thread
  <2>2. boot = LastStage
    BY <1>0, <2>1 DEF BootInv, TypeOK, LastStage
  <2> QED
    BY <1>1, <1>4, <2>1, <2>2 DEF Erase
<1> QED
  BY <1>1, <1>2, <1>3, <1>4 DEF Commit

LEMMA CommitKeeps ==
  ASSUME IInv, NEW t \in Thread, Commit(t)
  PROVE  IInv'
<1> USE ThreadAssumption
<1>0. TypeOK /\ PastInv /\ CountInv /\ FlagInv /\ BootInv /\ GoneInv /\ SectionInv /\ SlotInv
  BY DEF IInv
<1>1. /\ running = t /\ pc[t] = "commit" /\ t \notin gone /\ pc' = [pc EXCEPT ![t] = "eload"]
      /\ UNCHANGED <<running, flagIF, frameIF, currentThreadId, intref, reg, op, seen, boot,
                     irq0, overlap>>
  BY CommitCases DEF Commit, Goto, cpu
<1>2. pc'[t] = "eload" /\ \A u \in Thread \ {t} : pc'[u] = pc[u] /\ pc[u] \notin Past
  BY <1>0, <1>1 DEF TypeOK, PastInv, Past
<1>3. Open = 1 /\ Open' = 1
  BY <1>1, <1>2 DEF Open, Counted
<1>4. PastInv' /\ CountInv'
  BY <1>0, <1>1, <1>2, <1>3 DEF PastInv, CountInv, Past, Thread
<1>5. CASE UNCHANGED <<contexts, created, gone>>
  <2>1. TypeOK'
    BY <1>0, <1>1, <1>5 DEF TypeOK, PCs
  <2>2. FlagInv' /\ BootInv'
    BY <1>0, <1>1, <1>2, <1>5 DEF FlagInv, BootInv, Masked, Thread
  <2>3. SectionInv' /\ GoneInv' /\ SlotInv'
    BY <1>0, <1>1, <1>2, <1>5 DEF SectionInv, GoneInv, SlotInv, CurrentSlot, Owner, Thread,
       Past, TypeOK
  <2> QED
    BY <1>4, <2>1, <2>2, <2>3 DEF IInv
<1>6. ASSUME /\ t = Main /\ boot = LastStage
             /\ op[Main].thread \in Workers \ created /\ frameIF[op[Main].thread]
             /\ contexts' = Append(contexts, op[Main].thread)
             /\ created' = created \cup {op[Main].thread} /\ gone' = gone
      PROVE  IInv'
  <2> DEFINE w == op[Main].thread
  <2>1. w \in Thread
    BY <1>6 DEF Thread
  <2>2. TypeOK'
    BY <1>0, <1>1, <1>6, <2>1 DEF TypeOK, PCs
  <2>3. FlagInv' /\ BootInv'
    BY <1>0, <1>1, <1>2, <1>6 DEF FlagInv, BootInv, Masked, Thread, LastStage
  <2>4. SectionInv' /\ GoneInv'
    BY <1>0, <1>1, <1>2, <1>6 DEF SectionInv, GoneInv, Thread, Past, TypeOK
  <2>5. SlotInv'
    BY <1>1, <1>6, PushBackSlots
  <2> QED
    BY <1>4, <2>2, <2>3, <2>4, <2>5 DEF IInv
<1>7. ASSUME /\ t \in Workers /\ t \in created /\ boot = LastStage
             /\ contexts' = Without(contexts, currentThreadId + 1)
             /\ gone' = gone \cup {t} /\ created' = created
      PROVE  IInv'
  <2>1. contexts' \in Seq(Thread \cup {NoContext}) /\ SlotInv'
    BY <1>1, <1>7, EraseSlots DEF LastStage
  <2>2. TypeOK'
    BY <1>0, <1>1, <1>7, <2>1 DEF TypeOK, PCs
  <2>3. FlagInv' /\ BootInv'
    BY <1>0, <1>1, <1>2, <1>7 DEF FlagInv, BootInv, Masked, Thread, LastStage
  <2>4. SectionInv' /\ GoneInv'
    BY <1>0, <1>1, <1>2, <1>7 DEF SectionInv, GoneInv, Thread, Past, TypeOK
  <2> QED
    BY <1>4, <2>1, <2>2, <2>3, <2>4 DEF IInv
<1> QED
  BY <1>5, <1>6, <1>7, CommitCases

-----------------------------------------------------------------------------
(* The steps outside a section.                                            *)

LEMMA CreateKeeps ==
  ASSUME IInv, NEW w \in Workers, CreateThread(w)
  PROVE  IInv'
<1> USE ThreadAssumption
<1>0. TypeOK /\ PastInv /\ CountInv /\ FlagInv /\ BootInv /\ GoneInv /\ SectionInv /\ SlotInv
  BY DEF IInv
<1>1. running = Main /\ pc[Main] = "run" /\ boot = LastStage
  BY DEF CreateThread, Creator
<1>2. flagIF
  BY <1>0, <1>1 DEF FlagInv, Masked, LastStage
<1>3. /\ w \notin created /\ Main \in Thread
      /\ frameIF' = [frameIF EXCEPT ![w] = flagIF]
      /\ op' = [op EXCEPT ![Main] = [kind |-> "create", thread |-> w]]
      /\ pc' = [pc EXCEPT ![Main] = "dload"]
      /\ UNCHANGED <<running, flagIF, vec, intref, reg, seen, hist>>
  BY <1>1 DEF CreateThread, Begin, Goto, CallerFlag, Thread
<1>4. pc'[Main] = "dload" /\ \A u \in Thread \ {Main} : pc'[u] = pc[u]
  BY <1>0, <1>3 DEF TypeOK
<1>5. Open' = Open
  BY <1>1, <1>4 DEF Open, Counted
<1>6. TypeOK'
  BY <1>0, <1>3 DEF TypeOK, PCs, vec, hist, Thread, Op
<1>7. PastInv' /\ CountInv'
  BY <1>0, <1>1, <1>3, <1>4, <1>5 DEF PastInv, CountInv, Past, hist, Thread
<1>8. FlagInv' /\ BootInv'
  BY <1>0, <1>1, <1>2, <1>3, <1>4 DEF TypeOK, FlagInv, BootInv, Masked, hist, LastStage, Thread
<1>9. SectionInv'
  BY <1>0, <1>1, <1>2, <1>3, <1>4 DEF TypeOK, SectionInv, vec, hist, Thread
<1>10. GoneInv' /\ SlotInv'
  BY <1>0, <1>1, <1>2, <1>3 DEF GoneInv, SlotInv, CurrentSlot, Owner, vec, hist,
     TypeOK, Thread
<1> QED
  BY <1>6, <1>7, <1>8, <1>9, <1>10 DEF IInv

LEMMA DisposeKeeps ==
  ASSUME IInv, NEW w \in Workers, disposeThread(w)
  PROVE  IInv'
<1> USE ThreadAssumption
<1>0. TypeOK /\ PastInv /\ CountInv /\ FlagInv /\ BootInv /\ GoneInv /\ SectionInv /\ SlotInv
  BY DEF IInv
<1>1. /\ running = w /\ pc[w] = "run" /\ w \in Thread /\ w # Main
      /\ op' = [op EXCEPT ![w] = [kind |-> "dispose", thread |-> w]]
      /\ pc' = [pc EXCEPT ![w] = "dload"]
      /\ UNCHANGED <<cpu, vec, intref, reg, seen, hist>>
  BY DEF disposeThread, Begin, Goto, Thread
<1>2. w \in created /\ w \notin gone
  BY <1>0, <1>1 DEF BootInv, GoneInv
<1>3. /\ pc'[w] = "dload" /\ \A u \in Thread \ {w} : pc'[u] = pc[u]
      /\ op'[w].kind = "dispose" /\ \A u \in Thread \ {w} : op'[u] = op[u]
  BY <1>0, <1>1 DEF TypeOK
<1>4. Open' = Open
  BY <1>1, <1>3 DEF Open, Counted
<1>5. TypeOK'
  BY <1>0, <1>1 DEF TypeOK, PCs, cpu, vec, hist, Thread, Op
<1>6. PastInv' /\ CountInv'
  BY <1>0, <1>1, <1>3, <1>4 DEF PastInv, CountInv, Past, hist, Thread
<1>7. FlagInv' /\ BootInv'
  BY <1>0, <1>1, <1>2, <1>3 DEF FlagInv, BootInv, Masked, cpu, hist, LastStage, Thread
<1>8. SectionInv'
  BY <1>0, <1>1, <1>3 DEF SectionInv, cpu, vec, hist, Thread
<1>9. GoneInv' /\ SlotInv'
  BY <1>0, <1>1, <1>2, <1>3 DEF GoneInv, SlotInv, CurrentSlot, Owner, cpu, vec, hist, TypeOK,
     Thread
<1> QED
  BY <1>5, <1>6, <1>7, <1>8, <1>9 DEF IInv

LEMMA KeysKeep ==
  ASSUME IInv, TakeKeys \/ KeysTaken
  PROVE  IInv'
<1> USE ThreadAssumption
<1>0. TypeOK /\ PastInv /\ CountInv /\ FlagInv /\ BootInv /\ GoneInv /\ SectionInv /\ SlotInv
  BY DEF IInv
<1> DEFINE l == IF pc[Main] = "run" THEN "keys" ELSE "run"
<1>1. /\ running = Main /\ pc[Main] \in {"run", "keys"} /\ Main \in Thread
      /\ pc' = [pc EXCEPT ![Main] = l] /\ flagIF' = (l = "run")
      /\ pc[Main] = "run" => boot = LastStage
      /\ UNCHANGED <<running, frameIF, contexts, currentThreadId, intref, reg, op, seen, hist>>
  <2>1. CASE TakeKeys
    BY <2>1, Zenon DEF TakeKeys, Goto, vec, Thread
  <2>2. CASE KeysTaken
    BY <2>2, Zenon DEF KeysTaken, Goto, vec, Thread
  <2> QED BY <2>1, <2>2
<1>2. boot = LastStage
  BY <1>0, <1>1 DEF BootInv, TypeOK, LastStage
<1>3. l \in {"run", "keys"}
  OBVIOUS
<1> HIDE DEF l
<1>4. pc'[Main] = l /\ \A u \in Thread \ {Main} : pc'[u] = pc[u]
  BY <1>0, <1>1 DEF TypeOK
<1>5. Open' = Open
  BY <1>1, <1>3, <1>4 DEF Open, Counted
<1>6. TypeOK'
  BY <1>0, <1>1, <1>3 DEF TypeOK, PCs, hist
<1>7. PastInv' /\ CountInv'
  BY <1>0, <1>1, <1>2, <1>3, <1>4, <1>5 DEF PastInv, CountInv, Past, hist, Thread, LastStage
<1>8. FlagInv'
  <2>1. flagIF' <=> pc'[Main] \notin Masked
    BY <1>1, <1>3, <1>4 DEF Masked
  <2>2. /\ running' = Main /\ frameIF' = frameIF /\ boot' = LastStage /\ created' = created
    BY <1>1, <1>2 DEF hist
  <2> QED BY <1>0, <1>1, <1>4, <2>1, <2>2 DEF FlagInv, LastStage
<1>11. BootInv'
  BY <1>0, <1>1, <1>2, <1>4 DEF BootInv, hist, LastStage, Thread
<1>9. SectionInv'
  BY <1>0, <1>1, <1>3, <1>4 DEF SectionInv, hist, Thread
<1>10. GoneInv' /\ SlotInv'
  BY <1>0, <1>1, <1>2, <1>4 DEF GoneInv, SlotInv, CurrentSlot, Owner, hist, TypeOK, Thread
<1> QED
  BY <1>6, <1>7, <1>8, <1>9, <1>10, <1>11 DEF IInv

(* Start-up: no thread but Main has run.                                   *)
LEMMA BootKeeps ==
  ASSUME IInv, Boot
  PROVE  IInv'
<1> USE ThreadAssumption
<1>0. TypeOK /\ PastInv /\ CountInv /\ FlagInv /\ BootInv /\ GoneInv /\ SectionInv /\ SlotInv
  BY DEF IInv
<1>1. /\ running = Main /\ pc[Main] = "run" /\ Main \in Thread
      /\ boot \in 0 .. 5 /\ boot' = boot + 1
      /\ op[Main] = GateOp /\ GateOp \in Op
  BY <1>0 DEF Boot, RegisterGate, InitializeThreading, FirstEnable, UnmaskTimer, Stage,
         BootInv, LastStage, Thread, GateOp, Op
<1>2. /\ created = {} /\ gone = {} /\ ~irq0
      /\ \A w \in Workers : pc[w] = "run"
  <2>1. created = {} /\ \A w \in Workers : pc[w] = "run"
    BY <1>0, <1>1 DEF BootInv, LastStage
  <2>2. gone = {}
    BY <1>0, <2>1 DEF TypeOK
  <2>3. ~irq0
    BY <1>0, <1>1 DEF BootInv, LastStage
  <2> QED BY <2>1, <2>2, <2>3
<1> DEFINE l == pc'[Main]
<1>3. /\ l \in {"run", "dload", "eload"} /\ pc' = [pc EXCEPT ![Main] = l]
      /\ op' = op /\ (l = "eload" <=> boot = 3) /\ irq0' \in BOOLEAN
      /\ irq0' => boot = 5
      /\ UNCHANGED <<running, flagIF, frameIF, currentThreadId, intref, reg, seen, created, gone,
                     overlap>>
  <2>0. pc = [pc EXCEPT ![Main] = pc[Main]] /\ op = [op EXCEPT ![Main] = GateOp]
    BY <1>0, <1>1 DEF TypeOK
  <2>t. irq0 \in BOOLEAN /\ pc \in [Thread -> PCs]
    BY <1>0 DEF TypeOK
  <2>1. CASE RegisterGate
    BY <1>1, <1>2, <2>0, <2>1, <2>t DEF RegisterGate, Begin, Goto, Stage, cpu, vec
  <2>2. CASE InitializeThreading
    BY <1>1, <1>2, <2>0, <2>2, <2>t DEF InitializeThreading, Stage, cpu, proc
  <2>3. CASE FirstEnable
    BY <1>1, <1>2, <2>0, <2>3, <2>t DEF FirstEnable, Goto, Stage, cpu, vec
  <2>4. CASE UnmaskTimer
    BY <1>1, <1>2, <2>0, <2>4, <2>t DEF UnmaskTimer, Stage, cpu, vec, proc
  <2> QED BY <2>1, <2>2, <2>3, <2>4 DEF Boot
<1> HIDE DEF l
<1>4. pc'[Main] = l /\ \A u \in Thread \ {Main} : pc'[u] = pc[u]
  BY <1>0, <1>3 DEF l, Thread, TypeOK
<1>5. Open = 0 /\ Open' = IF boot = 3 THEN 1 ELSE 0
  BY <1>1, <1>2, <1>3, <1>4 DEF Open, Counted, Thread
<1>6. contexts' = IF boot = 1 THEN <<NoContext>> ELSE contexts
  BY <1>1 DEF Boot, RegisterGate, InitializeThreading, FirstEnable, UnmaskTimer, Stage, vec
<1>7. TypeOK'
  <2>1. contexts' \in Seq(Thread \cup {NoContext})
    <3>1. <<NoContext>> \in Seq(Thread \cup {NoContext})
      OBVIOUS
    <3> QED BY <1>0, <1>6, <3>1 DEF TypeOK
  <2> QED BY <1>0, <1>1, <1>3, <2>1 DEF TypeOK, PCs, LastStage
<1>8. PastInv'
  BY <1>1, <1>2, <1>3, <1>4 DEF PastInv, Past, Thread
<1>9. CountInv'
  BY <1>0, <1>1, <1>2, <1>3, <1>4, <1>5 DEF CountInv, Thread
<1>10. FlagInv'
  BY <1>0, <1>1, <1>2, <1>3, <1>4 DEF FlagInv, Masked, Thread
<1>11. BootInv'
  BY <1>0, <1>1, <1>2, <1>3, <1>4 DEF BootInv, LastStage, Thread
<1>12. SectionInv' /\ GoneInv'
  BY <1>0, <1>1, <1>2, <1>3, <1>4 DEF SectionInv, GoneInv, Thread, GateOp
<1>13. SlotInv'
  <2>1. CASE boot = 1
    <3>1. contexts = <<>> /\ currentThreadId = 0
      BY <1>0, <2>1 DEF SlotInv
    <3>2. contexts' = <<NoContext>> /\ Len(contexts') = 1
      BY <1>6, <2>1
    <3>3. DOMAIN Owner' = 1 .. 1 /\ Owner'[1] = Main
      BY <1>1, <1>3, <3>1, <3>2 DEF Owner
    <3>4. contexts'[currentThreadId' + 1] = NoContext /\ currentThreadId' < Len(contexts')
      BY <1>3, <3>1, <3>2
    <3> QED BY <1>1, <1>2, <1>3, <2>1, <3>1, <3>2, <3>3, <3>4 DEF SlotInv, CurrentSlot
  <2>2. CASE boot # 1
    <3>1. contexts' = contexts /\ Owner' = Owner
      BY <1>3, <1>6, <2>2 DEF Owner
    <3>2. (boot' > 1 => boot > 1) /\ (boot' <= 1 => boot <= 1)
      BY <1>1, <2>2
    <3> QED BY <1>0, <1>3, <3>1, <3>2 DEF SlotInv, CurrentSlot
  <2> QED BY <2>1, <2>2
<1> QED
  BY <1>7, <1>8, <1>9, <1>10, <1>11, <1>12, <1>13 DEF IInv

-----------------------------------------------------------------------------
(* Every step keeps the invariant, until two threads overlap.              *)
LEMMA StepInv ==
  ASSUME IInv, ~overlap', [Next]_vars
  PROVE  IInv'
<1>0. TypeOK /\ FlagInv /\ BootInv /\ GoneInv
  BY DEF IInv
<1>1. CASE TimerInterrupt
  <2>1. boot = LastStage /\ flagIF
    BY <1>0, <1>1 DEF TimerInterrupt, BootInv
  <2> QED
    BY <1>1, <2>1, SwitchKeepsInv DEF TimerInterrupt
<1>2. ASSUME NEW t \in Thread, Reschedule(t)
      PROVE  IInv'
  <2>1. flagIF
    BY <1>0, <1>2 DEF Reschedule, FlagInv, Masked, LastStage
  <2> QED
    BY <2>1, <1>2, SwitchKeepsInv DEF Reschedule
<1>3. ASSUME NEW t \in Thread, Section(t)
      PROVE  IInv'
  BY <1>3, DisableLoadKeeps, DisableStoreKeeps, CliKeeps, EnterKeeps, CommitKeeps,
     EnableLoadKeeps, EnableStoreKeeps, StiKeeps DEF Section
<1>4. ASSUME NEW w \in Workers, CreateThread(w) \/ disposeThread(w)
      PROVE  IInv'
  BY <1>4, CreateKeeps, DisposeKeeps
<1>5. CASE UNCHANGED vars
  <2>1. UNCHANGED <<running, flagIF, frameIF, contexts, currentThreadId, intref, pc, reg, op,
                    seen, boot, irq0, created, gone, overlap>>
    BY <1>5 DEF vars, cpu, vec, proc, hist
  <2>2. TypeOK' /\ PastInv' /\ CountInv' /\ FlagInv'
    BY <2>1 DEF IInv, TypeOK, PastInv, CountInv, Open, FlagInv
  <2>3. BootInv' /\ GoneInv' /\ SectionInv'
    BY <2>1 DEF IInv, BootInv, GoneInv, SectionInv
  <2>4. SlotInv'
    <3>1. Owner' = Owner
      BY <2>1 DEF Owner
    <3> QED BY <2>1, <3>1 DEF IInv, SlotInv, CurrentSlot
  <2> QED BY <2>2, <2>3, <2>4 DEF IInv
<1> QED
  BY <1>1, <1>2, <1>3, <1>4, <1>5, KeysKeep, BootKeeps DEF Next

\* Once two threads have overlapped it is so for ever.
LEMMA OverlapStays ==
  ASSUME [Next]_vars, overlap
  PROVE  overlap'
<1>1. ASSUME NEW t \in Thread, Section(t) PROVE overlap'
  BY <1>1 DEF Section, DisableLoad, DisableStore, Cli, Enter, Commit, EnableLoad,
     EnableStore, Sti, hist
<1>2. ASSUME NEW t \in Thread, Reschedule(t) PROVE overlap'
  BY <1>2 DEF Reschedule, hist
<1>3. ASSUME NEW w \in Workers, CreateThread(w) \/ disposeThread(w) PROVE overlap'
  BY <1>3 DEF CreateThread, disposeThread, hist
<1>4. CASE TimerInterrupt \/ TakeKeys \/ KeysTaken \/ Boot \/ UNCHANGED vars
  BY <1>4 DEF TimerInterrupt, TakeKeys, KeysTaken, Boot, RegisterGate, InitializeThreading,
     FirstEnable, UnmaskTimer, vars, hist
<1> QED
  BY <1>1, <1>2, <1>3, <1>4 DEF Next

LEMMA Invariance == Spec => [](~overlap => IInv)
<1>1. Init => (~overlap => IInv)
  BY InitInv
<1>2. (~overlap => IInv) /\ [Next]_vars => (~overlap => IInv)'
  BY StepInv, OverlapStays
<1> QED
  BY <1>1, <1>2, PTL DEF Spec

(* Whatever the number of threads, and whichever of them dispose of        *)
(* themselves, code between DisableInterrupt and the store of              *)
(* EnableInterrupt (kernel.h) is never preempted, until two of them are    *)
(* inside at once.                                                         *)
THEOREM Exclusion == Spec => []CriticalSectionsExclude
<1>1. (~overlap => IInv) => CriticalSectionsExclude
  <2> SUFFICES ASSUME ~overlap, IInv, NEW t \in Thread, pc[t] \in Critical
               PROVE  running = t /\ ~flagIF
    BY DEF CriticalSectionsExclude
  <2>1. pc[t] \in Masked
    BY DEF Critical, Masked
  <2>2. running = t
    BY <2>1 DEF IInv, FlagInv
  <2>3. boot <= 3 \/ boot > 3
    BY DEF IInv, TypeOK
  <2> QED
    BY <2>1, <2>2, <2>3 DEF IInv, FlagInv
<1> QED
  BY <1>1, Invariance, PTL

(* Interrupts are on, and intref is 0, whenever no section is open.        *)
THEOREM Restoration == Spec => []InterruptsComeBack
<1>1. (~overlap => IInv) => InterruptsComeBack
  <2> SUFFICES ASSUME ~overlap, IInv, boot > 3, pc[running] = "run"
               PROVE  flagIF /\ ((\A t \in Thread : ~Inside(t)) => intref = 0)
    BY DEF InterruptsComeBack
  <2>1. flagIF
    BY DEF IInv, FlagInv, Masked
  <2>2. ASSUME \A t \in Thread : ~Inside(t) PROVE intref = 0
    <3>1. Open = 0
      BY <2>2 DEF Open, Inside, Counted
    <3> QED BY <3>1 DEF IInv, CountInv, TypeOK
  <2> QED BY <2>1, <2>2
<1> QED
  BY <1>1, Invariance, PTL

(* No context is resumed twice, slot 0 is never resumed before it has been *)
(* saved, and until a thread disposes of itself every live thread has a    *)
(* slot of its own.                                                        *)
THEOREM SlotPerThread == Spec => []OneSlotPerThread
<1>1. (~overlap => IInv) => OneSlotPerThread
  <2> SUFFICES ASSUME ~overlap, IInv, boot > 1
               PROVE  /\ \A i, j \in DOMAIN Owner : Owner[i] = Owner[j] => i = j
                      /\ \A i \in DOMAIN Owner : Owner[i] \in created \cup {Main}
                      /\ gone = {} => /\ currentThreadId < Len(contexts)
                                      /\ {Owner[i] : i \in DOMAIN Owner} = Live
    BY DEF OneSlotPerThread
  <2>1. /\ \A i \in DOMAIN Owner : Owner[i] \in created \cup {Main}
        /\ \A i, j \in DOMAIN Owner : Owner[i] = Owner[j] => i = j
        /\ gone = {} => \A t \in created \cup {Main} : \E i \in DOMAIN Owner : Owner[i] = t
        /\ running \notin gone => currentThreadId < Len(contexts)
    BY DEF IInv, SlotInv, CurrentSlot
  <2>2. gone = {} => Live = created \cup {Main}
    BY DEF Live
  <2> HIDE DEF Owner
  <2> QED
    BY <2>1, <2>2
<1> QED
  BY <1>1, Invariance, PTL

\* The steps that neither switch nor store into the vector.
LEMMA OthersKeepVector ==
  ASSUME [Next]_vars, boot > 1, IInv,
         ~(boot = LastStage /\ SwitchThread /\ gone' = gone),
         \A t \in Thread : ~Commit(t)
  PROVE  UNCHANGED <<running, contexts>>
<1>1. ASSUME NEW t \in Thread, Section(t) PROVE UNCHANGED <<running, contexts>>
  BY <1>1 DEF Section, DisableLoad, DisableStore, Cli, Enter, EnableLoad, EnableStore, Sti,
     cpu, vec
<1>2. ASSUME NEW t \in Thread, Reschedule(t) PROVE FALSE
  BY <1>2 DEF Reschedule, hist
<1>3. ASSUME NEW w \in Workers, CreateThread(w) \/ disposeThread(w)
      PROVE  UNCHANGED <<running, contexts>>
  BY <1>3 DEF CreateThread, disposeThread, cpu, vec
<1>4. CASE TimerInterrupt
  BY <1>4 DEF TimerInterrupt, hist, IInv, BootInv
<1>5. CASE TakeKeys \/ KeysTaken \/ UNCHANGED vars
  BY <1>5 DEF TakeKeys, KeysTaken, vars, cpu, vec
<1>6. CASE Boot
  BY <1>6 DEF Boot, RegisterGate, InitializeThreading, FirstEnable, UnmaskTimer, Stage, cpu,
     vec
<1> QED
  BY <1>1, <1>2, <1>3, <1>4, <1>5, <1>6 DEF Next

(* A context that is kept is never lost by a store into the vector; it is  *)
(* lost by one kind of switch alone, that of a thread which has disposed   *)
(* of itself, and then it is that of the slot erase has moved to the place *)
(* of its own (threading.cpp:53, :78).                                     *)
THEOREM OnlyTheDeadOverwrite == Spec => ContextsSurvive
<1> DEFINE Lost(t) == t \in Live' /\ t \in Held /\ t \notin Held'
           A == (~overlap' /\ boot > 1) =>
                  \A t \in (Live' \cap Held) \ Held' :
                     running \in gone /\ t = contexts[currentThreadId + 1]
<1>1. ASSUME ~overlap => IInv, [Next]_vars PROVE [A]_vars
  <2> SUFFICES ASSUME ~overlap', boot > 1, NEW t, Lost(t)
               PROVE  running \in gone /\ t = contexts[currentThreadId + 1]
    OBVIOUS
  <2>0. IInv /\ IInv'
    BY <1>1, OverlapStays, StepInv
  <2>1. /\ t \in {running} \cup {contexts[i] : i \in 1 .. Len(contexts)}
        /\ t # running' /\ \A i \in 1 .. Len(contexts') : t # contexts'[i]
        /\ t # NoContext
        /\ contexts \in Seq(Thread \cup {NoContext}) /\ currentThreadId \in Nat
        /\ contexts' \in Seq(Thread \cup {NoContext})
    <3>1. DOMAIN contexts = 1 .. Len(contexts) /\ DOMAIN contexts' = 1 .. Len(contexts')
      BY <2>0, LenProperties DEF IInv, TypeOK
    <3>2. t \in Thread
      BY <2>0 DEF Live, IInv, TypeOK, Thread
    <3> QED BY <2>0, <3>1, <3>2, ThreadAssumption DEF Held, IInv, TypeOK, Thread
  <2>2. running \notin gone => CurrentSlot
    BY <2>0 DEF IInv, SlotInv
  <2>3. CASE boot = LastStage /\ SwitchThread /\ gone' = gone
    <3>1. CASE Len(contexts) > 1
      <4>1. contexts' = [contexts EXCEPT ![currentThreadId + 1] = running]
        BY <2>3, <3>1 DEF SwitchThread, Saved
      <4>2. currentThreadId + 1 \in 1 .. Len(contexts)
        BY <2>1, <2>3, <3>1 DEF SwitchThread
      <4>3. /\ Len(contexts') = Len(contexts) /\ contexts'[currentThreadId + 1] = running
            /\ \A i \in 1 .. Len(contexts) :
                 i # currentThreadId + 1 => contexts'[i] = contexts[i]
        BY <2>1, <4>1, <4>2
      <4>4. t = contexts[currentThreadId + 1] /\ t # running
        BY <2>1, <4>2, <4>3
      <4> QED BY <2>1, <2>2, <4>4 DEF CurrentSlot
    <3>2. CASE ~(Len(contexts) > 1)
      BY <2>1, <2>3, <3>2 DEF SwitchThread, vec, cpu
    <3> QED BY <3>1, <3>2
  <2>4. ASSUME NEW u \in Thread, Commit(u) PROVE FALSE
    <3>1. running = u /\ running' = u /\ u \notin gone /\ currentThreadId' = currentThreadId
          /\ boot' = boot
      BY <2>0, <2>4, CommitCases DEF Commit, cpu
    <3>2. PICK j \in 1 .. Len(contexts) : t = contexts[j] /\ t # running
      BY <2>1, <3>1
    <3>3. contexts' # contexts
      BY <2>1, <3>2
    <3>4. CASE contexts' = Append(contexts, op[Main].thread)
      <4>1. j \in 1 .. Len(contexts') /\ contexts'[j] = contexts[j]
        BY <2>1, <3>4, AppendProperties
      <4> QED BY <2>1, <3>2, <4>1
    <3>5. CASE /\ u \in created /\ contexts' = Without(contexts, currentThreadId + 1)
               /\ gone' = gone \cup {u} /\ created' = created
      <4>1. j # currentThreadId + 1
        BY <2>1, <2>2, <3>1, <3>2 DEF CurrentSlot
      <4>2. \E i \in 1 .. Len(contexts') : contexts'[i] = contexts[j]
        BY <2>0, <3>1, <3>5, <4>1, EraseSlots
      <4> QED BY <2>1, <3>2, <4>2
    <3> QED BY <2>0, <2>4, <3>3, <3>4, <3>5, CommitCases
  <2>5. CASE /\ ~(boot = LastStage /\ SwitchThread /\ gone' = gone)
             /\ \A u \in Thread : ~Commit(u)
    BY <1>1, <2>0, <2>1, <2>5, OthersKeepVector
  <2> QED BY <2>3, <2>4, <2>5
<1> QED
  BY <1>1, Invariance, PTL DEF Spec, ContextsSurvive

-----------------------------------------------------------------------------
(* The kernel as it is: no thread returns.                                 *)

NoReturn == Returning = {}

\* Main alone is ever inside a section.
OneClient == ~overlap /\ \A w \in Workers : pc[w] = "run"

LEMMA OneClientInvariance == ASSUME NoReturn PROVE Spec => [](IInv /\ OneClient)
<1>1. Init => IInv /\ OneClient
  BY InitInv DEF Init, OneClient, Thread
<1>2. ASSUME IInv, OneClient, [Next]_vars PROVE IInv' /\ OneClient'
  <2> USE ThreadAssumption
  <2>0. TypeOK /\ \A t \in Thread : pc[t] # "run" => t = Main
    BY <1>2 DEF IInv, OneClient, Thread
  <2>1. ~overlap' /\ \A w \in Workers : pc'[w] = "run"
    <3>1. ASSUME NEW t \in Thread, Section(t)
          PROVE  ~overlap' /\ \A w \in Workers : pc'[w] = "run"
      <4>1. t = Main
        BY <2>0, <3>1 DEF Section, DisableLoad, DisableStore, Cli, Enter, Commit, EnableLoad,
           EnableStore, Sti
      <4>2. \A w \in Workers : pc'[w] = pc[w]
        BY <2>0, <3>1, <4>1 DEF Section, DisableLoad, DisableStore, Cli, Enter, Commit,
           EnableLoad, EnableStore, Sti, Goto, TypeOK, Thread
      <4>3. ~overlap'
        BY <1>2, <2>0, <3>1, <4>1 DEF OneClient, Section, DisableLoad, DisableStore, Cli, Enter,
           Commit, EnableLoad, EnableStore, Sti, hist, Inside
      <4> QED BY <1>2, <4>2, <4>3 DEF OneClient
    <3>2. ASSUME NEW t \in Thread, Reschedule(t)
          PROVE  ~overlap' /\ \A w \in Workers : pc'[w] = "run"
      BY <1>2, <3>2 DEF Reschedule, OneClient, proc, hist
    <3>3. ASSUME NEW w \in Workers, CreateThread(w)
          PROVE  ~overlap' /\ \A v \in Workers : pc'[v] = "run"
      BY <1>2, <2>0, <3>3 DEF CreateThread, Creator, Begin, Goto, OneClient, hist, TypeOK, Thread
    <3>4. ASSUME NEW w \in Workers, disposeThread(w) PROVE FALSE
      BY <3>4 DEF disposeThread, NoReturn
    <3>5. CASE TimerInterrupt \/ UNCHANGED vars
      BY <1>2, <3>5 DEF TimerInterrupt, OneClient, vars, proc, hist
    <3>6. CASE TakeKeys \/ KeysTaken
      BY <1>2, <2>0, <3>6 DEF TakeKeys, KeysTaken, Goto, OneClient, hist, TypeOK, Thread
    <3>7. CASE Boot
      BY <1>2, <2>0, <3>7 DEF Boot, RegisterGate, InitializeThreading, FirstEnable, UnmaskTimer,
         Begin, Goto, OneClient, proc, hist, TypeOK, Thread
    <3> QED
      BY <1>2, <3>1, <3>2, <3>3, <3>4, <3>5, <3>6, <3>7 DEF Next
  <2> QED
    BY <1>2, <2>1, StepInv DEF OneClient
<1> QED
  BY <1>1, <1>2, PTL DEF Spec

(* The variables of the thread system keep their types, and intref never   *)
(* falls below 0.                                                          *)
THEOREM Typing == ASSUME NoReturn PROVE Spec => []TypeOK
<1>1. IInv => TypeOK
  BY DEF IInv
<1> QED
  BY <1>1, OneClientInvariance, PTL

(* The main thread is the only client of DisableInterrupt.                 *)
THEOREM OneClientOnly == ASSUME NoReturn PROVE Spec => []NeverOverlaps
<1>1. OneClient => NeverOverlaps
  BY DEF OneClient, NeverOverlaps
<1> QED
  BY <1>1, OneClientInvariance, PTL

-----------------------------------------------------------------------------
(* The round robin.                                                        *)

Slot == Thread \cup {NoContext}

\* The queue that vector s stands for while slot c, from 0, is the current one.
Round(s, c) == SubSeq(s, c + 2, Len(s)) \o SubSeq(s, 1, c)

LEMMA RoundProperties ==
  ASSUME NEW s \in Seq(Slot), NEW c \in Nat, c < Len(s)
  PROVE  /\ Round(s, c) \in Seq(Slot)
         /\ Len(Round(s, c)) = Len(s) - 1
         /\ \A k \in 1 .. Len(s) - 1 :
              Round(s, c)[k] = IF k <= Len(s) - c - 1 THEN s[c + 1 + k]
                               ELSE s[k - (Len(s) - c - 1)]
<1> DEFINE a == SubSeq(s, c + 2, Len(s))
           b == SubSeq(s, 1, c)
           n == Len(s)
<1>1. n \in Nat /\ \A i \in 1 .. n : s[i] \in Slot
  BY ElementOfSeq, LenProperties
<1>2. /\ a \in Seq(Slot) /\ Len(a) = n - c - 1
      /\ \A i \in 1 .. n - c - 1 : a[i] = s[c + 1 + i]
  <2>1. \A i \in c + 2 .. n : s[i] \in Slot
    BY <1>1
  <2>2. /\ a \in Seq(Slot) /\ Len(a) = IF c + 2 <= n THEN n - (c + 2) + 1 ELSE 0
        /\ \A i \in 1 .. n - (c + 2) + 1 : a[i] = s[c + 2 + i - 1]
    <3> c + 2 \in Int /\ n \in Int
      BY <1>1
    <3> QED BY <2>1, SubSeqProperties
  <2> HIDE DEF a
  <2> QED BY <1>1, <2>2
<1>3. /\ b \in Seq(Slot) /\ Len(b) = c
      /\ \A i \in 1 .. c : b[i] = s[i]
  <2>1. \A i \in 1 .. c : s[i] \in Slot
    BY <1>1
  <2>2. /\ b \in Seq(Slot) /\ Len(b) = IF 1 <= c THEN c - 1 + 1 ELSE 0
        /\ \A i \in 1 .. c - 1 + 1 : b[i] = s[1 + i - 1]
    BY <2>1, SubSeqProperties
  <2> HIDE DEF b
  <2> QED BY <1>1, <2>2
<1>4. Round(s, c) = a \o b
  BY DEF Round
<1> HIDE DEF a, b
<1>5. /\ a \o b \in Seq(Slot) /\ Len(a \o b) = Len(a) + Len(b)
      /\ \A i \in 1 .. Len(a) + Len(b) :
           (a \o b)[i] = IF i <= Len(a) THEN a[i] ELSE b[i - Len(a)]
  BY <1>2, <1>3, ConcatProperties
<1>6. ASSUME NEW k \in 1 .. n - 1
      PROVE  (a \o b)[k] = IF k <= n - c - 1 THEN s[c + 1 + k]
                           ELSE s[k - (n - c - 1)]
  <2>1. /\ n - c - 1 \in Nat /\ Len(a) = n - c - 1 /\ Len(a) + Len(b) = n - 1
        /\ k \in 1 .. Len(a) + Len(b)
    BY <1>1, <1>2, <1>3
  <2>2. (a \o b)[k] = IF k <= n - c - 1 THEN a[k] ELSE b[k - (n - c - 1)]
    BY <1>5, <2>1
  <2>3. CASE k <= n - c - 1
    <3>1. k \in 1 .. n - c - 1
      BY <2>1, <2>3
    <3> QED BY <1>2, <2>2, <2>3, <3>1
  <2>4. CASE ~(k <= n - c - 1)
    <3>1. k - (n - c - 1) \in 1 .. c
      BY <1>1, <2>1, <2>4
    <3> QED BY <1>3, <2>2, <2>4, <3>1
  <2> QED BY <2>3, <2>4
<1> QED BY <1>1, <1>2, <1>3, <1>4, <1>5, <1>6

(* Saving the running thread in its slot and going on to the next one      *)
(* takes the head of the queue and appends that thread.                    *)
LEMMA RoundTurns ==
  ASSUME NEW s \in Seq(Slot), NEW c \in Nat, c < Len(s), Len(s) > 1,
         NEW r \in Slot,
         NEW d \in Nat, d = IF c + 1 >= Len(s) THEN 0 ELSE c + 1
  PROVE  LET q == Round(s, c)
             t == [s EXCEPT ![c + 1] = r]
         IN  /\ q # <<>> /\ t[d + 1] = Head(q)
             /\ Round(t, d) = Append(Tail(q), r)
<1> DEFINE q == Round(s, c)
           t == [s EXCEPT ![c + 1] = r]
           n == Len(s)
           later == Append(Tail(q), r)
<1>1. /\ n \in Nat /\ c + 1 \in 1 .. n /\ d + 1 \in 1 .. n /\ d # c
      /\ d < n
  BY LenProperties
<1>2. /\ t \in Seq(Slot) /\ Len(t) = n
      /\ \A j \in 1 .. n : t[j] = IF j = c + 1 THEN r ELSE s[j]
  BY <1>1, ExceptSeq
<1>3. /\ q \in Seq(Slot) /\ Len(q) = n - 1
      /\ \A k \in 1 .. n - 1 :
           q[k] = IF k <= n - c - 1 THEN s[c + 1 + k] ELSE s[k - (n - c - 1)]
  BY RoundProperties
<1> HIDE DEF q, t
<1>4. /\ Round(t, d) \in Seq(Slot) /\ Len(Round(t, d)) = n - 1
      /\ \A k \in 1 .. n - 1 :
           Round(t, d)[k] = IF k <= n - d - 1 THEN t[d + 1 + k]
                            ELSE t[k - (n - d - 1)]
  <2>1. t \in Seq(Slot) /\ d \in Nat /\ d < Len(t)
    BY <1>1, <1>2
  <2>2. /\ Round(t, d) \in Seq(Slot) /\ Len(Round(t, d)) = Len(t) - 1
        /\ \A k \in 1 .. Len(t) - 1 :
             Round(t, d)[k] = IF k <= Len(t) - d - 1 THEN t[d + 1 + k]
                              ELSE t[k - (Len(t) - d - 1)]
    BY <2>1, RoundProperties
  <2>3. Len(t) = n
    BY <1>2
  <2> HIDE DEF n
  <2> QED BY <2>2, <2>3
<1>5. q # <<>> /\ Head(q) = q[1]
  BY <1>1, <1>3
<1>6. q[1] = t[d + 1]
  BY <1>1, <1>2, <1>3
<1>7. /\ Tail(q) \in Seq(Slot) /\ Len(Tail(q)) = n - 2
      /\ \A i \in 1 .. n - 2 : Tail(q)[i] = q[i + 1]
  BY <1>1, <1>3, <1>5, HeadTailProperties
<1>8. /\ later \in Seq(Slot)
      /\ Len(later) = n - 1
      /\ \A i \in 1 .. n - 2 : later[i] = q[i + 1]
      /\ later[n - 1] = r
  BY <1>1, <1>7, AppendProperties
<1> HIDE DEF later
<1>9. ASSUME NEW k \in 1 .. n - 1
      PROVE  Round(t, d)[k] = later[k]
  <2>1. CASE k = n - 1
    <3>1. Round(t, d)[k] = t[c + 1]
      BY <1>1, <1>4, <2>1
    <3> QED BY <1>1, <1>2, <1>8, <2>1, <3>1
  <2>2. CASE k < n - 1
    <3>1. later[k] =
            IF k + 1 <= n - c - 1 THEN s[c + 2 + k] ELSE s[k + 1 - (n - c - 1)]
      <4>1. k \in 1 .. n - 2 /\ k + 1 \in 1 .. n - 1 /\ c + 1 + (k + 1) = c + 2 + k
        BY <1>1, <2>2
      <4>2. later[k] = q[k + 1]
        BY <1>8, <4>1
      <4> QED BY <1>3, <4>1, <4>2
    <3>2. CASE d = 0
      <4>1. n - c - 1 = 0 /\ k + 1 \in 1 .. n /\ k + 1 # c + 1
        BY <1>1, <2>2, <3>2
      <4>2. Round(t, d)[k] = t[k + 1]
        BY <1>1, <1>4, <2>2, <3>2
      <4>3. t[k + 1] = s[k + 1]
        BY <1>2, <4>1
      <4> QED BY <1>1, <3>1, <4>1, <4>2, <4>3
    <3>3. CASE d = c + 1
      <4>1. CASE k <= n - c - 2
        <5>1. Round(t, d)[k] = t[c + 2 + k]
          BY <1>1, <1>4, <2>2, <3>3, <4>1
        <5>2. t[c + 2 + k] = s[c + 2 + k]
          BY <1>1, <1>2, <3>3, <4>1
        <5> QED BY <1>1, <3>1, <4>1, <5>1, <5>2
      <4>2. CASE k > n - c - 2
        <5> DEFINE i == k + 1 - (n - c - 1)
        <5>1. i \in 1 .. n /\ i # c + 1 /\ i = k - (n - d - 1)
          BY <1>1, <2>2, <3>3, <4>2
        <5>2. Round(t, d)[k] = t[i]
          BY <1>1, <1>4, <2>2, <3>3, <4>2, <5>1
        <5>3. t[i] = s[i]
          BY <1>2, <5>1
        <5>4. later[k] = s[i]
          BY <1>1, <2>2, <3>1, <4>2
        <5> QED BY <5>2, <5>3, <5>4
      <4> QED BY <1>1, <4>1, <4>2
    <3> QED BY <3>2, <3>3
  <2> QED BY <1>1, <2>1, <2>2
<1>10. Round(t, d) = later
  BY <1>4, <1>8, <1>9, SeqEqual
<1> QED BY <1>5, <1>6, <1>10 DEF q, t, later

(* A context that is appended to the vector joins the queue after the      *)
(* threads whose slots follow the current one.                             *)
LEMMA RoundJoins ==
  ASSUME NEW s \in Seq(Slot), NEW c \in Nat, c < Len(s), NEW w \in Slot
  PROVE  LET q == Round(s, c)
         IN  \E m \in 0 .. Len(q) :
               Round(Append(s, w), c)
                 = SubSeq(q, 1, m) \o <<w>> \o SubSeq(q, m + 1, Len(q))
<1> DEFINE q == Round(s, c)
           n == Len(s)
           m == n - c - 1
           t == Append(s, w)
           a == SubSeq(q, 1, m)
           b == SubSeq(q, m + 1, Len(q))
           aw == a \o <<w>>
<1>1. n \in Nat /\ m \in Nat /\ m <= n - 1
  BY LenProperties
<1>2. /\ q \in Seq(Slot) /\ Len(q) = n - 1
      /\ \A k \in 1 .. n - 1 :
           q[k] = IF k <= n - c - 1 THEN s[c + 1 + k] ELSE s[k - (n - c - 1)]
  BY RoundProperties
<1>3. /\ t \in Seq(Slot) /\ Len(t) = n + 1
      /\ \A i \in 1 .. n : t[i] = s[i]
      /\ t[n + 1] = w
  BY AppendProperties
<1> HIDE DEF q, t
<1>4. /\ Round(t, c) \in Seq(Slot) /\ Len(Round(t, c)) = n
      /\ \A k \in 1 .. n :
           Round(t, c)[k] = IF k <= n - c THEN t[c + 1 + k] ELSE t[k - (n - c)]
  <2>1. c < Len(t)
    BY <1>1, <1>3
  <2>2. /\ Round(t, c) \in Seq(Slot) /\ Len(Round(t, c)) = Len(t) - 1
        /\ \A k \in 1 .. Len(t) - 1 :
             Round(t, c)[k] = IF k <= Len(t) - c - 1 THEN t[c + 1 + k]
                              ELSE t[k - (Len(t) - c - 1)]
    BY <1>3, <2>1, RoundProperties
  <2>3. Len(t) - 1 = n /\ Len(t) - c - 1 = n - c
    BY <1>1, <1>3
  <2> HIDE DEF n
  <2> QED BY <1>3, <2>2, <2>3
<1>5. \A k \in 1 .. n - 1 : q[k] \in Slot
  BY <1>2, ElementOfSeq
<1>6. /\ a \in Seq(Slot) /\ Len(a) = m
      /\ \A i \in 1 .. m : a[i] = q[i]
  <2> HIDE DEF m, n
  <2>1. \A i \in 1 .. m : q[i] \in Slot
    BY <1>1, <1>5
  <2>2. /\ a \in Seq(Slot) /\ Len(a) = IF 1 <= m THEN m - 1 + 1 ELSE 0
        /\ \A i \in 1 .. m - 1 + 1 : a[i] = q[1 + i - 1]
    BY <1>1, <2>1, SubSeqProperties
  <2> HIDE DEF a
  <2> QED BY <1>1, <2>2
<1>7. /\ b \in Seq(Slot) /\ Len(b) = c
      /\ \A i \in 1 .. c : b[i] = q[m + i]
  <2>1. \A i \in m + 1 .. Len(q) : q[i] \in Slot
    BY <1>1, <1>2, <1>5
  <2>2. m + 1 \in Int /\ Len(q) \in Int
    BY <1>1, <1>2
  <2>3. /\ b \in Seq(Slot)
        /\ Len(b) = IF m + 1 <= Len(q) THEN Len(q) - (m + 1) + 1 ELSE 0
        /\ \A i \in 1 .. Len(q) - (m + 1) + 1 : b[i] = q[m + 1 + i - 1]
    <3> HIDE DEF m
    <3> QED BY <2>1, <2>2, SubSeqProperties
  <2>4. Len(q) - (m + 1) + 1 = c
    BY <1>1, <1>2
  <2> HIDE DEF b
  <2> QED BY <1>1, <1>2, <2>3, <2>4
<1> HIDE DEF a, b
<1>8. /\ aw \in Seq(Slot) /\ Len(aw) = m + 1
      /\ \A i \in 1 .. m : aw[i] = q[i]
      /\ aw[m + 1] = w
  <2> HIDE DEF m
  <2>1. <<w>> \in Seq(Slot) /\ Len(<<w>>) = 1 /\ <<w>>[1] = w
    OBVIOUS
  <2>2. /\ aw \in Seq(Slot) /\ Len(aw) = Len(a) + Len(<<w>>)
        /\ \A i \in 1 .. Len(a) + Len(<<w>>) :
             aw[i] = IF i <= Len(a) THEN a[i] ELSE <<w>>[i - Len(a)]
    BY <1>6, <2>1, ConcatProperties
  <2> HIDE DEF aw
  <2> QED BY <1>1, <1>6, <2>1, <2>2
<1> HIDE DEF aw
<1> DEFINE joined == aw \o b
<1>9. /\ joined \in Seq(Slot) /\ Len(joined) = n
      /\ \A i \in 1 .. n : joined[i] = IF i <= m + 1 THEN aw[i] ELSE b[i - (m + 1)]
  <2>1. /\ joined \in Seq(Slot) /\ Len(joined) = Len(aw) + Len(b)
        /\ \A i \in 1 .. Len(aw) + Len(b) :
             joined[i] = IF i <= Len(aw) THEN aw[i] ELSE b[i - Len(aw)]
    BY <1>7, <1>8, ConcatProperties
  <2>2. Len(aw) = m + 1 /\ Len(aw) + Len(b) = n
    BY <1>1, <1>7, <1>8
  <2> HIDE DEF joined, m, n
  <2> QED BY <2>1, <2>2
<1> HIDE DEF joined
<1> DEFINE round == Round(t, c)
<1>10. ASSUME NEW k \in 1 .. n PROVE round[k] = joined[k]
  <2> HIDE DEF round
  <2>0. round[k] = IF k <= n - c THEN t[c + 1 + k] ELSE t[k - (n - c)]
    BY <1>4 DEF round
  <2>1. CASE k <= m
    <3>1. joined[k] = q[k]
      BY <1>1, <1>8, <1>9, <2>1
    <3>2. q[k] = s[c + 1 + k]
      BY <1>1, <1>2, <2>1
    <3>3. t[c + 1 + k] = s[c + 1 + k]
      BY <1>1, <1>3, <2>1
    <3> QED BY <1>1, <2>0, <2>1, <3>1, <3>2, <3>3
  <2>2. CASE k = m + 1
    <3>1. joined[k] = w
      <4> HIDE DEF m, n
      <4> QED BY <1>1, <1>8, <1>9, <2>2
    <3>2. round[k] = t[n + 1]
      BY <1>1, <2>0, <2>2
    <3> QED BY <1>3, <3>1, <3>2
  <2>3. CASE k > m + 1
    <3> DEFINE i == k - (m + 1)
    <3>1. i \in 1 .. c /\ i \in 1 .. n /\ i = k - (n - c)
      BY <1>1, <2>3
    <3>2. joined[k] = b[i]
      BY <1>1, <1>9, <2>3
    <3>3. b[i] = q[m + i]
      BY <1>7, <3>1
    <3>4. q[m + i] = s[m + i - (n - c - 1)]
      BY <1>1, <1>2, <3>1
    <3>5. m + i - (n - c - 1) = i
      BY <1>1, <3>1
    <3>6. round[k] = t[i]
      BY <1>1, <2>0, <2>3, <3>1
    <3> HIDE DEF i, m
    <3> QED BY <1>3, <3>1, <3>2, <3>3, <3>4, <3>5, <3>6
  <2> QED BY <1>1, <2>1, <2>2, <2>3
<1>11. Round(t, c) = aw \o b
  BY <1>4, <1>9, <1>10, SeqEqual DEF joined
<1>12. m \in 0 .. Len(q)
  BY <1>1, <1>2
<1> QED BY <1>11, <1>12 DEF q, t, a, b, aw

-----------------------------------------------------------------------------
(* What the steps of Threading do to the queue.                            *)

LEMMA WaitingIsRound ==
  ASSUME contexts \in Seq(Slot), currentThreadId \in Nat, contexts # <<>>
  PROVE  Waiting = Round(contexts, currentThreadId)
BY DEF Waiting, Round

LEMMA NobodyGone ==
  ASSUME IInv, OneClient
  PROVE  gone = {}
BY DEF IInv, TypeOK, GoneInv, OneClient

LEMMA SwitchIsSwitch ==
  ASSUME IInv, OneClient, boot = LastStage, SwitchThread
  PROVE  Rotation!Switch \/ UNCHANGED <<running, Waiting>>
<1>1. /\ contexts \in Seq(Slot) /\ currentThreadId \in Nat
      /\ currentThreadId < Len(contexts) /\ running \in Slot
  BY NobodyGone DEF IInv, TypeOK, SlotInv, CurrentSlot, LastStage, Slot
<1>2. CASE Len(contexts) > 1
  <2> DEFINE d == NextId(currentThreadId)
  <2>1. /\ contexts' = Saved /\ currentThreadId' = d /\ running' = Saved[d + 1]
    BY <1>2, Zenon DEF SwitchThread
  <2>2. /\ d \in Nat
        /\ d = IF currentThreadId + 1 >= Len(contexts) THEN 0
               ELSE currentThreadId + 1
    BY <1>1 DEF NextId
  <2> HIDE DEF d
  <2>3. Saved = [contexts EXCEPT ![currentThreadId + 1] = running]
    BY DEF Saved
  <2>4. LET q == Round(contexts, currentThreadId)
        IN  /\ q # <<>> /\ Saved[d + 1] = Head(q)
            /\ Round(Saved, d) = Append(Tail(q), running)
    BY <1>1, <1>2, <2>2, <2>3, RoundTurns
  <2>5. Waiting = Round(contexts, currentThreadId)
    BY <1>1, <1>2, WaitingIsRound
  <2>6. Waiting' = Round(Saved, d)
    <3>1. Len(Saved) = Len(contexts)
      BY <1>1, <2>3
    <3>2. contexts' # <<>>
      BY <1>2, <2>1, <3>1
    <3> QED BY <2>1, <3>2 DEF Waiting, Round
  <2> QED BY <2>1, <2>4, <2>5, <2>6 DEF Rotation!Switch
<1>3. CASE ~(Len(contexts) > 1)
  BY <1>3 DEF SwitchThread, vec, cpu, Waiting
<1> QED BY <1>2, <1>3

LEMMA CommitIsAdmit ==
  ASSUME IInv, OneClient, NEW t \in Thread, Commit(t)
  PROVE  (\E w \in Workers : Rotation!Admit(w)) \/ UNCHANGED <<running, Waiting>>
<1>1. t = Main /\ running = Main /\ pc[Main] = "commit"
  BY DEF OneClient, Commit, Thread
<1>2. CASE SetGate(t)
  BY <1>2 DEF SetGate, Commit, cpu, Waiting
<1>3. CASE Erase(t)
  BY <1>1, <1>3 DEF Erase, IInv, SectionInv
<1>4. CASE PushBack(t)
  <2> DEFINE w == op[Main].thread
  <2>1. /\ contexts' = Append(contexts, w) /\ w \in Workers \ created
        /\ UNCHANGED <<running, currentThreadId>>
    BY <1>1, <1>4 DEF PushBack, AtBack, Commit, IInv, SectionInv, cpu
  <2> HIDE DEF w
  <2>2. boot > 1
    <3>1. op[Main] # GateOp
      BY <1>1, <1>4 DEF PushBack, GateOp
    <3>2. ~(boot < LastStage) /\ boot \in Nat
      BY <3>1 DEF IInv, BootInv, TypeOK
    <3> QED BY <3>2 DEF LastStage
  <2>3. /\ contexts \in Seq(Slot) /\ currentThreadId \in Nat
        /\ currentThreadId < Len(contexts) /\ w \in Slot
    BY <2>1, <2>2, NobodyGone DEF IInv, TypeOK, SlotInv, CurrentSlot, Slot, Thread
  <2>4. Waiting = Round(contexts, currentThreadId)
    BY <2>3, WaitingIsRound
  <2>5. Waiting' = Round(Append(contexts, w), currentThreadId)
    <3>1. Append(contexts, w) # <<>>
      BY <2>3, AppendProperties
    <3> QED BY <2>1, <3>1 DEF Waiting, Round
  <2>6. \E m \in 0 .. Len(Waiting) :
          Waiting' = SubSeq(Waiting, 1, m) \o <<w>>
                       \o SubSeq(Waiting, m + 1, Len(Waiting))
    BY <2>3, <2>4, <2>5, RoundJoins
  <2>7. running # w
    BY <1>1, <2>1, ThreadAssumption
  <2>8. \A i \in DOMAIN Waiting : Waiting[i] # w
    <3> DEFINE c == currentThreadId
               n == Len(contexts)
    <3>1. /\ Waiting \in Seq(Slot) /\ Len(Waiting) = n - 1
          /\ \A k \in 1 .. n - 1 :
               Waiting[k] = IF k <= n - c - 1 THEN contexts[c + 1 + k]
                            ELSE contexts[k - (n - c - 1)]
      BY <2>3, <2>4, RoundProperties
    <3>2. \A i \in 1 .. n : i # c + 1 => contexts[i] # w
      <4> SUFFICES ASSUME NEW i \in 1 .. n, i # c + 1 PROVE contexts[i] # w
        OBVIOUS
      <4>1. DOMAIN Owner = 1 .. n /\ Owner[i] = contexts[i]
        BY DEF Owner
      <4>2. Owner[i] \in created \cup {Main}
        BY <2>2, <4>1, NobodyGone DEF IInv, SlotInv
      <4> QED BY <1>1, <2>1, <2>7, <4>1, <4>2
    <3> SUFFICES ASSUME NEW k \in 1 .. n - 1 PROVE Waiting[k] # w
      BY <3>1, LenProperties
    <3>3. n \in Nat /\ c \in Nat /\ c < n
      BY <2>3, LenProperties
    <3>4. CASE k <= n - c - 1
      <4>1. c + 1 + k \in 1 .. n /\ c + 1 + k # c + 1
        BY <3>3, <3>4
      <4> QED BY <3>1, <3>2, <3>4, <4>1
    <3>5. CASE ~(k <= n - c - 1)
      <4> DEFINE i == k - (n - c - 1)
      <4>1. i \in 1 .. n /\ i # c + 1 /\ Waiting[k] = contexts[i]
        BY <3>1, <3>3, <3>5
      <4> HIDE DEF i
      <4> QED BY <3>2, <4>1
    <3> QED BY <3>4, <3>5
  <2> QED BY <2>1, <2>6, <2>7, <2>8 DEF Rotation!Admit
<1> QED BY <1>2, <1>3, <1>4 DEF Commit

\* Every other step leaves the vector and the CPU's thread alone.
LEMMA StepIsRound ==
  ASSUME IInv, OneClient, [Next]_vars
  PROVE  Rotation!Next \/ UNCHANGED <<running, Waiting>>
<1>0. ASSUME UNCHANGED <<running, contexts, currentThreadId>>
      PROVE  UNCHANGED <<running, Waiting>>
  BY <1>0 DEF Waiting
<1>1. CASE TimerInterrupt
  BY <1>1, SwitchIsSwitch DEF TimerInterrupt, Rotation!Next, IInv, BootInv
<1>2. ASSUME NEW t \in Thread, Reschedule(t)
      PROVE  Rotation!Next \/ UNCHANGED <<running, Waiting>>
  BY <1>2, SwitchIsSwitch DEF Reschedule, Rotation!Next
<1>3. ASSUME NEW t \in Thread, Section(t)
      PROVE  Rotation!Next \/ UNCHANGED <<running, Waiting>>
  <2>1. CASE Commit(t)
    BY <2>1, CommitIsAdmit DEF Rotation!Next
  <2>2. CASE DisableLoad(t) \/ DisableStore(t) \/ Cli(t) \/ Enter(t)
             \/ EnableLoad(t) \/ EnableStore(t) \/ Sti(t)
    BY <1>0, <2>2 DEF DisableLoad, DisableStore, Cli, Enter, EnableLoad,
       EnableStore, Sti, cpu, vec
  <2> QED BY <1>3, <2>1, <2>2 DEF Section
<1>4. ASSUME NEW w \in Workers, CreateThread(w) \/ disposeThread(w)
      PROVE  UNCHANGED <<running, Waiting>>
  BY <1>0, <1>4 DEF CreateThread, disposeThread, cpu, vec
<1>5. CASE TakeKeys \/ KeysTaken
  BY <1>0, <1>5 DEF TakeKeys, KeysTaken, vec
<1>6. CASE RegisterGate \/ FirstEnable \/ UnmaskTimer
  BY <1>0, <1>6 DEF RegisterGate, FirstEnable, UnmaskTimer, cpu, vec
<1>7. CASE InitializeThreading
  <2>1. contexts = <<>> /\ currentThreadId = 0
    BY <1>7 DEF InitializeThreading, Stage, IInv, SlotInv
  <2>2. contexts' = <<NoContext>> /\ UNCHANGED <<running, currentThreadId>>
    BY <1>7 DEF InitializeThreading, cpu
  <2>3. Waiting = <<>>
    BY <2>1 DEF Waiting
  <2>4. Waiting' = <<>>
    <3> DEFINE fresh == <<NoContext>>
               c == currentThreadId
    <3>1. fresh \in Seq(Slot) /\ Len(fresh) = 1 /\ fresh # <<>>
      BY DEF Slot
    <3>2. Waiting' = Round(fresh, c)
      BY <2>1, <2>2, <3>1 DEF Waiting, Round
    <3>3. c \in Nat /\ c < Len(fresh)
      BY <2>1, <3>1
    <3> HIDE DEF fresh, c
    <3>4. Round(fresh, c) \in Seq(Slot) /\ Len(Round(fresh, c)) = Len(fresh) - 1
      BY <3>1, <3>3, RoundProperties
    <3> QED BY <3>1, <3>2, <3>4, EmptySeq
  <2> QED BY <2>2, <2>3, <2>4
<1>8. CASE UNCHANGED vars
  BY <1>0, <1>8 DEF vars, cpu, vec
<1> QED
  BY <1>1, <1>2, <1>3, <1>4, <1>5, <1>6, <1>7, <1>8 DEF Next, Boot

(* The scheduler implements a round robin for any number of threads: every *)
(* switch runs the thread that has waited longest, no thread leaves the    *)
(* queue, and a new one delays the others by one turn at most              *)
(* (threading.cpp:49-68, 82-103).                                                 *)
THEOREM SchedulerIsRoundRobin == ASSUME NoReturn PROVE Spec => RefinesRoundRobin
<1>1. Init => Rotation!Init
  BY DEF Init, Rotation!Init, Waiting
<1>2. IInv /\ OneClient /\ [Next]_vars => [Rotation!Next]_<<running, Waiting>>
  BY StepIsRound
<1> QED
  BY <1>1, <1>2, OneClientInvariance, PTL DEF Spec, RefinesRoundRobin, Rotation!Spec
=============================================================================
