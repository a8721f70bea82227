--------------------------- MODULE MemoryManager ---------------------------
(***************************************************************************)
(* The kernel's own heap, kernel/memory.cpp: an arena cut into units, each *)
(* a header, a work area and a Mark (the boundary tag) behind it; the free *)
(* and the used units are two doubly linked lists threaded through the     *)
(* headers.  Memory is kept by address, so that a header stays behind in   *)
(* memory when its unit is merged away, as it does in the program.         *)
(*                                                                         *)
(* The class takes no lock: a call is one step.  size + 16 wraps at 2^32   *)
(* in the program; RequestAssumption keeps requests below that.            *)
(***************************************************************************)
EXTENDS Integers, FiniteSetsExt

CONSTANTS
  Base,     \* address of the arena
  Size,     \* its length in bytes
  Requests  \* the sizes callers ask for, in bytes

NULL == 0
UnitSize == 16  \* sizeof(Unit)
MarkSize == 8   \* sizeof(Mark)

ASSUME ArenaAssumption ==
  /\ Base \in Nat \ {0} /\ Base % 8 = 0
  /\ Size \in Nat /\ Size % 8 = 0
  /\ Size >= 4 * UnitSize + 3 * MarkSize

ASSUME RequestAssumption ==
  /\ Requests \subseteq Nat \ {0}
  /\ \A n \in Requests : n < 2^30

End == Base + Size
Addr == {a \in Base .. End - 1 : a % 8 = 0}
List == {"free", "used"}

VARIABLES
  heap,   \* headers and marks by address, and the head and tail of the lists
  held,   \* the blocks callers hold: pointer -> size they asked for
  stale,  \* pointers that were released and not handed out since
  state   \* "running", or how the program came to a stop
vars == <<heap, held, stale, state>>

-----------------------------------------------------------------------------
(* struct Unit and struct Mark *)
MarkOf(h, u) == u + h.unit[u].size
NextUnit(h, u) == MarkOf(h, u) + MarkSize
Work(u) == u + UnitSize
WorkSize(h, u) == h.unit[u].size - UnitSize

SetSize(h, u, n) ==
  [h EXCEPT !.unit[u].size = n, !.mark[u + n].size = n]

NewUnit(h, u, n) ==
  SetSize([h EXCEPT !.unit[u] = [prev |-> NULL, next |-> NULL, size |-> n,
                                 magic |-> "plain"]], u, n)

SetOwner(h, u, l) == [h EXCEPT !.mark[MarkOf(h, u)].owner = l]

Panic(h) == [h EXCEPT !.panic = TRUE]

-----------------------------------------------------------------------------
(* struct UnitList.  A unit's magic says which list it is on. *)
insert(h, l, u) ==
  IF h.unit[u].magic # "plain" THEN Panic(h)
  ELSE LET first == h.list[l].head
       IN  SetOwner(
             [h EXCEPT !.unit = [a \in Addr |->
                 CASE a = u     -> [h.unit[a] EXCEPT !.magic = l, !.prev = NULL,
                                                     !.next = first]
                   [] a = first -> [h.unit[a] EXCEPT !.prev = u]
                   [] OTHER     -> h.unit[a]],
               !.list[l] = [head |-> u, tail |-> IF first = NULL
                                                 THEN u ELSE @.tail]],
             u, l)

\* Mutant: the tail is not moved.
OnlyHead(ends, u, p, n) ==
  [ends EXCEPT !.head = IF u = @ THEN n ELSE @]
Ends(ends, u, p, n) ==
  [head |-> IF u = ends.head THEN n ELSE ends.head,
   tail |-> IF u = ends.tail THEN p ELSE ends.tail]

remove(h, l, u) ==
  IF h.unit[u].magic # l THEN Panic(h)
  ELSE LET p == h.unit[u].prev
           n == h.unit[u].next
       IN  [h EXCEPT !.unit = [a \in Addr |->
                 IF a = u
                 THEN [h.unit[a] EXCEPT !.magic = "plain", !.prev = NULL,
                                        !.next = NULL]
                 ELSE [h.unit[a] EXCEPT !.next = IF a = p THEN n ELSE @,
                                        !.prev = IF a = n THEN p ELSE @]],
             !.list[l] = Ends(@, u, p, n)]

replace(h, l, fm, to) ==
  IF h.unit[to].magic # "plain" \/ h.unit[fm].magic # l THEN Panic(h)
  ELSE LET p == h.unit[fm].prev
           n == h.unit[fm].next
       IN  SetOwner(
             [h EXCEPT !.unit = [a \in Addr |->
                 CASE a = to -> [h.unit[a] EXCEPT !.magic = l, !.prev = p,
                                                  !.next = n]
                   [] a = fm -> [h.unit[a] EXCEPT !.magic = "plain",
                                                  !.prev = NULL, !.next = NULL]
                   [] OTHER  -> [h.unit[a] EXCEPT
                                   !.next = IF a = p THEN to ELSE @,
                                   !.prev = IF a = n THEN to ELSE @]],
               !.list[l] = Ends(@, fm, to, to)],
             to, l)

-----------------------------------------------------------------------------
(* The constructor: a used unit without work area at either end keeps      *)
(* Release from looking beyond the arena.                                  *)
NoUnit == [prev |-> NULL, next |-> NULL, size |-> 0, magic |-> "none"]
NoMark == [owner |-> "none", size |-> 0]

Blank ==
  [unit |-> [a \in Addr |-> NoUnit],
   mark |-> [a \in Addr |-> NoMark],
   list |-> [l \in List |-> [head |-> NULL, tail |-> NULL]],
   panic |-> FALSE]

FirstFree == Base + UnitSize + MarkSize
FreeSize == Size - 3 * (UnitSize + MarkSize) + UnitSize
LastUnit == FirstFree + FreeSize + MarkSize

Constructed ==
  LET h1 == insert(NewUnit(Blank, Base, UnitSize), "used", Base)
      h2 == insert(NewUnit(h1, FirstFree, FreeSize), "free", FirstFree)
  IN  insert(NewUnit(h2, LastUnit, UnitSize), "used", LastUnit)

-----------------------------------------------------------------------------
(* Allocate *)
\* Mutant: size += sizeof(Unit) is missing.
WithoutHeader(n) == ((n + 7) \div 8) * 8
Rounded(n) == ((n + UnitSize + 7) \div 8) * 8

MaxUnits == Size \div (UnitSize + MarkSize)

\* The i-th unit of a list, NULL beyond its end.
Nth(h, l) ==
  LET nth[i \in 0 .. MaxUnits] ==
        IF i = 0 THEN h.list[l].head
        ELSE IF nth[i-1] = NULL THEN NULL ELSE h.unit[nth[i-1]].next
  IN  nth

\* The first free unit that is large enough, or NULL.
FirstFit(h, size) ==
  LET nth == Nth(h, "free")
  IN  nth[Min({i \in 0 .. MaxUnits : \/ nth[i] = NULL
                                 \/ h.unit[nth[i]].size >= size})]

Remainder(h, p, size) == h.unit[p].size - size - MarkSize

WorthCutting(h, p, size) ==
  h.unit[p].size - size >= UnitSize + MarkSize + 16

\* Mutant: p keeps its old size when it is cut.
CutAndKeepSize(h, p, size) ==
  LET f == p + size + MarkSize
  IN  insert(insert(remove(NewUnit(h, f, Remainder(h, p, size)), "free", p),
                    "free", f), "used", p)
Cut(h, p, size) ==
  LET f == p + size + MarkSize
  IN  insert(SetSize(insert(remove(NewUnit(h, f, Remainder(h, p, size)),
                                   "free", p), "free", f), p, size), "used", p)

Given(h, p, size) ==
  IF WorthCutting(h, p, size) THEN Cut(h, p, size)
  ELSE insert(remove(h, "free", p), "used", p)

(* The caller writes over the whole of its block: the headers and marks    *)
(* that lay there are gone.                                                *)
Overwritten(h, p) ==
  LET work == {a \in Addr : Work(p) <= a /\ a < MarkOf(h, p)}
  IN  [h EXCEPT !.unit = [a \in Addr |-> IF a \in work THEN NoUnit ELSE @[a]],
                !.mark = [a \in Addr |-> IF a \in work THEN NoMark ELSE @[a]]]

(* Nothing fits: the end of the list is reached and reported, but when the *)
(* list is empty the search reads p->size through NULL before it tests p.  *)
Failure(h) == IF h.list["free"].head = NULL THEN "null read" ELSE "reported"

Allocate(n) ==
  /\ state = "running"
  /\ LET p == FirstFit(heap, Rounded(n))
     IN  IF p = NULL
         THEN /\ state' = Failure(heap)
              /\ UNCHANGED <<heap, held, stale>>
         ELSE /\ heap' = Overwritten(Given(heap, p, Rounded(n)), p)
              /\ held' = [q \in DOMAIN held \cup {Work(p)} |->
                            IF q = Work(p) THEN n ELSE held[q]]
              /\ stale' = stale \ {Work(p)}
              /\ UNCHANGED state

-----------------------------------------------------------------------------
(* Release merges the unit with a free unit before it, behind it, or both; *)
(* the Mark in front tells the first, the Mark of the unit behind the      *)
(* second.                                                                 *)
Grow(h, u, n) == SetOwner(SetSize(h, u, n), u, "free")

MergeBoth(h, p, q, n) ==
  Grow(remove(h, "free", n), q,
       h.unit[q].size + h.unit[p].size + h.unit[n].size + 2 * MarkSize)

\* Mutant: a unit with a free unit in front of it is not merged.
NeverBefore(h, p) == FALSE
FreeBefore(h, p) == h.mark[p - MarkSize].owner = "free"
FreeBehind(h, p) == h.mark[MarkOf(h, NextUnit(h, p))].owner = "free"

Merged(h, p) ==
  LET q == p - MarkSize - h.mark[p - MarkSize].size
      n == NextUnit(h, p)
  IN  CASE FreeBefore(h, p) /\ FreeBehind(h, p) -> MergeBoth(h, p, q, n)
        [] FreeBefore(h, p) /\ ~FreeBehind(h, p) ->
             Grow(h, q, h.unit[q].size + h.unit[p].size + MarkSize)
        [] ~FreeBefore(h, p) /\ FreeBehind(h, p) ->
             replace(SetSize(h, p, h.unit[p].size + h.unit[n].size + MarkSize),
                     "free", n, p)
        [] OTHER -> insert(h, "free", p)

\* Mutant: the check of the magic number in remove is missing.
TakenUnchecked(h, p) == remove([h EXCEPT !.unit[p].magic = "used"], "used", p)
Taken(h, p) == remove(h, "used", p)

Released(h, q) ==
  LET p == q - UnitSize
      t == Taken(h, p)
  IN  IF t.panic THEN t ELSE Merged(t, p)

Release(q) ==
  /\ state = "running" /\ q \in DOMAIN held
  /\ heap' = Released(heap, q)
  /\ held' = [r \in DOMAIN held \ {q} |-> held[r]]
  /\ stale' = stale \cup {q}
  /\ state' = IF heap'.panic THEN "panic" ELSE state

(* A caller releases a pointer for the second time.  Once the bytes of its *)
(* header belong to another caller their value is not the heap's: left out.*)
InWorkArea(a) ==
  \E q \in DOMAIN held : q <= a /\ a < MarkOf(heap, q - UnitSize)

ReleaseAgain(q) ==
  /\ state = "running" /\ q \in stale
  /\ ~InWorkArea(q - UnitSize)
  /\ heap' = Released(heap, q)
  /\ state' = IF heap'.panic THEN "panic" ELSE state
  /\ UNCHANGED <<held, stale>>

(* Reallocate(_p, size) with neither argument zero: the whole old work     *)
(* area is copied, whatever the size of the new one, and a copy that does  *)
(* not fit runs over the Mark and the unit behind it ("overrun").          *)
Reallocate(q, n) ==
  /\ state = "running" /\ q \in DOMAIN held
  /\ LET p == FirstFit(heap, Rounded(n))
     IN  IF p = NULL
         THEN /\ state' = Failure(heap)
              /\ UNCHANGED <<heap, held, stale>>
         ELSE LET h == Overwritten(Given(heap, p, Rounded(n)), p)
              IN  /\ heap' = Released(h, q)
                  /\ held' = [r \in (DOMAIN held \ {q}) \cup {Work(p)} |->
                                IF r = Work(p) THEN n ELSE held[r]]
                  /\ stale' = (stale \cup {q}) \ {Work(p)}
                  /\ state' = IF WorkSize(h, p) < WorkSize(heap, q - UnitSize)
                              THEN "overrun" ELSE state

-----------------------------------------------------------------------------
Init ==
  /\ heap = Constructed
  /\ held = [a \in {} |-> 0]
  /\ stale = {}
  /\ state = "running"

Next ==
  \/ \E n \in Requests : Allocate(n)
  \/ \E q \in DOMAIN held : Release(q)
  \/ \E q \in stale : ReleaseAgain(q)
  \/ \E q \in DOMAIN held, n \in Requests : Reallocate(q, n)

Spec == Init /\ [][Next]_vars

-----------------------------------------------------------------------------
On(l) == {u \in Addr : heap.unit[u].magic = l}
Units == On("free") \cup On("used")

(* Memory holds headers and marks, and lists begin and end at units. *)
TypeOK ==
  /\ heap.unit \in [Addr -> [prev : Addr \cup {NULL}, next : Addr \cup {NULL},
                             size : 0 .. Size,
                             magic : List \cup {"plain", "none"}]]
  /\ heap.mark \in [Addr -> [owner : List \cup {"none"}, size : 0 .. Size]]
  /\ heap.list \in [List -> [head : Addr \cup {NULL}, tail : Addr \cup {NULL}]]
  /\ heap.panic \in BOOLEAN
  /\ \A q \in DOMAIN held : q \in Addr /\ held[q] \in Requests
  /\ stale \subseteq Addr
  /\ state \in {"running", "panic", "reported", "null read", "overrun"}

(* The units cover the arena without a gap and without overlap, and each   *)
(* Mark repeats its unit's size and list (Dump reports a broken one).      *)
Tiled ==
  /\ Base \in Units
  /\ \A u \in Units :
       /\ NextUnit(heap, u) \in Units \cup {End}
       /\ heap.mark[MarkOf(heap, u)] = [owner |-> heap.unit[u].magic,
                                        size |-> heap.unit[u].size]
       /\ \A v \in Units : u < v => NextUnit(heap, u) <= v

(* prev and next are inverse to each other, head and tail are the ends,    *)
(* and following next from head meets every unit of the list: insert,      *)
(* remove and replace never lose or cross a link.                          *)
Linked ==
  \A l \in List :
    LET nth == Nth(heap, l)
    IN  /\ {nth[i] : i \in 0 .. MaxUnits} \ {NULL} = On(l)
        /\ \A u \in On(l) :
             /\ u = heap.list[l].head <=> heap.unit[u].prev = NULL
             /\ u = heap.list[l].tail <=> heap.unit[u].next = NULL
             /\ heap.unit[u].next # NULL =>
                  heap.unit[heap.unit[u].next].prev = u

(* Two free units are never neighbours: Release always merges them, so no  *)
(* request fails for want of merging.                                      *)
NoFreeNeighbours ==
  \A u \in On("free") : NextUnit(heap, u) \notin On("free")

(* A caller's block is a used unit, large enough for what was asked; and   *)
(* only the two sentinels are used without a caller.                       *)
CallersOwnUsed ==
  /\ On("used") = {q - UnitSize : q \in DOMAIN held} \cup {Base, LastUnit}
  /\ \A q \in DOMAIN held : WorkSize(heap, q - UnitSize) >= held[q]

(* Every byte of the arena is accounted for: it is in one unit, and the    *)
(* unit is free or has an owner.  So nothing leaks: once every block is    *)
(* back the arena is one free unit again.                                  *)
Accounted == Tiled /\ CallersOwnUsed

(* Releasing a pointer twice panics before any list is touched, and       *)
(* nothing else makes the magic-number checks panic.                       *)
DoubleReleaseCaught ==
  [][/\ (\E q \in stale : ReleaseAgain(q)) <=> state' = "panic"
     /\ state' = "panic" => [heap' EXCEPT !.panic = FALSE] = heap]_vars

(* The heap is an allocator of disjoint blocks. *)
Promise == INSTANCE Allocator WITH
             Arena <- FirstFree .. LastUnit - 1, blocks <- held
RefinesAllocator == Promise!Spec
=============================================================================
