------------------------ MODULE MemoryManager_proofs ------------------------
(***************************************************************************)
(* Proofs about module MemoryManager, for an arena of any size and any     *)
(* sizes of requests: the units tile the arena, each of them is held, free *)
(* or one of the two at the ends, the lists are never broken, free         *)
(* neighbours are always merged, a double release is caught, and the heap  *)
(* implements module Allocator.                                            *)
(***************************************************************************)
EXTENDS MemoryManager, FiniteSetTheorems, WellFoundedInduction, TLAPS

Magic == List \cup {"plain", "none"}
Link == Addr \cup {NULL}
UnitState == [prev : Link, next : Link, size : 0 .. Size, magic : Magic]
MarkState == [owner : List \cup {"none"}, size : 0 .. Size]
EndState == [head : Link, tail : Link]
HeapState ==
  [unit : [Addr -> UnitState], mark : [Addr -> MarkState],
   list : [List -> EndState], panic : BOOLEAN]

(* The list l of heap h is the sequence s of n units.                      *)
ListIs(h, l, n, s) ==
  /\ n \in Nat /\ s \in [1 .. n -> Addr]
  /\ \A i, j \in 1 .. n : s[i] = s[j] => i = j
  /\ \A i \in 1 .. n : h.unit[s[i]].magic = l
  /\ \A u \in Addr : h.unit[u].magic = l => \E i \in 1 .. n : s[i] = u
  /\ h.list[l].head = IF n = 0 THEN NULL ELSE s[1]
  /\ h.list[l].tail = IF n = 0 THEN NULL ELSE s[n]
  /\ \A i \in 1 .. n :
       /\ h.unit[s[i]].prev = IF i = 1 THEN NULL ELSE s[i - 1]
       /\ h.unit[s[i]].next = IF i = n THEN NULL ELSE s[i + 1]
Listed(h, l) == \E n, s : ListIs(h, l, n, s)
Lists(h) == \A l \in List : Listed(h, l)

-----------------------------------------------------------------------------
(* Numbers and addresses.                                                  *)

\* A set of natural numbers has a least element.
LEMMA LeastNumber ==
  ASSUME NEW T, T \subseteq Nat, T # {}
  PROVE  \E x \in T : \A y \in T : x <= y
<1> DEFINE R == {p \in Nat \X Nat : p[1] < p[2]}
<1>1. IsWellFoundedOn(R, Nat)
  BY NatLessThanWellFounded DEF OpToRel
<1>2. \A x, y \in Nat : y < x => <<y, x>> \in R
  <2> SUFFICES ASSUME NEW x \in Nat, NEW y \in Nat, y < x
               PROVE  <<y, x>> \in R
    OBVIOUS
  <2> DEFINE p == <<y, x>>
  <2>1. p \in Nat \X Nat /\ p[1] < p[2]
    OBVIOUS
  <2> HIDE DEF p
  <2>2. p \in R
    BY <2>1
  <2> QED BY <2>2 DEF p
<1> HIDE DEF R
<1>3. PICK x \in T : \A y \in T : <<y, x>> \notin R
  BY <1>1, WFMin
<1>4. \A y \in T : ~(y < x)
  BY <1>2, <1>3
<1> QED BY <1>3, <1>4

LEMMA MinIsLeast ==
  ASSUME NEW T, T \subseteq Nat, T # {}
  PROVE  Min(T) \in T /\ \A y \in T : Min(T) <= y
BY LeastNumber DEF Min

LEMMA Arena ==
  /\ Base \in Nat /\ Base > 0 /\ Base % 8 = 0
  /\ Size \in Nat /\ Size % 8 = 0 /\ Size >= 88
  /\ End \in Nat /\ End = Base + Size /\ End % 8 = 0
  /\ NULL = 0 /\ NULL \notin Addr
  /\ UnitSize = 16 /\ MarkSize = 8
  /\ \A a : a \in Addr <=> a \in Nat /\ Base <= a /\ a < End /\ a % 8 = 0
BY ArenaAssumption DEF End, Addr, NULL, UnitSize, MarkSize

LEMMA Multiples ==
  ASSUME NEW a \in Int, NEW b \in Int, a % 8 = 0, b % 8 = 0
  PROVE  (a + b) % 8 = 0 /\ (a - b) % 8 = 0
OBVIOUS

LEMMA ListFacts ==
  /\ "free" \in List /\ "used" \in List /\ "plain" \notin List
  /\ "none" \notin List /\ \A l \in List : l \in Magic
  /\ \A l, k \in List : k # l => (l = "free" <=> k = "used")
BY DEF List, Magic

-----------------------------------------------------------------------------
(* What the methods do to each field.                                      *)


LEMMA HeapParts ==
  ASSUME NEW h \in HeapState
  PROVE  /\ h.unit \in [Addr -> UnitState] /\ h.mark \in [Addr -> MarkState]
         /\ h.list \in [List -> EndState] /\ h.panic \in BOOLEAN
         /\ \A a \in Addr : /\ h.unit[a] \in UnitState /\ h.mark[a] \in MarkState
                            /\ h.unit[a].size \in 0 .. Size /\ h.unit[a].size \in Int
                            /\ h.unit[a].magic \in Magic
                            /\ h.unit[a].prev \in Link /\ h.unit[a].next \in Link
                            /\ h.mark[a].size \in 0 .. Size
         /\ \A l \in List : h.list[l] \in EndState
BY Arena DEF HeapState, UnitState, MarkState

LEMMA SetOwnerEffect ==
  ASSUME NEW h \in HeapState, NEW u \in Addr, NEW l \in List,
         MarkOf(h, u) \in Addr, NEW g, g = SetOwner(h, u, l)
  PROVE  /\ g \in HeapState
         /\ g.panic = h.panic /\ g.unit = h.unit /\ g.list = h.list
         /\ \A a \in Addr :
              /\ g.mark[a].size = h.mark[a].size
              /\ g.mark[a].owner = IF a = MarkOf(h, u) THEN l ELSE h.mark[a].owner
<1> DEFINE m == MarkOf(h, u)
           nm == [h.mark EXCEPT ![m].owner = l]
<1>1. /\ h.mark \in [Addr -> MarkState] /\ h.unit \in [Addr -> UnitState]
      /\ h.list \in [List -> EndState] /\ h.panic \in BOOLEAN
  BY DEF HeapState
<1>2. g = [h EXCEPT !.mark = nm]
  BY DEF SetOwner, HeapState
<1> HIDE DEF m
<1>3. nm \in [Addr -> MarkState]
  BY <1>1 DEF MarkState
<1>4. \A a \in Addr : /\ nm[a].size = h.mark[a].size
                      /\ nm[a].owner = IF a = m THEN l ELSE h.mark[a].owner
  BY <1>1 DEF MarkState
<1> HIDE DEF nm
<1>5. /\ g.panic = h.panic /\ g.unit = h.unit /\ g.list = h.list
      /\ g.mark = nm /\ g \in HeapState
  BY <1>1, <1>2, <1>3 DEF HeapState
<1> QED BY <1>4, <1>5 DEF m

LEMMA InsertEffect ==
  ASSUME NEW h \in HeapState, NEW l \in List, NEW u \in Addr,
         h.unit[u].magic = "plain", MarkOf(h, u) \in Addr,
         NEW first, first = h.list[l].head, first # u,
         NEW g, g = insert(h, l, u)
  PROVE  /\ g \in HeapState /\ g.panic = h.panic
         /\ \A a \in Addr :
              /\ g.unit[a].size = h.unit[a].size
              /\ g.unit[a].magic = IF a = u THEN l ELSE h.unit[a].magic
              /\ g.unit[a].next = IF a = u THEN first ELSE h.unit[a].next
              /\ g.unit[a].prev = IF a = u THEN NULL
                                  ELSE IF a = first THEN u ELSE h.unit[a].prev
              /\ g.mark[a].size = h.mark[a].size
              /\ g.mark[a].owner = IF a = MarkOf(h, u) THEN l ELSE h.mark[a].owner
         /\ \A k \in List : k # l => g.list[k] = h.list[k]
         /\ g.list[l].head = u
         /\ g.list[l].tail = IF first = NULL THEN u ELSE h.list[l].tail
<1> DEFINE nu == [a \in Addr |->
                    CASE a = u     -> [h.unit[a] EXCEPT !.magic = l, !.prev = NULL,
                                                        !.next = first]
                      [] a = first -> [h.unit[a] EXCEPT !.prev = u]
                      [] OTHER     -> h.unit[a]]
           ends == [head |-> u,
                    tail |-> IF first = NULL THEN u ELSE h.list[l].tail]
           nl == [h.list EXCEPT ![l] = ends]
           k1 == [h EXCEPT !.unit = nu, !.list = nl]
<1>1. /\ h.mark \in [Addr -> MarkState] /\ h.unit \in [Addr -> UnitState]
      /\ h.list \in [List -> EndState] /\ h.panic \in BOOLEAN
      /\ h.list[l] \in EndState /\ first \in Link
  BY DEF HeapState, EndState
<1>2. g = SetOwner(k1, u, l)
  BY DEF insert, HeapState
<1>3. /\ ends \in EndState /\ ends.head = u
      /\ ends.tail = IF first = NULL THEN u ELSE h.list[l].tail
  BY <1>1 DEF EndState, Link
<1>4. ASSUME NEW a \in Addr
      PROVE  /\ nu[a].size = h.unit[a].size
             /\ nu[a].magic = IF a = u THEN l ELSE h.unit[a].magic
             /\ nu[a].next = IF a = u THEN first ELSE h.unit[a].next
             /\ nu[a].prev = IF a = u THEN NULL
                             ELSE IF a = first THEN u ELSE h.unit[a].prev
             /\ nu[a] \in UnitState
  <2>0. h.unit[a] \in UnitState
    BY <1>1
  <2>1. CASE a = u
    BY <2>0, <2>1, <1>1, ListFacts DEF UnitState, Link, Magic
  <2>2. CASE a # u /\ a = first
    BY <2>0, <2>2, <1>1, ListFacts DEF UnitState, Link, Magic
  <2>3. CASE a # u /\ a # first
    BY <2>0, <2>3, <1>1, ListFacts DEF UnitState, Link, Magic
  <2> QED BY <2>1, <2>2, <2>3
<1>5. nu \in [Addr -> UnitState]
  BY <1>4
<1> HIDE DEF nu, ends
<1>6. nl \in [List -> EndState] /\ nl[l] = ends
      /\ \A k \in List : k # l => nl[k] = h.list[k]
  BY <1>1, <1>3
<1> HIDE DEF nl
<1>7. /\ k1 \in HeapState /\ k1.unit = nu /\ k1.list = nl /\ k1.mark = h.mark
      /\ k1.panic = h.panic
  BY <1>1, <1>5, <1>6 DEF HeapState
<1> HIDE DEF k1
<1>8. MarkOf(k1, u) = MarkOf(h, u)
  BY <1>4, <1>7 DEF MarkOf
<1>9. /\ g \in HeapState /\ g.panic = k1.panic /\ g.unit = k1.unit /\ g.list = k1.list
      /\ \A a \in Addr :
           /\ g.mark[a].size = k1.mark[a].size
           /\ g.mark[a].owner = IF a = MarkOf(k1, u) THEN l ELSE k1.mark[a].owner
  BY <1>2, <1>7, <1>8, SetOwnerEffect
<1> QED BY <1>3, <1>4, <1>6, <1>7, <1>8, <1>9

LEMMA RemoveEffect ==
  ASSUME NEW h \in HeapState, NEW l \in List, NEW u \in Addr,
         h.unit[u].magic = l,
         NEW p, p = h.unit[u].prev, NEW n, n = h.unit[u].next, p # u, n # u,
         NEW g, g = remove(h, l, u)
  PROVE  /\ g \in HeapState /\ g.panic = h.panic /\ g.mark = h.mark
         /\ \A a \in Addr :
              /\ g.unit[a].size = h.unit[a].size
              /\ g.unit[a].magic = IF a = u THEN "plain" ELSE h.unit[a].magic
              /\ g.unit[a].next = IF a = u THEN NULL
                                  ELSE IF a = p THEN n ELSE h.unit[a].next
              /\ g.unit[a].prev = IF a = u THEN NULL
                                  ELSE IF a = n THEN p ELSE h.unit[a].prev
         /\ \A k \in List : k # l => g.list[k] = h.list[k]
         /\ g.list[l].head = IF u = h.list[l].head THEN n ELSE h.list[l].head
         /\ g.list[l].tail = IF u = h.list[l].tail THEN p ELSE h.list[l].tail
<1> DEFINE nu == [a \in Addr |->
                    IF a = u
                    THEN [h.unit[a] EXCEPT !.magic = "plain", !.prev = NULL,
                                           !.next = NULL]
                    ELSE [h.unit[a] EXCEPT !.next = IF a = p THEN n ELSE @,
                                           !.prev = IF a = n THEN p ELSE @]]
           ends == Ends(h.list[l], u, p, n)
           nl == [h.list EXCEPT ![l] = ends]
<1>1. /\ h.mark \in [Addr -> MarkState] /\ h.unit \in [Addr -> UnitState]
      /\ h.list \in [List -> EndState] /\ h.panic \in BOOLEAN
      /\ h.list[l] \in EndState
  BY DEF HeapState
<1>2. p \in Link /\ n \in Link
  BY <1>1 DEF UnitState
<1>3. g = [h EXCEPT !.unit = nu, !.list = nl]
  BY DEF remove, HeapState
<1>4. /\ ends \in EndState
      /\ ends.head = IF u = h.list[l].head THEN n ELSE h.list[l].head
      /\ ends.tail = IF u = h.list[l].tail THEN p ELSE h.list[l].tail
  BY <1>1, <1>2 DEF EndState, Ends
<1>5. ASSUME NEW a \in Addr
      PROVE  /\ nu[a].size = h.unit[a].size
             /\ nu[a].magic = IF a = u THEN "plain" ELSE h.unit[a].magic
             /\ nu[a].next = IF a = u THEN NULL
                             ELSE IF a = p THEN n ELSE h.unit[a].next
             /\ nu[a].prev = IF a = u THEN NULL
                             ELSE IF a = n THEN p ELSE h.unit[a].prev
             /\ nu[a] \in UnitState
  <2>0. h.unit[a] \in UnitState
    BY <1>1
  <2>1. CASE a = u
    BY <2>0, <2>1, ListFacts DEF UnitState, Link, Magic
  <2>2. CASE a # u
    BY <2>0, <2>2, <1>2 DEF UnitState
  <2> QED BY <2>1, <2>2
<1>6. nu \in [Addr -> UnitState]
  BY <1>5
<1> HIDE DEF nu, ends
<1>7. nl \in [List -> EndState] /\ nl[l] = ends
      /\ \A k \in List : k # l => nl[k] = h.list[k]
  BY <1>1, <1>4
<1> HIDE DEF nl
<1>8. /\ g \in HeapState /\ g.unit = nu /\ g.list = nl /\ g.mark = h.mark
      /\ g.panic = h.panic
  BY <1>1, <1>3, <1>6, <1>7 DEF HeapState
<1> QED BY <1>4, <1>5, <1>7, <1>8

LEMMA ReplaceEffect ==
  ASSUME NEW h \in HeapState, NEW l \in List, NEW fm \in Addr, NEW to \in Addr,
         h.unit[fm].magic = l, h.unit[to].magic = "plain", MarkOf(h, to) \in Addr,
         NEW p, p = h.unit[fm].prev, NEW n, n = h.unit[fm].next,
         p \notin {fm, to}, n \notin {fm, to},
         NEW g, g = replace(h, l, fm, to)
  PROVE  /\ g \in HeapState /\ g.panic = h.panic
         /\ \A a \in Addr :
              /\ g.unit[a].size = h.unit[a].size
              /\ g.unit[a].magic = IF a = to THEN l ELSE IF a = fm THEN "plain"
                                   ELSE h.unit[a].magic
              /\ g.unit[a].next = IF a = to THEN n ELSE IF a = fm THEN NULL
                                  ELSE IF a = p THEN to ELSE h.unit[a].next
              /\ g.unit[a].prev = IF a = to THEN p ELSE IF a = fm THEN NULL
                                  ELSE IF a = n THEN to ELSE h.unit[a].prev
              /\ g.mark[a].size = h.mark[a].size
              /\ g.mark[a].owner = IF a = MarkOf(h, to) THEN l ELSE h.mark[a].owner
         /\ \A k \in List : k # l => g.list[k] = h.list[k]
         /\ g.list[l].head = IF fm = h.list[l].head THEN to ELSE h.list[l].head
         /\ g.list[l].tail = IF fm = h.list[l].tail THEN to ELSE h.list[l].tail
<1> DEFINE nu == [a \in Addr |->
                    CASE a = to -> [h.unit[a] EXCEPT !.magic = l, !.prev = p,
                                                     !.next = n]
                      [] a = fm -> [h.unit[a] EXCEPT !.magic = "plain",
                                                     !.prev = NULL, !.next = NULL]
                      [] OTHER  -> [h.unit[a] EXCEPT
                                      !.next = IF a = p THEN to ELSE @,
                                      !.prev = IF a = n THEN to ELSE @]]
           ends == Ends(h.list[l], fm, to, to)
           nl == [h.list EXCEPT ![l] = ends]
           k1 == [h EXCEPT !.unit = nu, !.list = nl]
<1>1. /\ h.mark \in [Addr -> MarkState] /\ h.unit \in [Addr -> UnitState]
      /\ h.list \in [List -> EndState] /\ h.panic \in BOOLEAN
      /\ h.list[l] \in EndState /\ l # "plain" /\ fm # to
  BY ListFacts DEF HeapState
<1>2. p \in Link /\ n \in Link
  BY <1>1 DEF UnitState
<1>3. g = SetOwner(k1, to, l)
  BY <1>1 DEF replace, HeapState
<1>4. /\ ends \in EndState
      /\ ends.head = IF fm = h.list[l].head THEN to ELSE h.list[l].head
      /\ ends.tail = IF fm = h.list[l].tail THEN to ELSE h.list[l].tail
  BY <1>1, <1>2 DEF EndState, Ends, Link
<1>5. ASSUME NEW a \in Addr
      PROVE  /\ nu[a].size = h.unit[a].size
             /\ nu[a].magic = IF a = to THEN l ELSE IF a = fm THEN "plain"
                              ELSE h.unit[a].magic
             /\ nu[a].next = IF a = to THEN n ELSE IF a = fm THEN NULL
                             ELSE IF a = p THEN to ELSE h.unit[a].next
             /\ nu[a].prev = IF a = to THEN p ELSE IF a = fm THEN NULL
                             ELSE IF a = n THEN to ELSE h.unit[a].prev
             /\ nu[a] \in UnitState
  <2>0. h.unit[a] \in UnitState
    BY <1>1
  <2>1. CASE a = to
    BY <2>0, <2>1, <1>2, ListFacts DEF UnitState, Link, Magic
  <2>2. CASE a # to /\ a = fm
    BY <2>0, <2>2, ListFacts DEF UnitState, Link, Magic
  <2>3. CASE a # to /\ a # fm
    BY <2>0, <2>3, <1>2 DEF UnitState, Link
  <2> QED BY <2>1, <2>2, <2>3
<1>6. nu \in [Addr -> UnitState]
  BY <1>5
<1> HIDE DEF nu, ends
<1>7. nl \in [List -> EndState] /\ nl[l] = ends
      /\ \A k \in List : k # l => nl[k] = h.list[k]
  BY <1>1, <1>4
<1> HIDE DEF nl
<1>8. /\ k1 \in HeapState /\ k1.unit = nu /\ k1.list = nl /\ k1.mark = h.mark
      /\ k1.panic = h.panic
  BY <1>1, <1>6, <1>7 DEF HeapState
<1> HIDE DEF k1
<1>9. MarkOf(k1, to) = MarkOf(h, to)
  BY <1>5, <1>8 DEF MarkOf
<1>10. /\ g \in HeapState /\ g.panic = k1.panic /\ g.unit = k1.unit /\ g.list = k1.list
       /\ \A a \in Addr :
            /\ g.mark[a].size = k1.mark[a].size
            /\ g.mark[a].owner = IF a = MarkOf(k1, to) THEN l ELSE k1.mark[a].owner
  BY <1>3, <1>8, <1>9, SetOwnerEffect
<1> QED BY <1>4, <1>5, <1>7, <1>8, <1>9, <1>10


LEMMA SetSizeEffect ==
  ASSUME NEW h \in HeapState, NEW u \in Addr, NEW n \in 0 .. Size, u + n \in Addr,
         NEW g, g = SetSize(h, u, n)
  PROVE  /\ g \in HeapState /\ g.panic = h.panic /\ g.list = h.list
         /\ \A a \in Addr :
              /\ g.unit[a].size = IF a = u THEN n ELSE h.unit[a].size
              /\ g.unit[a].magic = h.unit[a].magic
              /\ g.unit[a].next = h.unit[a].next
              /\ g.unit[a].prev = h.unit[a].prev
              /\ g.mark[a].size = IF a = u + n THEN n ELSE h.mark[a].size
              /\ g.mark[a].owner = h.mark[a].owner
<1> DEFINE nu == [h.unit EXCEPT ![u].size = n]
           m == u + n
           nm == [h.mark EXCEPT ![m].size = n]
<1>1. /\ h.mark \in [Addr -> MarkState] /\ h.unit \in [Addr -> UnitState]
      /\ h.list \in [List -> EndState] /\ h.panic \in BOOLEAN
  BY DEF HeapState
<1>2. g = [h EXCEPT !.unit = nu, !.mark = nm]
  BY DEF SetSize, HeapState
<1> HIDE DEF m
<1>3. nu \in [Addr -> UnitState] /\ nm \in [Addr -> MarkState]
  BY <1>1 DEF UnitState, MarkState
<1>4. \A a \in Addr : /\ nu[a].size = IF a = u THEN n ELSE h.unit[a].size
                      /\ nu[a].magic = h.unit[a].magic
                      /\ nu[a].next = h.unit[a].next
                      /\ nu[a].prev = h.unit[a].prev
  BY <1>1 DEF UnitState
<1>5. \A a \in Addr : /\ nm[a].size = IF a = m THEN n ELSE h.mark[a].size
                      /\ nm[a].owner = h.mark[a].owner
  BY <1>1 DEF MarkState
<1> HIDE DEF nu, nm
<1>6. /\ g.panic = h.panic /\ g.unit = nu /\ g.list = h.list
      /\ g.mark = nm /\ g \in HeapState
  BY <1>1, <1>2, <1>3 DEF HeapState
<1> QED BY <1>4, <1>5, <1>6 DEF m

LEMMA NewUnitEffect ==
  ASSUME NEW h \in HeapState, NEW u \in Addr, NEW n \in 0 .. Size, u + n \in Addr,
         NEW g, g = NewUnit(h, u, n)
  PROVE  /\ g \in HeapState /\ g.panic = h.panic /\ g.list = h.list
         /\ \A a \in Addr :
              /\ g.unit[a].size = IF a = u THEN n ELSE h.unit[a].size
              /\ g.unit[a].magic = IF a = u THEN "plain" ELSE h.unit[a].magic
              /\ g.unit[a].next = IF a = u THEN NULL ELSE h.unit[a].next
              /\ g.unit[a].prev = IF a = u THEN NULL ELSE h.unit[a].prev
              /\ g.mark[a].size = IF a = u + n THEN n ELSE h.mark[a].size
              /\ g.mark[a].owner = h.mark[a].owner
<1> DEFINE new == [prev |-> NULL, next |-> NULL, size |-> n, magic |-> "plain"]
           nu == [h.unit EXCEPT ![u] = new]
           k == [h EXCEPT !.unit = nu]
<1>1. /\ h.mark \in [Addr -> MarkState] /\ h.unit \in [Addr -> UnitState]
      /\ h.list \in [List -> EndState] /\ h.panic \in BOOLEAN
  BY DEF HeapState
<1>2. g = SetSize(k, u, n)
  BY DEF NewUnit, HeapState
<1>3. new \in UnitState
  BY DEF UnitState, Link, Magic
<1>4. new.prev = NULL /\ new.next = NULL /\ new.size = n /\ new.magic = "plain"
  OBVIOUS
<1> HIDE DEF new
<1>5. /\ nu \in [Addr -> UnitState]
      /\ \A a \in Addr : nu[a] = IF a = u THEN new ELSE h.unit[a]
  BY <1>1, <1>3
<1> HIDE DEF nu
<1>6. /\ k \in HeapState /\ k.unit = nu /\ k.mark = h.mark /\ k.list = h.list
      /\ k.panic = h.panic
  BY <1>1, <1>5 DEF HeapState
<1> HIDE DEF k
<1>7. /\ g \in HeapState /\ g.panic = k.panic /\ g.list = k.list
      /\ \A a \in Addr :
           /\ g.unit[a].size = IF a = u THEN n ELSE k.unit[a].size
           /\ g.unit[a].magic = k.unit[a].magic
           /\ g.unit[a].next = k.unit[a].next
           /\ g.unit[a].prev = k.unit[a].prev
           /\ g.mark[a].size = IF a = u + n THEN n ELSE k.mark[a].size
           /\ g.mark[a].owner = k.mark[a].owner
  BY <1>2, <1>6, SetSizeEffect
<1> QED BY <1>4, <1>5, <1>6, <1>7

LEMMA OverwrittenEffect ==
  ASSUME NEW h \in HeapState, NEW p \in Addr, NEW g, g = Overwritten(h, p)
  PROVE  /\ g \in HeapState /\ g.panic = h.panic /\ g.list = h.list
         /\ \A a \in Addr :
              IF Work(p) <= a /\ a < MarkOf(h, p)
              THEN g.unit[a] = NoUnit /\ g.mark[a] = NoMark
              ELSE g.unit[a] = h.unit[a] /\ g.mark[a] = h.mark[a]
<1> DEFINE work == {a \in Addr : Work(p) <= a /\ a < MarkOf(h, p)}
           nu == [a \in Addr |-> IF a \in work THEN NoUnit ELSE h.unit[a]]
           nm == [a \in Addr |-> IF a \in work THEN NoMark ELSE h.mark[a]]
<1>1. /\ h.mark \in [Addr -> MarkState] /\ h.unit \in [Addr -> UnitState]
      /\ h.list \in [List -> EndState] /\ h.panic \in BOOLEAN
  BY DEF HeapState
<1>2. g = [h EXCEPT !.unit = nu, !.mark = nm]
  BY DEF Overwritten, HeapState
<1>3. NoUnit \in UnitState /\ NoMark \in MarkState
  BY Arena DEF NoUnit, NoMark, UnitState, MarkState, Link, Magic
<1> HIDE DEF work
<1>4. nu \in [Addr -> UnitState] /\ nm \in [Addr -> MarkState]
  BY <1>1, <1>3
<1>5. \A a \in Addr : /\ nu[a] = IF a \in work THEN NoUnit ELSE h.unit[a]
                      /\ nm[a] = IF a \in work THEN NoMark ELSE h.mark[a]
  OBVIOUS
<1> HIDE DEF nu, nm
<1>6. /\ g.panic = h.panic /\ g.unit = nu /\ g.list = h.list
      /\ g.mark = nm /\ g \in HeapState
  BY <1>1, <1>2, <1>4 DEF HeapState
<1> QED BY <1>5, <1>6 DEF work


-----------------------------------------------------------------------------
(* The lists stay lists.                                                   *)

\* A list is the same in two heaps that agree on its ends and its units.
LEMMA ListFrame ==
  ASSUME NEW h, NEW g, NEW l \in List, NEW n, NEW s, ListIs(h, l, n, s),
         g.list[l] = h.list[l],
         \A a \in Addr : g.unit[a].magic = l <=> h.unit[a].magic = l,
         \A a \in Addr : h.unit[a].magic = l =>
           g.unit[a].next = h.unit[a].next /\ g.unit[a].prev = h.unit[a].prev
  PROVE  ListIs(g, l, n, s)
BY DEF ListIs

LEMMA ListsFrame ==
  ASSUME NEW h, NEW g, Lists(h), g.list = h.list,
         \A a \in Addr, l \in List : g.unit[a].magic = l <=> h.unit[a].magic = l,
         \A a \in Addr : h.unit[a].magic \in List =>
           g.unit[a].next = h.unit[a].next /\ g.unit[a].prev = h.unit[a].prev
  PROVE  Lists(g)
<1> SUFFICES ASSUME NEW l \in List PROVE Listed(g, l)
  BY DEF Lists
<1>1. PICK n, s : ListIs(h, l, n, s)
  BY DEF Lists, Listed
<1>2. ListIs(g, l, n, s)
  BY <1>1, ListFrame
<1> QED BY <1>2 DEF Listed

LEMMA InsertKeepsLists ==
  ASSUME NEW h \in HeapState, Lists(h), NEW l \in List, NEW u \in Addr,
         h.unit[u].magic = "plain", MarkOf(h, u) \in Addr,
         NEW g, g = insert(h, l, u)
  PROVE  Lists(g) /\ h.list[l].head # u
<1>1. PICK n, s : ListIs(h, l, n, s)
  BY DEF Lists, Listed
<1> DEFINE first == h.list[l].head
<1>2. first # u /\ (first \in Addr => h.unit[first].magic = l)
      /\ (first # NULL <=> n # 0) /\ (first # NULL => first = s[1])
  BY <1>1, ListFacts, Arena DEF ListIs
<1>3. /\ \A a \in Addr :
           /\ g.unit[a].magic = IF a = u THEN l ELSE h.unit[a].magic
           /\ g.unit[a].next = IF a = u THEN first ELSE h.unit[a].next
           /\ g.unit[a].prev = IF a = u THEN NULL
                               ELSE IF a = first THEN u ELSE h.unit[a].prev
      /\ \A k \in List : k # l => g.list[k] = h.list[k]
      /\ g.list[l].head = u
      /\ g.list[l].tail = IF first = NULL THEN u ELSE h.list[l].tail
  BY <1>2, InsertEffect
<1> DEFINE t == [i \in 1 .. n + 1 |-> IF i = 1 THEN u ELSE s[i - 1]]
<1>4. /\ n \in Nat /\ s \in [1 .. n -> Addr]
      /\ \A i, j \in 1 .. n : s[i] = s[j] => i = j
      /\ \A i \in 1 .. n : h.unit[s[i]].magic = l /\ s[i] # u
      /\ \A a \in Addr : h.unit[a].magic = l => \E i \in 1 .. n : s[i] = a
      /\ h.list[l].tail = IF n = 0 THEN NULL ELSE s[n]
      /\ \A i \in 1 .. n :
           /\ h.unit[s[i]].prev = IF i = 1 THEN NULL ELSE s[i - 1]
           /\ h.unit[s[i]].next = IF i = n THEN NULL ELSE s[i + 1]
  BY <1>1, ListFacts DEF ListIs
<1> HIDE DEF first
<1>5. ListIs(g, l, n + 1, t)
  <2>1. n + 1 \in Nat /\ t \in [1 .. n + 1 -> Addr]
    BY <1>4
  <2>2. t[1] = u /\ \A i \in 2 .. n + 1 : i - 1 \in 1 .. n /\ t[i] = s[i - 1]
    BY <1>4
  <2> HIDE DEF t
  <2>3. \A i, j \in 1 .. n + 1 : t[i] = t[j] => i = j
    <3> SUFFICES ASSUME NEW i \in 1 .. n + 1, NEW j \in 1 .. n + 1, t[i] = t[j]
                 PROVE  i = j
      OBVIOUS
    <3>1. CASE i = 1 \/ j = 1
      BY <1>4, <2>2, <3>1
    <3>2. CASE i # 1 /\ j # 1
      <4>1. i - 1 = j - 1
        BY <1>4, <2>2, <3>2
      <4> QED BY <1>4, <4>1
    <3> QED BY <3>1, <3>2
  <2>4. \A i \in 1 .. n + 1 : g.unit[t[i]].magic = l
    BY <1>3, <1>4, <2>1, <2>2
  <2>5. ASSUME NEW a \in Addr, g.unit[a].magic = l
        PROVE  \E i \in 1 .. n + 1 : t[i] = a
    <3>1. CASE a = u
      BY <1>4, <2>2, <3>1
    <3>2. CASE a # u
      <4>1. PICK i \in 1 .. n : s[i] = a
        BY <1>3, <1>4, <2>5, <3>2
      <4>2. i + 1 \in 2 .. n + 1 /\ t[i + 1] = s[i + 1 - 1] /\ i + 1 - 1 = i
        BY <1>4, <2>2
      <4> QED BY <1>4, <4>1, <4>2
    <3> QED BY <3>1, <3>2
  <2>6. g.list[l].head = t[1] /\ g.list[l].tail = t[n + 1]
    BY <1>2, <1>3, <1>4, <2>2 DEF first
  <2>7. ASSUME NEW i \in 1 .. n + 1
        PROVE  /\ g.unit[t[i]].prev = IF i = 1 THEN NULL ELSE t[i - 1]
               /\ g.unit[t[i]].next = IF i = n + 1 THEN NULL ELSE t[i + 1]
    <3>1. CASE i = 1
      <4>1. /\ n # 0 => t[2] = s[2 - 1] /\ 2 - 1 = 1
            /\ n + 1 = 1 <=> n = 0
        BY <1>4, <2>2
      <4>2. g.unit[u].prev = NULL /\ g.unit[u].next = first
        BY <1>3
      <4>3. first = IF n = 0 THEN NULL ELSE s[1]
        BY <1>2 DEF first
      <4> QED BY <2>2, <3>1, <4>1, <4>2, <4>3
    <3>2. CASE i # 1
      <4>1. /\ i - 1 \in 1 .. n /\ t[i] = s[i - 1] /\ s[i - 1] # u /\ s[i - 1] \in Addr
        BY <1>4, <2>2, <3>2
      <4>2. /\ g.unit[t[i]].next = h.unit[s[i - 1]].next
            /\ g.unit[t[i]].prev = IF s[i - 1] = first THEN u ELSE h.unit[s[i - 1]].prev
        BY <1>3, <4>1
      <4>3. g.unit[t[i]].next = IF i = n + 1 THEN NULL ELSE t[i + 1]
        <5>1. h.unit[s[i - 1]].next = IF i - 1 = n THEN NULL ELSE s[i - 1 + 1]
          BY <1>4, <4>1
        <5>2. i # n + 1 => i + 1 \in 2 .. n + 1 /\ t[i + 1] = s[i + 1 - 1]
          BY <1>4, <2>2, <3>2
        <5>3. i - 1 + 1 = i /\ i + 1 - 1 = i /\ (i - 1 = n <=> i = n + 1)
          BY <1>4
        <5> QED BY <4>2, <5>1, <5>2, <5>3
      <4>4. g.unit[t[i]].prev = t[i - 1]
        <5>1. CASE i = 2
          <6>1. s[i - 1] = first
            BY <1>2, <1>4, <4>1, <5>1 DEF first
          <6> QED BY <2>2, <4>2, <5>1, <6>1
        <5>2. CASE i # 2
          <6>1. i - 1 # 1 /\ i - 1 \in 2 .. n + 1 /\ t[i - 1] = s[i - 1 - 1]
            BY <1>4, <2>2, <3>2, <5>2
          <6>2. s[i - 1] # first
            <7>1. 1 \in 1 .. n /\ first = s[1]
              BY <1>2, <1>4, <4>1 DEF first
            <7> QED BY <1>4, <4>1, <6>1, <7>1
          <6>3. h.unit[s[i - 1]].prev = s[i - 1 - 1]
            BY <1>4, <4>1, <6>1
          <6> QED BY <4>2, <6>1, <6>2, <6>3
        <5> QED BY <5>1, <5>2
      <4> QED BY <3>2, <4>3, <4>4
    <3> QED BY <3>1, <3>2
  <2>8. n + 1 # 0
    BY <1>4
  <2> QED BY <2>1, <2>3, <2>4, <2>5, <2>6, <2>7, <2>8 DEF ListIs
<1>6. ASSUME NEW k \in List, k # l PROVE Listed(g, k)
  <2>1. PICK m, r : ListIs(h, k, m, r)
    BY DEF Lists, Listed
  <2>2. ListIs(g, k, m, r)
    <3>1. \A a \in Addr : h.unit[a].magic = k => a # u /\ a # first
      BY <1>2, <1>6, ListFacts DEF first
    <3>2. \A a \in Addr : g.unit[a].magic = k <=> h.unit[a].magic = k
      BY <1>3, <1>6, ListFacts
    <3>3. \A a \in Addr : h.unit[a].magic = k =>
            g.unit[a].next = h.unit[a].next /\ g.unit[a].prev = h.unit[a].prev
      BY <1>3, <3>1
    <3> QED BY <1>3, <1>6, <2>1, <3>2, <3>3, ListFrame
  <2> QED BY <2>2 DEF Listed
<1> QED BY <1>2, <1>5, <1>6 DEF Lists, Listed, first


(* The unit u is the k-th of list l, and what its links are.               *)
IsAt(h, l, n, s, u, k) ==
  /\ s[k] = u
  /\ h.unit[u].prev = IF k = 1 THEN NULL ELSE s[k - 1]
  /\ h.unit[u].next = IF k = n THEN NULL ELSE s[k + 1]
  /\ h.unit[u].prev # u /\ h.unit[u].next # u
  /\ k # 1 => s[k - 1] \in Addr /\ h.unit[s[k - 1]].magic = l
  /\ k # n => s[k + 1] \in Addr /\ h.unit[s[k + 1]].magic = l

LEMMA PlaceInList ==
  ASSUME NEW h, NEW l \in List, NEW n, NEW s, ListIs(h, l, n, s),
         NEW u \in Addr, h.unit[u].magic = l
  PROVE  \E k \in 1 .. n : IsAt(h, l, n, s, u, k)
<1>1. PICK k \in 1 .. n : s[k] = u
  BY DEF ListIs
<1>2. /\ n \in Nat /\ s \in [1 .. n -> Addr]
      /\ \A i, j \in 1 .. n : s[i] = s[j] => i = j
      /\ \A i \in 1 .. n : h.unit[s[i]].magic = l
      /\ h.unit[u].prev = IF k = 1 THEN NULL ELSE s[k - 1]
      /\ h.unit[u].next = IF k = n THEN NULL ELSE s[k + 1]
  BY <1>1 DEF ListIs
<1>3. /\ k # 1 => k - 1 \in 1 .. n /\ k - 1 # k
      /\ k # n => k + 1 \in 1 .. n /\ k + 1 # k
  BY <1>2
<1>4. u # NULL
  BY Arena
<1>5. k # 1 => s[k - 1] # u /\ s[k - 1] \in Addr /\ h.unit[s[k - 1]].magic = l
  BY <1>1, <1>2, <1>3
<1>6. k # n => s[k + 1] # u /\ s[k + 1] \in Addr /\ h.unit[s[k + 1]].magic = l
  BY <1>1, <1>2, <1>3
<1>7. h.unit[u].prev # u /\ h.unit[u].next # u
  BY <1>2, <1>4, <1>5, <1>6
<1> QED BY <1>1, <1>2, <1>5, <1>6, <1>7 DEF IsAt

LEMMA RemoveKeepsLists ==
  ASSUME NEW h \in HeapState, Lists(h), NEW l \in List, NEW u \in Addr,
         h.unit[u].magic = l, NEW g, g = remove(h, l, u)
  PROVE  Lists(g) /\ h.unit[u].prev # u /\ h.unit[u].next # u
<1> DEFINE before == h.unit[u].prev
           behind == h.unit[u].next
<1>1. PICK n, s : ListIs(h, l, n, s)
  BY DEF Lists, Listed
<1>2a. PICK k \in 1 .. n : IsAt(h, l, n, s, u, k)
  BY <1>1, PlaceInList
<1>2. /\ s[k] = u
      /\ before = IF k = 1 THEN NULL ELSE s[k - 1]
      /\ behind = IF k = n THEN NULL ELSE s[k + 1]
      /\ before # u /\ behind # u
      /\ k # 1 => s[k - 1] \in Addr /\ h.unit[s[k - 1]].magic = l
      /\ k # n => s[k + 1] \in Addr /\ h.unit[s[k + 1]].magic = l
  BY <1>2a DEF IsAt
<1>3. /\ \A a \in Addr :
           /\ g.unit[a].magic = IF a = u THEN "plain" ELSE h.unit[a].magic
           /\ g.unit[a].next = IF a = u THEN NULL
                               ELSE IF a = before THEN behind ELSE h.unit[a].next
           /\ g.unit[a].prev = IF a = u THEN NULL
                               ELSE IF a = behind THEN before ELSE h.unit[a].prev
      /\ \A j \in List : j # l => g.list[j] = h.list[j]
      /\ g.list[l].head = IF u = h.list[l].head THEN behind ELSE h.list[l].head
      /\ g.list[l].tail = IF u = h.list[l].tail THEN before ELSE h.list[l].tail
  BY <1>2, RemoveEffect
<1>4a. n \in Nat /\ n # 0
  <2>1. n \in Nat
    BY <1>1 DEF ListIs
  <2> QED BY <2>1
<1>4. /\ n \in Nat /\ n # 0 /\ s \in [1 .. n -> Addr]
      /\ \A i, j \in 1 .. n : s[i] = s[j] => i = j
      /\ \A i \in 1 .. n : h.unit[s[i]].magic = l
      /\ \A a \in Addr : h.unit[a].magic = l => \E i \in 1 .. n : s[i] = a
      /\ h.list[l].head = s[1] /\ h.list[l].tail = s[n]
      /\ \A i \in 1 .. n :
           /\ h.unit[s[i]].prev = IF i = 1 THEN NULL ELSE s[i - 1]
           /\ h.unit[s[i]].next = IF i = n THEN NULL ELSE s[i + 1]
  BY <1>1, <1>4a DEF ListIs
<1>5. \A i \in 1 .. n : s[i] \in Addr /\ s[i] # NULL /\ (s[i] = u <=> i = k)
  BY <1>2, <1>4, Arena
<1> HIDE DEF before, behind
<1> DEFINE t == [i \in 1 .. n - 1 |-> IF i < k THEN s[i] ELSE s[i + 1]]
<1>6. ListIs(g, l, n - 1, t)
  <2>1. n - 1 \in Nat /\ t \in [1 .. n - 1 -> Addr]
    BY <1>4
  <2>2. /\ \A i \in 1 .. n - 1 : i < k => i \in 1 .. n /\ t[i] = s[i]
        /\ \A i \in 1 .. n - 1 : i >= k => i + 1 \in 1 .. n /\ t[i] = s[i + 1]
    BY <1>4
  <2> HIDE DEF t
  <2>3. \A i, j \in 1 .. n - 1 : t[i] = t[j] => i = j
    <3> SUFFICES ASSUME NEW i \in 1 .. n - 1, NEW j \in 1 .. n - 1, t[i] = t[j]
                 PROVE  i = j
      OBVIOUS
    <3>1. CASE i < k /\ j < k
      BY <1>4, <2>2, <3>1
    <3>2. CASE i >= k /\ j >= k
      <4>1. i + 1 = j + 1
        BY <1>4, <2>2, <3>2
      <4> QED BY <1>4, <4>1
    <3>3. CASE i < k /\ j >= k
      <4>1. i = j + 1
        BY <1>4, <2>2, <3>3
      <4> QED BY <1>4, <3>3, <4>1
    <3>4. CASE i >= k /\ j < k
      <4>1. i + 1 = j
        BY <1>4, <2>2, <3>4
      <4> QED BY <1>4, <3>4, <4>1
    <3> QED BY <1>4, <3>1, <3>2, <3>3, <3>4
  <2>4. ASSUME NEW i \in 1 .. n - 1
        PROVE  g.unit[t[i]].magic = l /\ t[i] # u
    <3>1. CASE i < k
      <4>1. i \in 1 .. n /\ t[i] = s[i] /\ i # k
        BY <1>4, <2>2, <3>1
      <4>2. s[i] \in Addr /\ s[i] # u /\ h.unit[s[i]].magic = l
        BY <1>4, <1>5, <4>1
      <4> QED BY <1>3, <4>1, <4>2
    <3>2. CASE i >= k
      <4>1. i + 1 \in 1 .. n /\ t[i] = s[i + 1] /\ i + 1 # k
        BY <1>4, <2>2, <3>2
      <4>2. s[i + 1] \in Addr /\ s[i + 1] # u /\ h.unit[s[i + 1]].magic = l
        BY <1>4, <1>5, <4>1
      <4> QED BY <1>3, <4>1, <4>2
    <3> QED BY <1>4, <3>1, <3>2
  <2>5. ASSUME NEW a \in Addr, g.unit[a].magic = l
        PROVE  \E i \in 1 .. n - 1 : t[i] = a
    <3>1. a # u /\ h.unit[a].magic = l
      BY <1>3, <2>5, ListFacts
    <3>2. PICK i \in 1 .. n : s[i] = a /\ i # k
      BY <1>2, <1>4, <3>1
    <3>3. CASE i < k
      <4>1. i \in 1 .. n - 1 /\ t[i] = s[i]
        BY <1>4, <2>2, <3>3
      <4> QED BY <3>2, <4>1
    <3>4. CASE i > k
      <4>1. i - 1 \in 1 .. n - 1 /\ i - 1 >= k /\ i - 1 + 1 = i
        BY <1>4, <3>4
      <4>2. t[i - 1] = s[i]
        BY <2>2, <4>1
      <4> QED BY <3>2, <4>1, <4>2
    <3> QED BY <1>4, <3>2, <3>3, <3>4
  <2>6. g.list[l].head = IF n - 1 = 0 THEN NULL ELSE t[1]
    <3>1. CASE k = 1
      <4>1. g.list[l].head = behind /\ behind = IF n = 1 THEN NULL ELSE s[2]
        BY <1>2, <1>3, <1>4, <3>1
      <4>2. n # 1 => t[1] = s[1 + 1]
        BY <1>4, <2>2, <3>1
      <4> QED BY <1>4, <4>1, <4>2
    <3>2. CASE k # 1
      <4>1. 1 \in 1 .. n /\ u # s[1]
        BY <1>4, <1>5, <3>2
      <4>2. n - 1 # 0 /\ t[1] = s[1]
        BY <1>4, <2>2, <3>2
      <4> QED BY <1>3, <1>4, <4>1, <4>2
    <3> QED BY <3>1, <3>2
  <2>7. g.list[l].tail = IF n - 1 = 0 THEN NULL ELSE t[n - 1]
    <3>1. CASE k = n
      <4>1. g.list[l].tail = before /\ before = IF n = 1 THEN NULL ELSE s[n - 1]
        BY <1>2, <1>3, <1>4, <3>1
      <4>2. n # 1 => t[n - 1] = s[n - 1]
        BY <1>4, <2>2, <3>1
      <4> QED BY <1>4, <4>1, <4>2
    <3>2. CASE k # n
      <4>1. n \in 1 .. n /\ u # s[n]
        BY <1>4, <1>5, <3>2
      <4>2. n - 1 # 0 /\ t[n - 1] = s[n - 1 + 1] /\ n - 1 + 1 = n
        BY <1>4, <2>2, <3>2
      <4> QED BY <1>3, <1>4, <4>1, <4>2
    <3> QED BY <3>1, <3>2
  <2>8. ASSUME NEW i \in 1 .. n - 1
        PROVE  /\ g.unit[t[i]].prev = IF i = 1 THEN NULL ELSE t[i - 1]
               /\ g.unit[t[i]].next = IF i = n - 1 THEN NULL ELSE t[i + 1]
    <3>0. t[i] \in Addr /\ t[i] # u
      BY <2>1, <2>4
    <3>1. g.unit[t[i]].next = IF i = n - 1 THEN NULL ELSE t[i + 1]
      <4>1. CASE i + 1 < k
        <5>1. /\ i \in 1 .. n /\ i + 1 \in 1 .. n - 1 /\ i # n - 1 /\ i # n
              /\ t[i] = s[i] /\ t[i + 1] = s[i + 1]
          BY <1>4, <2>2, <4>1
        <5>2. s[i] # before
          <6>1. before = s[k - 1] /\ k - 1 \in 1 .. n /\ k - 1 # i
            BY <1>2, <1>4, <4>1
          <6> QED BY <1>4, <5>1, <6>1
        <5> QED BY <1>3, <1>4, <3>0, <5>1, <5>2
      <4>2. CASE i + 1 = k
        <5>1. i \in 1 .. n /\ t[i] = s[i] /\ before = s[k - 1] /\ k - 1 = i
          BY <1>2, <1>4, <2>2, <4>2
        <5>2. g.unit[t[i]].next = behind
          BY <1>3, <3>0, <5>1
        <5>3. k # n => t[i + 1] = s[k + 1]
          <6> SUFFICES ASSUME k # n PROVE t[i + 1] = s[k + 1]
            OBVIOUS
          <6>1. i + 1 \in 1 .. n - 1 /\ i + 1 >= k /\ i + 1 + 1 = k + 1
            BY <1>4, <4>2
          <6> QED BY <2>2, <6>1
        <5>4. k = n <=> i = n - 1
          BY <1>4, <4>2
        <5> QED BY <1>2, <5>2, <5>3, <5>4
      <4>3. CASE i >= k
        <5>1. i + 1 \in 1 .. n /\ t[i] = s[i + 1] /\ (i + 1 = n <=> i = n - 1)
          BY <1>4, <2>2, <4>3
        <5>2. s[i + 1] # before
          <6>1. k # 1 => before = s[k - 1] /\ k - 1 \in 1 .. n /\ k - 1 # i + 1
            BY <1>2, <1>4, <4>3
          <6> QED BY <1>2, <1>4, <1>5, <5>1, <6>1
        <5>3. i # n - 1 => t[i + 1] = s[i + 1 + 1]
          <6> SUFFICES ASSUME i # n - 1 PROVE t[i + 1] = s[i + 1 + 1]
            OBVIOUS
          <6>1. i + 1 \in 1 .. n - 1 /\ i + 1 >= k
            BY <1>4, <4>3
          <6> QED BY <2>2, <6>1
        <5> QED BY <1>3, <1>4, <3>0, <5>1, <5>2, <5>3
      <4> QED BY <1>4, <4>1, <4>2, <4>3
    <3>2. g.unit[t[i]].prev = IF i = 1 THEN NULL ELSE t[i - 1]
      <4>1. CASE i < k
        <5>1. i \in 1 .. n /\ t[i] = s[i]
          BY <1>4, <2>2, <4>1
        <5>2. s[i] # behind
          <6>1. k # n => behind = s[k + 1] /\ k + 1 \in 1 .. n /\ k + 1 # i
            BY <1>2, <1>4, <4>1
          <6> QED BY <1>2, <1>4, <1>5, <5>1, <6>1
        <5>3. i # 1 => t[i - 1] = s[i - 1]
          <6> SUFFICES ASSUME i # 1 PROVE t[i - 1] = s[i - 1]
            OBVIOUS
          <6>1. i - 1 \in 1 .. n - 1 /\ i - 1 < k
            BY <1>4, <4>1
          <6> QED BY <2>2, <6>1
        <5> QED BY <1>3, <1>4, <3>0, <5>1, <5>2, <5>3
      <4>2. CASE i = k
        <5>1. i + 1 \in 1 .. n /\ t[i] = s[i + 1] /\ behind = s[k + 1]
          BY <1>2, <1>4, <2>2, <4>2
        <5>2. g.unit[t[i]].prev = before
          BY <1>3, <3>0, <4>2, <5>1
        <5>3. i # 1 => t[i - 1] = s[k - 1]
          <6> SUFFICES ASSUME i # 1 PROVE t[i - 1] = s[k - 1]
            OBVIOUS
          <6>1. i - 1 \in 1 .. n - 1 /\ i - 1 < k
            BY <1>4, <4>2
          <6> QED BY <2>2, <4>2, <6>1
        <5> QED BY <1>2, <4>2, <5>2, <5>3
      <4>3. CASE i > k
        <5>1. i + 1 \in 1 .. n /\ t[i] = s[i + 1] /\ i # 1 /\ i + 1 # 1 /\ i + 1 - 1 = i
          BY <1>4, <2>2, <4>3
        <5>2. s[i + 1] # behind
          <6>1. behind = s[k + 1] /\ k + 1 \in 1 .. n /\ k + 1 # i + 1
            BY <1>2, <1>4, <4>3
          <6> QED BY <1>4, <5>1, <6>1
        <5>3. t[i - 1] = s[i]
          <6>1. i - 1 \in 1 .. n - 1 /\ i - 1 >= k /\ i - 1 + 1 = i
            BY <1>4, <4>3
          <6> QED BY <2>2, <6>1
        <5> QED BY <1>3, <1>4, <3>0, <5>1, <5>2, <5>3
      <4> QED BY <1>4, <4>1, <4>2, <4>3
    <3> QED BY <3>1, <3>2
  <2>9. \A i \in 1 .. n - 1 : g.unit[t[i]].magic = l
    BY <2>4
  <2> QED BY <2>1, <2>3, <2>9, <2>5, <2>6, <2>7, <2>8 DEF ListIs
<1>7. ASSUME NEW j \in List, j # l PROVE Listed(g, j)
  <2>1. PICK m, r : ListIs(h, j, m, r)
    BY DEF Lists, Listed
  <2>2. \A a \in Addr : h.unit[a].magic = j => a # u /\ a # before /\ a # behind
    BY <1>2, <1>7, Arena
  <2>3. \A a \in Addr : g.unit[a].magic = j <=> h.unit[a].magic = j
    BY <1>3, <1>7, ListFacts
  <2>4. \A a \in Addr : h.unit[a].magic = j =>
          g.unit[a].next = h.unit[a].next /\ g.unit[a].prev = h.unit[a].prev
    BY <1>3, <2>2
  <2>5. ListIs(g, j, m, r)
    BY <1>3, <1>7, <2>1, <2>3, <2>4, ListFrame
  <2> QED BY <2>5 DEF Listed
<1> QED BY <1>2, <1>6, <1>7 DEF Lists, Listed, before, behind

LEMMA ReplaceKeepsLists ==
  ASSUME NEW h \in HeapState, Lists(h), NEW l \in List, NEW fm \in Addr,
         NEW to \in Addr, h.unit[fm].magic = l, h.unit[to].magic = "plain",
         MarkOf(h, to) \in Addr, NEW g, g = replace(h, l, fm, to)
  PROVE  /\ Lists(g)
         /\ h.unit[fm].prev \notin {fm, to} /\ h.unit[fm].next \notin {fm, to}
<1> DEFINE before == h.unit[fm].prev
           behind == h.unit[fm].next
<1>1. PICK n, s : ListIs(h, l, n, s)
  BY DEF Lists, Listed
<1>2. PICK k \in 1 .. n : IsAt(h, l, n, s, fm, k)
  BY <1>1, PlaceInList
<1>3. /\ s[k] = fm
      /\ before = IF k = 1 THEN NULL ELSE s[k - 1]
      /\ behind = IF k = n THEN NULL ELSE s[k + 1]
      /\ before # fm /\ behind # fm
      /\ k # 1 => s[k - 1] \in Addr /\ h.unit[s[k - 1]].magic = l
      /\ k # n => s[k + 1] \in Addr /\ h.unit[s[k + 1]].magic = l
  BY <1>2 DEF IsAt
<1>4. before # to /\ behind # to /\ fm # to
  BY <1>3, Arena, ListFacts
<1>5. /\ \A a \in Addr :
           /\ g.unit[a].magic = IF a = to THEN l ELSE IF a = fm THEN "plain"
                                ELSE h.unit[a].magic
           /\ g.unit[a].next = IF a = to THEN behind ELSE IF a = fm THEN NULL
                               ELSE IF a = before THEN to ELSE h.unit[a].next
           /\ g.unit[a].prev = IF a = to THEN before ELSE IF a = fm THEN NULL
                               ELSE IF a = behind THEN to ELSE h.unit[a].prev
      /\ \A j \in List : j # l => g.list[j] = h.list[j]
      /\ g.list[l].head = IF fm = h.list[l].head THEN to ELSE h.list[l].head
      /\ g.list[l].tail = IF fm = h.list[l].tail THEN to ELSE h.list[l].tail
  BY <1>3, <1>4, ReplaceEffect
<1>6a. n \in Nat /\ n # 0
  <2>1. n \in Nat
    BY <1>1 DEF ListIs
  <2> QED BY <2>1
<1>6. /\ n \in Nat /\ n # 0 /\ s \in [1 .. n -> Addr]
      /\ \A i, j \in 1 .. n : s[i] = s[j] => i = j
      /\ \A i \in 1 .. n : h.unit[s[i]].magic = l
      /\ \A a \in Addr : h.unit[a].magic = l => \E i \in 1 .. n : s[i] = a
      /\ h.list[l].head = s[1] /\ h.list[l].tail = s[n]
      /\ \A i \in 1 .. n :
           /\ h.unit[s[i]].prev = IF i = 1 THEN NULL ELSE s[i - 1]
           /\ h.unit[s[i]].next = IF i = n THEN NULL ELSE s[i + 1]
  BY <1>1, <1>6a DEF ListIs
<1>7. \A i \in 1 .. n : s[i] \in Addr /\ s[i] # NULL /\ s[i] # to /\ (s[i] = fm <=> i = k)
  BY <1>3, <1>6, Arena, ListFacts, SMTT(20)
<1> HIDE DEF before, behind
<1> DEFINE t == [i \in 1 .. n |-> IF i = k THEN to ELSE s[i]]
<1>8. ListIs(g, l, n, t)
  <2>1. t \in [1 .. n -> Addr]
    BY <1>6
  <2>2. t[k] = to /\ \A i \in 1 .. n : i # k => t[i] = s[i]
    OBVIOUS
  <2> HIDE DEF t
  <2>3. \A i, j \in 1 .. n : t[i] = t[j] => i = j
    BY <1>6, <1>7, <2>2
  <2>4. \A i \in 1 .. n : g.unit[t[i]].magic = l
    <3> SUFFICES ASSUME NEW i \in 1 .. n PROVE g.unit[t[i]].magic = l
      OBVIOUS
    <3>1. CASE i = k
      BY <1>5, <2>2, <3>1
    <3>2. CASE i # k
      <4>1. t[i] = s[i] /\ s[i] \in Addr /\ s[i] # to /\ s[i] # fm /\ h.unit[s[i]].magic = l
        BY <1>6, <1>7, <2>2, <3>2
      <4> QED BY <1>5, <4>1
    <3> QED BY <3>1, <3>2
  <2>5. ASSUME NEW a \in Addr, g.unit[a].magic = l
        PROVE  \E i \in 1 .. n : t[i] = a
    <3>1. CASE a = to
      BY <2>2, <3>1
    <3>2. CASE a # to
      <4>1. a # fm /\ h.unit[a].magic = l
        BY <1>5, <2>5, <3>2, ListFacts
      <4>2. PICK i \in 1 .. n : s[i] = a
        BY <1>6, <4>1
      <4> QED BY <1>3, <2>2, <4>1, <4>2
    <3> QED BY <3>1, <3>2
  <2>6. g.list[l].head = t[1] /\ g.list[l].tail = t[n]
    <3>1. 1 \in 1 .. n /\ n \in 1 .. n
      BY <1>6
    <3>2. (s[1] = fm <=> 1 = k) /\ (s[n] = fm <=> n = k)
      BY <1>7, <3>1
    <3>3. t[1] = (IF 1 = k THEN to ELSE s[1]) /\ t[n] = (IF n = k THEN to ELSE s[n])
      BY <2>2, <3>1
    <3> QED BY <1>5, <1>6, <3>2, <3>3
  <2>7. ASSUME NEW i \in 1 .. n
        PROVE  /\ g.unit[t[i]].prev = IF i = 1 THEN NULL ELSE t[i - 1]
               /\ g.unit[t[i]].next = IF i = n THEN NULL ELSE t[i + 1]
    <3>1. CASE i = k
      <4>1. g.unit[t[i]].prev = before /\ g.unit[t[i]].next = behind
        BY <1>5, <2>2, <3>1
      <4>2. i # 1 => t[i - 1] = s[k - 1]
        <5>1. i # 1 => i - 1 \in 1 .. n /\ i - 1 # k
          BY <1>6, <3>1
        <5> QED BY <2>2, <3>1, <5>1
      <4>3. i # n => t[i + 1] = s[k + 1]
        <5>1. i # n => i + 1 \in 1 .. n /\ i + 1 # k
          BY <1>6, <3>1
        <5> QED BY <2>2, <3>1, <5>1
      <4> QED BY <1>3, <3>1, <4>1, <4>2, <4>3
    <3>2. CASE i # k
      <4>1. t[i] = s[i] /\ s[i] \in Addr /\ s[i] # to /\ s[i] # fm
        BY <1>7, <2>2, <3>2
      <4>2. /\ g.unit[t[i]].next = IF s[i] = before THEN to ELSE h.unit[s[i]].next
            /\ g.unit[t[i]].prev = IF s[i] = behind THEN to ELSE h.unit[s[i]].prev
        BY <1>5, <4>1
      <4>3. g.unit[t[i]].next = IF i = n THEN NULL ELSE t[i + 1]
        <5>1. CASE i + 1 = k
          <6>1. before = s[k - 1] /\ k - 1 = i /\ i # n
            BY <1>3, <1>6, <5>1
          <6> QED BY <2>2, <4>2, <5>1, <6>1
        <5>2. CASE i + 1 # k
          <6>1. s[i] # before
            <7>1. k # 1 => before = s[k - 1] /\ k - 1 \in 1 .. n /\ k - 1 # i
              BY <1>3, <1>6, <5>2
            <7> QED BY <1>3, <1>6, <1>7, <7>1
          <6>2. i # n => i + 1 \in 1 .. n /\ t[i + 1] = s[i + 1]
            BY <1>6, <2>2, <5>2
          <6> QED BY <1>6, <4>2, <6>1, <6>2
        <5> QED BY <5>1, <5>2
      <4>4. g.unit[t[i]].prev = IF i = 1 THEN NULL ELSE t[i - 1]
        <5>1. CASE i - 1 = k
          <6>1. behind = s[k + 1] /\ k + 1 = i /\ i # 1
            BY <1>3, <1>6, <5>1
          <6> QED BY <2>2, <4>2, <5>1, <6>1
        <5>2. CASE i - 1 # k
          <6>1. s[i] # behind
            <7>1. k # n => behind = s[k + 1] /\ k + 1 \in 1 .. n /\ k + 1 # i
              BY <1>3, <1>6, <5>2
            <7> QED BY <1>3, <1>6, <1>7, <7>1
          <6>2. i # 1 => i - 1 \in 1 .. n /\ t[i - 1] = s[i - 1]
            BY <1>6, <2>2, <5>2
          <6> QED BY <1>6, <4>2, <6>1, <6>2
        <5> QED BY <5>1, <5>2
      <4> QED BY <4>3, <4>4
    <3> QED BY <3>1, <3>2
  <2> QED BY <1>6, <2>1, <2>3, <2>4, <2>5, <2>6, <2>7 DEF ListIs
<1>9. ASSUME NEW j \in List, j # l PROVE Listed(g, j)
  <2>1. PICK m, r : ListIs(h, j, m, r)
    BY DEF Lists, Listed
  <2>2. \A a \in Addr : h.unit[a].magic = j =>
           a # fm /\ a # to /\ a # before /\ a # behind
    BY <1>3, <1>9, Arena, ListFacts
  <2>3. \A a \in Addr : g.unit[a].magic = j <=> h.unit[a].magic = j
    BY <1>5, <1>9, ListFacts
  <2>4. \A a \in Addr : h.unit[a].magic = j =>
          g.unit[a].next = h.unit[a].next /\ g.unit[a].prev = h.unit[a].prev
    BY <1>5, <2>2
  <2>5. g.list[j] = h.list[j]
    BY <1>5, <1>9
  <2>6. ListIs(g, j, m, r)
    BY <2>1, <2>3, <2>4, <2>5, ListFrame
  <2> QED BY <2>6 DEF Listed
<1>10. Lists(g)
  BY <1>8, <1>9 DEF Lists, Listed
<1> QED BY <1>3, <1>4, <1>10 DEF before, behind


-----------------------------------------------------------------------------
(* Walking a list.                                                         *)

\* Following next from head visits the units of the list in order, then ends:
\* the first step at which the walk and the list differ cannot exist.
LEMMA NthIs ==
  ASSUME NEW h, NEW l \in List, NEW n, NEW s, ListIs(h, l, n, s), n <= MaxUnits
  PROVE  Nth(h, l) = [i \in 0 .. MaxUnits |-> IF i < n THEN s[i + 1] ELSE NULL]
<1> DEFINE G == [i \in 0 .. MaxUnits |-> IF i < n THEN s[i + 1] ELSE NULL]
           Body(g) == [i \in 0 .. MaxUnits |->
              IF i = 0 THEN h.list[l].head
              ELSE IF g[i - 1] = NULL THEN NULL ELSE h.unit[g[i - 1]].next]
           N == Nth(h, l)
<1>0. /\ n \in Nat /\ s \in [1 .. n -> Addr] /\ MaxUnits \in Nat /\ NULL \notin Addr
      /\ h.list[l].head = IF n = 0 THEN NULL ELSE s[1]
      /\ \A i \in 1 .. n : h.unit[s[i]].next = IF i = n THEN NULL ELSE s[i + 1]
  BY Arena DEF ListIs, MaxUnits
<1>1. N = CHOOSE g : g = Body(g)
  BY DEF Nth
<1>2. \A i \in 0 .. MaxUnits : G[i] = Body(G)[i]
  <2> SUFFICES ASSUME NEW i \in 0 .. MaxUnits PROVE G[i] = Body(G)[i]
    OBVIOUS
  <2>1. CASE i = 0
    BY <1>0, <2>1
  <2>2. CASE i > 0 /\ i - 1 < n
    <3>1. G[i - 1] = s[i] /\ i \in 1 .. n /\ s[i] # NULL
      BY <1>0, <2>2
    <3>2. h.unit[s[i]].next = IF i = n THEN NULL ELSE s[i + 1]
      BY <1>0, <3>1
    <3> QED BY <1>0, <2>2, <3>1, <3>2
  <2>3. CASE i > 0 /\ i - 1 >= n
    BY <1>0, <2>3
  <2> QED BY <1>0, <2>1, <2>2, <2>3
<1>3. G = Body(G)
  BY <1>2
<1>4. N = Body(N)
  <2> HIDE DEF G, N
  <2>1. \E g : g = Body(g)
    BY <1>3
  <2> HIDE DEF Body
  <2> QED BY <1>1, <2>1
<1>5. N = [i \in 0 .. MaxUnits |-> N[i]]
  <2> HIDE DEF N
  <2> QED BY <1>4
<1>6. ASSUME NEW i \in 0 .. MaxUnits, N[i] # G[i] PROVE FALSE
  <2> HIDE DEF N, G
  <2> DEFINE T == {j \in 0 .. MaxUnits : N[j] # G[j]}
  <2>1. T \subseteq Nat /\ T # {}
    BY <1>0, <1>6
  <2>2. PICK x \in T : \A y \in T : x <= y
    <3> HIDE DEF T
    <3> QED BY <2>1, LeastNumber
  <2>3. N[x] = Body(N)[x] /\ G[x] = Body(G)[x]
    <3> HIDE DEF Body
    <3> QED BY <1>3, <1>4
  <2>4. x # 0
    BY <2>2, <2>3
  <2>5. x - 1 \in 0 .. MaxUnits /\ x - 1 \notin T
    BY <1>0, <2>2, <2>4
  <2>6. N[x - 1] = G[x - 1]
    BY <2>5
  <2> QED BY <2>2, <2>3, <2>6
<1>7. N = G
  <2> DEFINE nn == N
  <2>1. nn = [i \in 0 .. MaxUnits |-> nn[i]] /\ \A i \in 0 .. MaxUnits : nn[i] = G[i]
    BY <1>5, <1>6
  <2> HIDE DEF nn
  <2>2. nn = G
    BY <2>1
  <2> QED BY <2>2 DEF nn
<1> QED BY <1>7

-----------------------------------------------------------------------------
(* A tiling: the units U of sizes sz cover the arena.                      *)

After(sz, u) == u + sz[u] + MarkSize
Tiles(U, sz) ==
  /\ U \subseteq Addr /\ Base \in U
  /\ \A u \in U :
       /\ sz[u] \in Int /\ sz[u] >= UnitSize /\ sz[u] % 8 = 0
       /\ After(sz, u) \in U \cup {End}
       /\ \A v \in U : u < v => After(sz, u) <= v
       /\ u # Base => \E q \in U : After(sz, q) = u

LEMMA TileFacts ==
  ASSUME NEW U, NEW sz, Tiles(U, sz)
  PROVE  /\ U \subseteq Addr /\ Base \in U
         /\ \A u \in U :
              /\ u \in Nat /\ u % 8 = 0 /\ Base <= u /\ u # NULL
              /\ sz[u] \in 0 .. Size /\ sz[u] >= 16 /\ sz[u] % 8 = 0
              /\ After(sz, u) = u + sz[u] + 8 /\ After(sz, u) \in U \cup {End}
              /\ After(sz, u) \in Nat /\ After(sz, u) <= End
              /\ u + sz[u] \in Addr /\ u + 16 \in Addr /\ u + 16 <= u + sz[u]
              /\ u # Base => \E q \in U : After(sz, q) = u
         /\ \A u, v \in U : /\ u < v => After(sz, u) <= v
                            /\ After(sz, u) = After(sz, v) => u = v
                            /\ u + sz[u] = v + sz[v] => u = v
<1>1. /\ U \subseteq Addr /\ Base \in U
      /\ \A u \in U :
           /\ u \in Nat /\ u % 8 = 0 /\ Base <= u /\ u # NULL
           /\ sz[u] \in Int /\ sz[u] >= 16 /\ sz[u] % 8 = 0
           /\ After(sz, u) = u + sz[u] + 8 /\ After(sz, u) \in U \cup {End}
           /\ u # Base => \E q \in U : After(sz, q) = u
      /\ \A u, v \in U : u < v => After(sz, u) <= v
  BY Arena DEF Tiles, After
<1>2. ASSUME NEW u \in U
      PROVE  /\ sz[u] \in 0 .. Size /\ After(sz, u) \in Nat /\ After(sz, u) <= End
             /\ u + sz[u] \in Addr /\ u + 16 \in Addr /\ u + 16 <= u + sz[u]
  <2>1. After(sz, u) \in Nat /\ After(sz, u) <= End
    BY <1>1, Arena, SMTT(20)
  <2>2. (u + sz[u]) % 8 = 0 /\ (u + 16) % 8 = 0
    BY <1>1
  <2>3. /\ u \in Nat /\ sz[u] \in Int /\ sz[u] >= 16 /\ Base <= u
        /\ After(sz, u) = u + sz[u] + 8
    BY <1>1
  <2>4. Base \in Nat /\ Size \in Nat /\ End = Base + Size
    BY Arena
  <2>5. sz[u] \in 0 .. Size /\ u + 16 <= u + sz[u]
    BY <2>1, <2>3, <2>4
  <2>6. /\ u + sz[u] \in Nat /\ Base <= u + sz[u] /\ u + sz[u] < End
        /\ u + 16 \in Nat /\ Base <= u + 16 /\ u + 16 < End
    BY <2>1, <2>3, <2>4
  <2>7. u + sz[u] \in Addr /\ u + 16 \in Addr
    BY <2>2, <2>6, Arena
  <2> QED BY <2>1, <2>5, <2>7
<1>3. ASSUME NEW u \in U, NEW v \in U
      PROVE  /\ After(sz, u) = After(sz, v) => u = v
             /\ u + sz[u] = v + sz[v] => u = v
  BY <1>1
<1> QED BY <1>1, <1>2, <1>3

\* No unit begins inside another one.
LEMMA NothingInside ==
  ASSUME NEW U, NEW sz, Tiles(U, sz), NEW p \in U, NEW a \in Int,
         p < a, a < After(sz, p)
  PROVE  a \notin U
BY TileFacts

\* There are never more units than the loops of Allocate allow for: a unit
\* takes 24 bytes, so no two units lie in the same 24 bytes of the arena.
LEMMA UnitsAreFew ==
  ASSUME NEW U, NEW sz, Tiles(U, sz), NEW n \in Nat, NEW s \in [1 .. n -> U],
         \A i, j \in 1 .. n : s[i] = s[j] => i = j
  PROVE  n <= MaxUnits
<1> DEFINE f == [i \in 1 .. n |-> (s[i] - Base) \div 24]
<1>1. MaxUnits = Size \div 24 /\ MaxUnits \in Nat
  BY Arena DEF MaxUnits
<1>2. ASSUME NEW u \in U PROVE (u - Base) \div 24 \in 0 .. MaxUnits - 1
  <2>0. /\ u \in Nat /\ Base <= u /\ sz[u] \in Int /\ sz[u] >= 16
        /\ u + sz[u] + 8 <= End
    BY TileFacts
  <2>1. u \in Nat /\ u - Base >= 0 /\ u - Base <= Size - 24
    BY <2>0, Arena
  <2> QED BY <1>1, <2>1, Arena
<1>3. ASSUME NEW u \in U, NEW v \in U, u < v
      PROVE  (u - Base) \div 24 # (v - Base) \div 24
  <2>0. /\ u \in Nat /\ v \in Nat /\ Base <= u /\ sz[u] \in Int /\ sz[u] >= 16
        /\ u + sz[u] + 8 = After(sz, u)
    BY TileFacts
  <2>1. After(sz, u) <= v
    BY <1>3, TileFacts
  <2>2. u \in Nat /\ v \in Nat /\ u - Base >= 0 /\ v >= u + 24
    BY <2>0, <2>1, Arena
  <2> QED BY <2>2, Arena
<1>4. ASSUME NEW u \in U, NEW v \in U, (u - Base) \div 24 = (v - Base) \div 24
      PROVE  u = v
  <2>1. u \in Nat /\ v \in Nat
    BY TileFacts
  <2> QED BY <1>3, <1>4, <2>1
<1>5. f \in [1 .. n -> 0 .. MaxUnits - 1]
  BY <1>2
<1>6. \A i, j \in 1 .. n : f[i] = f[j] => i = j
  BY <1>4
<1> HIDE DEF f
<1>7. /\ IsFiniteSet(1 .. n) /\ IsFiniteSet(0 .. MaxUnits - 1)
      /\ Cardinality(1 .. n) = n /\ Cardinality(0 .. MaxUnits - 1) = MaxUnits
  <2>1. Cardinality(1 .. n) = IF 1 > n THEN 0 ELSE n - 1 + 1
    BY FS_Interval
  <2>2. Cardinality(0 .. MaxUnits - 1) =
          IF 0 > MaxUnits - 1 THEN 0 ELSE MaxUnits - 1 - 0 + 1
    <3>1. MaxUnits - 1 \in Int
      BY <1>1
    <3> DEFINE m == MaxUnits - 1
    <3> HIDE DEF m
    <3>2. m \in Int
      BY <3>1 DEF m
    <3>3. Cardinality(0 .. m) = IF 0 > m THEN 0 ELSE m - 0 + 1
      BY <3>2, FS_Interval
    <3> QED BY <3>3 DEF m
  <2>3. IsFiniteSet(1 .. n) /\ IsFiniteSet(0 .. MaxUnits - 1)
    BY <1>1, FS_Interval
  <2> QED BY <1>1, <2>1, <2>2, <2>3
<1>8. ~(MaxUnits < n)
  <2> SUFFICES ASSUME MaxUnits < n PROVE FALSE
    OBVIOUS
  <2>1. \E x, y \in 1 .. n : x # y /\ f[x] = f[y]
    BY <1>5, <1>7, FS_PigeonHole
  <2> QED BY <1>6, <2>1
<1> QED BY <1>1, <1>8

\* Cutting a unit in two keeps the tiling.
LEMMA Split ==
  ASSUME NEW U, NEW sz, Tiles(U, sz), NEW p \in U, NEW n \in Int,
         n >= 16, n % 8 = 0, sz[p] - n - 8 >= 16,
         NEW f, f = p + n + 8, NEW sy, sy[p] = n, sy[f] = sz[p] - n - 8,
         \A u \in U : u # p => sy[u] = sz[u]
  PROVE  Tiles(U \cup {f}, sy) /\ f \notin U /\ f \in Addr
         /\ After(sy, p) = f /\ After(sy, f) = After(sz, p)
<1>1. /\ p \in Nat /\ p % 8 = 0 /\ sz[p] \in Int /\ sz[p] % 8 = 0
      /\ After(sz, p) = p + sz[p] + 8 /\ f \in Nat /\ p < f /\ f + 16 < After(sz, p)
      /\ p + sz[p] \in Addr
  BY TileFacts
<1>2. f % 8 = 0 /\ (sz[p] - n - 8) % 8 = 0
  BY <1>1
<1>3. f \in Addr /\ f \notin U /\ f # Base
  <2>1. f \notin U
    BY <1>1, NothingInside
  <2>2. Base \in U /\ Base <= p /\ f < p + sz[p]
    BY <1>1, TileFacts
  <2> QED BY <1>1, <1>2, <2>1, <2>2, Arena
<1>4. /\ After(sy, p) = f /\ After(sy, f) = After(sz, p)
      /\ \A u \in U : u # p => After(sy, u) = After(sz, u)
  BY <1>1, Arena DEF After
<1>5. ASSUME NEW u \in U \cup {f}
      PROVE  /\ sy[u] \in Int /\ sy[u] >= UnitSize /\ sy[u] % 8 = 0
             /\ After(sy, u) \in U \cup {f} \cup {End}
  <2>1. UnitSize = 16 /\ f # p
    BY <1>1, Arena
  <2>2. CASE u = f
    <3>1. After(sy, u) \in U \cup {End}
      BY <1>1, <1>4, <2>2, TileFacts
    <3> QED BY <1>1, <1>2, <2>1, <2>2, <3>1
  <2>3. CASE u = p
    BY <1>4, <2>1, <2>3
  <2>4. CASE u # f /\ u # p
    <3>1. u \in U /\ sy[u] = sz[u] /\ After(sy, u) = After(sz, u)
      BY <1>4, <2>4
    <3>2. /\ sz[u] \in 0 .. Size /\ sz[u] >= 16 /\ sz[u] % 8 = 0
          /\ After(sz, u) \in U \cup {End}
      BY <3>1, TileFacts
    <3> QED BY <2>1, <3>1, <3>2
  <2> QED BY <2>2, <2>3, <2>4
<1>6. ASSUME NEW u \in U \cup {f}, NEW v \in U \cup {f}, u < v
      PROVE  After(sy, u) <= v
  <2>1. CASE u = p /\ v # f
    <3>1. v \in U /\ After(sz, p) <= v /\ v \in Nat
      BY <1>6, <2>1, TileFacts
    <3> QED BY <1>1, <1>4, <2>1, <3>1
  <2>2. CASE u = p /\ v = f
    BY <1>1, <1>4, <2>2
  <2>3. CASE u = f
    <3>1. v \in U /\ v \in Nat /\ p < v
      BY <1>1, <1>6, <2>3, TileFacts
    <3> QED BY <1>4, <2>3, <3>1, TileFacts
  <2>4. CASE u # p /\ u # f /\ v = f
    <3>1. u \in U /\ u \in Nat /\ (u < p \/ p < u)
      BY <1>1, <2>4, TileFacts
    <3>2. ~(p < u)
      <4>1. p < u => After(sz, p) <= u
        BY <3>1, TileFacts
      <4> QED BY <1>1, <1>6, <2>4, <3>1, <4>1
    <3>3. After(sz, u) <= p /\ After(sz, u) \in Nat
      BY <3>1, <3>2, TileFacts
    <3> QED BY <1>1, <1>4, <2>4, <3>1, <3>3
  <2>5. CASE u # p /\ u # f /\ v # f
    BY <1>4, <1>6, <2>5, TileFacts
  <2> QED BY <2>1, <2>2, <2>3, <2>4, <2>5
<1>7. ASSUME NEW u \in U \cup {f}, u # Base
      PROVE  \E q \in U \cup {f} : After(sy, q) = u
  <2>1. CASE u = f
    BY <1>4, <2>1
  <2>2. CASE u # f
    <3>1. PICK q \in U : After(sz, q) = u
      BY <1>7, <2>2, TileFacts
    <3> QED BY <1>4, <3>1
  <2> QED BY <2>1, <2>2
<1>8. U \cup {f} \subseteq Addr /\ Base \in U \cup {f}
  BY <1>3, TileFacts
<1> QED BY <1>3, <1>4, <1>5, <1>6, <1>7, <1>8 DEF Tiles

\* Merging a unit with the one behind it keeps the tiling.
LEMMA Merge ==
  ASSUME NEW U, NEW sz, Tiles(U, sz), NEW q \in U, NEW p \in U, After(sz, q) = p,
         NEW sy, sy[q] = sz[q] + sz[p] + 8,
         \A u \in U : u # q /\ u # p => sy[u] = sz[u]
  PROVE  Tiles(U \ {p}, sy) /\ After(sy, q) = After(sz, p)
         /\ p # q /\ p # Base /\ q + sy[q] = p + sz[p]
<1>1. /\ q \in Nat /\ q % 8 = 0 /\ sz[q] \in Int /\ sz[q] >= 16 /\ sz[q] % 8 = 0
      /\ p \in Nat /\ p % 8 = 0 /\ sz[p] \in Int /\ sz[p] >= 16 /\ sz[p] % 8 = 0
      /\ After(sz, q) = q + sz[q] + 8 /\ After(sz, p) = p + sz[p] + 8
      /\ Base <= q
  BY TileFacts
<1>2. p # q /\ p # Base /\ q < p /\ (sz[q] + sz[p] + 8) % 8 = 0
  BY <1>1, Arena
<1>3. /\ After(sy, q) = After(sz, p) /\ q + sy[q] = p + sz[p]
      /\ \A u \in U : u # q /\ u # p => After(sy, u) = After(sz, u)
  BY <1>1, Arena DEF After
<1>4. ASSUME NEW u \in U \ {p}
      PROVE  /\ sy[u] \in Int /\ sy[u] >= UnitSize /\ sy[u] % 8 = 0
             /\ After(sy, u) \in (U \ {p}) \cup {End}
  <2>1. CASE u = q
    <3>1. After(sz, p) \in U \cup {End} /\ After(sz, p) # p
      BY <1>1, TileFacts
    <3> QED BY <1>1, <1>2, <1>3, <2>1, <3>1, Arena
  <2>2. CASE u # q
    <3>1. After(sz, u) # p
      BY <2>2, TileFacts
    <3> QED BY <1>3, <2>2, <3>1, TileFacts, Arena
  <2> QED BY <2>1, <2>2
<1>5. ASSUME NEW u \in U \ {p}, NEW v \in U \ {p}, u < v
      PROVE  After(sy, u) <= v
  <2>1. CASE u = q
    <3>1. p < v
      <4>1. After(sz, q) <= v /\ v \in Nat
        BY <1>5, <2>1, TileFacts
      <4> QED BY <1>1, <4>1
    <3> QED BY <1>3, <2>1, <3>1, TileFacts
  <2>2. CASE u # q
    BY <1>3, <1>5, <2>2, TileFacts
  <2> QED BY <2>1, <2>2
<1>6. ASSUME NEW u \in U \ {p}, u # Base
      PROVE  \E w \in U \ {p} : After(sy, w) = u
  <2>1. PICK w \in U : After(sz, w) = u
    BY <1>6, TileFacts
  <2>2. CASE w = p
    BY <1>2, <1>3, <2>1, <2>2
  <2>3. CASE w # p
    <3>1. w # q
      BY <2>1
    <3> QED BY <1>3, <2>1, <2>3, <3>1
  <2> QED BY <2>2, <2>3
<1>7. U \ {p} \subseteq Addr /\ Base \in U \ {p}
  BY <1>2, TileFacts
<1> QED BY <1>2, <1>3, <1>4, <1>5, <1>6, <1>7 DEF Tiles


-----------------------------------------------------------------------------
(* What the methods do to a heap whose lists are lists: sizes, magic       *)
(* numbers and marks.                                                      *)

LEMMA Inserted ==
  ASSUME NEW h \in HeapState, Lists(h), NEW l \in List, NEW u \in Addr,
         h.unit[u].magic = "plain", NEW m \in Addr, m = u + h.unit[u].size,
         NEW g, g = insert(h, l, u)
  PROVE  /\ g \in HeapState /\ Lists(g) /\ g.panic = h.panic
         /\ \A a \in Addr :
              /\ g.unit[a].size = h.unit[a].size
              /\ g.unit[a].magic = IF a = u THEN l ELSE h.unit[a].magic
              /\ g.mark[a].size = h.mark[a].size
              /\ g.mark[a].owner = IF a = m THEN l ELSE h.mark[a].owner
<1>1. MarkOf(h, u) = m
  BY DEF MarkOf
<1>2. Lists(g) /\ h.list[l].head # u
  BY <1>1, InsertKeepsLists
<1> QED BY <1>1, <1>2, InsertEffect

LEMMA Removed ==
  ASSUME NEW h \in HeapState, Lists(h), NEW l \in List, NEW u \in Addr,
         h.unit[u].magic = l, NEW g, g = remove(h, l, u)
  PROVE  /\ g \in HeapState /\ Lists(g) /\ g.panic = h.panic /\ g.mark = h.mark
         /\ \A a \in Addr :
              /\ g.unit[a].size = h.unit[a].size
              /\ g.unit[a].magic = IF a = u THEN "plain" ELSE h.unit[a].magic
BY RemoveKeepsLists, RemoveEffect

LEMMA Replaced ==
  ASSUME NEW h \in HeapState, Lists(h), NEW l \in List, NEW fm \in Addr,
         NEW to \in Addr, h.unit[fm].magic = l, h.unit[to].magic = "plain",
         NEW m \in Addr, m = to + h.unit[to].size, NEW g, g = replace(h, l, fm, to)
  PROVE  /\ g \in HeapState /\ Lists(g) /\ g.panic = h.panic
         /\ \A a \in Addr :
              /\ g.unit[a].size = h.unit[a].size
              /\ g.unit[a].magic = IF a = to THEN l ELSE IF a = fm THEN "plain"
                                   ELSE h.unit[a].magic
              /\ g.mark[a].size = h.mark[a].size
              /\ g.mark[a].owner = IF a = m THEN l ELSE h.mark[a].owner
<1>1. MarkOf(h, to) = m
  BY DEF MarkOf
<1>2. /\ Lists(g)
      /\ h.unit[fm].prev \notin {fm, to} /\ h.unit[fm].next \notin {fm, to}
  BY <1>1, ReplaceKeepsLists
<1> QED BY <1>1, <1>2, ReplaceEffect

LEMMA Resized ==
  ASSUME NEW h \in HeapState, Lists(h), NEW u \in Addr, NEW n \in 0 .. Size,
         NEW m \in Addr, m = u + n, NEW g, g = SetSize(h, u, n)
  PROVE  /\ g \in HeapState /\ Lists(g) /\ g.panic = h.panic
         /\ \A a \in Addr :
              /\ g.unit[a].size = IF a = u THEN n ELSE h.unit[a].size
              /\ g.unit[a].magic = h.unit[a].magic
              /\ g.mark[a].size = IF a = m THEN n ELSE h.mark[a].size
              /\ g.mark[a].owner = h.mark[a].owner
<1>1. /\ g \in HeapState /\ g.panic = h.panic /\ g.list = h.list
      /\ \A a \in Addr :
           /\ g.unit[a].size = IF a = u THEN n ELSE h.unit[a].size
           /\ g.unit[a].magic = h.unit[a].magic
           /\ g.unit[a].next = h.unit[a].next
           /\ g.unit[a].prev = h.unit[a].prev
           /\ g.mark[a].size = IF a = m THEN n ELSE h.mark[a].size
           /\ g.mark[a].owner = h.mark[a].owner
  BY SetSizeEffect
<1>2. Lists(g)
  BY <1>1, ListsFrame
<1> QED BY <1>1, <1>2

LEMMA Renewed ==
  ASSUME NEW h \in HeapState, Lists(h), NEW u \in Addr, h.unit[u].magic \notin List,
         NEW n \in 0 .. Size, NEW m \in Addr, m = u + n, NEW g, g = NewUnit(h, u, n)
  PROVE  /\ g \in HeapState /\ Lists(g) /\ g.panic = h.panic
         /\ \A a \in Addr :
              /\ g.unit[a].size = IF a = u THEN n ELSE h.unit[a].size
              /\ g.unit[a].magic = IF a = u THEN "plain" ELSE h.unit[a].magic
              /\ g.mark[a].size = IF a = m THEN n ELSE h.mark[a].size
              /\ g.mark[a].owner = h.mark[a].owner
<1>1. /\ g \in HeapState /\ g.panic = h.panic /\ g.list = h.list
      /\ \A a \in Addr :
           /\ g.unit[a].size = IF a = u THEN n ELSE h.unit[a].size
           /\ g.unit[a].magic = IF a = u THEN "plain" ELSE h.unit[a].magic
           /\ g.unit[a].next = IF a = u THEN NULL ELSE h.unit[a].next
           /\ g.unit[a].prev = IF a = u THEN NULL ELSE h.unit[a].prev
           /\ g.mark[a].size = IF a = m THEN n ELSE h.mark[a].size
           /\ g.mark[a].owner = h.mark[a].owner
  BY NewUnitEffect
<1>2. /\ \A a \in Addr, l \in List : g.unit[a].magic = l <=> h.unit[a].magic = l
      /\ \A a \in Addr : h.unit[a].magic \in List =>
           g.unit[a].next = h.unit[a].next /\ g.unit[a].prev = h.unit[a].prev
  BY <1>1, ListFacts
<1>3. Lists(g)
  BY <1>1, <1>2, ListsFrame
<1> QED BY <1>1, <1>3

-----------------------------------------------------------------------------
(* The invariant of the heap.                                              *)

UnitsOf(h) == {u \in Addr : h.unit[u].magic \in List}
SizeOf(h) == [a \in Addr |-> h.unit[a].size]
MarksRight(h) ==
  \A u \in UnitsOf(h) : /\ h.mark[u + h.unit[u].size].owner = h.unit[u].magic
                        /\ h.mark[u + h.unit[u].size].size = h.unit[u].size
FreeApart(h) ==
  \A u, v \in UnitsOf(h) :
    After(SizeOf(h), u) = v => h.unit[u].magic = "used" \/ h.unit[v].magic = "used"
Sentinels(h) ==
  /\ h.unit[Base].magic = "used" /\ h.unit[Base].size = 16
  /\ h.unit[LastUnit].magic = "used" /\ h.unit[LastUnit].size = 16
Sound(h) ==
  /\ h \in HeapState /\ Lists(h)
  /\ Tiles(UnitsOf(h), SizeOf(h))
  /\ MarksRight(h)
  /\ FreeApart(h)
  /\ Sentinels(h)

LEMMA LastUnitIs ==
  LastUnit = End - 24 /\ LastUnit \in Addr /\ Base \in Addr /\ Base < LastUnit
  /\ FirstFree = Base + 24 /\ FirstFree \in Addr /\ FirstFree < LastUnit
  /\ FreeSize = Size - 56 /\ FreeSize \in 0 .. Size /\ FreeSize >= 16
  /\ FreeSize % 8 = 0 /\ FirstFree + FreeSize \in Addr
<1>1. LastUnit = End - 24 /\ FirstFree = Base + 24 /\ FreeSize = Size - 56
  BY Arena DEF LastUnit, FirstFree, FreeSize
<1>2. LastUnit % 8 = 0 /\ FirstFree % 8 = 0 /\ FreeSize % 8 = 0
  BY <1>1, Arena
<1>3. FreeSize \in 0 .. Size /\ FreeSize >= 16
  BY <1>1, Arena
<1>4. (FirstFree + FreeSize) % 8 = 0 /\ FirstFree + FreeSize = End - 32
  BY <1>1, Arena
<1> QED BY <1>1, <1>2, <1>3, <1>4, Arena

\* A unit of a sound heap, and the unit behind it.
LEMMA UnitFacts ==
  ASSUME NEW h, Sound(h), NEW U, U = UnitsOf(h), NEW sz, sz = SizeOf(h),
         NEW u \in U
  PROVE  /\ u \in Addr /\ u \in Nat /\ u % 8 = 0 /\ h.unit[u].magic \in List
         /\ sz[u] = h.unit[u].size /\ sz[u] \in 0 .. Size /\ sz[u] >= 16
         /\ sz[u] % 8 = 0 /\ sz[u] \in Int
         /\ After(sz, u) = u + sz[u] + 8 /\ After(sz, u) \in U \cup {End}
         /\ u + sz[u] \in Addr /\ u + 16 \in Addr
         /\ h.mark[u + sz[u]].owner = h.unit[u].magic
         /\ h.mark[u + sz[u]].size = sz[u]
BY TileFacts DEF Sound, UnitsOf, SizeOf, MarksRight

LEMMA Neighbours ==
  ASSUME NEW h, Sound(h), NEW U, U = UnitsOf(h), NEW sz, sz = SizeOf(h),
         NEW p \in U, p # Base, p # LastUnit
  PROVE  /\ After(sz, p) \in U /\ Base < p /\ FirstFree <= p
         /\ After(sz, p) <= LastUnit
         /\ \E q \in U : After(sz, q) = p
<1>1. Base \in U /\ LastUnit \in U /\ Tiles(U, sz)
  BY LastUnitIs DEF Sound, Sentinels, UnitsOf, List
<1>2. sz[Base] = 16 /\ sz[LastUnit] = 16
  BY LastUnitIs DEF Sound, Sentinels, SizeOf
<1>3. After(sz, Base) = FirstFree /\ After(sz, LastUnit) = End
  BY <1>2, LastUnitIs, Arena DEF After
<1>4. After(sz, p) # End
  BY <1>1, <1>3, TileFacts
<1>5. After(sz, p) \in U
  BY <1>1, <1>4, TileFacts
<1>6. Base < p /\ FirstFree <= p
  <2>1. Base < p
    BY <1>1, TileFacts, Arena
  <2> QED BY <1>1, <1>3, <2>1, TileFacts
<1>7. p < LastUnit
  <2>1. ~(LastUnit < p)
    <3>1. LastUnit < p => End <= p
      BY <1>1, <1>3, TileFacts
    <3> QED BY <1>1, <3>1, TileFacts, Arena, SMTT(20)
  <2>2. p \in Nat /\ LastUnit \in Nat
    BY <1>1, TileFacts
  <2> QED BY <2>1, <2>2
<1> QED BY <1>1, <1>5, <1>6, <1>7, TileFacts

\* Only the sizes of the units matter to a tiling.
LEMMA TilesAgree ==
  ASSUME NEW U, NEW sz, Tiles(U, sz), NEW sy, \A u \in U : sy[u] = sz[u]
  PROVE  Tiles(U, sy)
<1>1. \A u \in U : After(sy, u) = After(sz, u)
  BY DEF After
<1> QED BY <1>1 DEF Tiles

\* The caller writes only over memory that is neither a header nor a mark.
LEMMA OverwrittenSound ==
  ASSUME NEW h, Sound(h), NEW p \in Addr, h.unit[p].magic = "used",
         NEW g, g = Overwritten(h, p)
  PROVE  /\ Sound(g) /\ g.panic = h.panic
         /\ \A a \in Addr : g.unit[a].magic = "used" <=> h.unit[a].magic = "used"
         /\ \A a \in Addr : h.unit[a].magic = "used" => g.unit[a].size = h.unit[a].size
<1> DEFINE U == UnitsOf(h)
           sz == SizeOf(h)
<1>1. h \in HeapState /\ Tiles(U, sz) /\ p \in U
  BY ListFacts DEF Sound, UnitsOf
<1>2. Work(p) = p + 16 /\ MarkOf(h, p) = p + sz[p]
  BY Arena DEF Work, MarkOf, SizeOf
<1>3. /\ g \in HeapState /\ g.panic = h.panic /\ g.list = h.list
      /\ \A a \in Addr :
           IF p + 16 <= a /\ a < p + sz[p]
           THEN g.unit[a] = NoUnit /\ g.mark[a] = NoMark
           ELSE g.unit[a] = h.unit[a] /\ g.mark[a] = h.mark[a]
  BY <1>1, <1>2, OverwrittenEffect
<1>4. ASSUME NEW u \in U
      PROVE  /\ u \in Addr /\ g.unit[u] = h.unit[u]
             /\ u + sz[u] \in Addr /\ g.mark[u + sz[u]] = h.mark[u + sz[u]]
             /\ sz[u] = h.unit[u].size
  <2> HIDE DEF U, sz
  <2>1. /\ u \in Addr /\ u \in Nat /\ u + sz[u] \in Addr /\ sz[u] \in Int /\ sz[u] >= 16
        /\ After(sz, u) = u + sz[u] + 8 /\ p \in Nat /\ sz[p] \in Int
        /\ After(sz, p) = p + sz[p] + 8
    BY <1>1, TileFacts
  <2>2. u < p => After(sz, u) <= p
    BY <1>1, TileFacts
  <2>3. p < u => After(sz, p) <= u
    BY <1>1, TileFacts
  <2>4. ~(p + 16 <= u /\ u < p + sz[p])
    BY <2>1, <2>3
  <2>5. ~(p + 16 <= u + sz[u] /\ u + sz[u] < p + sz[p])
    <3>1. CASE u < p
      BY <2>1, <2>2, <3>1
    <3>2. CASE u = p
      BY <2>1, <3>2
    <3>3. CASE p < u
      BY <2>1, <2>3, <3>3
    <3> QED BY <2>1, <3>1, <3>2, <3>3
  <2> QED BY <1>3, <2>1, <2>4, <2>5 DEF sz, SizeOf
<1>5. \A a \in Addr : a \notin U => g.unit[a].magic \notin List
  <2>1. NoUnit.magic \notin List
    BY ListFacts DEF NoUnit
  <2> QED BY <1>3, <2>1 DEF UnitsOf
<1>6. UnitsOf(g) = U /\ \A u \in U : SizeOf(g)[u] = sz[u]
  BY <1>4, <1>5 DEF UnitsOf, SizeOf
<1>7. Tiles(UnitsOf(g), SizeOf(g))
  BY <1>1, <1>6, TilesAgree
<1>8. MarksRight(g)
  <2>1. MarksRight(h)
    BY DEF Sound
  <2> QED BY <1>4, <1>6, <2>1, SMTT(20) DEF MarksRight
<1>9. FreeApart(g)
  <2>1. FreeApart(h)
    BY DEF Sound
  <2>2. \A u \in U : After(SizeOf(g), u) = After(sz, u)
    BY <1>6 DEF After
  <2> QED BY <1>4, <1>6, <2>1, <2>2 DEF FreeApart
<1>10. Sentinels(g)
  <2>1. Sentinels(h) /\ Base \in U /\ LastUnit \in U
    BY ListFacts, LastUnitIs DEF Sound, Sentinels, UnitsOf
  <2> QED BY <1>4, <2>1 DEF Sentinels
<1>11. Lists(g)
  <2>1. Lists(h)
    BY DEF Sound
  <2>2. \A a \in Addr, l \in List : g.unit[a].magic = l <=> h.unit[a].magic = l
    BY <1>4, <1>5 DEF UnitsOf
  <2>3. \A a \in Addr : h.unit[a].magic \in List =>
          g.unit[a].next = h.unit[a].next /\ g.unit[a].prev = h.unit[a].prev
    BY <1>4 DEF UnitsOf
  <2> QED BY <1>3, <2>1, <2>2, <2>3, ListsFrame
<1>12. /\ \A a \in Addr : g.unit[a].magic = "used" <=> h.unit[a].magic = "used"
       /\ \A a \in Addr : h.unit[a].magic = "used" => g.unit[a].size = h.unit[a].size
  BY <1>4, <1>5, ListFacts DEF UnitsOf
<1> QED BY <1>3, <1>7, <1>8, <1>9, <1>10, <1>11, <1>12 DEF Sound

\* A whole free unit is handed out.
LEMMA WholeGiven ==
  ASSUME NEW h, Sound(h), NEW p \in Addr, h.unit[p].magic = "free",
         NEW g, g = insert(remove(h, "free", p), "used", p)
  PROVE  /\ Sound(g) /\ g.panic = h.panic
         /\ \A a \in Addr : /\ g.unit[a].size = h.unit[a].size
                            /\ g.unit[a].magic = "used" <=>
                                 a = p \/ h.unit[a].magic = "used"
<1> DEFINE U == UnitsOf(h)
           sz == SizeOf(h)
           r == remove(h, "free", p)
           m == p + sz[p]
<1>1. /\ h \in HeapState /\ Lists(h) /\ Tiles(U, sz) /\ p \in U
      /\ MarksRight(h) /\ FreeApart(h) /\ Sentinels(h)
  BY ListFacts DEF Sound, UnitsOf
<1>2. m \in Addr /\ sz = [a \in Addr |-> h.unit[a].size]
  BY <1>1, TileFacts DEF SizeOf
<1>3. /\ r \in HeapState /\ Lists(r) /\ r.panic = h.panic /\ r.mark = h.mark
      /\ \A a \in Addr :
           /\ r.unit[a].size = h.unit[a].size
           /\ r.unit[a].magic = IF a = p THEN "plain" ELSE h.unit[a].magic
  BY <1>1, ListFacts, Removed
<1> HIDE DEF r
<1>4. m = p + r.unit[p].size
  BY <1>2, <1>3
<1> HIDE DEF m
<1>5. /\ g \in HeapState /\ Lists(g) /\ g.panic = h.panic
      /\ \A a \in Addr :
           /\ g.unit[a].size = h.unit[a].size
           /\ g.unit[a].magic = IF a = p THEN "used" ELSE h.unit[a].magic
           /\ g.mark[a].size = h.mark[a].size
           /\ g.mark[a].owner = IF a = m THEN "used" ELSE h.mark[a].owner
  <2>1. g = insert(r, "used", p)
    BY DEF r
  <2> QED BY <1>2, <1>3, <1>4, <2>1, ListFacts, Inserted
<1>6. UnitsOf(g) = U /\ SizeOf(g) = sz
  BY <1>1, <1>5, ListFacts DEF UnitsOf, SizeOf
<1>7. MarksRight(g)
  <2> SUFFICES ASSUME NEW u \in U
               PROVE  /\ g.mark[u + sz[u]].owner = g.unit[u].magic
                      /\ g.mark[u + sz[u]].size = sz[u]
    BY <1>5, <1>6, <1>2 DEF MarksRight, UnitsOf
  <2>1. /\ u \in Addr /\ u + sz[u] \in Addr /\ (u + sz[u] = m <=> u = p)
        /\ h.mark[u + sz[u]].owner = h.unit[u].magic
        /\ h.mark[u + sz[u]].size = sz[u]
    BY <1>1, <1>2, TileFacts DEF MarksRight, m
  <2> QED BY <1>5, <2>1
<1>8. FreeApart(g)
  BY <1>1, <1>5, <1>6 DEF FreeApart, UnitsOf
<1>9. Sentinels(g)
  BY <1>1, <1>5, LastUnitIs DEF Sentinels
<1> QED BY <1>1, <1>5, <1>6, <1>7, <1>8, <1>9 DEF Sound

\* A free unit is cut: its front is handed out, the rest stays free.
LEMMA CutGiven ==
  ASSUME NEW h, Sound(h), NEW p \in Addr, h.unit[p].magic = "free",
         NEW n \in Int, n >= 16, n % 8 = 0, h.unit[p].size - n - 8 >= 16,
         NEW g, g = Cut(h, p, n)
  PROVE  /\ Sound(g) /\ g.panic = h.panic /\ g.unit[p].size = n
         /\ \A a \in Addr : /\ g.unit[a].magic = "used" <=>
                                 a = p \/ h.unit[a].magic = "used"
                            /\ h.unit[a].magic = "used" =>
                                 g.unit[a].size = h.unit[a].size
<1> DEFINE U == UnitsOf(h)
           sz == SizeOf(h)
           f == p + n + 8
           rest == sz[p] - n - 8
           m == p + sz[p]
           mp == p + n
           k1 == NewUnit(h, f, rest)
           k2 == remove(k1, "free", p)
           k3 == insert(k2, "free", f)
           k4 == SetSize(k3, p, n)
<1>1. /\ h \in HeapState /\ Lists(h) /\ Tiles(U, sz) /\ p \in U
      /\ MarksRight(h) /\ FreeApart(h) /\ Sentinels(h)
  BY ListFacts DEF Sound, UnitsOf
<1>2. \A a \in Addr : sz[a] = h.unit[a].size
  BY DEF SizeOf
<1>3. /\ p \in Nat /\ p % 8 = 0 /\ sz[p] \in 0 .. Size /\ sz[p] % 8 = 0 /\ m \in Addr
      /\ m \in Nat /\ After(sz, p) = p + sz[p] + 8 /\ Base <= p
  BY <1>1, TileFacts, Arena
<1>4. /\ n \in 0 .. Size /\ rest \in 0 .. Size /\ rest >= 16
      /\ f \in Nat /\ f < m /\ mp \in Nat /\ mp < m /\ m = f + rest /\ p < f /\ p < mp
      /\ f < After(sz, p)
  BY <1>2, <1>3, Arena
<1>5. f \in Addr /\ mp \in Addr
  <2>1. f % 8 = 0 /\ mp % 8 = 0
    BY <1>3
  <2> QED BY <1>3, <1>4, <2>1, Arena
<1>6. f \notin U /\ f # p /\ m # mp
  BY <1>1, <1>4, NothingInside
<1>7. h.unit[f].magic \notin List
  BY <1>5, <1>6 DEF UnitsOf
<1>8. g = insert(k4, "used", p)
  BY <1>2, Arena DEF Cut, Remainder
<1> HIDE DEF f, m, mp, sz, k4
<1>9. /\ k1 \in HeapState /\ Lists(k1) /\ k1.panic = h.panic
      /\ \A a \in Addr :
           /\ k1.unit[a].size = IF a = f THEN rest ELSE h.unit[a].size
           /\ k1.unit[a].magic = IF a = f THEN "plain" ELSE h.unit[a].magic
           /\ k1.mark[a].size = IF a = m THEN rest ELSE h.mark[a].size
           /\ k1.mark[a].owner = h.mark[a].owner
  <2> HIDE DEF rest
  <2> QED BY <1>1, <1>3, <1>4, <1>5, <1>7, Renewed
<1> HIDE DEF rest, k1
<1>10. /\ k2 \in HeapState /\ Lists(k2) /\ k2.panic = k1.panic /\ k2.mark = k1.mark
       /\ \A a \in Addr :
            /\ k2.unit[a].size = k1.unit[a].size
            /\ k2.unit[a].magic = IF a = p THEN "plain" ELSE k1.unit[a].magic
  BY <1>6, <1>9, ListFacts, Removed
<1> HIDE DEF k2
<1>11. /\ k3 \in HeapState /\ Lists(k3) /\ k3.panic = k2.panic
       /\ \A a \in Addr :
            /\ k3.unit[a].size = k2.unit[a].size
            /\ k3.unit[a].magic = IF a = f THEN "free" ELSE k2.unit[a].magic
            /\ k3.mark[a].size = k2.mark[a].size
            /\ k3.mark[a].owner = IF a = m THEN "free" ELSE k2.mark[a].owner
  <2>1. k2.unit[f].magic = "plain" /\ m = f + k2.unit[f].size
    BY <1>4, <1>5, <1>6, <1>9, <1>10
  <2>2. k3 = insert(k2, "free", f)
    OBVIOUS
  <2>3. m \in Addr /\ f \in Addr
    BY <1>3, <1>5
  <2> HIDE DEF k3
  <2> QED BY <1>10, <2>1, <2>2, <2>3, ListFacts, Inserted
<1> HIDE DEF k3
<1>12. /\ k4 \in HeapState /\ Lists(k4) /\ k4.panic = k3.panic
       /\ \A a \in Addr :
            /\ k4.unit[a].size = IF a = p THEN n ELSE k3.unit[a].size
            /\ k4.unit[a].magic = k3.unit[a].magic
            /\ k4.mark[a].size = IF a = mp THEN n ELSE k3.mark[a].size
            /\ k4.mark[a].owner = k3.mark[a].owner
  <2>1. k4 = SetSize(k3, p, n) /\ mp = p + n
    BY DEF k4, mp
  <2>2. n \in 0 .. Size /\ mp \in Addr
    BY <1>4, <1>5
  <2> QED BY <1>11, <2>1, <2>2, Resized
<1>13. /\ g \in HeapState /\ Lists(g) /\ g.panic = k4.panic
       /\ \A a \in Addr :
            /\ g.unit[a].size = k4.unit[a].size
            /\ g.unit[a].magic = IF a = p THEN "used" ELSE k4.unit[a].magic
            /\ g.mark[a].size = k4.mark[a].size
            /\ g.mark[a].owner = IF a = mp THEN "used" ELSE k4.mark[a].owner
  <2>1. k4.unit[p].magic = "plain" /\ mp = p + k4.unit[p].size
    BY <1>6, <1>10, <1>11, <1>12 DEF mp
  <2> QED BY <1>5, <1>8, <1>12, <2>1, ListFacts, Inserted
<1>14. /\ g.panic = h.panic
       /\ \A a \in Addr :
            /\ g.unit[a].size = IF a = p THEN n ELSE IF a = f THEN rest ELSE sz[a]
            /\ g.unit[a].magic = IF a = p THEN "used" ELSE IF a = f THEN "free"
                                 ELSE h.unit[a].magic
            /\ g.mark[a].size = IF a = mp THEN n ELSE IF a = m THEN rest
                                ELSE h.mark[a].size
            /\ g.mark[a].owner = IF a = mp THEN "used" ELSE IF a = m THEN "free"
                                 ELSE h.mark[a].owner
  BY <1>2, <1>6, <1>9, <1>10, <1>11, <1>12, <1>13
<1> DEFINE sy == SizeOf(g)
<1>15. /\ sy[p] = n /\ sy[f] = rest /\ \A u \in U : u # p => sy[u] = sz[u]
       /\ \A a \in Addr : sy[a] = g.unit[a].size
  <2>1. \A a \in Addr : sy[a] = g.unit[a].size
    BY DEF SizeOf
  <2> QED BY <1>1, <1>5, <1>6, <1>14, <2>1, TileFacts
<1> HIDE DEF sy
<1>16. UnitsOf(g) = U \cup {f}
  BY <1>5, <1>1, <1>14, ListFacts DEF UnitsOf
<1>17. /\ Tiles(U \cup {f}, sy) /\ After(sy, p) = f /\ After(sy, f) = After(sz, p)
  <2>1. sz[p] - n - 8 >= 16 /\ f = p + n + 8 /\ sy[f] = sz[p] - n - 8
    BY <1>4, <1>15 DEF f, rest
  <2> HIDE DEF U
  <2> QED BY <1>1, <1>15, <2>1, Split
<1>18. MarksRight(g)
  <2> SUFFICES ASSUME NEW u \in U \cup {f}
               PROVE  /\ g.mark[u + g.unit[u].size].owner = g.unit[u].magic
                      /\ g.mark[u + g.unit[u].size].size = g.unit[u].size
    BY <1>16 DEF MarksRight
  <2>1. CASE u = p
    <3>1. u + g.unit[u].size = mp
      BY <1>14, <2>1 DEF mp
    <3> QED BY <1>5, <1>14, <2>1, <3>1
  <2>2. CASE u = f
    <3>1. u + g.unit[u].size = m
      BY <1>4, <1>5, <1>6, <1>14, <2>2
    <3> QED BY <1>3, <1>5, <1>6, <1>14, <2>2, <3>1
  <2>3. CASE u # p /\ u # f
    <3>1. /\ u \in U /\ u \in Addr /\ u + sz[u] \in Addr
          /\ h.mark[u + sz[u]].owner = h.unit[u].magic
          /\ h.mark[u + sz[u]].size = sz[u]
      BY <1>1, <1>2, <2>3, TileFacts DEF MarksRight
    <3>2. u + sz[u] # m
      BY <1>1, <2>3, <3>1, TileFacts DEF m
    <3>3. u + sz[u] # mp
      <4>1. /\ u \in Nat /\ sz[u] \in Int /\ sz[u] >= 16 /\ After(sz, u) = u + sz[u] + 8
            /\ u < p => After(sz, u) <= p
            /\ p < u => After(sz, p) <= u
        BY <1>1, <3>1, TileFacts
      <4>2. m = p + sz[p] /\ mp < m /\ p < mp /\ mp \in Nat
        BY <1>4 DEF m
      <4>3. CASE u < p
        BY <1>3, <4>1, <4>2, <4>3
      <4>4. CASE p < u
        BY <1>3, <4>1, <4>2, <4>4
      <4> QED BY <1>3, <2>3, <4>1, <4>3, <4>4
    <3> QED BY <1>14, <2>3, <3>1, <3>2, <3>3
  <2> QED BY <2>1, <2>2, <2>3
<1>19. FreeApart(g)
  <2> SUFFICES ASSUME NEW u \in U \cup {f}, NEW v \in U \cup {f}, After(sy, u) = v,
                      g.unit[u].magic # "used", g.unit[v].magic # "used"
               PROVE  FALSE
    BY <1>16 DEF FreeApart, sy
  <2>1. u \in Addr /\ v \in Addr /\ u # p /\ v # p
    BY <1>1, <1>5, <1>14, TileFacts
  <2>2. CASE u = f
    <3>1. v \in U /\ v # f /\ After(sz, p) = v
      BY <1>3, <1>4, <1>17, <2>2
    <3>2. h.unit[v].magic # "used"
      BY <1>14, <2>1, <3>1
    <3> QED BY <1>1, <3>1, <3>2, ListFacts DEF FreeApart, sz
  <2>3. CASE u # f /\ v = f
    <3>1. p \in U \cup {f}
      BY <1>1
    <3>2. After(sy, u) = After(sy, p)
      BY <1>17, <2>3
    <3> HIDE DEF U
    <3>3. u = p
      BY <1>17, <3>1, <3>2, TileFacts
    <3> QED BY <2>1, <3>3
  <2>4. CASE u # f /\ v # f
    <3>1. After(sz, u) = v /\ u \in U /\ v \in U
      BY <1>15, <2>1, <2>4 DEF After
    <3>2. h.unit[u].magic # "used" /\ h.unit[v].magic # "used"
      BY <1>14, <2>1, <2>4
    <3> QED BY <1>1, <3>1, <3>2 DEF FreeApart, sz
  <2> QED BY <2>2, <2>3, <2>4
<1>20. Sentinels(g)
  <2>1. Base # f /\ LastUnit # f
    BY <1>1, <1>6, LastUnitIs, ListFacts DEF Sentinels, UnitsOf
  <2> QED BY <1>1, <1>2, <1>14, <2>1, LastUnitIs DEF Sentinels
<1>21. Sound(g)
  BY <1>13, <1>16, <1>17, <1>18, <1>19, <1>20 DEF Sound, sy
<1>22. \A a \in Addr : /\ g.unit[a].magic = "used" <=>
                            a = p \/ h.unit[a].magic = "used"
                       /\ h.unit[a].magic = "used" =>
                            g.unit[a].size = h.unit[a].size
  BY <1>2, <1>6, <1>7, <1>14, ListFacts
<1> QED BY <1>14, <1>21, <1>22

\* The free list gives a unit of the size asked for.
LEMMA GivenSound ==
  ASSUME NEW h, Sound(h), NEW p \in Addr, h.unit[p].magic = "free",
         NEW n \in Int, n >= 16, n % 8 = 0, h.unit[p].size >= n,
         NEW g, g = Given(h, p, n)
  PROVE  /\ Sound(g) /\ g.panic = h.panic /\ g.unit[p].size >= n
         /\ \A a \in Addr : /\ g.unit[a].magic = "used" <=>
                                 a = p \/ h.unit[a].magic = "used"
                            /\ h.unit[a].magic = "used" =>
                                 g.unit[a].size = h.unit[a].size
<1>1. h.unit[p].size \in Int
  BY HeapParts DEF Sound
<1>2. CASE WorthCutting(h, p, n)
  <2>1. g = Cut(h, p, n) /\ h.unit[p].size - n - 8 >= 16
    BY <1>1, <1>2, Arena DEF Given, WorthCutting
  <2> QED BY <2>1, CutGiven
<1>3. CASE ~WorthCutting(h, p, n)
  <2>1. g = insert(remove(h, "free", p), "used", p)
    BY <1>3 DEF Given
  <2> QED BY <2>1, WholeGiven
<1> QED BY <1>2, <1>3

(* From h to g, the units of D have been merged into the unit x, which is   *)
(* free and of size n now; U are the units of h, sz and sy the sizes in h   *)
(* and in g.                                                                *)
JoinedInto(h, g, U, sz, sy, D, x, n) ==
  /\ D \subseteq U /\ x \in U /\ x \notin D /\ n \in Int /\ x + n \in Addr
  /\ \E d \in D \cup {x} : x + n = d + sz[d]
  /\ g \in HeapState /\ Lists(g) /\ Tiles(U \ D, sy)
  /\ \A a \in Addr :
       /\ g.unit[a].size = IF a = x THEN n ELSE h.unit[a].size
       /\ g.unit[a].magic = IF a = x THEN "free" ELSE IF a \in D THEN "plain"
                            ELSE h.unit[a].magic
       /\ g.mark[a].size = IF a = x + n THEN n ELSE h.mark[a].size
       /\ g.mark[a].owner = IF a = x + n THEN "free" ELSE h.mark[a].owner
  /\ \A u \in U \ D : After(sy, u) = x => h.unit[u].magic = "used"
  /\ After(sy, x) \in U => h.unit[After(sy, x)].magic = "used"
  /\ Base \notin D \cup {x} /\ LastUnit \notin D \cup {x}

LEMMA Joined ==
  ASSUME NEW h, Sound(h), NEW U, U = UnitsOf(h), NEW sz, sz = SizeOf(h),
         NEW g, NEW sy, sy = SizeOf(g), NEW D, NEW x, NEW n,
         JoinedInto(h, g, U, sz, sy, D, x, n)
  PROVE  Sound(g)
<1> DEFINE m == x + n
<1> USE DEF JoinedInto
<1>0. /\ m \in Addr /\ g \in HeapState /\ Lists(g) /\ Tiles(U \ D, sy)
      /\ \A a \in Addr :
           /\ g.unit[a].size = IF a = x THEN n ELSE h.unit[a].size
           /\ g.unit[a].magic = IF a = x THEN "free" ELSE IF a \in D THEN "plain"
                                ELSE h.unit[a].magic
           /\ g.mark[a].size = IF a = m THEN n ELSE h.mark[a].size
           /\ g.mark[a].owner = IF a = m THEN "free" ELSE h.mark[a].owner
      /\ \E d \in D \cup {x} : m = d + sz[d]
      /\ \A u \in U \ D : After(sy, u) = x => h.unit[u].magic = "used"
      /\ After(sy, x) \in U => h.unit[After(sy, x)].magic = "used"
      /\ D \subseteq U /\ x \in U /\ x \notin D
      /\ Base \notin D \cup {x} /\ LastUnit \notin D \cup {x} /\ m = x + n
  OBVIOUS
<1> HIDE DEF JoinedInto, m
<1>1. /\ h \in HeapState /\ Tiles(U, sz) /\ MarksRight(h) /\ FreeApart(h)
      /\ Sentinels(h) /\ U \subseteq Addr
  BY DEF Sound, UnitsOf
<1>2. /\ \A a \in Addr : sz[a] = h.unit[a].size
      /\ \A a \in Addr : sy[a] = g.unit[a].size
  BY DEF SizeOf
<1>3. UnitsOf(g) = U \ D
  BY <1>0, <1>1, ListFacts DEF UnitsOf
<1>4. MarksRight(g)
  <2> SUFFICES ASSUME NEW u \in U \ D
               PROVE  /\ g.mark[u + g.unit[u].size].owner = g.unit[u].magic
                      /\ g.mark[u + g.unit[u].size].size = g.unit[u].size
    BY <1>3 DEF MarksRight
  <2>1. CASE u = x
    <3>1. u + g.unit[u].size = m /\ u \in Addr
      BY <1>0, <1>1, <2>1
    <3> QED BY <1>0, <2>1, <3>1
  <2>2. CASE u # x
    <3>1. /\ u \in Addr /\ u + sz[u] \in Addr
          /\ h.mark[u + sz[u]].owner = h.unit[u].magic
          /\ h.mark[u + sz[u]].size = sz[u]
      BY <1>1, <1>2, TileFacts DEF MarksRight
    <3>2. u + sz[u] # m
      <4>1. PICK d \in D \cup {x} : m = d + sz[d]
        BY <1>0
      <4>2. d \in U /\ d # u
        BY <1>0, <2>2
      <4> QED BY <1>1, <4>1, <4>2, TileFacts
    <3>3. g.unit[u].size = sz[u] /\ g.unit[u].magic = h.unit[u].magic
      BY <1>0, <1>2, <2>2, <3>1
    <3>4. /\ g.mark[u + sz[u]].owner = h.mark[u + sz[u]].owner
          /\ g.mark[u + sz[u]].size = h.mark[u + sz[u]].size
      BY <1>0, <3>1, <3>2
    <3> QED BY <3>1, <3>3, <3>4
  <2> QED BY <2>1, <2>2
<1>5. FreeApart(g)
  <2> SUFFICES ASSUME NEW u \in U \ D, NEW v \in U \ D, After(sy, u) = v,
                      g.unit[u].magic # "used", g.unit[v].magic # "used"
               PROVE  FALSE
    BY <1>3 DEF FreeApart
  <2>1. u \in Addr /\ v \in Addr
    BY <1>1
  <2>2. CASE v = x
    <3>1. u # x
      BY <1>0, <2>1, <2>2, TileFacts
    <3>2. h.unit[u].magic = "used"
      BY <1>0, <2>2
    <3> QED BY <1>0, <2>1, <3>1, <3>2
  <2>3. CASE u = x /\ v # x
    <3>1. h.unit[v].magic = "used"
      BY <1>0, <2>3
    <3> QED BY <1>0, <2>1, <2>3, <3>1
  <2>4. CASE u # x /\ v # x
    <3>1. After(sz, u) = v /\ u \in U /\ v \in U
      BY <1>0, <1>2, <2>1, <2>4 DEF After
    <3>2. h.unit[u].magic # "used" /\ h.unit[v].magic # "used"
      BY <1>0, <2>1, <2>4
    <3> QED BY <1>1, <3>1, <3>2 DEF FreeApart
  <2> QED BY <2>2, <2>3, <2>4
<1>6. Sentinels(g)
  BY <1>0, <1>1, LastUnitIs DEF Sentinels
<1> QED BY <1>0, <1>3, <1>4, <1>5, <1>6 DEF Sound

\* What Release sees around the unit p: the unit q in front of it, found
\* through its mark, and the unit n behind it.
LEMMA Surroundings ==
  ASSUME NEW h, Sound(h), NEW p \in Addr, h.unit[p].magic = "used",
         p # Base, p # LastUnit, NEW U, U = UnitsOf(h), NEW sz, sz = SizeOf(h),
         NEW t, t = remove(h, "used", p)
  PROVE  \E q, n \in U :
           /\ p \in U /\ After(sz, q) = p /\ After(sz, p) = n
           /\ q # p /\ n # p /\ n # q /\ n # Base
           /\ FreeBefore(t, p) <=> h.unit[q].magic = "free"
           /\ FreeBehind(t, p) <=> h.unit[n].magic = "free"
           /\ q = p - MarkSize - t.mark[p - MarkSize].size
           /\ n = NextUnit(t, p)
           /\ \A u \in U : t.unit[u].size = sz[u]
<1>1. Tiles(U, sz) /\ p \in U /\ h \in HeapState /\ Lists(h)
  BY ListFacts DEF Sound, UnitsOf
<1>2. /\ t.mark = h.mark
      /\ \A a \in Addr : t.unit[a].size = h.unit[a].size
  BY <1>1, ListFacts, Removed
<1>3. PICK q \in U : After(sz, q) = p
  BY <1>1, Neighbours
<1> DEFINE n == After(sz, p)
<1>4. n \in U
  BY <1>1, Neighbours
<1>5. /\ q \in Nat /\ p \in Nat /\ sz[q] \in Int /\ sz[p] \in Int
      /\ sz[q] >= 16 /\ sz[p] >= 16 /\ n = p + sz[p] + 8 /\ p = q + sz[q] + 8
      /\ Base <= q
  BY <1>1, <1>3, TileFacts
<1>6. q # p /\ n # p /\ n # q /\ n # Base
  BY <1>5, Arena
<1>7. \A u \in U : t.unit[u].size = sz[u]
  BY <1>1, <1>2, TileFacts DEF SizeOf
<1>8. /\ h.mark[q + sz[q]].owner = h.unit[q].magic /\ h.mark[q + sz[q]].size = sz[q]
      /\ h.mark[n + sz[n]].owner = h.unit[n].magic
  <2> HIDE DEF n
  <2> QED BY <1>4, UnitFacts
<1>9. p - MarkSize = q + sz[q] /\ q = p - MarkSize - sz[q]
  BY <1>5, Arena
<1>10. NextUnit(t, p) = n
  BY <1>1, <1>7, Arena DEF NextUnit, MarkOf, After
<1>11. MarkOf(t, n) = n + sz[n]
  <2> HIDE DEF n
  <2> QED BY <1>4, <1>7 DEF MarkOf
<1>12. FreeBefore(t, p) <=> h.unit[q].magic = "free"
  BY <1>2, <1>8, <1>9 DEF FreeBefore
<1>13. FreeBehind(t, p) <=> h.unit[n].magic = "free"
  <2> HIDE DEF n
  <2> QED BY <1>2, <1>8, <1>10, <1>11 DEF FreeBehind
<1>14. q = p - MarkSize - t.mark[p - MarkSize].size
  BY <1>2, <1>8, <1>9
<1> QED BY <1>1, <1>3, <1>4, <1>6, <1>7, <1>10, <1>12, <1>13, <1>14

LEMMA Grown ==
  ASSUME NEW h \in HeapState, Lists(h), NEW u \in Addr, NEW n \in 0 .. Size,
         NEW m \in Addr, m = u + n, NEW g, g = Grow(h, u, n)
  PROVE  /\ g \in HeapState /\ Lists(g) /\ g.panic = h.panic
         /\ \A a \in Addr :
              /\ g.unit[a].size = IF a = u THEN n ELSE h.unit[a].size
              /\ g.unit[a].magic = h.unit[a].magic
              /\ g.mark[a].size = IF a = m THEN n ELSE h.mark[a].size
              /\ g.mark[a].owner = IF a = m THEN "free" ELSE h.mark[a].owner
<1> DEFINE k == SetSize(h, u, n)
<1>1. /\ k \in HeapState /\ Lists(k) /\ k.panic = h.panic
      /\ \A a \in Addr :
           /\ k.unit[a].size = IF a = u THEN n ELSE h.unit[a].size
           /\ k.unit[a].magic = h.unit[a].magic
           /\ k.mark[a].size = IF a = m THEN n ELSE h.mark[a].size
           /\ k.mark[a].owner = h.mark[a].owner
  BY Resized
<1>2. g = SetOwner(k, u, "free")
  BY DEF Grow
<1> HIDE DEF k
<1>3. MarkOf(k, u) = m
  BY <1>1 DEF MarkOf
<1>4. /\ g \in HeapState
      /\ g.panic = k.panic /\ g.unit = k.unit /\ g.list = k.list
      /\ \A a \in Addr :
           /\ g.mark[a].size = k.mark[a].size
           /\ g.mark[a].owner = IF a = m THEN "free" ELSE k.mark[a].owner
  BY <1>1, <1>2, <1>3, ListFacts, SetOwnerEffect
<1>5. Lists(g)
  BY <1>1, <1>4, ListsFrame
<1> QED BY <1>1, <1>4, <1>5

LEMMA ReleasedIs ==
  ASSUME NEW h, NEW z, NEW p, p = z - UnitSize, NEW t, t = remove(h, "used", p)
  PROVE  Released(h, z) = IF t.panic THEN t ELSE Merged(t, p)
<1>1. Taken(h, p) = t
  BY DEF Taken
<1>2. Released(h, z) = IF Taken(h, z - UnitSize).panic
                       THEN Taken(h, z - UnitSize)
                       ELSE Merged(Taken(h, z - UnitSize), z - UnitSize)
  BY DEF Released
<1> QED BY <1>1, <1>2

NoPanic(h) == h.panic = FALSE

\* g has the used units of h but the unit p, and they are as large.
LosesUsed(h, g, p) ==
  /\ \A a \in Addr : g.unit[a].magic = "used" <=> a # p /\ h.unit[a].magic = "used"
  /\ \A a \in Addr : g.unit[a].magic = "used" => g.unit[a].size = h.unit[a].size

\* Release merges a unit with its free neighbours and leaves a sound heap.
LEMMA ReleasedSound ==
  ASSUME NEW h, Sound(h), NoPanic(h), NEW p \in Addr, h.unit[p].magic = "used",
         p # Base, p # LastUnit, NEW z, z = p + UnitSize,
         NEW g, g = Released(h, z)
  PROVE  Sound(g) /\ NoPanic(g) /\ LosesUsed(h, g, p)
<1> SUFFICES ASSUME h.panic = FALSE
             PROVE  /\ Sound(g) /\ g.panic = h.panic
                    /\ \A a \in Addr : g.unit[a].magic = "used" <=>
                                         a # p /\ h.unit[a].magic = "used"
                    /\ \A a \in Addr : g.unit[a].magic = "used" =>
                                         g.unit[a].size = h.unit[a].size
  BY DEF LosesUsed, NoPanic
<1> DEFINE U == UnitsOf(h)
           sz == SizeOf(h)
           t == remove(h, "used", p)
           sy == SizeOf(g)
<1>1. /\ Tiles(U, sz) /\ p \in U /\ h \in HeapState /\ Lists(h) /\ FreeApart(h)
      /\ MarksRight(h) /\ h.unit[Base].magic = "used" /\ h.unit[LastUnit].magic = "used"
  BY ListFacts DEF Sound, UnitsOf, Sentinels
<1>2. PICK q \in U, n \in U :
           /\ p \in U /\ After(sz, q) = p /\ After(sz, p) = n
           /\ q # p /\ n # p /\ n # q /\ n # Base
           /\ FreeBefore(t, p) <=> h.unit[q].magic = "free"
           /\ FreeBehind(t, p) <=> h.unit[n].magic = "free"
           /\ q = p - MarkSize - t.mark[p - MarkSize].size
           /\ n = NextUnit(t, p)
           /\ \A u \in U : t.unit[u].size = sz[u]
  BY Surroundings
<1>3. /\ t \in HeapState /\ Lists(t) /\ t.panic = FALSE /\ t.mark = h.mark
      /\ \A a \in Addr :
           /\ t.unit[a].size = h.unit[a].size
           /\ t.unit[a].magic = IF a = p THEN "plain" ELSE h.unit[a].magic
  BY <1>1, ListFacts, Removed
<1>4. g = Merged(t, p)
  <2>1. p = z - UnitSize
    BY <1>1, TileFacts, Arena
  <2>2. t.panic = FALSE /\ t = remove(h, "used", p)
    BY <1>3
  <2> HIDE DEF t
  <2>3. Released(h, z) = IF t.panic THEN t ELSE Merged(t, p)
    BY <2>1, <2>2, ReleasedIs
  <2> QED BY <2>2, <2>3
<1>5. /\ \A a \in Addr : sz[a] = h.unit[a].size /\ sy[a] = g.unit[a].size
      /\ \A a \in U : a \in Addr /\ a \in Nat /\ a + sz[a] \in Addr /\ sz[a] \in Int
                      /\ sz[a] >= 16 /\ After(sz, a) = a + sz[a] + 8
                      /\ After(sz, a) <= End /\ Base <= a
      /\ \A a \in U : h.unit[a].magic \in {"free", "used"}
      /\ p + sz[p] = n - 8 /\ q + sz[q] = p - 8
  <2>1. \A a \in Addr : sz[a] = h.unit[a].size /\ sy[a] = g.unit[a].size
    BY DEF SizeOf
  <2>2. \A a \in U : a \in Addr /\ a \in Nat /\ a + sz[a] \in Addr /\ sz[a] \in Int
                      /\ sz[a] >= 16 /\ After(sz, a) = a + sz[a] + 8
                      /\ After(sz, a) <= End /\ Base <= a
    BY <1>1, TileFacts
  <2>3. \A a \in U : h.unit[a].magic \in {"free", "used"}
    BY DEF UnitsOf, List
  <2>4. p + sz[p] = n - 8 /\ q + sz[q] = p - 8
    BY <1>2, <2>2
  <2> QED BY <2>1, <2>2, <2>3, <2>4
<1>6. \A u, v \in U : After(sz, u) = v => h.unit[u].magic = "used" \/ h.unit[v].magic = "used"
  BY <1>1 DEF FreeApart
<1>7. \A u, v \in U : After(sz, u) = After(sz, v) => u = v
  BY <1>1, TileFacts
<1>8. /\ U = UnitsOf(h) /\ sz = SizeOf(h) /\ sy = SizeOf(g)
  OBVIOUS
<1> HIDE DEF U, sz, t, sy
<1>9. CASE h.unit[q].magic # "free" /\ h.unit[n].magic # "free"
  <2>1. g = insert(t, "free", p)
    BY <1>2, <1>4, <1>9 DEF Merged
  <2>2. /\ g \in HeapState /\ Lists(g) /\ g.panic = FALSE
        /\ \A a \in Addr :
             /\ g.unit[a].size = h.unit[a].size
             /\ g.unit[a].magic = IF a = p THEN "free" ELSE h.unit[a].magic
             /\ g.mark[a].size = h.mark[a].size
             /\ g.mark[a].owner = IF a = p + sz[p] THEN "free" ELSE h.mark[a].owner
    <3>1. /\ p + sz[p] \in Addr /\ t.unit[p].magic = "plain"
          /\ p + sz[p] = p + t.unit[p].size
      BY <1>2, <1>3, <1>5
    <3> DEFINE m == p + sz[p]
    <3> HIDE DEF m
    <3>2. m \in Addr /\ m = p + t.unit[p].size
      BY <3>1 DEF m
    <3>3. /\ g \in HeapState /\ Lists(g) /\ g.panic = t.panic
          /\ \A a \in Addr :
               /\ g.unit[a].size = t.unit[a].size
               /\ g.unit[a].magic = IF a = p THEN "free" ELSE t.unit[a].magic
               /\ g.mark[a].size = t.mark[a].size
               /\ g.mark[a].owner = IF a = m THEN "free" ELSE t.mark[a].owner
      BY <1>3, <2>1, <3>1, <3>2, ListFacts, Inserted
    <3> QED BY <1>3, <3>3 DEF m
  <2>3. \A u \in U : sy[u] = sz[u] /\ After(sy, u) = After(sz, u)
    BY <1>5, <2>2 DEF After
  <2>4. Tiles(U \ {}, sy)
    BY <1>1, <2>3, TilesAgree
  <2>5. \A u \in U \ {} : After(sy, u) = p => h.unit[u].magic = "used"
    <3>1. h.unit[q].magic = "used"
      BY <1>5, <1>9
    <3> QED BY <1>2, <1>7, <2>3, <3>1
  <2>6. After(sy, p) = n /\ h.unit[n].magic = "used"
    BY <1>2, <1>5, <1>9, <2>3
  <2>7. \A a \in Addr :
           /\ g.unit[a].size = IF a = p THEN sz[p] ELSE h.unit[a].size
           /\ g.unit[a].magic = IF a = p THEN "free" ELSE IF a \in {} THEN "plain"
                                ELSE h.unit[a].magic
           /\ g.mark[a].size = IF a = p + sz[p] THEN sz[p] ELSE h.mark[a].size
           /\ g.mark[a].owner = IF a = p + sz[p] THEN "free" ELSE h.mark[a].owner
    <3>1. h.mark[p + sz[p]].size = sz[p]
      BY <1>1, <1>5, <1>8 DEF MarksRight
    <3> QED BY <1>5, <2>2, <3>1
  <2>8. Sound(g)
    <3>1. /\ p + sz[p] \in Addr /\ sz[p] \in Int
          /\ \E d \in {} \cup {p} : p + sz[p] = d + sz[d]
      BY <1>2, <1>5
    <3>2. JoinedInto(h, g, U, sz, sy, {}, p, sz[p])
      BY <1>2, <2>2, <2>4, <2>5, <2>6, <2>7, <3>1 DEF JoinedInto
    <3> QED BY <1>8, <3>2, Joined
  <2> QED BY <2>2, <2>8
<1>10. CASE h.unit[q].magic = "free" /\ h.unit[n].magic # "free"
  <2> DEFINE k == sz[q] + sz[p] + 8
             m == p + sz[p]
  <2>1. g = Grow(t, q, k)
    BY <1>2, <1>4, <1>8, <1>10, Arena DEF Merged
  <2>2. k \in 0 .. Size /\ m \in Addr /\ m = q + k /\ k \in Int /\ q \in Addr
    <3>1. /\ q \in Addr /\ q \in Nat /\ sz[q] \in Int /\ sz[q] >= 16 /\ Base <= q
          /\ p \in Nat /\ sz[p] \in Int /\ sz[p] >= 16 /\ p + sz[p] \in Addr
          /\ q + sz[q] = p - 8
      BY <1>2, <1>5
    <3> QED BY <3>1, Arena
  <2> HIDE DEF k, m
  <2>3. /\ g \in HeapState /\ Lists(g) /\ g.panic = t.panic
        /\ \A a \in Addr :
             /\ g.unit[a].size = IF a = q THEN k ELSE t.unit[a].size
             /\ g.unit[a].magic = t.unit[a].magic
             /\ g.mark[a].size = IF a = m THEN k ELSE t.mark[a].size
             /\ g.mark[a].owner = IF a = m THEN "free" ELSE t.mark[a].owner
    BY <1>3, <2>1, <2>2, Grown
  <2>4. \A a \in Addr :
           /\ g.unit[a].size = IF a = q THEN k ELSE h.unit[a].size
           /\ g.unit[a].magic = IF a = p THEN "plain" ELSE h.unit[a].magic
           /\ g.mark[a].size = IF a = q + k THEN k ELSE h.mark[a].size
           /\ g.mark[a].owner = IF a = q + k THEN "free" ELSE h.mark[a].owner
    BY <1>3, <2>2, <2>3
  <2>5. sy[q] = k /\ \A u \in U : u # q /\ u # p => sy[u] = sz[u]
    BY <1>5, <2>2, <2>4
  <2>6. Tiles(U \ {p}, sy) /\ After(sy, q) = n
    BY <1>1, <1>2, <2>5, Merge DEF k
  <2>7. \A u \in U \ {p} : After(sy, u) = q => h.unit[u].magic = "used"
    <3> SUFFICES ASSUME NEW u \in U \ {p}, After(sy, u) = q
                 PROVE  h.unit[u].magic = "used"
      OBVIOUS
    <3>1. u # q
      BY <1>2, <2>6
    <3>2. After(sz, u) = q
      BY <2>5, <3>1 DEF After
    <3> QED BY <1>6, <1>10, <3>2
  <2>8. n \in U /\ h.unit[n].magic = "used"
    BY <1>5, <1>10
  <2>9. JoinedInto(h, g, U, sz, sy, {p}, q, k)
    <3>1. /\ {p} \subseteq U /\ q \in U /\ q \notin {p} /\ k \in Int /\ q + k \in Addr
          /\ Base \notin {p} \cup {q} /\ LastUnit \notin {p} \cup {q}
      BY <1>1, <1>2, <1>10, <2>2
    <3>2. \E d \in {p} \cup {q} : q + k = d + sz[d]
      BY <2>2 DEF m
    <3>3. \A a \in Addr : g.unit[a].magic = IF a = q THEN "free"
                             ELSE IF a \in {p} THEN "plain" ELSE h.unit[a].magic
      BY <1>2, <1>10, <2>4
    <3> QED BY <2>3, <2>4, <2>6, <2>7, <2>8, <3>1, <3>2, <3>3 DEF JoinedInto
  <2>10. Sound(g)
    BY <1>8, <2>9, Joined
  <2>11. \A a \in Addr : g.unit[a].magic = "used" => a # q
    BY <1>2, <1>10, <2>2, <2>4
  <2>12. ASSUME NEW a \in Addr
         PROVE  /\ g.unit[a].magic = "used" <=> a # p /\ h.unit[a].magic = "used"
                /\ g.unit[a].magic = "used" => g.unit[a].size = h.unit[a].size
    BY <2>4, <2>11
  <2>13. g.panic = h.panic
    BY <1>3, <2>3
  <2> QED BY <2>10, <2>12, <2>13
<1>11. CASE h.unit[q].magic # "free" /\ h.unit[n].magic = "free"
  <2> DEFINE k == sz[p] + sz[n] + 8
             m == n + sz[n]
             w == SetSize(t, p, k)
  <2>1. g = replace(w, "free", n, p)
    BY <1>2, <1>4, <1>8, <1>11, Arena DEF Merged
  <2>2. k \in 0 .. Size /\ m \in Addr /\ m = p + k /\ k \in Int /\ n \in Addr
    BY <1>2, <1>5, Arena, SMTT(20)
  <2>3. w = SetSize(t, p, k)
    OBVIOUS
  <2> HIDE DEF k, m, w
  <2>4. /\ w \in HeapState /\ Lists(w) /\ w.panic = t.panic
        /\ \A a \in Addr :
             /\ w.unit[a].size = IF a = p THEN k ELSE t.unit[a].size
             /\ w.unit[a].magic = t.unit[a].magic
             /\ w.mark[a].size = IF a = m THEN k ELSE t.mark[a].size
             /\ w.mark[a].owner = t.mark[a].owner
    BY <1>3, <2>2, <2>3, Resized
  <2>5. /\ g \in HeapState /\ Lists(g) /\ g.panic = w.panic
        /\ \A a \in Addr :
             /\ g.unit[a].size = w.unit[a].size
             /\ g.unit[a].magic = IF a = p THEN "free" ELSE IF a = n THEN "plain"
                                  ELSE w.unit[a].magic
             /\ g.mark[a].size = w.mark[a].size
             /\ g.mark[a].owner = IF a = m THEN "free" ELSE w.mark[a].owner
    <3>1. /\ w.unit[n].magic = "free" /\ w.unit[p].magic = "plain"
          /\ m = p + w.unit[p].size
      BY <1>2, <1>3, <1>11, <2>2, <2>4
    <3> QED BY <2>1, <2>2, <2>4, <3>1, ListFacts, Replaced
  <2>6. \A a \in Addr :
           /\ g.unit[a].size = IF a = p THEN k ELSE h.unit[a].size
           /\ g.unit[a].magic = IF a = p THEN "free" ELSE IF a = n THEN "plain"
                                ELSE h.unit[a].magic
           /\ g.mark[a].size = IF a = p + k THEN k ELSE h.mark[a].size
           /\ g.mark[a].owner = IF a = p + k THEN "free" ELSE h.mark[a].owner
    BY <1>3, <2>2, <2>4, <2>5
  <2>7. sy[p] = k /\ \A u \in U : u # p /\ u # n => sy[u] = sz[u]
    BY <1>5, <2>2, <2>6
  <2>8. Tiles(U \ {n}, sy) /\ After(sy, p) = After(sz, n)
    <3>1. Tiles(U, sz) /\ p \in U /\ n \in U /\ After(sz, p) = n
      BY <1>1, <1>2
    <3>2. sy[p] = sz[p] + sz[n] + 8
      BY <2>7 DEF k
    <3> QED BY <2>7, <3>1, <3>2, Merge
  <2>9. \A u \in U \ {n} : After(sy, u) = p => h.unit[u].magic = "used"
    <3> SUFFICES ASSUME NEW u \in U \ {n}, After(sy, u) = p
                 PROVE  h.unit[u].magic = "used"
      OBVIOUS
    <3>1. CASE u = p
      BY <3>1
    <3>2. CASE u # p
      <4>1. After(sz, u) = p
        BY <2>7, <3>2 DEF After
      <4>2. u = q
        BY <1>2, <1>7, <4>1
      <4> QED BY <1>5, <1>11, <4>2
    <3> QED BY <3>1, <3>2
  <2>10. After(sy, p) \in U => h.unit[After(sy, p)].magic = "used"
    BY <1>2, <1>6, <1>11, <2>8
  <2>11. JoinedInto(h, g, U, sz, sy, {n}, p, k)
    <3>1. /\ {n} \subseteq U /\ p \in U /\ p \notin {n} /\ k \in Int /\ p + k \in Addr
          /\ Base \notin {n} \cup {p} /\ LastUnit \notin {n} \cup {p}
      BY <1>1, <1>2, <1>11, <2>2
    <3>2. \E d \in {n} \cup {p} : p + k = d + sz[d]
      BY <2>2 DEF m
    <3>3. \A a \in Addr : g.unit[a].magic = IF a = p THEN "free"
                             ELSE IF a \in {n} THEN "plain" ELSE h.unit[a].magic
      BY <2>6
    <3> QED BY <2>5, <2>6, <2>8, <2>9, <2>10, <3>1, <3>2, <3>3 DEF JoinedInto
  <2>12. Sound(g)
    BY <1>8, <2>11, Joined
  <2>13. ASSUME NEW a \in Addr
         PROVE  /\ g.unit[a].magic = "used" <=> a # p /\ h.unit[a].magic = "used"
                /\ g.unit[a].magic = "used" => g.unit[a].size = h.unit[a].size
    BY <1>11, <2>6
  <2>14. g.panic = h.panic
    BY <1>3, <2>4, <2>5
  <2> QED BY <2>12, <2>13, <2>14
<1>12. CASE h.unit[q].magic = "free" /\ h.unit[n].magic = "free"
  <2> DEFINE k == sz[q] + sz[p] + sz[n] + 2 * 8
             m == n + sz[n]
             w == remove(t, "free", n)
  <2>1. g = Grow(w, q, k)
    BY <1>2, <1>4, <1>8, <1>12, Arena DEF Merged, MergeBoth
  <2>2. k \in 0 .. Size /\ m \in Addr /\ m = q + k /\ k \in Int /\ n \in Addr /\ q \in Addr
    BY <1>2, <1>5, Arena, SMTT(20)
  <2>3. w = remove(t, "free", n)
    OBVIOUS
  <2> HIDE DEF k, m, w
  <2>4. /\ w \in HeapState /\ Lists(w) /\ w.panic = t.panic /\ w.mark = t.mark
        /\ \A a \in Addr :
             /\ w.unit[a].size = t.unit[a].size
             /\ w.unit[a].magic = IF a = n THEN "plain" ELSE t.unit[a].magic
    <3>1. t.unit[n].magic = "free"
      BY <1>2, <1>3, <1>12, <2>2
    <3> QED BY <1>3, <2>2, <2>3, <3>1, ListFacts, Removed
  <2>5. /\ g \in HeapState /\ Lists(g) /\ g.panic = w.panic
        /\ \A a \in Addr :
             /\ g.unit[a].size = IF a = q THEN k ELSE w.unit[a].size
             /\ g.unit[a].magic = w.unit[a].magic
             /\ g.mark[a].size = IF a = m THEN k ELSE w.mark[a].size
             /\ g.mark[a].owner = IF a = m THEN "free" ELSE w.mark[a].owner
    BY <2>1, <2>2, <2>4, Grown
  <2>6. \A a \in Addr :
           /\ g.unit[a].size = IF a = q THEN k ELSE h.unit[a].size
           /\ g.unit[a].magic = IF a \in {p, n} THEN "plain" ELSE h.unit[a].magic
           /\ g.mark[a].size = IF a = q + k THEN k ELSE h.mark[a].size
           /\ g.mark[a].owner = IF a = q + k THEN "free" ELSE h.mark[a].owner
    BY <1>3, <2>2, <2>4, <2>5
  <2>7. sy[q] = k /\ \A u \in U : u # q /\ u # p /\ u # n => sy[u] = sz[u]
    BY <1>5, <2>2, <2>6
  <2> DEFINE s1 == [sz EXCEPT ![q] = sz[q] + sz[p] + 8]
  <2>8. s1[q] = sz[q] + sz[p] + 8 /\ \A u \in U : u # q => s1[u] = sz[u]
    BY <1>5, <1>8 DEF SizeOf
  <2> HIDE DEF s1
  <2>9. Tiles(U \ {p}, s1) /\ After(s1, q) = n
    <3>1. /\ Tiles(U, sz) /\ p \in U /\ q \in U /\ After(sz, q) = p
          /\ After(sz, p) = n
      BY <1>1, <1>2
    <3>2. \A u \in U : u # q /\ u # p => s1[u] = sz[u]
      BY <2>8
    <3> QED BY <2>8, <3>1, <3>2, Merge
  <2>10. /\ n \in U \ {p} /\ q \in U \ {p}
         /\ sy[q] = s1[q] + s1[n] + 8
         /\ \A u \in U \ {p} : u # q /\ u # n => sy[u] = s1[u]
    BY <1>2, <1>5, <2>7, <2>8 DEF k
  <2>11. Tiles((U \ {p}) \ {n}, sy) /\ After(sy, q) = After(s1, n)
    BY <2>9, <2>10, Merge
  <2>12. After(s1, n) = After(sz, n) /\ (U \ {p}) \ {n} = U \ {p, n}
    BY <1>2, <2>8 DEF After
  <2>13. \A u \in U \ {p, n} : After(sy, u) = q => h.unit[u].magic = "used"
    <3> SUFFICES ASSUME NEW u \in U \ {p, n}, After(sy, u) = q
                 PROVE  h.unit[u].magic = "used"
      OBVIOUS
    <3>1. u # q
      <4>1. After(sz, n) > q
        BY <1>2, <1>5
      <4> QED BY <1>5, <2>11, <2>12, <4>1
    <3>2. After(sz, u) = q
      BY <2>7, <3>1 DEF After
    <3> QED BY <1>6, <1>12, <3>2
  <2>14. After(sy, q) \in U => h.unit[After(sy, q)].magic = "used"
    BY <1>2, <1>6, <1>12, <2>11, <2>12
  <2>15. JoinedInto(h, g, U, sz, sy, {p, n}, q, k)
    <3>1. /\ {p, n} \subseteq U /\ q \in U /\ q \notin {p, n} /\ k \in Int /\ q + k \in Addr
          /\ Base \notin {p, n} \cup {q} /\ LastUnit \notin {p, n} \cup {q}
      BY <1>1, <1>2, <1>12, <2>2
    <3>2. \E d \in {p, n} \cup {q} : q + k = d + sz[d]
      BY <2>2 DEF m
    <3>3. \A a \in Addr : g.unit[a].magic = IF a = q THEN "free"
                             ELSE IF a \in {p, n} THEN "plain" ELSE h.unit[a].magic
      BY <1>2, <1>12, <2>6
    <3> QED BY <2>5, <2>6, <2>11, <2>12, <2>13, <2>14, <3>1, <3>2, <3>3 DEF JoinedInto
  <2>16. Sound(g)
    BY <1>8, <2>15, Joined
  <2>17. \A a \in Addr : g.unit[a].magic = "used" => a # q
    BY <1>2, <1>12, <2>2, <2>6
  <2>18. ASSUME NEW a \in Addr
         PROVE  /\ g.unit[a].magic = "used" <=> a # p /\ h.unit[a].magic = "used"
                /\ g.unit[a].magic = "used" => g.unit[a].size = h.unit[a].size
    BY <1>12, <2>6, <2>17
  <2>19. g.panic = h.panic
    BY <1>3, <2>4, <2>5
  <2> QED BY <2>16, <2>18, <2>19
<1> QED BY <1>9, <1>10, <1>11, <1>12


-----------------------------------------------------------------------------
(* The walk through the free list, and the lists as Linked states them.    *)

LEMMA ListLength ==
  ASSUME NEW h, Sound(h), NEW l \in List, NEW n, NEW s, ListIs(h, l, n, s)
  PROVE  n <= MaxUnits
<1> DEFINE U == UnitsOf(h)
           sz == SizeOf(h)
<1>1. Tiles(U, sz)
  BY DEF Sound
<1>2. /\ n \in Nat /\ s \in [1 .. n -> U]
      /\ \A i, j \in 1 .. n : s[i] = s[j] => i = j
  <2>1. /\ n \in Nat /\ s \in [1 .. n -> Addr]
        /\ \A i, j \in 1 .. n : s[i] = s[j] => i = j
        /\ \A i \in 1 .. n : h.unit[s[i]].magic = l
    BY DEF ListIs
  <2>2. \A i \in 1 .. n : s[i] \in U
    BY <2>1 DEF UnitsOf
  <2> HIDE DEF U
  <2> QED BY <2>1, <2>2
<1> HIDE DEF U, sz
<1> QED BY <1>1, <1>2, UnitsAreFew

\* What FirstFit finds is a free unit that is large enough.
LEMMA FirstFitFits ==
  ASSUME NEW h, Sound(h), NEW size \in Int, NEW p, p = FirstFit(h, size), p # NULL
  PROVE  p \in Addr /\ h.unit[p].magic = "free" /\ h.unit[p].size >= size
<1>1. PICK n, s : ListIs(h, "free", n, s)
  BY ListFacts DEF Sound, Lists, Listed
<1>2. n <= MaxUnits /\ n \in Nat /\ MaxUnits \in Nat
  <2>1. n <= MaxUnits
    BY <1>1, ListLength, ListFacts
  <2>2. MaxUnits \in Nat
    BY Arena DEF MaxUnits
  <2> QED BY <1>1, <2>1, <2>2 DEF ListIs
<1> DEFINE nth == Nth(h, "free")
           T == {i \in 0 .. MaxUnits : nth[i] = NULL \/ h.unit[nth[i]].size >= size}
           x == Min(T)
<1>3. nth = [i \in 0 .. MaxUnits |-> IF i < n THEN s[i + 1] ELSE NULL]
  BY <1>1, <1>2, NthIs, ListFacts
<1>4. p = nth[x]
  BY DEF FirstFit
<1> HIDE DEF nth
<1>5. n \in T
  BY <1>2, <1>3
<1>6. x \in T
  <2>1. T \subseteq Nat /\ T # {}
    BY <1>2, <1>5
  <2> HIDE DEF T
  <2> QED BY <2>1, MinIsLeast
<1> HIDE DEF x
<1>7. x \in 0 .. MaxUnits /\ h.unit[p].size >= size
  BY <1>4, <1>6
<1>8. x < n /\ p = s[x + 1]
  BY <1>2, <1>3, <1>4, <1>7
<1>9. x + 1 \in 1 .. n
  BY <1>2, <1>7, <1>8
<1>10. p \in Addr /\ h.unit[p].magic = "free"
  BY <1>1, <1>8, <1>9 DEF ListIs
<1> QED BY <1>7, <1>10

OnList(h, l) == {u \in Addr : h.unit[u].magic = l}

LEMMA SoundLinked ==
  ASSUME NEW h, Sound(h), NEW l \in List
  PROVE  /\ {Nth(h, l)[i] : i \in 0 .. MaxUnits} \ {NULL} = OnList(h, l)
         /\ \A u \in OnList(h, l) :
              /\ u = h.list[l].head <=> h.unit[u].prev = NULL
              /\ u = h.list[l].tail <=> h.unit[u].next = NULL
              /\ h.unit[u].next # NULL => h.unit[h.unit[u].next].prev = u
<1>1. PICK n, s : ListIs(h, l, n, s)
  BY DEF Sound, Lists, Listed
<1>2. n <= MaxUnits /\ n \in Nat /\ MaxUnits \in Nat /\ s \in [1 .. n -> Addr]
  <2>1. n <= MaxUnits
    BY <1>1, ListLength
  <2>2. MaxUnits \in Nat
    BY Arena DEF MaxUnits
  <2> QED BY <1>1, <2>1, <2>2 DEF ListIs
<1>3. /\ \A i \in 1 .. n : s[i] \in OnList(h, l) /\ s[i] # NULL
      /\ \A u \in OnList(h, l) : \E i \in 1 .. n : s[i] = u
  BY <1>1, Arena DEF ListIs, OnList
<1>4. {Nth(h, l)[i] : i \in 0 .. MaxUnits} \ {NULL} = OnList(h, l)
  <2> DEFINE nth == Nth(h, l)
  <2>1. nth = [i \in 0 .. MaxUnits |-> IF i < n THEN s[i + 1] ELSE NULL]
    BY <1>1, <1>2, NthIs
  <2> HIDE DEF nth
  <2>2. ASSUME NEW i \in 0 .. MaxUnits, nth[i] # NULL PROVE nth[i] \in OnList(h, l)
    <3>1. i < n /\ nth[i] = s[i + 1]
      BY <2>1, <2>2
    <3>2. i + 1 \in 1 .. n
      BY <1>2, <3>1
    <3> QED BY <1>3, <3>1, <3>2
  <2>3. ASSUME NEW u \in OnList(h, l) PROVE u # NULL /\ \E i \in 0 .. MaxUnits : nth[i] = u
    <3>1. PICK i \in 1 .. n : s[i] = u
      BY <1>3
    <3>2. i - 1 \in 0 .. MaxUnits /\ i - 1 < n /\ i - 1 + 1 = i
      BY <1>2
    <3>3. nth[i - 1] = s[i]
      BY <2>1, <3>2
    <3> QED BY <1>3, <3>1, <3>2, <3>3
  <2>4. {nth[i] : i \in 0 .. MaxUnits} \ {NULL} = OnList(h, l)
    BY <2>2, <2>3
  <2> QED BY <2>4 DEF nth
<1>5. ASSUME NEW u \in OnList(h, l)
      PROVE  /\ u = h.list[l].head <=> h.unit[u].prev = NULL
             /\ u = h.list[l].tail <=> h.unit[u].next = NULL
             /\ h.unit[u].next # NULL => h.unit[h.unit[u].next].prev = u
  <2>1. PICK i \in 1 .. n : s[i] = u
    BY <1>3
  <2>2. /\ n # 0 /\ h.list[l].head = s[1] /\ h.list[l].tail = s[n]
        /\ 1 \in 1 .. n /\ n \in 1 .. n
    <3>1. n # 0 /\ 1 \in 1 .. n /\ n \in 1 .. n
      BY <1>2
    <3> QED BY <1>1, <3>1 DEF ListIs
  <2>3. /\ \A j, k \in 1 .. n : s[j] = s[k] => j = k
        /\ \A j \in 1 .. n :
             /\ h.unit[s[j]].prev = IF j = 1 THEN NULL ELSE s[j - 1]
             /\ h.unit[s[j]].next = IF j = n THEN NULL ELSE s[j + 1]
    BY <1>1 DEF ListIs
  <2>4. /\ i # 1 => i - 1 \in 1 .. n
        /\ i # n => i + 1 \in 1 .. n /\ i + 1 # 1 /\ i + 1 - 1 = i
    BY <1>2
  <2>5. u = h.list[l].head <=> h.unit[u].prev = NULL
    BY <1>3, <2>1, <2>2, <2>3, <2>4
  <2>6. u = h.list[l].tail <=> h.unit[u].next = NULL
    BY <1>3, <2>1, <2>2, <2>3, <2>4
  <2>7. h.unit[u].next # NULL => h.unit[h.unit[u].next].prev = u
    <3> SUFFICES ASSUME h.unit[u].next # NULL PROVE h.unit[h.unit[u].next].prev = u
      OBVIOUS
    <3>1. i # n /\ h.unit[u].next = s[i + 1]
      BY <2>1, <2>3
    <3> QED BY <2>1, <2>3, <2>4, <3>1
  <2> QED BY <2>5, <2>6, <2>7
<1> QED BY <1>4, <1>5

-----------------------------------------------------------------------------
(* The constructor.                                                        *)

LEMMA ConstructedSound ==
  ASSUME NEW g, g = Constructed
  PROVE  /\ Sound(g) /\ g.panic = FALSE
         /\ \A a \in Addr : g.unit[a].magic = "used" <=> a = Base \/ a = LastUnit
<1> DEFINE k0 == Blank
           k1 == NewUnit(k0, Base, 16)
           k2 == insert(k1, "used", Base)
           k3 == NewUnit(k2, FirstFree, FreeSize)
           k4 == insert(k3, "free", FirstFree)
           k5 == NewUnit(k4, LastUnit, 16)
           m1 == Base + 16
           m2 == FirstFree + FreeSize
           m3 == LastUnit + 16
<1>1. g = insert(k5, "used", LastUnit)
  BY Arena DEF Constructed
<1>2. /\ Base \in Addr /\ FirstFree \in Addr /\ LastUnit \in Addr
      /\ 16 \in 0 .. Size /\ FreeSize \in 0 .. Size
      /\ m1 \in Addr /\ m2 \in Addr /\ m3 \in Addr
      /\ Base # FirstFree /\ Base # LastUnit /\ FirstFree # LastUnit
      /\ m1 # m2 /\ m1 # m3 /\ m2 # m3
  <2>1. (Base + 16) % 8 = 0 /\ (LastUnit + 16) % 8 = 0
    BY LastUnitIs, Arena
  <2> QED BY LastUnitIs, Arena, <2>1
<1>3. /\ k0 \in HeapState /\ k0.panic = FALSE /\ Lists(k0)
      /\ \A a \in Addr : k0.unit[a].magic = "none"
  <2>1. NoUnit \in UnitState /\ NoMark \in MarkState /\ NoUnit.magic = "none"
        /\ [head |-> NULL, tail |-> NULL] \in EndState
    BY Arena DEF NoUnit, NoMark, UnitState, MarkState, EndState, Link, Magic
  <2>2. /\ k0 \in HeapState /\ k0.panic = FALSE
        /\ \A a \in Addr : k0.unit[a].magic = "none"
        /\ \A l \in List : k0.list[l].head = NULL /\ k0.list[l].tail = NULL
    BY <2>1 DEF Blank, HeapState
  <2>3. ASSUME NEW l \in List PROVE Listed(k0, l)
    <3> DEFINE e == [i \in 1 .. 0 |-> Base]
    <3> HIDE DEF k0
    <3>1. e \in [1 .. 0 -> Addr] /\ 1 .. 0 = {}
      BY <1>2
    <3> HIDE DEF e
    <3>2. \A a \in Addr : k0.unit[a].magic # l
      BY <2>2, ListFacts
    <3>3. k0.list[l].head = NULL /\ k0.list[l].tail = NULL
      BY <2>2
    <3>4. ListIs(k0, l, 0, e)
      BY <3>1, <3>2, <3>3 DEF ListIs
    <3> QED BY <3>4 DEF Listed
  <2> HIDE DEF k0
  <2> QED BY <2>2, <2>3 DEF Lists
<1> HIDE DEF k0, m1, m2, m3
<1>4. /\ k1 \in HeapState /\ Lists(k1) /\ k1.panic = k0.panic
      /\ \A a \in Addr :
           /\ k1.unit[a].size = IF a = Base THEN 16 ELSE k0.unit[a].size
           /\ k1.unit[a].magic = IF a = Base THEN "plain" ELSE k0.unit[a].magic
           /\ k1.mark[a].size = IF a = m1 THEN 16 ELSE k0.mark[a].size
           /\ k1.mark[a].owner = k0.mark[a].owner
  <2>1. m1 = Base + 16 /\ k0.unit[Base].magic \notin List
    BY <1>2, <1>3, ListFacts DEF m1
  <2> QED BY <1>2, <1>3, <2>1, Renewed
<1> HIDE DEF k1
<1>5. /\ k2 \in HeapState /\ Lists(k2) /\ k2.panic = k1.panic
      /\ \A a \in Addr :
           /\ k2.unit[a].size = k1.unit[a].size
           /\ k2.unit[a].magic = IF a = Base THEN "used" ELSE k1.unit[a].magic
           /\ k2.mark[a].size = k1.mark[a].size
           /\ k2.mark[a].owner = IF a = m1 THEN "used" ELSE k1.mark[a].owner
  <2>1. m1 = Base + k1.unit[Base].size /\ k1.unit[Base].magic = "plain"
    BY <1>2, <1>4 DEF m1
  <2>2. k2 = insert(k1, "used", Base)
    OBVIOUS
  <2> HIDE DEF k2
  <2> QED BY <1>2, <1>4, <2>1, <2>2, ListFacts, Inserted
<1> HIDE DEF k2
<1>6. /\ k3 \in HeapState /\ Lists(k3) /\ k3.panic = k2.panic
      /\ \A a \in Addr :
           /\ k3.unit[a].size = IF a = FirstFree THEN FreeSize ELSE k2.unit[a].size
           /\ k3.unit[a].magic = IF a = FirstFree THEN "plain" ELSE k2.unit[a].magic
           /\ k3.mark[a].size = IF a = m2 THEN FreeSize ELSE k2.mark[a].size
           /\ k3.mark[a].owner = k2.mark[a].owner
  <2>1. m2 = FirstFree + FreeSize /\ k2.unit[FirstFree].magic \notin List
    BY <1>2, <1>3, <1>4, <1>5, ListFacts DEF m2
  <2> QED BY <1>2, <1>5, <2>1, Renewed
<1> HIDE DEF k3
<1>7. /\ k4 \in HeapState /\ Lists(k4) /\ k4.panic = k3.panic
      /\ \A a \in Addr :
           /\ k4.unit[a].size = k3.unit[a].size
           /\ k4.unit[a].magic = IF a = FirstFree THEN "free" ELSE k3.unit[a].magic
           /\ k4.mark[a].size = k3.mark[a].size
           /\ k4.mark[a].owner = IF a = m2 THEN "free" ELSE k3.mark[a].owner
  <2>1. m2 = FirstFree + k3.unit[FirstFree].size /\ k3.unit[FirstFree].magic = "plain"
    BY <1>2, <1>6 DEF m2
  <2>2. k4 = insert(k3, "free", FirstFree)
    OBVIOUS
  <2> HIDE DEF k4
  <2> QED BY <1>2, <1>6, <2>1, <2>2, ListFacts, Inserted
<1> HIDE DEF k4
<1>8. /\ k5 \in HeapState /\ Lists(k5) /\ k5.panic = k4.panic
      /\ \A a \in Addr :
           /\ k5.unit[a].size = IF a = LastUnit THEN 16 ELSE k4.unit[a].size
           /\ k5.unit[a].magic = IF a = LastUnit THEN "plain" ELSE k4.unit[a].magic
           /\ k5.mark[a].size = IF a = m3 THEN 16 ELSE k4.mark[a].size
           /\ k5.mark[a].owner = k4.mark[a].owner
  <2>1. m3 = LastUnit + 16 /\ k4.unit[LastUnit].magic \notin List
    BY <1>2, <1>3, <1>4, <1>5, <1>6, <1>7, ListFacts DEF m3
  <2> QED BY <1>2, <1>7, <2>1, Renewed
<1> HIDE DEF k5
<1>9. /\ g \in HeapState /\ Lists(g) /\ g.panic = k5.panic
      /\ \A a \in Addr :
           /\ g.unit[a].size = k5.unit[a].size
           /\ g.unit[a].magic = IF a = LastUnit THEN "used" ELSE k5.unit[a].magic
           /\ g.mark[a].size = k5.mark[a].size
           /\ g.mark[a].owner = IF a = m3 THEN "used" ELSE k5.mark[a].owner
  <2>1. m3 = LastUnit + k5.unit[LastUnit].size /\ k5.unit[LastUnit].magic = "plain"
    BY <1>2, <1>8 DEF m3
  <2> QED BY <1>1, <1>2, <1>8, <2>1, ListFacts, Inserted
<1>10. /\ g.panic = FALSE
       /\ \A a \in Addr : g.unit[a].magic = IF a = Base \/ a = LastUnit THEN "used"
                                            ELSE IF a = FirstFree THEN "free" ELSE "none"
       /\ g.unit[Base].size = 16 /\ g.unit[LastUnit].size = 16
       /\ g.unit[FirstFree].size = FreeSize
       /\ g.mark[m1].size = 16 /\ g.mark[m2].size = FreeSize /\ g.mark[m3].size = 16
       /\ g.mark[m1].owner = "used" /\ g.mark[m2].owner = "free"
       /\ g.mark[m3].owner = "used"
  <2>1. \A a \in Addr : g.unit[a].magic = IF a = Base \/ a = LastUnit THEN "used"
                                          ELSE IF a = FirstFree THEN "free" ELSE "none"
    BY <1>2, <1>3, <1>4, <1>5, <1>6, <1>7, <1>8, <1>9
  <2>2. /\ g.unit[Base].size = 16 /\ g.unit[LastUnit].size = 16
        /\ g.unit[FirstFree].size = FreeSize
    BY <1>2, <1>4, <1>5, <1>6, <1>7, <1>8, <1>9
  <2>3. /\ g.mark[m1].size = 16 /\ g.mark[m2].size = FreeSize /\ g.mark[m3].size = 16
        /\ g.mark[m1].owner = "used" /\ g.mark[m2].owner = "free"
        /\ g.mark[m3].owner = "used"
    BY <1>2, <1>4, <1>5, <1>6, <1>7, <1>8, <1>9
  <2> QED BY <1>3, <1>4, <1>5, <1>6, <1>7, <1>8, <1>9, <2>1, <2>2, <2>3
<1> DEFINE sz == SizeOf(g)
<1>11. UnitsOf(g) = {Base, FirstFree, LastUnit}
  BY <1>2, <1>10, ListFacts DEF UnitsOf
<1>12. /\ sz[Base] = 16 /\ sz[FirstFree] = FreeSize /\ sz[LastUnit] = 16
  BY <1>2, <1>10 DEF SizeOf
<1> HIDE DEF sz
<1>13. /\ After(sz, Base) = FirstFree /\ After(sz, FirstFree) = LastUnit
       /\ After(sz, LastUnit) = End
  BY <1>12, LastUnitIs, Arena DEF After
<1>14. Tiles(UnitsOf(g), sz)
  <2>1. ASSUME NEW u \in {Base, FirstFree, LastUnit}
        PROVE  /\ sz[u] \in Int /\ sz[u] >= UnitSize /\ sz[u] % 8 = 0
               /\ After(sz, u) \in {Base, FirstFree, LastUnit} \cup {End}
               /\ u # Base => \E q \in {Base, FirstFree, LastUnit} : After(sz, q) = u
    BY <1>12, <1>13, LastUnitIs, Arena
  <2>2. ASSUME NEW u \in {Base, FirstFree, LastUnit},
               NEW v \in {Base, FirstFree, LastUnit}, u < v
        PROVE  After(sz, u) <= v
    BY <1>13, <2>2, LastUnitIs, Arena
  <2> QED BY <1>2, <1>11, <2>1, <2>2 DEF Tiles
<1>15. MarksRight(g)
  <2>1. \A u \in {Base, FirstFree, LastUnit} :
          /\ g.mark[u + g.unit[u].size].owner = g.unit[u].magic
          /\ g.mark[u + g.unit[u].size].size = g.unit[u].size
    <3>1. g.unit[Base].magic = "used" /\ g.unit[FirstFree].magic = "free"
          /\ g.unit[LastUnit].magic = "used"
      BY <1>2, <1>10
    <3> QED BY <1>10, <3>1 DEF m1, m2, m3
  <2> QED BY <1>11, <2>1 DEF MarksRight
<1>16. FreeApart(g)
  <2> SUFFICES ASSUME NEW u \in {Base, FirstFree, LastUnit},
                      NEW v \in {Base, FirstFree, LastUnit}, After(sz, u) = v
               PROVE  g.unit[u].magic = "used" \/ g.unit[v].magic = "used"
    BY <1>11 DEF FreeApart, sz
  <2>1. FirstFree # LastUnit
    BY <1>2
  <2> QED BY <1>2, <1>10, <1>13
<1>17. Sentinels(g)
  BY <1>2, <1>10 DEF Sentinels
<1>18. \A a \in Addr : g.unit[a].magic = "used" <=> a = Base \/ a = LastUnit
  BY <1>10
<1> QED BY <1>9, <1>10, <1>14, <1>15, <1>16, <1>17, <1>18 DEF Sound, sz


-----------------------------------------------------------------------------
(* The heap and its callers.                                               *)

\* q may point at the work area of a unit that is not at an end of the arena.
Pointer(q) ==
  /\ q \in Addr /\ q - UnitSize \in Addr
  /\ q - UnitSize # Base /\ q - UnitSize # LastUnit

(* The used units of h are the blocks b of the callers and the two ends.   *)
Owned(h, b) ==
  /\ \A q \in DOMAIN b :
       /\ Pointer(q) /\ b[q] \in Requests
       /\ h.unit[q - UnitSize].magic = "used"
       /\ b[q] <= h.unit[q - UnitSize].size - UnitSize
  /\ \A u \in Addr : h.unit[u].magic = "used" =>
       u = Base \/ u = LastUnit \/ u + UnitSize \in DOMAIN b

LEMMA RoundedIs ==
  ASSUME NEW n \in Requests
  PROVE  /\ n \in Nat /\ n >= 1
         /\ Rounded(n) \in Int /\ Rounded(n) >= n + 16 /\ Rounded(n) % 8 = 0
<1>1. n \in Nat /\ n >= 1
  BY RequestAssumption
<1>2. Rounded(n) = ((n + 23) \div 8) * 8
  <2>1. n + UnitSize + 7 = n + 23
    BY <1>1, Arena
  <2> QED BY <2>1 DEF Rounded
<1>3. /\ ((n + 23) \div 8) * 8 \in Int /\ ((n + 23) \div 8) * 8 >= n + 16
      /\ (((n + 23) \div 8) * 8) % 8 = 0
  BY <1>1
<1> QED BY <1>1, <1>2, <1>3

\* g has the used units of h and the unit p, and those of h are as large.
GainsUsed(h, g, p) ==
  \A a \in Addr :
    /\ g.unit[a].magic = "used" <=> a = p \/ h.unit[a].magic = "used"
    /\ h.unit[a].magic = "used" => g.unit[a].size = h.unit[a].size

\* What Allocate does to the heap when it finds a unit.
LEMMA Allocated ==
  ASSUME NEW h, Sound(h), NoPanic(h), NEW n \in Requests,
         NEW p, p = FirstFit(h, Rounded(n)), p # NULL,
         NEW g, g = Overwritten(Given(h, p, Rounded(n)), p)
  PROVE  /\ Sound(g) /\ NoPanic(g) /\ p \in Addr /\ h.unit[p].magic = "free"
         /\ Work(p) = p + UnitSize /\ Work(p) - UnitSize = p /\ Pointer(Work(p))
         /\ n <= g.unit[p].size - UnitSize
         /\ GainsUsed(h, g, p)
<1>0. h.panic = FALSE
  BY DEF NoPanic
<1>1. /\ n \in Nat /\ Rounded(n) \in Int /\ Rounded(n) >= n + 16
      /\ Rounded(n) >= 16 /\ Rounded(n) % 8 = 0
  BY RoundedIs
<1>2. p \in Addr /\ h.unit[p].magic = "free" /\ h.unit[p].size >= Rounded(n)
  BY <1>1, FirstFitFits
<1> DEFINE k == Given(h, p, Rounded(n))
<1>3. /\ Sound(k) /\ k.panic = h.panic /\ k.unit[p].size >= Rounded(n)
      /\ \A a \in Addr : /\ k.unit[a].magic = "used" <=>
                              a = p \/ h.unit[a].magic = "used"
                         /\ h.unit[a].magic = "used" =>
                              k.unit[a].size = h.unit[a].size
  BY <1>1, <1>2, GivenSound
<1> HIDE DEF k
<1>4. /\ Sound(g) /\ g.panic = k.panic
      /\ \A a \in Addr : g.unit[a].magic = "used" <=> k.unit[a].magic = "used"
      /\ \A a \in Addr : k.unit[a].magic = "used" => g.unit[a].size = k.unit[a].size
  <2>1. k.unit[p].magic = "used" /\ g = Overwritten(k, p)
    BY <1>2, <1>3 DEF k
  <2> QED BY <1>2, <1>3, <2>1, OverwrittenSound
<1>5. n <= g.unit[p].size - UnitSize
  <2>1. g.unit[p].size = k.unit[p].size /\ k.unit[p].size \in Int
    BY <1>2, <1>3, <1>4, HeapParts DEF Sound
  <2> QED BY <1>1, <1>3, <2>1, Arena
<1>6. Work(p) = p + UnitSize /\ Work(p) - UnitSize = p /\ Pointer(Work(p))
  <2>1. p \in UnitsOf(h)
    BY <1>2, ListFacts DEF UnitsOf
  <2>2. p \in Nat /\ p + 16 \in Addr
    BY <2>1, UnitFacts
  <2>3. Work(p) = p + UnitSize /\ Work(p) - UnitSize = p /\ Work(p) \in Addr
    BY <2>2, Arena DEF Work
  <2>4. p # Base /\ p # LastUnit
    BY <1>2 DEF Sound, Sentinels
  <2> QED BY <1>2, <2>3, <2>4 DEF Pointer
<1>7. GainsUsed(h, g, p)
  BY <1>3, <1>4 DEF GainsUsed
<1>8. NoPanic(g)
  BY <1>0, <1>3, <1>4 DEF NoPanic
<1> QED BY <1>2, <1>4, <1>5, <1>6, <1>7, <1>8

\* The blocks b with one more, w of n bytes; without the block q; and with w
\* instead of q.
With(b, w, n) == [q \in DOMAIN b \cup {w} |-> IF q = w THEN n ELSE b[q]]
Without(b, q) == [r \in DOMAIN b \ {q} |-> b[r]]
Instead(b, q, w, n) ==
  [r \in (DOMAIN b \ {q}) \cup {w} |-> IF r = w THEN n ELSE b[r]]

\* The blocks b are inside the arena and have no byte in common.
Apart(b) ==
  /\ \A q \in DOMAIN b : /\ q \in FirstFree .. LastUnit - 1
                         /\ q .. q + b[q] - 1 \subseteq FirstFree .. LastUnit - 1
  /\ \A q, r \in DOMAIN b :
       q # r => (q .. q + b[q] - 1) \cap (r .. r + b[r] - 1) = {}

LEMMA OwnedGiven ==
  ASSUME NEW h, NEW g, NEW b, Owned(h, b), NEW n \in Requests, NEW p \in Addr,
         h.unit[p].magic = "free", NEW w, w = p + UnitSize, w - UnitSize = p,
         Pointer(w), n <= g.unit[p].size - UnitSize,
         GainsUsed(h, g, p), NEW c, c = With(b, w, n)
  PROVE  Owned(g, c) /\ w \notin DOMAIN b
<1>0. \A a \in Addr : /\ g.unit[a].magic = "used" <=>
                           a = p \/ h.unit[a].magic = "used"
                      /\ h.unit[a].magic = "used" =>
                           g.unit[a].size = h.unit[a].size
  BY DEF GainsUsed
<1>1. w \notin DOMAIN b
  BY DEF Owned
<1>2. /\ DOMAIN c = DOMAIN b \cup {w} /\ c[w] = n
      /\ \A q \in DOMAIN b : c[q] = b[q]
  BY <1>1 DEF With
<1>3. ASSUME NEW q \in DOMAIN c
      PROVE  /\ Pointer(q) /\ c[q] \in Requests
             /\ g.unit[q - UnitSize].magic = "used"
             /\ c[q] <= g.unit[q - UnitSize].size - UnitSize
  <2>1. CASE q = w
    BY <1>0, <1>2, <2>1
  <2>2. CASE q # w
    <3>1. /\ q \in DOMAIN b /\ Pointer(q) /\ c[q] \in Requests
          /\ h.unit[q - UnitSize].magic = "used" /\ q - UnitSize \in Addr
          /\ c[q] <= h.unit[q - UnitSize].size - UnitSize
      BY <1>2, <2>2 DEF Owned, Pointer
    <3> QED BY <1>0, <3>1
  <2> QED BY <2>1, <2>2
<1>4. ASSUME NEW u \in Addr, g.unit[u].magic = "used"
      PROVE  u = Base \/ u = LastUnit \/ u + UnitSize \in DOMAIN c
  BY <1>0, <1>2, <1>4 DEF Owned
<1> QED BY <1>1, <1>3, <1>4 DEF Owned

LEMMA OwnedTaken ==
  ASSUME NEW h, NEW g, NEW b, Owned(h, b), NEW q \in DOMAIN b,
         NEW p, p = q - UnitSize,
         LosesUsed(h, g, p), NEW c, c = Without(b, q)
  PROVE  Owned(g, c)
<1>0. /\ \A a \in Addr : g.unit[a].magic = "used" <=>
                           a # p /\ h.unit[a].magic = "used"
      /\ \A a \in Addr : g.unit[a].magic = "used" => g.unit[a].size = h.unit[a].size
  BY DEF LosesUsed
<1>1. /\ DOMAIN c = DOMAIN b \ {q}
      /\ \A r \in DOMAIN c : r \in DOMAIN b /\ r # q /\ c[r] = b[r]
  BY DEF Without
<1>2. q \in Int /\ p \in Int /\ p + UnitSize = q
  BY Arena DEF Owned, Pointer
<1>3. ASSUME NEW r \in DOMAIN c
      PROVE  /\ Pointer(r) /\ c[r] \in Requests
             /\ g.unit[r - UnitSize].magic = "used"
             /\ c[r] <= g.unit[r - UnitSize].size - UnitSize
  <2>1. /\ Pointer(r) /\ c[r] \in Requests
        /\ h.unit[r - UnitSize].magic = "used" /\ r - UnitSize \in Addr
        /\ c[r] <= h.unit[r - UnitSize].size - UnitSize
    BY <1>1 DEF Owned, Pointer
  <2>2. r - UnitSize # p
    <3>1. r \in Int
      BY <2>1, Arena DEF Pointer
    <3> QED BY <1>1, <1>2, <3>1, Arena
  <2> QED BY <1>0, <2>1, <2>2
<1>4. ASSUME NEW u \in Addr, g.unit[u].magic = "used"
      PROVE  u = Base \/ u = LastUnit \/ u + UnitSize \in DOMAIN c
  <2>1. u # p /\ h.unit[u].magic = "used"
    BY <1>0, <1>4
  <2>2. u + UnitSize # q
    BY <1>2, <2>1, Arena
  <2> QED BY <1>1, <2>1, <2>2 DEF Owned
<1> QED BY <1>3, <1>4 DEF Owned

\* What Release does to the heap when the caller holds the block q.
LEMMA Returned ==
  ASSUME NEW h, Sound(h), NoPanic(h), NEW b, Owned(h, b), NEW q \in DOMAIN b,
         NEW p, p = q - UnitSize,
         NEW g, g = Released(h, q), NEW c, c = Without(b, q)
  PROVE  Sound(g) /\ NoPanic(g) /\ Owned(g, c) /\ Pointer(q)
<1>1. /\ p \in Addr /\ h.unit[p].magic = "used" /\ p # Base /\ p # LastUnit
      /\ Pointer(q)
  BY DEF Owned, Pointer
<1>2. q = p + UnitSize
  <2>1. q \in Int
    BY <1>1, Arena DEF Pointer
  <2> QED BY <2>1, Arena
<1>4. Sound(g) /\ NoPanic(g) /\ LosesUsed(h, g, p)
  BY <1>1, <1>2, ReleasedSound
<1>5. Owned(g, c)
  BY <1>4, OwnedTaken
<1> QED BY <1>1, <1>4, <1>5


\* What the callers hold is apart: each block lies in the work area of a unit
\* of its own, and no unit but the two at the ends is outside of the arena.
LEMMA HeldApart ==
  ASSUME NEW h, Sound(h), NEW b, Owned(h, b)
  PROVE  Apart(b)
<1> DEFINE U == UnitsOf(h)
           sz == SizeOf(h)
<1>1. /\ Tiles(U, sz) /\ \A a \in Addr : sz[a] = h.unit[a].size
      /\ LastUnit \in Addr /\ LastUnit \in U /\ sz[LastUnit] = 16
      /\ \A u \in Addr : h.unit[u].magic = "used" => u \in U
  <2>1. LastUnit \in Addr /\ LastUnit + 24 = End
    BY LastUnitIs, Arena
  <2> QED BY <2>1, ListFacts DEF Sound, Sentinels, UnitsOf, SizeOf
<1> HIDE DEF U, sz
<1>2. /\ \A u \in U : /\ u \in Nat /\ Base <= u /\ After(sz, u) = u + sz[u] + 8
                      /\ sz[u] \in Int /\ After(sz, u) <= End /\ sz[u] >= 16
      /\ \A u, v \in U : u < v => After(sz, u) <= v
      /\ Base \in U
  BY <1>1, TileFacts
<1>3. LastUnit \in Nat /\ LastUnit + 24 = End /\ FirstFree = Base + 24
  BY <1>1, LastUnitIs, Arena DEF FirstFree
<1>4. ASSUME NEW q \in DOMAIN b
      PROVE  /\ q \in Nat /\ q - 16 \in U /\ b[q] \in Nat /\ b[q] >= 1
             /\ q + b[q] + 8 <= After(sz, q - 16)
             /\ FirstFree <= q /\ After(sz, q - 16) <= LastUnit
  <2>1. /\ Pointer(q) /\ b[q] \in Requests /\ h.unit[q - UnitSize].magic = "used"
        /\ b[q] <= h.unit[q - UnitSize].size - UnitSize
    BY DEF Owned
  <2> DEFINE u == q - 16
  <2>2. /\ q \in Nat /\ u \in Addr /\ u # Base /\ u # LastUnit /\ q = u + 16
        /\ h.unit[u].magic = "used" /\ b[q] <= h.unit[u].size - 16
    BY <2>1, Arena DEF Pointer
  <2> HIDE DEF u
  <2>3. b[q] \in Nat /\ b[q] >= 1
    BY <2>1, RequestAssumption
  <2>4. u \in U /\ sz[u] = h.unit[u].size /\ u \in Nat /\ sz[u] \in Int
        /\ After(sz, u) = u + sz[u] + 8 /\ Base <= u /\ After(sz, u) <= End /\ sz[u] >= 16
    BY <1>1, <1>2, <2>2
  <2>5. After(sz, Base) <= u /\ After(sz, Base) = Base + sz[Base] + 8 /\ sz[Base] \in Int
        /\ sz[Base] >= 16
    BY <1>2, <2>2, <2>4, Arena
  <2>6. After(sz, u) <= LastUnit
    <3>1. CASE u < LastUnit
      BY <1>1, <1>2, <2>4, <3>1
    <3>2. CASE LastUnit < u
      <4>1. After(sz, LastUnit) <= u /\ After(sz, LastUnit) = LastUnit + 24
        BY <1>1, <1>2, <2>4, <3>2
      <4> QED BY <1>3, <2>4, <4>1
    <3> QED BY <1>3, <2>2, <2>4, <3>1, <3>2
  <2>7. FirstFree <= q
    BY <1>3, <2>2, <2>4, <2>5, Arena
  <2>8. q + b[q] + 8 <= After(sz, u)
    BY <2>2, <2>3, <2>4
  <2> QED BY <2>2, <2>3, <2>4, <2>6, <2>7, <2>8 DEF u
<1>5. ASSUME NEW q \in DOMAIN b
      PROVE  /\ q \in FirstFree .. LastUnit - 1
             /\ q .. q + b[q] - 1 \subseteq FirstFree .. LastUnit - 1
  <2> DEFINE a == After(sz, q - 16)
  <2>1. a \in Int
    BY <1>2, <1>4
  <2>2. q \in Nat /\ b[q] \in Nat /\ b[q] >= 1 /\ q + b[q] + 8 <= a
        /\ FirstFree <= q /\ a <= LastUnit
    BY <1>4
  <2> HIDE DEF a
  <2>3. FirstFree \in Int /\ LastUnit \in Int
    BY <1>3, Arena
  <2> QED BY <2>1, <2>2, <2>3
<1>6. ASSUME NEW q \in DOMAIN b, NEW r \in DOMAIN b, q < r
      PROVE  q + b[q] <= r
  <2> DEFINE u == q - 16
             v == r - 16
  <2>1. /\ q \in Nat /\ r \in Nat /\ b[q] \in Nat /\ u \in U /\ v \in U
        /\ q + b[q] + 8 <= After(sz, u)
    BY <1>4
  <2>2. u < v /\ u \in Int /\ v \in Int /\ r = v + 16
    BY <1>6, <2>1
  <2> HIDE DEF u, v
  <2>3. After(sz, u) <= v /\ After(sz, u) \in Int
    BY <1>2, <2>1, <2>2
  <2> QED BY <2>1, <2>2, <2>3
<1>7. ASSUME NEW q \in DOMAIN b, NEW r \in DOMAIN b, q # r
      PROVE  (q .. q + b[q] - 1) \cap (r .. r + b[r] - 1) = {}
  <2>1. q \in Nat /\ r \in Nat /\ b[q] \in Nat /\ b[r] \in Nat
    BY <1>4
  <2>2. q < r \/ r < q
    BY <1>7, <2>1
  <2>3. q + b[q] <= r \/ r + b[r] <= q
    BY <1>6, <2>2
  <2> QED BY <2>1, <2>3
<1> QED BY <1>5, <1>7 DEF Apart

\* What Allocate does to the heap and to the blocks of the callers.
LEMMA AllocateStep ==
  ASSUME NEW h, Sound(h), NoPanic(h), NEW b, Owned(h, b), NEW n \in Requests,
         NEW p, p = FirstFit(h, Rounded(n)), p # NULL,
         NEW g, g = Overwritten(Given(h, p, Rounded(n)), p),
         NEW c, c = With(b, Work(p), n)
  PROVE  /\ Sound(g) /\ NoPanic(g) /\ Owned(g, c)
         /\ Work(p) \notin DOMAIN b /\ Pointer(Work(p))
<1> DEFINE w == Work(p)
<1>1. /\ Sound(g) /\ NoPanic(g) /\ p \in Addr /\ h.unit[p].magic = "free"
      /\ w = p + UnitSize /\ w - UnitSize = p /\ Pointer(w)
      /\ n <= g.unit[p].size - UnitSize /\ GainsUsed(h, g, p)
  BY Allocated
<1>2. c = With(b, w, n)
  OBVIOUS
<1> HIDE DEF w
<1>3. Owned(g, c) /\ w \notin DOMAIN b
  BY <1>1, <1>2, OwnedGiven
<1> QED BY <1>1, <1>3 DEF w

\* What Reallocate does to them: the new block is given before the old one is
\* taken back.
LEMMA ReallocateStep ==
  ASSUME NEW h, Sound(h), NoPanic(h), NEW b, Owned(h, b), NEW n \in Requests,
         NEW p, p = FirstFit(h, Rounded(n)), p # NULL, NEW q \in DOMAIN b,
         NEW k, k = Overwritten(Given(h, p, Rounded(n)), p), NEW g, g = Released(k, q),
         NEW c, c = Without(With(b, Work(p), n), q)
  PROVE  /\ Sound(g) /\ NoPanic(g) /\ Owned(g, c) /\ c = Instead(b, q, Work(p), n)
         /\ Work(p) \notin DOMAIN b /\ Pointer(Work(p)) /\ Pointer(q)
         /\ Apart(With(b, Work(p), n))
<1> DEFINE d == With(b, Work(p), n)
           u == q - UnitSize
<1>1. d = With(b, Work(p), n) /\ u = q - UnitSize
  OBVIOUS
<1>2. c = Without(d, q)
  OBVIOUS
<1> HIDE DEF d, u
<1>3. /\ Sound(k) /\ NoPanic(k) /\ Owned(k, d)
      /\ Work(p) \notin DOMAIN b /\ Pointer(Work(p))
  BY <1>1, AllocateStep
<1>4. DOMAIN d = DOMAIN b \cup {Work(p)} /\ q \in DOMAIN d /\ q # Work(p)
  BY <1>1, <1>3 DEF With
<1>6. Sound(g) /\ NoPanic(g) /\ Owned(g, c) /\ Pointer(q)
  BY <1>1, <1>2, <1>3, <1>4, Returned
<1>7. c = Instead(b, q, Work(p), n)
  <2>1. DOMAIN d \ {q} = (DOMAIN b \ {q}) \cup {Work(p)}
    BY <1>4
  <2>2. \A r \in DOMAIN d \ {q} : d[r] = IF r = Work(p) THEN n ELSE b[r]
    BY <1>1, <1>4 DEF With
  <2> QED BY <1>2, <2>1, <2>2 DEF Without, Instead
<1>8. Apart(d)
  BY <1>3, HeldApart
<1> QED BY <1>1, <1>3, <1>6, <1>7, <1>8

LEMMA PanicSound ==
  ASSUME NEW h, Sound(h), NEW g, g = Panic(h)
  PROVE  /\ Sound(g) /\ g.panic = TRUE /\ g.unit = h.unit
         /\ h.panic = FALSE => [g EXCEPT !.panic = FALSE] = h
<1>1. h \in HeapState
  BY DEF Sound
<1>2. /\ g \in HeapState /\ g.panic = TRUE /\ g.unit = h.unit /\ g.mark = h.mark
      /\ g.list = h.list
      /\ h.panic = FALSE => [g EXCEPT !.panic = FALSE] = h
  BY <1>1 DEF HeapState, Panic
<1>3. \A l \in List : \A n, s : ListIs(h, l, n, s) => ListIs(g, l, n, s)
  BY <1>2 DEF ListIs
<1>4. Lists(g)
  BY <1>3 DEF Sound, Lists, Listed
<1>5. UnitsOf(g) = UnitsOf(h) /\ SizeOf(g) = SizeOf(h)
  BY <1>2 DEF UnitsOf, SizeOf
<1>6. MarksRight(g) /\ Sentinels(g)
  BY <1>2, <1>5 DEF Sound, MarksRight, Sentinels
<1>7. FreeApart(g)
  BY <1>2, <1>5 DEF Sound, FreeApart
<1> QED BY <1>2, <1>4, <1>5, <1>6, <1>7 DEF Sound

\* A pointer that nobody holds is not released: the magic number is wrong.
LEMMA NotHeld ==
  ASSUME NEW h, Sound(h), NEW b, Owned(h, b), NEW q, Pointer(q),
         q \notin DOMAIN b
  PROVE  Released(h, q) = Panic(h)
<1>1. h.unit[q - UnitSize].magic # "used"
  <2>1. q - UnitSize + UnitSize = q /\ q - UnitSize \in Addr
    BY Arena DEF Pointer
  <2>2. q - UnitSize # Base /\ q - UnitSize # LastUnit
    BY DEF Pointer
  <2> DEFINE u == q - UnitSize
  <2>3. u \in Addr /\ u # Base /\ u # LastUnit /\ u + UnitSize \notin DOMAIN b
    BY <2>1, <2>2
  <2> HIDE DEF u
  <2>4. h.unit[u].magic # "used"
    BY <2>3 DEF Owned
  <2> QED BY <2>4 DEF u
<1>2. Taken(h, q - UnitSize) = Panic(h)
  BY <1>1 DEF Taken, remove
<1>3. Panic(h).panic
  BY DEF Panic, HeapState, Sound
<1> QED BY <1>2, <1>3 DEF Released

-----------------------------------------------------------------------------
(* The inductive invariant: the heap is sound, its used units are the      *)
(* blocks of the callers, and no released pointer is held again.           *)
Good(h, b, t, s) ==
  /\ Sound(h) /\ Owned(h, b)
  /\ \A q \in t : Pointer(q) /\ q \notin DOMAIN b
  /\ s \in {"running", "panic", "reported", "null read", "overrun"}
  /\ s # "panic" => NoPanic(h)
IInv == Good(heap, held, stale, state)

\* The invariant of the next state speaks of the next heap.
LEMMA GoodNext ==
  IInv' <=> Good(heap', held', stale', state')
BY DEF IInv, Good, Sound, HeapState, UnitState, MarkState, EndState, Link, Magic,
       List, Lists, Listed, ListIs, Tiles, After, UnitsOf, SizeOf, MarksRight,
       FreeApart, Sentinels, Owned, Pointer, NoPanic

LEMMA GoodInit == Init => IInv
<1> SUFFICES ASSUME Init PROVE IInv
  OBVIOUS
<1>1. /\ Sound(heap) /\ NoPanic(heap)
      /\ \A a \in Addr : heap.unit[a].magic = "used" => a = Base \/ a = LastUnit
  BY ConstructedSound DEF Init, NoPanic
<1>2. Owned(heap, held)
  <2>1. DOMAIN held = {}
    BY DEF Init
  <2> QED BY <1>1, <2>1 DEF Owned
<1> QED BY <1>1, <1>2 DEF Init, IInv, Good

\* What Allocate, Release, ReleaseAgain and Reallocate do when the invariant
\* holds, and what else of the callers' blocks changes.
LEMMA GoodAllocate ==
  ASSUME IInv, NEW n \in Requests, Allocate(n)
  PROVE  /\ Good(heap', held', stale', state') /\ state' # "panic" /\ state = "running"
         /\ \/ held' = held
            \/ \E w : Pointer(w) /\ w \notin DOMAIN held /\ held' = With(held, w, n)
<1> DEFINE p == FirstFit(heap, Rounded(n))
<1>1. /\ Sound(heap) /\ Owned(heap, held) /\ NoPanic(heap) /\ state = "running"
      /\ \A q \in stale : Pointer(q) /\ q \notin DOMAIN held
  BY DEF IInv, Good, Allocate
<1>2. p = FirstFit(heap, Rounded(n))
  OBVIOUS
<1> HIDE DEF p
<1>3. CASE p = NULL
  <2>1. /\ heap' = heap /\ held' = held /\ stale' = stale
        /\ state' \in {"null read", "reported"}
    BY <1>2, <1>3 DEF Allocate, Failure
  <2> QED BY <1>1, <2>1 DEF Good
<1>4. CASE p # NULL
  <2>1. /\ heap' = Overwritten(Given(heap, p, Rounded(n)), p)
        /\ held' = With(held, Work(p), n) /\ stale' = stale \ {Work(p)}
        /\ state' = state
    BY <1>2, <1>4 DEF Allocate, With
  <2>2. /\ Sound(heap') /\ NoPanic(heap') /\ Owned(heap', held')
        /\ Work(p) \notin DOMAIN held /\ Pointer(Work(p))
    BY <1>1, <1>2, <1>4, <2>1, AllocateStep
  <2>3. DOMAIN held' = DOMAIN held \cup {Work(p)}
    BY <2>1 DEF With
  <2>4. \A q \in stale' : Pointer(q) /\ q \notin DOMAIN held'
    BY <1>1, <2>1, <2>3
  <2> QED BY <1>1, <2>1, <2>2, <2>4 DEF Good
<1> QED BY <1>3, <1>4

LEMMA GoodRelease ==
  ASSUME IInv, NEW q \in DOMAIN held, Release(q)
  PROVE  /\ Good(heap', held', stale', state') /\ state' # "panic" /\ state = "running"
         /\ held' = Without(held, q)
<1>1. /\ Sound(heap) /\ Owned(heap, held) /\ NoPanic(heap) /\ state = "running"
      /\ \A r \in stale : Pointer(r) /\ r \notin DOMAIN held
  BY DEF IInv, Good, Release
<1>2. /\ heap' = Released(heap, q) /\ held' = Without(held, q)
      /\ stale' = stale \cup {q} /\ state' = IF heap'.panic THEN "panic" ELSE state
  BY DEF Release, Without
<1>3. Sound(heap') /\ NoPanic(heap') /\ Owned(heap', held') /\ Pointer(q)
  <2> DEFINE u == q - UnitSize
  <2>1. u = q - UnitSize
    OBVIOUS
  <2> HIDE DEF u
  <2> QED BY <1>1, <1>2, <2>1, Returned
<1>4. state' = "running"
  BY <1>1, <1>2, <1>3 DEF NoPanic
<1>5. \A r \in stale' : Pointer(r) /\ r \notin DOMAIN held'
  <2>1. DOMAIN held' = DOMAIN held \ {q}
    BY <1>2 DEF Without
  <2> QED BY <1>1, <1>2, <1>3, <2>1
<1> QED BY <1>1, <1>2, <1>3, <1>4, <1>5 DEF Good

LEMMA GoodReleaseAgain ==
  ASSUME IInv, NEW q \in stale, ReleaseAgain(q)
  PROVE  /\ Good(heap', held', stale', state') /\ state' = "panic" /\ state = "running"
         /\ held' = held /\ [heap' EXCEPT !.panic = FALSE] = heap
<1>1. /\ Sound(heap) /\ Owned(heap, held) /\ NoPanic(heap) /\ state = "running"
      /\ \A r \in stale : Pointer(r) /\ r \notin DOMAIN held
  BY DEF IInv, Good, ReleaseAgain
<1>2. /\ heap' = Released(heap, q) /\ held' = held /\ stale' = stale
      /\ state' = IF heap'.panic THEN "panic" ELSE state
  BY DEF ReleaseAgain
<1>3. heap' = Panic(heap)
  BY <1>1, <1>2, NotHeld
<1>4. /\ Sound(heap') /\ heap'.panic = TRUE /\ heap'.unit = heap.unit
      /\ [heap' EXCEPT !.panic = FALSE] = heap
  <2>1. heap.panic = FALSE
    BY <1>1 DEF NoPanic
  <2> QED BY <1>1, <1>3, <2>1, PanicSound
<1>5. state' = "panic"
  BY <1>2, <1>4
<1>6. Owned(heap', held')
  BY <1>1, <1>2, <1>4 DEF Owned
<1> QED BY <1>1, <1>2, <1>4, <1>5, <1>6 DEF Good

LEMMA GoodReallocate ==
  ASSUME IInv, NEW q \in DOMAIN held, NEW n \in Requests, Reallocate(q, n)
  PROVE  /\ Good(heap', held', stale', state') /\ state' # "panic" /\ state = "running"
         /\ \/ held' = held
            \/ \E w : /\ Pointer(w) /\ w \notin DOMAIN held
                      /\ Apart(With(held, w, n)) /\ held' = Instead(held, q, w, n)
<1> DEFINE p == FirstFit(heap, Rounded(n))
<1>1. /\ Sound(heap) /\ Owned(heap, held) /\ NoPanic(heap) /\ state = "running"
      /\ \A r \in stale : Pointer(r) /\ r \notin DOMAIN held
  BY DEF IInv, Good, Reallocate
<1>2. p = FirstFit(heap, Rounded(n))
  OBVIOUS
<1> HIDE DEF p
<1>3. CASE p = NULL
  <2>1. /\ heap' = heap /\ held' = held /\ stale' = stale
        /\ state' \in {"null read", "reported"}
    BY <1>2, <1>3 DEF Reallocate, Failure
  <2> QED BY <1>1, <2>1 DEF Good
<1>4. CASE p # NULL
  <2> DEFINE k == Overwritten(Given(heap, p, Rounded(n)), p)
             c == Without(With(held, Work(p), n), q)
  <2>1. /\ heap' = Released(k, q)
        /\ held' = Instead(held, q, Work(p), n)
        /\ stale' = (stale \cup {q}) \ {Work(p)}
        /\ state' \in {"overrun", state}
    BY <1>2, <1>4 DEF Reallocate, Instead
  <2>2. k = Overwritten(Given(heap, p, Rounded(n)), p) /\ c = Without(With(held, Work(p), n), q)
    OBVIOUS
  <2> HIDE DEF k, c
  <2>3. /\ Sound(heap') /\ NoPanic(heap') /\ Owned(heap', c)
        /\ Work(p) \notin DOMAIN held /\ Pointer(Work(p)) /\ Pointer(q)
        /\ c = Instead(held, q, Work(p), n) /\ Apart(With(held, Work(p), n))
    BY <1>1, <1>2, <1>4, <2>1, <2>2, ReallocateStep
  <2>4. held' = c /\ DOMAIN held' = (DOMAIN held \ {q}) \cup {Work(p)}
    BY <2>1, <2>3 DEF Instead
  <2>5. \A r \in stale' : Pointer(r) /\ r \notin DOMAIN held'
    BY <1>1, <2>1, <2>3, <2>4
  <2>6. Good(heap', held', stale', state') /\ state' # "panic"
    BY <1>1, <2>1, <2>3, <2>4, <2>5 DEF Good
  <2> QED BY <1>1, <2>3, <2>4, <2>6
<1> QED BY <1>3, <1>4

LEMMA GoodStep ==
  ASSUME IInv, [Next]_vars
  PROVE  IInv'
<1>1. ASSUME NEW n \in Requests, Allocate(n) PROVE IInv'
  BY <1>1, GoodAllocate, GoodNext
<1>2. ASSUME NEW q \in DOMAIN held, Release(q) PROVE IInv'
  BY <1>2, GoodRelease, GoodNext
<1>3. ASSUME NEW q \in stale, ReleaseAgain(q) PROVE IInv'
  BY <1>3, GoodReleaseAgain, GoodNext
<1>4. ASSUME NEW q \in DOMAIN held, NEW n \in Requests, Reallocate(q, n) PROVE IInv'
  BY <1>4, GoodReallocate, GoodNext
<1>5. ASSUME UNCHANGED vars PROVE IInv'
  <2>1. Good(heap', held', stale', state')
    BY <1>5 DEF vars, IInv
  <2> QED BY <2>1, GoodNext
<1> QED BY <1>1, <1>2, <1>3, <1>4, <1>5 DEF Next

LEMMA HeapInvariant == Spec => []IInv
<1>1. IInv /\ [Next]_vars => IInv'
  BY GoodStep
<1> QED BY <1>1, GoodInit, PTL DEF Spec

-----------------------------------------------------------------------------
(* The theorems.                                                           *)

LEMMA HeapInMemory == IInv => TypeOK
<1> SUFFICES ASSUME IInv PROVE TypeOK
  OBVIOUS
<1>1. heap \in HeapState
  BY DEF IInv, Good, Sound
<1>2. /\ \A q \in DOMAIN held : q \in Addr /\ held[q] \in Requests
      /\ stale \subseteq Addr
      /\ state \in {"running", "panic", "reported", "null read", "overrun"}
  BY DEF IInv, Good, Owned, Pointer
<1>3. /\ heap.unit \in [Addr -> [prev : Addr \cup {NULL}, next : Addr \cup {NULL},
                                 size : 0 .. Size,
                                 magic : List \cup {"plain", "none"}]]
      /\ heap.mark \in [Addr -> [owner : List \cup {"none"}, size : 0 .. Size]]
      /\ heap.list \in [List -> [head : Addr \cup {NULL}, tail : Addr \cup {NULL}]]
      /\ heap.panic \in BOOLEAN
  BY <1>1 DEF HeapState, UnitState, MarkState, EndState, Link, Magic
<1> QED BY <1>2, <1>3 DEF TypeOK

LEMMA HeapTiled == IInv => Tiled
<1> SUFFICES ASSUME IInv PROVE Tiled
  OBVIOUS
<1> DEFINE U == UnitsOf(heap)
           sz == SizeOf(heap)
<1>1. /\ Tiles(U, sz) /\ MarksRight(heap) /\ heap \in HeapState
      /\ heap.mark \in [Addr -> MarkState]
  BY HeapParts DEF IInv, Good, Sound
<1>2. Units = U
  BY DEF Units, On, UnitsOf, List
<1>3. ASSUME NEW u \in U PROVE NextUnit(heap, u) = After(sz, u)
  BY DEF NextUnit, MarkOf, After, SizeOf, UnitsOf
<1>4. ASSUME NEW u \in U
      PROVE  heap.mark[MarkOf(heap, u)] = [owner |-> heap.unit[u].magic,
                                           size |-> heap.unit[u].size]
  <2> DEFINE m == u + heap.unit[u].size
  <2>1. m = MarkOf(heap, u) /\ m \in Addr
    <3>1. u + sz[u] \in Addr
      BY <1>1, TileFacts
    <3> QED BY <3>1 DEF MarkOf, SizeOf, UnitsOf
  <2>2. heap.mark[m].owner = heap.unit[u].magic /\ heap.mark[m].size = heap.unit[u].size
    BY <1>1 DEF MarksRight
  <2> HIDE DEF m
  <2>3. heap.mark[m] \in MarkState
    BY <1>1, <2>1
  <2>4. heap.mark[m] = [owner |-> heap.mark[m].owner, size |-> heap.mark[m].size]
    BY <2>3 DEF MarkState
  <2> QED BY <2>1, <2>2, <2>4
<1> HIDE DEF U, sz
<1>5. /\ Base \in U
      /\ \A u \in U : /\ After(sz, u) \in U \cup {End}
                      /\ \A v \in U : u < v => After(sz, u) <= v
  BY <1>1, TileFacts
<1> QED BY <1>2, <1>3, <1>4, <1>5 DEF Tiled

LEMMA HeapOwned == IInv => CallersOwnUsed
<1> SUFFICES ASSUME IInv PROVE CallersOwnUsed
  OBVIOUS
<1>1. /\ Owned(heap, held) /\ heap.unit[Base].magic = "used"
      /\ heap.unit[LastUnit].magic = "used" /\ Base \in Addr /\ LastUnit \in Addr
  BY LastUnitIs DEF IInv, Good, Sound, Sentinels
<1>2. ASSUME NEW u \in On("used")
      PROVE  u \in {q - UnitSize : q \in DOMAIN held} \cup {Base, LastUnit}
  <2>1. u \in Addr /\ (u = Base \/ u = LastUnit \/ u + UnitSize \in DOMAIN held)
    BY <1>1 DEF On, Owned
  <2>2. (u + UnitSize) - UnitSize = u
    BY <2>1, Arena
  <2> DEFINE q == u + UnitSize
  <2>3. q \in DOMAIN held \/ u = Base \/ u = LastUnit
    BY <2>1
  <2>4. q - UnitSize = u
    BY <2>2
  <2> HIDE DEF q
  <2> QED BY <2>3, <2>4
<1>3. ASSUME NEW q \in DOMAIN held PROVE q - UnitSize \in On("used")
  BY <1>1 DEF On, Owned, Pointer
<1>4. Base \in On("used") /\ LastUnit \in On("used")
  BY <1>1 DEF On
<1>5. On("used") = {q - UnitSize : q \in DOMAIN held} \cup {Base, LastUnit}
  BY <1>2, <1>3, <1>4
<1>6. ASSUME NEW q \in DOMAIN held PROVE WorkSize(heap, q - UnitSize) >= held[q]
  <2>1. /\ held[q] <= heap.unit[q - UnitSize].size - UnitSize
        /\ held[q] \in Requests /\ q - UnitSize \in Addr
    BY <1>1 DEF Owned, Pointer
  <2>2. heap.unit[q - UnitSize].size \in Int
    BY <2>1, HeapParts DEF IInv, Good, Sound
  <2>3. held[q] \in Int
    BY <2>1, RequestAssumption
  <2> QED BY <2>1, <2>2, <2>3, Arena DEF WorkSize
<1> QED BY <1>5, <1>6 DEF CallersOwnUsed

(* The headers and marks in memory, the ends of the lists and the pointers *)
(* of the callers always lie within the arena and stay within their types. *)
THEOREM HeapTypeCorrect == Spec => []TypeOK
BY HeapInvariant, HeapInMemory, PTL

(* Allocate, Release and Reallocate (kernel/memory.cpp) keep every byte    *)
(* of the arena in exactly one unit, with a Mark that repeats its header,  *)
(* and every used unit but the two at the ends belongs to a caller and is  *)
(* large enough for it: no sequence of calls loses memory.                 *)
THEOREM HeapAccounted == Spec => []Accounted
<1>1. IInv => Accounted
  BY HeapTiled, HeapOwned DEF Accounted
<1> QED BY <1>1, HeapInvariant, PTL

(* insert, remove and replace (struct UnitList) keep both lists whole:     *)
(* prev and next are inverse, head and tail are the ends, and the walk     *)
(* from head that Allocate makes meets every unit of the list.             *)
THEOREM HeapLinked == Spec => []Linked
<1>1. IInv => Linked
  <2> SUFFICES ASSUME IInv, NEW l \in List
               PROVE  LET nth == Nth(heap, l)
                      IN  /\ {nth[i] : i \in 0 .. MaxUnits} \ {NULL} = On(l)
                          /\ \A u \in On(l) :
                               /\ u = heap.list[l].head <=> heap.unit[u].prev = NULL
                               /\ u = heap.list[l].tail <=> heap.unit[u].next = NULL
                               /\ heap.unit[u].next # NULL =>
                                    heap.unit[heap.unit[u].next].prev = u
    BY DEF Linked
  <2>1. Sound(heap)
    BY DEF IInv, Good
  <2>2. OnList(heap, l) = On(l)
    BY DEF OnList, On
  <2> QED BY <2>1, <2>2, SoundLinked
<1> QED BY <1>1, HeapInvariant, PTL

(* Release merges in all four cases of free and used neighbours, so that   *)
(* two free units never lie side by side.                                  *)
THEOREM HeapMerged == Spec => []NoFreeNeighbours
<1>1. IInv => NoFreeNeighbours
  <2> SUFFICES ASSUME IInv, NEW u \in On("free"), NextUnit(heap, u) \in On("free")
               PROVE  FALSE
    BY DEF NoFreeNeighbours
  <2>1. FreeApart(heap)
    BY DEF IInv, Good, Sound
  <2> DEFINE v == NextUnit(heap, u)
  <2>2. /\ u \in UnitsOf(heap) /\ v \in UnitsOf(heap)
        /\ heap.unit[u].magic = "free" /\ heap.unit[v].magic = "free"
    BY ListFacts DEF On, UnitsOf
  <2>3. v = After(SizeOf(heap), u)
    BY <2>2 DEF NextUnit, MarkOf, After, SizeOf, UnitsOf
  <2> HIDE DEF v
  <2> QED BY <2>1, <2>2, <2>3 DEF FreeApart
<1> QED BY <1>1, HeapInvariant, PTL

(* A pointer released for the second time, while nobody holds it, stops    *)
(* the program at the magic number before a list is touched, and no other  *)
(* call fails a magic-number check.                                        *)
THEOREM HeapCatchesDoubleRelease == Spec => DoubleReleaseCaught
<1> DEFINE A == /\ (\E q \in stale : ReleaseAgain(q)) <=> state' = "panic"
                /\ state' = "panic" => [heap' EXCEPT !.panic = FALSE] = heap
<1>1. ASSUME IInv, NEW n \in Requests, Allocate(n) PROVE state' # "panic"
  BY <1>1, GoodAllocate
<1>2. ASSUME IInv, NEW q \in DOMAIN held, Release(q) PROVE state' # "panic"
  BY <1>2, GoodRelease
<1>3. ASSUME IInv, NEW q \in stale, ReleaseAgain(q)
      PROVE  state' = "panic" /\ [heap' EXCEPT !.panic = FALSE] = heap
  BY <1>3, GoodReleaseAgain
<1>4. ASSUME IInv, NEW q \in DOMAIN held, NEW n \in Requests, Reallocate(q, n)
      PROVE  state' # "panic"
  BY <1>4, GoodReallocate
<1>5. IInv /\ [Next]_vars => [A]_vars
  BY <1>1, <1>2, <1>3, <1>4 DEF Next
<1> HIDE DEF A
<1>6. Spec => [][A]_vars
  BY <1>5, HeapInvariant, PTL DEF Spec
<1> QED BY <1>6 DEF DoubleReleaseCaught, A

-----------------------------------------------------------------------------
(* The heap implements the allocator.                                      *)

LEMMA HeapGives ==
  ASSUME IInv, IInv', NEW n \in Requests, Allocate(n)
  PROVE  [Promise!Next]_held
<1>1. held' = held \/ \E w : Pointer(w) /\ w \notin DOMAIN held /\ held' = With(held, w, n)
  BY GoodAllocate
<1>2. ASSUME NEW w, w \notin DOMAIN held, held' = With(held, w, n)
      PROVE  Promise!Next
  <2>1. Apart(held')
    <3>1. Good(heap', held', stale', state')
      BY GoodNext
    <3> QED BY <3>1, HeldApart DEF Good
  <2>2. /\ DOMAIN held' = DOMAIN held \cup {w} /\ held'[w] = n
        /\ \A q \in DOMAIN held : held'[q] = held[q]
    BY <1>2 DEF With
  <2>3. /\ w \in FirstFree .. LastUnit - 1
        /\ w .. w + n - 1 \subseteq FirstFree .. LastUnit - 1
    BY <2>1, <2>2 DEF Apart
  <2>4. \A q \in DOMAIN held : (w .. w + n - 1) \cap (q .. q + held[q] - 1) = {}
    BY <1>2, <2>1, <2>2 DEF Apart
  <2>5. Promise!Give(w, n)
    BY <1>2, <2>3, <2>4 DEF Promise!Give, Promise!Bytes, With
  <2> QED BY <2>3, <2>5 DEF Promise!Next
<1> QED BY <1>1, <1>2

LEMMA HeapMoves ==
  ASSUME IInv, NEW a \in DOMAIN held, NEW n \in Requests, Reallocate(a, n)
  PROVE  [Promise!Next]_held
<1>1. \/ held' = held
      \/ \E w : /\ Pointer(w) /\ w \notin DOMAIN held
                /\ Apart(With(held, w, n)) /\ held' = Instead(held, a, w, n)
  BY GoodReallocate
<1>2. ASSUME NEW w, w \notin DOMAIN held, Apart(With(held, w, n)),
             held' = Instead(held, a, w, n)
      PROVE  Promise!Next
  <2> DEFINE d == With(held, w, n)
  <2>1. /\ DOMAIN d = DOMAIN held \cup {w} /\ d[w] = n
        /\ \A q \in DOMAIN held : d[q] = held[q]
    BY <1>2 DEF With
  <2>2. Apart(d)
    BY <1>2
  <2> HIDE DEF d
  <2>3. /\ w \in FirstFree .. LastUnit - 1
        /\ w .. w + n - 1 \subseteq FirstFree .. LastUnit - 1
    BY <2>1, <2>2 DEF Apart
  <2>4. \A q \in DOMAIN held : (w .. w + n - 1) \cap (q .. q + held[q] - 1) = {}
    BY <1>2, <2>1, <2>2 DEF Apart
  <2>5. Promise!Move(a, w, n)
    BY <1>2, <2>3, <2>4 DEF Promise!Move, Promise!Bytes, Instead
  <2> QED BY <2>3, <2>5 DEF Promise!Next
<1> QED BY <1>1, <1>2

(* Whatever is called, in whatever order, the heap is an allocator: what   *)
(* it hands out lies inside the arena, clear of every block that is out,   *)
(* of a realloc's old block too.                                           *)
THEOREM HeapImplementsAllocator == Spec => RefinesAllocator
<1>1. Init => Promise!Init
  BY DEF Init, Promise!Init
<1>2. ASSUME IInv, IInv', [Next]_vars PROVE [Promise!Next]_held
  <2>1. ASSUME NEW n \in Requests, Allocate(n) PROVE [Promise!Next]_held
    BY <1>2, <2>1, HeapGives
  <2>2. ASSUME NEW q \in DOMAIN held, Release(q) PROVE [Promise!Next]_held
    <3>1. Promise!Take(q)
      BY <2>2 DEF Release, Promise!Take
    <3> QED BY <3>1 DEF Promise!Next
  <2>3. ASSUME NEW q \in stale, ReleaseAgain(q) PROVE [Promise!Next]_held
    BY <2>3 DEF ReleaseAgain
  <2>4. ASSUME NEW q \in DOMAIN held, NEW n \in Requests, Reallocate(q, n)
        PROVE  [Promise!Next]_held
    BY <1>2, <2>4, HeapMoves
  <2>5. CASE UNCHANGED vars
    BY <2>5 DEF vars
  <2> QED BY <1>2, <2>1, <2>2, <2>3, <2>4, <2>5 DEF Next
<1>3. Spec => Promise!Spec
  BY <1>1, <1>2, HeapInvariant, PTL DEF Spec, Promise!Spec
<1> QED BY <1>3 DEF RefinesAllocator
=============================================================================
