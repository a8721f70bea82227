-------------------------- MODULE TrieTree_proofs --------------------------
(***************************************************************************)
(* Proofs about module TrieTree, for any names and values, if those that   *)
(* are removed are apart from the others (Apart): the trie stays           *)
(* compressed, a removed name can be added again, and callers see a        *)
(* dictionary.                                                             *)
(*                                                                         *)
(* The invariant, Sound: every branch leads to a longer name, and from a   *)
(* node there is a way to each node whose name goes on after its own       *)
(* (Shaped); values are for keys (Filled); no way ends at a blank node     *)
(* (Ended); and a blank node has two branches (Forked).  A search ends at  *)
(* the longest name that the key begins with.                              *)
(***************************************************************************)
EXTENDS TrieTree, FiniteSetTheorems, WellFoundedInduction, TLAPS

Names == Seq(Char)

-----------------------------------------------------------------------------
(* Sequences.                                                              *)

LEMMA NameIs ==
  ASSUME NEW s \in Names
  PROVE  Len(s) \in Nat /\ \A i \in 1 .. Len(s) : s[i] \in Char
BY DEF Names

LEMMA SameName ==
  ASSUME NEW s \in Names, NEW t \in Names, Len(s) = Len(t),
         \A i \in 1 .. Len(s) : s[i] = t[i]
  PROVE  s = t
BY DEF Names

LEMMA TakeIs ==
  ASSUME NEW s \in Names, NEW n \in 0 .. Len(s)
  PROVE  /\ Take(n, s) \in Names
         /\ Len(Take(n, s)) = n
         /\ \A i \in 1 .. n : Take(n, s)[i] = s[i]
BY DEF Names, Take

LEMMA DropIs ==
  ASSUME NEW s \in Names, NEW n \in 0 .. Len(s)
  PROVE  /\ Drop(n, s) \in Names
         /\ Len(Drop(n, s)) = Len(s) - n
         /\ \A i \in 1 .. Len(s) - n : Drop(n, s)[i] = s[n + i]
BY DEF Names, Drop

LEMMA JoinIs ==
  ASSUME NEW s \in Names, NEW t \in Names
  PROVE  /\ s \o t \in Names
         /\ Len(s \o t) = Len(s) + Len(t)
         /\ \A i \in 1 .. Len(s) : (s \o t)[i] = s[i]
         /\ \A i \in 1 .. Len(t) : (s \o t)[Len(s) + i] = t[i]
BY DEF Names

LEMMA RootIs == Root \in Names /\ Len(Root) = 0 /\ \A s \in Names : Prefix(Root, s) /\ (Len(s) = 0 => s = Root)
BY DEF Names, Root, Prefix

LEMMA PrefixOrder ==
  ASSUME NEW s \in Names, NEW t \in Names, NEW u \in Names
  PROVE  /\ Prefix(s, s)
         /\ Prefix(s, t) /\ Prefix(t, u) => Prefix(s, u)
         /\ Prefix(s, u) /\ Prefix(t, u) /\ Len(s) <= Len(t) => Prefix(s, t)
         /\ Prefix(s, t) /\ Len(s) = Len(t) => s = t
         /\ Prefix(s, t) /\ s # t => Len(s) < Len(t)
         /\ Prefix(s, t) => \A i \in 1 .. Len(s) : s[i] = t[i]
<1>1. Len(s) \in Nat /\ Len(t) \in Nat /\ Len(u) \in Nat
  BY NameIs
<1>2. Prefix(s, t) /\ Len(s) = Len(t) => s = t
  BY SameName DEF Prefix
<1> QED BY <1>1, <1>2 DEF Prefix

-----------------------------------------------------------------------------
(* Nodes and heaps, read through what the operations leave.                *)

Branches == UNION {[D -> Names] : D \in {E \in SUBSET Char : IsFiniteSet(E)}}

HeapNode ==
  [key : Names, value : Values \cup {Default, Blank}, branches : Branches]

IsHeap(h) ==
  /\ DOMAIN h \subseteq Names
  /\ h = [n \in DOMAIN h |-> h[n]]
  /\ \A n \in DOMAIN h : h[n] \in HeapNode

LEMMA BranchesAre ==
  ASSUME NEW b
  PROVE  b \in Branches <=> /\ DOMAIN b \subseteq Char
                            /\ IsFiniteSet(DOMAIN b)
                            /\ b = [c \in DOMAIN b |-> b[c]]
                            /\ \A c \in DOMAIN b : b[c] \in Names
<1>1. ASSUME b \in Branches
      PROVE  /\ DOMAIN b \subseteq Char
             /\ IsFiniteSet(DOMAIN b)
             /\ b = [c \in DOMAIN b |-> b[c]]
             /\ \A c \in DOMAIN b : b[c] \in Names
  <2>1. PICK D \in SUBSET Char : IsFiniteSet(D) /\ b \in [D -> Names]
    BY <1>1 DEF Branches
  <2> QED BY <2>1
<1>2. ASSUME DOMAIN b \subseteq Char, IsFiniteSet(DOMAIN b),
             b = [c \in DOMAIN b |-> b[c]], \A c \in DOMAIN b : b[c] \in Names
      PROVE  b \in Branches
  <2>1. b \in [DOMAIN b -> Names]
    BY <1>2
  <2> QED BY <1>2, <2>1 DEF Branches
<1> QED BY <1>1, <1>2

LEMMA NodeIs ==
  ASSUME NEW x \in HeapNode
  PROVE  /\ x = [key |-> x.key, value |-> x.value, branches |-> x.branches]
         /\ x.key \in Names
         /\ x.value \in Values \cup {Default, Blank}
         /\ x.branches \in Branches
BY DEF HeapNode

LEMMA NewNode ==
  ASSUME NEW k \in Names, NEW v \in Values \cup {Default, Blank}
  PROVE  /\ Node(k, v) \in HeapNode
         /\ Node(k, v).key = k
         /\ Node(k, v).value = v
         /\ DOMAIN Node(k, v).branches = {}
<1> DEFINE b == [c \in {} |-> Root]
<1>1. DOMAIN b = {} /\ b = [c \in DOMAIN b |-> b[c]]
  OBVIOUS
<1>2. Node(k, v) = [key |-> k, value |-> v, branches |-> b]
  BY DEF Node
<1> HIDE DEF b
<1>3. b \in Branches
  BY <1>1, BranchesAre, FS_EmptySet
<1> QED BY <1>1, <1>2, <1>3 DEF HeapNode

LEMMA HeapIs ==
  ASSUME NEW h, IsHeap(h), NEW n \in DOMAIN h
  PROVE  /\ n \in Names
         /\ h[n] \in HeapNode
         /\ h[n].key \in Names
         /\ h[n].value \in Values \cup {Default, Blank}
         /\ h[n].branches \in Branches
         /\ DOMAIN h[n].branches \subseteq Char
         /\ IsFiniteSet(DOMAIN h[n].branches)
         /\ \A c \in DOMAIN h[n].branches : h[n].branches[c] \in Names
BY NodeIs, BranchesAre DEF IsHeap

\* One node of a heap is changed.
LEMMA Changed ==
  ASSUME NEW h, IsHeap(h), NEW r \in DOMAIN h, NEW x \in HeapNode
  PROVE  LET g == [h EXCEPT ![r] = x]
         IN  /\ IsHeap(g)
             /\ DOMAIN g = DOMAIN h
             /\ g[r] = x
             /\ \A n \in DOMAIN h \ {r} : g[n] = h[n]
BY DEF IsHeap

LEMMA WithIs ==
  ASSUME NEW h, IsHeap(h), NEW r \in Names, NEW x \in HeapNode
  PROVE  LET g == With(h, r, x)
         IN  /\ IsHeap(g)
             /\ DOMAIN g = DOMAIN h \cup {r}
             /\ \A n \in DOMAIN h \ {r} : g[n] = h[n]
<1> DEFINE g == With(h, r, x)
<1>1. /\ DOMAIN g = DOMAIN h \cup {r}
      /\ g = [n \in DOMAIN g |-> g[n]]
      /\ \A n \in DOMAIN g : g[n] = IF n = r THEN x ELSE h[n]
  BY DEF With
<1> QED BY <1>1 DEF IsHeap

LEMMA WithoutIs ==
  ASSUME NEW h, IsHeap(h), NEW r
  PROVE  LET g == Without(h, r)
         IN  /\ IsHeap(g)
             /\ DOMAIN g = DOMAIN h \ {r}
             /\ \A n \in DOMAIN g : g[n] = h[n]
<1> DEFINE g == Without(h, r)
<1>1. /\ DOMAIN g = DOMAIN h \ {r}
      /\ g = [n \in DOMAIN g |-> g[n]]
      /\ \A n \in DOMAIN g : g[n] = h[n]
  BY DEF Without
<1> QED BY <1>1 DEF IsHeap

LEMMA LinkedIs ==
  ASSUME NEW h, IsHeap(h), NEW r \in DOMAIN h, NEW m \in DOMAIN h,
         NEW c, h[m].key[1] = c, Len(h[m].key) > 0
  PROVE  LET g == Linked(h, r, m)
         IN  /\ IsHeap(g)
             /\ DOMAIN g = DOMAIN h
             /\ \A n \in DOMAIN h \ {r} : g[n] = h[n]
             /\ g[r].key = h[r].key
             /\ g[r].value = h[r].value
             /\ DOMAIN g[r].branches = DOMAIN h[r].branches \cup {c}
             /\ g[r].branches[c] = m
             /\ \A d \in DOMAIN h[r].branches \ {c} :
                  g[r].branches[d] = h[r].branches[d]
<1> DEFINE g == Linked(h, r, m)
<1> DEFINE old == h[r].branches
           b == [d \in DOMAIN old \cup {c} |-> IF d = c THEN m ELSE old[d]]
           x == [h[r] EXCEPT !.branches = b]
<1>1. /\ old \in Branches /\ DOMAIN old \subseteq Char /\ IsFiniteSet(DOMAIN old)
      /\ \A d \in DOMAIN old : old[d] \in Names
      /\ m \in Names /\ h[r] \in HeapNode
  BY HeapIs
<1>2. c \in Char
  BY HeapIs, NameIs
<1>3. /\ DOMAIN b = DOMAIN old \cup {c} /\ b = [d \in DOMAIN b |-> b[d]]
      /\ b[c] = m /\ \A d \in DOMAIN old \ {c} : b[d] = old[d]
  OBVIOUS
<1>4. g = [h EXCEPT ![r] = x]
  BY DEF Linked, IsHeap
<1>5. IsFiniteSet(DOMAIN old \cup {c})
  BY <1>1, FS_AddElement
<1> HIDE DEF b
<1>6. b \in Branches
  <2>1. \A d \in DOMAIN b : b[d] \in Names
    BY <1>1, <1>3
  <2> HIDE DEF old
  <2> QED BY <1>1, <1>2, <1>3, <1>5, <2>1, BranchesAre
<1>7. x \in HeapNode /\ x.branches = b /\ x.key = h[r].key /\ x.value = h[r].value
  BY <1>1, <1>6 DEF HeapNode
<1> HIDE DEF x
<1>8. IsHeap(g) /\ DOMAIN g = DOMAIN h /\ g[r] = x /\ \A n \in DOMAIN h \ {r} : g[n] = h[n]
  BY <1>4, <1>7 DEF IsHeap
<1> QED BY <1>3, <1>7, <1>8

LEMMA UnlinkedIs ==
  ASSUME NEW h, IsHeap(h), NEW r \in DOMAIN h, NEW c
  PROVE  LET g == Unlinked(h, r, c)
         IN  /\ IsHeap(g)
             /\ DOMAIN g = DOMAIN h
             /\ \A n \in DOMAIN h \ {r} : g[n] = h[n]
             /\ g[r].key = h[r].key
             /\ g[r].value = h[r].value
             /\ DOMAIN g[r].branches = DOMAIN h[r].branches \ {c}
             /\ \A d \in DOMAIN h[r].branches \ {c} :
                  g[r].branches[d] = h[r].branches[d]
<1> DEFINE g == Unlinked(h, r, c)
<1> DEFINE old == h[r].branches
           b == [d \in DOMAIN old \ {c} |-> old[d]]
           x == [h[r] EXCEPT !.branches = b]
<1>1. /\ old \in Branches /\ DOMAIN old \subseteq Char /\ IsFiniteSet(DOMAIN old)
      /\ \A d \in DOMAIN old : old[d] \in Names
      /\ h[r] \in HeapNode
  BY HeapIs
<1>3. /\ DOMAIN b = DOMAIN old \ {c} /\ b = [d \in DOMAIN b |-> b[d]]
      /\ \A d \in DOMAIN old \ {c} : b[d] = old[d]
  OBVIOUS
<1>4. g = [h EXCEPT ![r] = x]
  BY DEF Unlinked, IsHeap
<1>5. IsFiniteSet(DOMAIN old \ {c})
  BY <1>1, FS_RemoveElement
<1> HIDE DEF b
<1>6. b \in Branches
  <2>1. \A d \in DOMAIN b : b[d] \in Names
    BY <1>1, <1>3
  <2> HIDE DEF old
  <2> QED BY <1>1, <1>3, <1>5, <2>1, BranchesAre
<1>7. x \in HeapNode /\ x.branches = b /\ x.key = h[r].key /\ x.value = h[r].value
  BY <1>1, <1>6 DEF HeapNode
<1> HIDE DEF x
<1>8. IsHeap(g) /\ DOMAIN g = DOMAIN h /\ g[r] = x /\ \A n \in DOMAIN h \ {r} : g[n] = h[n]
  BY <1>4, <1>7 DEF IsHeap
<1> QED BY <1>3, <1>7, <1>8

LEMMA ShortenedIs ==
  ASSUME NEW h, IsHeap(h), NEW r \in DOMAIN h, NEW i \in 0 .. Len(h[r].key)
  PROVE  LET g == [h EXCEPT ![r] = Shortened(@, i)]
         IN  /\ IsHeap(g)
             /\ DOMAIN g = DOMAIN h
             /\ \A n \in DOMAIN h \ {r} : g[n] = h[n]
             /\ g[r].key = Drop(i, h[r].key)
             /\ g[r].value = h[r].value
             /\ g[r].branches = h[r].branches
<1> DEFINE g == [h EXCEPT ![r] = Shortened(@, i)]
<1> DEFINE x == [h[r] EXCEPT !.key = Drop(i, h[r].key)]
<1>1. h[r] \in HeapNode /\ Drop(i, h[r].key) \in Names
  BY HeapIs, DropIs
<1>2. g = [h EXCEPT ![r] = x]
  BY DEF Shortened, IsHeap
<1>3. /\ x \in HeapNode /\ x.key = Drop(i, h[r].key)
      /\ x.value = h[r].value /\ x.branches = h[r].branches
  BY <1>1 DEF HeapNode
<1> HIDE DEF x
<1> QED BY <1>2, <1>3, Changed

LEMMA ValueIs ==
  ASSUME NEW h, IsHeap(h), NEW r \in DOMAIN h, NEW v \in Values
  PROVE  LET g == [h EXCEPT ![r].value = v]
         IN  /\ IsHeap(g)
             /\ DOMAIN g = DOMAIN h
             /\ \A n \in DOMAIN h \ {r} : g[n] = h[n]
             /\ g[r].key = h[r].key
             /\ g[r].value = v
             /\ g[r].branches = h[r].branches
<1> DEFINE g == [h EXCEPT ![r].value = v]
<1> DEFINE x == [h[r] EXCEPT !.value = v]
<1>1. h[r] \in HeapNode
  BY HeapIs
<1>2. g = [h EXCEPT ![r] = x]
  BY DEF IsHeap
<1>3. x \in HeapNode /\ x.key = h[r].key /\ x.value = v /\ x.branches = h[r].branches
  BY <1>1 DEF HeapNode
<1> HIDE DEF x
<1> QED BY <1>2, <1>3 DEF IsHeap

-----------------------------------------------------------------------------
(* What Leaf, Above and Renamed leave.                                     *)

LeafAdded(h, r, key, v, g) ==
  LET c == key[Len(r) + 1]
  IN  /\ IsHeap(g)
      /\ DOMAIN g = DOMAIN h \cup {key}
      /\ \A n \in DOMAIN h \ {r} : g[n] = h[n]
      /\ g[key].key = Drop(Len(r), key)
      /\ g[key].value = v
      /\ DOMAIN g[key].branches = {}
      /\ g[r].key = h[r].key
      /\ g[r].value = h[r].value
      /\ DOMAIN g[r].branches = DOMAIN h[r].branches \cup {c}
      /\ g[r].branches[c] = key
      /\ \A d \in DOMAIN h[r].branches \ {c} :
           g[r].branches[d] = h[r].branches[d]

LEMMA LeafIs ==
  ASSUME NEW h, IsHeap(h), NEW r \in DOMAIN h, NEW key \in Names, key \notin DOMAIN h,
         Len(r) < Len(key), NEW v \in Values
  PROVE  LeafAdded(h, r, key, v, Leaf(h, r, key, v))
<1> DEFINE g == Leaf(h, r, key, v)
           c == key[Len(r) + 1]
<1> DEFINE part == Drop(Len(r), key)
           leaf == Node(part, v)
           f == With(h, key, leaf)
<1>1. r \in Names /\ Len(r) \in Nat /\ Len(key) \in Nat /\ r # key
  BY HeapIs, NameIs
<1>2. part \in Names /\ Len(part) = Len(key) - Len(r) /\ part[1] = c
  <2>1. Len(r) \in 0 .. Len(key) /\ 1 \in 1 .. Len(key) - Len(r)
    BY <1>1
  <2> QED BY <2>1, DropIs
<1> HIDE DEF part
<1>3. /\ leaf \in HeapNode /\ leaf.key = part /\ leaf.value = v
      /\ DOMAIN leaf.branches = {}
  BY <1>2, NewNode
<1> HIDE DEF leaf
<1>4. /\ IsHeap(f) /\ DOMAIN f = DOMAIN h \cup {key} /\ f[key] = leaf
      /\ \A n \in DOMAIN h : f[n] = h[n]
  <2>1. /\ IsHeap(f) /\ DOMAIN f = DOMAIN h \cup {key}
        /\ \A n \in DOMAIN h \ {key} : f[n] = h[n]
    BY <1>3, WithIs
  <2>2. f[key] = leaf
    BY DEF With
  <2> QED BY <2>1, <2>2
<1>5. g = Linked(f, r, key)
  BY DEF Leaf, part, leaf
<1> HIDE DEF f
<1>6. r \in DOMAIN f /\ key \in DOMAIN f /\ f[key].key[1] = c /\ Len(f[key].key) > 0
  BY <1>1, <1>2, <1>3, <1>4
<1>7. /\ IsHeap(g)
      /\ DOMAIN g = DOMAIN f
      /\ \A n \in DOMAIN f \ {r} : g[n] = f[n]
      /\ g[r].key = f[r].key
      /\ g[r].value = f[r].value
      /\ DOMAIN g[r].branches = DOMAIN f[r].branches \cup {c}
      /\ g[r].branches[c] = key
      /\ \A d \in DOMAIN f[r].branches \ {c} : g[r].branches[d] = f[r].branches[d]
  BY <1>4, <1>5, <1>6, LinkedIs
<1>8. g[key] = leaf /\ f[r] = h[r]
  BY <1>1, <1>4, <1>7
<1> QED BY <1>3, <1>4, <1>7, <1>8 DEF LeafAdded, part

NodeAdded(h, r, cand, i, v, g) ==
  LET new == Take(Len(r) + i, cand)
      c == cand[Len(r) + 1]
      d == h[cand].key[i + 1]
  IN  /\ IsHeap(g)
      /\ DOMAIN g = DOMAIN h \cup {new}
      /\ \A n \in DOMAIN h \ {r, cand} : g[n] = h[n]
      /\ g[new].key = Drop(Len(r), new)
      /\ g[new].value = v
      /\ DOMAIN g[new].branches = {d}
      /\ g[new].branches[d] = cand
      /\ g[cand].key = Drop(i, h[cand].key)
      /\ g[cand].value = h[cand].value
      /\ g[cand].branches = h[cand].branches
      /\ g[r].key = h[r].key
      /\ g[r].value = h[r].value
      /\ DOMAIN g[r].branches = DOMAIN h[r].branches \cup {c}
      /\ g[r].branches[c] = new
      /\ \A e \in DOMAIN h[r].branches \ {c} :
           g[r].branches[e] = h[r].branches[e]

LEMMA AboveIs ==
  ASSUME NEW h, IsHeap(h), NEW r \in DOMAIN h, NEW cand \in DOMAIN h, r # cand,
         NEW i \in Nat, 0 < i, i < Len(h[cand].key), Len(r) + i < Len(cand),
         NEW v \in Values \cup {Blank}, Take(Len(r) + i, cand) \notin DOMAIN h
  PROVE  NodeAdded(h, r, cand, i, v, Above(h, r, cand, i, v))
<1> DEFINE g == Above(h, r, cand, i, v)
           new == Take(Len(r) + i, cand)
           c == cand[Len(r) + 1]
           d == h[cand].key[i + 1]
<1> DEFINE part == Drop(Len(r), new)
           mid == Node(part, v)
           short == [h EXCEPT ![cand] = Shortened(@, i)]
           made == With(short, new, mid)
           both == Linked(made, new, cand)
<1>1. /\ r \in Names /\ Len(r) \in Nat /\ cand \in Names /\ Len(cand) \in Nat
      /\ h[cand].key \in Names /\ Len(h[cand].key) \in Nat
  BY HeapIs, NameIs
<1>2. new \in Names /\ Len(new) = Len(r) + i /\ new[Len(r) + 1] = c
  <2>1. Len(r) + i \in 0 .. Len(cand) /\ Len(r) + 1 \in 1 .. Len(r) + i
    BY <1>1
  <2> QED BY <1>1, <2>1, TakeIs
<1>3. part \in Names /\ Len(part) = i /\ part[1] = c
  <2>1. Len(r) \in 0 .. Len(new) /\ 1 \in 1 .. Len(new) - Len(r) /\ Len(new) - Len(r) = i
    BY <1>1, <1>2
  <2> QED BY <1>2, <2>1, DropIs
<1>4. /\ Drop(i, h[cand].key) \in Names
      /\ Len(Drop(i, h[cand].key)) > 0
      /\ Drop(i, h[cand].key)[1] = d
  <2>1. i \in 0 .. Len(h[cand].key) /\ 1 \in 1 .. Len(h[cand].key) - i
    BY <1>1
  <2>2. /\ Drop(i, h[cand].key) \in Names
        /\ Len(Drop(i, h[cand].key)) = Len(h[cand].key) - i
        /\ Drop(i, h[cand].key)[1] = h[cand].key[i + 1]
    BY <1>1, <2>1, DropIs
  <2> QED BY <1>1, <2>2
<1> HIDE DEF part
<1>5. /\ mid \in HeapNode /\ mid.key = part /\ mid.value = v
      /\ DOMAIN mid.branches = {}
  BY <1>3, NewNode
<1> HIDE DEF mid
<1>6. /\ IsHeap(short) /\ DOMAIN short = DOMAIN h
      /\ \A n \in DOMAIN h \ {cand} : short[n] = h[n]
      /\ short[cand].key = Drop(i, h[cand].key)
      /\ short[cand].value = h[cand].value
      /\ short[cand].branches = h[cand].branches
  <2>1. i \in 0 .. Len(h[cand].key)
    BY <1>1
  <2> QED BY <2>1, ShortenedIs
<1>7. /\ IsHeap(made) /\ DOMAIN made = DOMAIN h \cup {new} /\ made[new] = mid
      /\ \A n \in DOMAIN h : made[n] = short[n]
  <2> HIDE DEF short
  <2>1. /\ IsHeap(made) /\ DOMAIN made = DOMAIN short \cup {new}
        /\ \A n \in DOMAIN short \ {new} : made[n] = short[n]
    <3>1. new \in Names /\ mid \in HeapNode /\ IsHeap(short)
      BY <1>2, <1>5, <1>6
    <3> QED BY ONLY <3>1, WithIs
  <2>2. made[new] = mid
    BY DEF With
  <2> HIDE DEF made
  <2> QED BY <1>6, <2>1, <2>2
<1>8. g = Linked(both, r, new)
  BY DEF Above, part, mid
<1> HIDE DEF short, made
<1>9. made[cand].key[1] = d /\ Len(made[cand].key) > 0
  BY <1>4, <1>6, <1>7
<1>10. /\ IsHeap(both)
       /\ DOMAIN both = DOMAIN made
       /\ \A n \in DOMAIN made \ {new} : both[n] = made[n]
       /\ both[new].key = made[new].key
       /\ both[new].value = made[new].value
       /\ DOMAIN both[new].branches = DOMAIN made[new].branches \cup {d}
       /\ both[new].branches[d] = cand
  <2>1. /\ IsHeap(made) /\ new \in DOMAIN made /\ cand \in DOMAIN made
        /\ made[cand].key[1] = d /\ Len(made[cand].key) > 0
    BY <1>7, <1>9
  <2> QED BY ONLY <2>1, LinkedIs DEF both
<1> HIDE DEF both
<1>11. both[new].key[1] = c /\ Len(both[new].key) > 0
  BY <1>3, <1>5, <1>7, <1>10
<1>12. /\ IsHeap(g)
       /\ DOMAIN g = DOMAIN both
       /\ \A n \in DOMAIN both \ {r} : g[n] = both[n]
       /\ g[r].key = both[r].key
       /\ g[r].value = both[r].value
       /\ DOMAIN g[r].branches = DOMAIN both[r].branches \cup {c}
       /\ g[r].branches[c] = new
       /\ \A e \in DOMAIN both[r].branches \ {c} : g[r].branches[e] = both[r].branches[e]
  <2>1. /\ IsHeap(both) /\ r \in DOMAIN both /\ new \in DOMAIN both
        /\ both[new].key[1] = c /\ Len(both[new].key) > 0
    BY <1>7, <1>10, <1>11
  <2> QED BY ONLY <1>8, <2>1, LinkedIs
<1>13. both[r] = h[r] /\ both[cand] = short[cand] /\ new # r /\ new # cand
  BY <1>6, <1>7, <1>10
<1>14. g[cand] = short[cand] /\ g[new] = both[new]
  BY <1>7, <1>10, <1>12, <1>13
<1>15. \A n \in DOMAIN h \ {r, cand} : g[n] = h[n]
  BY <1>6, <1>7, <1>10, <1>12
<1>16. DOMAIN g = DOMAIN h \cup {new}
  BY <1>7, <1>10, <1>12
<1> QED BY <1>5, <1>6, <1>7, <1>10, <1>12, <1>13, <1>14, <1>15, <1>16 DEF NodeAdded, part

NodeRenamed(h, r, s, x, g) ==
  /\ IsHeap(g)
  /\ DOMAIN g = DOMAIN h \ {r}
  /\ g[s] = x
  /\ \A n \in DOMAIN h \ {r, s} :
       /\ g[n].key = h[n].key
       /\ g[n].value = h[n].value
       /\ DOMAIN g[n].branches = DOMAIN h[n].branches
       /\ \A c \in DOMAIN h[n].branches :
            g[n].branches[c] = IF h[n].branches[c] = r THEN s
                               ELSE h[n].branches[c]

LEMMA RenamedIs ==
  ASSUME NEW h, IsHeap(h), NEW r, NEW s \in DOMAIN h, r # s, NEW x \in HeapNode
  PROVE  NodeRenamed(h, r, s, x, Renamed(h, r, s, x))
<1> DEFINE g == Renamed(h, r, s, x)
<1> DEFINE b(n) == [c \in DOMAIN h[n].branches |->
                      IF h[n].branches[c] = r THEN s ELSE h[n].branches[c]]
           y(n) == [h[n] EXCEPT !.branches = b(n)]
<1>1. \A n \in DOMAIN h : b(n) \in Branches
  <2> SUFFICES ASSUME NEW n \in DOMAIN h PROVE b(n) \in Branches
    OBVIOUS
  <2>1. /\ DOMAIN h[n].branches \subseteq Char /\ IsFiniteSet(DOMAIN h[n].branches)
        /\ \A c \in DOMAIN h[n].branches : h[n].branches[c] \in Names
        /\ s \in Names
    BY HeapIs
  <2> DEFINE f == b(n)
  <2>2. /\ DOMAIN f = DOMAIN h[n].branches /\ f = [c \in DOMAIN f |-> f[c]]
        /\ \A c \in DOMAIN f : f[c] \in Names
    BY <2>1
  <2> HIDE DEF f
  <2>3. f \in Branches
    BY <2>1, <2>2, BranchesAre
  <2> QED BY <2>3 DEF f
<1>2. \A n \in DOMAIN h :
        /\ DOMAIN b(n) = DOMAIN h[n].branches
        /\ \A c \in DOMAIN h[n].branches :
             b(n)[c] = IF h[n].branches[c] = r THEN s ELSE h[n].branches[c]
  OBVIOUS
<1> HIDE DEF b
<1>3. \A n \in DOMAIN h : /\ y(n) \in HeapNode
                          /\ y(n).key = h[n].key
                          /\ y(n).value = h[n].value
                          /\ y(n).branches = b(n)
  <2> SUFFICES ASSUME NEW n \in DOMAIN h
               PROVE  /\ y(n) \in HeapNode
                      /\ y(n).key = h[n].key
                      /\ y(n).value = h[n].value
                      /\ y(n).branches = b(n)
    OBVIOUS
  <2>1. h[n] \in HeapNode
    BY HeapIs
  <2> QED BY <1>1, <2>1 DEF HeapNode
<1>4. /\ DOMAIN g = (DOMAIN h \ {r}) \cup {s}
      /\ g = [n \in DOMAIN g |-> g[n]]
      /\ \A n \in DOMAIN g : g[n] = IF n = s THEN x ELSE y(n)
  BY DEF Renamed, b
<1> HIDE DEF y
<1>5. DOMAIN g = DOMAIN h \ {r}
  BY <1>4
<1>6. IsHeap(g)
  BY <1>3, <1>4, <1>5 DEF IsHeap
<1> QED BY <1>2, <1>3, <1>4, <1>5, <1>6 DEF NodeRenamed

-----------------------------------------------------------------------------
(* The shape of a trie.                                                    *)

IsChild(h, n, c, b) ==
  /\ b \in DOMAIN h
  /\ Prefix(n, b) /\ Len(n) < Len(b) /\ b[Len(n) + 1] = c
  /\ h[b].key = Drop(Len(n), b)

\* From a node to one whose name is longer there is a way, by the branches.
Routed(h) ==
  \A n, m \in DOMAIN h :
    Prefix(n, m) /\ n # m =>
      /\ m[Len(n) + 1] \in DOMAIN h[n].branches
      /\ Prefix(h[n].branches[m[Len(n) + 1]], m)

Shaped(h) ==
  /\ IsHeap(h)
  /\ Root \in DOMAIN h /\ h[Root].key = Root
  /\ \A n \in DOMAIN h : \A c \in DOMAIN h[n].branches :
       IsChild(h, n, c, h[n].branches[c])
  /\ Routed(h)

LEMMA ChildIs ==
  ASSUME NEW h, Shaped(h), NEW n \in DOMAIN h, NEW c \in DOMAIN h[n].branches,
         NEW b, b = h[n].branches[c]
  PROVE  /\ n \in Names /\ Len(n) \in Nat
         /\ b \in DOMAIN h /\ b \in Names /\ Len(b) \in Nat
         /\ Prefix(n, b) /\ Len(n) < Len(b) /\ n # b
         /\ b[Len(n) + 1] = c
         /\ h[b].key = Drop(Len(n), b)
         /\ Len(h[b].key) = Len(b) - Len(n)
         /\ \A i \in 1 .. Len(b) - Len(n) : h[b].key[i] = b[Len(n) + i]
<1>1. /\ b \in DOMAIN h /\ Prefix(n, b) /\ Len(n) < Len(b) /\ b[Len(n) + 1] = c
      /\ h[b].key = Drop(Len(n), b) /\ IsHeap(h)
  BY DEF Shaped, IsChild
<1>2. n \in Names /\ b \in Names
  BY <1>1, HeapIs
<1>3. Len(n) \in Nat /\ Len(b) \in Nat
  BY <1>2, NameIs
<1>4. Len(n) \in 0 .. Len(b)
  BY <1>1, <1>3
<1>5. /\ Len(Drop(Len(n), b)) = Len(b) - Len(n)
      /\ \A i \in 1 .. Len(b) - Len(n) : Drop(Len(n), b)[i] = b[Len(n) + i]
  BY ONLY <1>2, <1>4, DropIs
<1>6. n # b
  BY <1>1, <1>3
<1> QED BY <1>1, <1>2, <1>3, <1>5, <1>6

LEMMA RouteIs ==
  ASSUME NEW h, Shaped(h), NEW n \in DOMAIN h, NEW m \in DOMAIN h,
         Prefix(n, m), n # m,
         NEW c, c = m[Len(n) + 1], NEW b, b = h[n].branches[c]
  PROVE  /\ c \in DOMAIN h[n].branches
         /\ Prefix(b, m)
         /\ b \in DOMAIN h
         /\ Len(n) < Len(b) /\ Len(b) <= Len(m)
<1>1. c \in DOMAIN h[n].branches /\ Prefix(b, m)
  BY DEF Shaped, Routed
<1> QED BY <1>1, ChildIs DEF Prefix

\* There is no node between a node and its child.
LEMMA NoneBetween ==
  ASSUME NEW h, Shaped(h), NEW n \in DOMAIN h, NEW c \in DOMAIN h[n].branches,
         NEW m \in DOMAIN h, Prefix(n, m), n # m, Prefix(m, h[n].branches[c])
  PROVE  m = h[n].branches[c]
<1> DEFINE b == h[n].branches[c]
<1>1. /\ n \in Names /\ b \in Names /\ m \in Names
      /\ b[Len(n) + 1] = c /\ Len(n) \in Nat
      /\ Len(m) \in Nat /\ Len(b) \in Nat
  BY ChildIs, HeapIs, NameIs DEF Shaped
<1> HIDE DEF b
<1>2. Prefix(m, b)
  BY DEF b
<1>3. Len(n) < Len(m)
  BY <1>1, PrefixOrder
<1>4. m[Len(n) + 1] = c
  <2>1. Len(n) + 1 \in 1 .. Len(m)
    BY <1>1, <1>3
  <2> QED BY <1>1, <1>2, <2>1 DEF Prefix
<1>5. Prefix(b, m)
  BY <1>4, RouteIs DEF b
<1>6. Len(b) = Len(m)
  BY <1>1, <1>2, <1>5 DEF Prefix
<1>7. m = b
  BY <1>1, <1>2, <1>6, PrefixOrder
<1> QED BY <1>7 DEF b

LEMMA OneParent ==
  ASSUME NEW h, Shaped(h),
         NEW n \in DOMAIN h, NEW c \in DOMAIN h[n].branches,
         NEW m \in DOMAIN h, NEW d \in DOMAIN h[m].branches,
         h[n].branches[c] = h[m].branches[d]
  PROVE  n = m /\ c = d
<1> DEFINE b == h[n].branches[c]
<1>1. /\ n \in Names /\ m \in Names /\ b \in Names
      /\ Prefix(n, b) /\ Len(n) < Len(b) /\ b[Len(n) + 1] = c
      /\ Prefix(m, b) /\ Len(m) < Len(b) /\ b[Len(m) + 1] = d
      /\ Len(n) \in Nat /\ Len(m) \in Nat
  BY ChildIs
<1>2. ASSUME Len(n) <= Len(m), n # m PROVE FALSE
  <2>1. Prefix(n, m)
    BY <1>1, <1>2, PrefixOrder
  <2>2. m = b
    BY <1>1, <1>2, <2>1, NoneBetween
  <2> QED BY <1>1, <2>2
<1>3. ASSUME Len(m) <= Len(n), n # m PROVE FALSE
  <2>1. Prefix(m, n)
    BY <1>1, <1>3, PrefixOrder
  <2>2. Prefix(n, h[m].branches[d])
    BY <1>1
  <2>3. n = h[m].branches[d]
    BY <1>3, <2>1, <2>2, NoneBetween
  <2> QED BY <1>1, <2>3
<1>4. n = m
  BY <1>1, <1>2, <1>3
<1> QED BY <1>1, <1>4

\* Where a key leaves the trie: no node goes further along it.
LEMMA LeavesAt ==
  ASSUME NEW h, Shaped(h), NEW r \in DOMAIN h, NEW key \in Names,
         Prefix(r, key), Len(r) < Len(key),
         key[Len(r) + 1] \notin DOMAIN h[r].branches
  PROVE  \A n \in DOMAIN h : Prefix(n, key) => Prefix(n, r)
<1> SUFFICES ASSUME NEW n \in DOMAIN h, Prefix(n, key) PROVE Prefix(n, r)
  OBVIOUS
<1>1. n \in Names /\ r \in Names /\ Len(n) \in Nat /\ Len(r) \in Nat
  BY HeapIs, NameIs DEF Shaped
<1>2. CASE Len(n) <= Len(r)
  BY <1>1, <1>2, PrefixOrder
<1>3. CASE Len(r) < Len(n)
  <2>1. Prefix(r, n) /\ r # n
    BY <1>1, <1>3, PrefixOrder
  <2>2. n[Len(r) + 1] = key[Len(r) + 1]
    BY <1>1, <1>3 DEF Prefix
  <2> QED BY <2>1, <2>2, RouteIs
<1> QED BY <1>1, <1>2, <1>3

LEMMA LeafShaped ==
  ASSUME NEW h, Shaped(h), NEW r \in DOMAIN h, NEW key \in Names, NEW v \in Values,
         Prefix(r, key), Len(r) < Len(key),
         key[Len(r) + 1] \notin DOMAIN h[r].branches
  PROVE  Shaped(Leaf(h, r, key, v)) /\ key \notin DOMAIN h
<1> DEFINE c == key[Len(r) + 1]
           g == Leaf(h, r, key, v)
<1>1. /\ IsHeap(h) /\ r \in Names /\ Len(r) \in Nat /\ Len(key) \in Nat /\ r # key
      /\ \A n \in DOMAIN h : n \in Names /\ Len(n) \in Nat
  BY HeapIs, NameIs DEF Shaped
<1>2. \A n \in DOMAIN h : Prefix(n, key) => Prefix(n, r)
  BY LeavesAt
<1>3. key \notin DOMAIN h
  <2>1. Prefix(key, key)
    BY PrefixOrder
  <2> QED BY <1>1, <1>2, <2>1 DEF Prefix
<1>4. /\ IsHeap(g)
      /\ DOMAIN g = DOMAIN h \cup {key}
      /\ \A n \in DOMAIN h \ {r} : g[n] = h[n]
      /\ g[key].key = Drop(Len(r), key)
      /\ DOMAIN g[key].branches = {}
      /\ g[r].key = h[r].key
      /\ DOMAIN g[r].branches = DOMAIN h[r].branches \cup {c}
      /\ g[r].branches[c] = key
      /\ \A d \in DOMAIN h[r].branches \ {c} : g[r].branches[d] = h[r].branches[d]
  <2>1. /\ IsHeap(h) /\ r \in DOMAIN h /\ key \in Names /\ key \notin DOMAIN h
        /\ Len(r) < Len(key) /\ v \in Values
    BY <1>1, <1>3
  <2>2. LeafAdded(h, r, key, v, g)
    BY ONLY <2>1, LeafIs
  <2> QED BY <2>2 DEF LeafAdded
<1> HIDE DEF g
<1>5. /\ \A n \in DOMAIN h : g[n].key = h[n].key
      /\ \A n \in DOMAIN h : \A d \in DOMAIN h[n].branches :
           d \in DOMAIN g[n].branches /\ g[n].branches[d] = h[n].branches[d]
      /\ \A n \in DOMAIN h : \A d \in DOMAIN g[n].branches :
           d \in DOMAIN h[n].branches \/ (n = r /\ d = c)
  <2> HIDE DEF c
  <2>1. c \notin DOMAIN h[r].branches
    BY DEF c
  <2> QED BY <1>4, <2>1
<1>6. Root \in DOMAIN g /\ g[Root].key = Root
  BY <1>4, <1>5 DEF Shaped
<1>7. ASSUME NEW n \in DOMAIN g, NEW d \in DOMAIN g[n].branches
      PROVE  IsChild(g, n, d, g[n].branches[d])
  <2>1. n \in DOMAIN h
    BY <1>4
  <2>2. CASE d \in DOMAIN h[n].branches
    <3>1. IsChild(h, n, d, h[n].branches[d])
      BY <2>1, <2>2 DEF Shaped
    <3> QED BY <1>4, <1>5, <2>1, <2>2, <3>1 DEF IsChild
  <2>3. CASE n = r /\ d = c
    BY <1>4, <2>3 DEF IsChild
  <2> QED BY <1>5, <2>1, <2>2, <2>3
<1>8. ASSUME NEW n \in DOMAIN g, NEW m \in DOMAIN g, Prefix(n, m), n # m
      PROVE  /\ m[Len(n) + 1] \in DOMAIN g[n].branches
             /\ Prefix(g[n].branches[m[Len(n) + 1]], m)
  <2>1. CASE n \in DOMAIN h /\ m \in DOMAIN h
    <3>1. /\ m[Len(n) + 1] \in DOMAIN h[n].branches
          /\ Prefix(h[n].branches[m[Len(n) + 1]], m)
      BY <1>8, <2>1, RouteIs
    <3> QED BY <1>5, <2>1, <3>1
  <2>2. CASE n = key /\ m \in DOMAIN h
    <3>1. m \in Names /\ Prefix(r, m) /\ r # m /\ m[Len(r) + 1] = c
      <4>1. m \in Names /\ Prefix(key, m)
        BY <1>1, <1>8, <2>2
      <4>2. Prefix(r, m) /\ Len(key) <= Len(m)
        BY <1>1, <4>1, PrefixOrder DEF Prefix
      <4> QED BY <1>1, <4>1, <4>2 DEF Prefix
    <3> QED BY <2>2, <3>1, RouteIs
  <2>3. CASE n \in DOMAIN h /\ m = key
    <3>1. Prefix(n, r) /\ n \in Names /\ Len(n) \in Nat
      BY <1>1, <1>2, <1>8, <2>3
    <3>2. CASE n = r
      <4>1. Prefix(key, key)
        BY PrefixOrder
      <4> QED BY <1>4, <2>3, <3>2, <4>1
    <3>3. CASE n # r
      <4>1. /\ r[Len(n) + 1] \in DOMAIN h[n].branches
            /\ Prefix(h[n].branches[r[Len(n) + 1]], r)
            /\ h[n].branches[r[Len(n) + 1]] \in Names
        BY <1>1, <2>3, <3>1, <3>3, RouteIs
      <4>2. r[Len(n) + 1] = key[Len(n) + 1]
        <5>1. Len(n) < Len(r)
          BY <1>1, <3>1, <3>3, PrefixOrder
        <5>2. Len(n) + 1 \in 1 .. Len(r)
          BY <1>1, <3>1, <5>1
        <5> QED BY <5>2 DEF Prefix
      <4>3. Prefix(h[n].branches[r[Len(n) + 1]], key)
        BY <1>1, <4>1, PrefixOrder
      <4> QED BY <1>5, <2>3, <4>1, <4>2, <4>3
    <3> QED BY <3>2, <3>3
  <2> QED BY <1>4, <1>8, <2>1, <2>2, <2>3
<1>9. Shaped(g)
  BY <1>4, <1>6, <1>7, <1>8 DEF Shaped, Routed
<1> QED BY <1>3, <1>9 DEF g

\* A node, new, between r and its child, cand, i characters below r.
Between(h, r, c, i, cand, new) ==
  /\ r \in DOMAIN h /\ c \in DOMAIN h[r].branches /\ cand = h[r].branches[c]
  /\ i \in Nat /\ 0 < i /\ i < Len(h[cand].key)
  /\ new = Take(Len(r) + i, cand)

Inserted(h, r, i, v, cand, new, g) ==
  /\ Shaped(g)
  /\ NodeAdded(h, r, cand, i, v, g)
  /\ new \notin DOMAIN h
  /\ new \in Names
  /\ Len(new) = Len(r) + i
  /\ Prefix(r, new)
  /\ Prefix(new, cand)
  /\ cand[Len(new) + 1] = h[cand].key[i + 1]

LEMMA AboveShaped ==
  ASSUME NEW h, Shaped(h), NEW r, NEW c, NEW i, NEW cand, NEW new,
         Between(h, r, c, i, cand, new), NEW v \in Values \cup {Blank}
  PROVE  Inserted(h, r, i, v, cand, new, Above(h, r, cand, i, v))
<1> DEFINE g == Above(h, r, cand, i, v)
           d == h[cand].key[i + 1]
<1>a. /\ r \in DOMAIN h /\ c \in DOMAIN h[r].branches /\ cand = h[r].branches[c]
      /\ i \in Nat /\ 0 < i /\ i < Len(h[cand].key)
      /\ new = Take(Len(r) + i, cand)
  BY DEF Between
<1> USE <1>a
<1>1. /\ IsHeap(h) /\ r \in Names /\ Len(r) \in Nat
      /\ cand \in DOMAIN h /\ cand \in Names /\ Len(cand) \in Nat
      /\ Prefix(r, cand) /\ Len(r) < Len(cand) /\ cand # r
      /\ cand[Len(r) + 1] = c
      /\ h[cand].key = Drop(Len(r), cand)
      /\ Len(h[cand].key) = Len(cand) - Len(r)
      /\ \A j \in 1 .. Len(cand) - Len(r) : h[cand].key[j] = cand[Len(r) + j]
  <2>1. IsHeap(h)
    BY DEF Shaped
  <2>2. /\ r \in Names /\ Len(r) \in Nat
        /\ cand \in DOMAIN h /\ cand \in Names /\ Len(cand) \in Nat
        /\ Prefix(r, cand) /\ Len(r) < Len(cand) /\ cand # r
        /\ cand[Len(r) + 1] = c
    BY ChildIs
  <2>3. Len(r) \in 0 .. Len(cand)
    BY <2>2
  <2>4. /\ Len(Drop(Len(r), cand)) = Len(cand) - Len(r)
        /\ \A j \in 1 .. Len(cand) - Len(r) : Drop(Len(r), cand)[j] = cand[Len(r) + j]
    BY ONLY <2>2, <2>3, DropIs
  <2>5. h[cand].key = Drop(Len(r), cand)
    BY DEF Shaped, IsChild
  <2> QED BY <2>1, <2>2, <2>4, <2>5
<1>2. \A n \in DOMAIN h : n \in Names /\ Len(n) \in Nat
  BY <1>1, HeapIs, NameIs
<1>3. /\ new \in Names /\ Len(new) = Len(r) + i
      /\ \A j \in 1 .. Len(r) + i : new[j] = cand[j]
  <2>1. Len(r) + i \in 0 .. Len(cand)
    BY <1>1
  <2> QED BY <1>1, <2>1, TakeIs
<1>4. Prefix(r, new) /\ Prefix(new, cand)
  BY <1>1, <1>3 DEF Prefix
<1>5. cand[Len(new) + 1] = d /\ new[Len(r) + 1] = c
  <2>1. i + 1 \in 1 .. Len(cand) - Len(r) /\ Len(r) + (i + 1) = Len(new) + 1
    <3>1. /\ Len(r) \in Nat /\ Len(cand) \in Nat /\ i \in Nat
          /\ i < Len(cand) - Len(r) /\ Len(new) = Len(r) + i
      BY <1>1, <1>3
    <3> QED BY ONLY <3>1
  <2>2. Len(r) + 1 \in 1 .. Len(r) + i
    BY <1>1
  <2> QED BY <1>1, <1>3, <2>1, <2>2
<1>6. new \notin DOMAIN h
  <2>1. ASSUME new \in DOMAIN h PROVE FALSE
    <3>1. new # r /\ new # cand
      BY <1>1, <1>3
    <3> QED BY <1>4, <2>1, <3>1, NoneBetween
  <2> QED BY <2>1
<1>7. NodeAdded(h, r, cand, i, v, g)
  <2>1. /\ IsHeap(h) /\ r \in DOMAIN h /\ cand \in DOMAIN h /\ r # cand /\ i \in Nat
        /\ 0 < i /\ i < Len(h[cand].key) /\ Len(r) + i < Len(cand)
        /\ v \in Values \cup {Blank} /\ Take(Len(r) + i, cand) \notin DOMAIN h
    BY <1>1, <1>6
  <2> QED BY ONLY <2>1, AboveIs
<1> HIDE DEF g
<1>8. /\ IsHeap(g)
      /\ DOMAIN g = DOMAIN h \cup {new}
      /\ \A n \in DOMAIN h \ {r, cand} : g[n] = h[n]
      /\ g[new].key = Drop(Len(r), new)
      /\ DOMAIN g[new].branches = {d}
      /\ g[new].branches[d] = cand
      /\ g[cand].key = Drop(i, h[cand].key)
      /\ g[cand].branches = h[cand].branches
      /\ g[r].key = h[r].key
      /\ DOMAIN g[r].branches = DOMAIN h[r].branches
      /\ g[r].branches[c] = new
      /\ \A e \in DOMAIN h[r].branches \ {c} : g[r].branches[e] = h[r].branches[e]
  <2>1. DOMAIN h[r].branches \cup {c} = DOMAIN h[r].branches
    OBVIOUS
  <2> QED BY <1>1, <1>7, <2>1 DEF NodeAdded
<1>9. /\ \A n \in DOMAIN h : DOMAIN g[n].branches = DOMAIN h[n].branches
      /\ \A n \in DOMAIN h \ {cand} : g[n].key = h[n].key
      /\ \A n \in DOMAIN h : \A e \in DOMAIN h[n].branches :
           n # r \/ e # c => g[n].branches[e] = h[n].branches[e]
  BY <1>8
<1>10. g[cand].key = Drop(Len(new), cand)
  <2> DEFINE s == Drop(i, h[cand].key)
             t == Drop(Len(new), cand)
  <2>1. /\ s \in Names /\ Len(s) = Len(h[cand].key) - i
        /\ \A j \in 1 .. Len(h[cand].key) - i : s[j] = h[cand].key[i + j]
    <3>1. i \in 0 .. Len(h[cand].key) /\ h[cand].key \in Names
      BY <1>1, HeapIs
    <3> QED BY ONLY <3>1, DropIs
  <2>2. /\ t \in Names /\ Len(t) = Len(cand) - Len(new)
        /\ \A j \in 1 .. Len(cand) - Len(new) : t[j] = cand[Len(new) + j]
    <3>1. Len(new) \in 0 .. Len(cand) /\ cand \in Names
      BY <1>1, <1>3
    <3> QED BY ONLY <3>1, DropIs
  <2> HIDE DEF s, t
  <2>3. Len(s) = Len(t)
    BY <1>1, <1>3, <2>1, <2>2
  <2>4. \A j \in 1 .. Len(s) : s[j] = t[j]
    <3> SUFFICES ASSUME NEW j \in 1 .. Len(s) PROVE s[j] = t[j]
      OBVIOUS
    <3>1. s[j] = h[cand].key[i + j]
      BY <1>1, <2>1
    <3>2. t[j] = cand[Len(new) + j]
      BY <2>2, <2>3
    <3>3. i + j \in 1 .. Len(cand) - Len(r) /\ Len(r) + (i + j) = Len(new) + j
      <4>1. /\ Len(s) = (Len(cand) - Len(r)) - i /\ j \in 1 .. Len(s)
            /\ Len(r) \in Nat /\ Len(cand) \in Nat /\ i \in Nat
        BY <1>1, <2>1
      <4>2. Len(new) = Len(r) + i
        BY <1>3
      <4> QED BY ONLY <4>1, <4>2
    <3> QED BY <1>1, <3>1, <3>2, <3>3
  <2>5. s = t
    BY <2>1, <2>2, <2>3, <2>4, SameName
  <2> QED BY <1>8, <2>5 DEF s, t
<1>11. Root \in DOMAIN g /\ g[Root].key = Root
  <2>1. Root \in DOMAIN h /\ h[Root].key = Root /\ Len(Root) = 0
    BY RootIs DEF Shaped
  <2>2. Root # cand
    BY <1>1, <2>1
  <2> QED BY <1>8, <1>9, <2>1, <2>2
<1>12. ASSUME NEW n \in DOMAIN g, NEW e \in DOMAIN g[n].branches
       PROVE  IsChild(g, n, e, g[n].branches[e])
  <2>1. CASE n = new
    BY <1>1, <1>3, <1>4, <1>5, <1>8, <1>10, <2>1 DEF IsChild
  <2>2. CASE n = r /\ e = c
    <3>1. /\ new \in DOMAIN g /\ g[r].branches[c] = new
          /\ g[new].key = Drop(Len(r), new)
      BY <1>8
    <3>2. Len(r) < Len(new)
      <4>1. Len(new) = Len(r) + i /\ Len(r) \in Nat /\ i \in Nat /\ 0 < i
        BY <1>1, <1>3
      <4> QED BY ONLY <4>1
    <3> QED BY ONLY <1>4, <1>5, <2>2, <3>1, <3>2 DEF IsChild
  <2>3. CASE n \in DOMAIN h /\ (n # r \/ e # c)
    <3>1. e \in DOMAIN h[n].branches /\ g[n].branches[e] = h[n].branches[e]
      BY <1>9, <2>3
    <3>2. h[n].branches[e] # cand
      BY <2>3, <3>1, OneParent
    <3>3. IsChild(h, n, e, h[n].branches[e])
      BY <2>3, <3>1 DEF Shaped
    <3> DEFINE b == h[n].branches[e]
    <3>4. b \in DOMAIN g /\ g[b].key = h[b].key /\ g[n].branches[e] = b
      <4>1. b \in DOMAIN h
        BY <3>3 DEF IsChild
      <4> QED BY <1>8, <1>9, <3>1, <3>2, <4>1
    <3> HIDE DEF b
    <3>5. IsChild(h, n, e, b)
      BY <3>3 DEF b
    <3> QED BY ONLY <3>4, <3>5 DEF IsChild
  <2> QED BY <1>8, <2>1, <2>2, <2>3
<1>13. ASSUME NEW n \in DOMAIN g, NEW m \in DOMAIN g, Prefix(n, m), n # m
       PROVE  /\ m[Len(n) + 1] \in DOMAIN g[n].branches
              /\ Prefix(g[n].branches[m[Len(n) + 1]], m)
  <2>1. CASE n \in DOMAIN h /\ m \in DOMAIN h
    <3> DEFINE e == m[Len(n) + 1]
    <3>1. /\ e \in DOMAIN h[n].branches
          /\ Prefix(h[n].branches[e], m)
      BY <1>13, <2>1, RouteIs
    <3> HIDE DEF e
    <3>2. CASE n # r \/ e # c
      <4>1. e \in DOMAIN g[n].branches /\ g[n].branches[e] = h[n].branches[e]
        BY <1>9, <2>1, <3>1, <3>2
      <4> QED BY <3>1, <4>1 DEF e
    <3>3. CASE n = r /\ e = c
      <4>1. Prefix(new, m)
        BY <1>1, <1>2, <1>3, <1>4, <2>1, <3>1, <3>3, PrefixOrder
      <4> QED BY <1>8, <3>3, <4>1 DEF e
    <3> QED BY <3>2, <3>3
  <2>2. CASE n = new /\ m \in DOMAIN h
    <3>1. m \in Names /\ Len(m) \in Nat /\ Prefix(new, m) /\ Len(new) < Len(m)
      BY <1>2, <1>3, <1>13, <2>2, PrefixOrder
    <3>2. Prefix(r, m) /\ r # m
      BY <1>1, <1>3, <1>4, <3>1, PrefixOrder
    <3>3. m[Len(r) + 1] = c
      <4>1. Len(r) + 1 \in 1 .. Len(new)
        BY <1>1, <1>3
      <4> QED BY <1>5, <3>1, <4>1 DEF Prefix
    <3>4. Prefix(cand, m) /\ Len(cand) <= Len(m)
      BY <2>2, <3>2, <3>3, RouteIs
    <3>5. m[Len(new) + 1] = d
      <4>1. Len(new) + 1 \in 1 .. Len(cand)
        BY <1>1, <1>3
      <4> QED BY <1>5, <3>4, <4>1 DEF Prefix
    <3> QED BY <1>8, <2>2, <3>4, <3>5
  <2>3. CASE n \in DOMAIN h /\ m = new
    <3>1. n \in Names /\ Len(n) \in Nat /\ Prefix(n, new) /\ Len(n) < Len(new)
      BY <1>2, <1>3, <1>13, <2>3, PrefixOrder
    <3>2. CASE n = r
      <4>1. Prefix(new, new)
        BY <1>3, PrefixOrder
      <4> QED BY <1>5, <1>8, <2>3, <3>2, <4>1
    <3>3. CASE n # r
      <4>1. Prefix(n, cand) /\ n # cand
        BY <1>1, <1>3, <1>4, <3>1, PrefixOrder
      <4>2. Len(n) < Len(r)
        <5>1. ASSUME Len(r) <= Len(n) PROVE FALSE
          <6>1. Prefix(r, n)
            BY <1>1, <3>1, <4>1, <5>1, PrefixOrder
          <6> QED BY <2>3, <3>3, <4>1, <6>1, NoneBetween
        <5> QED BY <1>1, <3>1, <5>1
      <4>3. Prefix(n, r)
        BY <1>1, <3>1, <4>1, <4>2, PrefixOrder
      <4>4. /\ r[Len(n) + 1] \in DOMAIN h[n].branches
            /\ Prefix(h[n].branches[r[Len(n) + 1]], r)
            /\ h[n].branches[r[Len(n) + 1]] \in Names
        BY <1>2, <2>3, <3>3, <4>3, RouteIs
      <4>5. r[Len(n) + 1] = new[Len(n) + 1]
        <5>1. Len(n) + 1 \in 1 .. Len(r)
          BY <1>1, <3>1, <4>2
        <5> QED BY <1>4, <5>1 DEF Prefix
      <4>6. Prefix(h[n].branches[r[Len(n) + 1]], new)
        BY <1>1, <1>3, <1>4, <4>4, PrefixOrder
      <4> QED BY <1>9, <2>3, <3>3, <4>4, <4>5, <4>6
    <3> QED BY <3>2, <3>3
  <2> QED BY <1>8, <1>13, <2>1, <2>2, <2>3
<1>14. Shaped(g)
  BY <1>8, <1>11, <1>12, <1>13 DEF Shaped, Routed
<1> QED BY <1>3, <1>4, <1>5, <1>6, <1>7, <1>14 DEF g, Inserted

\* A set of natural numbers has a least element.
LEMMA LeastNumber ==
  ASSUME NEW T, T \subseteq Nat, T # {}
  PROVE  \E x \in T : \A y \in T : x <= y
<1> DEFINE R == {p \in Nat \X Nat : p[1] < p[2]}
<1>1. IsWellFoundedOn(R, Nat)
  BY NatLessThanWellFounded DEF OpToRel
<1>2. \A x, y \in Nat : y < x => <<y, x>> \in R
  <2> SUFFICES ASSUME NEW x \in Nat, NEW y \in Nat, y < x
               PROVE  <<y, x>> \in R
    OBVIOUS
  <2> DEFINE p == <<y, x>>
  <2>1. p \in Nat \X Nat /\ p[1] < p[2]
    OBVIOUS
  <2> HIDE DEF p
  <2>2. p \in R
    BY <2>1
  <2> QED BY <2>2 DEF p
<1> HIDE DEF R
<1>3. PICK x \in T : \A y \in T : <<y, x>> \notin R
  BY <1>1, WFMin
<1>4. \A y \in T : ~(y < x)
  BY <1>2, <1>3
<1> QED BY <1>3, <1>4

\* Every node but the root is the child of one: the longest above it.
LEMMA Parent ==
  ASSUME NEW h, Shaped(h), NEW m \in DOMAIN h, m # Root
  PROVE  \E n \in DOMAIN h : \E c \in DOMAIN h[n].branches : h[n].branches[c] = m
<1> DEFINE S == {n \in DOMAIN h : Prefix(n, m) /\ n # m}
           T == {Len(m) - Len(n) : n \in S}
<1>1. \A n \in DOMAIN h : n \in Names /\ Len(n) \in Nat
  BY HeapIs, NameIs DEF Shaped
<1>2. T \subseteq Nat
  BY <1>1, PrefixOrder
<1>3. Root \in S
  BY <1>1, RootIs DEF Shaped
<1>4. T # {}
  BY <1>3
<1>5. \E n \in S : \A l \in S : Len(m) - Len(n) <= Len(m) - Len(l)
  <2>1. PICK x \in T : \A y \in T : x <= y
    <3> HIDE DEF T
    <3> QED BY <1>2, <1>4, LeastNumber
  <2> QED BY <2>1
<1>6. PICK n \in S : \A l \in S : Len(m) - Len(n) <= Len(m) - Len(l)
  BY <1>5
<1> DEFINE c == m[Len(n) + 1]
           b == h[n].branches[c]
<1>7. /\ c \in DOMAIN h[n].branches /\ b \in DOMAIN h
      /\ Prefix(b, m) /\ Len(n) < Len(b)
  BY RouteIs
<1>8. b = m
  <2>1. ASSUME b # m PROVE FALSE
    <3>1. b \in S
      BY <1>7, <2>1
    <3>2. Len(m) - Len(n) <= Len(m) - Len(b)
      BY <1>6, <3>1
    <3> QED BY <1>1, <1>7, <3>2
  <2> QED BY <2>1
<1> QED BY <1>7, <1>8

\* Below a node without branches there is none.
LEMMA NoneBelow ==
  ASSUME NEW h, Shaped(h), NEW n \in DOMAIN h, DOMAIN h[n].branches = {},
         NEW m \in DOMAIN h, Prefix(n, m)
  PROVE  m = n
BY RouteIs

NodePruned(h, p, c, k, g) ==
  /\ IsHeap(g)
  /\ DOMAIN g = DOMAIN h \ {k}
  /\ \A n \in DOMAIN h \ {p, k} : g[n] = h[n]
  /\ g[p].key = h[p].key
  /\ g[p].value = h[p].value
  /\ DOMAIN g[p].branches = DOMAIN h[p].branches \ {c}
  /\ \A d \in DOMAIN h[p].branches \ {c} : g[p].branches[d] = h[p].branches[d]

LEMMA PrunedIs ==
  ASSUME NEW h, IsHeap(h), NEW p \in DOMAIN h, NEW c, NEW k, k # p
  PROVE  NodePruned(h, p, c, k, Without(Unlinked(h, p, c), k))
<1> DEFINE f == Unlinked(h, p, c)
           g == Without(f, k)
<1>1. /\ IsHeap(f)
      /\ DOMAIN f = DOMAIN h
      /\ \A n \in DOMAIN h \ {p} : f[n] = h[n]
      /\ f[p].key = h[p].key
      /\ f[p].value = h[p].value
      /\ DOMAIN f[p].branches = DOMAIN h[p].branches \ {c}
      /\ \A d \in DOMAIN h[p].branches \ {c} : f[p].branches[d] = h[p].branches[d]
  BY UnlinkedIs
<1> HIDE DEF f
<1>2. /\ IsHeap(g) /\ DOMAIN g = DOMAIN f \ {k} /\ \A n \in DOMAIN g : g[n] = f[n]
  BY <1>1, WithoutIs
<1> HIDE DEF g
<1>3. g[p] = f[p]
  BY <1>1, <1>2
<1>4. NodePruned(h, p, c, k, g)
  BY <1>1, <1>2, <1>3 DEF NodePruned
<1> QED BY <1>4 DEF f, g

LEMMA PrunedShaped ==
  ASSUME NEW h, Shaped(h), NEW p \in DOMAIN h, NEW c \in DOMAIN h[p].branches,
         NEW k, k = h[p].branches[c], DOMAIN h[k].branches = {},
         NEW g, NodePruned(h, p, c, k, g)
  PROVE  Shaped(g)
<1>1. /\ IsHeap(h) /\ k \in DOMAIN h /\ k # p /\ k # Root /\ p \in Names
      /\ Len(p) \in Nat /\ k[Len(p) + 1] = c /\ Prefix(p, k)
  BY ChildIs, RootIs DEF Shaped
<1>2. /\ DOMAIN g = DOMAIN h \ {k}
      /\ \A n \in DOMAIN g : g[n].key = h[n].key
      /\ \A n \in DOMAIN g : \A d \in DOMAIN g[n].branches :
           /\ d \in DOMAIN h[n].branches
           /\ g[n].branches[d] = h[n].branches[d]
           /\ n # p \/ d # c
      /\ \A n \in DOMAIN g : \A d \in DOMAIN h[n].branches :
           n # p \/ d # c => d \in DOMAIN g[n].branches
  BY DEF NodePruned
<1>3. Root \in DOMAIN g /\ g[Root].key = Root
  BY <1>1, <1>2 DEF Shaped
<1>4. ASSUME NEW n \in DOMAIN g, NEW d \in DOMAIN g[n].branches
      PROVE  IsChild(g, n, d, g[n].branches[d])
  <2>1. /\ n \in DOMAIN h /\ d \in DOMAIN h[n].branches
        /\ g[n].branches[d] = h[n].branches[d]
    BY <1>2
  <2>2. h[n].branches[d] # k
    BY <1>2, <2>1, OneParent
  <2>3. IsChild(h, n, d, h[n].branches[d])
    BY <2>1 DEF Shaped
  <2> QED BY <1>2, <2>1, <2>2, <2>3 DEF IsChild
<1>5. ASSUME NEW n \in DOMAIN g, NEW m \in DOMAIN g, Prefix(n, m), n # m
      PROVE  /\ m[Len(n) + 1] \in DOMAIN g[n].branches
             /\ Prefix(g[n].branches[m[Len(n) + 1]], m)
  <2>1. /\ m[Len(n) + 1] \in DOMAIN h[n].branches
        /\ Prefix(h[n].branches[m[Len(n) + 1]], m)
    BY <1>2, <1>5, RouteIs
  <2>2. n # p \/ m[Len(n) + 1] # c
    <3>1. ASSUME n = p, m[Len(n) + 1] = c PROVE FALSE
      <4>1. m = k
        BY <1>1, <1>2, <2>1, <3>1, NoneBelow
      <4> QED BY <1>2, <4>1
    <3> QED BY <3>1
  <2> QED BY <1>2, <2>1, <2>2
<1> QED BY <1>2, <1>3, <1>4, <1>5 DEF Shaped, Routed, NodePruned

LEMMA RenamedShaped ==
  ASSUME NEW h, Shaped(h), NEW p \in DOMAIN h, p # Root,
         NEW d, DOMAIN h[p].branches = {d},
         NEW m, m = h[p].branches[d], DOMAIN h[m].branches = {},
         NEW v \in Values,
         NEW x, x = Node(h[p].key \o h[m].key, v),
         NEW g, NodeRenamed(h, p, m, x, g)
  PROVE  Shaped(g)
<1>1. /\ IsHeap(h) /\ p \in Names /\ Len(p) \in Nat
      /\ m \in DOMAIN h /\ m \in Names /\ Len(m) \in Nat
      /\ Prefix(p, m) /\ Len(p) < Len(m) /\ m # p /\ m[Len(p) + 1] = d
      /\ m # Root
  BY ChildIs, RootIs DEF Shaped
<1>2. h[m].key = Drop(Len(p), m)
  BY DEF Shaped, IsChild
<1>3. h[p].key \in Names /\ h[m].key \in Names
  BY <1>1, HeapIs
<1>4. x.key = h[p].key \o h[m].key /\ DOMAIN x.branches = {}
  <2>1. h[p].key \o h[m].key \in Names
    BY <1>3, JoinIs
  <2> QED BY <2>1, NewNode
<1>5. /\ DOMAIN g = DOMAIN h \ {p}
      /\ g[m].key = h[p].key \o h[m].key
      /\ \A n \in DOMAIN g \ {m} : g[n].key = h[n].key
      /\ \A n \in DOMAIN g : /\ DOMAIN g[n].branches = DOMAIN h[n].branches
                             /\ \A c \in DOMAIN h[n].branches :
                                  g[n].branches[c] = IF h[n].branches[c] = p THEN m
                                                     ELSE h[n].branches[c]
  BY <1>1, <1>4 DEF NodeRenamed
<1>6. Root \in DOMAIN g /\ g[Root].key = Root
  BY <1>1, <1>5 DEF Shaped
<1>7. ASSUME NEW n \in DOMAIN g, NEW c \in DOMAIN g[n].branches
      PROVE  IsChild(g, n, c, g[n].branches[c])
  <2>1. n \in DOMAIN h /\ n # p /\ c \in DOMAIN h[n].branches
    BY <1>5
  <2>2. IsChild(h, n, c, h[n].branches[c])
    BY <2>1 DEF Shaped
  <2>3. CASE h[n].branches[c] = p
    <3>1. g[n].branches[c] = m
      BY <1>5, <2>1, <2>3
    <3>2. /\ n \in Names /\ Len(n) \in Nat /\ Prefix(n, p) /\ Len(n) < Len(p)
          /\ p[Len(n) + 1] = c /\ h[p].key = Drop(Len(n), p)
      BY <1>1, <2>1, <2>2, <2>3, HeapIs, NameIs DEF IsChild
    <3>3. Prefix(n, m) /\ Len(n) < Len(m)
      BY <1>1, <3>2, PrefixOrder
    <3>4. m[Len(n) + 1] = c
      BY <1>1, <3>2 DEF Prefix
    <3>5. h[p].key \o h[m].key = Drop(Len(n), m)
      <4> DEFINE s == h[p].key
                 t == h[m].key
                 u == Drop(Len(n), m)
      <4>1. /\ Len(s) = Len(p) - Len(n)
            /\ \A i \in 1 .. Len(p) - Len(n) : s[i] = p[Len(n) + i]
        <5>1. Len(n) \in 0 .. Len(p)
          BY <1>1, <3>2
        <5> QED BY ONLY <1>1, <3>2, <5>1, DropIs
      <4>2. /\ Len(t) = Len(m) - Len(p)
            /\ \A i \in 1 .. Len(m) - Len(p) : t[i] = m[Len(p) + i]
        <5>1. Len(p) \in 0 .. Len(m)
          BY <1>1
        <5> QED BY ONLY <1>1, <1>2, <5>1, DropIs
      <4>3. /\ u \in Names /\ Len(u) = Len(m) - Len(n)
            /\ \A i \in 1 .. Len(m) - Len(n) : u[i] = m[Len(n) + i]
        <5>1. Len(n) \in 0 .. Len(m)
          BY <1>1, <3>2, <3>3
        <5> QED BY ONLY <1>1, <5>1, DropIs
      <4>4. /\ s \o t \in Names /\ Len(s \o t) = Len(s) + Len(t)
            /\ \A i \in 1 .. Len(s) : (s \o t)[i] = s[i]
            /\ \A i \in 1 .. Len(t) : (s \o t)[Len(s) + i] = t[i]
        BY <1>3, JoinIs
      <4> HIDE DEF s, t, u
      <4>5. Len(s \o t) = Len(u)
        BY <1>1, <3>2, <4>1, <4>2, <4>3, <4>4
      <4>6. ASSUME NEW i \in 1 .. Len(u) PROVE (s \o t)[i] = u[i]
        <5>1. u[i] = m[Len(n) + i]
          BY <4>3
        <5>2. CASE i <= Len(s)
          <6>1. i \in 1 .. Len(s) /\ i \in 1 .. Len(p) - Len(n)
            BY <1>1, <3>2, <4>1, <5>2
          <6>2. (s \o t)[i] = p[Len(n) + i]
            BY <4>1, <4>4, <6>1
          <6>3. Len(n) + i \in 1 .. Len(p)
            BY <1>1, <3>2, <6>1
          <6> QED BY <1>1, <5>1, <6>2, <6>3 DEF Prefix
        <5>3. CASE i > Len(s)
          <6> DEFINE j == i - Len(s)
          <6>1. /\ j \in 1 .. Len(m) - Len(p) /\ Len(s) + j = i
                /\ Len(p) + j = Len(n) + i
            <7>1. /\ Len(s) = Len(p) - Len(n) /\ Len(u) = Len(m) - Len(n)
                  /\ Len(p) \in Nat /\ Len(m) \in Nat /\ Len(n) \in Nat /\ i \in 1 .. Len(u)
                  /\ Len(n) < Len(p)
              BY <1>1, <3>2, <4>1, <4>3
            <7> QED BY ONLY <5>3, <7>1
          <6> HIDE DEF j
          <6>2. (s \o t)[i] = t[j] /\ t[j] = m[Len(p) + j]
            BY <4>2, <4>4, <6>1
          <6> QED BY <5>1, <6>1, <6>2
        <5>4. i <= Len(s) \/ i > Len(s)
          BY <1>1, <3>2, <4>1
        <5> QED BY <5>2, <5>3, <5>4
      <4>7. s \o t = u
        <5>1. \A i \in 1 .. Len(s \o t) : (s \o t)[i] = u[i]
          BY <4>5, <4>6
        <5> QED BY <4>3, <4>4, <4>5, <5>1, SameName
      <4> QED BY <4>7 DEF s, t, u
    <3> QED BY <1>1, <1>5, <3>1, <3>3, <3>4, <3>5 DEF IsChild
  <2>4. CASE h[n].branches[c] # p
    <3>1. g[n].branches[c] = h[n].branches[c]
      BY <1>5, <2>1, <2>4
    <3>2. h[n].branches[c] # m
      BY <1>1, <2>1, OneParent
    <3> QED BY <1>5, <2>2, <2>4, <3>1, <3>2 DEF IsChild
  <2> QED BY <2>3, <2>4
<1>8. ASSUME NEW n \in DOMAIN g, NEW l \in DOMAIN g, Prefix(n, l), n # l
      PROVE  /\ l[Len(n) + 1] \in DOMAIN g[n].branches
             /\ Prefix(g[n].branches[l[Len(n) + 1]], l)
  <2> DEFINE c == l[Len(n) + 1]
             b == h[n].branches[c]
  <2>1. /\ c \in DOMAIN h[n].branches /\ Prefix(b, l)
        /\ l \in Names
    BY <1>1, <1>5, <1>8, RouteIs, HeapIs
  <2> HIDE DEF c
  <2>2. CASE b = p
    <3>1. /\ l[Len(p) + 1] \in DOMAIN h[p].branches
          /\ Prefix(h[p].branches[l[Len(p) + 1]], l)
      BY <1>5, <2>1, <2>2, RouteIs
    <3>2. Prefix(m, l)
      BY <3>1
    <3>3. g[n].branches[c] = m
      BY <1>5, <2>1, <2>2
    <3> QED BY <1>5, <2>1, <3>2, <3>3 DEF c
  <2>3. CASE b # p
    <3>1. g[n].branches[c] = b
      BY <1>5, <2>1, <2>3
    <3> QED BY <1>5, <2>1, <3>1 DEF c
  <2> QED BY <2>2, <2>3
<1> QED BY <1>5, <1>6, <1>7, <1>8 DEF Shaped, Routed, NodeRenamed

-----------------------------------------------------------------------------
(* Search ends at the longest node along the key.                          *)

\* A place in the walk: a node, and that it has been matched.
Place(h, key, at) ==
  /\ at.node \in DOMAIN h
  /\ at.start = Len(at.node)
  /\ Prefix(at.node, key)

LEMMA FollowsIs ==
  ASSUME NEW h, Shaped(h), NEW key \in Names, NEW at, Place(h, key, at)
  PROVE  Follows(h, key, at) <=>
           /\ at.start < Len(key)
           /\ key[at.start + 1] \in DOMAIN h[at.node].branches
           /\ Prefix(Candidate(h, key, at), key)
<1> DEFINE n == at.node
           c == key[Len(n) + 1]
           b == h[n].branches[c]
<1>1. n \in DOMAIN h /\ at.start = Len(n) /\ Prefix(n, key)
  BY DEF Place
<1>2. Candidate(h, key, at) = b
  BY <1>1 DEF Candidate
<1>3. n \in Names /\ Len(n) \in Nat /\ Len(key) \in Nat
  BY <1>1, HeapIs, NameIs DEF Shaped
<1> HIDE DEF n
<1>4. ASSUME Len(n) < Len(key), c \in DOMAIN h[n].branches
      PROVE  (/\ Len(h[b].key) <= Len(key) - Len(n)
              /\ \A i \in 1 .. Len(h[b].key) : key[Len(n) + i] = h[b].key[i])
             <=> Prefix(b, key)
  <2>1. /\ b \in Names /\ Len(b) \in Nat /\ Prefix(n, b) /\ Len(n) < Len(b)
        /\ h[b].key = Drop(Len(n), b)
    BY <1>1, <1>4, ChildIs
  <2> HIDE DEF b
  <2>2. Len(n) \in 0 .. Len(b)
    BY <1>3, <2>1
  <2>3. /\ Len(h[b].key) = Len(b) - Len(n)
        /\ \A i \in 1 .. Len(b) - Len(n) : h[b].key[i] = b[Len(n) + i]
    BY ONLY <2>1, <2>2, DropIs
  <2>4. ASSUME Len(b) - Len(n) <= Len(key) - Len(n),
               \A i \in 1 .. Len(b) - Len(n) : key[Len(n) + i] = b[Len(n) + i]
        PROVE  Prefix(b, key)
    <3>1. Len(b) <= Len(key)
      BY <1>3, <2>1, <2>4
    <3>2. ASSUME NEW i \in 1 .. Len(b) PROVE b[i] = key[i]
      <4>1. CASE i <= Len(n)
        BY <1>1, <1>3, <2>1, <4>1 DEF Prefix
      <4>2. CASE i > Len(n)
        <5>1. i - Len(n) \in 1 .. Len(b) - Len(n) /\ Len(n) + (i - Len(n)) = i
          BY <1>3, <2>1, <4>2
        <5> QED BY <2>4, <5>1
      <4> QED BY <1>3, <4>1, <4>2
    <3> QED BY <3>1, <3>2 DEF Prefix
  <2>5. ASSUME Prefix(b, key)
        PROVE  /\ Len(b) - Len(n) <= Len(key) - Len(n)
               /\ \A i \in 1 .. Len(b) - Len(n) : key[Len(n) + i] = b[Len(n) + i]
    BY <1>3, <2>1, <2>5 DEF Prefix
  <2> QED BY <2>3, <2>4, <2>5
<1>5. Follows(h, key, at) <=>
        /\ Len(n) < Len(key)
        /\ c \in DOMAIN h[n].branches
        /\ Len(h[b].key) <= Len(key) - Len(n)
        /\ \A i \in 1 .. Len(h[b].key) : key[Len(n) + i] = h[b].key[i]
  BY <1>1, <1>2 DEF Follows, n
<1> QED BY <1>1, <1>2, <1>4, <1>5 DEF n

\* A step of the walk stays on the key, and matches a character or is the last.
LEMMA OnwardIs ==
  ASSUME NEW h, Shaped(h), NEW key \in Names, NEW at, Place(h, key, at),
         NEW on, on = Onward(h, key, at)
  PROVE  /\ Place(h, key, on)
         /\ ~Follows(h, key, at) => on = at
         /\ Follows(h, key, at) => on.start > at.start
<1>1. CASE ~Follows(h, key, at)
  BY <1>1 DEF Onward
<1>2. CASE Follows(h, key, at)
  <2> DEFINE b == Candidate(h, key, at)
             c == key[at.start + 1]
  <2>1. /\ c \in DOMAIN h[at.node].branches /\ Prefix(b, key) /\ at.node \in DOMAIN h
        /\ b = h[at.node].branches[c] /\ at.start = Len(at.node)
    BY <1>2, FollowsIs DEF Place, Candidate
  <2>2. on.node = b /\ on.start = at.start + Len(h[b].key)
    BY <1>2 DEF Onward, Below
  <2> HIDE DEF b, c
  <2>3. /\ b \in DOMAIN h /\ Len(at.node) < Len(b) /\ b \in Names
        /\ Len(at.node) \in Nat /\ Len(b) \in Nat
    BY <2>1, ChildIs
  <2>4. h[b].key = Drop(Len(at.node), b)
    BY <2>1 DEF Shaped, IsChild
  <2>5. Len(h[b].key) = Len(b) - Len(at.node)
    <3>1. Len(at.node) \in 0 .. Len(b)
      BY <2>3
    <3> QED BY ONLY <2>3, <2>4, <3>1, DropIs
  <2> QED BY <1>2, <2>1, <2>2, <2>3, <2>5 DEF Place
<1> QED BY <1>1, <1>2

\* The walk's first steps.
WalkTo(h, key, k, g) ==
  [i \in 0 .. k |-> IF i = 0 THEN [node |-> Root, start |-> 0]
                    ELSE Onward(h, key, g[i - 1])]

LEMMA WalkBegins ==
  ASSUME NEW h, NEW key
  PROVE  \A k \in Nat : \E g : g = WalkTo(h, key, k, g)
<1> DEFINE E(k) == \E g : g = WalkTo(h, key, k, g)
           T == {k \in Nat : ~E(k)}
<1>1. E(0)
  <2> DEFINE g0 == [i \in 0 .. 0 |-> [node |-> Root, start |-> 0]]
  <2>1. WalkTo(h, key, 0, g0) = g0
    BY DEF WalkTo
  <2> HIDE DEF g0
  <2> QED BY <2>1
<1>2. ASSUME NEW k \in Nat, k > 0, E(k - 1) PROVE E(k)
  <2>1. PICK g : g = WalkTo(h, key, k - 1, g)
    BY <1>2
  <2> DEFINE G == [i \in 0 .. k |-> IF i = k THEN WalkTo(h, key, k, g)[k] ELSE g[i]]
  <2>2. /\ \A i \in 0 .. k : G[i] = IF i = k THEN WalkTo(h, key, k, g)[k] ELSE g[i]
        /\ G = [i \in 0 .. k |-> G[i]]
    OBVIOUS
  <2>3. \A i \in 0 .. k : i > 0 => i - 1 \in 0 .. k - 1 /\ i - 1 \in 0 .. k /\ i - 1 # k
    BY <1>2
  <2> HIDE DEF G
  <2>4. \A i \in 0 .. k : i > 0 => G[i-1] = g[i-1]
    BY <2>2, <2>3
  <2>5. ASSUME NEW i \in 0 .. k PROVE WalkTo(h, key, k, G)[i] = G[i]
    <3>1. WalkTo(h, key, k, G)[i] = WalkTo(h, key, k, g)[i]
      BY <2>4 DEF WalkTo
    <3>2. CASE i = k
      BY <2>2, <3>1, <3>2
    <3>3. CASE i # k
      <4>1. i \in 0 .. k - 1
        BY <1>2, <3>3
      <4>2. WalkTo(h, key, k, g)[i] = WalkTo(h, key, k - 1, g)[i]
        BY <4>1 DEF WalkTo
      <4>3. G[i] = g[i]
        BY <2>2, <3>3
      <4> QED BY <2>1, <3>1, <4>2, <4>3
    <3> QED BY <3>2, <3>3
  <2>6. WalkTo(h, key, k, G) = [i \in 0 .. k |-> WalkTo(h, key, k, G)[i]]
    BY DEF WalkTo
  <2>7. WalkTo(h, key, k, G) = G
    BY <2>2, <2>5, <2>6
  <2> QED BY <2>7
<1> HIDE DEF E
<1>3. ASSUME T # {} PROVE FALSE
  <2>1. T \subseteq Nat
    OBVIOUS
  <2>2. PICK k \in T : \A y \in T : k <= y
    <3> HIDE DEF T
    <3> QED BY <1>3, <2>1, LeastNumber
  <2>3. k \in Nat /\ k > 0 /\ k - 1 \in Nat /\ k - 1 \notin T
    BY <1>1, <2>2
  <2> QED BY <1>2, <2>2, <2>3
<1>4. \A k \in Nat : E(k)
  BY <1>3
<1> QED BY <1>4 DEF E

LEMMA SearchIs ==
  ASSUME NEW h, Shaped(h), NEW key \in Names
  PROVE  Place(h, key, Search(h, key)) /\ ~Follows(h, key, Search(h, key))
<1> DEFINE k == Len(key)
           w == CHOOSE g : g = WalkTo(h, key, k, g)
<1>1. k \in Nat
  BY NameIs
<1>2. w = WalkTo(h, key, k, w)
  BY <1>1, WalkBegins
<1>3. Search(h, key) = w[k]
  BY DEF Search, WalkTo
<1> HIDE DEF w, k
<1>4. \A i \in 0 .. k : w[i] = IF i = 0 THEN [node |-> Root, start |-> 0]
                               ELSE Onward(h, key, w[i - 1])
  BY <1>2 DEF WalkTo
<1> DEFINE P(i) == /\ Place(h, key, w[i])
                   /\ w[i].start >= i \/ ~Follows(h, key, w[i])
           T == {i \in 0 .. k : ~P(i)}
<1>5. P(0)
  <2>1. w[0] = [node |-> Root, start |-> 0]
    BY <1>1, <1>4
  <2>2. Place(h, key, w[0])
    BY <2>1, RootIs DEF Place, Shaped
  <2> QED BY <2>1, <2>2
<1>6. ASSUME NEW i \in 0 .. k, i > 0, P(i - 1) PROVE P(i)
  <2>1. w[i] = Onward(h, key, w[i - 1])
    BY <1>4, <1>6
  <2>2. /\ Place(h, key, w[i])
        /\ ~Follows(h, key, w[i - 1]) => w[i] = w[i - 1]
        /\ Follows(h, key, w[i - 1]) => w[i].start > w[i - 1].start
    BY <1>6, <2>1, OnwardIs
  <2>3. w[i].start \in Nat /\ w[i - 1].start \in Nat
    BY <1>6, <2>2, HeapIs, NameIs DEF Place, Shaped
  <2>4. CASE Follows(h, key, w[i - 1])
    <3>1. w[i - 1].start >= i - 1
      BY <1>6, <2>4
    <3>2. w[i].start >= i
      BY <1>1, <2>2, <2>3, <2>4, <3>1
    <3> QED BY <2>2, <3>2
  <2>5. CASE ~Follows(h, key, w[i - 1])
    BY <2>2, <2>5
  <2> QED BY <2>4, <2>5
<1> HIDE DEF P
<1>7. ASSUME T # {} PROVE FALSE
  <2>1. T \subseteq Nat
    OBVIOUS
  <2>2. PICK i \in T : \A y \in T : i <= y
    <3> HIDE DEF T
    <3> QED BY <1>7, <2>1, LeastNumber
  <2>3. i \in 0 .. k /\ i > 0 /\ i - 1 \in 0 .. k /\ i - 1 \notin T
    BY <1>1, <1>5, <2>2
  <2> QED BY <1>6, <2>2, <2>3
<1>8. P(k)
  BY <1>1, <1>7
<1>9. Place(h, key, w[k]) /\ (w[k].start >= Len(key) \/ ~Follows(h, key, w[k]))
  BY <1>8 DEF P, k
<1>10. ~Follows(h, key, w[k])
  <2>1. w[k].start \in Nat /\ Len(key) \in Nat
    BY <1>9, HeapIs, NameIs DEF Place, Shaped
  <2> QED BY <1>9, <2>1, FollowsIs
<1> QED BY <1>3, <1>9, <1>10

LEMMA SearchLongest ==
  ASSUME NEW h, Shaped(h), NEW key \in Names, NEW at, at = Search(h, key)
  PROVE  /\ at.node \in DOMAIN h /\ at.node \in Names
         /\ at.start = Len(at.node) /\ at.start \in Nat
         /\ Prefix(at.node, key)
         /\ \A n \in DOMAIN h : Prefix(n, key) => Prefix(n, at.node)
<1> DEFINE r == at.node
<1>1. Place(h, key, at) /\ ~Follows(h, key, at)
  BY SearchIs
<1>2. r \in DOMAIN h /\ at.start = Len(r) /\ Prefix(r, key)
  BY <1>1 DEF Place
<1>3. r \in Names /\ Len(r) \in Nat /\ Len(key) \in Nat
  BY <1>2, HeapIs, NameIs DEF Shaped
<1> HIDE DEF r
<1>4. ASSUME NEW n \in DOMAIN h, Prefix(n, key) PROVE Prefix(n, r)
  <2>1. n \in Names /\ Len(n) \in Nat
    BY HeapIs, NameIs DEF Shaped
  <2>2. CASE Len(n) <= Len(r)
    BY <1>2, <1>3, <1>4, <2>1, <2>2, PrefixOrder
  <2>3. CASE Len(r) < Len(n)
    <3>1. Prefix(r, n) /\ r # n
      BY <1>2, <1>3, <1>4, <2>1, <2>3, PrefixOrder
    <3>2. n[Len(r) + 1] = key[Len(r) + 1] /\ Len(r) < Len(key)
      BY <1>3, <1>4, <2>1, <2>3 DEF Prefix
    <3> DEFINE c == key[Len(r) + 1]
               b == h[r].branches[c]
    <3>3. c \in DOMAIN h[r].branches /\ Prefix(b, n) /\ b \in DOMAIN h
      BY <1>2, <3>1, <3>2, RouteIs
    <3>4. Prefix(b, key)
      <4>1. b \in Names
        BY <3>3, HeapIs DEF Shaped
      <4> QED BY <1>4, <2>1, <3>3, <4>1, PrefixOrder
    <3>5. Candidate(h, key, at) = b
      BY <1>2 DEF Candidate, r
    <3> QED BY <1>1, <1>2, <3>2, <3>3, <3>4, <3>5, FollowsIs DEF r
  <2> QED BY <1>3, <2>1, <2>2, <2>3
<1> QED BY <1>2, <1>3, <1>4 DEF r

-----------------------------------------------------------------------------
(* What the nodes hold.                                                    *)

Filled(h) ==
  \A n \in DOMAIN h : ~IsBlank(h[n]) => n \in Keys /\ h[n].value \in Values

\* No way down ends at a blank node.
Ended(h) ==
  \A n \in DOMAIN h \ {Root} : \E m \in DOMAIN h : Prefix(n, m) /\ ~IsBlank(h[m])

\* A blank node of S has two branches.
Forked(h, S) ==
  \A n \in S : IsBlank(h[n]) =>
    \E c, d \in DOMAIN h[n].branches : c # d

Sound(h) ==
  /\ Shaped(h)
  /\ Filled(h)
  /\ Ended(h)
  /\ Forked(h, DOMAIN h \ {Root})

\* g holds what h holds, and v for key; or without key; or the same.
Stored(h, key, v, g) ==
  /\ key \in DOMAIN g /\ g[key].value = v
  /\ \A n \in DOMAIN h \ {key} : n \in DOMAIN g /\ g[n].value = h[n].value
  /\ \A n \in DOMAIN g \ (DOMAIN h \cup {key}) : IsBlank(g[n])

Erased(h, key, g) ==
  /\ key \notin DOMAIN g
  /\ \A n \in DOMAIN g : n \in DOMAIN h /\ g[n].value = h[n].value
  /\ \A n \in DOMAIN h \ (DOMAIN g \cup {key}) : IsBlank(h[n])

LEMMA BlankIs ==
  ASSUME NEW v \in Values
  PROVE  v # Blank /\ Blank \notin Values /\ \A node : node.value = v => ~IsBlank(node)
BY TrieAssumption DEF IsBlank

LEMMA KeyIs ==
  ASSUME NEW key \in Keys
  PROVE  key \in Names /\ Len(key) > 0 /\ Len(key) \in Nat /\ key # Root
<1>1. key \in Seq(Char) /\ key # <<>>
  BY TrieAssumption
<1>2. key \in Names /\ Len(key) \in Nat /\ key # Root
  BY <1>1, NameIs DEF Names, Root
<1>3. Len(key) # 0
  BY <1>2, RootIs
<1> QED BY <1>2, <1>3

LEMMA ValueSound ==
  ASSUME NEW h, Sound(h), NEW key \in Keys, key \in DOMAIN h, NEW v \in Values,
         NEW g, g = [h EXCEPT ![key].value = v]
  PROVE  Sound(g) /\ Stored(h, key, v, g)
<1>1. /\ IsHeap(g)
      /\ DOMAIN g = DOMAIN h
      /\ \A n \in DOMAIN h \ {key} : g[n] = h[n]
      /\ g[key].key = h[key].key
      /\ g[key].value = v
      /\ g[key].branches = h[key].branches
  <2>1. IsHeap(h)
    BY DEF Sound, Shaped
  <2> QED BY <2>1, ValueIs
<1>2. ~IsBlank(g[key])
  BY <1>1, BlankIs
<1>3. \A n \in DOMAIN h : g[n].key = h[n].key /\ g[n].branches = h[n].branches
  BY <1>1
<1>4. Shaped(g)
  BY <1>1, <1>3 DEF Sound, Shaped, Routed, IsChild
<1>5. Filled(g)
  BY <1>1 DEF Sound, Filled
<1>6. Ended(g)
  <2> SUFFICES ASSUME NEW n \in DOMAIN h \ {Root}
               PROVE  \E m \in DOMAIN h : Prefix(n, m) /\ ~IsBlank(g[m])
    BY <1>1 DEF Ended
  <2>1. PICK m \in DOMAIN h : Prefix(n, m) /\ ~IsBlank(h[m])
    BY DEF Sound, Ended
  <2>2. ~IsBlank(g[m])
    BY <1>1, <1>2, <2>1
  <2> QED BY <2>1, <2>2
<1>7. Forked(g, DOMAIN g \ {Root})
  BY <1>1, <1>2, <1>3 DEF Sound, Forked
<1>8. Stored(h, key, v, g)
  BY <1>1 DEF Stored
<1> QED BY <1>4, <1>5, <1>6, <1>7, <1>8 DEF Sound

LEMMA LeafSound ==
  ASSUME NEW h, Shaped(h), Filled(h), Ended(h), NEW r \in DOMAIN h,
         Forked(h, DOMAIN h \ {Root, r}),
         r = Root \/ ~IsBlank(h[r]) \/ DOMAIN h[r].branches # {},
         NEW key \in Keys, NEW v \in Values,
         Prefix(r, key), Len(r) < Len(key),
         key[Len(r) + 1] \notin DOMAIN h[r].branches,
         NEW g, g = Leaf(h, r, key, v)
  PROVE  Sound(g) /\ Stored(h, key, v, g)
<1> DEFINE c == key[Len(r) + 1]
<1>1. key \in Names
  BY KeyIs
<1>2. Shaped(g) /\ key \notin DOMAIN h
  BY <1>1, LeafShaped
<1>3. LeafAdded(h, r, key, v, g)
  BY <1>1, <1>2, LeafIs DEF Shaped
<1>4. /\ DOMAIN g = DOMAIN h \cup {key}
      /\ \A n \in DOMAIN h : g[n].value = h[n].value
      /\ \A n \in DOMAIN h : DOMAIN h[n].branches \subseteq DOMAIN g[n].branches
      /\ g[key].value = v
      /\ DOMAIN g[r].branches = DOMAIN h[r].branches \cup {c}
      /\ c \notin DOMAIN h[r].branches
  BY <1>3 DEF LeafAdded
<1> HIDE DEF c
<1>5. /\ ~IsBlank(g[key])
      /\ \A n \in DOMAIN h : IsBlank(g[n]) <=> IsBlank(h[n])
  BY <1>4, BlankIs DEF IsBlank
<1>6. Filled(g)
  BY <1>4, <1>5 DEF Filled
<1>7. Ended(g)
  <2> SUFFICES ASSUME NEW n \in DOMAIN g \ {Root}
               PROVE  \E m \in DOMAIN g : Prefix(n, m) /\ ~IsBlank(g[m])
    BY DEF Ended
  <2>1. CASE n = key
    <3>1. Prefix(key, key)
      BY <1>1, PrefixOrder
    <3> QED BY <1>4, <1>5, <2>1, <3>1
  <2>2. CASE n \in DOMAIN h
    <3>1. PICK m \in DOMAIN h : Prefix(n, m) /\ ~IsBlank(h[m])
      BY <2>2 DEF Ended
    <3> QED BY <1>4, <1>5, <3>1
  <2> QED BY <1>4, <2>1, <2>2
<1>8. Forked(g, DOMAIN g \ {Root})
  <2> SUFFICES ASSUME NEW n \in DOMAIN g \ {Root}, IsBlank(g[n])
               PROVE  \E d, e \in DOMAIN g[n].branches : d # e
    BY DEF Forked
  <2>1. n \in DOMAIN h /\ IsBlank(h[n])
    BY <1>4, <1>5
  <2>2. CASE n # r
    <3>1. PICK d, e \in DOMAIN h[n].branches : d # e
      BY <2>1, <2>2 DEF Forked
    <3> QED BY <1>4, <2>1, <3>1
  <2>3. CASE n = r
    <3>1. PICK d \in DOMAIN h[r].branches : TRUE
      BY <2>1, <2>3
    <3> QED BY <1>4, <2>3, <3>1
  <2> QED BY <2>2, <2>3
<1>9. Stored(h, key, v, g)
  BY <1>4 DEF Stored
<1> QED BY <1>2, <1>6, <1>7, <1>8, <1>9 DEF Sound

\* What a node between two others changes, but for its own two branches.
Kept(h, v, cand, new, g) ==
  /\ Shaped(g) /\ Filled(g) /\ Ended(g)
  /\ Forked(g, DOMAIN g \ {Root, new})
  /\ DOMAIN g = DOMAIN h \cup {new} /\ new \notin DOMAIN h
  /\ g[new].value = v
  /\ DOMAIN g[new].branches = {cand[Len(new) + 1]}
  /\ \A n \in DOMAIN h : g[n].value = h[n].value

LEMMA AboveKeeps ==
  ASSUME NEW h, Sound(h), NEW r, NEW c, NEW i, NEW cand, NEW new,
         Between(h, r, c, i, cand, new),
         NEW v \in Values \cup {Blank}, v \in Values => new \in Keys,
         NEW g, g = Above(h, r, cand, i, v)
  PROVE  Kept(h, v, cand, new, g)
<1>1. /\ Shaped(g)
      /\ NodeAdded(h, r, cand, i, v, g)
      /\ new \notin DOMAIN h
      /\ new \in Names
      /\ Prefix(new, cand)
      /\ cand[Len(new) + 1] = h[cand].key[i + 1]
  <2>1. Shaped(h)
    BY DEF Sound
  <2>2. Inserted(h, r, i, v, cand, new, g)
    BY <2>1, AboveShaped
  <2> QED BY <2>2 DEF Inserted
<1>a. r \in DOMAIN h /\ c \in DOMAIN h[r].branches /\ cand = h[r].branches[c]
  BY DEF Between
<1>2. cand \in DOMAIN h /\ cand \in Names /\ cand # r /\ Len(cand) > 0 /\ cand # Root
  <2>1. cand \in DOMAIN h /\ cand \in Names /\ cand # r /\ Len(cand) > 0
    BY <1>a, ChildIs DEF Sound
  <2> QED BY <2>1, RootIs
<1>3. /\ DOMAIN g = DOMAIN h \cup {new}
      /\ g[new].value = v
      /\ DOMAIN g[new].branches = {cand[Len(new) + 1]}
      /\ \A n \in DOMAIN h \ {r, cand} : g[n] = h[n]
      /\ g[cand].value = h[cand].value /\ g[r].value = h[r].value
      /\ g[cand].branches = h[cand].branches
      /\ DOMAIN g[r].branches = DOMAIN h[r].branches \cup {c}
  <2>1. cand[Len(r) + 1] = c
    BY <1>a, ChildIs DEF Sound
  <2>2. Take(Len(r) + i, cand) = new
    BY DEF Between
  <2> QED BY <1>1, <2>1, <2>2 DEF NodeAdded
<1>4. /\ \A n \in DOMAIN h : g[n].value = h[n].value
      /\ \A n \in DOMAIN h : DOMAIN h[n].branches \subseteq DOMAIN g[n].branches
  BY <1>3
<1>5. \A n \in DOMAIN h : IsBlank(g[n]) <=> IsBlank(h[n])
  BY <1>4 DEF IsBlank
<1>6. Filled(g)
  <2>1. ~IsBlank(g[new]) => v \in Values
    BY <1>3 DEF IsBlank
  <2> QED BY <1>3, <1>4, <1>5, <2>1 DEF Sound, Filled
<1>7. Ended(g)
  <2> SUFFICES ASSUME NEW n \in DOMAIN g \ {Root}
               PROVE  \E m \in DOMAIN g : Prefix(n, m) /\ ~IsBlank(g[m])
    BY DEF Ended
  <2>1. CASE n = new
    <3>1. PICK m \in DOMAIN h : Prefix(cand, m) /\ ~IsBlank(h[m])
      BY <1>2 DEF Sound, Ended
    <3>2. Prefix(new, m)
      <4>1. m \in Names
        BY HeapIs DEF Sound, Shaped
      <4> QED BY <1>1, <1>2, <3>1, <4>1, PrefixOrder
    <3> QED BY <1>3, <1>5, <2>1, <3>1, <3>2
  <2>2. CASE n \in DOMAIN h
    <3>1. PICK m \in DOMAIN h : Prefix(n, m) /\ ~IsBlank(h[m])
      BY <2>2 DEF Sound, Ended
    <3> QED BY <1>3, <1>5, <3>1
  <2> QED BY <1>3, <2>1, <2>2
<1>8. Forked(g, DOMAIN g \ {Root, new})
  <2> SUFFICES ASSUME NEW n \in DOMAIN h \ {Root}, IsBlank(g[n])
               PROVE  \E d, e \in DOMAIN g[n].branches : d # e
    BY <1>3 DEF Forked
  <2>1. PICK d, e \in DOMAIN h[n].branches : d # e
    BY <1>5 DEF Sound, Forked
  <2> QED BY <1>4, <2>1
<1> QED BY <1>1, <1>3, <1>4, <1>6, <1>7, <1>8 DEF Kept

-----------------------------------------------------------------------------
(* AddBranch keeps the tree sound and adds the key.                        *)

LEMMA CommonLengthIs ==
  ASSUME NEW s \in Names, NEW t \in Names, NEW i, i = CommonLength(s, t)
  PROVE  /\ i \in Nat /\ i <= Len(s) /\ i <= Len(t)
         /\ \A j \in 1 .. i : s[j] = t[j]
         /\ i < Len(s) /\ i < Len(t) => s[i + 1] # t[i + 1]
<1> DEFINE T == {n \in 0 .. Len(s) : n = Len(s) \/ n = Len(t) \/ s[n + 1] # t[n + 1]}
<1>1. Len(s) \in Nat /\ Len(t) \in Nat
  BY NameIs
<1>2. PICK n \in T : \A m \in T : n <= m
  <2>1. Len(s) \in T
    BY <1>1
  <2>2. T \subseteq Nat
    BY <1>1
  <2> HIDE DEF T
  <2> QED BY <2>1, <2>2, LeastNumber
<1>3. n \in 0 .. Len(s)
  OBVIOUS
<1>4. n <= Len(t)
  <2>1. ASSUME n > Len(t) PROVE FALSE
    <3>1. Len(t) \in T
      BY <1>1, <1>3, <2>1
    <3> QED BY <1>1, <1>2, <1>3, <2>1, <3>1
  <2> QED BY <1>1, <1>3, <2>1
<1>5. ASSUME NEW j \in 1 .. n PROVE s[j] = t[j]
  <2>1. j - 1 \in 0 .. Len(s) /\ j - 1 # Len(s) /\ j - 1 # Len(t) /\ j - 1 < n
    BY <1>1, <1>3, <1>4
  <2>2. j - 1 \notin T
    <3>1. j - 1 \in T => n <= j - 1
      BY <1>2
    <3> QED BY <1>3, <2>1, <3>1
  <2>3. s[(j - 1) + 1] = t[(j - 1) + 1]
    BY <2>1, <2>2
  <2>4. (j - 1) + 1 = j
    BY <1>3
  <2> QED BY <2>3, <2>4
<1>6. n < Len(s) /\ n < Len(t) => s[n + 1] # t[n + 1]
  BY <1>1, <1>2, <1>3
<1> HIDE DEF T
<1>7. /\ i \in 0 .. Len(s)
      /\ i <= Len(t)
      /\ \A j \in 1 .. i : s[j] = t[j]
      /\ i < Len(s) /\ i < Len(t) => s[i + 1] # t[i + 1]
  BY <1>3, <1>4, <1>5, <1>6 DEF CommonLength
<1> QED BY <1>1, <1>7

\* Where the rest of the key and the part of the child begin to differ.
Parting(h, r, key, cand, i, new) ==
  /\ i \in Nat /\ 0 < i /\ i < Len(h[cand].key)
  /\ Len(r) + i <= Len(key)
  /\ new = Take(Len(r) + i, cand)
  /\ new \in Names /\ Len(new) = Len(r) + i
  /\ Prefix(new, key)
  /\ Len(new) < Len(key) => key[Len(new) + 1] # cand[Len(new) + 1]

LEMMA PartingIs ==
  ASSUME NEW h, Shaped(h), NEW r \in DOMAIN h, NEW key \in Names,
         Prefix(r, key), Len(r) < Len(key),
         NEW c, c = key[Len(r) + 1], c \in DOMAIN h[r].branches,
         NEW cand, cand = h[r].branches[c], ~Prefix(cand, key),
         NEW s, s = Drop(Len(r), key), NEW t, t = h[cand].key,
         NEW i, i = CommonLength(s, t), NEW new, new = Take(Len(r) + i, cand)
  PROVE  Parting(h, r, key, cand, i, new)
<1>1. /\ r \in Names /\ Len(r) \in Nat
      /\ cand \in DOMAIN h /\ cand \in Names /\ Len(cand) \in Nat
      /\ Prefix(r, cand) /\ Len(r) < Len(cand)
      /\ cand[Len(r) + 1] = c
      /\ Len(t) = Len(cand) - Len(r)
      /\ \A j \in 1 .. Len(cand) - Len(r) : t[j] = cand[Len(r) + j]
  <2>1. /\ r \in DOMAIN h /\ c \in DOMAIN h[r].branches /\ cand = h[r].branches[c]
        /\ Shaped(h)
    OBVIOUS
  <2>2. t = h[cand].key
    OBVIOUS
  <2>3. /\ r \in Names /\ Len(r) \in Nat
        /\ cand \in DOMAIN h /\ cand \in Names /\ Len(cand) \in Nat
        /\ Prefix(r, cand) /\ Len(r) < Len(cand)
        /\ cand[Len(r) + 1] = c
    BY ONLY <2>1, ChildIs
  <2>4. Len(h[cand].key) = Len(cand) - Len(r)
    BY ONLY <2>1, ChildIs
  <2>5. \A j \in 1 .. Len(cand) - Len(r) : h[cand].key[j] = cand[Len(r) + j]
    BY ONLY <2>1, ChildIs
  <2> QED BY <2>2, <2>3, <2>4, <2>5
<1>2. t \in Names
  BY <1>1, HeapIs DEF Shaped
<1>3. Len(key) \in Nat
  BY NameIs
<1>p. /\ Len(r) \in Nat /\ Len(cand) \in Nat /\ Len(key) \in Nat
      /\ Len(r) < Len(cand) /\ Len(r) < Len(key)
      /\ Len(t) = Len(cand) - Len(r)
  BY <1>1, <1>3
<1>4. /\ s \in Names
      /\ Len(s) = Len(key) - Len(r)
      /\ \A j \in 1 .. Len(key) - Len(r) : s[j] = key[Len(r) + j]
  <2>1. key \in Names /\ Len(r) \in 0 .. Len(key)
    BY <1>1, <1>3
  <2>2. s = Drop(Len(r), key)
    OBVIOUS
  <2> QED BY ONLY <2>1, <2>2, DropIs
<1>5. /\ i \in Nat /\ i <= Len(s) /\ i <= Len(t)
      /\ \A j \in 1 .. i : s[j] = t[j]
      /\ i < Len(s) /\ i < Len(t) => s[i + 1] # t[i + 1]
  <2>1. s \in Names /\ i = CommonLength(s, t)
    BY <1>4
  <2> QED BY ONLY <1>2, <2>1, CommonLengthIs
<1>6. i # 0
  <2>1. s[1] = c /\ t[1] = c
    BY <1>1, <1>3, <1>4
  <2>2. ASSUME i = 0 PROVE FALSE
    <3>1. i < Len(s) /\ i < Len(t) /\ i + 1 = 1
      BY ONLY <1>p, <1>4, <2>2
    <3>2. s[i + 1] # t[i + 1]
      BY ONLY <1>5, <3>1
    <3> QED BY ONLY <2>1, <3>1, <3>2
  <2> QED BY <2>2
<1>7. \A j \in 1 .. Len(r) + i : key[j] = cand[j]
  <2> SUFFICES ASSUME NEW j \in 1 .. Len(r) + i
               PROVE  key[j] = cand[j]
    OBVIOUS
  <2>1. CASE j <= Len(r)
    BY <1>1, <2>1 DEF Prefix
  <2>2. CASE j > Len(r)
    <3> DEFINE l == j - Len(r)
    <3>1. l \in 1 .. i /\ Len(r) + l = j
      BY <1>1, <1>5, <2>2
    <3>2. l \in 1 .. Len(key) - Len(r) /\ l \in 1 .. Len(cand) - Len(r)
      <4>1. Len(s) = Len(key) - Len(r) /\ i \in Nat /\ i <= Len(s) /\ i <= Len(t)
        BY ONLY <1>4, <1>5
      <4>2. l \in 1 .. i
        BY ONLY <3>1
      <4> HIDE DEF l
      <4> QED BY ONLY <1>p, <4>1, <4>2
    <3> HIDE DEF l
    <3>3. s[l] = t[l] /\ s[l] = key[Len(r) + l] /\ t[l] = cand[Len(r) + l]
      BY <1>1, <1>4, <1>5, <3>1, <3>2
    <3> QED BY <3>1, <3>3
  <2> QED BY <1>1, <2>1, <2>2
<1>8. i < Len(t)
  <2>1. ASSUME i = Len(t) PROVE Prefix(cand, key)
    <3>1. Len(r) + i = Len(cand) /\ Len(cand) <= Len(key)
      <4>1. Len(s) = Len(key) - Len(r) /\ i \in Nat /\ i <= Len(s)
        BY ONLY <1>4, <1>5
      <4> QED BY ONLY <1>p, <2>1, <4>1
    <3> QED BY <1>7, <3>1 DEF Prefix
  <2> QED BY <1>1, <1>5, <2>1
<1>9. Len(r) + i \in 0 .. Len(cand) /\ Len(r) + i < Len(cand) /\ Len(r) + i <= Len(key)
  <2>1. Len(s) = Len(key) - Len(r) /\ i \in Nat /\ i <= Len(s)
    BY ONLY <1>4, <1>5
  <2> QED BY ONLY <1>p, <1>8, <2>1
<1>10. /\ new \in Names
       /\ Len(new) = Len(r) + i
       /\ \A j \in 1 .. Len(r) + i : new[j] = cand[j]
  BY <1>1, <1>9, TakeIs
<1>11. Prefix(new, key)
  <2>1. Len(new) <= Len(key)
    BY ONLY <1>9, <1>10
  <2>2. \A j \in 1 .. Len(new) : new[j] = key[j]
    BY ONLY <1>7, <1>10
  <2> QED BY ONLY <2>1, <2>2 DEF Prefix
<1>12. ASSUME Len(new) < Len(key)
       PROVE  key[Len(new) + 1] # cand[Len(new) + 1]
  <2>0. Len(r) + i < Len(key)
    BY ONLY <1>10, <1>12
  <2>1. i + 1 \in 1 .. Len(key) - Len(r) /\ i + 1 \in 1 .. Len(cand) - Len(r)
    BY ONLY <2>0, <1>1, <1>3, <1>5, <1>9
  <2>2. i < Len(s) /\ i < Len(t)
    BY ONLY <2>0, <1>1, <1>3, <1>4, <1>5, <1>8
  <2>3. s[i + 1] # t[i + 1]
    BY ONLY <1>5, <2>2
  <2>4. s[i + 1] = key[Len(r) + (i + 1)] /\ t[i + 1] = cand[Len(r) + (i + 1)]
    BY ONLY <1>1, <1>4, <2>1
  <2>5. Len(r) + (i + 1) = (Len(r) + i) + 1
    BY ONLY <1>1, <1>5
  <2>6. Len(r) + (i + 1) = Len(new) + 1
    BY ONLY <1>10, <2>5
  <2> QED BY ONLY <2>3, <2>4, <2>6
<1>13. i \in Nat /\ 0 < i /\ i < Len(h[cand].key)
  <2>1. t = h[cand].key
    OBVIOUS
  <2> QED BY ONLY <1>5, <1>6, <1>8, <2>1
<1>14. new = Take(Len(r) + i, cand)
  OBVIOUS
<1> QED BY ONLY <1>9, <1>10, <1>11, <1>12, <1>13, <1>14 DEF Parting

LEMMA AddBranchSound ==
  ASSUME NEW h, Sound(h), NEW r \in DOMAIN h, NEW key \in Keys, NEW v \in Values,
         Prefix(r, key), Len(r) < Len(key),
         NEW c, c = key[Len(r) + 1],
         c \in DOMAIN h[r].branches => ~Prefix(h[r].branches[c], key),
         NEW g, g = AddBranch(h, r, key, v)
  PROVE  Sound(g) /\ Stored(h, key, v, g)
<1>1. key \in Names /\ Len(key) \in Nat /\ key # Root
  BY KeyIs
<1>2. /\ Shaped(h) /\ Filled(h) /\ Ended(h)
      /\ Forked(h, DOMAIN h \ {Root})
  BY DEF Sound
<1>3. r \in Names /\ Len(r) \in Nat
  BY <1>2, HeapIs, NameIs DEF Shaped
<1> DEFINE s == Drop(Len(r), key)
           cand == h[r].branches[c]
           t == h[cand].key
           i == CommonLength(s, t)
           new == Take(Len(r) + i, cand)
<1>4. Len(s) = Len(key) - Len(r) /\ s[1] = c
  <2>1. /\ Len(s) = Len(key) - Len(r)
        /\ \A j \in 1 .. Len(key) - Len(r) : s[j] = key[Len(r) + j]
    <3>1. key \in Names /\ Len(r) \in 0 .. Len(key)
      BY <1>1, <1>3
    <3> HIDE DEF s
    <3>2. s = Drop(Len(r), key)
      BY DEF s
    <3> QED BY ONLY <3>1, <3>2, DropIs
  <2> HIDE DEF s
  <2> QED BY <1>1, <1>3, <2>1
<1>5. CASE c \notin DOMAIN h[r].branches
  <2>1. g = Leaf(h, r, key, v)
    BY <1>4, <1>5 DEF AddBranch
  <2>2. IsBlank(h[r]) /\ r # Root => DOMAIN h[r].branches # {}
    BY <1>2 DEF Forked
  <2>3. Forked(h, DOMAIN h \ {Root, r})
    BY <1>2 DEF Forked
  <2> QED BY <1>2, <1>5, <2>1, <2>2, <2>3, LeafSound
<1>6. CASE c \in DOMAIN h[r].branches
  <2>1. g = IF i = Len(s) THEN Above(h, r, cand, i, v)
            ELSE Leaf(Above(h, r, cand, i, Blank), Take(Len(r) + i, key), key, v)
    BY <1>4, <1>6 DEF AddBranch
  <2>2. Parting(h, r, key, cand, i, new)
    BY <1>1, <1>2, <1>6, PartingIs
  <2> HIDE DEF s, i, new, t, cand
  <2>3. Between(h, r, c, i, cand, new)
    BY <1>6, <2>2 DEF Between, Parting, cand
  <2>4. /\ i \in Nat
        /\ Len(r) + i <= Len(key)
        /\ new \in Names /\ Len(new) = Len(r) + i
        /\ Prefix(new, key)
        /\ Len(new) < Len(key) => key[Len(new) + 1] # cand[Len(new) + 1]
    BY <2>2 DEF Parting
  <2>5. CASE i = Len(s)
    <3>1. g = Above(h, r, cand, i, v)
      BY <2>1, <2>5
    <3>2. Len(new) = Len(key)
      BY ONLY <1>1, <1>3, <1>4, <2>4, <2>5
    <3>3. new = key
      BY <1>1, <2>4, <3>2, PrefixOrder
    <3>4. /\ Shaped(g) /\ Filled(g) /\ Ended(g)
          /\ Forked(g, DOMAIN g \ {Root, key})
          /\ DOMAIN g = DOMAIN h \cup {key} /\ key \notin DOMAIN h
          /\ g[key].value = v
          /\ \A n \in DOMAIN h : g[n].value = h[n].value
      <4>1. v \in Values \cup {Blank} /\ (v \in Values => new \in Keys)
        BY <3>3
      <4>2. Kept(h, v, cand, new, g)
        BY <2>3, <3>1, <4>1, AboveKeeps
      <4> QED BY <3>3, <4>2 DEF Kept
    <3>5. ~IsBlank(g[key])
      BY <3>4, BlankIs
    <3>6. Forked(g, DOMAIN g \ {Root})
      BY <3>4, <3>5 DEF Forked
    <3>7. Stored(h, key, v, g)
      BY <3>4 DEF Stored
    <3> QED BY <3>4, <3>6, <3>7 DEF Sound
  <2>6. CASE i # Len(s)
    <3> DEFINE m == Above(h, r, cand, i, Blank)
               e == cand[Len(new) + 1]
    <3>1. Len(new) < Len(key)
      <4>1. Len(r) + i # Len(key)
        BY ONLY <1>1, <1>3, <1>4, <2>4, <2>6
      <4> QED BY ONLY <1>1, <1>3, <2>4, <4>1
    <3>2. Take(Len(r) + i, key) = new
      <4> DEFINE u == Take(Len(new), key)
      <4>1. Len(new) \in 0 .. Len(key)
        BY <1>1, <2>4, <3>1, NameIs
      <4>2. /\ u \in Names /\ Len(u) = Len(new)
            /\ \A j \in 1 .. Len(new) : u[j] = key[j]
        BY <1>1, <4>1, TakeIs
      <4>3. \A j \in 1 .. Len(new) : new[j] = u[j]
        BY <2>4, <4>2 DEF Prefix
      <4> HIDE DEF u
      <4>4. new = u
        BY <2>4, <4>2, <4>3, SameName
      <4> QED BY <2>4, <4>4 DEF u
    <3>3. g = Leaf(m, new, key, v)
      BY <2>1, <2>6, <3>2
    <3>4. /\ Shaped(m) /\ Filled(m) /\ Ended(m)
          /\ Forked(m, DOMAIN m \ {Root, new})
          /\ DOMAIN m = DOMAIN h \cup {new} /\ new \notin DOMAIN h
          /\ m[new].value = Blank
          /\ DOMAIN m[new].branches = {e}
          /\ \A n \in DOMAIN h : m[n].value = h[n].value
      <4>1. Blank \in Values \cup {Blank} /\ (Blank \in Values => new \in Keys)
        BY TrieAssumption
      <4>2. Kept(h, Blank, cand, new, m)
        BY <2>3, <4>1, AboveKeeps
      <4> QED BY <4>2 DEF Kept
    <3> HIDE DEF m, e
    <3>5. key[Len(new) + 1] # e
      BY <2>4, <3>1 DEF e
    <3>6. Sound(g) /\ Stored(m, key, v, g)
      <4>1. new \in DOMAIN m /\ DOMAIN m[new].branches # {}
        BY <3>4
      <4>2. key[Len(new) + 1] \notin DOMAIN m[new].branches
        BY <3>4, <3>5
      <4> QED BY <2>4, <3>1, <3>3, <3>4, <4>1, <4>2, LeafSound
    <3>7. Stored(h, key, v, g)
      <4>1. new # key
        BY <1>1, <3>1
      <4>2. /\ key \in DOMAIN g /\ g[key].value = v
            /\ \A n \in DOMAIN m \ {key} : n \in DOMAIN g /\ g[n].value = m[n].value
            /\ \A n \in DOMAIN g \ (DOMAIN m \cup {key}) : IsBlank(g[n])
        BY <3>6 DEF Stored
      <4>3. IsBlank(g[new])
        BY <3>4, <4>1, <4>2 DEF IsBlank
      <4> QED BY <3>4, <4>2, <4>3 DEF Stored
    <3> QED BY <3>6, <3>7
  <2> QED BY <2>5, <2>6
<1> QED BY <1>5, <1>6

\* A search ends at the node of the key, if there is one.
LEMMA SearchFinds ==
  ASSUME NEW h, Shaped(h), NEW key \in Names, NEW at, at = Search(h, key)
  PROVE  /\ at.start = Len(key) <=> key \in DOMAIN h
         /\ key \in DOMAIN h => at.node = key
<1>1. /\ at.node \in DOMAIN h /\ at.node \in Names
      /\ at.start = Len(at.node) /\ at.start \in Nat
      /\ Prefix(at.node, key)
      /\ \A n \in DOMAIN h : Prefix(n, key) => Prefix(n, at.node)
  BY SearchLongest
<1>2. Len(key) \in Nat
  BY NameIs
<1>3. at.start = Len(key) => at.node = key
  BY <1>1, PrefixOrder
<1>4. ASSUME key \in DOMAIN h PROVE at.node = key
  <2>1. Prefix(key, key)
    BY PrefixOrder
  <2>2. Prefix(key, at.node)
    BY <1>1, <1>4, <2>1
  <2>3. Len(key) = Len(at.node)
    BY <1>1, <1>2, <2>2 DEF Prefix
  <2> QED BY <1>1, <2>3, PrefixOrder
<1> QED BY <1>1, <1>3, <1>4

LEMMA TakenIs ==
  ASSUME NEW h, Shaped(h), NEW key \in Names
  PROVE  /\ Taken(h, key) <=> key \in DOMAIN h /\ ~IsBlank(h[key])
         /\ Taken(h, key) => Search(h, key).node = key
BY SearchFinds DEF Taken

LEMMA PutSound ==
  ASSUME Sound(nodes), NEW key \in Keys, NEW v \in Values, Put(key, v)
  PROVE  Sound(nodes') /\ Stored(nodes, key, v, nodes')
<1> DEFINE at == Search(nodes, key)
<1>1. key \in Names /\ Len(key) \in Nat /\ Shaped(nodes)
  BY KeyIs DEF Sound
<1>2. CASE at.start = Len(key)
  <2>1. key \in DOMAIN nodes /\ at.node = key
    BY <1>1, <1>2, SearchFinds
  <2>2. nodes' = [nodes EXCEPT ![key].value = v]
    BY <1>2, <2>1 DEF Put
  <2> QED BY <2>1, <2>2, ValueSound
<1>3. CASE at.start # Len(key)
  <2> DEFINE r == at.node
             c == key[Len(r) + 1]
  <2>1. nodes' = AddBranch(nodes, r, key, v)
    BY <1>3 DEF Put
  <2>2. /\ r \in DOMAIN nodes /\ r \in Names
        /\ at.start = Len(r) /\ at.start \in Nat
        /\ Prefix(r, key)
        /\ \A n \in DOMAIN nodes : Prefix(n, key) => Prefix(n, r)
    BY <1>1, SearchLongest
  <2>3. Len(r) < Len(key)
    BY <1>1, <1>3, <2>2 DEF Prefix
  <2>4. ASSUME c \in DOMAIN nodes[r].branches, Prefix(nodes[r].branches[c], key)
        PROVE  FALSE
    <3> DEFINE b == nodes[r].branches[c]
    <3>1. b \in DOMAIN nodes /\ Len(r) < Len(b) /\ Len(b) \in Nat
      BY <1>1, <2>2, <2>4, ChildIs
    <3>2. Prefix(b, r)
      BY <2>2, <2>4, <3>1
    <3> QED BY <2>2, <3>1, <3>2 DEF Prefix
  <2> HIDE DEF at, r, c
  <2> QED BY <2>1, <2>2, <2>3, <2>4, AddBranchSound DEF c
<1> QED BY <1>2, <1>3

-----------------------------------------------------------------------------
(* Remove keeps the tree sound, and the key goes, if the names are apart.  *)

\* A removable key of two characters, after which no key goes on, and from
\* which those that part do so one by one.
Lone(k) ==
  /\ Len(k) > 1
  /\ \A j \in Keys \ {k} : ~Prefix(k, j)
  /\ \A i, j \in Keys : \A n \in 1 .. Len(k) - 1 :
       /\ n < Len(i) /\ n < Len(j)
       /\ \A l \in 1 .. n : i[l] = k[l]
       /\ \A l \in 1 .. n + 1 : i[l] = j[l]
       /\ i[n + 1] # k[n + 1]
       => i = j

LEMMA LoneIs ==
  ASSUME Apart(Keys, Removable), NEW k \in Removable
  PROVE  Lone(k)
BY DEF Apart, Lone

\* The keys from a node on, of which there is one that has a value.
LEMMA KeyBelow ==
  ASSUME NEW h, Sound(h), NEW n \in DOMAIN h, n # Root
  PROVE  \E m \in DOMAIN h : Prefix(n, m) /\ ~IsBlank(h[m]) /\ m \in Keys
BY DEF Sound, Ended, Filled

\* A key of that kind is a leaf.
LEMMA LoneLeaf ==
  ASSUME NEW h, Sound(h), NEW k \in Keys, Lone(k), k \in DOMAIN h
  PROVE  DOMAIN h[k].branches = {}
<1> SUFFICES ASSUME NEW c \in DOMAIN h[k].branches
             PROVE  FALSE
  OBVIOUS
<1> DEFINE b == h[k].branches[c]
<1>1. /\ b \in DOMAIN h /\ b \in Names /\ Prefix(k, b) /\ Len(k) < Len(b)
      /\ k \in Names /\ Len(k) \in Nat /\ Len(b) \in Nat
  BY ChildIs DEF Sound
<1> HIDE DEF b
<1>2. b # Root
  BY <1>1, RootIs
<1>3. PICK m \in DOMAIN h : Prefix(b, m) /\ m \in Keys
  BY <1>1, <1>2, KeyBelow
<1>4. m \in Names /\ Len(m) \in Nat
  BY <1>3, KeyIs
<1>5. Prefix(k, m)
  BY <1>1, <1>3, <1>4, PrefixOrder
<1>6. m # k
  BY <1>1, <1>3, <1>4 DEF Prefix
<1> QED BY <1>3, <1>5, <1>6 DEF Lone

\* The search for the key without its last character ends at its parent.
LEMMA SearchParent ==
  ASSUME NEW h, Shaped(h), NEW k \in DOMAIN h, Len(k) > 1,
         NEW p \in DOMAIN h, NEW c \in DOMAIN h[p].branches, h[p].branches[c] = k,
         NEW at, at = Search(h, Take(Len(k) - 1, k))
  PROVE  at.node = p /\ at.start = Len(p) /\ k[at.start + 1] = c
<1> DEFINE s == Take(Len(k) - 1, k)
<1>1. /\ p \in Names /\ k \in Names /\ Len(p) \in Nat /\ Len(k) \in Nat
      /\ Prefix(p, k) /\ Len(p) < Len(k) /\ p # k
      /\ k[Len(p) + 1] = c
  BY ChildIs
<1>2. /\ s \in Names /\ Len(s) = Len(k) - 1
      /\ \A i \in 1 .. Len(k) - 1 : s[i] = k[i]
  <2>1. Len(k) - 1 \in 0 .. Len(k)
    BY <1>1
  <2> QED BY <1>1, <2>1, TakeIs
<1> HIDE DEF s
<1>3. Prefix(s, k) /\ Prefix(p, s)
  <2>1. Len(s) <= Len(k) /\ Len(p) <= Len(s)
    BY <1>1, <1>2
  <2>2. \A i \in 1 .. Len(s) : s[i] = k[i]
    BY <1>2
  <2>3. \A i \in 1 .. Len(p) : p[i] = k[i] /\ i \in 1 .. Len(s)
    BY <1>1, <1>2 DEF Prefix
  <2> QED BY <2>1, <2>2, <2>3 DEF Prefix
<1>4. /\ at.node \in DOMAIN h /\ at.node \in Names
      /\ at.start = Len(at.node)
      /\ Prefix(at.node, s)
      /\ Prefix(p, at.node)
  BY <1>2, <1>3, SearchLongest DEF s
<1>5. Prefix(at.node, k)
  BY <1>1, <1>2, <1>3, <1>4, PrefixOrder
<1>6. at.node # k
  BY <1>1, <1>2, <1>4 DEF Prefix
<1>7. at.node = p
  BY <1>4, <1>5, <1>6, NoneBetween
<1> QED BY <1>1, <1>4, <1>7

LEMMA PrunedKeeps ==
  ASSUME NEW h, Sound(h), NEW k, DOMAIN h[k].branches = {},
         NEW p \in DOMAIN h, NEW c \in DOMAIN h[p].branches, h[p].branches[c] = k,
         NEW g, NodePruned(h, p, c, k, g)
  PROVE  /\ Shaped(g) /\ Filled(g) /\ Ended(g)
         /\ Forked(g, DOMAIN g \ {Root, p})
         /\ Erased(h, k, g)
<1>1. Shaped(h) /\ IsHeap(h)
  BY DEF Sound, Shaped
<1>2. Shaped(g)
  BY <1>1, PrunedShaped
<1>3. k \in DOMAIN h /\ k \in Names /\ k # p
  BY <1>1, ChildIs
<1>4. /\ DOMAIN g = DOMAIN h \ {k}
      /\ \A n \in DOMAIN g : g[n].value = h[n].value
      /\ \A n \in DOMAIN g \ {p} : g[n] = h[n]
  BY <1>3 DEF NodePruned
<1>5. \A n \in DOMAIN g : IsBlank(g[n]) <=> IsBlank(h[n])
  BY <1>4 DEF IsBlank
<1>6. Filled(g)
  BY <1>4, <1>5 DEF Sound, Filled
<1>7. Ended(g)
  <2> SUFFICES ASSUME NEW n \in DOMAIN g \ {Root}
               PROVE  \E m \in DOMAIN g : Prefix(n, m) /\ ~IsBlank(g[m])
    BY DEF Ended
  <2>1. n \in DOMAIN h /\ n \in Names /\ n # k
    BY <1>1, <1>4, HeapIs
  <2>2. CASE ~IsBlank(h[n])
    BY <1>5, <2>1, <2>2, PrefixOrder
  <2>3. CASE IsBlank(h[n])
    <3>1. PICK d, e \in DOMAIN h[n].branches : d # e
      BY <2>1, <2>3 DEF Sound, Forked
    <3>2. PICK f \in DOMAIN h[n].branches : f # k[Len(n) + 1]
      BY <3>1
    <3> DEFINE b == h[n].branches[f]
    <3>3. /\ b \in DOMAIN h /\ b \in Names /\ Prefix(n, b) /\ Len(n) < Len(b)
          /\ b[Len(n) + 1] = f /\ Len(n) \in Nat /\ Len(b) \in Nat
      BY <1>1, <2>1, ChildIs
    <3> HIDE DEF b
    <3>4. b # Root
      BY <3>3, RootIs
    <3>5. PICK m \in DOMAIN h : Prefix(b, m) /\ ~IsBlank(h[m])
      BY <3>3, <3>4, KeyBelow
    <3>6. m \in Names
      BY <1>1, HeapIs
    <3>7. m # k
      <4>1. Len(n) + 1 \in 1 .. Len(b)
        BY <3>3
      <4>2. m[Len(n) + 1] = f
        BY <3>3, <3>5, <4>1 DEF Prefix
      <4> QED BY <3>2, <4>2
    <3>8. Prefix(n, m)
      BY <2>1, <3>3, <3>5, <3>6, PrefixOrder
    <3> QED BY <1>4, <1>5, <3>5, <3>7, <3>8
  <2> QED BY <2>2, <2>3
<1>8. Forked(g, DOMAIN g \ {Root, p})
  BY <1>4, <1>5 DEF Sound, Forked
<1>9. Erased(h, k, g)
  BY <1>4 DEF Erased
<1> QED BY <1>2, <1>6, <1>7, <1>8, <1>9

\* Two keys below one node that part from k where that node does are one.
LEMMA OneKey ==
  ASSUME NEW k \in Keys, Lone(k),
         NEW p \in Names, p # Root, Prefix(p, k), Len(p) < Len(k),
         NEW m \in Names, Prefix(p, m), Len(p) < Len(m),
         m[Len(p) + 1] # k[Len(p) + 1],
         NEW i \in Keys, Prefix(m, i), NEW j \in Keys, Prefix(m, j)
  PROVE  i = j
<1>1. /\ Len(p) \in Nat /\ Len(k) \in Nat /\ Len(m) \in Nat
      /\ i \in Names /\ Len(i) \in Nat /\ j \in Names /\ Len(j) \in Nat
      /\ k \in Names
  BY KeyIs, NameIs
<1>2. Len(p) # 0
  BY RootIs
<1> DEFINE n == Len(p)
<1>3. n \in 1 .. Len(k) - 1
  BY <1>1, <1>2
<1>4. Len(m) <= Len(i) /\ Len(m) <= Len(j)
  BY DEF Prefix
<1>5. n < Len(i) /\ n < Len(j)
  BY <1>1, <1>4
<1>6. \A l \in 1 .. Len(m) : m[l] = i[l] /\ m[l] = j[l]
  BY DEF Prefix
<1>7. \A l \in 1 .. n : l \in 1 .. Len(m) /\ p[l] = m[l] /\ p[l] = k[l]
  BY <1>1 DEF Prefix
<1>8. \A l \in 1 .. n : i[l] = k[l]
  BY <1>6, <1>7
<1>9. \A l \in 1 .. n + 1 : l \in 1 .. Len(m)
  BY <1>1
<1>10. \A l \in 1 .. n + 1 : i[l] = j[l]
  BY <1>6, <1>9
<1>11. i[n + 1] # k[n + 1]
  <2>1. n + 1 \in 1 .. Len(m)
    BY <1>1
  <2> QED BY <1>6, <2>1
<1> HIDE DEF n
<1> QED BY <1>3, <1>5, <1>8, <1>10, <1>11 DEF Lone

\* What is left next to such a key, below a node, is a leaf with a value.
LEMMA LeafLeft ==
  ASSUME NEW h, Sound(h), NEW k \in Keys, Lone(k),
         NEW p \in DOMAIN h, p # Root,
         NEW c \in DOMAIN h[p].branches, h[p].branches[c] = k,
         NEW d \in DOMAIN h[p].branches, d # c,
         NEW m, m = h[p].branches[d]
  PROVE  /\ m \in DOMAIN h /\ m # k /\ m # p
         /\ ~IsBlank(h[m]) /\ DOMAIN h[m].branches = {}
<1>1. Shaped(h)
  BY DEF Sound
<1>2. /\ p \in Names /\ Len(p) \in Nat
      /\ Prefix(p, k) /\ Len(p) < Len(k) /\ k[Len(p) + 1] = c
  BY <1>1, ChildIs
<1>3. /\ m \in DOMAIN h /\ m \in Names /\ Len(m) \in Nat /\ m # p
      /\ Prefix(p, m) /\ Len(p) < Len(m) /\ m[Len(p) + 1] = d
  BY <1>1, ChildIs
<1>4. m # k
  BY <1>2, <1>3
<1>5. \A i, j \in Keys : Prefix(m, i) /\ Prefix(m, j) => i = j
  BY <1>2, <1>3, OneKey
<1>6. ASSUME NEW e \in DOMAIN h[m].branches
      PROVE  \E i \in Keys : /\ Prefix(m, i) /\ Len(m) < Len(i)
                             /\ i[Len(m) + 1] = e
  <2> DEFINE b == h[m].branches[e]
  <2>1. /\ b \in DOMAIN h /\ b \in Names /\ Prefix(m, b) /\ Len(m) < Len(b)
        /\ b[Len(m) + 1] = e /\ Len(b) \in Nat
    <3>1. Shaped(h) /\ m \in DOMAIN h /\ e \in DOMAIN h[m].branches
      BY <1>1, <1>3
    <3>2. b = h[m].branches[e]
      OBVIOUS
    <3> HIDE DEF b
    <3> QED BY ONLY <3>1, <3>2, ChildIs
  <2> HIDE DEF b
  <2>2. b # Root
    BY <2>1, RootIs
  <2>3. PICK i \in DOMAIN h : Prefix(b, i) /\ i \in Keys
    BY <2>1, <2>2, KeyBelow
  <2>4. i \in Names /\ Len(i) \in Nat
    BY <2>3, KeyIs
  <2>5. Prefix(m, i)
    BY <1>3, <2>1, <2>3, <2>4, PrefixOrder
  <2>6. Len(b) <= Len(i) /\ \A l \in 1 .. Len(b) : b[l] = i[l]
    BY <2>3 DEF Prefix
  <2>7. Len(m) + 1 \in 1 .. Len(b) /\ Len(m) < Len(i)
    BY <1>3, <2>1, <2>4, <2>6
  <2>8. i[Len(m) + 1] = e
    BY <2>1, <2>6, <2>7
  <2> QED BY <2>3, <2>5, <2>7, <2>8
<1>7. ~IsBlank(h[m])
  <2> SUFFICES ASSUME IsBlank(h[m]) PROVE FALSE
    OBVIOUS
  <2>1. m # Root
    BY <1>2, <1>3, RootIs
  <2>2. PICK e, f \in DOMAIN h[m].branches : e # f
    BY <1>3, <2>1 DEF Sound, Forked
  <2>3. PICK i \in Keys : Prefix(m, i) /\ i[Len(m) + 1] = e
    BY <1>6
  <2>4. PICK j \in Keys : Prefix(m, j) /\ j[Len(m) + 1] = f
    BY <1>6
  <2> QED BY <1>5, <2>2, <2>3, <2>4
<1>8. DOMAIN h[m].branches = {}
  <2> SUFFICES ASSUME NEW e \in DOMAIN h[m].branches PROVE FALSE
    OBVIOUS
  <2>1. PICK i \in Keys : Prefix(m, i) /\ Len(m) < Len(i)
    BY <1>6
  <2>2. m \in Keys /\ Prefix(m, m)
    BY <1>3, <1>7, PrefixOrder DEF Sound, Filled
  <2>3. i = m
    BY <1>5, <2>1, <2>2
  <2> QED BY <1>3, <2>1, <2>3
<1> QED BY <1>3, <1>4, <1>7, <1>8

\* A blank node that has one child left gives way to it.
GaveWay(h, p, d, m, g) ==
  /\ Sound(g)
  /\ DOMAIN g = DOMAIN h \ {p}
  /\ \A n \in DOMAIN g : g[n].value = h[n].value

LEMMA RenamedKeeps ==
  ASSUME NEW h, Shaped(h), Filled(h), Ended(h),
         NEW p \in DOMAIN h, p # Root, IsBlank(h[p]),
         Forked(h, DOMAIN h \ {Root, p}),
         NEW d, DOMAIN h[p].branches = {d},
         NEW m, m = h[p].branches[d],
         ~IsBlank(h[m]), DOMAIN h[m].branches = {},
         NEW g, g = Renamed(h, p, m, Node(h[p].key \o h[m].key, h[m].value))
  PROVE  GaveWay(h, p, d, m, g)
<1> DEFINE v == h[m].value
           x == Node(h[p].key \o h[m].key, v)
<1>1. m \in DOMAIN h /\ m # p
  BY ChildIs
<1>2. v \in Values
  BY <1>1 DEF Filled
<1>3. x \in HeapNode /\ x.value = v
  <2>1. h[p].key \in Names /\ h[m].key \in Names
    BY <1>1, HeapIs DEF Shaped
  <2>2. h[p].key \o h[m].key \in Names
    BY <2>1, JoinIs
  <2>3. v \in Values \cup {Default, Blank}
    BY <1>2
  <2> HIDE DEF v
  <2> QED BY <2>2, <2>3, NewNode
<1>4. IsHeap(h)
  BY DEF Shaped
<1>5. NodeRenamed(h, p, m, x, g)
  <2> HIDE DEF x
  <2>1. g = Renamed(h, p, m, x)
    BY DEF x
  <2> QED BY <1>1, <1>3, <1>4, <2>1, RenamedIs
<1>6. Shaped(g)
  <2> HIDE DEF v
  <2>1. x = Node(h[p].key \o h[m].key, v)
    OBVIOUS
  <2> HIDE DEF x
  <2> QED BY <1>2, <1>5, <2>1, RenamedShaped
<1> HIDE DEF x
<1>7. /\ DOMAIN g = DOMAIN h \ {p}
      /\ \A n \in DOMAIN g : g[n].value = h[n].value
      /\ \A n \in DOMAIN g \ {m} :
           DOMAIN g[n].branches = DOMAIN h[n].branches
  BY <1>3, <1>5 DEF NodeRenamed
<1>8. \A n \in DOMAIN g : IsBlank(g[n]) <=> IsBlank(h[n])
  BY <1>7 DEF IsBlank
<1>9. Filled(g)
  BY <1>7, <1>8 DEF Filled
<1>10. Ended(g)
  <2> SUFFICES ASSUME NEW n \in DOMAIN g \ {Root}
               PROVE  \E l \in DOMAIN g : Prefix(n, l) /\ ~IsBlank(g[l])
    BY DEF Ended
  <2>1. PICK l \in DOMAIN h : Prefix(n, l) /\ ~IsBlank(h[l])
    BY <1>7 DEF Ended
  <2> QED BY <1>7, <1>8, <2>1
<1>11. Forked(g, DOMAIN g \ {Root})
  <2> SUFFICES ASSUME NEW n \in DOMAIN g \ {Root}, IsBlank(g[n])
               PROVE  \E e, f \in DOMAIN g[n].branches : e # f
    BY DEF Forked
  <2>1. n # m /\ n # p /\ n \in DOMAIN h /\ IsBlank(h[n])
    BY <1>7, <1>8
  <2>2. \E e, f \in DOMAIN h[n].branches : e # f
    BY <2>1 DEF Forked
  <2> QED BY <1>7, <2>1, <2>2
<1> QED BY <1>6, <1>7, <1>9, <1>10, <1>11 DEF Sound, GaveWay

\* The set of the children that branches lead to.
LEMMA ChildrenAre ==
  ASSUME NEW b \in Branches, NEW C, C = {b[c] : c \in DOMAIN b}
  PROVE  /\ IsFiniteSet(C) /\ Cardinality(C) \in Nat
         /\ C = {} <=> DOMAIN b = {}
         /\ Cardinality(C) > 1 => \E c, d \in DOMAIN b : c # d
         /\ ~(Cardinality(C) > 1) /\ C # {} => \E m : C = {m}
<1>1. IsFiniteSet(DOMAIN b) /\ b = [c \in DOMAIN b |-> b[c]]
  BY BranchesAre
<1>2. IsFiniteSet(C)
  <2>1. b \in [DOMAIN b -> C]
    BY <1>1
  <2>2. \A t \in C : \E s \in DOMAIN b : b[s] = t
    OBVIOUS
  <2>3. b \in Surjection(DOMAIN b, C)
    BY <2>1, <2>2 DEF Surjection
  <2> QED BY <1>1, <2>3, FS_Surjection
<1>3. Cardinality(C) \in Nat
  BY <1>2, FS_CardinalityType
<1>4. ASSUME Cardinality(C) > 1
      PROVE  \E c, d \in DOMAIN b : c # d
  <2>1. Cardinality(C) # 0 /\ Cardinality(C) # 1
    BY ONLY <1>3, <1>4
  <2>2. C # {}
    BY ONLY <2>1, FS_EmptySet
  <2>3. \A x : C # {x}
    BY ONLY <2>1, FS_Singleton
  <2> QED BY <2>2, <2>3
<1>5. ASSUME ~(Cardinality(C) > 1), C # {}
      PROVE  \E m : C = {m}
  <2>1. Cardinality(C) # 0
    BY <1>2, <1>5, FS_EmptySet
  <2>2. Cardinality(C) = 1
    BY <1>3, <1>5, <2>1
  <2> QED BY <1>2, <2>2, FS_Singleton
<1> QED BY <1>2, <1>3, <1>4, <1>5

\* Only the root has an empty key.
LEMMA EmptyKey ==
  ASSUME NEW h, Shaped(h), NEW p \in DOMAIN h
  PROVE  h[p].key = <<>> <=> p = Root
<1>1. h[Root].key = <<>>
  BY DEF Shaped, Root
<1>2. ASSUME p # Root PROVE h[p].key # <<>>
  <2>1. PICK n \in DOMAIN h : \E c \in DOMAIN h[n].branches : h[n].branches[c] = p
    BY <1>2, Parent
  <2>2. PICK c \in DOMAIN h[n].branches : h[n].branches[c] = p
    BY <2>1
  <2>3. /\ Len(h[p].key) = Len(p) - Len(n)
        /\ Len(p) \in Nat /\ Len(n) \in Nat /\ Len(n) < Len(p)
    BY <2>2, ChildIs
  <2>4. Len(h[p].key) # 0
    BY <2>3
  <2> QED BY <2>4
<1> QED BY <1>1, <1>2

LEMMA RemoveBranchSound ==
  ASSUME NEW h, Sound(h), NEW key \in Keys, Lone(key), key \in DOMAIN h,
         NEW at, at = Search(h, Take(Len(key) - 1, key)),
         NEW r, r = RemoveBranch(h, at.node, key[at.start + 1])
  PROVE  /\ r.ok
         /\ Sound(r.heap)
         /\ Erased(h, key, r.heap)
<1>1. Shaped(h) /\ IsHeap(h) /\ key \in Names /\ key # Root
  BY KeyIs DEF Sound, Shaped
<1>2. DOMAIN h[key].branches = {}
  BY LoneLeaf
<1>3. PICK p \in DOMAIN h : \E c \in DOMAIN h[p].branches : h[p].branches[c] = key
  BY <1>1, Parent
<1>4. PICK c \in DOMAIN h[p].branches : h[p].branches[c] = key
  BY <1>3
<1>5. key # p
  BY <1>1, <1>4, ChildIs
<1>6. at.node = p /\ key[at.start + 1] = c
  <2>1. Len(key) > 1
    BY DEF Lone
  <2> QED BY <1>1, <1>4, <2>1, SearchParent
<1> DEFINE g == Without(Unlinked(h, p, c), key)
<1>7. r = MargeWithChildrenIfBlank(g, p)
  BY <1>2, <1>4, <1>6 DEF RemoveBranch, HasChildren
<1>8. NodePruned(h, p, c, key, g)
  BY <1>1, <1>5, PrunedIs
<1> HIDE DEF g
<1>9. /\ Shaped(g) /\ Filled(g) /\ Ended(g)
      /\ Forked(g, DOMAIN g \ {Root, p})
      /\ Erased(h, key, g)
  BY <1>2, <1>4, <1>8, PrunedKeeps
<1>10. /\ DOMAIN g = DOMAIN h \ {key}
       /\ \A n \in DOMAIN h \ {p, key} : g[n] = h[n]
       /\ g[p].value = h[p].value
       /\ DOMAIN g[p].branches = DOMAIN h[p].branches \ {c}
       /\ \A d \in DOMAIN h[p].branches \ {c} : g[p].branches[d] = h[p].branches[d]
  BY <1>8 DEF NodePruned
<1>11. p \in DOMAIN g
  BY <1>5, <1>10
<1> DEFINE C == {g[p].branches[e] : e \in DOMAIN g[p].branches}
           m == CHOOSE s \in C : TRUE
           longer == g[p].key \o g[m].key
<1>12. r = IF ~IsBlank(g[p]) \/ g[p].key = <<>> \/ Cardinality(C) > 1
           THEN [ok |-> TRUE, heap |-> g]
           ELSE IF C = {} THEN [ok |-> FALSE, heap |-> g]
           ELSE IF IsBlank(g[m])
           THEN [ok |-> FALSE, heap |-> [g EXCEPT ![p].key = longer]]
           ELSE [ok |-> TRUE,
                 heap |-> Renamed(g, p, m, Node(longer, g[m].value))]
  BY <1>7 DEF MargeWithChildrenIfBlank
<1>13. /\ C = {} <=> DOMAIN g[p].branches = {}
       /\ Cardinality(C) > 1 => \E e, f \in DOMAIN g[p].branches : e # f
       /\ ~(Cardinality(C) > 1) /\ C # {} => \E s : C = {s}
  <2>1. g[p].branches \in Branches
    BY <1>9, <1>11, HeapIs DEF Shaped
  <2> QED BY <2>1, ChildrenAre
<1>14. g[p].key = <<>> <=> p = Root
  BY <1>9, <1>11, EmptyKey
<1>15. CASE ~IsBlank(g[p]) \/ p = Root \/ Cardinality(C) > 1
  <2>1. r = [ok |-> TRUE, heap |-> g]
    BY <1>12, <1>14, <1>15
  <2>2. Forked(g, DOMAIN g \ {Root})
    BY <1>9, <1>13, <1>15 DEF Forked
  <2>3. Sound(g)
    BY <1>9, <2>2 DEF Sound
  <2>4. r.ok /\ r.heap = g
    BY <2>1
  <2> QED BY ONLY <1>9, <2>3, <2>4
<1>16. CASE IsBlank(g[p]) /\ p # Root /\ ~(Cardinality(C) > 1)
  <2>1. IsBlank(h[p])
    BY <1>10, <1>16 DEF IsBlank
  <2>2. PICK d \in DOMAIN h[p].branches : d # c
    BY <1>16, <2>1 DEF Sound, Forked
  <2>3. d \in DOMAIN g[p].branches /\ g[p].branches[d] = h[p].branches[d]
    BY <1>10, <2>2
  <2>4. C = {g[p].branches[d]}
    BY <1>13, <1>16, <2>3
  <2>5. m = g[p].branches[d]
    <3> HIDE DEF C
    <3> QED BY <2>4
  <2> HIDE DEF m
  <2>6. DOMAIN g[p].branches = {d}
    <3> SUFFICES ASSUME NEW e \in DOMAIN g[p].branches
                 PROVE  e = d
      BY <2>3
    <3>1. g[p].branches[e] = g[p].branches[d]
      BY <2>4
    <3> QED BY <1>9, <1>11, <2>3, <3>1, OneParent
  <2>7. m \in DOMAIN h /\ m # key /\ m # p /\ ~IsBlank(h[m]) /\ DOMAIN h[m].branches = {}
    <3>1. m = h[p].branches[d]
      BY <2>3, <2>5
    <3>2. Sound(h) /\ key \in Keys /\ Lone(key) /\ p \in DOMAIN h /\ p # Root
      BY <1>16
    <3> QED BY ONLY <1>4, <2>2, <3>1, <3>2, LeafLeft
  <2>8. g[m] = h[m]
    BY <1>10, <2>7
  <2> DEFINE f == Renamed(g, p, m, Node(longer, g[m].value))
  <2>9. r = [ok |-> TRUE, heap |-> f]
    BY <1>12, <1>14, <1>16, <2>4, <2>7, <2>8
  <2>10. /\ Sound(f)
         /\ DOMAIN f = DOMAIN g \ {p}
         /\ \A n \in DOMAIN f : f[n].value = g[n].value
    <3>1. ~IsBlank(g[m]) /\ DOMAIN g[m].branches = {}
      BY <2>7, <2>8
    <3>2. f = Renamed(g, p, m, Node(g[p].key \o g[m].key, g[m].value))
      OBVIOUS
    <3>3. IsBlank(g[p]) /\ p # Root
      BY <1>16
    <3> HIDE DEF f
    <3>4. GaveWay(g, p, d, m, f)
      BY ONLY <1>9, <1>11, <2>5, <2>6, <3>1, <3>2, <3>3, RenamedKeeps
    <3> QED BY ONLY <3>4 DEF GaveWay
  <2> HIDE DEF f
  <2>11. Erased(h, key, f)
    BY <1>9, <2>1, <2>10 DEF Erased
  <2>12. r.ok /\ r.heap = f
    BY <2>9
  <2> QED BY ONLY <2>10, <2>11, <2>12
<1> QED BY <1>14, <1>15, <1>16

LEMMA InitSound ==
  ASSUME Init
  PROVE  Sound(nodes) /\ \A n \in DOMAIN nodes : IsBlank(nodes[n])
<1> DEFINE x == Node(<<>>, Blank)
<1>1. <<>> \in Names /\ Root = <<>>
  BY RootIs DEF Root
<1>2. /\ x \in HeapNode /\ x.key = <<>> /\ x.value = Blank
      /\ DOMAIN x.branches = {}
  BY <1>1, NewNode
<1>3. nodes = [r \in {Root} |-> x]
  BY DEF Init
<1> HIDE DEF x
<1>4. DOMAIN nodes = {Root} /\ nodes[Root] = x
  BY <1>3
<1>5. IsHeap(nodes)
  BY <1>1, <1>2, <1>3, <1>4 DEF IsHeap
<1>6. Shaped(nodes)
  BY <1>1, <1>2, <1>4, <1>5 DEF Shaped, Routed
<1>7. \A n \in DOMAIN nodes : IsBlank(nodes[n])
  BY <1>2, <1>4 DEF IsBlank
<1>8. Filled(nodes) /\ Ended(nodes) /\ Forked(nodes, DOMAIN nodes \ {Root})
  BY <1>4, <1>7 DEF Filled, Ended, Forked
<1> QED BY <1>6, <1>7, <1>8 DEF Sound

\* What a call does.
Called(h, res, g, resAfter) ==
  \/ \E k \in Keys, v \in Values :
       Stored(h, k, v, g) /\ resAfter = "ok"
  \/ \E k \in Keys :
       Taken(h, k) /\ g = h /\ resAfter = "duplicate"
  \/ \E k \in Keys :
       /\ g = h
       /\ resAfter = IF Taken(h, k) THEN h[k].value ELSE "KeyNotFound"
  \/ \E k \in Keys :
       Taken(h, k) /\ Erased(h, k, g) /\ resAfter = "ok"
  \/ g = h /\ resAfter = res

LEMMA LoneLong ==
  ASSUME NEW k \in Keys, Lone(k)
  PROVE  Len(k) # 1
<1>1. Len(k) \in Nat
  BY KeyIs
<1>2. Len(k) > 1
  BY DEF Lone
<1>3. \A n \in Nat : n > 1 => n # 1
  OBVIOUS
<1> QED BY ONLY <1>1, <1>2, <1>3

LEMMA RemoveSound ==
  ASSUME Apart(Keys, Removable), Sound(nodes), NEW k \in Keys, Remove(k)
  PROVE  /\ Sound(nodes') /\ Taken(nodes, k) /\ Erased(nodes, k, nodes')
         /\ result' = "ok"
<1> DEFINE at == Search(nodes, Take(Len(k) - 1, k))
           r == RemoveBranch(nodes, at.node, k[at.start + 1])
<1>1. Lone(k)
  BY LoneIs DEF Remove
<1>2. Len(k) # 1
  BY <1>1, LoneLong
<1>3. Taken(nodes, k) /\ nodes' = r.heap /\ (r.ok => result' = "ok")
  BY <1>2 DEF Remove
<1>4. k \in DOMAIN nodes
  <2>1. k \in Names /\ Shaped(nodes)
    BY KeyIs DEF Sound
  <2> QED BY <1>3, <2>1, TakenIs
<1>5. r.ok /\ Sound(r.heap) /\ Erased(nodes, k, r.heap)
  BY <1>1, <1>4, RemoveBranchSound
<1> HIDE DEF r
<1> QED BY <1>3, <1>5

LEMMA CallSound ==
  ASSUME Apart(Keys, Removable), Sound(nodes), [Next]_vars
  PROVE  Sound(nodes') /\ Called(nodes, result, nodes', result')
<1>1. ASSUME NEW k \in Keys, NEW v \in Values, Put(k, v), result' = "ok"
      PROVE  Sound(nodes') /\ Called(nodes, result, nodes', result')
  <2>1. Sound(nodes') /\ Stored(nodes, k, v, nodes')
    BY <1>1, PutSound
  <2> QED BY <1>1, <2>1 DEF Called
<1>2. ASSUME NEW k \in Keys, NEW v \in Values, Add(k, v)
      PROVE  Sound(nodes') /\ Called(nodes, result, nodes', result')
  <2>1. CASE Taken(nodes, k)
    BY <1>2, <2>1 DEF Add, Called
  <2>2. CASE ~Taken(nodes, k)
    BY <1>1, <1>2, <2>2 DEF Add
  <2> QED BY <2>1, <2>2
<1>3. ASSUME NEW k \in Keys, NEW v \in Values, Set(k, v)
      PROVE  Sound(nodes') /\ Called(nodes, result, nodes', result')
  BY <1>1, <1>3 DEF Set
<1>4. ASSUME NEW k \in Keys, Get(k)
      PROVE  Sound(nodes') /\ Called(nodes, result, nodes', result')
  <2>1. Shaped(nodes) /\ k \in Names
    BY KeyIs DEF Sound
  <2>2. Taken(nodes, k) => Search(nodes, k).node = k
    BY <2>1, TakenIs
  <2>3. nodes' = nodes
    BY <1>4 DEF Get
  <2>4. result' = IF Taken(nodes, k) THEN nodes[k].value ELSE "KeyNotFound"
    BY <1>4, <2>2 DEF Get
  <2> QED BY <2>3, <2>4 DEF Called
<1>5. ASSUME NEW k \in Keys, Remove(k)
      PROVE  Sound(nodes') /\ Called(nodes, result, nodes', result')
  <2>1. /\ Sound(nodes') /\ Taken(nodes, k) /\ Erased(nodes, k, nodes')
        /\ result' = "ok"
    BY <1>5, RemoveSound
  <2> QED BY <2>1 DEF Called
<1>6. CASE UNCHANGED vars
  BY <1>6 DEF vars, Called
<1> QED BY <1>2, <1>3, <1>4, <1>5, <1>6 DEF Next

-----------------------------------------------------------------------------
(* The theorems.                                                           *)

LEMMA Invariance ==
  ASSUME Apart(Keys, Removable)
  PROVE  Spec => []Sound(nodes)
<1>1. Init => Sound(nodes)
  BY InitSound
<1>2. Sound(nodes) /\ [Next]_vars => Sound(nodes)'
  <2> SUFFICES ASSUME Sound(nodes), [Next]_vars PROVE Sound(nodes')
    BY DEF Sound, Shaped, IsHeap, Routed, IsChild, Filled, Ended, Forked, IsBlank
  <2> QED BY CallSound
<1> QED BY <1>1, <1>2, PTL DEF Spec

\* The trie of the program is compressed, in every state it can reach.
THEOREM TrieIsCompressed ==
  ASSUME Apart(Keys, Removable)
  PROVE  Spec => []Compressed
<1>1. Sound(nodes) => Compressed
  <2> SUFFICES ASSUME Sound(nodes), NEW n \in DOMAIN nodes
               PROVE  /\ ~IsBlank(nodes[n]) =>
                           n \in Keys /\ nodes[n].value \in Values
                      /\ \A c \in DOMAIN nodes[n].branches :
                           LET child == nodes[n].branches[c]
                               part == nodes[child].key
                           IN  part # <<>> /\ part[1] = c /\ child = n \o part
                      /\ IsBlank(nodes[n]) /\ n # Root =>
                           Cardinality(DOMAIN nodes[n].branches) >= 2
    BY DEF Compressed
  <2>1. Shaped(nodes)
    BY DEF Sound
  <2>2. ~IsBlank(nodes[n]) => n \in Keys /\ nodes[n].value \in Values
    BY DEF Sound, Filled
  <2>3. ASSUME NEW c \in DOMAIN nodes[n].branches, NEW b, b = nodes[n].branches[c]
        PROVE  nodes[b].key # <<>> /\ nodes[b].key[1] = c /\ b = n \o nodes[b].key
    <3> DEFINE part == nodes[b].key
    <3>1. /\ n \in Names /\ Len(n) \in Nat
          /\ b \in DOMAIN nodes /\ b \in Names /\ Len(b) \in Nat
          /\ Prefix(n, b) /\ Len(n) < Len(b)
          /\ b[Len(n) + 1] = c
          /\ Len(part) = Len(b) - Len(n)
          /\ \A i \in 1 .. Len(b) - Len(n) : part[i] = b[Len(n) + i]
      <4>1. /\ Shaped(nodes) /\ n \in DOMAIN nodes
            /\ c \in DOMAIN nodes[n].branches /\ b = nodes[n].branches[c]
        BY <2>1, <2>3
      <4>2. /\ n \in Names /\ Len(n) \in Nat
            /\ b \in DOMAIN nodes /\ b \in Names /\ Len(b) \in Nat
            /\ Prefix(n, b) /\ Len(n) < Len(b)
            /\ b[Len(n) + 1] = c
        BY ONLY <4>1, ChildIs
      <4>3. Len(nodes[b].key) = Len(b) - Len(n)
        BY ONLY <4>1, ChildIs
      <4>4. \A i \in 1 .. Len(b) - Len(n) : nodes[b].key[i] = b[Len(n) + i]
        BY ONLY <4>1, ChildIs
      <4> QED BY ONLY <4>2, <4>3, <4>4
    <3>2. part \in Names
      BY <2>1, <3>1, HeapIs DEF Shaped
    <3> HIDE DEF part
    <3>3. Len(part) # 0 /\ part[1] = c
      BY <3>1
    <3>4. /\ n \o part \in Names
          /\ Len(n \o part) = Len(n) + Len(part)
          /\ \A i \in 1 .. Len(n) : (n \o part)[i] = n[i]
          /\ \A i \in 1 .. Len(part) : (n \o part)[Len(n) + i] = part[i]
      BY <3>1, <3>2, JoinIs
    <3> DEFINE s == n \o part
    <3>5. s \in Names /\ Len(s) = Len(b)
      BY <3>1, <3>4
    <3>6. ASSUME NEW i \in 1 .. Len(b) PROVE s[i] = b[i]
      <4>1. CASE i <= Len(n)
        <5>1. i \in 1 .. Len(n)
          BY <3>1, <4>1
        <5> QED BY <3>1, <3>4, <5>1 DEF Prefix
      <4>2. CASE i > Len(n)
        <5> DEFINE l == i - Len(n)
        <5>1. l \in 1 .. Len(b) - Len(n) /\ i = Len(n) + l
          BY <3>1, <4>2
        <5> HIDE DEF l
        <5> QED BY <3>1, <3>4, <5>1
      <4> QED BY <3>1, <4>1, <4>2
    <3> HIDE DEF s
    <3>7. s = b
      BY <3>1, <3>5, <3>6, SameName
    <3> QED BY <3>3, <3>7 DEF s, part
  <2>4. ASSUME IsBlank(nodes[n]), n # Root
        PROVE  Cardinality(DOMAIN nodes[n].branches) >= 2
    <3> DEFINE D == DOMAIN nodes[n].branches
    <3>1. PICK c, d \in D : c # d
      BY <2>4 DEF Sound, Forked
    <3>2. IsFiniteSet(D)
      BY <2>1, HeapIs DEF Shaped
    <3> HIDE DEF D
    <3>3. Cardinality(D) \in Nat
      BY <3>2, FS_CardinalityType
    <3>4. Cardinality(D) # 0 /\ Cardinality(D) # 1
      BY <3>1, <3>2, FS_EmptySet, FS_Singleton
    <3>5. Cardinality(D) >= 2
      BY <3>3, <3>4
    <3> QED BY <3>5 DEF D
  <2> QED BY <2>2, <2>3, <2>4
<1>2. Spec => []Sound(nodes)
  BY Invariance
<1> QED BY <1>1, <1>2, PTL

\* A name that has been removed is not found, and can be added again.
THEOREM TrieRemoves ==
  ASSUME Apart(Keys, Removable)
  PROVE  Spec => RemovedCanBeAdded
<1>1. Sound(nodes) /\ [Next]_vars =>
        [\A k \in Keys : Remove(k) => ~Taken(nodes, k)']_vars
  <2> SUFFICES ASSUME Sound(nodes), NEW k \in Keys, Remove(k)
               PROVE  ~Taken(nodes, k)'
    OBVIOUS
  <2>1. Sound(nodes') /\ Erased(nodes, k, nodes')
    BY RemoveSound
  <2>2. Shaped(nodes') /\ k \in Names
    BY <2>1, KeyIs DEF Sound
  <2>3. ~Taken(nodes', k)
    BY <2>1, <2>2, TakenIs DEF Erased
  <2> QED BY <2>3 DEF Taken, Search, Onward, Follows, Below, Candidate, IsBlank
<1>2. Spec => []Sound(nodes)
  BY Invariance
<1> QED BY <1>1, <1>2, PTL DEF Spec, RemovedCanBeAdded

-----------------------------------------------------------------------------
(* The refinement of module Dictionary.                                    *)

\* The names that hold a value in a heap, and their values.
Held(h) == {n \in DOMAIN h : ~IsBlank(h[n])}
DictOf(h) == [n \in Held(h) |-> h[n].value]
PutIn(dict, k, v) == [j \in DOMAIN dict \cup {k} |-> IF j = k THEN v ELSE dict[j]]
TakeOut(dict, k) == [j \in DOMAIN dict \ {k} |-> dict[j]]

LEMMA HeldIs ==
  ASSUME NEW h, Sound(h), NEW k \in Keys
  PROVE  Taken(h, k) <=> k \in Held(h)
<1>1. Shaped(h) /\ k \in Names
  BY KeyIs DEF Sound
<1> QED BY <1>1, TakenIs DEF Held

LEMMA DictStored ==
  ASSUME NEW h, NEW k, NEW v \in Values, NEW g, Stored(h, k, v, g)
  PROVE  DictOf(g) = PutIn(DictOf(h), k, v)
<1>1. Held(g) = Held(h) \cup {k}
  BY BlankIs DEF Stored, Held, IsBlank
<1>2. \A j \in Held(g) : g[j].value = IF j = k THEN v ELSE h[j].value
  BY <1>1 DEF Stored, Held
<1> QED BY <1>1, <1>2 DEF DictOf, PutIn

LEMMA DictErased ==
  ASSUME NEW h, NEW k, NEW g, Erased(h, k, g)
  PROVE  DictOf(g) = TakeOut(DictOf(h), k)
<1>1. Held(g) = Held(h) \ {k}
  BY DEF Erased, Held, IsBlank
<1>2. \A j \in Held(g) : g[j].value = h[j].value
  BY DEF Erased, Held
<1> QED BY <1>1, <1>2 DEF DictOf, TakeOut

dictOf == [n \in {m \in DOMAIN nodes : ~IsBlank(nodes[m])} |-> nodes[n].value]

LEMMA DictNow == dictOf = DictOf(nodes)
BY DEF dictOf, DictOf, Held

LEMMA DictNext == dictOf' = DictOf(nodes')
BY DEF dictOf, DictOf, Held, IsBlank

LEMMA PromiseInit == Init => Promise!Init
<1> SUFFICES ASSUME Init
             PROVE  dictOf = [k \in {} |-> "KeyNotFound"] /\ result = "ok"
  BY DEF Promise!Init, dictOf
<1>1. Held(nodes) = {}
  BY InitSound DEF Held
<1>2. DictOf(nodes) = [k \in {} |-> "KeyNotFound"]
  BY <1>1 DEF DictOf
<1> QED BY <1>2, DictNow DEF Init

LEMMA PromiseStep ==
  ASSUME Apart(Keys, Removable), Sound(nodes), [Next]_vars
  PROVE  [Promise!Next]_<<dictOf, result>>
<1>1. CASE \E k \in Keys, v \in Values :
             Stored(nodes, k, v, nodes') /\ result' = "ok"
  <2>1. PICK k \in Keys, v \in Values :
          Stored(nodes, k, v, nodes') /\ result' = "ok"
    BY <1>1
  <2>2. dictOf' = [j \in DOMAIN dictOf \cup {k} |->
                     IF j = k THEN v ELSE dictOf[j]]
    <3>1. DictOf(nodes') = PutIn(DictOf(nodes), k, v)
      BY <2>1, DictStored
    <3>2. dictOf = DictOf(nodes) /\ dictOf' = DictOf(nodes')
      BY DictNow, DictNext
    <3> QED BY ONLY <3>1, <3>2 DEF PutIn
  <2>3. Promise!Set(k, v)
    BY <2>1, <2>2 DEF Promise!Set, Promise!With, dictOf
  <2> QED BY <2>3 DEF Promise!Next
<1>2. CASE \E k \in Keys :
             Taken(nodes, k) /\ nodes' = nodes /\ result' = "duplicate"
  <2>1. PICK k \in Keys :
          Taken(nodes, k) /\ nodes' = nodes /\ result' = "duplicate"
    BY <1>2
  <2>2. k \in DOMAIN dictOf /\ dictOf' = dictOf
    BY <2>1, HeldIs, DictNow, DictNext DEF DictOf
  <2>3. PICK v \in Values : TRUE
    BY <2>1, HeldIs DEF Held, Sound, Filled
  <2>4. Promise!Add(k, v)
    BY <2>1, <2>2 DEF Promise!Add, dictOf
  <2> QED BY <2>3, <2>4 DEF Promise!Next
<1>3. CASE \E k \in Keys :
             /\ nodes' = nodes
             /\ result' = IF Taken(nodes, k) THEN nodes[k].value ELSE "KeyNotFound"
  <2>1. PICK k \in Keys :
          /\ nodes' = nodes
          /\ result' = IF Taken(nodes, k) THEN nodes[k].value ELSE "KeyNotFound"
    BY <1>3
  <2>2. dictOf' = dictOf
    BY <2>1, DictNow, DictNext
  <2>3. result' = IF k \in DOMAIN dictOf THEN dictOf[k] ELSE "KeyNotFound"
    <3>1. DOMAIN dictOf = Held(nodes) /\ \A n \in Held(nodes) : dictOf[n] = nodes[n].value
      BY DictNow DEF DictOf
    <3> QED BY <2>1, <3>1, HeldIs
  <2>4. Promise!Get(k)
    BY <2>2, <2>3 DEF Promise!Get, dictOf
  <2> QED BY <2>4 DEF Promise!Next
<1>4. CASE \E k \in Keys :
             /\ Taken(nodes, k) /\ Erased(nodes, k, nodes')
             /\ result' = "ok"
  <2>1. PICK k \in Keys : Erased(nodes, k, nodes') /\ result' = "ok"
    BY <1>4
  <2>2. dictOf' = [j \in DOMAIN dictOf \ {k} |-> dictOf[j]]
    <3>1. DictOf(nodes') = TakeOut(DictOf(nodes), k)
      BY <2>1, DictErased
    <3>2. dictOf = DictOf(nodes) /\ dictOf' = DictOf(nodes')
      BY DictNow, DictNext
    <3> QED BY ONLY <3>1, <3>2 DEF TakeOut
  <2>3. Promise!Remove(k)
    BY <2>1, <2>2 DEF Promise!Remove, dictOf
  <2> QED BY <2>3 DEF Promise!Next
<1>5. CASE nodes' = nodes /\ result' = result
  BY <1>5, DictNow, DictNext
<1> QED BY <1>1, <1>2, <1>3, <1>4, <1>5, CallSound DEF Called

\* Callers of the trie see the dictionary that module Dictionary describes.
THEOREM TrieImplementsDictionary ==
  ASSUME Apart(Keys, Removable)
  PROVE  Spec => RefinesDictionary
<1>1. Init => Promise!Init
  BY PromiseInit
<1>2. Sound(nodes) /\ [Next]_vars => [Promise!Next]_<<dictOf, result>>
  BY PromiseStep
<1>3. Sound(nodes) /\ [Next]_vars =>
        [Promise!Next]_<<[n \in {m \in DOMAIN nodes : ~IsBlank(nodes[m])} |->
                            nodes[n].value], result>>
  BY <1>2 DEF dictOf
<1>4. Spec => []Sound(nodes)
  BY Invariance
<1> QED BY <1>1, <1>3, <1>4, PTL DEF Spec, RefinesDictionary, Promise!Spec
=============================================================================
