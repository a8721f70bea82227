-------------------------- MODULE Inttable_proofs --------------------------
(***************************************************************************)
(* Proofs about module Inttable, for any keys and values and any table of  *)
(* prime sizes, as long as no key is put twice: every key in the table is  *)
(* found, Count is the number of keys, an enumeration that is not thrown   *)
(* out shows every key once, and the table implements a dictionary.        *)
(***************************************************************************)
EXTENDS Inttable, FiniteSetTheorems, WellFoundedInduction, TLAPS

-----------------------------------------------------------------------------
(* Numbers.                                                                *)

\* A set of natural numbers has a least element.
LEMMA LeastNumber ==
  ASSUME NEW T, T \subseteq Nat, T # {}
  PROVE  \E x \in T : \A y \in T : x <= y
<1> DEFINE R == {p \in Nat \X Nat : p[1] < p[2]}
<1>1. IsWellFoundedOn(R, Nat)
  BY NatLessThanWellFounded DEF OpToRel
<1>2. \A x, y \in Nat : y < x => <<y, x>> \in R
  <2> SUFFICES ASSUME NEW x \in Nat, NEW y \in Nat, y < x
               PROVE  <<y, x>> \in R
    OBVIOUS
  <2> DEFINE p == <<y, x>>
  <2>1. p \in Nat \X Nat /\ p[1] < p[2]
    OBVIOUS
  <2> HIDE DEF p
  <2>2. p \in R
    BY <2>1
  <2> QED BY <2>2 DEF p
<1> HIDE DEF R
<1>3. PICK x \in T : \A y \in T : <<y, x>> \notin R
  BY <1>1, WFMin
<1>4. \A y \in T : ~(y < x)
  BY <1>2, <1>3
<1> QED BY <1>3, <1>4

LEMMA MinIsLeast ==
  ASSUME NEW T, T \subseteq Nat, T # {}
  PROVE  Min(T) \in T /\ \A y \in T : Min(T) <= y
BY LeastNumber DEF Min

\* What the search for the first place of a probe yields.
LEMMA FirstIs ==
  ASSUME NEW n \in Nat, NEW T, T \subseteq 0 .. n - 1, NEW x, x = Min(T \cup {n})
  PROVE  /\ x \in 0 .. n /\ (T # {} => x < n) /\ (x < n => x \in T)
         /\ \A y \in T : x <= y
<1> DEFINE U == T \cup {n}
<1>1. U \subseteq Nat /\ U # {} /\ \A y \in U : y = n \/ (y \in T /\ y \in 0 .. n - 1)
  OBVIOUS
<1>2. \A y \in T : y \in U /\ y \in 0 .. n - 1
  OBVIOUS
<1> HIDE DEF U
<1>3. x \in U /\ \A y \in U : x <= y
  BY <1>1, MinIsLeast DEF U
<1>4. x \in 0 .. n /\ \A y \in T : x <= y
  BY <1>1, <1>2, <1>3
<1>5. x < n => x \in T
  BY <1>1, <1>3
<1>6. ASSUME T # {} PROVE x < n
  <2>1. PICK y \in T : TRUE
    BY <1>6
  <2> QED BY <1>2, <1>4, <2>1
<1> QED BY <1>4, <1>5, <1>6

LEMMA DivMod ==
  ASSUME NEW x \in Int, NEW p \in Nat, p > 0
  PROVE  /\ x \div p \in Int /\ x % p \in 0 .. p - 1
         /\ x = (p * (x \div p)) + (x % p)
OBVIOUS

LEMMA ModUnique ==
  ASSUME NEW p \in Nat, p > 0, NEW k \in Int, NEW r \in 0 .. p - 1,
         NEW x, x = (p * k) + r
  PROVE  x % p = r
OBVIOUS

\* A prime divides no product of two smaller numbers.
LEMMA NoMultiple ==
  ASSUME NEW p \in Nat, p >= 2, \A a, b \in 2 .. p - 1 : a * b # p,
         NEW s \in 1 .. p - 1, NEW d \in 1 .. p - 1
  PROVE  (d * s) % p # 0
<1> SUFFICES ASSUME (d * s) % p = 0 PROVE FALSE
  OBVIOUS
<1> DEFINE T == {e \in 1 .. p - 1 : (e * s) % p = 0}
<1>1. T \subseteq Nat /\ d \in T
  OBVIOUS
<1>2. PICK m \in T : \A e \in T : m <= e
  BY <1>1, LeastNumber
<1>3. m \in Nat /\ m > 0 /\ m < p /\ (m * s) % p = 0
  BY <1>2
<1> DEFINE q == p \div m
           r == p % m
<1>4. q \in Int /\ r \in 0 .. m - 1 /\ p = (m * q) + r
  BY <1>3, DivMod
<1> DEFINE k == (m * s) \div p
<1>5. k \in Int /\ m * s = p * k
  <2>1. m * s \in Int
    BY <1>3
  <2>2. k \in Int /\ m * s = (p * k) + ((m * s) % p)
    BY <2>1, DivMod
  <2> HIDE DEF k
  <2> QED BY <1>3, <2>1, <2>2
<1> HIDE DEF q, r, k
<1>6. r = 0
  <2> SUFFICES ASSUME r # 0 PROVE FALSE
    OBVIOUS
  <2>1. r * s = p * (s - q * k)
    <3>1. r = p - m * q
      BY <1>3, <1>4
    <3>2. r * s = (p * s) - ((m * q) * s)
      BY <1>3, <1>4, <3>1
    <3>3. (m * q) * s = q * (m * s)
      BY <1>3, <1>4
    <3>4. q * (m * s) = q * (p * k)
      BY <1>5
    <3>5. q * (p * k) = p * (q * k)
      BY <1>4, <1>5
    <3>6. (p * s) - (p * (q * k)) = p * (s - q * k)
      BY <1>4, <1>5
    <3> QED BY <3>2, <3>3, <3>4, <3>5, <3>6
  <2>2. (r * s) % p = 0
    <3>1. s - q * k \in Int
      BY <1>4, <1>5
    <3> DEFINE j == s - q * k
               x == r * s
    <3>2. j \in Int /\ x = (p * j) + 0
      BY <2>1, <3>1
    <3> HIDE DEF j, x
    <3>3. x % p = 0
      BY <3>2, ModUnique
    <3> QED BY <3>3 DEF x
  <2>3. r \in T
    BY <1>3, <1>4, <2>2
  <2> QED BY <1>2, <1>3, <1>4, <2>3
<1>7. m * q = p
  BY <1>3, <1>4, <1>6
<1>8. m = 1
  <2> SUFFICES ASSUME m >= 2 PROVE FALSE
    BY <1>3
  <2>0. \A a, b \in 2 .. p - 1 : a * b # p
    OBVIOUS
  <2>1. q >= 2
    <3>1. q # 1
      BY <1>3, <1>7
    <3>2. q > 0
      BY <1>3, <1>4, <1>7
    <3> QED BY <1>4, <3>1, <3>2
  <2>2. q < p
    <3>1. (m - 1) * q > 0
      BY <1>3, <1>4, <2>1
    <3>2. (m - 1) * q = p - q
      BY <1>3, <1>4, <1>7
    <3> QED BY <1>4, <3>1, <3>2
  <2>3. m \in 2 .. p - 1 /\ q \in 2 .. p - 1
    BY <1>3, <1>4, <2>1, <2>2
  <2> QED BY <1>7, <2>0, <2>3, Zenon
<1>9. s % p = 0
  BY <1>3, <1>8
<1>10. s % p = s
  <2>1. s = (p * 0) + s
    OBVIOUS
  <2> QED BY <2>1, ModUnique
<1> QED BY <1>9, <1>10

-----------------------------------------------------------------------------
(* The probe of a hash value visits every slot once.                       *)

LEMMA SizeFacts ==
  ASSUME NEW n \in Sizes
  PROVE  n \in Nat /\ n >= 3 /\ \A a, b \in 2 .. n - 1 : a * b # n
<1>1. PICK i \in 1 .. Len(PrimeTbl) : n = PrimeTbl[i]
  BY DEF Sizes
<1>2. n \in Nat
  BY <1>1, PrimeAssumption
<1> QED BY <1>2, PrimeAssumption

LEMMA ProbeSlots ==
  ASSUME NEW n \in Sizes, NEW h \in Nat
  PROVE  /\ n \in Nat /\ Step(h, n) \in 1 .. n - 1 /\ h % n \in 0 .. n - 1
         /\ Probe(h, n) = [j \in 0 .. n - 1 |-> ((h % n) + (j * Step(h, n))) % n]
         /\ Probe(h, n) \in [0 .. n - 1 -> 0 .. n - 1]
<1>1. n \in Nat /\ n >= 3
  BY SizeFacts
<1>2. h % n \in 0 .. n - 1
  BY <1>1, DivMod
<1>3. Step(h, n) \in 1 .. n - 1
  <2> DEFINE a == (h \div 32) + 1
             m == n - 1
  <2>1. a \in Int /\ m \in Nat /\ m > 0
    BY <1>1
  <2> HIDE DEF a, m
  <2>2. a % m \in 0 .. m - 1
    BY <2>1, DivMod
  <2>3. Step(h, n) = (a % m) + 1
    BY DEF Step, a, m
  <2> QED BY <1>1, <2>2, <2>3 DEF m
<1> DEFINE s == Step(h, n)
           a == h % n
<1>4. Probe(h, n) = [j \in 0 .. n - 1 |-> (a + (j * s)) % n]
  BY DEF Probe
<1> HIDE DEF s, a
<1>5. \A j \in 0 .. n - 1 : (a + (j * s)) % n \in 0 .. n - 1
  <2> SUFFICES ASSUME NEW j \in 0 .. n - 1 PROVE (a + (j * s)) % n \in 0 .. n - 1
    OBVIOUS
  <2> DEFINE x == a + (j * s)
  <2>1. x \in Int
    BY <1>2, <1>3 DEF a, s
  <2> HIDE DEF x
  <2>2. x % n \in 0 .. n - 1
    BY <1>1, <2>1, DivMod
  <2> QED BY <2>2 DEF x
<1>6. Probe(h, n) \in [0 .. n - 1 -> 0 .. n - 1]
  BY <1>4, <1>5
<1> QED BY <1>1, <1>2, <1>3, <1>4, <1>6 DEF s, a

LEMMA ProbeApart ==
  ASSUME NEW n \in Sizes, NEW h \in Nat, NEW i \in 0 .. n - 1, NEW j \in 0 .. n - 1,
         i < j
  PROVE  Probe(h, n)[i] # Probe(h, n)[j]
<1> SUFFICES ASSUME Probe(h, n)[i] = Probe(h, n)[j] PROVE FALSE
  OBVIOUS
<1> DEFINE s == Step(h, n)
           a == h % n
           x == a + (i * s)
           y == a + (j * s)
           d == j - i
<1>0. /\ s \in 1 .. n - 1 /\ a \in 0 .. n - 1
      /\ Probe(h, n) = [e \in 0 .. n - 1 |-> (a + (e * s)) % n]
  BY ProbeSlots
<1> HIDE DEF s, a
<1>1. /\ n \in Nat /\ n >= 2 /\ s \in 1 .. n - 1 /\ a \in 0 .. n - 1
      /\ \A b, c \in 2 .. n - 1 : b * c # n
  <2>1. n \in Nat /\ n >= 3 /\ \A b, c \in 2 .. n - 1 : b * c # n
    BY SizeFacts
  <2> QED BY <1>0, <2>1
<1>2. x % n = y % n
  <2>1. Probe(h, n)[i] = x % n
    BY <1>0
  <2>2. Probe(h, n)[j] = y % n
    BY <1>0
  <2> QED BY <2>1, <2>2
<1>3. d \in 1 .. n - 1 /\ x \in Int /\ y \in Int /\ y - x = d * s
  BY <1>1
<1> HIDE DEF x, y, d
<1>4. /\ x = (n * (x \div n)) + (x % n) /\ x \div n \in Int
      /\ y = (n * (y \div n)) + (y % n) /\ y \div n \in Int
  BY <1>1, <1>3, DivMod
<1> DEFINE k == (y \div n) - (x \div n)
           z == d * s
<1>5. k \in Int /\ z = (n * k) + 0
  <2> DEFINE u == x \div n
             v == y \div n
             r == x % n
  <2>1. /\ u \in Int /\ v \in Int /\ r \in Int /\ x = (n * u) + r /\ y = (n * v) + r
        /\ k = v - u /\ z = y - x
    BY <1>1, <1>2, <1>3, <1>4, DivMod
  <2> HIDE DEF u, v, r, k, z
  <2>2. n * (v - u) = (n * v) - (n * u)
    BY <1>1, <2>1
  <2> QED BY <1>1, <2>1, <2>2
<1> HIDE DEF k, z
<1>6. z % n = 0
  BY <1>1, <1>5, ModUnique
<1>7. (d * s) % n # 0
  BY <1>1, <1>3, NoMultiple
<1> QED BY <1>6, <1>7 DEF z

LEMMA ProbeVisits ==
  ASSUME NEW n \in Sizes, NEW h \in Nat, NEW x \in 0 .. n - 1
  PROVE  \E j \in 0 .. n - 1 : Probe(h, n)[j] = x
<1> DEFINE S == 0 .. n - 1
           f == Probe(h, n)
<1>1. n \in Nat /\ f \in [S -> S]
  BY ProbeSlots
<1>2. \A i, j \in S : f[i] = f[j] => i = j
  <2> SUFFICES ASSUME NEW i \in S, NEW j \in S, i # j PROVE f[i] # f[j]
    OBVIOUS
  <2>1. i < j \/ j < i
    BY <1>1
  <2> QED BY <2>1, ProbeApart
<1> HIDE DEF f
<1>3. IsFiniteSet(S) /\ f \in Injection(S, S)
  <2>1. IsFiniteSet(S)
    BY <1>1, FS_Interval
  <2> HIDE DEF S
  <2>2. f \in Injection(S, S)
    BY <1>1, <1>2 DEF Injection, IsInjective
  <2> QED BY <2>1, <2>2
<1> HIDE DEF S
<1>4. f \in Surjection(S, S)
  BY <1>3, FS_Injection
<1>5. \E j \in S : f[j] = x
  BY <1>4 DEF Surjection, S
<1> QED BY <1>5 DEF S, f

-----------------------------------------------------------------------------
(* Tables of n slots.                                                      *)

SlotState ==
  [key : Keys \cup {NullKey, RemovedKey}, value : Values \cup {Default},
   hash : Nat, chain : BOOLEAN]
Table(t, n) == n \in Sizes /\ t \in [0 .. n - 1 -> SlotState]

LiveIn(t) == {i \in DOMAIN t : IsKey(t[i])}

\* A search goes on behind such a slot.
Passed(slot) == slot.chain /\ slot.key # NullKey

\* The probe of hash value h comes to slot i, and goes on until then.
KeptAt(t, n, h, i) ==
  \E j \in 0 .. n - 1 :
    /\ Probe(h, n)[j] = i
    /\ \A a \in 0 .. j - 1 : Passed(t[Probe(h, n)[a]])

Good(t, n) ==
  /\ Table(t, n)
  /\ \A i \in LiveIn(t) : t[i].hash = Hash(t[i].key) /\ KeptAt(t, n, t[i].hash, i)
  /\ \A i, j \in LiveIn(t) : t[i].key = t[j].key => i = j

LEMMA KeyFacts ==
  /\ NullKey \notin Keys /\ RemovedKey \notin Keys /\ NullKey # RemovedKey
  /\ \A k \in Keys : k \in Int /\ Hash(k) \in Nat
  /\ Default \notin Values
<1>1. MaxValue \in Int /\ MaxValue > 0
  BY SMT DEF MaxValue
<1>2. ASSUME NEW k \in Keys PROVE k \in Int /\ k >= -MaxValue /\ k # NullKey /\ k # RemovedKey
  BY <1>1, TableAssumption, SMT
<1>3. ASSUME NEW k \in Keys PROVE Hash(k) \in Nat
  BY <1>1, <1>2, SMT DEF Hash
<1> QED BY <1>2, <1>3, TableAssumption DEF NullKey, RemovedKey

LEMMA TableFacts ==
  ASSUME NEW n, NEW t, Table(t, n)
  PROVE  /\ n \in Nat /\ n >= 3 /\ DOMAIN t = 0 .. n - 1 /\ SizeOf(t) = n
         /\ IsFiniteSet(0 .. n - 1) /\ Cardinality(0 .. n - 1) = n
         /\ \A i \in 0 .. n - 1 : t[i] \in SlotState
         /\ \A i : i \in LiveIn(t) <=> i \in 0 .. n - 1 /\ t[i].key \in Keys
<1>1. n \in Nat /\ n >= 3 /\ DOMAIN t = 0 .. n - 1
  BY SizeFacts DEF Table
<1>2. IsFiniteSet(0 .. n - 1) /\ Cardinality(0 .. n - 1) = n
  BY <1>1, FS_Interval
<1>3. \A i \in 0 .. n - 1 : t[i] \in SlotState
  BY DEF Table
<1>4. \A i : i \in LiveIn(t) <=> i \in 0 .. n - 1 /\ t[i].key \in Keys
  BY <1>1, <1>3, KeyFacts DEF LiveIn, IsKey, SlotState
<1> QED BY <1>1, <1>2, <1>3, <1>4 DEF SizeOf

LEMMA KeptFrame ==
  ASSUME NEW n, NEW t, NEW g, Table(t, n), Table(g, n), NEW h \in Nat, NEW i,
         KeptAt(t, n, h, i), \A a \in 0 .. n - 1 : Passed(t[a]) => Passed(g[a])
  PROVE  KeptAt(g, n, h, i)
<1> DEFINE f == Probe(h, n)
<1>1. n \in Nat /\ f \in [0 .. n - 1 -> 0 .. n - 1]
  BY ProbeSlots DEF Table
<1>2. PICK j \in 0 .. n - 1 : f[j] = i /\ \A a \in 0 .. j - 1 : Passed(t[f[a]])
  BY DEF KeptAt
<1> HIDE DEF f
<1>3. \A a \in 0 .. j - 1 : a \in 0 .. n - 1
  BY <1>1, <1>2
<1>4. \A a \in 0 .. j - 1 : Passed(g[f[a]])
  BY <1>1, <1>2, <1>3
<1> QED BY <1>2, <1>4 DEF f, KeptAt

\* A table stays good if no search is cut off and the keys that are new or
\* elsewhere are right.
LEMMA GoodFrame ==
  ASSUME NEW n, NEW t, NEW g, Good(t, n), Table(g, n),
         \A a \in 0 .. n - 1 : Passed(t[a]) => Passed(g[a]),
         \A i \in LiveIn(g) :
           \/ i \in LiveIn(t) /\ g[i].key = t[i].key /\ g[i].hash = t[i].hash
           \/ g[i].hash = Hash(g[i].key) /\ KeptAt(g, n, g[i].hash, i),
         \A i, j \in LiveIn(g) : g[i].key = g[j].key => i = j
  PROVE  Good(g, n)
<1>1. ASSUME NEW i \in LiveIn(g)
      PROVE  g[i].hash = Hash(g[i].key) /\ KeptAt(g, n, g[i].hash, i)
  <2>1. CASE i \in LiveIn(t) /\ g[i].key = t[i].key /\ g[i].hash = t[i].hash
    <3>1. t[i].hash = Hash(t[i].key) /\ KeptAt(t, n, t[i].hash, i) /\ Table(t, n)
      BY <2>1 DEF Good
    <3>2. t[i].hash \in Nat
      BY <2>1, <3>1, TableFacts DEF SlotState
    <3>3. KeptAt(g, n, t[i].hash, i)
      BY <3>1, <3>2, KeptFrame
    <3> QED BY <2>1, <3>1, <3>3
  <2>2. CASE g[i].hash = Hash(g[i].key) /\ KeptAt(g, n, g[i].hash, i)
    BY <2>2
  <2> QED BY <2>1, <2>2
<1> QED BY <1>1 DEF Good

\* g is t with markers in the slots of P.
MarkedAs(g, t, n, P) ==
  \A i \in 0 .. n - 1 :
    /\ g[i].key = t[i].key /\ g[i].value = t[i].value /\ g[i].hash = t[i].hash
    /\ g[i].chain <=> (t[i].chain \/ i \in P)

\* g is t with another key and value in slot i.
PutAs(g, t, n, i, k, v) ==
  \A j \in 0 .. n - 1 : /\ g[j].key = IF j = i THEN k ELSE t[j].key
                        /\ g[j].value = IF j = i THEN v ELSE t[j].value

\* The slots with keys, after k is put in slot i of t.
LiveAfter(t, k, i) == IF k \in Keys THEN LiveIn(t) \cup {i} ELSE LiveIn(t)

\* Marking slots that are in use disturbs no search.
LEMMA MarkedGood ==
  ASSUME NEW n, NEW t, Good(t, n), NEW P, \A i \in P : t[i].key # NullKey,
         NEW g, g = Marked(t, P)
  PROVE  Good(g, n) /\ LiveIn(g) = LiveIn(t) /\ MarkedAs(g, t, n, P)
<1>1. Table(t, n) /\ DOMAIN t = 0 .. n - 1 /\ \A i \in 0 .. n - 1 : t[i] \in SlotState
  BY TableFacts DEF Good
<1>2. g = [i \in 0 .. n - 1 |-> IF i \in P THEN [t[i] EXCEPT !.chain = TRUE]
                                ELSE t[i]]
  BY <1>1 DEF Marked
<1>3. ASSUME NEW i \in 0 .. n - 1
      PROVE  /\ g[i] \in SlotState
             /\ g[i].key = t[i].key /\ g[i].value = t[i].value
             /\ g[i].hash = t[i].hash /\ g[i].chain = (t[i].chain \/ i \in P)
  <2>0. t[i] \in SlotState
    BY <1>1
  <2>1. CASE i \in P
    BY <1>2, <2>0, <2>1 DEF SlotState
  <2>2. CASE i \notin P
    BY <1>2, <2>0, <2>2 DEF SlotState
  <2> QED BY <2>1, <2>2
<1>4. Table(g, n)
  BY <1>1, <1>2, <1>3 DEF Table
<1>5. LiveIn(g) = LiveIn(t)
  <2>1. \A i : i \in LiveIn(g) <=> i \in 0 .. n - 1 /\ g[i].key \in Keys
    BY <1>4, TableFacts
  <2>2. \A i : i \in LiveIn(t) <=> i \in 0 .. n - 1 /\ t[i].key \in Keys
    BY <1>1, TableFacts
  <2>3. \A i \in 0 .. n - 1 : g[i].key = t[i].key
    BY <1>3
  <2>4. \A i : i \in LiveIn(g) <=> i \in LiveIn(t)
    BY <2>1, <2>2, <2>3
  <2> QED BY <2>4
<1>6. \A i \in LiveIn(t) : i \in 0 .. n - 1
  BY <1>1, TableFacts
<1>7. \A a \in 0 .. n - 1 : Passed(t[a]) => Passed(g[a])
  BY <1>3 DEF Passed
<1>8. Good(g, n)
  <2>1. \A i \in LiveIn(g) : i \in LiveIn(t) /\ g[i].key = t[i].key /\ g[i].hash = t[i].hash
    BY <1>3, <1>5, <1>6
  <2>2. \A i, j \in LiveIn(g) : g[i].key = g[j].key => i = j
    BY <2>1 DEF Good
  <2> QED BY <1>4, <1>7, <2>1, <2>2, GoodFrame
<1> QED BY <1>3, <1>5, <1>8 DEF MarkedAs

\* The slot i of t gets a key.
PutAt(t, i, k, v, h) ==
  [t EXCEPT ![i] = [t[i] EXCEPT !.key = k, !.value = v, !.hash = h]]

\* The pairs of keys and values in a table.
Pairs(t) == {<<t[i].key, t[i].value>> : i \in LiveIn(t)}

\* A slot without a key takes a key that no slot has, at the end of its search,
\* or the mark of a removed one.
LEMMA PutGood ==
  ASSUME NEW n, NEW t, Good(t, n), NEW i \in 0 .. n - 1, i \notin LiveIn(t),
         NEW k \in Keys \cup {RemovedKey}, NEW v \in Values \cup {Default}, NEW h \in Nat,
         k \in Keys => /\ h = Hash(k) /\ KeptAt(t, n, h, i)
                       /\ \A j \in LiveIn(t) : t[j].key # k,
         NEW g, g = PutAt(t, i, k, v, h)
  PROVE  /\ Good(g, n) /\ PutAs(g, t, n, i, k, v)
         /\ LiveIn(g) = LiveAfter(t, k, i)
<1>1. /\ Table(t, n) /\ t \in [0 .. n - 1 -> SlotState] /\ t[i] \in SlotState
      /\ n \in Sizes
  BY TableFacts DEF Good, Table
<1>2. ASSUME NEW j \in 0 .. n - 1
      PROVE  /\ g[j].key = IF j = i THEN k ELSE t[j].key
             /\ g[j].value = IF j = i THEN v ELSE t[j].value
             /\ g[j].hash = IF j = i THEN h ELSE t[j].hash
             /\ g[j].chain = t[j].chain
             /\ g[j] \in SlotState
  <2>1. CASE j = i
    <3>1. g[j] = [t[i] EXCEPT !.key = k, !.value = v, !.hash = h]
      BY <1>1, <2>1 DEF PutAt
    <3> QED BY <1>1, <2>1, <3>1 DEF SlotState
  <2>2. CASE j # i
    <3>1. g[j] = t[j] /\ t[j] \in SlotState
      BY <1>1, <2>2 DEF PutAt
    <3> QED BY <2>2, <3>1
  <2> QED BY <2>1, <2>2
<1>3. g \in [0 .. n - 1 -> SlotState]
  <2>1. g = [j \in 0 .. n - 1 |-> g[j]]
    BY <1>1 DEF PutAt
  <2> QED BY <1>2, <2>1
<1>4. Table(g, n)
  BY <1>1, <1>3 DEF Table
<1>5. /\ \A j : j \in LiveIn(g) <=> j \in 0 .. n - 1 /\ g[j].key \in Keys
      /\ \A j : j \in LiveIn(t) <=> j \in 0 .. n - 1 /\ t[j].key \in Keys
  <2>1. \A j : j \in LiveIn(g) <=> j \in 0 .. n - 1 /\ g[j].key \in Keys
    BY <1>4, TableFacts
  <2>2. \A j : j \in LiveIn(t) <=> j \in 0 .. n - 1 /\ t[j].key \in Keys
    BY <1>1, TableFacts
  <2> QED BY <2>1, <2>2
<1>6. LiveIn(g) = IF k \in Keys THEN LiveIn(t) \cup {i} ELSE LiveIn(t)
  <2>1. \A j : j \in LiveIn(g) <=> (j = i /\ k \in Keys) \/ j \in LiveIn(t)
    <3>1. ASSUME NEW j PROVE j \in LiveIn(g) <=> (j = i /\ k \in Keys) \/ j \in LiveIn(t)
      <4>1. CASE j = i
        BY <1>2, <1>5, <4>1
      <4>2. CASE j # i /\ j \in 0 .. n - 1
        BY <1>2, <1>5, <4>2
      <4>3. CASE j \notin 0 .. n - 1
        BY <1>5, <4>3
      <4> QED BY <4>1, <4>2, <4>3
    <3> QED BY <3>1
  <2>2. CASE k \in Keys
    BY <2>1, <2>2
  <2>3. CASE k \notin Keys
    BY <2>1, <2>3
  <2> QED BY <2>2, <2>3
<1>7. \A a \in 0 .. n - 1 : Passed(t[a]) => Passed(g[a])
  <2>1. k # NullKey
    BY KeyFacts
  <2> QED BY <1>2, <2>1 DEF Passed
<1>8. \A j \in LiveIn(g) :
        \/ j \in LiveIn(t) /\ g[j].key = t[j].key /\ g[j].hash = t[j].hash
        \/ g[j].hash = Hash(g[j].key) /\ KeptAt(g, n, g[j].hash, j)
  <2> SUFFICES ASSUME NEW j \in LiveIn(g)
               PROVE  \/ j \in LiveIn(t) /\ g[j].key = t[j].key /\ g[j].hash = t[j].hash
                      \/ g[j].hash = Hash(g[j].key) /\ KeptAt(g, n, g[j].hash, j)
    OBVIOUS
  <2>1. CASE j = i
    <3>1. k \in Keys /\ g[j].key = k /\ g[j].hash = h
      BY <1>2, <1>5, <2>1
    <3>2. KeptAt(g, n, h, i)
      BY <1>1, <1>4, <1>7, <3>1, KeptFrame
    <3> QED BY <2>1, <3>1, <3>2
  <2>2. CASE j # i
    BY <1>2, <1>5, <2>2
  <2> QED BY <2>1, <2>2
<1>9. \A a, b \in LiveIn(g) : g[a].key = g[b].key => a = b
  <2>1. \A a \in LiveIn(g) : a = i \/ (a \in LiveIn(t) /\ a # i /\ g[a].key = t[a].key)
    BY <1>2, <1>5, <1>6
  <2>2. i \in LiveIn(g) => k \in Keys /\ g[i].key = k
    BY <1>2, <1>5
  <2>3. \A a, b \in LiveIn(t) : t[a].key = t[b].key => a = b
    BY DEF Good
  <2> QED BY <2>1, <2>2, <2>3
<1>10. Good(g, n)
  BY <1>4, <1>7, <1>8, <1>9, GoodFrame
<1> QED BY <1>2, <1>6, <1>10 DEF PutAs, LiveAfter

\* The slot i of t loses its key.
RemovedAt(t, i) == [t EXCEPT ![i] = RemovedSlot(t[i])]

\* A removed key leaves a slot behind that searches still pass.
LEMMA RemovedGood ==
  ASSUME NEW n, NEW t, Good(t, n), NEW i \in LiveIn(t),
         NEW g, g = RemovedAt(t, i)
  PROVE  /\ Good(g, n) /\ LiveIn(g) = LiveIn(t) \ {i}
         /\ \A j \in 0 .. n - 1 : j # i => g[j] = t[j]
<1>1. /\ Table(t, n) /\ t \in [0 .. n - 1 -> SlotState] /\ n \in Sizes
      /\ i \in 0 .. n - 1 /\ t[i] \in SlotState
  BY TableFacts DEF Good, Table
<1>2. /\ RemovedSlot(t[i]) \in SlotState /\ RemovedSlot(t[i]).key \notin Keys
      /\ Passed(t[i]) => Passed(RemovedSlot(t[i]))
  BY <1>1, KeyFacts DEF RemovedSlot, EmptySlot, SlotState, Passed
<1>3. /\ g \in [0 .. n - 1 -> SlotState] /\ g[i] = RemovedSlot(t[i])
      /\ \A j \in 0 .. n - 1 : j # i => g[j] = t[j]
  BY <1>1, <1>2 DEF RemovedAt
<1>4. Table(g, n)
  BY <1>1, <1>3 DEF Table
<1>5. LiveIn(g) = LiveIn(t) \ {i}
  <2>1. \A j : j \in LiveIn(g) <=> j \in 0 .. n - 1 /\ g[j].key \in Keys
    BY <1>4, TableFacts
  <2>2. \A j : j \in LiveIn(t) <=> j \in 0 .. n - 1 /\ t[j].key \in Keys
    BY <1>1, TableFacts
  <2> QED BY <1>2, <1>3, <2>1, <2>2
<1>6. \A a \in 0 .. n - 1 : Passed(t[a]) => Passed(g[a])
  BY <1>2, <1>3
<1>7. \A j \in LiveIn(g) : j \in LiveIn(t) /\ g[j] = t[j] /\ j \in 0 .. n - 1
  BY <1>3, <1>4, <1>5, TableFacts
<1>8. \A a, b \in LiveIn(g) : g[a].key = g[b].key => a = b
  BY <1>7 DEF Good
<1>9. Good(g, n)
  <2>1. \A j \in LiveIn(g) :
          \/ j \in LiveIn(t) /\ g[j].key = t[j].key /\ g[j].hash = t[j].hash
          \/ g[j].hash = Hash(g[j].key) /\ KeptAt(g, n, g[j].hash, j)
    BY <1>7
  <2> HIDE DEF Good
  <2> QED BY <1>4, <1>6, <1>8, <2>1, GoodFrame
<1> QED BY <1>3, <1>5, <1>9

LEMMA NewGood ==
  ASSUME NEW n \in Sizes, NEW g, g = NewTable(n)
  PROVE  Good(g, n) /\ LiveIn(g) = {} /\ \A i \in 0 .. n - 1 : g[i] = EmptySlot
<1>1. g = [i \in 0 .. n - 1 |-> EmptySlot]
  BY DEF NewTable
<1>2. EmptySlot \in SlotState /\ EmptySlot.key \notin Keys
  BY KeyFacts DEF EmptySlot, SlotState
<1>3. Table(g, n)
  BY <1>1, <1>2 DEF Table
<1>4. LiveIn(g) = {}
  BY <1>1, <1>2, <1>3, TableFacts
<1> QED BY <1>1, <1>3, <1>4 DEF Good

\* A lookup finds the slot of a key, and nothing for a key that no slot has.
LEMMA FindIs ==
  ASSUME NEW n, NEW t, Good(t, n), NEW k \in Keys
  PROVE  /\ \A i \in LiveIn(t) : t[i].key = k => Find(t, k) = i
         /\ (\A i \in LiveIn(t) : t[i].key # k) => Find(t, k) = -1
<1> DEFINE f == Probe(Hash(k), n)
           T == {j \in 0 .. n - 1 : t[f[j]].key = k \/ ~Passed(t[f[j]])}
           x == Min(T \cup {n})
<1>1. /\ Table(t, n) /\ n \in Nat /\ SizeOf(t) = n
      /\ \A i : i \in LiveIn(t) <=> i \in 0 .. n - 1 /\ t[i].key \in Keys
      /\ \A i \in 0 .. n - 1 : t[i] \in SlotState
  BY TableFacts DEF Good
<1>2. Hash(k) \in Nat
  BY KeyFacts
<1>3. f \in [0 .. n - 1 -> 0 .. n - 1]
  BY <1>1, <1>2, ProbeSlots DEF Table
<1>4. Find(t, k) = IF x < n /\ t[f[x]].key = k THEN f[x] ELSE -1
  <2>1. \A j : /\ (t[f[j]].key = k \/ ~Passed(t[f[j]]))
                    <=> (Match(t[f[j]], k) \/ EndsSearch(t[f[j]]))
               /\ t[f[j]].key = k <=> Match(t[f[j]], k)
    BY DEF Passed, Match, EndsSearch, KeyEquals
  <2>2. T = {j \in 0 .. n - 1 : Match(t[f[j]], k) \/ EndsSearch(t[f[j]])}
    BY <2>1
  <2>3. Find(t, k) = LET y == Min({j \in 0 .. n - 1 : Match(t[f[j]], k) \/ EndsSearch(t[f[j]])}
                                     \cup {n})
                     IN  IF y < n /\ Match(t[f[y]], k) THEN f[y] ELSE -1
    BY <1>1 DEF Find, FirstPlace
  <2> HIDE DEF f, T
  <2>4. Find(t, k) = IF x < n /\ Match(t[f[x]], k) THEN f[x] ELSE -1
    BY <2>2, <2>3
  <2> HIDE DEF x
  <2> QED BY <2>1, <2>4
<1> HIDE DEF f
<1>5. T \subseteq 0 .. n - 1
  OBVIOUS
<1>6. /\ x \in 0 .. n /\ (T # {} => x < n) /\ (x < n => x \in T)
      /\ \A y \in T : x <= y
  <2> HIDE DEF T
  <2> QED BY <1>1, <1>5, FirstIs
<1> HIDE DEF x
<1>7. ASSUME NEW i \in LiveIn(t), t[i].key = k
      PROVE  Find(t, k) = i
  <2>1. KeptAt(t, n, Hash(k), i)
    BY <1>7 DEF Good
  <2>2. PICK j \in 0 .. n - 1 : f[j] = i /\ \A a \in 0 .. j - 1 : Passed(t[f[a]])
    BY <2>1 DEF KeptAt, f
  <2>3. j \in T /\ x \in 0 .. n - 1 /\ x <= j
    BY <1>1, <1>6, <1>7, <2>2
  <2>4. t[f[x]].key = k
    <3>1. CASE x = j
      BY <1>7, <2>2, <3>1
    <3>2. CASE x # j
      <4>1. x \in 0 .. j - 1
        BY <1>1, <2>2, <2>3, <3>2
      <4>2. Passed(t[f[x]]) /\ x \in T
        BY <1>6, <2>2, <2>3, <4>1
      <4> QED BY <4>2
    <3> QED BY <3>1, <3>2
  <2>5. f[x] \in LiveIn(t)
    BY <1>1, <1>3, <2>3, <2>4
  <2>6. f[x] = i
    BY <1>7, <2>4, <2>5 DEF Good
  <2> QED BY <1>1, <1>4, <2>3, <2>4, <2>6
<1>8. ASSUME \A i \in LiveIn(t) : t[i].key # k
      PROVE  Find(t, k) = -1
  <2>1. x < n => f[x] \in 0 .. n - 1
    BY <1>1, <1>3, <1>6
  <2>2. x < n => t[f[x]].key # k
    BY <1>1, <1>8, <2>1
  <2> QED BY <1>4, <2>2
<1> QED BY <1>7, <1>8

\* The first x slots of a probe.
Way(h, n, x) == {Probe(h, n)[j] : j \in 0 .. x - 1}

\* A key goes behind the slots its probe has passed, which get the marker.
LEMMA PutBehind ==
  ASSUME NEW n, NEW t, Good(t, n),
         NEW k \in Keys \cup {RemovedKey}, NEW v \in Values \cup {Default}, NEW h \in Nat,
         k \in Keys => h = Hash(k) /\ \A j \in LiveIn(t) : t[j].key # k,
         NEW x \in 0 .. n - 1, Probe(h, n)[x] \notin LiveIn(t),
         \A a \in Way(h, n, x) : t[a].key # NullKey,
         NEW m, m = Marked(t, Way(h, n, x)),
         NEW i, i = Probe(h, n)[x],
         NEW g, g = PutAt(m, i, k, v, h)
  PROVE  /\ Good(g, n) /\ i \in 0 .. n - 1 /\ PutAs(g, t, n, i, k, v)
         /\ LiveIn(g) = LiveAfter(t, k, i)
<1> DEFINE f == Probe(h, n)
           P == Way(h, n, x)
<1>1. /\ Table(t, n) /\ n \in Nat
      /\ \A j : j \in LiveIn(t) => j \in 0 .. n - 1
  BY TableFacts DEF Good
<1>2. f \in [0 .. n - 1 -> 0 .. n - 1]
  BY <1>1, ProbeSlots DEF Table
<1>3. m = Marked(t, P) /\ \A j \in P : t[j].key # NullKey
  OBVIOUS
<1>4. \A a \in 0 .. x - 1 : a \in 0 .. n - 1 /\ f[a] \in P /\ f[a] \in 0 .. n - 1
                              /\ t[f[a]].key # NullKey
  <2>1. \A a \in 0 .. x - 1 : f[a] \in P
    BY DEF Way
  <2> QED BY <1>1, <1>2, <1>3, <2>1
<1>5. f[x] = i /\ i \in 0 .. n - 1 /\ i \notin LiveIn(t)
  BY <1>2
<1> HIDE DEF f, P
<1>6. /\ Good(m, n) /\ LiveIn(m) = LiveIn(t)
      /\ \A j \in 0 .. n - 1 :
           /\ m[j].key = t[j].key /\ m[j].value = t[j].value
           /\ j \in P => m[j].chain
  <2>1. Good(m, n) /\ LiveIn(m) = LiveIn(t) /\ MarkedAs(m, t, n, P)
    BY <1>3, MarkedGood
  <2> QED BY <2>1 DEF MarkedAs
<1>7. KeptAt(m, n, h, i)
  <2>1. \A a \in 0 .. x - 1 : Passed(m[f[a]])
    BY <1>4, <1>6 DEF Passed
  <2> QED BY <1>5, <2>1 DEF KeptAt, f
<1>8. \A j \in LiveIn(m) : m[j].key = t[j].key
  BY <1>1, <1>6
<1>9. i \notin LiveIn(m)
  BY <1>5, <1>6
<1>10. k \in Keys => /\ h = Hash(k) /\ KeptAt(m, n, h, i)
                     /\ \A j \in LiveIn(m) : m[j].key # k
  BY <1>6, <1>7, <1>8
<1>11. Good(g, n) /\ PutAs(g, m, n, i, k, v) /\ LiveIn(g) = LiveAfter(m, k, i)
  <2>1. Good(m, n) /\ i \in 0 .. n - 1
    BY <1>5, <1>6
  <2> QED BY <1>9, <1>10, <2>1, PutGood
<1>12. PutAs(g, t, n, i, k, v)
  BY <1>6, <1>11 DEF PutAs
<1>13. LiveIn(g) = LiveAfter(t, k, i)
  BY <1>6, <1>11 DEF LiveAfter
<1> QED BY <1>5, <1>11, <1>12, <1>13

\* What a table holds once k is put in a slot that had no key.
LEMMA PairsPut ==
  ASSUME NEW n, NEW t, NEW g, Table(t, n), Table(g, n), NEW i \in 0 .. n - 1,
         i \notin LiveIn(t), NEW k, NEW v, PutAs(g, t, n, i, k, v),
         LiveIn(g) = LiveAfter(t, k, i)
  PROVE  Pairs(g) = IF k \in Keys THEN Pairs(t) \cup {<<k, v>>} ELSE Pairs(t)
<1>1. \A j \in LiveIn(t) : j \in 0 .. n - 1 /\ j # i
  BY TableFacts
<1>2. /\ \A j \in LiveIn(t) : g[j].key = t[j].key /\ g[j].value = t[j].value
      /\ g[i].key = k /\ g[i].value = v
  BY <1>1 DEF PutAs
<1>3. CASE k \in Keys
  <2>1. LiveIn(g) = LiveIn(t) \cup {i}
    BY <1>3 DEF LiveAfter
  <2>2. \A p : p \in Pairs(g) <=> p \in Pairs(t) \/ p = <<k, v>>
    BY <1>2, <2>1 DEF Pairs
  <2> QED BY <1>3, <2>2
<1>4. CASE k \notin Keys
  <2>1. LiveIn(g) = LiveIn(t)
    BY <1>4 DEF LiveAfter
  <2>2. \A p : p \in Pairs(g) <=> p \in Pairs(t)
    BY <1>2, <2>1 DEF Pairs
  <2> QED BY <1>4, <2>2
<1> QED BY <1>3, <1>4

-----------------------------------------------------------------------------
(* Rehashing.                                                              *)

\* The first entry of primeTbl that is large enough is a size.
LEMMA NextSize ==
  ASSUME NEW x \in Nat, \E q \in Sizes : x <= q
  PROVE  ToPrime(x) \in Sizes /\ x <= ToPrime(x)
<1> DEFINE I == {i \in 1 .. Len(PrimeTbl) : x <= PrimeTbl[i]}
<1>1. I \subseteq Nat /\ I # {}
  <2>1. PICK q \in Sizes : x <= q
    OBVIOUS
  <2>2. PICK i \in 1 .. Len(PrimeTbl) : q = PrimeTbl[i]
    BY <2>1 DEF Sizes
  <2>3. Len(PrimeTbl) \in Nat
    BY PrimeAssumption
  <2> QED BY <2>1, <2>2, <2>3
<1>2. Min(I) \in I
  <2> HIDE DEF I
  <2> QED BY <1>1, MinIsLeast
<1>3. ToPrime(x) = PrimeTbl[Min(I)]
  BY DEF ToPrime
<1> QED BY <1>2, <1>3 DEF Sizes

\* The slots that are not empty.
Used(t) == {i \in DOMAIN t : t[i].key # NullKey}
HasUsed(t, i) == IsFiniteSet(Used(t)) /\ Cardinality(Used(t)) <= i

\* The table after a Reinsert: the slot goes to the first empty one of its probe.
FreeIn(t, h, n) == {j \in 0 .. n - 1 : t[Probe(h, n)[j]].key = NullKey}
Reinserted(t, slot, n) ==
  LET x == Min(FreeIn(t, slot.hash, n) \cup {n})
  IN  PutAt(Marked(t, Way(slot.hash, n, x)), Probe(slot.hash, n)[x],
            slot.key, slot.value, slot.hash)

\* Reinsert finds a place in a table that has an empty slot.
LEMMA ReinsertGood ==
  ASSUME NEW n, NEW t, Good(t, n), NEW slot \in SlotState, slot.key # NullKey,
         slot.key \in Keys => /\ slot.hash = Hash(slot.key)
                              /\ \A j \in LiveIn(t) : t[j].key # slot.key,
         NEW u \in Nat, HasUsed(t, u), u < n,
         NEW g, g = Reinsert(t, slot)
  PROVE  /\ Good(g, n) /\ HasUsed(g, u + 1)
         /\ Pairs(g) = IF slot.key \in Keys THEN Pairs(t) \cup {<<slot.key, slot.value>>}
                       ELSE Pairs(t)
<1> DEFINE k == slot.key
           v == slot.value
           h == slot.hash
           f == Probe(h, n)
           T == {j \in 0 .. n - 1 : t[f[j]].key = NullKey}
           x == Min(T \cup {n})
           m == Marked(t, Way(h, n, x))
           i == f[x]
<1>1. /\ Table(t, n) /\ n \in Nat /\ SizeOf(t) = n /\ DOMAIN t = 0 .. n - 1 /\ n \in Sizes
      /\ IsFiniteSet(0 .. n - 1) /\ Cardinality(0 .. n - 1) = n
      /\ \A j : j \in LiveIn(t) <=> j \in 0 .. n - 1 /\ t[j].key \in Keys
      /\ \A j \in 0 .. n - 1 : t[j] \in SlotState
  BY TableFacts DEF Good, Table
<1>2. k \in Keys \cup {RemovedKey} /\ v \in Values \cup {Default} /\ h \in Nat
  BY DEF SlotState
<1>3. k \in Keys => h = Hash(k) /\ \A j \in LiveIn(t) : t[j].key # k
  OBVIOUS
<1>4. g = PutAt(m, i, k, v, h)
  <2>1. SizeOf(t) = n
    BY <1>1
  <2>2. Reinsert(t, slot) = Reinserted(t, slot, SizeOf(t))
    BY DEF Reinsert, FirstPlace, PutAt, Way, Reinserted, FreeIn
  <2>3. Reinserted(t, slot, n) = PutAt(m, i, k, v, h)
    BY DEF Reinserted, FreeIn
  <2> QED BY <2>1, <2>2, <2>3
<1> HIDE DEF k, v, h
<1>5. f \in [0 .. n - 1 -> 0 .. n - 1]
  BY <1>1, <1>2, ProbeSlots
<1>6. T # {}
  <2>1. PICK a \in 0 .. n - 1 : t[a].key = NullKey
    <3> SUFFICES ASSUME \A a \in 0 .. n - 1 : t[a].key # NullKey PROVE FALSE
      OBVIOUS
    <3>1. Used(t) = 0 .. n - 1
      BY <1>1 DEF Used
    <3> QED BY <1>1, <3>1 DEF HasUsed
  <2>2. PICK j \in 0 .. n - 1 : f[j] = a
    BY <1>1, <1>2, ProbeVisits
  <2> QED BY <2>1, <2>2
<1>7. T \subseteq 0 .. n - 1
  OBVIOUS
<1>8. x \in T /\ \A y \in T : x <= y
  <2> HIDE DEF T
  <2> QED BY <1>1, <1>6, <1>7, FirstIs
<1> HIDE DEF x
<1>9. x \in 0 .. n - 1 /\ i \in 0 .. n - 1 /\ t[i].key = NullKey
  BY <1>5, <1>8
<1>10. i \notin LiveIn(t)
  BY <1>1, <1>9, KeyFacts
<1>11. \A a \in 0 .. x - 1 : t[f[a]].key # NullKey
  <2> SUFFICES ASSUME NEW a \in 0 .. x - 1, t[f[a]].key = NullKey PROVE FALSE
    OBVIOUS
  <2>1. a \in T /\ a < x
    BY <1>1, <1>9
  <2> QED BY <1>1, <1>8, <1>9, <2>1
<1>12. /\ Good(g, n) /\ PutAs(g, t, n, i, k, v) /\ LiveIn(g) = LiveAfter(t, k, i)
  <2>1. m = Marked(t, Way(h, n, x)) /\ i = Probe(h, n)[x]
    OBVIOUS
  <2>2. Probe(h, n)[x] \notin LiveIn(t)
    BY <1>10
  <2>3. \A a \in Way(h, n, x) : t[a].key # NullKey
    BY <1>11 DEF Way
  <2> HIDE DEF m, i
  <2> QED BY <1>2, <1>3, <1>4, <1>9, <2>1, <2>2, <2>3, PutBehind
<1> HIDE DEF i
<1>13. Table(g, n)
  BY <1>12 DEF Good
<1>14. Pairs(g) = IF k \in Keys THEN Pairs(t) \cup {<<k, v>>} ELSE Pairs(t)
  BY <1>1, <1>9, <1>10, <1>12, <1>13, PairsPut
<1>15. HasUsed(g, u + 1)
  <2>1. DOMAIN g = 0 .. n - 1
    BY <1>13, TableFacts
  <2>2. \A a \in Used(g) : a \in Used(t) \/ a = i
    BY <1>1, <2>1, <1>12 DEF Used, PutAs
  <2>3. /\ IsFiniteSet(Used(t) \cup {i}) /\ Cardinality(Used(t) \cup {i}) <= u + 1
        /\ Cardinality(Used(t) \cup {i}) \in Nat
    <3>1. IsFiniteSet(Used(t)) /\ Cardinality(Used(t)) \in Nat /\ Cardinality(Used(t)) <= u
      BY FS_CardinalityType DEF HasUsed
    <3>2. /\ IsFiniteSet(Used(t) \cup {i})
          /\ \/ Cardinality(Used(t) \cup {i}) = Cardinality(Used(t))
             \/ Cardinality(Used(t) \cup {i}) = Cardinality(Used(t)) + 1
      BY <3>1, FS_AddElement
    <3> QED BY <3>1, <3>2
  <2>4. Used(g) \subseteq Used(t) \cup {i}
    BY <2>2
  <2>5. IsFiniteSet(Used(g)) /\ Cardinality(Used(g)) \in Nat
        /\ Cardinality(Used(g)) <= Cardinality(Used(t) \cup {i})
    BY <2>3, <2>4, FS_Subset, FS_CardinalityType
  <2> QED BY <2>3, <2>5 DEF HasUsed
<1> QED BY <1>12, <1>14, <1>15 DEF k, v

\* The tables of a Rehash after each slot of t.
RefillTo(t, k, g) ==
  [i \in 0 .. k |->
     IF i = 0 THEN NewTable(ToPrime(2 * SizeOf(t) + 1))
     ELSE IF t[i-1].key = NullKey THEN g[i-1]
     ELSE Reinsert(g[i-1], t[i-1])]

\* They exist, one after the other: there is no first that does not.
LEMMA RefilledIs ==
  ASSUME NEW t, SizeOf(t) \in Nat
  PROVE  Refilled(t) = RefillTo(t, SizeOf(t), Refilled(t))
<1> DEFINE n == SizeOf(t)
           E(k) == \E g : g = RefillTo(t, k, g)
           T == {k \in 0 .. n : ~E(k)}
<1>1. E(0)
  <2> DEFINE g0 == [i \in 0 .. 0 |-> NewTable(ToPrime(2 * SizeOf(t) + 1))]
  <2>1. RefillTo(t, 0, g0) = g0
    BY DEF RefillTo
  <2> HIDE DEF g0
  <2> QED BY <2>1
<1>2. ASSUME NEW k \in 1 .. n, E(k - 1) PROVE E(k)
  <2>1. PICK g : g = RefillTo(t, k - 1, g)
    BY <1>2
  <2> DEFINE G == [i \in 0 .. k |-> IF i = k THEN RefillTo(t, k, g)[k] ELSE g[i]]
  <2>2. /\ \A i \in 0 .. k : G[i] = IF i = k THEN RefillTo(t, k, g)[k] ELSE g[i]
        /\ G = [i \in 0 .. k |-> G[i]]
    OBVIOUS
  <2>3. \A i \in 0 .. k : i > 0 => i - 1 \in 0 .. k - 1 /\ i - 1 \in 0 .. k /\ i - 1 # k
    OBVIOUS
  <2> HIDE DEF G
  <2>4. \A i \in 0 .. k : i > 0 => G[i-1] = g[i-1]
    BY <2>2, <2>3
  <2>5. ASSUME NEW i \in 0 .. k PROVE RefillTo(t, k, G)[i] = G[i]
    <3>1. RefillTo(t, k, G)[i] = RefillTo(t, k, g)[i]
      BY <2>4 DEF RefillTo
    <3>2. CASE i = k
      BY <2>2, <3>1, <3>2
    <3>3. CASE i # k
      <4>1. i \in 0 .. k - 1
        BY <3>3
      <4>2. RefillTo(t, k, g)[i] = RefillTo(t, k - 1, g)[i]
        BY <4>1 DEF RefillTo
      <4>3. G[i] = g[i]
        BY <2>2, <3>3
      <4> QED BY <2>1, <3>1, <4>2, <4>3
    <3> QED BY <3>2, <3>3
  <2>6. RefillTo(t, k, G) = [i \in 0 .. k |-> RefillTo(t, k, G)[i]]
    BY DEF RefillTo
  <2>7. RefillTo(t, k, G) = G
    BY <2>2, <2>5, <2>6
  <2> QED BY <2>7
<1>3. T = {}
  <2> SUFFICES ASSUME T # {} PROVE FALSE
    OBVIOUS
  <2>1. T \subseteq Nat
    OBVIOUS
  <2> HIDE DEF E
  <2>2. PICK k \in T : \A y \in T : k <= y
    <3> HIDE DEF T
    <3> QED BY <2>1, LeastNumber
  <2>3. k \in 1 .. n /\ k - 1 \in 0 .. n /\ k - 1 \notin T
    BY <1>1, <2>2
  <2>4. E(k - 1)
    BY <2>3
  <2> QED BY <1>2, <2>2, <2>3, <2>4
<1>4. E(n)
  <2> HIDE DEF E
  <2> QED BY <1>3
<1>5. Refilled(t) = CHOOSE g : g = RefillTo(t, n, g)
  BY DEF Refilled, RefillTo
<1> HIDE DEF n
<1>6. Refilled(t) = RefillTo(t, n, Refilled(t))
  BY <1>4, <1>5
<1> QED BY <1>6 DEF n

\* The keys and values of the slots of t before slot i.
PairsTo(t, i) == {<<t[j].key, t[j].value>> : j \in {a \in LiveIn(t) : a < i}}

\* A rehashed table is good, and holds the keys and values of the old one.
LEMMA RehashGood ==
  ASSUME NEW n, NEW t, Good(t, n), NEW m, m = ToPrime(2 * n + 1), m \in Sizes,
         2 * n + 1 <= m, NEW g, g = Rehash(t)
  PROVE  Good(g, m) /\ Pairs(g) = Pairs(t)
<1> DEFINE N == Refilled(t)
           H(i) == /\ Good(N[i], m) /\ Pairs(N[i]) = PairsTo(t, i) /\ HasUsed(N[i], i)
           T == {i \in 0 .. n : ~H(i)}
<1>1. /\ Table(t, n) /\ n \in Nat /\ n >= 3 /\ SizeOf(t) = n /\ DOMAIN t = 0 .. n - 1
      /\ \A i \in 0 .. n - 1 : t[i] \in SlotState
      /\ \A i : i \in LiveIn(t) <=> i \in 0 .. n - 1 /\ t[i].key \in Keys
  BY TableFacts DEF Good
<1>2. N = RefillTo(t, n, N)
  BY <1>1, RefilledIs
<1>3. ASSUME NEW i \in 0 .. n
      PROVE  N[i] = IF i = 0 THEN NewTable(m)
                    ELSE IF t[i-1].key = NullKey THEN N[i-1]
                    ELSE Reinsert(N[i-1], t[i-1])
  <2> HIDE DEF N
  <2>1. RefillTo(t, n, N)[i] = IF i = 0 THEN NewTable(m)
                    ELSE IF t[i-1].key = NullKey THEN N[i-1]
                    ELSE Reinsert(N[i-1], t[i-1])
    BY <1>1 DEF RefillTo
  <2> QED BY <1>2, <2>1
<1> HIDE DEF N
<1>4. m \in Nat /\ n < m
  <2>1. m \in Nat
    BY SizeFacts
  <2> QED BY <1>1, <2>1
<1>5. H(0)
  <2>1. N[0] = NewTable(m)
    BY <1>1, <1>3
  <2>2. Good(N[0], m) /\ LiveIn(N[0]) = {} /\ \A i \in 0 .. m - 1 : N[0][i] = EmptySlot
    BY <2>1, NewGood
  <2>3. Pairs(N[0]) = {}
    BY <2>2 DEF Pairs
  <2>4. \A a \in LiveIn(t) : ~(a < 0)
    BY <1>1
  <2>5. PairsTo(t, 0) = {}
    BY <2>4 DEF PairsTo
  <2>6. Used(N[0]) = {}
    <3>1. DOMAIN N[0] = 0 .. m - 1
      BY <2>2, TableFacts DEF Good
    <3> QED BY <2>2, <3>1 DEF Used, EmptySlot
  <2>7. HasUsed(N[0], 0)
    BY <2>6, FS_EmptySet DEF HasUsed
  <2> QED BY <2>2, <2>3, <2>5, <2>7
<1>6. ASSUME NEW i \in 0 .. n - 1, H(i) PROVE H(i + 1)
  <2> DEFINE k == t[i].key
             v == t[i].value
  <2>0. i \in Nat /\ i + 1 \in 0 .. n /\ i + 1 # 0 /\ (i + 1) - 1 = i /\ i < m
    BY <1>1, <1>4
  <2>1. N[i+1] = IF k = NullKey THEN N[i] ELSE Reinsert(N[i], t[i])
    BY <1>3, <2>0
  <2>2. PairsTo(t, i + 1) = IF k \in Keys THEN PairsTo(t, i) \cup {<<k, v>>} ELSE PairsTo(t, i)
    <3>1. \A a : a \in LiveIn(t) /\ a < i + 1 <=> (a \in LiveIn(t) /\ a < i) \/ (a = i /\ k \in Keys)
      BY <1>1, <2>0
    <3>2. CASE k \in Keys
      <4>1. \A p : p \in PairsTo(t, i + 1) <=> p \in PairsTo(t, i) \/ p = <<k, v>>
        BY <3>1, <3>2 DEF PairsTo
      <4> QED BY <3>2, <4>1
    <3>3. CASE k \notin Keys
      <4>1. \A p : p \in PairsTo(t, i + 1) <=> p \in PairsTo(t, i)
        BY <3>1, <3>3 DEF PairsTo
      <4> QED BY <3>3, <4>1
    <3> QED BY <3>2, <3>3
  <2>3. CASE k = NullKey
    <3>1. N[i+1] = N[i] /\ PairsTo(t, i + 1) = PairsTo(t, i)
      BY <2>1, <2>2, <2>3, KeyFacts
    <3>2. HasUsed(N[i], i + 1)
      BY <1>6, <2>0, FS_CardinalityType DEF HasUsed
    <3> QED BY <1>6, <3>1, <3>2
  <2>4. CASE k # NullKey
    <3> DEFINE slot == t[i]
               u == N[i]
               w == N[i+1]
    <3>1. slot \in SlotState /\ slot.key # NullKey /\ slot.key = k /\ slot.value = v
      BY <1>1, <2>4
    <3>2. slot.key \in Keys => slot.hash = Hash(slot.key)
      BY <1>1 DEF Good
    <3>3. slot.key \in Keys => \A j \in LiveIn(u) : u[j].key # slot.key
      <4> SUFFICES ASSUME slot.key \in Keys, NEW j \in LiveIn(u), u[j].key = slot.key
                   PROVE  FALSE
        OBVIOUS
      <4>1. <<u[j].key, u[j].value>> \in PairsTo(t, i)
        BY <1>6 DEF Pairs
      <4>2. PICK a \in LiveIn(t) : a < i /\ t[a].key = u[j].key
        BY <4>1 DEF PairsTo
      <4>3. i \in LiveIn(t) /\ a # i
        BY <1>1, <4>2
      <4>4. t[a].key = t[i].key
        BY <4>2
      <4>5. \A x, y \in LiveIn(t) : t[x].key = t[y].key => x = y
        BY DEF Good
      <4> HIDE DEF u
      <4> QED BY <4>3, <4>4, <4>5
    <3>4. Good(u, m) /\ HasUsed(u, i) /\ i \in Nat /\ i < m
      BY <1>6, <2>0
    <3>5. w = Reinsert(u, slot)
      BY <2>1, <2>4
    <3> HIDE DEF slot, u, w, k, v
    <3>6. slot.key \in Keys => /\ slot.hash = Hash(slot.key)
                               /\ \A j \in LiveIn(u) : u[j].key # slot.key
      BY <3>2, <3>3
    <3>7. /\ Good(w, m) /\ HasUsed(w, i + 1)
          /\ Pairs(w) = IF slot.key \in Keys THEN Pairs(u) \cup {<<slot.key, slot.value>>}
                       ELSE Pairs(u)
      BY <3>1, <3>4, <3>5, <3>6, ReinsertGood
    <3>8. Pairs(w) = PairsTo(t, i + 1)
      BY <1>6, <2>2, <3>1, <3>7 DEF u
    <3> QED BY <3>7, <3>8 DEF w
  <2> QED BY <2>3, <2>4
<1>7. T = {}
  <2> HIDE DEF H
  <2> SUFFICES ASSUME T # {} PROVE FALSE
    OBVIOUS
  <2>1. T \subseteq Nat
    BY <1>1
  <2>2. PICK k \in T : \A y \in T : k <= y
    <3> HIDE DEF T
    <3> QED BY <2>1, LeastNumber
  <2>3. k - 1 \in 0 .. n - 1 /\ k - 1 \notin T /\ (k - 1) + 1 = k
    BY <1>1, <1>5, <2>2
  <2>4. H(k - 1)
    BY <1>1, <2>3
  <2>5. H(k)
    BY <1>6, <2>3, <2>4
  <2> QED BY <2>2, <2>5
<1>8. H(n)
  <2> HIDE DEF H
  <2> QED BY <1>1, <1>7
<1>9. PairsTo(t, n) = Pairs(t)
  <2>1. {a \in LiveIn(t) : a < n} = LiveIn(t)
    BY <1>1
  <2> QED BY <2>1 DEF PairsTo, Pairs
<1>10. g = N[n]
  BY <1>1 DEF Rehash, N
<1> QED BY <1>8, <1>9, <1>10

-----------------------------------------------------------------------------
(* What a table holds.                                                     *)

KeysOf(t) == {t[i].key : i \in LiveIn(t)}

\* No two slots have the same key, and there are not more of them than keys.
LEMMA LiveCount ==
  ASSUME NEW n, NEW t, Good(t, n)
  PROVE  /\ IsFiniteSet(LiveIn(t)) /\ Cardinality(LiveIn(t)) \in Nat
         /\ IsFiniteSet(KeysOf(t)) /\ Cardinality(KeysOf(t)) = Cardinality(LiveIn(t))
         /\ KeysOf(t) \subseteq Keys
<1> DEFINE f == [i \in LiveIn(t) |-> t[i].key]
<1>1. /\ Table(t, n) /\ IsFiniteSet(0 .. n - 1)
      /\ \A i : i \in LiveIn(t) <=> i \in 0 .. n - 1 /\ t[i].key \in Keys
  BY TableFacts DEF Good
<1>2. LiveIn(t) \in SUBSET (0 .. n - 1)
  BY <1>1
<1>3. IsFiniteSet(LiveIn(t)) /\ Cardinality(LiveIn(t)) \in Nat
  BY <1>1, <1>2, FS_Subset, FS_CardinalityType
<1>4. \A i, j \in LiveIn(t) : t[i].key = t[j].key => i = j
  BY DEF Good
<1>5. f \in Bijection(LiveIn(t), KeysOf(t))
  <2>1. f \in [LiveIn(t) -> KeysOf(t)] /\ \A k \in KeysOf(t) : \E i \in LiveIn(t) : f[i] = k
    BY DEF KeysOf
  <2>2. \A i, j \in LiveIn(t) : f[i] = f[j] => i = j
    BY <1>4
  <2> HIDE DEF f
  <2> QED BY <2>1, <2>2 DEF Bijection, Injection, Surjection, IsInjective
<1>6. ExistsBijection(LiveIn(t), KeysOf(t))
  BY <1>5 DEF ExistsBijection
<1>7. IsFiniteSet(KeysOf(t)) /\ Cardinality(KeysOf(t)) = Cardinality(LiveIn(t))
  BY <1>3, <1>6, FS_Bijection
<1> QED BY <1>1, <1>3, <1>7 DEF KeysOf

LEMMA SameKeys ==
  ASSUME NEW t, NEW g, Pairs(t) = Pairs(g)
  PROVE  KeysOf(t) = KeysOf(g)
<1>1. \A a, b : Pairs(a) = Pairs(b) => \A k \in KeysOf(a) : k \in KeysOf(b)
  <2> SUFFICES ASSUME NEW a, NEW b, Pairs(a) = Pairs(b), NEW i \in LiveIn(a)
               PROVE  a[i].key \in KeysOf(b)
    BY DEF KeysOf
  <2>1. <<a[i].key, a[i].value>> \in Pairs(b)
    BY DEF Pairs
  <2>2. PICK j \in LiveIn(b) : <<a[i].key, a[i].value>> = <<b[j].key, b[j].value>>
    BY <2>1 DEF Pairs
  <2> QED BY <2>2 DEF KeysOf
<1> QED BY <1>1

\* A key is in the table if a lookup finds it.
LEMMA FindKnows ==
  ASSUME NEW n, NEW t, Good(t, n), NEW k \in Keys
  PROVE  /\ Find(t, k) = -1 <=> k \notin KeysOf(t)
         /\ Find(t, k) # -1 => Find(t, k) \in LiveIn(t) /\ t[Find(t, k)].key = k
<1>1. \A i \in LiveIn(t) : i \in 0 .. n - 1 /\ n \in Nat
  BY TableFacts DEF Good
<1>2. CASE \E i \in LiveIn(t) : t[i].key = k
  <2>1. PICK i \in LiveIn(t) : t[i].key = k
    BY <1>2
  <2>2. Find(t, k) = i
    BY <2>1, FindIs
  <2>3. k \in KeysOf(t) /\ i # -1
    BY <1>1, <2>1 DEF KeysOf
  <2> QED BY <2>1, <2>2, <2>3
<1>3. CASE \A i \in LiveIn(t) : t[i].key # k
  <2>1. Find(t, k) = -1
    BY <1>3, FindIs
  <2>2. k \notin KeysOf(t)
    BY <1>3 DEF KeysOf
  <2> QED BY <2>1, <2>2
<1> QED BY <1>2, <1>3

-----------------------------------------------------------------------------
(* Putting a key.                                                          *)

\* The limits of the tables before and after a rehash.
LEMMA Limits ==
  ASSUME NEW n \in Nat, n >= 3, NEW t, SizeOf(t) = n
  PROVE  /\ Threshold(t) = (n * 75) \div 100 /\ Threshold(t) \in Nat /\ Threshold(t) < n
         /\ 100 * Threshold(t) <= n * 75 /\ n * 75 < 100 * Threshold(t) + 100
<1> DEFINE l == (n * 75) \div 100
           r == (n * 75) % 100
<1>1. l \in Int /\ r \in 0 .. 99 /\ n * 75 = (100 * l) + r
  BY DivMod
<1>2. Threshold(t) = IF l >= n THEN n - 1 ELSE l
  BY DEF Threshold
<1> HIDE DEF l, r
<1>3. l \in Nat /\ l < n
  BY <1>1
<1> QED BY <1>1, <1>2, <1>3 DEF l

Grown(t, c) == IF c >= Threshold(t) THEN Rehash(t) ELSE t

\* There is room for a key that is not in the table, after growing if need be.
LEMMA GrownGood ==
  ASSUME NEW n, NEW t, Good(t, n), NEW c, c = Cardinality(LiveIn(t)), c <= Threshold(t),
         NEW k \in Keys, k \notin KeysOf(t), NEW w, w = Grown(t, c)
  PROVE  \E m \in Sizes : /\ Good(w, m) /\ Pairs(w) = Pairs(t) /\ c \in Nat
                          /\ c + 1 <= Threshold(w)
<1>1. n \in Nat /\ n >= 3 /\ SizeOf(t) = n /\ n \in Sizes
  BY TableFacts DEF Good, Table
<1>2. c \in Nat
  BY LiveCount
<1>3. CASE c < Threshold(t)
  <2>1. w = t /\ Threshold(t) \in Nat
    BY <1>1, <1>2, <1>3, Limits DEF Grown
  <2> QED BY <1>1, <1>2, <1>3, <2>1
<1>4. CASE ~(c < Threshold(t))
  <2>1. Threshold(t) = c /\ w = Rehash(t)
    BY <1>1, <1>2, <1>4, Limits DEF Grown
  <2>2. Cardinality(KeysOf(t)) = c /\ KeysOf(t) \subseteq Keys /\ IsFiniteSet(KeysOf(t))
    BY LiveCount
  <2>3. c < Cardinality(Keys)
    <3>1. IsFiniteSet(Keys) /\ KeysOf(t) \in SUBSET Keys
      BY <2>2, GrowthAssumption
    <3>2. Cardinality(KeysOf(t)) <= Cardinality(Keys) /\ Cardinality(Keys) \in Nat
          /\ (Cardinality(Keys) = Cardinality(KeysOf(t)) => Keys = KeysOf(t))
      BY <3>1, FS_Subset, FS_CardinalityType
    <3> QED BY <1>2, <2>2, <3>2
  <2>4. (n * 75) \div 100 < Cardinality(Keys)
    BY <1>1, <2>1, <2>3, Limits
  <2>5. \E q \in Sizes : 2 * n + 1 <= q
    BY <1>1, <2>4, GrowthAssumption
  <2> DEFINE m == ToPrime(2 * n + 1)
  <2>6. m \in Sizes /\ 2 * n + 1 <= m
    BY <1>1, <2>5, NextSize
  <2> HIDE DEF m
  <2>7. Good(w, m) /\ Pairs(w) = Pairs(t)
    BY <2>1, <2>6, RehashGood DEF m
  <2>8. m \in Nat /\ m >= 3 /\ SizeOf(w) = m
    BY <2>7, TableFacts DEF Good
  <2>9. 100 * c <= n * 75 /\ m * 75 < 100 * Threshold(w) + 100 /\ Threshold(w) \in Nat
    BY <1>1, <2>1, <2>8, Limits
  <2>10. c + 1 <= Threshold(w)
    BY <1>1, <1>2, <2>6, <2>8, <2>9
  <2> QED BY <1>2, <2>6, <2>7, <2>10
<1> QED BY <1>3, <1>4

\* The slots at which a put may stop, or may place its key.
Stops(t, k, h, n) ==
  {j \in 0 .. n - 1 :
     LastSlot(t[Probe(h, n)[j]])
       \/ (t[Probe(h, n)[j]].hash = h /\ KeyEquals(k, t[Probe(h, n)[j]].key))}
Places(t, h, n) ==
  {j \in 0 .. n - 1 : LastSlot(t[Probe(h, n)[j]]) \/ ReusableSlot(t[Probe(h, n)[j]])}

\* The table after a put of a key that was not in it.
PutTable(t, k, v, h, n) ==
  LET stop == Min(Stops(t, k, h, n) \cup {n})
      place == Min(Places(t, h, n) \cup {n})
  IN  PutAt(Marked(t, Way(h, n, Min({stop, place}))), Probe(h, n)[place], k, v, h)

LEMMA PutTableGood ==
  ASSUME NEW n, NEW t, Good(t, n), NEW k \in Keys, NEW v \in Values, k \notin KeysOf(t),
         Cardinality(LiveIn(t)) < n, NEW h, h = Hash(k), NEW g, g = PutTable(t, k, v, h, n)
  PROVE  /\ Min(Places(t, h, n) \cup {n}) < n /\ Good(g, n)
         /\ Pairs(g) = Pairs(t) \cup {<<k, v>>}
         /\ Cardinality(LiveIn(g)) = Cardinality(LiveIn(t)) + 1
<1> DEFINE f == Probe(h, n)
           T == Places(t, h, n)
           S == Stops(t, k, h, n)
           x == Min(T \cup {n})
           y == Min(S \cup {n})
           m == Marked(t, Way(h, n, x))
           i == f[x]
<1>1. /\ Table(t, n) /\ n \in Nat /\ n \in Sizes
      /\ IsFiniteSet(0 .. n - 1) /\ Cardinality(0 .. n - 1) = n
      /\ \A j : j \in LiveIn(t) <=> j \in 0 .. n - 1 /\ t[j].key \in Keys
      /\ \A j \in 0 .. n - 1 : t[j] \in SlotState
  BY TableFacts DEF Good, Table
<1>2. h \in Nat
  BY KeyFacts
<1>3. f \in [0 .. n - 1 -> 0 .. n - 1]
  BY <1>1, <1>2, ProbeSlots
<1>4. \A j \in 0 .. n - 1 : j \in T <=> t[f[j]].key \notin Keys
  <2> SUFFICES ASSUME NEW j \in 0 .. n - 1 PROVE j \in T <=> t[f[j]].key \notin Keys
    OBVIOUS
  <2> DEFINE s == t[f[j]]
  <2>1. s \in SlotState
    BY <1>1, <1>3
  <2>2. j \in T <=> LastSlot(s) \/ ReusableSlot(s)
    BY DEF Places
  <2> HIDE DEF s
  <2>3. j \in T <=> s.key \notin Keys
    BY <2>1, <2>2, KeyFacts DEF LastSlot, ReusableSlot, SlotState
  <2> QED BY <2>3 DEF s
<1>5. T # {}
  <2>1. PICK a \in 0 .. n - 1 : t[a].key \notin Keys
    <3> SUFFICES ASSUME \A a \in 0 .. n - 1 : t[a].key \in Keys PROVE FALSE
      OBVIOUS
    <3>1. LiveIn(t) = 0 .. n - 1
      BY <1>1
    <3> QED BY <1>1, <3>1
  <2>2. PICK j \in 0 .. n - 1 : f[j] = a
    BY <1>1, <1>2, ProbeVisits
  <2> QED BY <1>4, <2>1, <2>2
<1>6. T \subseteq 0 .. n - 1 /\ S \subseteq T /\ S \subseteq 0 .. n - 1
  BY DEF Places, Stops, KeyEquals
<1> HIDE DEF T, S, f
<1>7. x \in T /\ x \in 0 .. n - 1 /\ \A z \in T : x <= z
  BY <1>1, <1>5, <1>6, FirstIs
<1>8. y \in 0 .. n /\ (y < n => y \in S)
  BY <1>1, <1>6, FirstIs
<1>9. Min({y, x}) = x
  <2> HIDE DEF x, y
  <2>1. x <= y
    BY <1>1, <1>6, <1>7, <1>8
  <2>2. {y, x} \subseteq Nat /\ {y, x} # {}
    BY <1>1, <1>7, <1>8
  <2>3. Min({y, x}) \in {y, x} /\ \A z \in {y, x} : Min({y, x}) <= z
    BY <2>2, MinIsLeast
  <2> QED BY <1>1, <1>7, <1>8, <2>1, <2>3
<1>10. g = PutAt(m, i, k, v, h)
  BY <1>9 DEF PutTable, T, S, f
<1> HIDE DEF x, y
<1>11. i \in 0 .. n - 1 /\ i \notin LiveIn(t)
  BY <1>1, <1>3, <1>4, <1>7
<1>12. \A a \in Way(h, n, x) : t[a].key # NullKey
  <2> SUFFICES ASSUME NEW j \in 0 .. x - 1 PROVE t[f[j]].key # NullKey
    BY DEF Way, f
  <2>1. j \in 0 .. n - 1 /\ j \notin T
    BY <1>1, <1>7
  <2> QED BY <1>4, <2>1, KeyFacts
<1>13. Good(g, n) /\ PutAs(g, t, n, i, k, v) /\ LiveIn(g) = LiveAfter(t, k, i)
  <2>1. m = Marked(t, Way(h, n, x)) /\ i = Probe(h, n)[x]
    BY DEF f
  <2>2. Probe(h, n)[x] \notin LiveIn(t)
    BY <1>11, <2>1
  <2>3. k \in Keys => h = Hash(k) /\ \A j \in LiveIn(t) : t[j].key # k
    BY DEF KeysOf
  <2>4. k \in Keys \cup {RemovedKey} /\ v \in Values \cup {Default} /\ x \in 0 .. n - 1
    BY <1>7
  <2> HIDE DEF m, i
  <2> QED BY <1>2, <1>10, <1>12, <2>1, <2>2, <2>3, <2>4, PutBehind
<1> HIDE DEF i
<1>14. Table(g, n)
  BY <1>13 DEF Good
<1>15. Pairs(g) = Pairs(t) \cup {<<k, v>>}
  BY <1>1, <1>11, <1>13, <1>14, PairsPut
<1>16. Cardinality(LiveIn(g)) = Cardinality(LiveIn(t)) + 1
  <2>1. IsFiniteSet(LiveIn(t))
    BY LiveCount
  <2>2. LiveIn(g) = LiveIn(t) \cup {i}
    BY <1>13 DEF LiveAfter
  <2> QED BY <1>11, <2>1, <2>2, FS_AddElement
<1>17. x < n
  BY <1>1, <1>7
<1> QED BY <1>13, <1>15, <1>16, <1>17 DEF x, T

-----------------------------------------------------------------------------
(* The dictionary that a table stands for.                                 *)

DictOf(t) == [k \in KeysOf(t) |-> t[CHOOSE i \in LiveIn(t) : t[i].key = k].value]

\* A dictionary with one more key, or with a key less.
PutIn(d, k, v) == [j \in DOMAIN d \cup {k} |-> IF j = k THEN v ELSE d[j]]
TakeOut(d, k) == [j \in DOMAIN d \ {k} |-> d[j]]

LEMMA DictIs ==
  ASSUME NEW n, NEW t, Good(t, n)
  PROVE  /\ DOMAIN DictOf(t) = KeysOf(t)
         /\ DictOf(t) = [k \in KeysOf(t) |-> DictOf(t)[k]]
         /\ \A i \in LiveIn(t) : t[i].key \in KeysOf(t) /\ DictOf(t)[t[i].key] = t[i].value
<1>1. ASSUME NEW i \in LiveIn(t)
      PROVE  t[i].key \in KeysOf(t) /\ DictOf(t)[t[i].key] = t[i].value
  <2> DEFINE c == CHOOSE j \in LiveIn(t) : t[j].key = t[i].key
  <2>1. c \in LiveIn(t) /\ t[c].key = t[i].key
    OBVIOUS
  <2>2. t[i].key \in KeysOf(t)
    BY DEF KeysOf
  <2>3. DictOf(t)[t[i].key] = t[c].value
    BY <2>2 DEF DictOf
  <2> HIDE DEF c
  <2>4. c = i
    BY <2>1 DEF Good
  <2> QED BY <2>2, <2>3, <2>4
<1> DEFINE val(k) == t[CHOOSE i \in LiveIn(t) : t[i].key = k].value
           d == DictOf(t)
<1>2. d = [k \in KeysOf(t) |-> val(k)]
  BY DEF DictOf
<1> HIDE DEF val, d
<1>3. DOMAIN d = KeysOf(t) /\ d = [k \in KeysOf(t) |-> d[k]]
  BY <1>2
<1> QED BY <1>1, <1>3 DEF d

LEMMA DictFrom ==
  ASSUME NEW n, NEW t, Good(t, n), NEW d, NEW D, d = [k \in D |-> d[k]], D = KeysOf(t),
         \A i \in LiveIn(t) : d[t[i].key] = t[i].value
  PROVE  DictOf(t) = d
<1>1. ASSUME NEW k \in KeysOf(t) PROVE DictOf(t)[k] = d[k]
  <2>1. PICK i \in LiveIn(t) : t[i].key = k
    BY DEF KeysOf
  <2> QED BY <2>1, DictIs
<1> DEFINE e == DictOf(t)
<1>2. e = [k \in D |-> e[k]]
  BY DictIs
<1> HIDE DEF e
<1>3. \A k \in D : e[k] = d[k]
  BY <1>1 DEF e
<1>4. e = d
  BY <1>2, <1>3
<1> QED BY <1>4 DEF e

LEMMA DictPut ==
  ASSUME NEW n, NEW t, Good(t, n), NEW m, NEW g, Good(g, m), NEW k, NEW v,
         k \notin KeysOf(t), Pairs(g) = Pairs(t) \cup {<<k, v>>}
  PROVE  DictOf(g) = PutIn(DictOf(t), k, v)
<1> DEFINE d == DictOf(t)
           D == KeysOf(t) \cup {k}
           e == PutIn(d, k, v)
<1>1. DOMAIN d = KeysOf(t)
  BY DictIs
<1>2. e = [j \in D |-> IF j = k THEN v ELSE d[j]]
  BY <1>1 DEF PutIn
<1>3. \A a, b : a \in LiveIn(b) => <<b[a].key, b[a].value>> \in Pairs(b)
  BY DEF Pairs
<1>4. ASSUME NEW i \in LiveIn(g)
      PROVE  g[i].key \in D /\ e[g[i].key] = g[i].value
  <2>1. <<g[i].key, g[i].value>> \in Pairs(t) \/ <<g[i].key, g[i].value>> = <<k, v>>
    BY <1>3
  <2>2. CASE <<g[i].key, g[i].value>> = <<k, v>>
    BY <1>2, <2>2
  <2>3. CASE <<g[i].key, g[i].value>> \in Pairs(t)
    <3>1. PICK j \in LiveIn(t) : <<g[i].key, g[i].value>> = <<t[j].key, t[j].value>>
      BY <2>3 DEF Pairs
    <3>2. g[i].key = t[j].key /\ g[i].value = t[j].value
      BY <3>1
    <3>3. t[j].key \in KeysOf(t) /\ d[t[j].key] = t[j].value
      BY DictIs
    <3> HIDE DEF d, e
    <3> QED BY <1>2, <3>2, <3>3
  <2> QED BY <2>1, <2>2, <2>3
<1>5. D \subseteq KeysOf(g)
  <2>1. k \in KeysOf(g)
    <3>1. PICK i \in LiveIn(g) : <<k, v>> = <<g[i].key, g[i].value>>
      BY DEF Pairs
    <3> QED BY <3>1 DEF KeysOf
  <2>2. ASSUME NEW j \in LiveIn(t) PROVE t[j].key \in KeysOf(g)
    <3>1. <<t[j].key, t[j].value>> \in Pairs(g)
      BY <1>3
    <3>2. PICK i \in LiveIn(g) : <<t[j].key, t[j].value>> = <<g[i].key, g[i].value>>
      BY <3>1 DEF Pairs
    <3> QED BY <3>2 DEF KeysOf
  <2>3. \A x \in KeysOf(t) : x \in KeysOf(g)
    BY <2>2 DEF KeysOf
  <2> QED BY <2>1, <2>3
<1>6. D = KeysOf(g)
  <2>1. \A x \in KeysOf(g) : x \in D
    BY <1>4 DEF KeysOf
  <2> QED BY <1>5, <2>1
<1>7. e = [j \in D |-> e[j]]
  BY <1>2
<1> HIDE DEF e, D, d
<1>8. DictOf(g) = e
  BY <1>4, <1>6, <1>7, DictFrom
<1> QED BY <1>8 DEF e, d

LEMMA DictTake ==
  ASSUME NEW n, NEW t, Good(t, n), NEW g, Good(g, n), NEW i \in LiveIn(t),
         LiveIn(g) = LiveIn(t) \ {i}, \A j \in LiveIn(g) : g[j] = t[j]
  PROVE  DictOf(g) = TakeOut(DictOf(t), t[i].key)
<1> DEFINE d == DictOf(t)
           k == t[i].key
           D == KeysOf(t) \ {k}
           e == TakeOut(d, k)
<1>1. DOMAIN d = KeysOf(t)
  BY DictIs
<1>2. e = [j \in D |-> d[j]]
  BY <1>1 DEF TakeOut
<1>3. \A j \in LiveIn(g) : g[j].key # k
  BY DEF Good
<1>4. \A j \in LiveIn(g) : g[j].key \in D /\ d[g[j].key] = g[j].value
  BY <1>3, DictIs
<1>5. \A j \in LiveIn(t) : t[j].key \in D => t[j].key \in KeysOf(g)
  BY DEF KeysOf
<1>6. D = KeysOf(g)
  <2>1. \A x : x \in D => x \in KeysOf(g)
    BY <1>5 DEF KeysOf
  <2>2. \A x : x \in KeysOf(g) => x \in D
    BY <1>4 DEF KeysOf
  <2> QED BY <2>1, <2>2
<1>7. e = [j \in D |-> e[j]]
  BY <1>2
<1>8. \A j \in LiveIn(g) : e[g[j].key] = g[j].value
  <2> HIDE DEF d, D
  <2> QED BY <1>2, <1>4
<1> HIDE DEF e, D, d
<1>9. DictOf(g) = e
  BY <1>6, <1>7, <1>8, DictFrom
<1> QED BY <1>9 DEF e, d

-----------------------------------------------------------------------------
(* The inductive invariant.                                                *)

Counted(t, c) ==
  Good(t, SizeOf(t)) /\ c = Cardinality(LiveIn(t)) /\ c <= Threshold(t)

\* What an enumerator has gone by, and has shown.
Shown(t, e) == {i \in LiveIn(t) : i <= e.pos}
KeysIn(s) == {s[i] : i \in DOMAIN s}
KeysAt(t, I) == {t[i].key : i \in I}
Shows(t, e) ==
  /\ e.pos \in -1 .. SizeOf(t)
  /\ KeysIn(e.seen) = KeysAt(t, Shown(t, e))
  /\ Len(e.seen) = Cardinality(Shown(t, e))

EnState == [pos : Int, current : BOOLEAN, seen : Seq(Keys)]

Right(t, c, r, e) ==
  /\ Counted(t, c)
  /\ r \in Values \cup {Default, "ok", "duplicate"}
  /\ e \in EnState /\ (e.current => Shows(t, e))

IInv == Right(table, inUse, result, en)

\* The invariant of the next state speaks of the next table.
LEMMA RightNext ==
  IInv' <=> Right(table', inUse', result', en')
BY SMT DEF IInv, Right, Counted, Good, Table, SlotState, LiveIn, IsKey, KeptAt, Passed, Probe,
       Step, Hash, SizeOf, Threshold, Shown, Shows, KeysIn, KeysAt, EnState, Sizes, MaxValue, NullKey,
       RemovedKey

LEMMA RightInit == Init => IInv
<1> SUFFICES ASSUME Init PROVE IInv
  OBVIOUS
<1> DEFINE n == ToPrime(1)
<1>1. n \in Sizes
  <2>1. 1 \in 1 .. Len(PrimeTbl) /\ PrimeTbl[1] \in Sizes
    BY PrimeAssumption DEF Sizes
  <2>2. PrimeTbl[1] \in Nat /\ PrimeTbl[1] >= 3
    BY <2>1, SizeFacts
  <2>3. \E q \in Sizes : 1 <= q
    BY <2>1, <2>2
  <2> QED BY <2>3, NextSize
<1> HIDE DEF n
<1>2. table = NewTable(n) /\ inUse = 0 /\ result = "ok" /\ en = Start
  BY DEF Init, n
<1>3. Good(table, n) /\ LiveIn(table) = {}
  BY <1>1, <1>2, NewGood
<1>4. SizeOf(table) = n /\ n \in Nat /\ n >= 3
  BY <1>3, TableFacts DEF Good
<1>5. Counted(table, inUse)
  <2>1. Threshold(table) \in Nat
    BY <1>4, Limits
  <2> QED BY <1>2, <1>3, <1>4, <2>1, FS_EmptySet DEF Counted
<1>6. Start \in EnState /\ Start.pos = -1 /\ Start.seen = <<>>
  BY DEF Start, EnState
<1>7. Shows(table, Start)
  <2>1. Shown(table, Start) = {}
    BY <1>3 DEF Shown
  <2> QED BY <1>4, <1>6, <2>1, FS_EmptySet DEF Shows, KeysIn, KeysAt
<1> QED BY <1>2, <1>5, <1>6, <1>7 DEF IInv, Right

\* An enumerator whose stamp is out of date promises nothing.
LEMMA Outdated ==
  ASSUME NEW e \in EnState
  PROVE  [e EXCEPT !.current = FALSE] \in EnState
         /\ ([e EXCEPT !.current = FALSE]).current = FALSE
BY DEF EnState

LEMMA InvFacts ==
  ASSUME IInv, NEW n, n = SizeOf(table)
  PROVE  /\ Good(table, n) /\ inUse = Cardinality(LiveIn(table)) /\ inUse <= Threshold(table)
         /\ n \in Nat /\ n >= 3 /\ DOMAIN table = 0 .. n - 1
         /\ inUse \in Nat /\ en \in EnState
<1>1. Good(table, n) /\ inUse = Cardinality(LiveIn(table)) /\ inUse <= Threshold(table)
  BY DEF IInv, Right, Counted
<1>2. n \in Nat /\ n >= 3 /\ DOMAIN table = 0 .. n - 1
  BY <1>1, TableFacts DEF Good
<1>3. inUse \in Nat
  BY <1>1, LiveCount
<1> QED BY <1>1, <1>2, <1>3 DEF IInv, Right

\* What PutImpl does with a key that is not in the table.
LEMMA PutImplIs ==
  ASSUME IInv, NEW k \in Keys, NEW v \in Values, NEW o, k \notin KeysOf(table),
         PutImpl(k, v, o)
  PROVE  /\ Right(table', inUse', result', en') /\ result' = "ok"
         /\ DictOf(table') = PutIn(DictOf(table), k, v)
<1> DEFINE t == Grown(table, inUse)
           h == Hash(k)
           n0 == SizeOf(table)
           n == SizeOf(t)
           f == Probe(h, n)
           S == Stops(t, k, h, n)
           T == Places(t, h, n)
           stop == Min(S \cup {n})
           place == Min(T \cup {n})
           m == Marked(t, Way(h, n, Min({stop, place})))
<1>1. /\ Good(table, n0) /\ inUse = Cardinality(LiveIn(table)) /\ inUse <= Threshold(table)
      /\ inUse \in Nat /\ en \in EnState
  BY InvFacts
<1>2. PICK q \in Sizes : /\ Good(t, q) /\ Pairs(t) = Pairs(table)
                         /\ inUse + 1 <= Threshold(t)
  <2> HIDE DEF t, n0
  <2>1. t = Grown(table, inUse)
    BY DEF t
  <2> QED BY <1>1, <2>1, GrownGood
<1>3. n = q /\ n \in Nat /\ n >= 3
  BY <1>2, TableFacts DEF Good
<1>4. Threshold(t) \in Nat /\ Threshold(t) < n
  BY <1>3, Limits
<1>5. k \notin KeysOf(t)
  BY <1>2, SameKeys
<1>6. Cardinality(LiveIn(t)) = inUse
  <2>1. KeysOf(t) = KeysOf(table)
    BY <1>2, SameKeys
  <2>2. Cardinality(KeysOf(t)) = Cardinality(LiveIn(t))
    BY <1>2, LiveCount
  <2>3. Cardinality(KeysOf(table)) = Cardinality(LiveIn(table))
    BY <1>1, LiveCount
  <2> QED BY <1>1, <2>1, <2>2, <2>3
<1> DEFINE g == PutTable(t, k, v, h, n)
<1>7. /\ place < n /\ Good(g, n) /\ Pairs(g) = Pairs(t) \cup {<<k, v>>}
      /\ Cardinality(LiveIn(g)) = Cardinality(LiveIn(t)) + 1
  <2> HIDE DEF t, n, h, g
  <2>1. Good(t, n) /\ Cardinality(LiveIn(t)) < n
    BY <1>1, <1>2, <1>3, <1>4, <1>6
  <2>2. h = Hash(k) /\ g = PutTable(t, k, v, h, n)
    BY DEF h, g
  <2> QED BY <1>5, <2>1, <2>2, PutTableGood
<1>8. table' = g /\ inUse' = inUse + 1 /\ result' = "ok" /\ en' = OutOfDate
  <2>1. ~(\E j : t[f[j]].hash = h /\ KeyEquals(k, t[f[j]].key)) /\ place < n
    BY <1>7 DEF KeyEquals
  <2>2. /\ table' = [m EXCEPT ![f[place]] = [m[f[place]] EXCEPT !.key = k, !.value = v, !.hash = h]]
        /\ inUse' = inUse + 1 /\ result' = "ok" /\ en' = OutOfDate
    BY <2>1 DEF PutImpl, FirstPlace, Stops, Places, Way, Grown, MustGrow
  <2> QED BY <2>2 DEF PutTable, PutAt
<1> HIDE DEF g
<1>9. Counted(g, inUse')
  <2>1. SizeOf(g) = n
    BY <1>7, TableFacts DEF Good
  <2>2. Threshold(g) = Threshold(t)
    BY <2>1 DEF Threshold
  <2> QED BY <1>2, <1>6, <1>7, <1>8, <2>1, <2>2 DEF Counted
<1>10. Right(table', inUse', result', en')
  <2>1. en' \in EnState /\ en'.current = FALSE
    BY <1>1, <1>8, Outdated DEF OutOfDate
  <2> QED BY <1>8, <1>9, <2>1 DEF Right
<1>11. DictOf(g) = PutIn(DictOf(table), k, v)
  <2>1. Pairs(g) = Pairs(table) \cup {<<k, v>>}
    BY <1>2, <1>7
  <2> HIDE DEF n, n0
  <2> QED BY <1>1, <1>7, <2>1, DictPut
<1> QED BY <1>8, <1>10, <1>11

\* Remove takes the key out, and nothing if it is not in the table.
LEMMA RemoveIs ==
  ASSUME IInv, NEW k \in Keys, Remove(k)
  PROVE  /\ Right(table', inUse', result', en') /\ result' = "ok"
         /\ DictOf(table') = TakeOut(DictOf(table), k)
<1> DEFINE n == SizeOf(table)
           i == Find(table, k)
<1>1. /\ Good(table, n) /\ inUse = Cardinality(LiveIn(table)) /\ inUse <= Threshold(table)
      /\ n \in Nat /\ inUse \in Nat /\ en \in EnState /\ n = SizeOf(table)
  BY InvFacts
<1> HIDE DEF n
<1>2. CASE i = -1
  <2>1. UNCHANGED <<table, inUse, en>> /\ result' = "ok"
    BY <1>2 DEF Remove
  <2>2. Right(table', inUse', result', en')
    BY <2>1 DEF IInv, Right
  <2>3. k \notin KeysOf(table)
    BY <1>1, <1>2, FindKnows
  <2> DEFINE d == DictOf(table)
  <2>4. DOMAIN d = KeysOf(table) /\ d = [j \in KeysOf(table) |-> d[j]]
    BY <1>1, DictIs
  <2> HIDE DEF d
  <2>5. DOMAIN d \ {k} = KeysOf(table)
    BY <2>3, <2>4
  <2>6. TakeOut(d, k) = d
    BY <2>4, <2>5 DEF TakeOut
  <2> QED BY <2>1, <2>2, <2>6 DEF d
<1>3. CASE i # -1
  <2> DEFINE g == RemovedAt(table, i)
  <2>1. i \in LiveIn(table) /\ table[i].key = k
    BY <1>1, <1>3, FindKnows
  <2>2. table' = g /\ inUse' = inUse - 1 /\ result' = "ok" /\ en' = OutOfDate
    BY <1>3 DEF Remove, RemovedAt
  <2> HIDE DEF i, g
  <2>3. /\ Good(g, n) /\ LiveIn(g) = LiveIn(table) \ {i}
        /\ \A j \in 0 .. n - 1 : j # i => g[j] = table[j]
    BY <1>1, <2>1, RemovedGood DEF g
  <2>4. Counted(g, inUse')
    <3>1. SizeOf(g) = n
      BY <2>3, TableFacts DEF Good
    <3>2. Threshold(g) = Threshold(table)
      BY <1>1, <3>1 DEF Threshold
    <3>3. Cardinality(LiveIn(g)) = inUse - 1
      BY <1>1, <2>1, <2>3, LiveCount, FS_RemoveElement
    <3>4. n >= 3 /\ Threshold(table) \in Nat
      BY <1>1, TableFacts, Limits DEF Good
    <3> QED BY <1>1, <2>2, <2>3, <3>1, <3>2, <3>3, <3>4 DEF Counted
  <2>5. Right(table', inUse', result', en')
    <3>1. en' \in EnState /\ en'.current = FALSE
      BY <1>1, <2>2, Outdated DEF OutOfDate
    <3> QED BY <2>2, <2>4, <3>1 DEF Right
  <2>6. DictOf(g) = TakeOut(DictOf(table), k)
    <3>1. \A j \in LiveIn(g) : g[j] = table[j]
      <4>1. \A j \in LiveIn(table) : j \in 0 .. n - 1
        BY <1>1, TableFacts DEF Good
      <4> QED BY <2>3, <4>1
    <3> QED BY <1>1, <2>1, <2>3, <3>1, DictTake
  <2> QED BY <2>2, <2>5, <2>6
<1> QED BY <1>2, <1>3

LEMMA ClearIs ==
  ASSUME IInv, Clear
  PROVE  /\ Right(table', inUse', result', en') /\ result' = "ok"
         /\ DictOf(table') = [k \in {} |-> Default]
<1> DEFINE n == SizeOf(table)
           g == NewTable(n)
<1>1. Good(table, n) /\ n \in Nat /\ n >= 3 /\ en \in EnState
  BY InvFacts
<1>2. table' = g /\ inUse' = 0 /\ result' = "ok" /\ en' = OutOfDate
  BY DEF Clear
<1>3. n \in Sizes
  BY <1>1 DEF Good, Table
<1> HIDE DEF n
<1>4. Good(g, n) /\ LiveIn(g) = {}
  BY <1>3, NewGood
<1> HIDE DEF g
<1>5. Counted(g, 0)
  <2>1. SizeOf(g) = n
    BY <1>4, TableFacts DEF Good
  <2>2. Threshold(g) \in Nat
    BY <1>1, <2>1, Limits
  <2> QED BY <1>4, <2>1, <2>2, FS_EmptySet DEF Counted
<1>6. Right(table', inUse', result', en')
  <2>1. en' \in EnState /\ en'.current = FALSE
    BY <1>1, <1>2, Outdated DEF OutOfDate
  <2> QED BY <1>2, <1>5, <2>1 DEF Right
<1>7. DictOf(g) = [k \in {} |-> Default]
  <2>1. KeysOf(g) = {}
    BY <1>4 DEF KeysOf
  <2> QED BY <2>1 DEF DictOf
<1> QED BY <1>2, <1>6, <1>7

\* Get returns what the dictionary has.
LEMMA GetIs ==
  ASSUME IInv, NEW k \in Keys, Get(k)
  PROVE  /\ Right(table', inUse', result', en') /\ table' = table
         /\ result' = IF k \in KeysOf(table) THEN DictOf(table)[k] ELSE Default
<1> DEFINE n == SizeOf(table)
           i == Find(table, k)
<1>1. Good(table, n)
  BY InvFacts
<1>2. /\ result' = IF i = -1 THEN Default ELSE table[i].value
      /\ table' = table /\ inUse' = inUse /\ en' = en
  BY DEF Get
<1>3. /\ i = -1 <=> k \notin KeysOf(table)
      /\ i # -1 => i \in LiveIn(table) /\ table[i].key = k
  BY <1>1, FindKnows
<1> HIDE DEF i, n
<1>4. ASSUME i # -1 PROVE /\ table[i].value \in Values \cup {Default}
                          /\ DictOf(table)[k] = table[i].value
  <2>1. i \in LiveIn(table) /\ table[i].key = k
    BY <1>3, <1>4
  <2>2. table[i] \in SlotState
    BY <1>1, <2>1, TableFacts DEF Good
  <2>3. DictOf(table)[k] = table[i].value
    BY <1>1, <2>1, DictIs
  <2> QED BY <2>2, <2>3 DEF SlotState
<1>5. result' \in Values \cup {Default}
  BY <1>2, <1>4
<1>6. Right(table', inUse', result', en')
  BY <1>2, <1>5 DEF IInv, Right
<1> QED BY <1>2, <1>3, <1>4, <1>6

\* MoveNext shows the next key, or goes to the end.
LEMMA MoveNextIs ==
  ASSUME IInv, MoveNext
  PROVE  Right(table', inUse', result', en') /\ table' = table /\ result' = result
<1> DEFINE n == SizeOf(table)
           later == {i \in DOMAIN table : i > en.pos /\ IsKey(table[i])}
           p == Min(later)
<1>1. /\ Good(table, n) /\ n \in Nat /\ DOMAIN table = 0 .. n - 1 /\ en \in EnState
      /\ n = SizeOf(table)
  BY InvFacts
<1>2. /\ en.current /\ table' = table /\ inUse' = inUse /\ result' = result
      /\ en' = IF later = {} THEN [en EXCEPT !.pos = n]
               ELSE [en EXCEPT !.pos = p, !.seen = Append(en.seen, table[p].key)]
  BY DEF MoveNext, FailFast
<1>3. Shows(table, en)
  BY <1>2 DEF IInv, Right
<1>4. later = {i \in LiveIn(table) : i > en.pos}
  BY DEF LiveIn
<1>5. \A i \in LiveIn(table) : i \in 0 .. n - 1 /\ table[i].key \in Keys
  BY <1>1, TableFacts DEF Good
<1>6. /\ en.pos \in Int /\ en.current \in BOOLEAN /\ en.seen \in Seq(Keys)
      /\ en = [pos |-> en.pos, current |-> en.current, seen |-> en.seen]
  BY <1>1 DEF EnState
<1> HIDE DEF n, later
<1>7. CASE later = {}
  <2> DEFINE e == [en EXCEPT !.pos = n]
  <2>1. /\ e \in EnState /\ e.pos = n /\ e.seen = en.seen
    BY <1>1 DEF EnState
  <2>2. en' = e
    BY <1>2, <1>7
  <2> HIDE DEF e
  <2>3. Shown(table, e) = Shown(table, en)
    <3>1. \A i \in LiveIn(table) : i <= en.pos /\ i <= n
      BY <1>1, <1>4, <1>5, <1>6, <1>7
    <3> QED BY <2>1, <3>1 DEF Shown
  <2>4. Shows(table, e)
    <3>1. e.pos \in -1 .. SizeOf(table)
      BY <1>1, <2>1
    <3> QED BY <1>3, <2>1, <2>3, <3>1 DEF Shows
  <2>5. Right(table, inUse, result, e)
    BY <2>1, <2>4 DEF IInv, Right
  <2> QED BY <1>2, <2>2, <2>5
<1>8. CASE later # {}
  <2> DEFINE e == [en EXCEPT !.pos = p, !.seen = Append(en.seen, table[p].key)]
             s == en.seen
             k == table[p].key
  <2>1. p \in later /\ \A i \in later : p <= i
    <3>1. later \subseteq Nat
      BY <1>1, <1>4, <1>5
    <3> QED BY <1>8, <3>1, MinIsLeast
  <2>2. p \in LiveIn(table) /\ p \in 0 .. n - 1 /\ p > en.pos /\ k \in Keys
    BY <1>4, <1>5, <2>1
  <2>3. s \in Seq(Keys) /\ Append(s, k) \in Seq(Keys)
    BY <1>6, <2>2
  <2>4. e \in EnState /\ e.pos = p /\ e.seen = Append(s, k)
    <3> DEFINE a == Append(s, k)
    <3>1. p \in Int /\ a \in Seq(Keys) /\ en \in EnState
      BY <1>1, <2>2, <2>3
    <3>2. e = [en EXCEPT !.pos = p, !.seen = a]
      OBVIOUS
    <3> HIDE DEF a, e, p
    <3>3. e \in EnState /\ e.pos = p /\ e.seen = a
      BY <3>1, <3>2 DEF EnState
    <3> QED BY <3>3 DEF a
  <2>5. en' = e
    BY <1>2, <1>8
  <2> HIDE DEF e, p
  <2>6. Shown(table, e) = Shown(table, en) \cup {p} /\ p \notin Shown(table, en)
    <3>1. \A i \in LiveIn(table) : i <= p <=> i <= en.pos \/ i = p
      BY <1>1, <1>4, <1>5, <1>6, <2>1, <2>2
    <3>2. ~(p <= en.pos)
      BY <1>6, <2>2
    <3> QED BY <2>2, <2>4, <3>1, <3>2 DEF Shown
  <2>7. Len(Append(s, k)) = Cardinality(Shown(table, e))
    <3>1. IsFiniteSet(Shown(table, en))
      <4>1. Shown(table, en) \in SUBSET LiveIn(table)
        BY DEF Shown
      <4> QED BY <1>1, <4>1, LiveCount, FS_Subset
    <3>2. Cardinality(Shown(table, e)) = Cardinality(Shown(table, en)) + 1
      BY <2>6, <3>1, FS_AddElement
    <3>3. Len(s) = Cardinality(Shown(table, en))
      BY <1>3 DEF Shows
    <3>4. Len(Append(s, k)) = Len(s) + 1
      BY <2>3
    <3> QED BY <3>2, <3>3, <3>4
  <2>8. KeysIn(e.seen) = KeysAt(table, Shown(table, e))
    <3>1. KeysIn(s) = KeysAt(table, Shown(table, en))
      BY <1>3 DEF Shows
    <3> DEFINE a == Append(s, k)
    <3>2. /\ DOMAIN s = 1 .. Len(s) /\ DOMAIN a = 1 .. Len(s) + 1 /\ Len(s) \in Nat
          /\ \A i \in 1 .. Len(s) : a[i] = s[i]
          /\ a[Len(s) + 1] = k
      BY <2>3
    <3> HIDE DEF a, s
    <3>3. \A x : x \in KeysIn(a) <=> x \in KeysIn(s) \/ x = k
      BY <3>2 DEF KeysIn
    <3>4. \A x : x \in KeysAt(table, Shown(table, e))
                   <=> x \in KeysAt(table, Shown(table, en)) \/ x = k
      BY <2>6 DEF KeysAt
    <3>5. KeysAt(table, Shown(table, e)) \subseteq KeysIn(a)
      BY <3>1, <3>3, <3>4
    <3>6. KeysIn(a) \subseteq KeysAt(table, Shown(table, e))
      BY <3>1, <3>3, <3>4
    <3>7. e.seen = a
      BY <2>4 DEF a, s
    <3> HIDE DEF k
    <3> QED BY <3>5, <3>6, <3>7
  <2>9. Shows(table, e)
    <3>1. e.pos \in -1 .. SizeOf(table)
      BY <1>1, <2>2, <2>4
    <3>2. Len(e.seen) = Cardinality(Shown(table, e))
      BY <2>4, <2>7
    <3> QED BY <2>8, <3>1, <3>2 DEF Shows
  <2>10. Right(table, inUse, result, e)
    BY <2>4, <2>9 DEF IInv, Right
  <2> QED BY <1>2, <2>5, <2>10
<1> QED BY <1>7, <1>8

\* What a step does to the invariant and to the dictionary, as long as callers
\* do not put a key that is in the table.
DictStep(d, r, e, q) ==
  \/ \E k \in Keys, v \in Values :
       k \notin DOMAIN d /\ e = PutIn(d, k, v) /\ q = "ok"
  \/ \E k \in Keys : e = d /\ q = IF k \in DOMAIN d THEN d[k] ELSE Default
  \/ \E k \in Keys : e = TakeOut(d, k) /\ q = "ok"
  \/ e = [k \in {} |-> Default] /\ q = "ok"
  \/ e = d /\ q = r

LEMMA RightStep ==
  ASSUME ~Overwriting, IInv, [Next]_vars
  PROVE  /\ Right(table', inUse', result', en')
         /\ DictStep(DictOf(table), result, DictOf(table'), result')
<1> DEFINE n == SizeOf(table)
<1>1. Good(table, n) /\ DOMAIN DictOf(table) = KeysOf(table) /\ en \in EnState
  BY InvFacts, DictIs
<1> HIDE DEF n
<1>2. ASSUME NEW k \in Keys, NEW v \in Values, NEW o, Allowed(k), PutImpl(k, v, o)
      PROVE  /\ Right(table', inUse', result', en')
             /\ DictStep(DictOf(table), result, DictOf(table'), result')
  <2>1. k \notin KeysOf(table)
    BY <1>1, <1>2, FindKnows DEF Allowed
  <2>2. /\ Right(table', inUse', result', en') /\ result' = "ok"
        /\ DictOf(table') = PutIn(DictOf(table), k, v)
    BY <1>2, <2>1, PutImplIs
  <2> QED BY <1>1, <2>1, <2>2 DEF DictStep
<1>3. CASE \E k \in Keys, v \in Values : Add(k, v) \/ Set(k, v)
  BY <1>2, <1>3 DEF Add, Set
<1>4. CASE \E k \in Keys : Get(k)
  <2>1. PICK k \in Keys : Get(k)
    BY <1>4
  <2>2. /\ Right(table', inUse', result', en') /\ table' = table
        /\ result' = IF k \in KeysOf(table) THEN DictOf(table)[k] ELSE Default
    BY <2>1, GetIs
  <2> QED BY <1>1, <2>2 DEF DictStep
<1>5. CASE \E k \in Keys : Remove(k)
  <2>1. PICK k \in Keys : Remove(k)
    BY <1>5
  <2>2. /\ Right(table', inUse', result', en') /\ result' = "ok"
        /\ DictOf(table') = TakeOut(DictOf(table), k)
    BY <2>1, RemoveIs
  <2> QED BY <2>2 DEF DictStep
<1>6. CASE Clear
  BY <1>6, ClearIs DEF DictStep
<1>7. CASE GetEnumerator
  <2>1. en' = Start /\ table' = table /\ inUse' = inUse /\ result' = result
    BY <1>7 DEF GetEnumerator
  <2>2. Start \in EnState /\ Start.pos = -1 /\ Start.seen = <<>>
    BY DEF Start, EnState
  <2>3. Shows(table, Start)
    <3>1. \A i \in LiveIn(table) : i \in 0 .. n - 1
      BY <1>1, TableFacts DEF Good
    <3>2. Shown(table, Start) = {}
      BY <2>2, <3>1 DEF Shown
    <3>3. SizeOf(table) \in Nat
      BY InvFacts
    <3>4. -1 \in -1 .. SizeOf(table) /\ Len(<<>>) = 0
      BY <3>3
    <3> QED BY <2>2, <3>2, <3>4, FS_EmptySet DEF Shows, KeysIn, KeysAt
  <2> QED BY <2>1, <2>2, <2>3 DEF IInv, Right, DictStep
<1>8. CASE MoveNext
  BY <1>8, MoveNextIs DEF DictStep
<1>9. CASE UNCHANGED vars
  BY <1>9 DEF vars, IInv, Right, DictStep
<1> QED BY <1>3, <1>4, <1>5, <1>6, <1>7, <1>8, <1>9 DEF Next

LEMMA Invariance ==
  ASSUME ~Overwriting
  PROVE  Spec => []IInv
<1>1. Init => IInv
  BY RightInit
<1>2. IInv /\ [Next]_vars => IInv'
  BY RightStep, RightNext
<1> QED BY <1>1, <1>2, PTL DEF Spec

-----------------------------------------------------------------------------
LEMMA InvTypeOK == IInv => TypeOK
<1> SUFFICES ASSUME IInv PROVE TypeOK
  OBVIOUS
<1> DEFINE n == SizeOf(table)
<1>1. /\ Good(table, n) /\ inUse \in Nat /\ n \in Nat /\ n >= 3 /\ inUse <= Threshold(table)
      /\ DOMAIN table = 0 .. n - 1
  BY InvFacts
<1>2. n \in Sizes /\ \A i \in DOMAIN table : table[i] \in SlotState
  BY <1>1, TableFacts DEF Good, Table
<1>3. Threshold(table) \in Nat
  BY <1>1, Limits
<1>4. result \in Values \cup {Default, "ok", "duplicate"}
  BY DEF IInv, Right
<1>5. inUse \in 0 .. Threshold(table)
  BY <1>1, <1>3
<1>6. \A i \in DOMAIN table :
        /\ table[i].key \in Keys \cup {NullKey, RemovedKey}
        /\ table[i].value \in Values \cup {Default}
        /\ table[i].hash \in Nat /\ table[i].chain \in BOOLEAN
  BY <1>2 DEF SlotState
<1> QED BY <1>2, <1>4, <1>5, <1>6 DEF TypeOK

LEMMA InvChains == IInv => ChainsIntact
<1> SUFFICES ASSUME IInv, NEW i \in Live PROVE Find(table, table[i].key) = i
  BY DEF ChainsIntact
<1>1. Good(table, SizeOf(table)) /\ i \in LiveIn(table)
  BY InvFacts DEF Live, LiveIn
<1>2. table[i].key \in Keys
  BY <1>1, TableFacts DEF Good
<1> QED BY <1>1, <1>2, FindIs

LEMMA InvCount == IInv => CountRight
BY InvFacts DEF CountRight, Live, LiveIn

LEMMA InvEnumeration == IInv => EnumerationExact
<1> SUFFICES ASSUME IInv, en.pos = SizeOf(table), en.current
             PROVE  /\ KeysIn(en.seen) = KeysAt(table, Live)
                    /\ Len(en.seen) = Cardinality(Live)
  BY DEF EnumerationExact, FailFast, KeysIn, KeysAt
<1>1. Shows(table, en)
  BY DEF IInv, Right
<1>2. Good(table, SizeOf(table)) /\ SizeOf(table) \in Nat
  BY InvFacts
<1>3. \A i \in LiveIn(table) : i <= SizeOf(table)
  BY <1>2, TableFacts DEF Good
<1>4. Shown(table, en) = Live
  BY <1>3 DEF Shown, Live, LiveIn
<1> QED BY <1>1, <1>4 DEF Shows

\* A table always has a size from primeTbl, slots with keys of the callers, and
\* no more keys than its limit, so that every put finds room.
THEOREM TableTypeCorrect ==
  ASSUME ~Overwriting
  PROVE  Spec => []TypeOK
BY Invariance, InvTypeOK, PTL

\* Whatever was put, removed and rehashed before, a lookup finds every key, at
\* the only slot that has it: no search is cut off by a missing marker.
THEOREM TableKeepsChains ==
  ASSUME ~Overwriting
  PROVE  Spec => []ChainsIntact
BY Invariance, InvChains, PTL

\* Count is the number of keys in the table.
THEOREM TableCounts ==
  ASSUME ~Overwriting
  PROVE  Spec => []CountRight
BY Invariance, InvCount, PTL

\* An enumeration that comes to its end has shown every key, once.
THEOREM TableEnumerates ==
  ASSUME ~Overwriting
  PROVE  Spec => []EnumerationExact
BY Invariance, InvEnumeration, PTL

-----------------------------------------------------------------------------
(* The refinement of module Dictionary.                                    *)

dictOf == [k \in Stored |-> table[CHOOSE i \in Live : table[i].key = k].value]

LEMMA DictNow == dictOf = DictOf(table)
BY DEF dictOf, DictOf, Stored, Live, KeysOf, LiveIn

LEMMA DictNext == dictOf' = DictOf(table')
BY DEF dictOf, DictOf, Stored, Live, KeysOf, LiveIn, IsKey, NullKey, RemovedKey

LEMMA PromiseInit == Init => Promise!Init
<1> SUFFICES ASSUME Init PROVE dictOf = [k \in {} |-> Default] /\ result = "ok"
  BY DEF Promise!Init, dictOf
<1>1. IInv
  BY RightInit
<1>2. DOMAIN table = 0 .. ToPrime(1) - 1 /\ \A i \in DOMAIN table : table[i] = EmptySlot
  BY DEF Init, NewTable
<1>3. LiveIn(table) = {}
  BY <1>2 DEF LiveIn, IsKey, EmptySlot
<1>4. DictOf(table) = [k \in {} |-> Default]
  BY <1>3 DEF DictOf, KeysOf
<1> QED BY <1>4, DictNow DEF Init

LEMMA PromiseStep ==
  ASSUME DictStep(dictOf, result, dictOf', result')
  PROVE  [Promise!Next]_<<dictOf, result>>
<1>1. ASSUME NEW k \in Keys, NEW v \in Values, k \notin DOMAIN dictOf,
             dictOf' = PutIn(dictOf, k, v), result' = "ok"
      PROVE  Promise!Add(k, v)
  BY <1>1 DEF Promise!Add, Promise!With, PutIn, dictOf
<1>2. ASSUME NEW k \in Keys, dictOf' = dictOf,
             result' = IF k \in DOMAIN dictOf THEN dictOf[k] ELSE Default
      PROVE  Promise!Get(k)
  BY <1>2 DEF Promise!Get, dictOf
<1>3. ASSUME NEW k \in Keys, dictOf' = TakeOut(dictOf, k), result' = "ok"
      PROVE  Promise!Remove(k)
  BY <1>3 DEF Promise!Remove, TakeOut, dictOf
<1>4. ASSUME dictOf' = [k \in {} |-> Default], result' = "ok"
      PROVE  Promise!Clear
  BY <1>4 DEF Promise!Clear, dictOf
<1>5. \/ \E k \in Keys, v \in Values : Promise!Add(k, v)
      \/ \E k \in Keys : Promise!Get(k) \/ Promise!Remove(k)
      \/ Promise!Clear
      \/ UNCHANGED <<dictOf, result>>
  BY <1>1, <1>2, <1>3, <1>4 DEF DictStep
<1> QED BY <1>5 DEF Promise!Next, dictOf

\* The table implements a dictionary: each operation changes the pairs of keys
\* and values, and returns, as a dictionary would, and growing, marking and
\* enumerating change nothing that callers see.
THEOREM TableImplementsDictionary ==
  ASSUME ~Overwriting
  PROVE  Spec => RefinesDictionary
<1>1. Init => Promise!Init
  BY PromiseInit
<1>2. IInv /\ [Next]_vars => [Promise!Next]_<<dictOf, result>>
  BY RightStep, PromiseStep, DictNow, DictNext
<1>3. IInv /\ [Next]_vars => [Promise!Next]_<<[k \in Stored |->
                        table[CHOOSE i \in Live : table[i].key = k].value], result>>
  BY <1>2 DEF dictOf
<1>4. Spec => []IInv
  BY Invariance
<1> QED BY <1>1, <1>3, <1>4, PTL DEF Spec, RefinesDictionary, Promise!Spec
=============================================================================
