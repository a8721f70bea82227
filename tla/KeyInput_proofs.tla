--------------------------- MODULE KeyInput_proofs ---------------------------
(***************************************************************************)
(* Proofs about module KeyInput, for any keys and any number of presses:   *)
(* the queues hold keys, and the loop gets the keys in the order in which  *)
(* they were typed, none lost, doubled or misread.                         *)
(***************************************************************************)
EXTENDS KeyInput, SequenceTheorems, TLAPS

Code == 0 .. 255

\* The table a code is looked up in, when sequence c comes at table km.
TableAt(c, km, i) ==
  IF i = 1 THEN km ELSE IF c[i - 1] = Prefix THEN "extended" ELSE "plain"
KeyOf(x, table) ==
  IF table = "plain" THEN ScanCodeToKeyCode[x % 128]
  ELSE ExtendedScanCodeToKeyCode[x % 128]

\* The codes keyboards send, and those the loop will hear of.
Strokes == Codes \cup {c + Released : c \in Codes}
Valid(x, table) ==
  \/ x \in {Ack, Prefix} /\ table = "plain"
  \/ x \in Strokes /\ (table = "plain" \/ x % 128 \in {28, 73})
Types(x, table) == x \in Codes /\ KeyOf(x, table) # "PAGEUP"

(* The codes c, the first of them looked up in table km, spell the keys q: *)
(* m counts the keys up to each code.                                      *)
Counts(c, km, q, m) ==
  /\ m \in [0 .. Len(c) -> Int] /\ m[0] = 0 /\ m[Len(c)] = Len(q)
  /\ \A i, j \in 0 .. Len(c) : i <= j => m[i] <= m[j]
  /\ \A i \in 1 .. Len(c) :
       /\ Valid(c[i], TableAt(c, km, i))
       /\ IF Types(c[i], TableAt(c, km, i))
          THEN m[i] = m[i - 1] + 1 /\ q[m[i]] = KeyOf(c[i], TableAt(c, km, i))
          ELSE m[i] = m[i - 1]
Spells(c, km, q) == \E m : Counts(c, km, q, m)
TableAfter(c, km) == TableAt(c, km, Len(c) + 1)

-----------------------------------------------------------------------------
(* Sequences.                                                              *)

LEMMA HeadAndTail ==
  ASSUME NEW S, NEW s \in Seq(S), s # <<>>
  PROVE  Head(s) \in S /\ Tail(s) \in Seq(S) /\ <<Head(s)>> \o Tail(s) = s
<1>1. /\ Head(s) \in S /\ Tail(s) \in Seq(S)
      /\ Len(Tail(s)) = Len(s) - 1 /\ Len(s) \in Nat /\ Len(s) > 0
      /\ \A i \in 1 .. Len(Tail(s)) : Tail(s)[i] = s[i + 1]
  BY HeadTailProperties
<1> DEFINE w == <<Head(s)>> \o Tail(s)
<1>2. /\ <<Head(s)>> \in Seq(S) /\ Len(<<Head(s)>>) = 1
      /\ <<Head(s)>>[1] = s[1]
  BY <1>1
<1>3. /\ w \in Seq(S) /\ Len(w) = 1 + (Len(s) - 1)
      /\ \A i \in 1 .. 1 + (Len(s) - 1) :
           w[i] = IF i <= 1 THEN <<Head(s)>>[i] ELSE Tail(s)[i - 1]
  BY <1>1, <1>2, ConcatProperties
<1> HIDE DEF w
<1>4. Len(w) = Len(s) /\ \A i \in 1 .. Len(s) : w[i] = s[i]
  BY <1>1, <1>2, <1>3
<1>5. w = s
  BY <1>3, <1>4, SeqEqual
<1> QED BY <1>1, <1>5 DEF w

LEMMA HeadOfConcat ==
  ASSUME NEW S, NEW s \in Seq(S), NEW t \in Seq(S), s # <<>>
  PROVE  /\ s \o t \in Seq(S) /\ s \o t # <<>>
         /\ Head(s \o t) = Head(s) /\ Tail(s \o t) = Tail(s) \o t
<1> DEFINE u == s \o t
           h == <<Head(s)>>
           r == Tail(s) \o t
<1>1. /\ Head(s) \in S /\ Tail(s) \in Seq(S) /\ h \in Seq(S)
      /\ Len(s) \in Nat /\ Len(t) \in Nat /\ Len(s) > 0
      /\ Head(s) = s[1]
  BY HeadAndTail
<1>2. u = h \o r
  BY <1>1, HeadAndTail, ConcatAssociative
<1>3. r \in Seq(S) /\ Len(r) \in Nat
  BY <1>1, ConcatProperties
<1> HIDE DEF r
<1>4. /\ u \in Seq(S) /\ Len(u) = 1 + Len(r)
      /\ \A i \in 1 .. 1 + Len(r) : u[i] = IF i <= 1 THEN h[i] ELSE r[i - 1]
  BY <1>1, <1>2, <1>3, ConcatProperties
<1> HIDE DEF u
<1>5. u # <<>> /\ Head(u) = Head(s)
  BY <1>3, <1>4
<1>6. /\ Tail(u) \in Seq(S) /\ Len(Tail(u)) = Len(u) - 1
      /\ \A i \in 1 .. Len(Tail(u)) : Tail(u)[i] = u[i + 1]
  BY <1>4, <1>5, HeadTailProperties
<1>7. Len(Tail(u)) = Len(r) /\ \A i \in 1 .. Len(r) : Tail(u)[i] = r[i]
  BY <1>3, <1>4, <1>6
<1>8. Tail(u) = r
  BY <1>3, <1>6, <1>7, SeqEqual
<1> QED BY <1>4, <1>5, <1>8 DEF u, r

\* Sequences of keys and of codes put together.
LEMMA Joined ==
  /\ \A s, t \in Seq(Key) : s \o t \in Seq(Key)
  /\ \A s, t \in Seq(Code) : s \o t \in Seq(Code)
BY ConcatProperties

LEMMA KeysJoined ==
  \A s, t, u \in Seq(Key) : (s \o t) \o u = s \o (t \o u)
BY ConcatAssociative

LEMMA CodesJoined ==
  \A s, t, u \in Seq(Code) : (s \o t) \o u = s \o (t \o u)
BY ConcatAssociative

-----------------------------------------------------------------------------
(* The tables.                                                             *)

LEMMA CodesRight ==
  /\ \A k \in Plain : CodeOf(k) \in Codes /\ ScanCodeToKeyCode[CodeOf(k)] = k
  /\ \A k \in Extended : k \notin Plain /\ CodeOf(k) \in {28, 73}
                         /\ ExtendedScanCodeToKeyCode[CodeOf(k)] = k
<1>1. ASSUME NEW k \in Plain
      PROVE  CodeOf(k) \in Codes /\ ScanCodeToKeyCode[CodeOf(k)] = k
  <2>1. PICK c \in Codes : ScanCodeToKeyCode[c] = k
    BY DEF Plain
  <2> QED BY <2>1 DEF CodeOf
<1>2. Plain = {"ESC", "BACKSPACE", "RETURN", "A", "PAD_9"}
  BY DEF Plain, ScanCodeToKeyCode, Codes
<1>3. ASSUME NEW k \in Extended
      PROVE  k \notin Plain /\ CodeOf(k) \in {28, 73}
             /\ ExtendedScanCodeToKeyCode[CodeOf(k)] = k
  <2>1. k \notin Plain
    BY <1>2 DEF Extended
  <2>2. \E c \in Codes : ExtendedScanCodeToKeyCode[c] = k
    <3>1. 28 \in Codes /\ 73 \in Codes
      BY DEF Codes
    <3>2. /\ ExtendedScanCodeToKeyCode[28] = "PAD_ENTER"
          /\ ExtendedScanCodeToKeyCode[73] = "PAGEUP"
      BY <3>1 DEF ExtendedScanCodeToKeyCode
    <3> QED BY <3>1, <3>2 DEF Extended
  <2>3. CodeOf(k) \in Codes /\ ExtendedScanCodeToKeyCode[CodeOf(k)] = k
    BY <2>1, <2>2 DEF CodeOf
  <2>4. \A c \in Codes : ExtendedScanCodeToKeyCode[c] \in Extended => c \in {28, 73}
    BY DEF ExtendedScanCodeToKeyCode, Extended, Codes
  <2> QED BY <2>1, <2>3, <2>4
<1> QED BY <1>1, <1>3

LEMMA StrokesTyped ==
  /\ \A c \in Codes : /\ c \in Int /\ c >= 0 /\ c < Released /\ c % 128 = c
                      /\ c + Released \in Strokes /\ c \in Strokes
                      /\ (c + Released) % 128 = c /\ c + Released \notin Codes
  /\ \A x \in Strokes : /\ x \in Code /\ x \notin {Ack, Prefix}
                        /\ x % 128 \in Codes /\ (x \in Codes <=> x < Released)
  /\ Ack \in Code /\ Prefix \in Code /\ Ack # Prefix
  /\ Ack \notin Codes /\ Prefix \notin Codes
<1>1. ASSUME NEW c \in Codes
      PROVE  /\ c \in Int /\ c >= 0 /\ c < 123 /\ c % 128 = c
             /\ (c + 128) % 128 = c
  BY DEF Codes
<1> QED BY <1>1 DEF Strokes, Released, Ack, Prefix, Code, Codes

LEMMA KeysTyped ==
  /\ UserKeys \subseteq Plain \cup Extended
  /\ \A c \in Codes : /\ ScanCodeToKeyCode[c] \in Plain
                      /\ ScanCodeToKeyCode[c] # "PAGEUP"
                      /\ ScanCodeToKeyCode[c] \in Key
                      /\ ExtendedScanCodeToKeyCode[c] \in Key
  /\ Plain \subseteq Key /\ Extended \subseteq Key
  /\ MaxPresses \in Nat
<1>1. \A c \in Codes : ScanCodeToKeyCode[c] # "PAGEUP"
  BY DEF ScanCodeToKeyCode, Codes
<1>2. \A c \in Codes : ExtendedScanCodeToKeyCode[c] \in Extended \cup {"NONE"}
  BY DEF ExtendedScanCodeToKeyCode, Codes, Extended
<1> QED BY <1>1, <1>2, KeyAssumption DEF Plain, Key

LEMMA TypedKey ==
  ASSUME NEW x, NEW table, Types(x, table)
  PROVE  KeyOf(x, table) \in Key
BY KeysTyped, StrokesTyped DEF Types, KeyOf

-----------------------------------------------------------------------------
(* Codes and keys.                                                         *)

LEMMA SpellsNothing == Spells(<<>>, "plain", <<>>)
<1> DEFINE m == [i \in 0 .. 0 |-> 0]
<1>1. Len(<<>>) = 0
  OBVIOUS
<1>2. Counts(<<>>, "plain", <<>>, m)
  BY <1>1 DEF Counts
<1> QED BY <1>2 DEF Spells

\* One more code is sent.
LEMMA SpellsMore ==
  ASSUME NEW c \in Seq(Code), NEW km, NEW q \in Seq(Key), Spells(c, km, q),
         NEW x \in Code, Valid(x, TableAfter(c, km)),
         NEW p, p = IF Types(x, TableAfter(c, km))
                    THEN Append(q, KeyOf(x, TableAfter(c, km))) ELSE q
  PROVE  /\ Spells(Append(c, x), km, p) /\ p \in Seq(Key)
         /\ TableAfter(Append(c, x), km) =
              IF x = Prefix THEN "extended" ELSE "plain"
<1> DEFINE n == Len(c)
           c2 == Append(c, x)
           t == TableAfter(c, km)
           d == IF Types(x, t) THEN 1 ELSE 0
<1>1. PICK m : Counts(c, km, q, m)
  BY DEF Spells
<1> DEFINE m2 == [i \in 0 .. n + 1 |-> IF i <= n THEN m[i] ELSE m[n] + d]
<1>2. /\ n \in Nat /\ Len(c2) = n + 1 /\ c2[n + 1] = x
      /\ \A i \in 1 .. n : c2[i] = c[i]
  BY AppendProperties
<1>3. /\ p \in Seq(Key) /\ Len(q) \in Nat /\ Len(p) = Len(q) + d
      /\ \A i \in 1 .. Len(q) : p[i] = q[i]
      /\ Types(x, t) => p[Len(q) + 1] = KeyOf(x, t)
  <2>1. CASE Types(x, t)
    BY <2>1, TypedKey, AppendProperties
  <2>2. CASE ~Types(x, t)
    BY <2>2
  <2> QED BY <2>1, <2>2
<1>4. \A i \in 1 .. n : TableAt(c2, km, i) = TableAt(c, km, i)
  BY <1>2 DEF TableAt
<1>5. TableAt(c2, km, n + 1) = t
  BY <1>2 DEF TableAt, TableAfter
<1>6. TableAfter(c2, km) = IF x = Prefix THEN "extended" ELSE "plain"
  BY <1>2 DEF TableAt, TableAfter
<1>7. /\ m \in [0 .. n -> Int] /\ m[0] = 0 /\ m[n] = Len(q) /\ d \in {0, 1}
      /\ \A i, j \in 0 .. n : i <= j => m[i] <= m[j]
  BY <1>1 DEF Counts
<1> HIDE DEF c2, t, d
<1>8. /\ m2 \in [0 .. n + 1 -> Int] /\ m2[0] = 0 /\ m2[n + 1] = Len(p)
      /\ \A i, j \in 0 .. n + 1 : i <= j => m2[i] <= m2[j]
  BY <1>2, <1>3, <1>7
<1>9. ASSUME NEW i \in 1 .. n + 1
      PROVE  /\ Valid(c2[i], TableAt(c2, km, i))
             /\ IF Types(c2[i], TableAt(c2, km, i))
                THEN m2[i] = m2[i - 1] + 1
                     /\ p[m2[i]] = KeyOf(c2[i], TableAt(c2, km, i))
                ELSE m2[i] = m2[i - 1]
  <2>1. CASE i <= n
    <3>1. i \in 1 .. n /\ m2[i] = m[i] /\ m2[i - 1] = m[i - 1]
      BY <1>2, <2>1
    <3>2. /\ Valid(c[i], TableAt(c, km, i))
          /\ IF Types(c[i], TableAt(c, km, i))
             THEN m[i] = m[i - 1] + 1 /\ q[m[i]] = KeyOf(c[i], TableAt(c, km, i))
             ELSE m[i] = m[i - 1]
      BY <1>1, <3>1 DEF Counts
    <3>3. m[0] <= m[i - 1] /\ m[i] <= m[n] /\ m[i] \in Int /\ m[i - 1] \in Int
      <4>1. i \in 0 .. n /\ i - 1 \in 0 .. n /\ 0 \in 0 .. n /\ n \in 0 .. n
        BY <1>2, <3>1
      <4>2. 0 <= i - 1 /\ i <= n
        BY <3>1, <1>2
      <4> HIDE DEF n, m2
      <4> QED BY <1>7, <4>1, <4>2
    <3>4. m[i] = m[i - 1] + 1 => m[i] \in 1 .. Len(q)
      BY <1>3, <1>7, <3>3
    <3> HIDE DEF m2
    <3> QED BY <1>2, <1>3, <1>4, <3>1, <3>2, <3>4
  <2>2. CASE i = n + 1
    <3>1. m2[i] = m[n] + d /\ m2[i - 1] = m[n]
      BY <1>2, <2>2
    <3>2. c2[i] = x /\ TableAt(c2, km, i) = t /\ Valid(x, t)
      BY <1>2, <1>5, <2>2 DEF t
    <3>3. CASE Types(x, t)
      <4>1. d = 1
        BY <3>3 DEF d
      <4>2. m2[i] = Len(q) + 1 /\ m2[i] = m2[i - 1] + 1
        BY <1>7, <3>1, <4>1
      <4> HIDE DEF m2
      <4> QED BY <1>3, <3>2, <3>3, <4>2
    <3>4. CASE ~Types(x, t)
      <4>1. d = 0
        BY <3>4 DEF d
      <4>2. m2[i] = m2[i - 1]
        BY <1>3, <1>7, <3>1, <4>1
      <4> HIDE DEF m2
      <4> QED BY <3>2, <3>4, <4>2
    <3> QED BY <3>3, <3>4
  <2>3. i <= n \/ i = n + 1
    BY <1>2
  <2> HIDE DEF n, m2
  <2> QED BY <2>1, <2>2, <2>3
<1>10. Counts(c2, km, p, m2)
  <2> HIDE DEF m2
  <2> QED BY <1>2, <1>8, <1>9 DEF Counts
<1> QED BY <1>3, <1>6, <1>10 DEF Spells, c2

\* The first code is taken.
LEMMA SpellsLess ==
  ASSUME NEW c \in Seq(Code), c # <<>>, NEW km, NEW q \in Seq(Key),
         Spells(c, km, q)
  PROVE  LET km2 == IF Head(c) = Prefix THEN "extended" ELSE "plain"
         IN  /\ Valid(Head(c), km)
             /\ TableAfter(Tail(c), km2) = TableAfter(c, km)
             /\ IF Types(Head(c), km)
                THEN /\ q # <<>> /\ Head(q) = KeyOf(Head(c), km)
                     /\ Spells(Tail(c), km2, Tail(q))
                ELSE Spells(Tail(c), km2, q)
<1> DEFINE km2 == IF Head(c) = Prefix THEN "extended" ELSE "plain"
           n == Len(c)
           c2 == Tail(c)
<1>1. PICK m : Counts(c, km, q, m)
  BY DEF Spells
<1>2. /\ n \in Nat /\ n > 0 /\ Len(c2) = n - 1 /\ Head(c) = c[1]
      /\ \A i \in 1 .. n - 1 : c2[i] = c[i + 1]
  BY HeadTailProperties
<1>3. \A i \in 1 .. n : TableAt(c2, km2, i) = TableAt(c, km, i + 1)
  BY <1>2 DEF TableAt
<1>4. TableAt(c, km, 1) = km
  BY DEF TableAt
<1>5. /\ Valid(Head(c), km)
      /\ IF Types(Head(c), km)
         THEN m[1] = m[0] + 1 /\ q[m[1]] = KeyOf(Head(c), km)
         ELSE m[1] = m[0]
  BY <1>1, <1>2, <1>4 DEF Counts
<1>6. /\ m \in [0 .. n -> Int] /\ m[0] = 0 /\ m[n] = Len(q)
      /\ \A i, j \in 0 .. n : i <= j => m[i] <= m[j]
  BY <1>1 DEF Counts
<1> DEFINE q2 == IF Types(Head(c), km) THEN Tail(q) ELSE q
           m2 == [i \in 0 .. n - 1 |-> m[i + 1] - m[1]]
<1>7. /\ Len(q) \in Nat /\ q2 \in Seq(Key) /\ Len(q2) = Len(q) - m[1]
      /\ \A i \in 1 .. Len(q2) : q2[i] = q[i + m[1]]
      /\ Types(Head(c), km) => q # <<>> /\ Head(q) = KeyOf(Head(c), km)
  <2>1. CASE Types(Head(c), km)
    <3>1. m[1] = 1 /\ m[1] <= m[n]
      BY <1>2, <1>5, <1>6, <2>1
    <3>2. q # <<>>
      BY <1>6, <3>1
    <3> QED BY <1>5, <2>1, <3>1, <3>2, HeadTailProperties
  <2>2. CASE ~Types(Head(c), km)
    BY <1>5, <1>6, <2>2
  <2> QED BY <2>1, <2>2
<1> HIDE DEF km2, c2, q2, n
<1>8. /\ m2 \in [0 .. n - 1 -> Int] /\ m2[0] = 0 /\ m2[n - 1] = Len(q2)
      /\ \A i, j \in 0 .. n - 1 : i <= j => m2[i] <= m2[j]
  <2>1. 0 \in 0 .. n - 1 /\ n - 1 \in 0 .. n - 1 /\ n - 1 + 1 = n /\ 1 \in 0 .. n
    BY <1>2
  <2>2. \A i \in 0 .. n - 1 : i + 1 \in 0 .. n
    BY <1>2
  <2>3. m2[0] = 0 /\ m2[n - 1] = Len(q2)
    <3>1. m2[0] = m[0 + 1] - m[1] /\ m2[n - 1] = m[n - 1 + 1] - m[1]
      BY <2>1
    <3>2. 0 + 1 = 1 /\ m[1] \in Int
      BY <1>6, <2>1
    <3> HIDE DEF m2
    <3>3. m2[0] = m[1] - m[1] /\ m2[n - 1] = m[n] - m[1]
      BY <2>1, <3>1, <3>2
    <3>4. m2[0] = 0
      BY <3>2, <3>3
    <3>5. m2[n - 1] = Len(q2)
      <4>1. m[n] = Len(q) /\ Len(q2) = Len(q) - m[1]
        BY <1>6, <1>7
      <4> QED BY <3>3, <4>1
    <3> QED BY <3>4, <3>5
  <2>4. m2 \in [0 .. n - 1 -> Int]
    BY <1>6, <2>1, <2>2
  <2>5. ASSUME NEW i \in 0 .. n - 1, NEW j \in 0 .. n - 1, i <= j
        PROVE  m2[i] <= m2[j]
    <3>1. i + 1 \in 0 .. n /\ j + 1 \in 0 .. n /\ i + 1 <= j + 1
      BY <1>2, <2>5
    <3>2. m[i + 1] <= m[j + 1] /\ m[i + 1] \in Int /\ m[j + 1] \in Int
          /\ m[1] \in Int
      BY <1>6, <2>1, <3>1
    <3> QED BY <3>2
  <2> QED BY <2>3, <2>4, <2>5
<1>9. ASSUME NEW i \in 1 .. n - 1
      PROVE  /\ Valid(c2[i], TableAt(c2, km2, i))
             /\ IF Types(c2[i], TableAt(c2, km2, i))
                THEN m2[i] = m2[i - 1] + 1
                     /\ q2[m2[i]] = KeyOf(c2[i], TableAt(c2, km2, i))
                ELSE m2[i] = m2[i - 1]
  <2>1. /\ i + 1 \in 1 .. n /\ i \in 0 .. n /\ i - 1 \in 0 .. n - 1
        /\ i + 1 - 1 = i
    BY <1>2
  <2>2. /\ Valid(c[i + 1], TableAt(c, km, i + 1))
        /\ IF Types(c[i + 1], TableAt(c, km, i + 1))
           THEN /\ m[i + 1] = m[i] + 1
                /\ q[m[i + 1]] = KeyOf(c[i + 1], TableAt(c, km, i + 1))
           ELSE m[i + 1] = m[i]
    <3>1. \A j \in 1 .. n :
            /\ Valid(c[j], TableAt(c, km, j))
            /\ IF Types(c[j], TableAt(c, km, j))
               THEN m[j] = m[j - 1] + 1 /\ q[m[j]] = KeyOf(c[j], TableAt(c, km, j))
               ELSE m[j] = m[j - 1]
      BY <1>1 DEF Counts, n
    <3> HIDE DEF n
    <3> QED BY <2>1, <3>1
  <2>3. m2[i] = m[i + 1] - m[1] /\ m2[i - 1] = m[i] - m[1]
    BY <1>2, <2>1
  <2>4. /\ m[i] \in Int /\ m[i + 1] \in Int /\ m[1] \in Int
        /\ m[1] <= m[i] /\ m[i + 1] <= m[n]
    BY <1>2, <1>6, <2>1
  <2> HIDE DEF m2
  <2>5. m[i + 1] = m[i] + 1 => m2[i] \in 1 .. Len(q2) /\ m2[i] + m[1] = m[i + 1]
    <3> SUFFICES ASSUME m[i + 1] = m[i] + 1
                 PROVE  m2[i] \in 1 .. Len(q2) /\ m2[i] + m[1] = m[i + 1]
      OBVIOUS
    <3>1. /\ Len(q) \in Int /\ m[n] \in Int /\ m[n] = Len(q)
          /\ Len(q2) = Len(q) - m[1]
      BY <1>6, <1>7
    <3>2. m2[i] \in Int /\ m2[i] + m[1] = m[i + 1]
      BY <2>3, <2>4
    <3>3. m2[i] >= 1
      <4>1. m2[i] + m[1] >= 1 + m[1]
        BY <2>4, <3>2
      <4> QED BY <2>4, <3>2, <4>1
    <3>4. m2[i] <= Len(q2)
      <4>1. m[i + 1] <= Len(q)
        BY <2>4, <3>1
      <4>2. m[i + 1] - m[1] <= Len(q) - m[1]
        BY <2>4, <3>1, <4>1
      <4>3. m2[i] = m[i + 1] - m[1] /\ Len(q2) = Len(q) - m[1]
        BY <2>3, <3>1
      <4> QED BY <4>2, <4>3
    <3>5. Len(q2) \in Int
      BY <2>4, <3>1
    <3> QED BY <3>2, <3>3, <3>4, <3>5
  <2>6. c2[i] = c[i + 1] /\ TableAt(c2, km2, i) = TableAt(c, km, i + 1)
    BY <1>2, <1>3
  <2>7. m[i + 1] = m[i] + 1 => m2[i] = m2[i - 1] + 1 /\ q2[m2[i]] = q[m[i + 1]]
    <3>1. m[i + 1] = m[i] + 1 => m2[i] = m2[i - 1] + 1
      BY <2>3, <2>4
    <3>2. m[i + 1] = m[i] + 1 => q2[m2[i]] = q[m[i + 1]]
      BY <1>7, <2>5
    <3> QED BY <3>1, <3>2
  <2>8. m[i + 1] = m[i] => m2[i] = m2[i - 1]
    BY <2>3
  <2> QED BY <2>2, <2>6, <2>7, <2>8
<1>10. Counts(c2, km2, q2, m2)
  <2> HIDE DEF m2
  <2> QED BY <1>2, <1>8, <1>9 DEF Counts, n
<1>11. TableAfter(c2, km2) = TableAfter(c, km)
  BY <1>2, <1>3 DEF TableAfter, n
<1> QED BY <1>5, <1>7, <1>10, <1>11 DEF Spells, km2, c2, q2

\* A key goes down or up.
LEMMA SpellsSent ==
  ASSUME NEW c \in Seq(Code), NEW km, NEW q \in Seq(Key), Spells(c, km, q),
         TableAfter(c, km) = "plain",
         NEW k \in UserKeys, NEW bit \in {0, Released}
  PROVE  /\ Sent(k, bit) \in Seq(Code) /\ Queued(k) \in Seq(Key)
         /\ Spells(c \o Sent(k, bit), km, IF bit = 0 THEN q \o Queued(k) ELSE q)
         /\ TableAfter(c \o Sent(k, bit), km) = "plain"
<1> DEFINE x == CodeOf(k) + bit
<1>1. k \in Plain \cup Extended /\ k \in Key
  BY KeysTyped
<1>2. /\ CodeOf(k) \in Codes /\ x \in Strokes /\ x \in Code /\ x # Prefix
      /\ x % 128 = CodeOf(k) /\ x # Ack /\ (x \in Codes <=> bit = 0)
  <2>1. CodeOf(k) \in Codes
    BY <1>1, CodesRight DEF Codes
  <2>2. CodeOf(k) + 0 = CodeOf(k)
    BY <2>1, StrokesTyped
  <2>3. Released # 0
    BY DEF Released
  <2> HIDE DEF x
  <2>4. CASE bit = 0
    <3>1. x = CodeOf(k)
      BY <2>2, <2>4 DEF x
    <3> QED BY <2>1, <2>4, <3>1, StrokesTyped
  <2>5. CASE bit = Released
    <3>1. x = CodeOf(k) + Released
      BY <2>5 DEF x
    <3> QED BY <2>1, <2>3, <2>5, <3>1, StrokesTyped
  <2> QED BY <2>4, <2>5
<1>3. CASE k \in Plain
  <2>1. Sent(k, bit) = <<x>> /\ Queued(k) = <<k>> /\ c \o <<x>> = Append(c, x)
    <3>1. k # "PAGEUP"
      BY <1>2, <1>3, CodesRight, KeysTyped
    <3> QED BY <1>2, <1>3, <3>1, AppendIsConcat DEF Sent, Queued
  <2>2. KeyOf(x, "plain") = k /\ k # "PAGEUP"
    BY <1>2, <1>3, CodesRight, KeysTyped DEF KeyOf
  <2> HIDE DEF x
  <2>3. Valid(x, "plain") /\ (Types(x, "plain") <=> bit = 0)
    BY <1>2, <2>2 DEF Valid, Types
  <2>4. q \o Queued(k) = Append(q, k)
    BY <1>1, <2>1, AppendIsConcat
  <2>5. /\ Spells(Append(c, x), km, IF Types(x, "plain") THEN Append(q, k) ELSE q)
        /\ TableAfter(Append(c, x), km) = "plain"
    BY <1>2, <2>2, <2>3, SpellsMore
  <2>6. <<x>> \in Seq(Code) /\ <<k>> \in Seq(Key)
    BY <1>1, <1>2
  <2>7. (IF Types(x, "plain") THEN Append(q, k) ELSE q)
          = (IF bit = 0 THEN q \o Queued(k) ELSE q)
    BY <2>3, <2>4
  <2> QED BY <2>1, <2>5, <2>6, <2>7
<1>4. CASE k \notin Plain
  <2> DEFINE c1 == Append(c, Prefix)
  <2>1. k \in Extended /\ CodeOf(k) \in {28, 73}
    BY <1>1, <1>4, CodesRight
  <2>2. KeyOf(x, "extended") = k
    BY <1>2, <2>1, CodesRight DEF KeyOf
  <2>3. Valid(x, "extended") /\ (Types(x, "extended") <=> bit = 0 /\ k # "PAGEUP")
    BY <1>2, <2>1, <2>2 DEF Valid, Types
  <2>4. /\ Spells(c1, km, q) /\ TableAfter(c1, km) = "extended"
        /\ c1 \in Seq(Code)
    <3>1. Prefix \in Code /\ Valid(Prefix, "plain") /\ ~Types(Prefix, "plain")
      BY StrokesTyped DEF Valid, Types
    <3> QED BY <3>1, SpellsMore, AppendProperties
  <2> HIDE DEF x
  <2>5. c \o Sent(k, bit) = Append(c1, x) /\ Sent(k, bit) \in Seq(Code)
    <3>1. Prefix \in Code
      BY StrokesTyped
    <3>2. Sent(k, bit) = <<Prefix, x>>
      BY <1>4 DEF Sent, x
    <3>3. <<Prefix, x>> = <<Prefix>> \o <<x>>
      OBVIOUS
    <3>4. <<Prefix>> \in Seq(Code) /\ <<x>> \in Seq(Code) /\ <<Prefix, x>> \in Seq(Code)
      BY <1>2, <3>1
    <3>5. c1 = c \o <<Prefix>>
      BY <3>1, AppendIsConcat
    <3> HIDE DEF c1
    <3>6. Append(c1, x) = c1 \o <<x>>
      BY <1>2, <2>4, AppendIsConcat
    <3>7. (c \o <<Prefix>>) \o <<x>> = c \o (<<Prefix>> \o <<x>>)
      BY <3>4, ConcatAssociative
    <3> QED BY <3>2, <3>3, <3>4, <3>5, <3>6, <3>7
  <2> DEFINE p == IF Types(x, "extended") THEN Append(q, k) ELSE q
  <2> HIDE DEF c1
  <2>6. /\ Spells(Append(c1, x), km, p)
        /\ TableAfter(Append(c1, x), km) = "plain"
    BY <1>2, <2>2, <2>3, <2>4, SpellsMore
  <2>7. p = (IF bit = 0 THEN q \o Queued(k) ELSE q) /\ Queued(k) \in Seq(Key)
    <3>1. Queued(k) = IF k = "PAGEUP" THEN <<>> ELSE <<k>>
      BY DEF Queued
    <3>2. q \o <<>> = q /\ q \o <<k>> = Append(q, k)
      BY <1>1, ConcatEmptySeq, AppendIsConcat
    <3>3. <<>> \in Seq(Key) /\ <<k>> \in Seq(Key)
      BY <1>1
    <3> QED BY <2>3, <3>1, <3>2, <3>3
  <2> HIDE DEF p
  <2> QED BY <2>5, <2>6, <2>7
<1> QED BY <1>3, <1>4

-----------------------------------------------------------------------------
(* The invariant.                                                          *)

(* Where the loop is says whether interrupts are on and what is in its     *)
(* copy of the queue.                                                      *)
LoopInv ==
  /\ flagIF = (pc \notin {"copy", "clear", "sti"})
  /\ pc \in {"startup", "started", "cli", "copy", "hlt"} => buf = <<>>
  /\ pc = "clear" => buf = typedkeys
  /\ pc = "append" => buf # <<>> /\ Head(buf) \notin Special

\* The keys that have come through the handler and wait for the loop.
Held == IF pc = "clear" THEN typedkeys ELSE buf \o typedkeys

(* Behind them come the keys that the codes spell which the handler has    *)
(* not seen yet; a machine that has stopped no longer takes them.          *)
Maps == {"plain", "extended"}
Spellings ==
  {s \in [codes : Seq(Code), table : Maps, keys : Seq(Key)] :
     Spells(s.codes, s.table, s.keys) /\ TableAfter(s.codes, s.table) = "plain"}
OnTheWay(q) ==
  machine = "running" =>
    [codes |-> ob \o wire, table |-> keymap, keys |-> q] \in Spellings
InOrder == \E q \in Seq(Key) : pending = Held \o q /\ OnTheWay(q)

IInv == TypeOK /\ LoopInv /\ InOrder

LEMMA SpellingsAre ==
  ASSUME NEW c \in Seq(Code), NEW km \in Maps, NEW q \in Seq(Key)
  PROVE  [codes |-> c, table |-> km, keys |-> q] \in Spellings
           <=> Spells(c, km, q) /\ TableAfter(c, km) = "plain"
BY DEF Spellings

LEMMA InitHolds == Init => IInv
<1> SUFFICES ASSUME Init PROVE IInv
  OBVIOUS
<1>1. TypeOK
  <2>1. /\ typedkeys \in Seq(Key) /\ buf \in Seq(Key) /\ pending \in Seq(Key)
        /\ cmdline \in Seq(Key \ {"RETURN", "ESC", "BACKSPACE"})
        /\ ob \in Seq(0 .. 255) /\ Len(ob) <= 1 /\ wire \in Seq(0 .. 255)
    BY DEF Init
  <2>2. /\ keymap = "plain" /\ pc = "startup" /\ machine = "running"
        /\ down \subseteq UserKeys
    BY DEF Init
  <2>3. presses \in 0 .. MaxPresses
    BY KeysTyped DEF Init
  <2>4. {irq1, flagIF, reentered} \subseteq BOOLEAN
    BY DEF Init
  <2> QED BY <2>1, <2>2, <2>3, <2>4 DEF TypeOK
<1> USE DEF Init
<1>2. LoopInv
  BY DEF LoopInv
<1>3. InOrder
  <2>1. <<>> \in Seq(Key) /\ <<>> \in Seq(Code)
    OBVIOUS
  <2>2. ob \o wire = <<>> /\ Held = <<>> /\ pending = Held \o <<>>
    BY <2>1, ConcatEmptySeq DEF Held
  <2>3. TableAfter(<<>>, "plain") = "plain"
    BY DEF TableAfter, TableAt
  <2>4. OnTheWay(<<>>)
    BY <2>1, <2>2, <2>3, SpellsNothing, SpellingsAre DEF OnTheWay, Maps
  <2> QED BY <2>1, <2>2, <2>4 DEF InOrder
<1> QED BY <1>1, <1>2, <1>3 DEF IInv

-----------------------------------------------------------------------------
(* The keyboard and its controller.                                        *)

LEMMA SentTyped ==
  ASSUME NEW k \in UserKeys, NEW bit \in {0, Released}
  PROVE  Sent(k, bit) \in Seq(Code) /\ Queued(k) \in Seq(Key)
<1>1. <<>> \in Seq(Code) /\ <<>> \in Seq(Key)
  OBVIOUS
<1>2. TableAfter(<<>>, "plain") = "plain"
  BY DEF TableAfter, TableAt
<1> QED BY <1>1, <1>2, SpellsNothing, SpellsSent

LEMMA QueuesTyped ==
  ASSUME TypeOK
  PROVE  /\ ob \in Seq(Code) /\ wire \in Seq(Code) /\ ob \o wire \in Seq(Code)
         /\ typedkeys \in Seq(Key) /\ buf \in Seq(Key) /\ Held \in Seq(Key)
<1>1. ob \in Seq(Code) /\ wire \in Seq(Code)
  BY DEF TypeOK, Code
<1>2. typedkeys \in Seq(Key) /\ buf \in Seq(Key)
  BY DEF TypeOK
<1> QED BY <1>1, <1>2, ConcatProperties DEF Held

LEMMA PressKeeps ==
  ASSUME IInv, NEW k \in UserKeys, Press(k)
  PROVE  IInv'
<1> DEFINE c == ob \o wire
           sent == Sent(k, 0)
<1>1. /\ presses' = presses + 1 /\ presses < MaxPresses /\ down' = down \cup {k}
      /\ wire' = wire \o sent /\ pending' = pending \o Queued(k)
      /\ UNCHANGED <<ob, irq1, flagIF, keymap, typedkeys, buf, cmdline, pc,
                     machine, reentered>>
  BY DEF Press, main
<1>2. sent \in Seq(Code) /\ Queued(k) \in Seq(Key)
  BY SentTyped
<1>3. TypeOK /\ wire \in Seq(Code) /\ ob \in Seq(Code) /\ c \in Seq(Code)
      /\ Held \in Seq(Key) /\ keymap \in Maps
  BY QueuesTyped DEF IInv, TypeOK, Maps
<1>4. TypeOK'
  <2>1. wire' \in Seq(0 .. 255) /\ pending' \in Seq(Key)
    BY <1>1, <1>2, <1>3, ConcatProperties DEF TypeOK, Code
  <2>2. presses' \in 0 .. MaxPresses
    BY <1>1, <1>3, KeysTyped DEF TypeOK
  <2>3. down' \subseteq UserKeys
    BY <1>1, <1>3 DEF TypeOK
  <2> QED BY <1>1, <1>3, <2>1, <2>2, <2>3 DEF TypeOK
<1>5. LoopInv'
  BY <1>1 DEF IInv, LoopInv
<1>6. InOrder'
  <2>1. PICK q \in Seq(Key) : pending = Held \o q /\ OnTheWay(q)
    BY DEF IInv, InOrder
  <2>2. Held' = Held
    BY <1>1 DEF Held
  <2> PICK q2 : q2 = q \o Queued(k)
    OBVIOUS
  <2>3. q2 \in Seq(Key) /\ (Held \o q) \o Queued(k) = Held \o q2
    BY <1>2, <1>3, Joined, KeysJoined
  <2>4. pending' = Held' \o q2
    BY <1>1, <2>1, <2>2, <2>3
  <2>5. ob' \o wire' = c \o sent /\ c \o sent \in Seq(Code)
    <3>1. sent \in Seq(Code)
      BY <1>2
    <3> HIDE DEF sent
    <3>2. (ob \o wire) \o sent = ob \o (wire \o sent)
      BY <1>3, <3>1, ConcatAssociative
    <3>3. c \o sent \in Seq(Code)
      BY <1>3, <3>1, ConcatProperties
    <3> QED BY <1>1, <3>2, <3>3
  <2>6. OnTheWay(q2)'
    <3> SUFFICES ASSUME machine = "running"
                 PROVE  [codes |-> c \o sent, table |-> keymap, keys |-> q2]
                          \in Spellings
      BY <1>1, <2>5 DEF OnTheWay
    <3>1. Spells(c, keymap, q) /\ TableAfter(c, keymap) = "plain"
      BY <1>3, <2>1, SpellingsAre DEF OnTheWay
    <3> HIDE DEF c
    <3>2. Spells(c \o sent, keymap, q2) /\ TableAfter(c \o sent, keymap) = "plain"
      BY <1>3, <3>1, SpellsSent
    <3> QED BY <1>3, <2>3, <2>5, <3>2, SpellingsAre
  <2> QED BY <2>3, <2>4, <2>6 DEF InOrder
<1> QED BY <1>4, <1>5, <1>6 DEF IInv

LEMMA ReleaseKeeps ==
  ASSUME IInv, NEW k \in UserKeys, Release(k)
  PROVE  IInv'
<1> DEFINE c == ob \o wire
           sent == Sent(k, Released)
<1>1. /\ down' = down \ {k} /\ wire' = wire \o sent
      /\ UNCHANGED <<ob, irq1, flagIF, keymap, typedkeys, buf, cmdline, pc,
                     machine, presses, pending, reentered>>
  BY DEF Release, main
<1>2. sent \in Seq(Code)
  BY SentTyped
<1>3. TypeOK /\ wire \in Seq(Code) /\ ob \in Seq(Code) /\ c \in Seq(Code)
      /\ keymap \in Maps
  BY QueuesTyped DEF IInv, TypeOK, Maps
<1>4. TypeOK'
  <2>1. wire' \in Seq(0 .. 255)
    BY <1>1, <1>2, <1>3, ConcatProperties DEF Code
  <2>2. down' \subseteq UserKeys
    BY <1>1, <1>3 DEF TypeOK
  <2> QED BY <1>1, <1>3, <2>1, <2>2 DEF TypeOK
<1>5. LoopInv'
  BY <1>1 DEF IInv, LoopInv
<1>6. InOrder'
  <2>1. PICK q \in Seq(Key) : pending = Held \o q /\ OnTheWay(q)
    BY DEF IInv, InOrder
  <2>2. pending' = Held' \o q
    BY <1>1, <2>1 DEF Held
  <2>3. ob' \o wire' = c \o sent
    BY <1>1, <1>2, <1>3, CodesJoined
  <2>4. OnTheWay(q)'
    <3> SUFFICES ASSUME machine = "running"
                 PROVE  [codes |-> c \o sent, table |-> keymap, keys |-> q]
                          \in Spellings
      BY <1>1, <2>3 DEF OnTheWay
    <3>1. Spells(c, keymap, q) /\ TableAfter(c, keymap) = "plain"
      BY <1>3, <2>1, SpellingsAre DEF OnTheWay
    <3>2. Released # 0
      BY DEF Released
    <3>3. c \o sent \in Seq(Code)
      BY <1>2, <1>3, ConcatProperties
    <3> HIDE DEF c
    <3>4. Spells(c \o sent, keymap, q) /\ TableAfter(c \o sent, keymap) = "plain"
      BY <1>3, <3>1, <3>2, SpellsSent
    <3> QED BY <1>3, <3>3, <3>4, SpellingsAre
  <2> QED BY <2>2, <2>4 DEF InOrder
<1> QED BY <1>4, <1>5, <1>6 DEF IInv

LEMMA AcknowledgeKeeps ==
  ASSUME IInv, Acknowledge
  PROVE  IInv'
<1> DEFINE c == ob \o wire
<1>1. /\ presses' = presses + 1 /\ presses < MaxPresses
      /\ wire' = Append(wire, Ack)
      /\ UNCHANGED <<ob, irq1, flagIF, keymap, typedkeys, buf, cmdline, pc,
                     machine, down, pending, reentered>>
  BY DEF Acknowledge, main
<1>2. Ack \in Code /\ Valid(Ack, "plain") /\ ~Types(Ack, "plain") /\ Ack # Prefix
  BY StrokesTyped DEF Valid, Types
<1>3. TypeOK /\ wire \in Seq(Code) /\ ob \in Seq(Code) /\ c \in Seq(Code)
      /\ keymap \in Maps
  BY QueuesTyped DEF IInv, TypeOK, Maps
<1>4. TypeOK'
  <2>1. wire' \in Seq(0 .. 255)
    BY <1>1, <1>2, <1>3, AppendProperties DEF Code
  <2>2. presses' \in 0 .. MaxPresses
    BY <1>1, <1>3, KeysTyped DEF TypeOK
  <2> QED BY <1>1, <1>3, <2>1, <2>2 DEF TypeOK
<1>5. LoopInv'
  BY <1>1 DEF IInv, LoopInv
<1>6. InOrder'
  <2>1. PICK q \in Seq(Key) : pending = Held \o q /\ OnTheWay(q)
    BY DEF IInv, InOrder
  <2>2. pending' = Held' \o q
    BY <1>1, <2>1 DEF Held
  <2>3. ob' \o wire' = Append(c, Ack)
    <3>1. <<Ack>> \in Seq(Code)
      BY <1>2
    <3>2. Append(wire, Ack) = wire \o <<Ack>> /\ Append(c, Ack) = c \o <<Ack>>
      BY <1>2, <1>3, AppendIsConcat
    <3> QED BY <1>1, <1>3, <3>1, <3>2, ConcatAssociative
  <2>4. OnTheWay(q)'
    <3> SUFFICES ASSUME machine = "running"
                 PROVE  [codes |-> Append(c, Ack), table |-> keymap, keys |-> q]
                          \in Spellings
      BY <1>1, <2>3 DEF OnTheWay
    <3>1. Spells(c, keymap, q) /\ TableAfter(c, keymap) = "plain"
      BY <1>3, <2>1, SpellingsAre DEF OnTheWay
    <3>2. Append(c, Ack) \in Seq(Code)
      BY <1>2, <1>3, AppendProperties
    <3> HIDE DEF c
    <3>3. /\ Spells(Append(c, Ack), keymap, q)
          /\ TableAfter(Append(c, Ack), keymap) = "plain"
      BY <1>2, <1>3, <3>1, SpellsMore
    <3> QED BY <1>3, <3>2, <3>3, SpellingsAre
  <2> QED BY <2>2, <2>4 DEF InOrder
<1> QED BY <1>4, <1>5, <1>6 DEF IInv

LEMMA FillKeeps ==
  ASSUME IInv, Fill
  PROVE  IInv'
<1>1. /\ ob = <<>> /\ wire # <<>> /\ ob' = <<Head(wire)>> /\ wire' = Tail(wire)
      /\ irq1' = TRUE
      /\ UNCHANGED <<flagIF, keymap, typedkeys, buf, cmdline, pc, machine, down,
                     presses, pending, reentered>>
  BY DEF Fill, main, user
<1>2. TypeOK /\ wire \in Seq(Code)
  BY QueuesTyped DEF IInv
<1>3. /\ Head(wire) \in Code /\ Tail(wire) \in Seq(Code)
      /\ <<Head(wire)>> \o Tail(wire) = wire
  BY <1>1, <1>2, HeadAndTail
<1>4. TypeOK'
  <2>1. ob' \in Seq(0 .. 255) /\ Len(ob') <= 1 /\ wire' \in Seq(0 .. 255)
    BY <1>1, <1>3 DEF Code
  <2>2. {irq1', flagIF', reentered'} \subseteq BOOLEAN
    BY <1>1, <1>2 DEF TypeOK
  <2> QED BY <1>1, <1>2, <2>1, <2>2 DEF TypeOK
<1>5. LoopInv'
  BY <1>1 DEF IInv, LoopInv
<1>6. InOrder'
  <2>1. ob' \o wire' = ob \o wire
    BY <1>1, <1>2, <1>3, ConcatEmptySeq
  <2> QED BY <1>1, <2>1 DEF IInv, InOrder, OnTheWay, Held
<1> QED BY <1>4, <1>5, <1>6 DEF IInv

-----------------------------------------------------------------------------
(* The handler of the keyboard interrupt.                                  *)

LEMMA HandlerKeeps ==
  ASSUME IInv, KeyInterrupt
  PROVE  IInv'
<1> DEFINE x == Head(ob)
           c == ob \o wire
           km2 == IF x = Prefix THEN "extended" ELSE "plain"
           k == KeyOf(x, keymap)
<1>1. /\ machine = "running" /\ flagIF /\ irq1' = FALSE /\ pc' = Awake
      /\ ob # <<>> /\ ob' = <<>> /\ callbackKeyHandler(x)
      /\ UNCHANGED <<wire, flagIF, buf, cmdline, down, presses, pending>>
  BY DEF KeyInterrupt, main, user
<1>2. /\ TypeOK /\ wire \in Seq(Code) /\ ob \in Seq(Code) /\ c \in Seq(Code)
      /\ keymap \in Maps /\ buf \in Seq(Key) /\ typedkeys \in Seq(Key)
  BY QueuesTyped DEF IInv, TypeOK, Maps
<1>3. Head(c) = x /\ Tail(c) = wire /\ c # <<>> /\ x \in Code
  <2>1. Tail(ob) = <<>>
    <3>1. Len(ob) <= 1 /\ Len(Tail(ob)) = Len(ob) - 1 /\ Tail(ob) \in Seq(Code)
      BY <1>1, <1>2, HeadTailProperties DEF TypeOK
    <3> QED BY <1>2, <3>1, EmptySeq
  <2>2. Tail(ob) \o wire = wire
    BY <1>2, <2>1, ConcatEmptySeq
  <2> QED BY <1>1, <1>2, <2>2, HeadOfConcat, HeadAndTail
<1>4. PICK q \in Seq(Key) : pending = Held \o q /\ OnTheWay(q)
  BY DEF IInv, InOrder
<1>5. Spells(c, keymap, q) /\ TableAfter(c, keymap) = "plain"
  BY <1>1, <1>2, <1>4, SpellingsAre DEF OnTheWay
<1> HIDE DEF c
<1>6. /\ Valid(x, keymap) /\ TableAfter(wire, km2) = "plain"
      /\ Types(x, keymap) => /\ q # <<>> /\ Head(q) = k
                             /\ Spells(wire, km2, Tail(q))
      /\ ~Types(x, keymap) => Spells(wire, km2, q)
  BY <1>2, <1>3, <1>5, SpellsLess
<1>7. keymap' = km2 /\ keymap' \in Maps
  <2>1. x = Ack => keymap = "plain"
    BY <1>6, StrokesTyped DEF Valid
  <2> QED BY <1>1, <2>1, StrokesTyped DEF callbackKeyHandler, NextMap, Maps
<1>8. ob' \o wire' = wire
  BY <1>1, <1>2, ConcatEmptySeq
<1>9. pc # "clear" /\ pc' # "clear" /\ LoopInv'
  <2>1. pc \notin {"copy", "clear", "sti"} /\ LoopInv
    BY <1>1 DEF IInv, LoopInv
  <2>2. CASE pc = "hlt"
    BY <1>1, <2>1, <2>2 DEF Awake, LoopInv
  <2>3. CASE pc # "hlt"
    BY <1>1, <2>1, <2>3 DEF Awake, LoopInv
  <2> QED BY <2>2, <2>3
<1>10. ASSUME typedkeys' \in Seq(Key) PROVE TypeOK'
  <2>1. pc' \in {"startup", "started", "cli", "copy", "clear", "sti", "loop",
                  "append", "hlt"}
    BY <1>1, <1>2 DEF TypeOK, Awake
  <2>2. machine' \in {"running", "break", "reset"}
    BY <1>1 DEF callbackKeyHandler
  <2>3. {irq1', flagIF', reentered'} \subseteq BOOLEAN
    <3>1. reentered \in BOOLEAN /\ flagIF \in BOOLEAN
      BY <1>2 DEF TypeOK
    <3>2. reentered' \in BOOLEAN
      BY <1>1, <3>1 DEF callbackKeyHandler, KeyboardHandler
    <3> QED BY <1>1, <3>1, <3>2
  <2>4. ob' \in Seq(0 .. 255) /\ Len(ob') <= 1
    BY <1>1
  <2>5. keymap' \in {"plain", "extended"}
    BY <1>7 DEF Maps
  <2> QED BY <1>1, <1>2, <1>10, <2>1, <2>2, <2>3, <2>4, <2>5 DEF TypeOK
<1>11. Held = buf \o typedkeys /\ Held' = buf \o typedkeys'
  BY <1>1, <1>9 DEF Held
<1>12. CASE UNCHANGED typedkeys /\ (Types(x, keymap) => machine' # "running")
  <2>1. pending' = Held' \o q
    BY <1>1, <1>4, <1>11, <1>12
  <2>2. OnTheWay(q)'
    <3>1. machine' = "running" => [codes |-> wire, table |-> km2, keys |-> q]
                                    \in Spellings
      BY <1>2, <1>6, <1>7, <1>12, SpellingsAre
    <3> QED BY <1>7, <1>8, <3>1 DEF OnTheWay
  <2>3. InOrder'
    BY <2>1, <2>2 DEF InOrder
  <2> QED BY <1>2, <1>9, <1>10, <1>12, <2>3 DEF IInv
<1>13. CASE Types(x, keymap) /\ typedkeys' = Append(typedkeys, k)
  <2>1. k \in Key
    BY <1>13, TypedKey
  <2>2. /\ Tail(q) \in Seq(Key) /\ <<k>> \o Tail(q) = q
        /\ typedkeys' = typedkeys \o <<k>> /\ <<k>> \in Seq(Key)
    BY <1>2, <1>6, <1>13, <2>1, HeadAndTail, AppendIsConcat
  <2> HIDE DEF k
  <2> PICK r : r = Tail(q)
    OBVIOUS
  <2>3. (buf \o (typedkeys \o <<k>>)) \o r = (buf \o typedkeys) \o q
    <3>1. buf \o (typedkeys \o <<k>>) = (buf \o typedkeys) \o <<k>>
      BY <1>2, <2>2, KeysJoined
    <3>2. buf \o typedkeys \in Seq(Key)
      BY <1>2, Joined
    <3>3. ((buf \o typedkeys) \o <<k>>) \o r = (buf \o typedkeys) \o (<<k>> \o r)
      BY <2>2, <3>2, KeysJoined
    <3> QED BY <2>2, <3>1, <3>3
  <2>4. pending' = Held' \o r
    BY <1>1, <1>4, <1>11, <2>2, <2>3
  <2>5. OnTheWay(r)'
    <3>1. [codes |-> wire, table |-> km2, keys |-> r] \in Spellings
      BY <1>2, <1>6, <1>7, <1>13, <2>2, SpellingsAre
    <3> QED BY <1>7, <1>8, <3>1 DEF OnTheWay
  <2>6. InOrder'
    BY <2>2, <2>4, <2>5 DEF InOrder
  <2>7. typedkeys' \in Seq(Key)
    BY <1>2, <1>13, <2>1, AppendProperties
  <2> QED BY <1>9, <1>10, <2>6, <2>7 DEF IInv
<1>14. \/ UNCHANGED typedkeys /\ (Types(x, keymap) => machine' # "running")
       \/ Types(x, keymap) /\ typedkeys' = Append(typedkeys, k)
  <2>1. CASE x \in {Ack, Prefix}
    BY <1>1, <2>1, StrokesTyped DEF callbackKeyHandler, Types
  <2>2. CASE x \notin {Ack, Prefix}
    <3>1. /\ x \in Strokes /\ (x \in Codes <=> ~(x >= Released))
          /\ KeyCode(x) = k
      <4>1. KeyCode(x) = k
        BY DEF KeyCode, KeyOf
      <4> HIDE DEF x, k
      <4>2. x \in Strokes
        BY <1>6, <2>2 DEF Valid
      <4>3. (x \in Codes <=> x < Released) /\ x \in Code
        BY <4>2, StrokesTyped
      <4>4. x \in Int /\ Released \in Int
        BY <4>3 DEF Code, Released
      <4>5. x < Released <=> ~(x >= Released)
        BY <4>4
      <4> QED BY <4>1, <4>2, <4>3, <4>5
    <3> HIDE DEF k
    <3>2. Types(x, keymap) <=> x \in Codes /\ k # "PAGEUP"
      BY DEF Types, k
    <3>3. \/ k = "RETURN" /\ machine' = "break" /\ UNCHANGED typedkeys
          \/ k = "ESC" /\ x >= Released /\ UNCHANGED typedkeys
          \/ KeyboardHandler(k, x >= Released)
      BY <1>1, <2>2, <3>1 DEF callbackKeyHandler
    <3> HIDE DEF x
    <3> QED BY <3>1, <3>2, <3>3 DEF KeyboardHandler
  <2> QED BY <2>1, <2>2
<1> QED BY <1>12, <1>13, <1>14

-----------------------------------------------------------------------------
(* The main program.                                                       *)

\* Steps that change nothing but the place in the program and the flag.
LEMMA QuietKeeps ==
  ASSUME IInv,
         UNCHANGED <<device, irq1, keymap, typedkeys, main, machine, user,
                     pending, reentered>>,
         flagIF' \in BOOLEAN, LoopInv',
         pc # "clear", pc' \in {"started", "cli", "copy", "loop", "append", "hlt"}
  PROVE  IInv'
<1> USE DEF device, main, user
<1>1. TypeOK'
  <2>1. {irq1', flagIF', reentered'} \subseteq BOOLEAN
    BY DEF IInv, TypeOK
  <2> QED BY <2>1 DEF IInv, TypeOK
<1>2. InOrder'
  BY DEF IInv, InOrder, OnTheWay, Held
<1> QED BY <1>1, <1>2 DEF IInv

LEMMA PlainStepsKeep ==
  ASSUME IInv, \/ LeaveHeap \/ EnterLoop \/ StartAppend \/ Hlt
               \/ TimerInterrupt \/ Cli \/ Sti
  PROVE  IInv'
<1>1. flagIF \in BOOLEAN
  BY DEF IInv, TypeOK
<1> USE DEF At, main, LoopInv
<1>2. CASE LeaveHeap \/ EnterLoop \/ TimerInterrupt
  BY <1>1, <1>2, QuietKeeps DEF IInv, LeaveHeap, EnterLoop, TimerInterrupt
<1>3. CASE StartAppend \/ Hlt
  BY <1>1, <1>3, QuietKeeps DEF IInv, StartAppend, Hlt
<1>4. CASE Cli
  BY <1>1, <1>4, QuietKeeps DEF IInv, Cli, TurnedOff
<1>5. CASE Sti
  BY <1>1, <1>5, QuietKeeps DEF IInv, Sti
<1> QED BY <1>2, <1>3, <1>4, <1>5

\* Between the copy and the clearing, the copy is the queue.
LEMMA CopyClearKeep ==
  ASSUME IInv, Copy \/ Clear
  PROVE  IInv'
<1>1. TypeOK /\ typedkeys \in Seq(Key) /\ buf \in Seq(Key)
  BY DEF IInv, TypeOK
<1>2. CASE Copy
  <2>1. TypeOK'
    BY <1>1, <1>2 DEF Copy, At, TypeOK, device, user
  <2>2. LoopInv'
    BY <1>2 DEF Copy, At, IInv, LoopInv
  <2>3. Held = typedkeys /\ Held' = typedkeys
    <3>1. buf = <<>> /\ pc = "copy" /\ pc' = "clear" /\ typedkeys' = typedkeys
      BY <1>2 DEF Copy, At, IInv, LoopInv
    <3> QED BY <1>1, <3>1, ConcatEmptySeq DEF Held
  <2>4. InOrder'
    BY <1>2, <2>3 DEF Copy, At, IInv, InOrder, OnTheWay, device
  <2> QED BY <2>1, <2>2, <2>4 DEF IInv
<1>3. CASE Clear
  <2>1. TypeOK'
    <3>1. typedkeys' \in Seq(Key)
      BY <1>3 DEF Clear
    <3> QED BY <1>1, <1>3, <3>1 DEF Clear, At, TypeOK, device, main, user
  <2>2. LoopInv'
    BY <1>3 DEF Clear, At, IInv, LoopInv, main
  <2>3. Held' = Held
    <3>1. /\ buf = typedkeys /\ pc = "clear" /\ pc' = "sti" /\ typedkeys' = <<>>
          /\ buf' = buf
      BY <1>3 DEF Clear, At, IInv, LoopInv, main
    <3> QED BY <1>1, <3>1, ConcatEmptySeq DEF Held
  <2>4. InOrder'
    BY <1>3, <2>3 DEF Clear, At, IInv, InOrder, OnTheWay, device
  <2> QED BY <2>1, <2>2, <2>4 DEF IInv
<1> QED BY <1>2, <1>3

\* The loop is done with one key.
LEMMA HandledKeeps ==
  ASSUME IInv, HandleSpecial \/ EndAppend
  PROVE  IInv'
<1> DEFINE Letters == Key \ {"RETURN", "ESC", "BACKSPACE"}
<1>1. /\ TypeOK /\ buf \in Seq(Key) /\ typedkeys \in Seq(Key) /\ buf # <<>>
      /\ cmdline \in Seq(Letters)
      /\ pc \in {"loop", "append"} /\ pc' = "loop" /\ Handled
  BY DEF IInv, TypeOK, LoopInv, HandleSpecial, EndAppend, At
<1>2. /\ buf' = Tail(buf) /\ pending' = Tail(pending)
      /\ UNCHANGED <<ob, wire, irq1, flagIF, keymap, typedkeys, machine, down,
                     presses, reentered>>
  BY <1>1 DEF Handled, device, user
<1>3. PICK q \in Seq(Key) : pending = Held \o q /\ OnTheWay(q)
  BY DEF IInv, InOrder
<1>4. pending' = Held' \o q /\ pending' \in Seq(Key)
  <2>1. Held = buf \o typedkeys /\ Held' = Tail(buf) \o typedkeys
    BY <1>1, <1>2 DEF Held
  <2>2. /\ Held \in Seq(Key) /\ Held # <<>>
        /\ Tail(Held) = Tail(buf) \o typedkeys
    BY <1>1, <2>1, HeadOfConcat
  <2>3. /\ Tail(Held \o q) = Tail(Held) \o q
        /\ Tail(Held) \in Seq(Key) /\ q \in Seq(Key)
    BY <2>2, HeadOfConcat, HeadAndTail
  <2> QED BY <1>2, <1>3, <2>1, <2>2, <2>3, ConcatProperties
<1>5. cmdline' \in Seq(Letters)
  <2>1. CASE EndAppend
    <3>1. cmdline' = Append(cmdline, Head(buf)) /\ Head(buf) \in Letters
      BY <1>1, <2>1, HeadAndTail
         DEF EndAppend, At, IInv, LoopInv, Special
    <3> HIDE DEF Letters
    <3> QED BY <1>1, <3>1, AppendProperties
  <2>2. CASE HandleSpecial
    <3> HIDE DEF Letters
    <3>1. cmdline # <<>> => Front(cmdline) \in Seq(Letters)
      <4>1. Len(cmdline) \in Nat
            /\ \A i \in 1 .. Len(cmdline) - 1 : cmdline[i] \in Letters
        BY <1>1, LenProperties
      <4> QED BY <4>1, SubSeqProperties DEF Front
    <3>2. <<>> \in Seq(Letters)
      OBVIOUS
    <3>3. Head(buf) \in Special
          /\ cmdline' = CASE Head(buf) = "RETURN"    -> <<>>
                          [] Head(buf) = "ESC"       -> cmdline
                          [] Head(buf) = "BACKSPACE" ->
                               IF cmdline = <<>> THEN <<>> ELSE Front(cmdline)
      BY <2>2 DEF HandleSpecial
    <3> QED BY <1>1, <3>1, <3>2, <3>3 DEF Special
  <2> QED BY <2>1, <2>2
<1>6. TypeOK'
  <2>1. buf' \in Seq(Key)
    BY <1>1, <1>2, HeadAndTail
  <2> QED BY <1>1, <1>2, <1>4, <1>5, <2>1 DEF TypeOK
<1>7. LoopInv'
  BY <1>1, <1>2 DEF IInv, LoopInv
<1>8. InOrder'
  BY <1>2, <1>3, <1>4 DEF InOrder, OnTheWay
<1> QED BY <1>6, <1>7, <1>8 DEF IInv

-----------------------------------------------------------------------------
LEMMA StepHolds == IInv /\ [Next]_vars => IInv'
<1> SUFFICES ASSUME IInv, [Next]_vars PROVE IInv'
  OBVIOUS
<1>1. CASE \E k \in UserKeys : Press(k) \/ Release(k)
  BY <1>1, PressKeeps, ReleaseKeeps
<1>2. CASE Acknowledge \/ Fill \/ KeyInterrupt
  BY <1>2, AcknowledgeKeeps, FillKeeps, HandlerKeeps
<1>3. CASE TimerInterrupt \/ MainStep
  BY <1>3, PlainStepsKeep, CopyClearKeep, HandledKeeps DEF MainStep
<1>4. CASE UNCHANGED vars
  <2> USE <1>4 DEF vars, device, main, user
  <2>1. TypeOK'
    BY DEF IInv, TypeOK
  <2>2. LoopInv' /\ InOrder'
    BY DEF IInv, LoopInv, InOrder, OnTheWay, Held
  <2> QED BY <2>1, <2>2 DEF IInv
<1> QED BY <1>1, <1>2, <1>3, <1>4 DEF Next

LEMMA OrderFollows == IInv => KeysInOrder
<1> SUFFICES ASSUME IInv, pc # "clear" PROVE IsPrefix(buf \o typedkeys, pending)
  BY DEF KeysInOrder
<1> DEFINE h == buf \o typedkeys
<1>1. PICK q \in Seq(Key) : pending = h \o q
  BY DEF IInv, InOrder, Held
<1>2. h \in Seq(Key) /\ pending \in Seq(Key)
  BY ConcatProperties DEF IInv, TypeOK
<1> HIDE DEF h
<1>3. /\ Len(h) \in Nat /\ Len(q) \in Nat /\ Len(pending) = Len(h) + Len(q)
      /\ \A i \in 1 .. Len(h) : pending[i] = h[i] /\ h[i] \in Key
  BY <1>1, <1>2, ConcatProperties, LenProperties
<1> DEFINE a == SubSeq(h, 1, Len(h))
           b == SubSeq(pending, 1, Len(h))
<1>4. /\ a \in Seq(Key) /\ b \in Seq(Key) /\ Len(a) = Len(b)
      /\ Len(a) = Len(h)
      /\ \A i \in 1 .. Len(h) : a[i] = h[i] /\ b[i] = pending[i]
  <2>1. /\ a \in Seq(Key) /\ Len(a) = Len(h)
        /\ \A i \in 1 .. Len(h) : a[i] = h[i]
    BY <1>2, SubSeqFull
  <2>2. /\ b \in Seq(Key) /\ Len(b) = Len(h)
        /\ \A i \in 1 .. Len(h) : b[i] = pending[i]
    BY <1>3, SubSeqProperties
  <2> QED BY <2>1, <2>2
<1> HIDE DEF a, b
<1>5. a = b
  BY <1>3, <1>4, SeqEqual
<1> QED BY <1>3, <1>5 DEF IsPrefix, a, b, h

LEMMA Invariance == Spec => []IInv
BY InitHolds, StepHolds, PTL DEF Spec

(* The queue, the loop's copy, the keys under way and the command line     *)
(* hold keys, and the wires hold bytes, whatever is typed.                 *)
THEOREM KeysAreKeys == Spec => []TypeOK
<1>1. IInv => TypeOK
  BY DEF IInv
<1> QED BY <1>1, Invariance, PTL

(* No key is lost, doubled, swapped or misread between the keyboard and    *)
(* the command line, however often keys go down and wherever interrupts    *)
(* come (KeyboardHandler, kernel.cpp:74, and the loop of kernel_main).     *)
THEOREM NoKeyIsLost == Spec => []KeysInOrder
BY OrderFollows, Invariance, PTL
=============================================================================
