------------------------------ MODULE Inttable ------------------------------
(***************************************************************************)
(* The hash table of csutility/Collections/Inttable.cs: open addressing    *)
(* with double hashing.  A slot that a probe sequence has passed carries a *)
(* chain marker, so that a lookup knows when to go on; a removed key       *)
(* leaves its slot behind with the marker; the table grows by rehashing.   *)
(*                                                                         *)
(* KeyEquals(object, object) compares two freshly boxed integers by        *)
(* reference and is false whatever the keys are.                           *)
(***************************************************************************)
EXTENDS Integers, Sequences, FiniteSets, FiniteSetsExt

CONSTANTS
  Keys,       \* the keys callers use
  Values,
  Default,    \* default(Value)
  PrimeTbl,   \* primeTbl: the sizes a table may have
  Overwriting \* callers put keys that are in the table already

MaxValue == 2147483647  \* Int32.MaxValue

NullKey == 0
RemovedKey == -2

ASSUME TableAssumption ==
  /\ \A k \in Keys : k \in -MaxValue .. MaxValue /\ k \notin {NullKey, RemovedKey}
  /\ Default \notin Values
  /\ Overwriting \in BOOLEAN

Sizes == {PrimeTbl[i] : i \in 1 .. Len(PrimeTbl)}

(* The sizes are primes, and so small that spot, which a put and Rehash    *)
(* add up without reducing it, stays an unsigned 32-bit number.            *)
ASSUME PrimeAssumption ==
  /\ PrimeTbl \in Seq(Nat) /\ PrimeTbl # <<>>
  /\ \A p \in Sizes : /\ p >= 3 /\ p * p <= MaxValue
                       /\ \A a, b \in 2 .. p - 1 : a * b # p

(* There is a next size for every table that can become too small for the  *)
(* keys: CalcPrime, for what is beyond primeTbl, is not modelled.          *)
ASSUME GrowthAssumption ==
  /\ IsFiniteSet(Keys)
  /\ \A p \in Sizes :
       (p * 75) \div 100 < Cardinality(Keys) => \E q \in Sizes : 2 * p + 1 <= q

VARIABLES
  table,   \* the slots, from 0
  inUse,   \* the number of keys
  result,  \* what the last call returned
  en       \* one Enumerator: its position, whether its stamp is current, ...
vars == <<table, inUse, result, en>>

-----------------------------------------------------------------------------
EmptySlot == [key |-> NullKey, value |-> Default, hash |-> 0, chain |-> FALSE]

NewTable(size) == [i \in 0 .. size - 1 |-> EmptySlot]

SizeOf(t) == Cardinality(DOMAIN t)

\* The first entry of primeTbl that is not below x.
ToPrime(x) ==
  PrimeTbl[Min({i \in 1 .. Len(PrimeTbl) : x <= PrimeTbl[i]})]

\* key & Int32.MaxValue: without the sign bit.
Hash(key) == IF key >= 0 THEN key ELSE key + MaxValue + 1
Step(h, size) == (((h \div 32) + 1) % (size - 1)) + 1

\* The slots a key's probe visits, in order.
Probe(h, size) == [j \in 0 .. size - 1 |-> ((h % size) + (j * Step(h, size))) % size]

KeyEquals(item, key) == FALSE

\* The place in the probe where P first holds, or the size of the table.
FirstPlace(size, P(_)) == Min({j \in 0 .. size - 1 : P(j)} \cup {size})

(* Find, and the same search in the indexer: up to the key, an empty slot  *)
(* or a slot without the marker.                                           *)
Match(slot, key) ==
  slot.key = key \/ (slot.hash = Hash(key) /\ KeyEquals(key, slot.key))

\* Mutant: a removed slot ends the search.
EndsAtRemoved(slot) == slot.key \in {NullKey, RemovedKey} \/ ~slot.chain
EndsSearch(slot) == slot.key = NullKey \/ ~slot.chain

Find(t, key) ==
  LET size == SizeOf(t)
      probe == Probe(Hash(key), size)
      Here(j) == Match(t[probe[j]], key) \/ EndsSearch(t[probe[j]])
      j0 == FirstPlace(size, Here)
  IN  IF j0 < size /\ Match(t[probe[j0]], key) THEN probe[j0] ELSE -1

-----------------------------------------------------------------------------
(* Rehash: the slots of the old table, the removed ones too, in order into *)
(* a table of the next size; no removed keys are met there.                *)
\* Mutant: the slots passed on the way are not marked.
Unmarked(t, passed) == t
Marked(t, passed) ==
  [i \in DOMAIN t |-> IF i \in passed THEN [t[i] EXCEPT !.chain = TRUE]
                      ELSE t[i]]

Reinsert(t, slot) ==
  LET size == SizeOf(t)
      probe == Probe(slot.hash, size)
      Free(j) == t[probe[j]].key = NullKey
      j0 == FirstPlace(size, Free)
      m == Marked(t, {probe[j] : j \in 0 .. j0 - 1})
  IN  [m EXCEPT ![probe[j0]] = [@ EXCEPT !.key = slot.key, !.value = slot.value,
                                         !.hash = slot.hash]]

Refilled(t) ==
  LET n == SizeOf(t)
      new[i \in 0 .. n] ==
        IF i = 0 THEN NewTable(ToPrime(2 * n + 1))
        ELSE IF t[i-1].key = NullKey THEN new[i-1]
        ELSE Reinsert(new[i-1], t[i-1])
  IN  new

Rehash(t) == Refilled(t)[SizeOf(t)]

Threshold(t) ==
  LET limit == (SizeOf(t) * 75) \div 100
  IN  IF limit >= SizeOf(t) THEN SizeOf(t) - 1 ELSE limit

\* Mutant: the table is allowed to fill up.
GrowWhenFull(t) == inUse >= SizeOf(t)
MustGrow(t) == inUse >= Threshold(t)

(* PutImpl: the key goes to the first removed slot of the probe, or to the *)
(* slot that ends it; the slots before that get the marker.                *)
ReusableSlot(slot) == slot.key = RemovedKey /\ slot.chain
LastSlot(slot) == slot.key = NullKey \/ (slot.key = RemovedKey /\ ~slot.chain)

\* An enumerator's stamp is out of date after any change.
OutOfDate == [en EXCEPT !.current = FALSE]

PutImpl(key, value, overwrite) ==
  LET t == IF MustGrow(table) THEN Rehash(table) ELSE table
      size == SizeOf(t)
      probe == Probe(Hash(key), size)
      Same(j) == t[probe[j]].hash = Hash(key) /\ KeyEquals(key, t[probe[j]].key)
      Stop(j) == LastSlot(t[probe[j]]) \/ Same(j)
      Place(j) == LastSlot(t[probe[j]]) \/ ReusableSlot(t[probe[j]])
      stop == FirstPlace(size, Stop)
      place == FirstPlace(size, Place)
      m == Marked(t, {probe[j] : j \in 0 .. Min({stop, place}) - 1})
  IN  IF stop < size /\ Same(stop)
      THEN /\ table' = IF overwrite THEN [m EXCEPT ![probe[stop]].value = value]
                       ELSE m
           /\ result' = IF overwrite THEN "ok" ELSE "duplicate"
           /\ en' = IF overwrite \/ t # table THEN OutOfDate ELSE en
           /\ UNCHANGED inUse
      ELSE IF place < size
      THEN /\ table' = [m EXCEPT ![probe[place]] =
                          [@ EXCEPT !.key = key, !.value = value,
                                    !.hash = Hash(key)]]
           /\ inUse' = inUse + 1
           /\ result' = "ok"
           /\ en' = OutOfDate
      ELSE /\ table' = m
           /\ result' = "ok"
           /\ en' = IF t # table THEN OutOfDate ELSE en
           /\ UNCHANGED inUse

-----------------------------------------------------------------------------
Allowed(key) == Overwriting \/ Find(table, key) = -1

Add(key, value) == Allowed(key) /\ PutImpl(key, value, FALSE)

Set(key, value) == Allowed(key) /\ PutImpl(key, value, TRUE)

Get(key) ==
  /\ result' = LET i == Find(table, key)
               IN  IF i = -1 THEN Default ELSE table[i].value
  /\ UNCHANGED <<table, inUse, en>>

\* Mutant: the chain is cut at the removed slot.
CutChain(slot) == EmptySlot
RemovedSlot(slot) ==
  [EmptySlot EXCEPT !.chain = slot.chain,
                    !.key = IF slot.chain THEN RemovedKey ELSE NullKey]

Remove(key) ==
  LET i == Find(table, key)
  IN  /\ result' = "ok"
      /\ IF i = -1 THEN UNCHANGED <<table, inUse, en>>
         ELSE /\ table' = [table EXCEPT ![i] = RemovedSlot(@)]
              /\ inUse' = inUse - 1
              /\ en' = OutOfDate

\* Mutant: the count is not reset.
ClearSlots ==
  /\ table' = NewTable(SizeOf(table))
  /\ result' = "ok"
  /\ en' = OutOfDate
  /\ UNCHANGED inUse
Clear ==
  /\ table' = NewTable(SizeOf(table))
  /\ inUse' = 0
  /\ result' = "ok"
  /\ en' = OutOfDate

-----------------------------------------------------------------------------
(* The Enumerator: a stamp of the table, and a position that only moves    *)
(* on; seen are the keys it has shown.                                     *)
Start == [pos |-> -1, current |-> TRUE, seen |-> <<>>]

GetEnumerator == en' = Start /\ UNCHANGED <<table, inUse, result>>

IsKey(slot) == slot.key \notin {NullKey, RemovedKey}

\* Mutant: FailFast is not called.
NoFailFast == TRUE
FailFast == en.current

MoveNext ==
  /\ FailFast
  /\ en.pos < SizeOf(table)
  /\ LET later == {i \in DOMAIN table : i > en.pos /\ IsKey(table[i])}
     IN  en' = IF later = {} THEN [en EXCEPT !.pos = SizeOf(table)]
               ELSE [en EXCEPT !.pos = Min(later),
                               !.seen = Append(@, table[Min(later)].key)]
  /\ UNCHANGED <<table, inUse, result>>

Init ==
  /\ table = NewTable(ToPrime(1))
  /\ inUse = 0
  /\ result = "ok"
  /\ en = Start

Next ==
  \/ \E k \in Keys, v \in Values : Add(k, v) \/ Set(k, v)
  \/ \E k \in Keys : Get(k) \/ Remove(k)
  \/ Clear
  \/ GetEnumerator
  \/ MoveNext

Spec == Init /\ [][Next]_vars

-----------------------------------------------------------------------------
Live == {i \in DOMAIN table : IsKey(table[i])}

(* Slots hold keys and values, and sizes come from primeTbl. *)
TypeOK ==
  /\ SizeOf(table) \in Sizes
  /\ \A i \in DOMAIN table :
       /\ table[i].key \in Keys \cup {NullKey, RemovedKey}
       /\ table[i].value \in Values \cup {Default}
       /\ table[i].hash \in Nat /\ table[i].chain \in BOOLEAN
  /\ inUse \in 0 .. Threshold(table)
  /\ result \in Values \cup {Default, "ok", "duplicate"}

(* A key in the table is found, at its only slot: whatever was removed,    *)
(* reused and rehashed in between, no probe sequence has lost its marks.   *)
ChainsIntact == \A i \in Live : Find(table, table[i].key) = i

(* Count is the number of keys. *)
CountRight == inUse = Cardinality(Live)

(* An enumeration that ran to its end without an exception has shown every *)
(* key once: FailFast notices every change of the table in between.        *)
EnumerationExact ==
  en.pos = SizeOf(table) /\ FailFast =>
    /\ {en.seen[i] : i \in DOMAIN en.seen} = {table[i].key : i \in Live}
    /\ Len(en.seen) = Cardinality(Live)

(* The table is a dictionary as long as no key is put twice. *)
Stored == {table[i].key : i \in Live}
Promise == INSTANCE Dictionary WITH
             Missing <- Default,
             dict <- [k \in Stored |->
                        table[CHOOSE i \in Live : table[i].key = k].value]
RefinesDictionary == Promise!Spec
=============================================================================
